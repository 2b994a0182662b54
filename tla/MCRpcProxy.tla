------------------------------ MODULE MCRpcProxy ------------------------------
(* Instances of the serve loop for TLC.                                      *)
EXTENDS RpcProxy

CONSTANTS t1, t2

\* t1 makes two calls in a row, so that the late answer to its first can meet
\* its second; t2 competes for the channels.
TwoAndOne == [t \in Tasks |-> IF t = t1 THEN 2 ELSE 1]

\* Every plugin whose loop numbers its calls with a counter.
CounterLoops ==
    {AgentLoop, CalendarLoop, ChatsLoop, ClipboardLoop, ContactsLoop, DaemonLoop,
     GithubLoop, LibraryLoop, MetricsLoop, NotesLoop, RssLoop, SchedulerLoop,
     TasksLoop, UptimeLoop, VectorDbLoop}
=============================================================================
