------------------------------- MODULE RpcSpec -------------------------------
(***************************************************************************)
(* What Rpc::call promises the code that uses it, without the loop, the    *)
(* channels or the ids: a call is opened, reaches the kernel at most once  *)
(* (perhaps only after the caller gave up), and returns exactly once, with *)
(* an answer only if the request was really sent.                          *)
(***************************************************************************)
EXTENDS Naturals

CONSTANT Calls

VARIABLES
    running,  \* the plugin is connected
    open,     \* calls that have not returned
    copies,   \* how often the request of a call was sent
    result    \* "none", "reply", "timeout" or "aborted"

vars == <<running, open, copies, result>>

Init ==
    /\ running = TRUE
    /\ open = {}
    /\ copies = [c \in Calls |-> 0]
    /\ result = [c \in Calls |-> "none"]

Open(c) ==
    /\ c \notin open
    /\ result[c] = "none"
    /\ copies[c] = 0
    /\ open' = open \cup {c}
    /\ UNCHANGED <<running, copies, result>>

\* The request may leave while its caller waits or after it gave up, but not
\* before the call, and not twice.
Send(c) ==
    /\ running
    /\ c \in open \/ result[c] = "timeout"
    /\ copies[c] = 0
    /\ copies' = [copies EXCEPT ![c] = 1]
    /\ UNCHANGED <<running, open, result>>

Close(c, r) ==
    /\ c \in open
    /\ open' = open \ {c}
    /\ result' = [result EXCEPT ![c] = r]
    /\ UNCHANGED <<running, copies>>

Reply(c) == copies[c] = 1 /\ Close(c, "reply")

TimeOut(c) == Close(c, "timeout")

Abort(c) == ~running /\ Close(c, "aborted")

Shutdown ==
    /\ running
    /\ running' = FALSE
    /\ UNCHANGED <<open, copies, result>>

Next ==
    \/ \E c \in Calls : Open(c) \/ Send(c) \/ Reply(c) \/ TimeOut(c) \/ Abort(c)
    \/ Shutdown

Spec == Init /\ [][Next]_vars
=============================================================================
