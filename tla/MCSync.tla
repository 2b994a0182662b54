------------------------------- MODULE MCSync -------------------------------
(* The two stores that other devices mirror, for TLC: the shared store of    *)
(* sync with a client of it, and the chats with their lanes and a client of  *)
(* chat_sync.  A behaviour is about one of them, part; the other rests.      *)
EXTENDS Sync, TLC

CONSTANTS None,
          Sessions, Turns, MaxLate, PageLimits, MaxAttempts, Instances   \* of Chats

VARIABLES part,
          inst, rev, sess, turn, tomb, job, swept, cycle, vec, late, facts, work, clean,
          reader, search

chatsVars == <<inst, rev, sess, turn, tomb, job, swept, cycle, vec, late, facts, work, clean,
               reader, search>>
mcVars == <<part, vars, chatsVars>>

Ch == INSTANCE Chats WITH client <- reader
ASSUME ChatBounds == Ch!BoundsAssumption

Chat(sessions, turns, maxRev, parts) ==
  [sessions |-> sessions, turns |-> turns, maxRev |-> maxRev, parts |-> parts]
TwoSessions == {"s1", "s2"}
TwoTurns == {"u1", "u2"}
\* Two turns in the lanes, one with a summary and a crash, a cleanup of two
\* sessions, goals and facts of the agent before and after the delete, a search,
\* and a client of two sessions.
SafetyInstances ==
  {Chat({"s1"}, TwoTurns, 4, {"embed", "cleanup"}),
   Chat({"s1"}, {"u1"}, 4, {"summary", "embed", "cleanup", "crash"}),
   Chat(TwoSessions, {}, 4, {"cleanup"}),
   Chat({"s1"}, {"u1"}, 4, {"cleanup", "agent"}),
   Chat({"s1"}, {"u1"}, 3, {"embed", "search"}),
   Chat(TwoSessions, {"u1"}, 5, {"summary", "client"}),
   Chat(TwoSessions, TwoTurns, 4, {"summary", "client"})}
\* One session with one turn, and the cascade that removes its vectors, or what the
\* agent keeps of it.
OneSession == {"s1"}
OneTurn == {"u1"}
LiveInstances == {Chat(OneSession, OneTurn, 3, {"embed", "cleanup"}),
                  Chat(OneSession, OneTurn, 3, {"cleanup", "agent"})}

TaskSymmetry == Permutations(Tasks)

-----------------------------------------------------------------------------
chatsOff == /\ inst = None /\ rev = None /\ sess = None /\ turn = None /\ tomb = None
            /\ job = None /\ swept = None /\ cycle = None /\ vec = None /\ late = None
            /\ facts = None /\ work = None /\ clean = None /\ reader = None /\ search = None
MCInit == \/ part = "sync" /\ Init /\ chatsOff
          \/ part = "chats" /\ Init /\ Ch!Init
syncNext == part = "sync" /\ Next /\ UNCHANGED <<part, chatsVars>>
chatsNext == part = "chats" /\ Ch!Next /\ UNCHANGED <<part, vars>>
MCSpec == MCInit /\ [][syncNext \/ chatsNext]_mcVars

\* sync: tasks are scheduled, the kernel delivers what it holds, and the client
\* comes back after its backoff.  The kernel hands requests over in order, so
\* writers cannot keep a pull from being handled.  Nobody has to write.
SyncFairness ==
  LET On == part = "sync" IN
  /\ \A t \in Tasks : WF_vars(On /\ HostStep(t))
  /\ SF_vars(On /\ \E t \in Tasks : PullBegin(t))
  /\ WF_vars(On /\ ClientStep) /\ WF_vars(On /\ Connect)

\* chats: each lane keeps running its passes; ai, vector-db and agent answer
\* again and again, and a write that was sent lands or is lost.
ChatsFairness ==
  LET On == part = "chats" IN
  /\ WF_chatsVars(On /\ Ch!WorkNext)
  /\ WF_chatsVars(On /\ \E d \in late : Ch!LateLands(d))
  /\ WF_chatsVars(On /\ Ch!CleanNext)
  /\ SF_chatsVars(On /\ Ch!CleanBegin({s \in Sessions : job[s].queued /\ job[s].wait}))
  /\ \A s \in Sessions :
       SF_chatsVars(On /\ \E j \in clean.jobs : j.id = s
                      /\ Ch!JobCalls(j, Ch!VecSteps(j), Ch!AgentSteps(j), {}, FALSE))
  /\ SF_chatsVars(On /\ \E old \in SUBSET Sessions :
       Ch!SweepPlan(old, {s \in Sessions : cycle /\ swept[s].wait}, TRUE))
  /\ SF_chatsVars(On /\ Ch!SweepCalls(clean.rows, {}))

\* DeletedIsForgotten looks at the chats of every behaviour, at rest or not.
LiveInit == part \in {"sync", "chats"} /\ Init /\ Ch!Init
LiveSpec == /\ LiveInit /\ [][syncNext \/ chatsNext]_mcVars
            /\ SyncFairness /\ ChatsFairness

-----------------------------------------------------------------------------
\* The stored sessions are well formed, no turn is left out of a summary, what is
\* left of a deleted session is known to a job and shown to nobody, and a client
\* at rest holds the live state (store.rs, summary.rs, cascade.rs, sync.rs).
ChatsInv == part = "chats" => Ch!ChatsInv
\* No vector of a deleted session is forgotten by everyone (cascade, sweep).
NothingLeaks == part = "chats" => Ch!NothingLeaks
\* Once chat_delete returned, the session's vectors, the goals its turns named and
\* the facts listed under it go for good, as long as vector-db and the agent answer
\* again and again (cascade, sweep); a goal still running then and facts stored
\* later may stay.
DeletedIsForgotten == Ch!DeletedIsForgotten
=============================================================================
