------------------------------ MODULE RpcProxy ------------------------------
(***************************************************************************)
(* The serve loop every plugin is built around, and the Rpc handle its     *)
(* request handlers use.  The actions follow plugins/agent, the fullest    *)
(* instance (it multiplexes routed actions and kernel commands over one    *)
(* loop); the other plugins carry their own copy of the loop, and where a  *)
(* copy differs is said by its record of LoopShapes.                       *)
(*                                                                         *)
(* One task owns the kernel connection and is its only reader.  Every      *)
(* inbound ActionRequest is handled by a task of its own; a handler that   *)
(* needs another plugin posts a call on a bounded channel and waits on a   *)
(* oneshot.  The loop numbers the call, remembers the oneshot under that   *)
(* number in `pending', forwards the request, and gives whatever response  *)
(* arrives later to the oneshot its id names.  The caller stops waiting at *)
(* its timeout, but neither its entry in `pending' nor its request is      *)
(* withdrawn: the answer may still come, to a handler that has moved on.   *)
(***************************************************************************)
EXTENDS Integers, Sequences, FiniteSets

(* The branches in which one plugin's loop differs from another's.          *)
LoopShapes == [
    commands  : BOOLEAN,  \* handlers may also send kernel commands
    ticks     : BOOLEAN,  \* an interval spawns scan tasks
    publishes : BOOLEAN,  \* a handled request may publish an event
    prunes    : BOOLEAN,  \* entries whose caller gave up leave `pending'
    sendTimed : BOOLEAN]  \* the timeout covers the channel send too

PlainLoop == [commands |-> FALSE, ticks |-> FALSE, publishes |-> TRUE,
              prunes |-> FALSE, sendTimed |-> FALSE]

AgentLoop       == [PlainLoop EXCEPT !.commands = TRUE]
CalendarLoop    == [PlainLoop EXCEPT !.ticks = TRUE]
ChatsLoop       == [PlainLoop EXCEPT !.prunes = TRUE, !.sendTimed = TRUE]
ClipboardLoop   == [PlainLoop EXCEPT !.publishes = FALSE]
ContactsLoop    == PlainLoop
DaemonLoop      == [PlainLoop EXCEPT !.ticks = TRUE]
GithubLoop      == PlainLoop
LibraryLoop     == PlainLoop
MetricsLoop     == [PlainLoop EXCEPT !.ticks = TRUE]
NotesLoop       == PlainLoop
RssLoop         == PlainLoop
SchedulerLoop   == [PlainLoop EXCEPT !.ticks = TRUE]
TasksLoop       == PlainLoop
UptimeLoop      == [PlainLoop EXCEPT !.ticks = TRUE]
VectorDbLoop    == PlainLoop

CONSTANTS
    Loops,       \* the plugins considered, by the shape of their loop
    Tasks,       \* inbound requests and scans, one task each
    Scans,       \* the tasks the interval spawns, where the loop has one
    Commanders,  \* the tasks whose calls are kernel commands
    MaxCalls,    \* how many calls each handler makes, one after the other
    ChanCap,     \* capacity of the rpc channel (64 in the code)
    OutCap       \* capacity of the outbound channel (64 in the code)

ASSUME RpcAssumption ==
    /\ Loops \subseteq LoopShapes
    /\ Scans \subseteq Tasks
    /\ Commanders \subseteq Tasks
    /\ MaxCalls \in [Tasks -> Nat]
    /\ ChanCap \in Nat \ {0}
    /\ OutCap \in Nat \ {0}

\* A call is named by its handler and its number among that handler's calls.
Calls == UNION {[task : {t}, n : 1..MaxCalls[t]] : t \in Tasks}

\* Correlation ids live in two name spaces that cannot meet.
Ids == [space : {"rpc", "cmd"}, num : Nat]

\* The number of a routed call is assigned by the loop, a command's by its
\* caller.
Numbered == [space |-> "rpc", num |-> 0]

Bindings == [id : Ids, call : Calls]

NoReply == [kind |-> "none"]
TimedOut == [kind |-> "timeout"]
Aborted == [kind |-> "aborted"]
ReplyOf(c) == [kind |-> "reply", of |-> c]

Frames == [task : Tasks, what : {"response", "event"}]

VARIABLES
    plug,      \* the plugin that runs, by the shape of its loop
    loop,      \* "running" or "stopped"
    seq,       \* last number the loop gave to a message
    cmdId,     \* next_command_id of the Rpc handle
    pc,        \* what each handler is doing
    ncall,     \* number of the call a handler made last
    carried,   \* id a handler's current message carries
    chan,      \* rpc channel
    pending,   \* the loop's map from id to waiting oneshot
    wire,      \* requests forwarded to the kernel
    inbox,     \* responses on their way back
    slot,      \* what each call's oneshot holds
    outcome,   \* what each call returned to its handler
    outbound   \* outbound channel

vars == <<plug, loop, seq, cmdId, pc, ncall, carried, chan, pending, wire,
          inbox, slot, outcome, outbound>>

Pcs == {"absent", "handling", "sending", "waiting", "replying", "publishing",
        "done"}

ThisCall(t) == [task |-> t, n |-> ncall[t]]

Init ==
    /\ plug \in Loops
    /\ loop = "running"
    /\ seq = 0
    /\ cmdId = 1
    /\ pc = [t \in Tasks |-> "absent"]
    /\ ncall = [t \in Tasks |-> 0]
    /\ carried = [t \in Tasks |-> Numbered]
    /\ chan = <<>>
    /\ pending = {}
    /\ wire = {}
    /\ inbox = {}
    /\ slot = [c \in Calls |-> NoReply]
    /\ outcome = [c \in Calls |-> NoReply]
    /\ outbound = <<>>

----------------------------------------------------------------------------
(* The handler tasks.                                                       *)

Scanning(t) == plug.ticks /\ t \in Scans

Commanding(t) == plug.commands /\ t \in Commanders

\* Rpc::call / Rpc::call_command up to the channel send: a fresh oneshot,
\* and for a command the id it will be correlated by.
BeginCall(t) ==
    /\ pc[t] = "handling"
    /\ ncall[t] < MaxCalls[t]
    /\ pc' = [pc EXCEPT ![t] = "sending"]
    /\ ncall' = [ncall EXCEPT ![t] = @ + 1]
    /\ IF Commanding(t)
         THEN /\ carried' = [carried EXCEPT ![t] = [space |-> "cmd", num |-> cmdId]]
              /\ cmdId' = cmdId + 1
         ELSE UNCHANGED <<carried, cmdId>>
    /\ UNCHANGED <<plug, loop, seq, chan, pending, wire, inbox, slot, outcome,
                   outbound>>

\* tx.send(..).await: waits while the channel is full, fails once the loop
\* has dropped the receiver.
Post(t) ==
    /\ pc[t] = "sending"
    /\ \/ /\ loop = "running"
          /\ Len(chan) < ChanCap
          /\ chan' = Append(chan, [id |-> carried[t], call |-> ThisCall(t)])
          /\ pc' = [pc EXCEPT ![t] = "waiting"]
          /\ UNCHANGED outcome
       \/ /\ loop = "stopped"
          /\ outcome' = [outcome EXCEPT ![ThisCall(t)] = Aborted]
          /\ pc' = [pc EXCEPT ![t] = "handling"]
          /\ UNCHANGED chan
    /\ UNCHANGED <<plug, loop, seq, cmdId, ncall, carried, pending, wire,
                   inbox, slot, outbound>>

\* The oneshot sender of a call is alive while its message is in the channel
\* or its entry is in `pending'.
SenderAlive(c) ==
    \/ \E i \in DOMAIN chan : chan[i].call = c
    \/ \E p \in pending : p.call = c

Return(t, result) ==
    /\ outcome' = [outcome EXCEPT ![ThisCall(t)] = result]
    /\ pc' = [pc EXCEPT ![t] = "handling"]
    /\ UNCHANGED <<plug, loop, seq, cmdId, ncall, carried, chan, pending,
                   wire, inbox, slot, outbound>>

\* timeout(effective, rx): the oneshot is polled before the timer, so a value
\* that is already there wins.
TakeReply(t) ==
    /\ pc[t] = "waiting"
    /\ slot[ThisCall(t)] # NoReply
    /\ Return(t, slot[ThisCall(t)])

FindAborted(t) ==
    /\ pc[t] = "waiting"
    /\ slot[ThisCall(t)] = NoReply
    /\ ~SenderAlive(ThisCall(t))
    /\ Return(t, Aborted)

\* Mutant of TimeOut: the timer only covers the wait in the channel.
TimeOutQueuedOnly(t) ==
    /\ pc[t] = "waiting"
    /\ \E i \in DOMAIN chan : chan[i].call = ThisCall(t)
    /\ Return(t, TimedOut)

TimeOut(t) ==
    /\ pc[t] = "waiting"
    /\ slot[ThisCall(t)] = NoReply
    /\ SenderAlive(ThisCall(t))
    /\ Return(t, TimedOut)

\* Where the timeout wraps the whole round trip, it also ends a send that
\* finds the channel full.
TimeOutSending(t) ==
    /\ plug.sendTimed
    /\ pc[t] = "sending"
    /\ loop = "running"
    /\ Len(chan) >= ChanCap
    /\ Return(t, TimedOut)

\* The handler has its result and turns to its own caller; a scan has none,
\* and publishes what it found, if anything.  The events of one scan (metrics,
\* uptime) leave one after the other and are modelled as one.
Finish(t) ==
    /\ pc[t] = "handling"
    /\ \E next \in IF Scanning(t) THEN {"publishing", "done"} ELSE {"replying"} :
          pc' = [pc EXCEPT ![t] = next]
    /\ UNCHANGED <<plug, loop, seq, cmdId, ncall, carried, chan, pending,
                   wire, inbox, slot, outcome, outbound>>

\* out.send(..).await; its error, once the loop is gone, is ignored.
PutOut(t, what) ==
    \/ /\ loop = "running"
       /\ Len(outbound) < OutCap
       /\ outbound' = Append(outbound, [task |-> t, what |-> what])
    \/ /\ loop = "stopped"
       /\ UNCHANGED outbound

\* The response goes out first; Ok(result) with an event publishes it next.
SendResponse(t) ==
    /\ pc[t] = "replying"
    /\ PutOut(t, "response")
    /\ \E next \in {"done"} \cup (IF plug.publishes THEN {"publishing"} ELSE {}) :
          pc' = [pc EXCEPT ![t] = next]
    /\ UNCHANGED <<plug, loop, seq, cmdId, ncall, carried, chan, pending,
                   wire, inbox, slot, outcome>>

PublishEvent(t) ==
    /\ pc[t] = "publishing"
    /\ PutOut(t, "event")
    /\ pc' = [pc EXCEPT ![t] = "done"]
    /\ UNCHANGED <<plug, loop, seq, cmdId, ncall, carried, chan, pending,
                   wire, inbox, slot, outcome>>

----------------------------------------------------------------------------
(* The serve loop: the branches of its select!.                             *)

\* client.recv() yields an ActionRequest: a handler is spawned.
RecvRequest(t) ==
    /\ loop = "running"
    /\ ~Scanning(t)
    /\ pc[t] = "absent"
    /\ pc' = [pc EXCEPT ![t] = "handling"]
    /\ UNCHANGED <<plug, loop, seq, cmdId, ncall, carried, chan, pending,
                   wire, inbox, slot, outcome, outbound>>

\* interval.tick(): a scan is spawned, whether or not the last one has ended.
SpawnScan(t) ==
    /\ loop = "running"
    /\ Scanning(t)
    /\ pc[t] = "absent"
    /\ pc' = [pc EXCEPT ![t] = "handling"]
    /\ UNCHANGED <<plug, loop, seq, cmdId, ncall, carried, chan, pending,
                   wire, inbox, slot, outcome, outbound>>

\* Entries whose oneshot nobody waits on any more may be dropped first.
Awaited(c) == pc[c.task] = "waiting" /\ c = ThisCall(c.task)

Kept == IF plug.prunes THEN {q \in pending : Awaited(q.call)} ELSE pending

\* pending.insert: an entry already there under the same id is replaced, and
\* its oneshot dropped.
Insert(p) == {q \in Kept : q.id # p.id} \cup {p}

\* Mutant of AssignId: commands share the name space of routed actions.
AssignIdShared(m) ==
    IF m.id.space = "cmd" THEN [space |-> "rpc", num |-> m.id.num]
    ELSE [space |-> "rpc", num |-> seq + 1]

\* The id a message taken from the channel is sent under.
AssignId(m) ==
    IF m.id.space = "cmd" THEN m.id
    ELSE [space |-> "rpc", num |-> seq + 1]

\* Mutant of Forward: the message is looked at but not taken.
ForwardPeek ==
    /\ loop = "running"
    /\ chan # <<>>
    /\ LET b == [id |-> AssignId(Head(chan)), call |-> Head(chan).call]
       IN  /\ pending' = Insert(b)
           /\ wire' \in {wire, wire \cup {b}}
    /\ seq' = seq + 1
    /\ chan' \in {chan, Tail(chan)}
    /\ seq < 5
    /\ UNCHANGED <<plug, loop, cmdId, pc, ncall, carried, inbox, slot,
                   outcome, outbound>>

\* rpc_rx.recv(): number, remember, forward.  The outcome of client.send is
\* ignored, so the request may be lost here.
Forward ==
    /\ loop = "running"
    /\ chan # <<>>
    /\ LET b == [id |-> AssignId(Head(chan)), call |-> Head(chan).call]
       IN  /\ pending' = Insert(b)
           /\ wire' \in {wire, wire \cup {b}}
    /\ seq' = seq + 1
    /\ chan' = Tail(chan)
    /\ UNCHANGED <<plug, loop, cmdId, pc, ncall, carried, inbox, slot,
                   outcome, outbound>>

\* Mutant of Deliver: the oneshot is closed with an abort instead.
DeliverAbort(c, reply) == [slot EXCEPT ![c] = Aborted]

\* reply.send: dropped when the caller no longer waits for this very call.
Deliver(c, reply) ==
    IF Awaited(c)
      THEN [slot EXCEPT ![c] = reply]
      ELSE slot

\* client.recv() yields an ActionResponse or a KernelCommandAck.
RecvResponse(r) ==
    /\ loop = "running"
    /\ r \in inbox
    /\ inbox' = inbox \ {r}
    /\ pending' = {p \in pending : p.id # r.id}
    /\ \/ \E p \in pending : p.id = r.id /\ slot' = Deliver(p.call, ReplyOf(r.call))
       \/ ~(\E p \in pending : p.id = r.id) /\ UNCHANGED slot
    /\ UNCHANGED <<plug, loop, seq, cmdId, pc, ncall, carried, chan, wire,
                   outcome, outbound>>

\* outbound_rx.recv(): written to the kernel in channel order.
WriteOut ==
    /\ loop = "running"
    /\ outbound # <<>>
    /\ outbound' = Tail(outbound)
    /\ UNCHANGED <<plug, loop, seq, cmdId, pc, ncall, carried, chan, pending,
                   wire, inbox, slot, outcome>>

\* Disconnect, EOF or PluginShutdown: the loop returns and drops the channels
\* and every oneshot it still holds.
Stop ==
    /\ loop = "running"
    /\ loop' = "stopped"
    /\ chan' = <<>>
    /\ pending' = {}
    /\ outbound' = <<>>
    /\ UNCHANGED <<plug, seq, cmdId, pc, ncall, carried, wire, inbox, slot,
                   outcome>>

----------------------------------------------------------------------------
(* The kernel and the plugin behind it: may answer any request it received, *)
(* late, out of order, twice or never.                                      *)

Answer(b) ==
    /\ b \in wire \ inbox
    /\ inbox' = inbox \cup {b}
    /\ UNCHANGED <<plug, loop, seq, cmdId, pc, ncall, carried, chan, pending,
                   wire, slot, outcome, outbound>>

Terminated ==
    /\ \A t \in Tasks : pc[t] = "done" \/ (pc[t] = "absent" /\ loop = "stopped")
    /\ UNCHANGED vars

Handler(t) ==
    \/ BeginCall(t) \/ Post(t)
    \/ TakeReply(t) \/ FindAborted(t) \/ TimeOut(t) \/ TimeOutSending(t)
    \/ Finish(t) \/ SendResponse(t) \/ PublishEvent(t)

Next ==
    \/ \E t \in Tasks : Handler(t) \/ RecvRequest(t) \/ SpawnScan(t)
    \/ Forward \/ WriteOut \/ Stop \/ Terminated
    \/ \E b \in inbox : RecvResponse(b)
    \/ \E b \in wire : Answer(b)

(* The runtime polls the loop and every ready task, and timers fire; the     *)
(* kernel owes the plugin nothing.                                           *)
Fairness ==
    /\ WF_vars(Forward) /\ WF_vars(WriteOut)
    /\ \A t \in Tasks : WF_vars(Handler(t))

Spec == Init /\ [][Next]_vars /\ Fairness

----------------------------------------------------------------------------
(* Properties.                                                              *)

Replies == {ReplyOf(c) : c \in Calls}
Outcomes == {NoReply, TimedOut, Aborted} \cup Replies

TypeOK ==
    /\ plug \in Loops
    /\ loop \in {"running", "stopped"}
    /\ seq \in Nat /\ cmdId \in Nat
    /\ pc \in [Tasks -> Pcs]
    /\ ncall \in [Tasks -> Nat]
    /\ \A t \in Tasks : ncall[t] <= MaxCalls[t]
    /\ \A t \in Tasks : pc[t] \in {"sending", "waiting"} => ncall[t] > 0
    /\ carried \in [Tasks -> Ids]
    /\ chan \in Seq(Bindings)
    /\ pending \subseteq Bindings
    /\ wire \subseteq Bindings
    /\ inbox \subseteq Bindings
    /\ slot \in [Calls -> {NoReply} \cup Replies]
    /\ outcome \in [Calls -> Outcomes]
    /\ outbound \in Seq(Frames)

(* A call that returns a payload returns the answer to its own request, never *)
(* one meant for another handler or for an earlier call of the same handler   *)
(* that had already timed out (main.rs: pending.remove(&resp.action_id)).     *)
ReplyIsOwn ==
    \A c \in Calls : outcome[c].kind = "reply" => outcome[c].of = c

(* "aborted: serve loop is shutting down" is only ever reported when the loop *)
(* has in fact stopped: no oneshot is dropped by a colliding pending.insert   *)
(* (lib.rs, Rpc::call, the Ok(Err(_)) arm).                                   *)
AbortedOnlyOnShutdown ==
    (\E c \in Calls : outcome[c] = Aborted) => loop = "stopped"

(* Every request and every scan is handled to the end although the kernel  *)
(* may never answer a call, both channels are bounded and the loop feeds the  *)
(* tasks that feed it.                                                        *)
EveryRequestIsHandled ==
    \A t \in Tasks : pc[t] = "handling" ~> pc[t] = "done"

(* What a caller of Rpc::call is promised, see RpcSpec.                       *)
Abstract == INSTANCE RpcSpec WITH
    running <- loop = "running",
    open    <- {[task |-> t, n |-> ncall[t]] :
                    t \in {u \in Tasks : pc[u] \in {"sending", "waiting"}}},
    copies  <- [c \in Calls |-> Cardinality({b \in wire : b.call = c})],
    result  <- [c \in Calls |-> outcome[c].kind]

ImplementsRpcSpec == Abstract!Spec
=============================================================================
