--------------------------- MODULE RpcProxy_proofs ---------------------------
(***************************************************************************)
(* For every shape of the loop, every number of handlers, scans and calls  *)
(* and every channel capacity: the serve loop keeps its types, gives a     *)
(* caller only the answer to its own request, and never reports a shutdown *)
(* that did not happen.                                                    *)
(***************************************************************************)
EXTENDS RpcProxy, SequenceTheorems, FiniteSetTheorems, TLAPS

(* What a task may name as its current call is a call.                       *)
LEMMA ThisCallType ==
    ASSUME TypeOK, NEW t \in Tasks, ncall[t] > 0
    PROVE  ThisCall(t) \in Calls
BY RpcAssumption DEF TypeOK, ThisCall, Calls

(* Type correctness of every step of the handlers, the loop and the kernel. *)
LEMMA TypeStep == TypeOK /\ [Next]_vars => TypeOK'
<1> SUFFICES ASSUME TypeOK, [Next]_vars PROVE TypeOK'
  OBVIOUS
<1> USE RpcAssumption
<1>1. ASSUME NEW t \in Tasks, BeginCall(t) PROVE TypeOK'
  <2>1. [space |-> "cmd", num |-> cmdId] \in Ids
    BY DEF TypeOK, Ids
  <2>2. ncall[t] + 1 \in Nat /\ ncall[t] + 1 <= MaxCalls[t] /\ cmdId + 1 \in Nat
    BY <1>1 DEF TypeOK, BeginCall
  <2>3. pc' \in [Tasks -> Pcs]
    BY <1>1 DEF TypeOK, BeginCall, Pcs
  <2>4. carried' \in [Tasks -> Ids] /\ cmdId' \in Nat
    BY <1>1, <2>1, <2>2 DEF TypeOK, BeginCall
  <2>5. /\ ncall' \in [Tasks -> Nat]
        /\ \A u \in Tasks : /\ ncall'[u] <= MaxCalls[u]
                            /\ pc'[u] \in {"sending", "waiting"} => ncall'[u] > 0
    BY <1>1, <2>2 DEF TypeOK, BeginCall
  <2> QED
    BY <1>1, <2>3, <2>4, <2>5 DEF TypeOK, BeginCall
<1>2. ASSUME NEW t \in Tasks, Post(t) PROVE TypeOK'
  <2>1. ThisCall(t) \in Calls
    BY <1>2, ThisCallType DEF Post, TypeOK
  <2>2. [id |-> carried[t], call |-> ThisCall(t)] \in Bindings
    BY <2>1 DEF TypeOK, Bindings
  <2>3. chan' \in Seq(Bindings)
    <3>1. Append(chan, [id |-> carried[t], call |-> ThisCall(t)]) \in Seq(Bindings)
      BY <2>2, AppendProperties DEF TypeOK
    <3> QED
      BY <1>2, <3>1 DEF TypeOK, Post
  <2>4. outcome' \in [Calls -> Outcomes]
    BY <1>2, <2>1 DEF TypeOK, Post, Outcomes
  <2>5. pc' \in [Tasks -> Pcs]
    BY <1>2 DEF TypeOK, Post, Pcs
  <2> QED
    BY <1>2, <2>3, <2>4, <2>5 DEF TypeOK, Post
<1>3. ASSUME NEW t \in Tasks, NEW r \in Outcomes,
             pc[t] \in {"sending", "waiting"}, Return(t, r)
      PROVE  TypeOK'
  <2>1. ThisCall(t) \in Calls
    BY <1>3, ThisCallType DEF TypeOK
  <2>2. outcome' \in [Calls -> Outcomes]
    BY <1>3, <2>1 DEF TypeOK, Return
  <2>3. pc' \in [Tasks -> Pcs]
    BY <1>3 DEF TypeOK, Return, Pcs
  <2> QED
    BY <1>3, <2>2, <2>3 DEF TypeOK, Return
<1>4. ASSUME NEW t \in Tasks, TakeReply(t) PROVE TypeOK'
  <2>1. ThisCall(t) \in Calls
    BY <1>4, ThisCallType DEF TypeOK, TakeReply
  <2>2. slot[ThisCall(t)] \in Outcomes
    BY <2>1 DEF TypeOK, Outcomes
  <2> QED
    BY <1>3, <1>4, <2>2 DEF TakeReply
<1>5. ASSUME NEW t \in Tasks, FindAborted(t) \/ TimeOut(t) \/ TimeOutSending(t)
      PROVE  TypeOK'
  <2>1. Aborted \in Outcomes /\ TimedOut \in Outcomes
    BY DEF Outcomes
  <2> QED
    BY <1>3, <1>5, <2>1 DEF FindAborted, TimeOut, TimeOutSending
<1>6. ASSUME NEW t \in Tasks, Finish(t) \/ RecvRequest(t) \/ SpawnScan(t)
      PROVE  TypeOK'
  BY <1>6 DEF TypeOK, Finish, RecvRequest, SpawnScan, Pcs
<1>7. ASSUME NEW t \in Tasks, SendResponse(t) \/ PublishEvent(t) PROVE TypeOK'
  <2>1. outbound' \in Seq(Frames)
    <3>1. /\ [task |-> t, what |-> "response"] \in Frames
          /\ [task |-> t, what |-> "event"] \in Frames
      BY DEF Frames
    <3>2. \A f \in Frames : Append(outbound, f) \in Seq(Frames)
      BY AppendProperties DEF TypeOK
    <3> QED
      BY <1>7, <3>1, <3>2 DEF TypeOK, SendResponse, PublishEvent, PutOut
  <2>2. pc' \in [Tasks -> Pcs] /\ \A u \in Tasks : pc'[u] \in {"sending", "waiting"} => ncall[u] > 0
    BY <1>7 DEF TypeOK, SendResponse, PublishEvent, Pcs
  <2> QED
    BY <1>7, <2>1, <2>2 DEF TypeOK, SendResponse, PublishEvent
<1>8. CASE Forward
  <2>1. Head(chan) \in Bindings /\ Tail(chan) \in Seq(Bindings)
    BY <1>8 DEF TypeOK, Forward
  <2>2. AssignId(Head(chan)) \in Ids
    BY <2>1 DEF TypeOK, AssignId, Ids, Bindings
  <2>3. [id |-> AssignId(Head(chan)), call |-> Head(chan).call] \in Bindings
    BY <2>1, <2>2 DEF Bindings
  <2> QED
    BY <1>8, <2>1, <2>3 DEF TypeOK, Forward, Insert, Kept
<1>9. ASSUME NEW r \in inbox, RecvResponse(r) PROVE TypeOK'
  <2>1. slot' \in [Calls -> {NoReply} \cup Replies]
    BY <1>9 DEF TypeOK, RecvResponse, Deliver, Replies, Bindings
  <2> QED
    BY <1>9, <2>1 DEF TypeOK, RecvResponse
<1>10. CASE WriteOut
  BY <1>10 DEF TypeOK, WriteOut
<1>11. CASE Stop
  BY <1>11 DEF TypeOK, Stop
<1>12. ASSUME NEW b \in wire, Answer(b) PROVE TypeOK'
  BY <1>12 DEF TypeOK, Answer
<1>13. CASE UNCHANGED vars
  BY <1>13 DEF TypeOK, vars
<1> QED
  BY <1>1, <1>2, <1>4, <1>5, <1>6, <1>7, <1>8, <1>9, <1>10, <1>11, <1>12,
     <1>13 DEF Next, Handler, Terminated

(* Every state of every behaviour of the serve loop is well typed.           *)
THEOREM TypeCorrect == Spec => []TypeOK
<1>1. Init => TypeOK
  BY RpcAssumption DEF Init, TypeOK, Pcs, Numbered, Ids, Outcomes
<1> QED
  BY <1>1, TypeStep, PTL DEF Spec

----------------------------------------------------------------------------
(* The invariant behind correlation.                                        *)

Elements(s) == {s[i] : i \in DOMAIN s}

\* Everything an id has been bound to: what the loop remembers, what it sent,
\* what is on its way back, and the commands that wait in the channel.
Bound == pending \cup wire \cup inbox
           \cup {m \in Elements(chan) : m.id.space = "cmd"}

IdsDetermineCalls ==
    \A b1, b2 \in Bound : b1.id = b2.id => b1.call = b2.call

\* Numbers are taken from counters that only grow.
IdsAreUsed ==
    \A b \in Bound : \/ b.id.space = "rpc" /\ b.id.num <= seq
                     \/ b.id.space = "cmd" /\ b.id.num < cmdId

\* The id of a command that is not in the channel yet is nobody else's.
CarriedIdsAreFresh ==
    \A t \in Tasks :
        pc[t] = "sending" /\ Commanding(t) =>
            /\ carried[t].space = "cmd" /\ carried[t].num < cmdId
            /\ \A b \in Bound : b.id # carried[t]
            /\ \A u \in Tasks :
                  pc[u] = "sending" /\ Commanding(u) /\ u # t =>
                      carried[u] # carried[t]

PlainCallsCarryNoId ==
    \A t \in Tasks : ~Commanding(t) => carried[t] = Numbered

\* Nobody waits for a oneshot that was dropped behind its back.
WaitersAreKnown ==
    loop = "running" =>
        \A t \in Tasks :
            pc[t] = "waiting" /\ slot[ThisCall(t)] = NoReply =>
                SenderAlive(ThisCall(t))

SlotsHoldOwnReply == \A c \in Calls : slot[c] \in {NoReply, ReplyOf(c)}

CorrelationInv ==
    /\ TypeOK
    /\ IdsDetermineCalls
    /\ IdsAreUsed
    /\ CarriedIdsAreFresh
    /\ PlainCallsCarryNoId
    /\ WaitersAreKnown
    /\ SlotsHoldOwnReply
    /\ ReplyIsOwn
    /\ AbortedOnlyOnShutdown

(* What posting to and taking from a channel does to its elements.          *)
LEMMA AppendElements ==
    ASSUME NEW S, NEW s \in Seq(S), NEW e \in S
    PROVE  Elements(Append(s, e)) = Elements(s) \cup {e}
<1>1. Append(s, e) \in Seq(S) /\ Len(Append(s, e)) = Len(s) + 1
  BY AppendProperties
<1>2. /\ DOMAIN s = 1..Len(s) /\ Len(s) \in Nat
      /\ DOMAIN Append(s, e) = 1..(Len(s) + 1)
  BY <1>1, LenProperties
<1>3. /\ \A i \in 1..Len(s) : Append(s, e)[i] = s[i]
      /\ Append(s, e)[Len(s) + 1] = e
  BY AppendProperties
<1> QED
  BY <1>2, <1>3 DEF Elements

LEMMA TailElements ==
    ASSUME NEW S, NEW s \in Seq(S), s # <<>>
    PROVE  Elements(s) = {Head(s)} \cup Elements(Tail(s))
<1>1. /\ DOMAIN s = 1..Len(s) /\ Len(s) \in Nat \ {0}
      /\ DOMAIN Tail(s) = 1..(Len(s) - 1)
  BY LenProperties, HeadTailProperties, EmptySeq
<1>2. \A i \in 1..(Len(s) - 1) : Tail(s)[i] = s[i + 1]
  BY <1>1, HeadTailProperties
<1>3. Head(s) = s[1]
  OBVIOUS
<1>4. ASSUME NEW x \in Elements(s) PROVE x \in {Head(s)} \cup Elements(Tail(s))
  <2>1. PICK i \in 1..Len(s) : x = s[i]
    BY <1>1 DEF Elements
  <2>2. CASE i = 1
    BY <2>1, <2>2, <1>3
  <2>3. CASE i # 1
    <3>1. i - 1 \in 1..(Len(s) - 1) /\ Tail(s)[i - 1] = s[i]
      BY <2>3, <1>1, <1>2
    <3> QED
      BY <2>1, <3>1, <1>1 DEF Elements
  <2> QED
    BY <2>2, <2>3
<1>5. ASSUME NEW x \in {Head(s)} \cup Elements(Tail(s)) PROVE x \in Elements(s)
  BY <1>1, <1>2, <1>3 DEF Elements
<1> QED
  BY <1>4, <1>5

LEMMA BoundType == TypeOK => Bound \subseteq Bindings
<1> SUFFICES ASSUME TypeOK PROVE Elements(chan) \subseteq Bindings
  BY DEF Bound, TypeOK
<1>1. chan \in [1..Len(chan) -> Bindings]
  BY LenProperties DEF TypeOK
<1> QED
  BY <1>1 DEF Elements

LEMMA ReplyIsNotNoReply == \A c : ReplyOf(c) # NoReply
<1> TAKE c
<1>1. ReplyOf(c).kind = "reply" /\ NoReply.kind = "none"
  BY DEF ReplyOf, NoReply
<1> QED
  BY <1>1

(* A step that binds no id, takes none into use, and neither posts nor       *)
(* answers leaves the correlation of ids and calls as it was.                *)
LEMMA CorrelationFrame ==
    ASSUME CorrelationInv, TypeOK', Bound' \subseteq Bound,
           UNCHANGED <<plug, seq, cmdId, carried>>,
           \A t \in Tasks : pc'[t] = "sending" => pc[t] = "sending"
    PROVE  /\ IdsDetermineCalls' /\ IdsAreUsed'
           /\ CarriedIdsAreFresh' /\ PlainCallsCarryNoId'
<1>1. IdsDetermineCalls'
  BY DEF CorrelationInv, IdsDetermineCalls
<1>2. IdsAreUsed'
  BY DEF CorrelationInv, IdsAreUsed
<1>3. CarriedIdsAreFresh'
  BY RpcAssumption DEF CorrelationInv, CarriedIdsAreFresh, Commanding
<1>4. PlainCallsCarryNoId'
  BY DEF CorrelationInv, PlainCallsCarryNoId, Commanding
<1> QED
  BY <1>1, <1>2, <1>3, <1>4

(* The number the loop gives to a message is new, or is the command's own.   *)
LEMMA AssignedIdIsFresh ==
    ASSUME CorrelationInv, chan # <<>>
    PROVE  LET m == Head(chan)
           IN  /\ \A b \in Bound : b.id = AssignId(m) => b.call = m.call
               /\ AssignId(m).space = "rpc" => AssignId(m).num = seq + 1
               /\ AssignId(m).space = "cmd" => AssignId(m) = m.id
               /\ AssignId(m).space \in {"rpc", "cmd"}
               /\ m \in Elements(chan) /\ m \in Bindings
<1> DEFINE m == Head(chan)
<1>1. m \in Elements(chan) /\ m \in Bindings
  BY TailElements, HeadTailProperties DEF CorrelationInv, TypeOK
<1>2. CASE m.id.space = "cmd"
  <2>1. m \in Bound
    BY <1>1, <1>2 DEF Bound
  <2>2. AssignId(m) = m.id
    BY <1>2 DEF AssignId
  <2> QED
    BY <1>1, <1>2, <2>1, <2>2 DEF CorrelationInv, IdsDetermineCalls
<1>3. CASE m.id.space # "cmd"
  <2>1. AssignId(m) = [space |-> "rpc", num |-> seq + 1]
    BY <1>3 DEF AssignId
  <2>2. ASSUME NEW b \in Bound PROVE b.id # AssignId(m)
    <3>1. b.id.space = "rpc" => b.id.num <= seq
      BY DEF CorrelationInv, IdsAreUsed
    <3>2. seq \in Nat
      BY DEF CorrelationInv, TypeOK
    <3>3. b \in Bindings
      BY BoundType DEF CorrelationInv
    <3> QED
      BY <2>1, <3>1, <3>2, <3>3 DEF Bindings, Ids
  <2> QED
    BY <1>1, <2>1, <2>2
<1> QED
  BY <1>2, <1>3

(* The invariant is inductive.                                               *)
LEMMA CorrelationStep ==
    ASSUME CorrelationInv, [Next]_vars
    PROVE  CorrelationInv'
<1> USE RpcAssumption
<1>0. TypeOK /\ TypeOK'
  BY TypeStep DEF CorrelationInv
<1>1. ASSUME NEW t \in Tasks, BeginCall(t) PROVE CorrelationInv'
  <2>1. Bound' = Bound
    BY <1>1 DEF BeginCall, Bound, Elements
  <2>2. IdsDetermineCalls' /\ IdsAreUsed'
    <3>1. cmdId' \in Nat /\ cmdId \in Nat /\ cmdId' >= cmdId
      BY <1>0, <1>1 DEF TypeOK, BeginCall
    <3>2. \A b \in Bound : b.id.num \in Nat
      BY <1>0, BoundType DEF TypeOK, Bindings, Ids
    <3> QED
      BY <1>1, <2>1, <3>1, <3>2 DEF BeginCall, CorrelationInv, IdsDetermineCalls, IdsAreUsed
  <2>3. CarriedIdsAreFresh'
    <3>1. SUFFICES ASSUME NEW u \in Tasks, pc'[u] = "sending", Commanding(u)
                   PROVE  /\ carried'[u].space = "cmd" /\ carried'[u].num < cmdId'
                          /\ \A b \in Bound : b.id # carried'[u]
                          /\ \A v \in Tasks :
                                pc'[v] = "sending" /\ Commanding(v) /\ v # u =>
                                    carried'[v] # carried'[u]
      BY <1>1, <2>1 DEF BeginCall, CarriedIdsAreFresh, Commanding
    <3>2. cmdId \in Nat /\ cmdId' \in Nat /\ cmdId' >= cmdId
      BY <1>0, <1>1 DEF TypeOK, BeginCall
    <3>3. \A b \in Bound : b.id.space = "cmd" => b.id.num < cmdId
      BY DEF CorrelationInv, IdsAreUsed
    <3>4. \A v \in Tasks : v # t /\ Commanding(v) /\ pc'[v] = "sending" =>
             /\ carried'[v] = carried[v]
             /\ carried[v].space = "cmd" /\ carried[v].num < cmdId
             /\ \A b \in Bound : b.id # carried[v]
             /\ \A w \in Tasks : pc[w] = "sending" /\ Commanding(w) /\ w # v =>
                                    carried[w] # carried[v]
      BY <1>0, <1>1 DEF BeginCall, TypeOK, CorrelationInv, CarriedIdsAreFresh
    <3>5. Commanding(t) =>
             /\ carried'[t] = [space |-> "cmd", num |-> cmdId]
             /\ cmdId' = cmdId + 1
      BY <1>0, <1>1 DEF BeginCall, TypeOK
    <3>6. \A v \in Tasks : carried[v].num \in Nat
      BY <1>0 DEF TypeOK, Ids
    <3>7. CASE u = t
      BY <3>1, <3>2, <3>3, <3>4, <3>5, <3>7
    <3>8. CASE u # t
      <4>1. carried'[u].space = "cmd" /\ carried'[u].num < cmdId'
        BY <3>1, <3>2, <3>4, <3>6, <3>8
      <4>2. \A b \in Bound : b.id # carried'[u]
        BY <3>1, <3>4, <3>8
      <4>3. ASSUME NEW v \in Tasks, pc'[v] = "sending", Commanding(v), v # u
            PROVE  carried'[v] # carried'[u]
        <5>1. CASE v = t
          BY <3>1, <3>2, <3>4, <3>5, <3>8, <4>3, <5>1
        <5>2. CASE v # t
          <6>1. pc[v] = "sending" /\ carried'[v] = carried[v]
            BY <1>0, <1>1, <4>3, <5>2 DEF BeginCall, TypeOK
          <6> QED
            BY <3>1, <3>4, <3>8, <4>3, <6>1
        <5> QED
          BY <5>1, <5>2
      <4> QED
        BY <4>1, <4>2, <4>3
    <3> QED
      BY <3>7, <3>8
  <2>4. PlainCallsCarryNoId'
    BY <1>0, <1>1 DEF BeginCall, TypeOK, CorrelationInv, PlainCallsCarryNoId, Commanding
  <2>5. WaitersAreKnown'
    <3>1. \A u \in Tasks : pc'[u] = "waiting" => u # t /\ pc[u] = "waiting" /\ ncall'[u] = ncall[u]
      BY <1>0, <1>1 DEF BeginCall, TypeOK
    <3> QED
      BY <1>1, <3>1 DEF BeginCall, CorrelationInv, WaitersAreKnown, ThisCall, SenderAlive
  <2>6. SlotsHoldOwnReply' /\ ReplyIsOwn' /\ AbortedOnlyOnShutdown'
    BY <1>1 DEF BeginCall, CorrelationInv, SlotsHoldOwnReply, ReplyIsOwn, AbortedOnlyOnShutdown
  <2> QED
    BY <1>0, <2>2, <2>3, <2>4, <2>5, <2>6 DEF CorrelationInv
<1>2. ASSUME NEW t \in Tasks, Post(t), loop = "running" PROVE CorrelationInv'
  <2> DEFINE m == [id |-> carried[t], call |-> ThisCall(t)]
  <2>1. ThisCall(t) \in Calls
    BY <1>0, <1>2, ThisCallType DEF Post, TypeOK
  <2>2. m \in Bindings
    BY <1>0, <2>1 DEF TypeOK, Bindings
  <2>3. chan' = Append(chan, m) /\ pc' = [pc EXCEPT ![t] = "waiting"]
    BY <1>2 DEF Post
  <2>4. Elements(chan') = Elements(chan) \cup {m}
    BY <1>0, <2>2, <2>3, AppendElements DEF TypeOK
  <2>5. Bound' = IF carried[t].space = "cmd" THEN Bound \cup {m} ELSE Bound
    BY <1>2, <2>4 DEF Post, Bound
  <2>6. ~Commanding(t) => carried[t].space # "cmd"
    BY DEF CorrelationInv, PlainCallsCarryNoId, Numbered
  <2>7. \A b \in Bound : carried[t].space = "cmd" => b.id # carried[t]
    BY <1>2, <2>6 DEF Post, CorrelationInv, CarriedIdsAreFresh
  <2>8. IdsDetermineCalls'
    BY <2>5, <2>7 DEF CorrelationInv, IdsDetermineCalls
  <2>9. IdsAreUsed'
    BY <1>2, <2>5, <2>6 DEF Post, CorrelationInv, IdsAreUsed, CarriedIdsAreFresh
  <2>10. CarriedIdsAreFresh'
    <3>1. \A u \in Tasks : pc'[u] = "sending" => u # t /\ pc[u] = "sending"
      BY <1>0, <2>3 DEF TypeOK
    <3>2. \A u \in Tasks : pc'[u] = "sending" /\ Commanding(u) /\ Commanding(t) =>
             carried[u] # carried[t]
      BY <1>2, <3>1 DEF Post, CorrelationInv, CarriedIdsAreFresh
    <3>3. carried' = carried /\ cmdId' = cmdId /\ \A u : Commanding(u)' <=> Commanding(u)
      BY <1>2 DEF Post, Commanding
    <3> QED
      BY <2>5, <2>6, <3>1, <3>2, <3>3 DEF CorrelationInv, CarriedIdsAreFresh
  <2>11. PlainCallsCarryNoId'
    BY <1>2 DEF Post, CorrelationInv, PlainCallsCarryNoId, Commanding
  <2>12. WaitersAreKnown'
    <3>1. SUFFICES ASSUME NEW u \in Tasks, pc'[u] = "waiting", slot[ThisCall(u)] = NoReply
                   PROVE  \/ \E x \in Elements(chan') : x.call = ThisCall(u)
                          \/ \E p \in pending : p.call = ThisCall(u)
      BY <1>2 DEF Post, WaitersAreKnown, ThisCall, SenderAlive, Elements
    <3>2. CASE u = t
      <4>1. m.call = ThisCall(t) /\ m \in Elements(chan')
        BY <2>4
      <4> QED
        BY <3>2, <4>1
    <3>3. CASE u # t
      <4>1. pc[u] = "waiting"
        BY <1>0, <2>3, <3>1, <3>3 DEF TypeOK
      <4>2. \/ \E x \in Elements(chan) : x.call = ThisCall(u)
            \/ \E p \in pending : p.call = ThisCall(u)
        BY <1>2, <3>1, <4>1 DEF CorrelationInv, WaitersAreKnown, SenderAlive, Elements
      <4> QED
        BY <2>4, <4>2
    <3> QED
      BY <3>2, <3>3
  <2>13. SlotsHoldOwnReply' /\ ReplyIsOwn' /\ AbortedOnlyOnShutdown'
    BY <1>2 DEF Post, CorrelationInv, SlotsHoldOwnReply, ReplyIsOwn, AbortedOnlyOnShutdown
  <2> QED
    BY <1>0, <2>8, <2>9, <2>10, <2>11, <2>12, <2>13 DEF CorrelationInv
<1>3. ASSUME NEW t \in Tasks, Post(t), loop = "stopped" PROVE CorrelationInv'
  <2>1. /\ pc' = [pc EXCEPT ![t] = "handling"]
        /\ outcome' = [outcome EXCEPT ![ThisCall(t)] = Aborted]
        /\ UNCHANGED <<plug, loop, seq, cmdId, ncall, carried, chan, pending, wire, inbox, slot>>
    BY <1>3 DEF Post
  <2>2. Bound' = Bound /\ \A u \in Tasks : pc'[u] = "sending" => pc[u] = "sending"
    BY <1>0, <2>1 DEF Bound, Elements, TypeOK
  <2>3. IdsDetermineCalls' /\ IdsAreUsed' /\ CarriedIdsAreFresh' /\ PlainCallsCarryNoId'
    BY <1>0, <2>1, <2>2, CorrelationFrame
  <2>4. WaitersAreKnown' /\ AbortedOnlyOnShutdown' /\ SlotsHoldOwnReply'
    BY <1>3, <2>1 DEF WaitersAreKnown, AbortedOnlyOnShutdown, CorrelationInv, SlotsHoldOwnReply
  <2>5. ReplyIsOwn'
    BY <1>0, <2>1 DEF TypeOK, CorrelationInv, ReplyIsOwn, Aborted
  <2> QED
    BY <1>0, <2>3, <2>4, <2>5 DEF CorrelationInv
<1>4. ASSUME NEW t \in Tasks,
             TakeReply(t) \/ FindAborted(t) \/ TimeOut(t) \/ TimeOutSending(t)
      PROVE  CorrelationInv'
  <2>1. /\ pc' = [pc EXCEPT ![t] = "handling"]
        /\ pc[t] \in {"sending", "waiting"}
        /\ UNCHANGED <<plug, loop, seq, cmdId, ncall, carried, chan, pending, wire, inbox, slot>>
    BY <1>4 DEF TakeReply, FindAborted, TimeOut, TimeOutSending, Return
  <2>2. Bound' = Bound /\ \A u \in Tasks : pc'[u] = "sending" => pc[u] = "sending"
    BY <1>0, <2>1 DEF Bound, Elements, TypeOK
  <2>3. IdsDetermineCalls' /\ IdsAreUsed' /\ CarriedIdsAreFresh' /\ PlainCallsCarryNoId'
    BY <1>0, <2>1, <2>2, CorrelationFrame
  <2>4. WaitersAreKnown' /\ SlotsHoldOwnReply'
    <3>1. \A u \in Tasks : pc'[u] = "waiting" => pc[u] = "waiting"
      BY <1>0, <2>1 DEF TypeOK
    <3> QED
      BY <2>1, <3>1 DEF WaitersAreKnown, SenderAlive, ThisCall, CorrelationInv, SlotsHoldOwnReply
  <2>5. ThisCall(t) \in Calls
    BY <1>0, <2>1, ThisCallType DEF TypeOK
  <2>6. PICK r : /\ outcome' = [outcome EXCEPT ![ThisCall(t)] = r]
                 /\ \/ r = slot[ThisCall(t)] /\ slot[ThisCall(t)] # NoReply
                    \/ /\ r = Aborted /\ pc[t] = "waiting"
                       /\ ~SenderAlive(ThisCall(t)) /\ slot[ThisCall(t)] = NoReply
                    \/ r = TimedOut
    BY <1>4 DEF TakeReply, FindAborted, TimeOut, TimeOutSending, Return
  <2>7. r.kind = "reply" => r.of = ThisCall(t)
    BY <2>5, <2>6 DEF CorrelationInv, SlotsHoldOwnReply, ReplyOf, Aborted, TimedOut
  <2>8. r = Aborted => loop = "stopped"
    <3>1. slot[ThisCall(t)] # NoReply => slot[ThisCall(t)] # Aborted
      BY <2>5 DEF CorrelationInv, SlotsHoldOwnReply, ReplyOf, Aborted
    <3>2. TimedOut # Aborted
      BY DEF TimedOut, Aborted
    <3>3. pc[t] = "waiting" /\ ~SenderAlive(ThisCall(t)) /\ slot[ThisCall(t)] = NoReply
             => loop # "running"
      BY <2>1 DEF CorrelationInv, WaitersAreKnown
    <3> QED
      BY <1>0, <2>6, <3>1, <3>2, <3>3 DEF TypeOK
  <2>9. ReplyIsOwn'
    BY <1>0, <2>5, <2>6, <2>7 DEF TypeOK, CorrelationInv, ReplyIsOwn
  <2>10. AbortedOnlyOnShutdown'
    BY <1>0, <2>1, <2>5, <2>6, <2>8 DEF TypeOK, CorrelationInv, AbortedOnlyOnShutdown
  <2> QED
    BY <1>0, <2>3, <2>4, <2>9, <2>10 DEF CorrelationInv
<1>5. ASSUME NEW t \in Tasks,
             \/ Finish(t) \/ RecvRequest(t) \/ SpawnScan(t)
             \/ SendResponse(t) \/ PublishEvent(t)
      PROVE  CorrelationInv'
  <2>1. /\ \A u \in Tasks : pc'[u] \in {"sending", "waiting"} => pc'[u] = pc[u]
        /\ UNCHANGED <<plug, loop, seq, cmdId, ncall, carried, chan, pending, wire,
                       inbox, slot, outcome>>
    BY <1>0, <1>5 DEF Finish, RecvRequest, SpawnScan, SendResponse, PublishEvent, TypeOK
  <2>2. Bound' = Bound
    BY <2>1 DEF Bound, Elements
  <2>3. IdsDetermineCalls' /\ IdsAreUsed' /\ CarriedIdsAreFresh' /\ PlainCallsCarryNoId'
    BY <1>0, <2>1, <2>2, CorrelationFrame
  <2>4. WaitersAreKnown'
    BY <2>1 DEF WaitersAreKnown, SenderAlive, ThisCall, CorrelationInv
  <2>5. SlotsHoldOwnReply' /\ ReplyIsOwn' /\ AbortedOnlyOnShutdown'
    BY <2>1 DEF CorrelationInv, SlotsHoldOwnReply, ReplyIsOwn, AbortedOnlyOnShutdown
  <2> QED
    BY <1>0, <2>3, <2>4, <2>5 DEF CorrelationInv
<1>6. CASE Forward
  <2> DEFINE m == Head(chan)
             b == [id |-> AssignId(m), call |-> m.call]
  <2>1. /\ \A x \in Bound : x.id = AssignId(m) => x.call = m.call
        /\ AssignId(m).space = "rpc" => AssignId(m).num = seq + 1
        /\ AssignId(m).space = "cmd" => AssignId(m) = m.id
        /\ AssignId(m).space \in {"rpc", "cmd"}
        /\ m \in Elements(chan) /\ m \in Bindings
    BY <1>6, AssignedIdIsFresh DEF Forward
  <2>2. /\ pending' = Insert(b)
        /\ wire' \in {wire, wire \cup {b}}
        /\ seq' = seq + 1
        /\ chan' = Tail(chan) /\ chan # <<>>
        /\ UNCHANGED <<plug, loop, cmdId, pc, ncall, carried, inbox, slot, outcome>>
    BY <1>6 DEF Forward
  <2>3. Elements(chan) = {m} \cup Elements(chan')
    BY <1>0, <2>2, TailElements DEF TypeOK
  <2>4. Bound' \subseteq Bound \cup {b}
    BY <2>2, <2>3 DEF Bound, Insert, Kept
  <2>5. IdsDetermineCalls'
    BY <2>1, <2>4 DEF CorrelationInv, IdsDetermineCalls
  <2>6. seq \in Nat /\ \A x \in Bound : x.id.num \in Nat
    BY <1>0, BoundType DEF TypeOK, Bindings, Ids
  <2>7. b.id.space = "cmd" => m \in Bound /\ b.id = m.id
    BY <2>1 DEF Bound
  <2>8. IdsAreUsed'
    BY <2>1, <2>2, <2>4, <2>6, <2>7 DEF CorrelationInv, IdsAreUsed
  <2>9. CarriedIdsAreFresh'
    <3>1. ASSUME NEW t \in Tasks, Commanding(t), pc[t] = "sending" PROVE b.id # carried[t]
      BY <2>1, <2>7, <3>1 DEF CorrelationInv, CarriedIdsAreFresh
    <3> QED
      BY <2>2, <2>4, <3>1 DEF CorrelationInv, CarriedIdsAreFresh, Commanding
  <2>10. PlainCallsCarryNoId'
    BY <2>2 DEF CorrelationInv, PlainCallsCarryNoId, Commanding
  <2>11. WaitersAreKnown'
    <3>1. SUFFICES ASSUME loop = "running", NEW u \in Tasks, pc[u] = "waiting",
                          slot[ThisCall(u)] = NoReply
                   PROVE  \/ \E x \in Elements(chan') : x.call = ThisCall(u)
                          \/ \E p \in pending' : p.call = ThisCall(u)
      BY <2>2 DEF WaitersAreKnown, ThisCall, SenderAlive, Elements
    <3>2. \/ \E x \in Elements(chan) : x.call = ThisCall(u)
          \/ \E p \in pending : p.call = ThisCall(u)
      BY <3>1 DEF CorrelationInv, WaitersAreKnown, SenderAlive, Elements
    <3>3. \A p \in pending : p.call = ThisCall(u) => p \in pending' \/ p.call = b.call
      <4>1. Awaited(ThisCall(u))
        BY <3>1 DEF Awaited, ThisCall
      <4>2. \A p \in pending : p.call = ThisCall(u) => p \in Kept
        BY <4>1 DEF Kept
      <4> QED
        BY <2>1, <2>2, <4>2 DEF Insert, Bound
    <3>4. b \in pending'
      BY <2>2 DEF Insert
    <3> QED
      BY <2>3, <3>2, <3>3, <3>4
  <2>12. SlotsHoldOwnReply' /\ ReplyIsOwn' /\ AbortedOnlyOnShutdown'
    BY <2>2 DEF CorrelationInv, SlotsHoldOwnReply, ReplyIsOwn, AbortedOnlyOnShutdown
  <2> QED
    BY <1>0, <2>5, <2>8, <2>9, <2>10, <2>11, <2>12 DEF CorrelationInv
<1>7. ASSUME NEW r \in inbox, RecvResponse(r) PROVE CorrelationInv'
  <2>1. /\ pending' = {p \in pending : p.id # r.id}
        /\ inbox' = inbox \ {r}
        /\ UNCHANGED <<plug, loop, seq, cmdId, pc, ncall, carried, chan, wire, outcome>>
    BY <1>7 DEF RecvResponse
  <2>2. Bound' \subseteq Bound
    BY <2>1 DEF Bound, Elements
  <2>3. IdsDetermineCalls' /\ IdsAreUsed' /\ CarriedIdsAreFresh' /\ PlainCallsCarryNoId'
    BY <1>0, <2>1, <2>2, CorrelationFrame
  <2>4. \A p \in pending : p.id = r.id => p.call = r.call
    BY DEF CorrelationInv, IdsDetermineCalls, Bound
  <2>5. r.call \in Calls
    BY <1>0 DEF TypeOK, Bindings
  <2>6. slot' \in {slot, Deliver(r.call, ReplyOf(r.call))}
    BY <1>7, <2>4 DEF RecvResponse
  <2>7. SlotsHoldOwnReply'
    BY <1>0, <2>5, <2>6 DEF CorrelationInv, SlotsHoldOwnReply, Deliver, TypeOK
  <2>8. WaitersAreKnown'
    <3>1. SUFFICES ASSUME loop = "running", NEW u \in Tasks, pc[u] = "waiting",
                          slot'[ThisCall(u)] = NoReply
                   PROVE  \/ \E i \in DOMAIN chan : chan[i].call = ThisCall(u)
                          \/ \E p \in pending' : p.call = ThisCall(u)
      BY <2>1 DEF WaitersAreKnown, ThisCall, SenderAlive
    <3>2. ThisCall(u) \in Calls
      BY <1>0, <3>1, ThisCallType DEF TypeOK
    <3>3. slot[ThisCall(u)] = NoReply
      BY <1>0, <2>5, <2>6, <3>1, <3>2, ReplyIsNotNoReply DEF Deliver, TypeOK
    <3>4. SenderAlive(ThisCall(u))
      BY <3>1, <3>3 DEF CorrelationInv, WaitersAreKnown
    <3>5. ASSUME NEW p \in pending, p.call = ThisCall(u), p.id = r.id PROVE FALSE
      <4>1. r.call = ThisCall(u) /\ ThisCall(u).task = u
        BY <2>4, <3>5 DEF ThisCall
      <4>2. slot' = [slot EXCEPT ![ThisCall(u)] = ReplyOf(ThisCall(u))]
        BY <1>7, <2>4, <3>1, <3>5, <4>1 DEF RecvResponse, Deliver, Awaited
      <4> QED
        BY <1>0, <3>1, <3>2, <4>2, ReplyIsNotNoReply DEF TypeOK
    <3> QED
      BY <2>1, <3>4, <3>5 DEF SenderAlive
  <2>9. ReplyIsOwn' /\ AbortedOnlyOnShutdown'
    BY <2>1 DEF CorrelationInv, ReplyIsOwn, AbortedOnlyOnShutdown
  <2> QED
    BY <1>0, <2>3, <2>7, <2>8, <2>9 DEF CorrelationInv
<1>8. CASE WriteOut \/ UNCHANGED vars
  <2>1. UNCHANGED <<plug, loop, seq, cmdId, pc, ncall, carried, chan, pending, wire,
                    inbox, slot, outcome>>
    BY <1>8 DEF WriteOut, vars
  <2>2. Bound' = Bound
    BY <2>1 DEF Bound, Elements
  <2>3. IdsDetermineCalls' /\ IdsAreUsed' /\ CarriedIdsAreFresh' /\ PlainCallsCarryNoId'
    BY <1>0, <2>1, <2>2, CorrelationFrame
  <2>4. WaitersAreKnown'
    BY <2>1 DEF WaitersAreKnown, SenderAlive, ThisCall, CorrelationInv
  <2>5. SlotsHoldOwnReply' /\ ReplyIsOwn' /\ AbortedOnlyOnShutdown'
    BY <2>1 DEF CorrelationInv, SlotsHoldOwnReply, ReplyIsOwn, AbortedOnlyOnShutdown
  <2> QED
    BY <1>0, <2>3, <2>4, <2>5 DEF CorrelationInv
<1>9. CASE Stop
  <2>1. /\ loop' = "stopped"
        /\ chan' = <<>> /\ pending' = {}
        /\ UNCHANGED <<plug, seq, cmdId, pc, ncall, carried, wire, inbox, slot, outcome>>
    BY <1>9 DEF Stop
  <2>2. Bound' \subseteq Bound
    BY <2>1 DEF Bound, Elements
  <2>3. IdsDetermineCalls' /\ IdsAreUsed' /\ CarriedIdsAreFresh' /\ PlainCallsCarryNoId'
    BY <1>0, <2>1, <2>2, CorrelationFrame
  <2>4. WaitersAreKnown' /\ AbortedOnlyOnShutdown'
    BY <2>1 DEF WaitersAreKnown, AbortedOnlyOnShutdown
  <2>5. SlotsHoldOwnReply' /\ ReplyIsOwn'
    BY <2>1 DEF CorrelationInv, SlotsHoldOwnReply, ReplyIsOwn
  <2> QED
    BY <1>0, <2>3, <2>4, <2>5 DEF CorrelationInv
<1>10. ASSUME NEW x \in wire, Answer(x) PROVE CorrelationInv'
  <2>1. /\ inbox' = inbox \cup {x}
        /\ UNCHANGED <<plug, loop, seq, cmdId, pc, ncall, carried, chan, pending, wire, slot, outcome>>
    BY <1>10 DEF Answer
  <2>2. Bound' = Bound
    BY <2>1 DEF Bound, Elements
  <2>3. IdsDetermineCalls' /\ IdsAreUsed' /\ CarriedIdsAreFresh' /\ PlainCallsCarryNoId'
    BY <1>0, <2>1, <2>2, CorrelationFrame
  <2>4. WaitersAreKnown'
    BY <2>1 DEF WaitersAreKnown, SenderAlive, ThisCall, CorrelationInv
  <2>5. SlotsHoldOwnReply' /\ ReplyIsOwn' /\ AbortedOnlyOnShutdown'
    BY <2>1 DEF CorrelationInv, SlotsHoldOwnReply, ReplyIsOwn, AbortedOnlyOnShutdown
  <2> QED
    BY <1>0, <2>3, <2>4, <2>5 DEF CorrelationInv
<1>11. ASSUME NEW t \in Tasks, Post(t) PROVE CorrelationInv'
  BY <1>0, <1>2, <1>3, <1>11 DEF TypeOK
<1> QED
  BY <1>1, <1>4, <1>5, <1>6, <1>7, <1>8, <1>9, <1>10, <1>11
     DEF Next, Handler, Terminated

LEMMA CorrelationInit == Init => CorrelationInv
<1> SUFFICES ASSUME Init PROVE CorrelationInv
  OBVIOUS
<1>1. TypeOK
  BY RpcAssumption DEF Init, TypeOK, Pcs, Numbered, Ids, Outcomes
<1>2. Bound = {}
  BY DEF Init, Bound, Elements
<1>3. IdsDetermineCalls /\ IdsAreUsed
  BY <1>2 DEF IdsDetermineCalls, IdsAreUsed
<1>4. CarriedIdsAreFresh /\ PlainCallsCarryNoId /\ WaitersAreKnown
  BY DEF Init, CarriedIdsAreFresh, PlainCallsCarryNoId, WaitersAreKnown
<1>5. SlotsHoldOwnReply /\ ReplyIsOwn /\ AbortedOnlyOnShutdown
  BY DEF Init, SlotsHoldOwnReply, ReplyIsOwn, AbortedOnlyOnShutdown, NoReply, Aborted
<1> QED
  BY <1>1, <1>3, <1>4, <1>5 DEF CorrelationInv

(* Every caller that gets a payload gets the answer to its own request,      *)
(* whatever is late, lost, duplicated or overtaken.                          *)
THEOREM RepliesAreOwn == Spec => []ReplyIsOwn
<1>1. CorrelationInv /\ [Next]_vars => CorrelationInv'
  BY CorrelationStep
<1>2. CorrelationInv => ReplyIsOwn
  BY DEF CorrelationInv
<1> QED
  BY <1>1, <1>2, CorrelationInit, PTL DEF Spec

(* A caller is told that the loop is shutting down only when it is.          *)
THEOREM AbortsAreReal == Spec => []AbortedOnlyOnShutdown
<1>1. CorrelationInv /\ [Next]_vars => CorrelationInv'
  BY CorrelationStep
<1>2. CorrelationInv => AbortedOnlyOnShutdown
  BY DEF CorrelationInv
<1> QED
  BY <1>1, <1>2, CorrelationInit, PTL DEF Spec

----------------------------------------------------------------------------
(* The loop keeps what RpcSpec promises to the callers of Rpc::call.        *)

Copies(c) == {b \in wire : b.call = c}

Opened(t) == pc[t] \in {"sending", "waiting"}

\* A call is one message: it waits in the channel, or it was sent, once, or it
\* was lost on the way to the kernel.
OneMessagePerCall ==
    /\ \A i, j \in DOMAIN chan : chan[i].call = chan[j].call => i = j
    /\ \A b \in wire, m \in Elements(chan) : b.call # m.call
    /\ \A b1, b2 \in wire : b1.call = b2.call => b1 = b2

\* A message belongs to a call that was posted, a result to one that was made.
MessagesArePosted ==
    \A m \in wire \cup Elements(chan) :
        /\ m.call.n <= ncall[m.call.task]
        /\ pc[m.call.task] = "sending" => m.call.n < ncall[m.call.task]

ResultsAreReturned ==
    \A c \in Calls : outcome[c] # NoReply =>
        /\ c.n <= ncall[c.task]
        /\ Opened(c.task) => c.n < ncall[c.task]

\* Only a caller that waits or gave up leaves its message in the channel.
QueuedAreOpen ==
    \A m \in Elements(chan) :
        \/ pc[m.call.task] = "waiting" /\ m.call = ThisCall(m.call.task)
        \/ outcome[m.call] = TimedOut

\* What is answered, and what a oneshot holds, was sent.
AnswersWereSent ==
    /\ inbox \subseteq wire
    /\ \A c \in Calls : slot[c] # NoReply => Copies(c) # {}

DeliveryInv ==
    /\ CorrelationInv
    /\ OneMessagePerCall
    /\ MessagesArePosted
    /\ ResultsAreReturned
    /\ QueuedAreOpen
    /\ AnswersWereSent

LEMMA CallsType ==
    ASSUME NEW c \in Calls
    PROVE  /\ c.task \in Tasks /\ c.n \in Nat \ {0}
           /\ c = [task |-> c.task, n |-> c.n]
BY RpcAssumption DEF Calls

LEMMA MessagesType ==
    ASSUME TypeOK
    PROVE  /\ \A m \in wire \cup Elements(chan) : m \in Bindings /\ m.call \in Calls
           /\ DOMAIN chan = 1..Len(chan) /\ Len(chan) \in Nat
           /\ \A t \in Tasks : ncall[t] \in Nat
<1>1. chan \in [1..Len(chan) -> Bindings] /\ Len(chan) \in Nat
  BY LenProperties DEF TypeOK
<1> QED
  BY <1>1 DEF TypeOK, Elements, Bindings

(* Steps that change neither the messages nor the results.                   *)
LEMMA DeliveryFrame ==
    ASSUME DeliveryInv, UNCHANGED <<chan, wire, outcome, slot, ncall>>,
           inbox' \subseteq wire,
           \A t \in Tasks : /\ Opened(t)' <=> Opened(t)
                            /\ pc'[t] = "sending" <=> pc[t] = "sending"
    PROVE  /\ OneMessagePerCall' /\ MessagesArePosted' /\ ResultsAreReturned'
           /\ QueuedAreOpen' /\ AnswersWereSent'
<1>0. TypeOK
  BY DEF DeliveryInv, CorrelationInv
<1>1. Elements(chan') = Elements(chan)
  BY DEF Elements
<1>2. \A t \in Tasks : pc'[t] = "waiting" <=> pc[t] = "waiting"
  BY DEF Opened
<1>3. OneMessagePerCall'
  BY <1>1 DEF DeliveryInv, OneMessagePerCall
<1>4. MessagesArePosted'
  BY <1>0, <1>1, MessagesType, CallsType DEF DeliveryInv, MessagesArePosted
<1>5. ResultsAreReturned'
  BY <1>0, CallsType DEF DeliveryInv, ResultsAreReturned
<1>6. QueuedAreOpen'
  BY <1>0, <1>1, <1>2, MessagesType, CallsType DEF DeliveryInv, QueuedAreOpen, ThisCall
<1>7. AnswersWereSent'
  BY DEF DeliveryInv, AnswersWereSent, Copies
<1> QED
  BY <1>3, <1>4, <1>5, <1>6, <1>7

LEMMA DeliveryStep ==
    ASSUME DeliveryInv, [Next]_vars
    PROVE  DeliveryInv'
<1> USE RpcAssumption
<1>0. TypeOK /\ CorrelationInv /\ CorrelationInv' /\ TypeOK'
  BY CorrelationStep DEF DeliveryInv, CorrelationInv
<1>1. ASSUME NEW t \in Tasks, BeginCall(t) PROVE DeliveryInv'
  <2>1. /\ pc[t] = "handling" /\ pc' = [pc EXCEPT ![t] = "sending"]
        /\ ncall' = [ncall EXCEPT ![t] = ncall[t] + 1]
        /\ UNCHANGED <<chan, wire, inbox, slot, outcome>>
    BY <1>0, <1>1 DEF BeginCall, TypeOK
  <2>2. Elements(chan') = Elements(chan)
    BY <2>1 DEF Elements
  <2>3. \A u \in Tasks : /\ pc'[u] = "waiting" <=> pc[u] = "waiting"
                         /\ u # t => pc'[u] = pc[u] /\ ncall'[u] = ncall[u]
                         /\ u = t => ncall'[u] = ncall[u] + 1
    BY <1>0, <2>1 DEF TypeOK
  <2>4. OneMessagePerCall' /\ AnswersWereSent'
    BY <2>1, <2>2 DEF DeliveryInv, OneMessagePerCall, AnswersWereSent, Copies
  <2>5. MessagesArePosted'
    <3>1. SUFFICES ASSUME NEW m \in wire \cup Elements(chan)
                   PROVE  /\ m.call.n <= ncall'[m.call.task]
                          /\ pc'[m.call.task] = "sending" => m.call.n < ncall'[m.call.task]
      BY <2>1, <2>2 DEF MessagesArePosted
    <3>2. m.call.task \in Tasks /\ m.call.n \in Nat /\ ncall[m.call.task] \in Nat
      BY <1>0, MessagesType, CallsType
    <3>3. m.call.n <= ncall[m.call.task]
          /\ (pc[m.call.task] = "sending" => m.call.n < ncall[m.call.task])
      BY DEF DeliveryInv, MessagesArePosted
    <3> QED
      BY <2>3, <3>2, <3>3
  <2>6. ResultsAreReturned'
    <3>1. SUFFICES ASSUME NEW c \in Calls, outcome[c] # NoReply
                   PROVE  c.n <= ncall'[c.task] /\ (Opened(c.task)' => c.n < ncall'[c.task])
      BY <2>1 DEF ResultsAreReturned
    <3>2. c.task \in Tasks /\ c.n \in Nat /\ ncall[c.task] \in Nat
      BY <1>0, MessagesType, CallsType
    <3>3. c.n <= ncall[c.task] /\ (Opened(c.task) => c.n < ncall[c.task])
      BY <3>1 DEF DeliveryInv, ResultsAreReturned
    <3> QED
      BY <2>3, <3>2, <3>3 DEF Opened
  <2>7. QueuedAreOpen'
    <3>1. \A m \in Elements(chan) : m.call.task \in Tasks
      BY <1>0, MessagesType, CallsType
    <3>2. \A m \in Elements(chan) :
             \/ pc[m.call.task] = "waiting" /\ m.call = ThisCall(m.call.task)
             \/ outcome[m.call] = TimedOut
      BY DEF DeliveryInv, QueuedAreOpen
    <3>3. \A u \in Tasks : pc[u] = "waiting" => ThisCall(u)' = ThisCall(u)
      BY <2>1, <2>3 DEF ThisCall
    <3>4. \A m \in Elements(chan') :
             \/ pc'[m.call.task] = "waiting" /\ m.call = ThisCall(m.call.task)'
             \/ outcome'[m.call] = TimedOut
      BY <2>1, <2>2, <2>3, <3>1, <3>2, <3>3
    <3> QED
      BY <3>4 DEF QueuedAreOpen
  <2> QED
    BY <1>0, <2>4, <2>5, <2>6, <2>7 DEF DeliveryInv
<1>2. ASSUME NEW t \in Tasks, Post(t), loop = "running" PROVE DeliveryInv'
  <2> DEFINE m == [id |-> carried[t], call |-> ThisCall(t)]
  <2>1. /\ pc[t] = "sending" /\ pc' = [pc EXCEPT ![t] = "waiting"]
        /\ chan' = Append(chan, m)
        /\ UNCHANGED <<ncall, wire, inbox, slot, outcome>>
    BY <1>2 DEF Post
  <2>2. m \in Bindings /\ ThisCall(t) \in Calls
    BY <1>0, <2>1, ThisCallType DEF TypeOK, Bindings
  <2>3. Elements(chan') = Elements(chan) \cup {m}
    BY <1>0, <2>1, <2>2, AppendElements DEF TypeOK
  <2>4. \A x \in wire \cup Elements(chan) : x.call # ThisCall(t)
    <3>1. ASSUME NEW x \in wire \cup Elements(chan), x.call = ThisCall(t) PROVE FALSE
      <4>1. x.call.task = t /\ x.call.n = ncall[t] /\ ncall[t] \in Nat
        BY <1>0, <3>1 DEF ThisCall, TypeOK
      <4>2. x.call.n < ncall[t]
        BY <2>1, <4>1 DEF DeliveryInv, MessagesArePosted
      <4> QED
        BY <4>1, <4>2
    <3> QED
      BY <3>1
  <2>5. \A u \in Tasks : /\ Opened(u)' <=> Opened(u)
                         /\ u # t => pc'[u] = pc[u]
                         /\ u = t => pc'[u] = "waiting"
    BY <1>0, <2>1 DEF TypeOK, Opened
  <2>6. OneMessagePerCall'
    <3>1. /\ DOMAIN chan' = 1..(Len(chan) + 1) /\ Len(chan) \in Nat
          /\ \A i \in 1..Len(chan) : chan'[i] = chan[i] /\ chan[i] \in Elements(chan)
          /\ chan'[Len(chan) + 1] = m
      <4>1. chan \in Seq(Bindings)
        BY <1>0 DEF TypeOK
      <4> QED
        BY <2>1, <2>2, <4>1, AppendProperties, LenProperties DEF Elements
    <3>2. ASSUME NEW i \in DOMAIN chan', NEW j \in DOMAIN chan', chan'[i].call = chan'[j].call
          PROVE  i = j
      <4>1. CASE i \in 1..Len(chan) /\ j \in 1..Len(chan)
        BY <3>1, <3>2, <4>1, MessagesType, <1>0 DEF DeliveryInv, OneMessagePerCall
      <4>2. CASE i = Len(chan) + 1
        BY <2>4, <3>1, <3>2, <4>2
      <4>3. CASE j = Len(chan) + 1
        BY <2>4, <3>1, <3>2, <4>3
      <4> QED
        BY <3>1, <4>1, <4>2, <4>3
    <3> QED
      BY <2>1, <2>3, <2>4, <3>2 DEF DeliveryInv, OneMessagePerCall
  <2>7. MessagesArePosted'
    <3>1. m.call.task = t /\ m.call.n = ncall[t] /\ ncall[t] \in Nat
      BY <1>0 DEF ThisCall, TypeOK
    <3>2. \A x \in wire \cup Elements(chan) : x.call.task \in Tasks
      BY <1>0, MessagesType, CallsType
    <3> QED
      BY <2>1, <2>3, <2>5, <3>1, <3>2 DEF DeliveryInv, MessagesArePosted
  <2>8. ResultsAreReturned'
    BY <2>1, <2>5, CallsType DEF DeliveryInv, ResultsAreReturned
  <2>9. QueuedAreOpen'
    <3>1. \A x \in Elements(chan) : x.call.task \in Tasks
      BY <1>0, MessagesType, CallsType
    <3>2. m.call.task = t /\ ThisCall(t)' = ThisCall(t)
      BY <2>1 DEF ThisCall
    <3> QED
      BY <2>1, <2>3, <2>5, <3>1, <3>2 DEF DeliveryInv, QueuedAreOpen, ThisCall
  <2>10. AnswersWereSent'
    BY <2>1 DEF DeliveryInv, AnswersWereSent, Copies
  <2> QED
    BY <1>0, <2>6, <2>7, <2>8, <2>9, <2>10 DEF DeliveryInv
<1>3. ASSUME NEW t \in Tasks, NEW r, Opened(t),
             pc' = [pc EXCEPT ![t] = "handling"],
             outcome' = [outcome EXCEPT ![ThisCall(t)] = r],
             UNCHANGED <<ncall, chan, wire, inbox, slot>>,
             r = TimedOut \/ \A m \in Elements(chan) : m.call # ThisCall(t)
      PROVE  DeliveryInv'
  <2>1. ThisCall(t) \in Calls /\ ncall[t] \in Nat
    BY <1>0, <1>3, ThisCallType DEF Opened, TypeOK
  <2>2. Elements(chan') = Elements(chan)
    BY <1>3 DEF Elements
  <2>3. \A u \in Tasks : (u # t => pc'[u] = pc[u]) /\ (u = t => pc'[u] = "handling")
    BY <1>0, <1>3 DEF TypeOK
  <2>4. \A c \in Calls : outcome'[c] = IF c = ThisCall(t) THEN r ELSE outcome[c]
    BY <1>0, <1>3 DEF TypeOK
  <2>5. OneMessagePerCall' /\ AnswersWereSent'
    BY <1>3, <2>2 DEF DeliveryInv, OneMessagePerCall, AnswersWereSent, Copies
  <2>6. MessagesArePosted'
    BY <1>0, <1>3, <2>2, <2>3, MessagesType, CallsType DEF DeliveryInv, MessagesArePosted
  <2>7. ResultsAreReturned'
    <3>1. SUFFICES ASSUME NEW c \in Calls, outcome'[c] # NoReply
                   PROVE  c.n <= ncall[c.task] /\ (Opened(c.task)' => c.n < ncall[c.task])
      BY <1>3 DEF ResultsAreReturned
    <3>2. CASE c = ThisCall(t)
      BY <2>1, <2>3, <3>2 DEF ThisCall, Opened
    <3>3. CASE c # ThisCall(t)
      BY <2>3, <2>4, <3>1, <3>3, CallsType DEF DeliveryInv, ResultsAreReturned, Opened
    <3> QED
      BY <3>2, <3>3
  <2>8. QueuedAreOpen'
    <3>1. SUFFICES ASSUME NEW m \in Elements(chan)
                   PROVE  \/ pc'[m.call.task] = "waiting" /\ m.call = ThisCall(m.call.task)
                          \/ outcome'[m.call] = TimedOut
      BY <1>3, <2>2 DEF QueuedAreOpen, ThisCall
    <3>2. m.call \in Calls /\ m.call.task \in Tasks
      BY <1>0, MessagesType, CallsType
    <3>3. CASE m.call = ThisCall(t)
      BY <1>3, <2>4, <3>2, <3>3
    <3>4. CASE m.call # ThisCall(t)
      BY <2>3, <2>4, <3>2, <3>4 DEF DeliveryInv, QueuedAreOpen
    <3> QED
      BY <3>3, <3>4
  <2> QED
    BY <1>0, <2>5, <2>6, <2>7, <2>8 DEF DeliveryInv
<1>4. ASSUME NEW t \in Tasks, Post(t), loop = "stopped" PROVE DeliveryInv'
  <2>1. \A m \in Elements(chan) : m.call # ThisCall(t)
    <3>1. ASSUME NEW m \in Elements(chan), m.call = ThisCall(t) PROVE FALSE
      <4>1. m.call.task = t /\ m.call.n = ncall[t] /\ ncall[t] \in Nat
        BY <1>0, <3>1 DEF ThisCall, TypeOK
      <4>2. m.call.n < ncall[t]
        BY <1>4, <4>1 DEF Post, DeliveryInv, MessagesArePosted
      <4> QED
        BY <4>1, <4>2
    <3> QED
      BY <3>1
  <2> QED
    BY <1>3, <1>4, <2>1 DEF Post, Opened
<1>5. ASSUME NEW t \in Tasks, TimeOut(t) \/ TimeOutSending(t) PROVE DeliveryInv'
  BY <1>3, <1>5 DEF TimeOut, TimeOutSending, Return, Opened
<1>6. ASSUME NEW t \in Tasks, TakeReply(t) PROVE DeliveryInv'
  <2>1. ThisCall(t) \in Calls
    BY <1>0, <1>6, ThisCallType DEF TakeReply, TypeOK
  <2>2. Copies(ThisCall(t)) # {}
    BY <1>6, <2>1 DEF TakeReply, DeliveryInv, AnswersWereSent
  <2>3. \A m \in Elements(chan) : m.call # ThisCall(t)
    BY <2>2 DEF DeliveryInv, OneMessagePerCall, Copies
  <2>4. /\ Opened(t) /\ pc' = [pc EXCEPT ![t] = "handling"]
        /\ outcome' = [outcome EXCEPT ![ThisCall(t)] = slot[ThisCall(t)]]
        /\ UNCHANGED <<ncall, chan, wire, inbox, slot>>
    BY <1>6 DEF TakeReply, Return, Opened
  <2> QED
    BY <1>3, <2>3, <2>4
<1>7. ASSUME NEW t \in Tasks, FindAborted(t) PROVE DeliveryInv'
  <2>1. \A m \in Elements(chan) : m.call # ThisCall(t)
    BY <1>7 DEF FindAborted, SenderAlive, Elements
  <2>2. /\ Opened(t) /\ pc' = [pc EXCEPT ![t] = "handling"]
        /\ outcome' = [outcome EXCEPT ![ThisCall(t)] = Aborted]
        /\ UNCHANGED <<ncall, chan, wire, inbox, slot>>
    BY <1>7 DEF FindAborted, Return, Opened
  <2> QED
    BY <1>3, <2>1, <2>2
<1>8. ASSUME UNCHANGED <<ncall, chan, wire, outcome, slot>>, inbox' \subseteq wire,
             \A t \in Tasks : pc'[t] # pc[t] =>
                {pc[t], pc'[t]} \cap {"sending", "waiting"} = {}
      PROVE  DeliveryInv'
  <2>1. \A t \in Tasks : /\ Opened(t)' <=> Opened(t)
                         /\ pc'[t] = "sending" <=> pc[t] = "sending"
    BY <1>8 DEF Opened
  <2> QED
    BY <1>0, <1>8, <2>1, DeliveryFrame DEF DeliveryInv
<1>9. ASSUME NEW t \in Tasks,
             \/ Finish(t) \/ RecvRequest(t) \/ SpawnScan(t)
             \/ SendResponse(t) \/ PublishEvent(t)
      PROVE  DeliveryInv'
  <2>1. \A u \in Tasks : pc'[u] # pc[u] => {pc[u], pc'[u]} \cap {"sending", "waiting"} = {}
    BY <1>0, <1>9 DEF Finish, RecvRequest, SpawnScan, SendResponse, PublishEvent, TypeOK
  <2>2. inbox \subseteq wire
    BY DEF DeliveryInv, AnswersWereSent
  <2> QED
    BY <1>8, <1>9, <2>1, <2>2
       DEF Finish, RecvRequest, SpawnScan, SendResponse, PublishEvent
<1>10. CASE Forward
  <2> DEFINE m == Head(chan)
             b == [id |-> AssignId(m), call |-> m.call]
  <2>1. /\ chan # <<>> /\ chan' = Tail(chan)
        /\ wire' \in {wire, wire \cup {b}}
        /\ UNCHANGED <<pc, ncall, inbox, slot, outcome>>
    BY <1>10 DEF Forward
  <2>2. /\ Elements(chan) = {m} \cup Elements(chan')
        /\ Len(chan) \in Nat \ {0} /\ DOMAIN chan = 1..Len(chan)
        /\ DOMAIN chan' = 1..(Len(chan) - 1)
        /\ \A i \in 1..(Len(chan) - 1) : chan'[i] = chan[i + 1]
        /\ m = chan[1]
    BY <1>0, <2>1, TailElements, LenProperties, HeadTailProperties, EmptySeq DEF TypeOK
  <2>3. \A i \in DOMAIN chan' : chan'[i].call # m.call
    BY <2>2 DEF DeliveryInv, OneMessagePerCall
  <2>4. \A x \in Elements(chan') : x.call # m.call
    BY <2>3 DEF Elements
  <2>5. \A x \in wire : x.call # m.call
    <3>1. m \in Elements(chan)
      BY <2>2
    <3> HIDE DEF m, b
    <3> QED
      BY <3>1 DEF DeliveryInv, OneMessagePerCall
  <2>6. \A i, j \in DOMAIN chan' : chan'[i].call = chan'[j].call => i = j
    <3>1. SUFFICES ASSUME NEW i \in 1..(Len(chan) - 1), NEW j \in 1..(Len(chan) - 1),
                          chan[i + 1].call = chan[j + 1].call
                   PROVE  i = j
      BY <2>2
    <3>2. i + 1 \in DOMAIN chan /\ j + 1 \in DOMAIN chan
      BY <2>2
    <3>3. i + 1 = j + 1
      BY <3>1, <3>2 DEF DeliveryInv, OneMessagePerCall
    <3> QED
      BY <3>3
  <2>7. OneMessagePerCall'
    BY <2>1, <2>2, <2>4, <2>5, <2>6 DEF DeliveryInv, OneMessagePerCall
  <2>8. \A x \in wire' \cup Elements(chan') :
           \E y \in wire \cup Elements(chan) : y.call = x.call
    BY <2>1, <2>2
  <2>9. MessagesArePosted'
    BY <2>1, <2>8 DEF DeliveryInv, MessagesArePosted
  <2>10. ResultsAreReturned'
    BY <2>1 DEF DeliveryInv, ResultsAreReturned, Opened
  <2>11. QueuedAreOpen'
    BY <2>1, <2>2 DEF DeliveryInv, QueuedAreOpen, ThisCall
  <2>12. AnswersWereSent'
    BY <2>1 DEF DeliveryInv, AnswersWereSent, Copies
  <2> QED
    BY <1>0, <2>7, <2>9, <2>10, <2>11, <2>12 DEF DeliveryInv
<1>11. ASSUME NEW r \in inbox, RecvResponse(r) PROVE DeliveryInv'
  <2>1. /\ inbox' \subseteq inbox
        /\ UNCHANGED <<pc, ncall, chan, wire, outcome>>
    BY <1>11 DEF RecvResponse
  <2>2. \A p \in pending : p.id = r.id => p.call = r.call
    BY <1>0 DEF CorrelationInv, IdsDetermineCalls, Bound
  <2>3. slot' \in {slot, Deliver(r.call, ReplyOf(r.call))}
    BY <1>11, <2>2 DEF RecvResponse
  <2>4. r \in wire /\ r \in Copies(r.call)
    BY DEF DeliveryInv, AnswersWereSent, Copies
  <2>5. \A c \in Calls : slot'[c] # NoReply => slot[c] # NoReply \/ c = r.call
    BY <1>0, <2>3 DEF Deliver, TypeOK
  <2>6. AnswersWereSent'
    BY <2>1, <2>4, <2>5 DEF DeliveryInv, AnswersWereSent, Copies
  <2>7. Elements(chan') = Elements(chan)
    BY <2>1 DEF Elements
  <2>8. OneMessagePerCall' /\ MessagesArePosted' /\ ResultsAreReturned' /\ QueuedAreOpen'
    BY <2>1, <2>7 DEF DeliveryInv, OneMessagePerCall, MessagesArePosted,
                      ResultsAreReturned, QueuedAreOpen, Opened, ThisCall
  <2> QED
    BY <1>0, <2>6, <2>8 DEF DeliveryInv
<1>12. CASE WriteOut \/ UNCHANGED vars
  BY <1>8, <1>12 DEF WriteOut, vars, DeliveryInv, AnswersWereSent
<1>13. ASSUME NEW x \in wire, Answer(x) PROVE DeliveryInv'
  BY <1>8, <1>13 DEF Answer, DeliveryInv, AnswersWereSent
<1>14. CASE Stop
  <2>1. chan' = <<>> /\ UNCHANGED <<pc, ncall, wire, inbox, slot, outcome>>
    BY <1>14 DEF Stop
  <2>2. Elements(chan') = {} /\ DOMAIN chan' = {}
    BY <2>1 DEF Elements
  <2>3. OneMessagePerCall' /\ MessagesArePosted' /\ QueuedAreOpen'
    BY <2>1, <2>2 DEF DeliveryInv, OneMessagePerCall, MessagesArePosted, QueuedAreOpen
  <2>4. ResultsAreReturned' /\ AnswersWereSent'
    BY <2>1 DEF DeliveryInv, ResultsAreReturned, AnswersWereSent, Copies, Opened
  <2> QED
    BY <1>0, <2>3, <2>4 DEF DeliveryInv
<1>15. ASSUME NEW t \in Tasks, Post(t) PROVE DeliveryInv'
  BY <1>0, <1>2, <1>4, <1>15 DEF TypeOK
<1> QED
  BY <1>1, <1>5, <1>6, <1>7, <1>9, <1>10, <1>11, <1>12, <1>13, <1>14, <1>15
     DEF Next, Handler, Terminated

LEMMA DeliveryInit == Init => DeliveryInv
<1> SUFFICES ASSUME Init PROVE DeliveryInv
  OBVIOUS
<1>1. CorrelationInv
  BY CorrelationInit
<1>2. Elements(chan) = {} /\ DOMAIN chan = {} /\ wire = {} /\ inbox = {}
  BY DEF Init, Elements
<1>3. OneMessagePerCall /\ MessagesArePosted /\ QueuedAreOpen
  BY <1>2 DEF OneMessagePerCall, MessagesArePosted, QueuedAreOpen
<1>4. ResultsAreReturned /\ AnswersWereSent
  BY <1>2 DEF Init, ResultsAreReturned, AnswersWereSent
<1> QED
  BY <1>1, <1>3, <1>4 DEF DeliveryInv

(* Every state in the serve loop's history is one of delivery.               *)
LEMMA Delivers == Spec => []DeliveryInv
<1>1. DeliveryInv /\ [Next]_vars => DeliveryInv'
  BY DeliveryStep
<1> QED
  BY <1>1, DeliveryInit, PTL DEF Spec

(* The state of RpcSpec that a state of the loop stands for.                 *)
Open == {[task |-> t, n |-> ncall[t]] : t \in {u \in Tasks : pc[u] \in {"sending", "waiting"}}}
Counts == [c \in Calls |-> Cardinality({b \in wire : b.call = c})]
Results == [c \in Calls |-> outcome[c].kind]

LEMMA CountsType ==
    ASSUME DeliveryInv, NEW c \in Calls
    PROVE  /\ Copies(c) = {} => Counts[c] = 0
           /\ Copies(c) # {} => Counts[c] = 1
<1>1. Counts[c] = Cardinality(Copies(c))
  BY DEF Counts, Copies
<1>2. CASE Copies(c) = {}
  BY <1>1, <1>2, FS_EmptySet
<1>3. CASE Copies(c) # {}
  <2>1. PICK b \in wire : b.call = c
    BY <1>3 DEF Copies
  <2>2. Copies(c) = {b}
    BY <2>1 DEF Copies, DeliveryInv, OneMessagePerCall
  <2>3. Cardinality({b}) = 1
    BY FS_Singleton
  <2> QED
    BY <1>1, <1>3, <2>2, <2>3
<1> QED
  BY <1>2, <1>3

LEMMA ResultsType ==
    ASSUME TypeOK, NEW c \in Calls
    PROVE  /\ Results[c] = outcome[c].kind
           /\ Results[c] = "none" <=> outcome[c] = NoReply
           /\ Results[c] = "timeout" <=> outcome[c] = TimedOut
BY DEF Results, TypeOK, Outcomes, NoReply, TimedOut, Aborted, Replies, ReplyOf

LEMMA OpenType ==
    ASSUME TypeOK, NEW c \in Calls
    PROVE  c \in Open <=> Opened(c.task) /\ c.n = ncall[c.task]
<1>1. c.task \in Tasks /\ c = [task |-> c.task, n |-> c.n]
  BY CallsType
<1> QED
  BY <1>1 DEF Open, Opened

(* A caller that turns to its result closes its call.                        *)
LEMMA ReturnCloses ==
    ASSUME DeliveryInv, NEW t \in Tasks, NEW r, Opened(t), Return(t, r)
    PROVE  /\ ThisCall(t) \in Calls /\ ThisCall(t) \in Open
           /\ Open' = Open \ {ThisCall(t)}
           /\ Results' = [Results EXCEPT ![ThisCall(t)] = r.kind]
           /\ Counts' = Counts /\ loop' = loop
<1>0. TypeOK
  BY DEF DeliveryInv, CorrelationInv
<1>1. ThisCall(t) \in Calls
  BY <1>0, ThisCallType DEF Opened, TypeOK
<1>2. \A u \in Tasks : pc'[u] = IF u = t THEN "handling" ELSE pc[u]
  BY <1>0 DEF Return, TypeOK
<1>3. Open' = Open \ {ThisCall(t)}
  BY <1>2 DEF Open, ThisCall, Return
<1>4. Results' = [Results EXCEPT ![ThisCall(t)] = r.kind]
  BY <1>0, <1>1 DEF Results, Return, TypeOK
<1>5. Counts' = Counts
  BY DEF Counts, Return
<1> QED
  BY <1>1, <1>3, <1>4, <1>5 DEF Open, Opened, ThisCall, Return

(* Every step of the loop is a step of RpcSpec, or none.                     *)
LEMMA RpcStep ==
    ASSUME DeliveryInv, [Next]_vars
    PROVE  [Abstract!Next]_(Abstract!vars)
<1> DEFINE Stutter == UNCHANGED <<loop, Open, Counts, Results>>
<1> USE RpcAssumption
<1>0. TypeOK /\ CorrelationInv
  BY DEF DeliveryInv, CorrelationInv
<1>s. ASSUME Stutter PROVE UNCHANGED Abstract!vars
  BY <1>s DEF Abstract!vars, Open, Counts, Results
<1>1. ASSUME NEW t \in Tasks, BeginCall(t) PROVE Abstract!Next
  <2>1. /\ pc[t] = "handling" /\ ncall[t] < MaxCalls[t]
        /\ pc' = [pc EXCEPT ![t] = "sending"]
        /\ ncall' = [ncall EXCEPT ![t] = ncall[t] + 1]
        /\ UNCHANGED <<loop, wire, outcome>>
    BY <1>0, <1>1 DEF BeginCall, TypeOK
  <2>2. PICK c \in Calls : /\ c = [task |-> t, n |-> ncall[t] + 1]
                          /\ c.task = t /\ c.n = ncall[t] + 1 /\ ncall[t] \in Nat
    <3>1. ncall[t] + 1 \in 1..MaxCalls[t] /\ ncall[t] \in Nat
      BY <1>0, <2>1 DEF TypeOK
    <3>2. [task |-> t, n |-> ncall[t] + 1] \in Calls
      BY <3>1 DEF Calls
    <3> QED
      BY <3>1, <3>2
  <2>3. \A u \in Tasks : /\ u # t => pc'[u] = pc[u] /\ ncall'[u] = ncall[u]
                         /\ u = t => pc'[u] = "sending" /\ ncall'[u] = ncall[t] + 1
    BY <1>0, <2>1 DEF TypeOK
  <2>4. Open' = Open \cup {c}
    BY <2>1, <2>2, <2>3 DEF Open
  <2>5. c \notin Open
    BY <1>0, <2>1, <2>2, OpenType DEF Opened
  <2>6. Results[c] = "none"
    <3>1. outcome[c] = NoReply
      BY <2>2 DEF DeliveryInv, ResultsAreReturned
    <3> QED
      BY <1>0, <2>2, <3>1, ResultsType
  <2>7. Counts[c] = 0
    <3>1. Copies(c) = {}
      BY <2>2 DEF DeliveryInv, MessagesArePosted, Copies
    <3> QED
      BY <2>2, <3>1, CountsType
  <2>8. Counts' = Counts /\ Results' = Results /\ loop' = loop
    BY <2>1 DEF Counts, Results
  <2>9. Abstract!Open(c)
    BY <2>4, <2>5, <2>6, <2>7, <2>8 DEF Abstract!Open, Open, Counts, Results
  <2> QED
    BY <2>2, <2>9 DEF Abstract!Next
<1>2. ASSUME NEW t \in Tasks, Post(t), loop = "running" PROVE Stutter
  <2>1. \A u \in Tasks : pc'[u] \in {"sending", "waiting"} <=> pc[u] \in {"sending", "waiting"}
    BY <1>0, <1>2 DEF Post, TypeOK
  <2> QED
    BY <1>2, <2>1 DEF Post, Open, Counts, Results
<1>3. ASSUME NEW t \in Tasks, NEW r, Opened(t), Return(t, r), r.kind = "timeout"
      PROVE  Abstract!Next
  <2>1. PICK c \in Calls : c = ThisCall(t)
    BY <1>3, ReturnCloses
  <2>2. Abstract!TimeOut(c)
    BY <1>3, <2>1, ReturnCloses
       DEF Abstract!TimeOut, Abstract!Close, Open, Counts, Results
  <2> QED
    BY <2>2 DEF Abstract!Next
<1>4. ASSUME NEW t \in Tasks, TimeOut(t) \/ TimeOutSending(t) PROVE Abstract!Next
  <2>1. Opened(t) /\ Return(t, TimedOut) /\ TimedOut.kind = "timeout"
    BY <1>4 DEF TimeOut, TimeOutSending, Opened, TimedOut
  <2> QED
    BY <1>3, <2>1
<1>5. ASSUME NEW t \in Tasks, TakeReply(t) PROVE Abstract!Next
  <2>1. Opened(t) /\ Return(t, slot[ThisCall(t)]) /\ slot[ThisCall(t)] # NoReply
    BY <1>5 DEF TakeReply, Opened
  <2>2. PICK c \in Calls : c = ThisCall(t)
    BY <2>1, ReturnCloses
  <2>3. slot[c].kind = "reply"
    BY <1>0, <2>1, <2>2 DEF CorrelationInv, SlotsHoldOwnReply, ReplyOf
  <2>4. Counts[c] = 1
    BY <2>1, <2>2, CountsType DEF DeliveryInv, AnswersWereSent
  <2>5. Abstract!Reply(c)
    BY <2>1, <2>2, <2>3, <2>4, ReturnCloses
       DEF Abstract!Reply, Abstract!Close, Open, Counts, Results
  <2> QED
    BY <2>5 DEF Abstract!Next
<1>6. ASSUME NEW t \in Tasks, NEW r, Opened(t), Return(t, r), r = Aborted, loop = "stopped"
      PROVE  Abstract!Next
  <2>1. r.kind = "aborted"
    BY <1>6 DEF Aborted
  <2>2. PICK c \in Calls : c = ThisCall(t)
    BY <1>6, ReturnCloses
  <2>3. Abstract!Abort(c)
    BY <1>6, <2>1, <2>2, ReturnCloses
       DEF Abstract!Abort, Abstract!Close, Open, Counts, Results
  <2> QED
    BY <2>3 DEF Abstract!Next
<1>7. ASSUME NEW t \in Tasks, FindAborted(t) PROVE Abstract!Next
  <2>1. Opened(t) /\ Return(t, Aborted)
    BY <1>7 DEF FindAborted, Opened
  <2>2. loop = "stopped"
    BY <1>0, <1>7 DEF FindAborted, CorrelationInv, WaitersAreKnown, TypeOK
  <2> QED
    BY <1>6, <2>1, <2>2
<1>8. ASSUME NEW t \in Tasks, Post(t), loop = "stopped" PROVE Abstract!Next
  <2>1. Opened(t) /\ Return(t, Aborted)
    BY <1>8 DEF Post, Return, Opened
  <2> QED
    BY <1>6, <1>8, <2>1
<1>9. ASSUME NEW t \in Tasks,
             \/ Finish(t) \/ RecvRequest(t) \/ SpawnScan(t)
             \/ SendResponse(t) \/ PublishEvent(t)
      PROVE  Stutter
  <2>1. \A u \in Tasks : pc'[u] \in {"sending", "waiting"} <=> pc[u] \in {"sending", "waiting"}
    BY <1>0, <1>9 DEF Finish, RecvRequest, SpawnScan, SendResponse, PublishEvent, TypeOK
  <2>2. UNCHANGED <<loop, ncall, wire, outcome>>
    BY <1>9 DEF Finish, RecvRequest, SpawnScan, SendResponse, PublishEvent
  <2> QED
    BY <2>1, <2>2 DEF Open, Counts, Results
<1>10. CASE Forward
  <2> DEFINE m == Head(chan)
             c == m.call
             b == [id |-> AssignId(m), call |-> m.call]
  <2>1. /\ loop = "running" /\ chan # <<>>
        /\ wire' \in {wire, wire \cup {b}}
        /\ UNCHANGED <<loop, pc, ncall, outcome>>
    BY <1>10 DEF Forward
  <2>2. m \in Elements(chan)
    BY <1>0, <2>1, TailElements DEF TypeOK
  <2>3. c \in Calls /\ c.task \in Tasks
    BY <1>0, <2>2, MessagesType, CallsType
  <2>4. Copies(c) = {}
    <3>1. \A x \in wire : x.call # c
      <4> HIDE DEF m, b
      <4> QED
        BY <2>2 DEF DeliveryInv, OneMessagePerCall
    <3> QED
      BY <3>1 DEF Copies
  <2>5. c \in Open \/ Results[c] = "timeout"
    <3>1. \/ pc[c.task] = "waiting" /\ c = ThisCall(c.task)
          \/ outcome[c] = TimedOut
      BY <2>2 DEF DeliveryInv, QueuedAreOpen
    <3>2. c = ThisCall(c.task) => c.n = ncall[c.task]
      BY DEF ThisCall
    <3> HIDE DEF c
    <3> QED
      BY <1>0, <2>3, <3>1, <3>2, OpenType, ResultsType DEF Opened
  <2>6. Open' = Open /\ Results' = Results
    BY <2>1 DEF Open, Results
  <2>7. CASE wire' = wire
    BY <2>1, <2>6, <2>7, <1>s DEF Counts
  <2>8. CASE wire' = wire \cup {b}
    <3>1. \A d \in Calls : {x \in wire' : x.call = d} = IF d = c THEN {b} ELSE Copies(d)
      BY <2>4, <2>8 DEF Copies
    <3>2. Cardinality({b}) = 1
      BY FS_Singleton
    <3>3. Counts' = [Counts EXCEPT ![c] = 1]
      BY <2>3, <3>1, <3>2 DEF Counts, Copies
    <3>4. Counts[c] = 0
      BY <2>3, <2>4, CountsType
    <3> HIDE DEF c, m, b
    <3>5. Abstract!Send(c)
      BY <2>1, <2>5, <2>6, <3>3, <3>4 DEF Abstract!Send, Open, Counts, Results
    <3> QED
      BY <2>3, <3>5 DEF Abstract!Next
  <2> QED
    BY <2>1, <2>7, <2>8
<1>11. ASSUME \/ WriteOut \/ UNCHANGED vars
              \/ \E r \in inbox : RecvResponse(r)
              \/ \E x \in wire : Answer(x)
      PROVE  Stutter
  <2>1. UNCHANGED <<loop, pc, ncall, wire, outcome>>
    BY <1>11 DEF WriteOut, vars, RecvResponse, Answer
  <2> QED
    BY <2>1 DEF Open, Counts, Results
<1>12. CASE Stop
  <2>1. loop = "running" /\ loop' = "stopped" /\ UNCHANGED <<pc, ncall, wire, outcome>>
    BY <1>12 DEF Stop
  <2>2. UNCHANGED <<Open, Counts, Results>>
    BY <2>1 DEF Open, Counts, Results
  <2>3. Abstract!Shutdown
    BY <2>1, <2>2 DEF Abstract!Shutdown, Open, Counts, Results
  <2> QED
    BY <2>3 DEF Abstract!Next
<1>13. ASSUME NEW t \in Tasks, Post(t) PROVE Stutter \/ Abstract!Next
  BY <1>0, <1>2, <1>8, <1>13 DEF TypeOK
<1> HIDE DEF Stutter
<1> QED
  BY <1>s, <1>1, <1>4, <1>5, <1>7, <1>9, <1>10, <1>11, <1>12, <1>13
     DEF Next, Handler, Terminated

(* The serve loop implements what Rpc::call promises: a call reaches the     *)
(* kernel at most once and not before it is made, it returns once, with an   *)
(* answer only if it was sent, and aborted only after the shutdown.          *)
THEOREM LoopImplementsRpcSpec == Spec => ImplementsRpcSpec
<1>1. Init => Abstract!Init
  <2> SUFFICES ASSUME Init PROVE Abstract!Init
    OBVIOUS
  <2>1. Open = {}
    BY DEF Init, Open
  <2>2. Counts = [c \in Calls |-> 0]
    BY FS_EmptySet DEF Init, Counts
  <2>3. Results = [c \in Calls |-> "none"]
    BY DEF Init, Results, NoReply
  <2> QED
    BY <2>1, <2>2, <2>3 DEF Init, Abstract!Init, Open, Counts, Results
<1>2. DeliveryInv /\ [Next]_vars => [Abstract!Next]_(Abstract!vars)
  BY RpcStep
<1> QED
  BY <1>1, <1>2, Delivers, PTL DEF Spec, ImplementsRpcSpec, Abstract!Spec
=============================================================================
