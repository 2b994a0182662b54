---------------------------- MODULE Voice_proofs ----------------------------
(***************************************************************************)
(* Proofs about Voice, for any number of turns, timeouts, chunks and keys. *)
(***************************************************************************)
EXTENDS Voice, SequenceTheorems, TLAPS

(***************************************************************************)
(* Types.                                                                  *)
(***************************************************************************)
USE DEF Tasks

LEMMA RefusedType == Refused \in Replies
  BY DEF Refused, Replies

\* What an answer changes: the reply of the task that waits for it, nothing else.
LEMMA AnswerFacts ==
  ASSUME TypeOK, NEW req, NEW r \in Replies
  PROVE  /\ Answer(req, r) \in [Tasks -> TaskStates]
         /\ \A t \in Tasks :
              /\ Answer(req, r)[t].pc = task[t].pc
              /\ Answer(req, r)[t].turn = task[t].turn
              /\ Answer(req, r)[t].sess = task[t].sess
              /\ Answer(req, r)[t].reply =
                   IF task[t].turn = req.turn /\ task[t].pc = req.op THEN r
                   ELSE task[t].reply
  BY DEF Answer, TypeOK, TaskStates

LEMMA StopFacts ==
  ASSUME TypeOK, NEW ids
  PROVE  /\ RequestStop(sess, ids) \in Seq(Sessions)
         /\ Len(RequestStop(sess, ids)) = Len(sess)
         /\ \A i \in DOMAIN sess :
              RequestStop(sess, ids)[i].state =
                IF i \in ids /\ sess[i].state = "reading" THEN "stopping" ELSE sess[i].state
<1> DEFINE n == Len(sess)
           e(i) == IF i \in ids /\ sess[i].state = "reading"
                   THEN [sess[i] EXCEPT !.state = "stopping"] ELSE sess[i]
<1>1. n \in Nat /\ DOMAIN sess = 1 .. n /\ \A i \in 1 .. n : sess[i] \in Sessions
  BY LenProperties, ElementOfSeq DEF TypeOK
<1>2. RequestStop(sess, ids) = [i \in 1 .. n |-> e(i)]
  BY <1>1 DEF RequestStop
<1>3. \A i \in 1 .. n : e(i) \in Sessions
  BY <1>1 DEF Sessions
<1>4. RequestStop(sess, ids) \in [1 .. n -> Sessions]
  BY <1>2, <1>3
<1>5. RequestStop(sess, ids) \in Seq(Sessions)
  BY <1>1, <1>4, SeqDef
<1>6. Len(RequestStop(sess, ids)) = n
  BY <1>1, <1>4, <1>5, LenProperties
<1>7. \A i \in 1 .. n : e(i).state =
         IF i \in ids /\ sess[i].state = "reading" THEN "stopping" ELSE sess[i].state
  BY <1>1 DEF Sessions
<1> QED
  BY <1>1, <1>2, <1>5, <1>6, <1>7

LEMMA IdleType == Idle \in TaskStates
  BY DEF Idle, TaskStates, Stages

LEMMA AtType ==
  ASSUME TypeOK, NEW t \in Tasks, NEW pc \in Stages
  PROVE  /\ At(t, pc) \in TaskStates
         /\ At(t, pc).pc = pc
         /\ At(t, pc).turn = task[t].turn
         /\ At(t, pc).sess = task[t].sess
         /\ At(t, pc).reply = NoReply
  BY DEF At, TypeOK, TaskStates

LEMMA EndTurnType ==
  ASSUME TypeOK, NEW t \in Tasks, EndTurn(t)
  PROVE  busy' \in BOOLEAN /\ capturing' \in BOOLEAN /\ task' \in [Tasks -> TaskStates]
  BY IdleType DEF EndTurn, TypeOK

LEMMA RequestType ==
  ASSUME TypeOK, NEW n \in Nat, NEW k \in Nat
  PROVE  /\ \A op \in MicCalls : Append(micQ, Request(op, n, k)) \in Seq(MicRequests)
         /\ \A op \in SttCalls : Append(sttQ, Request(op, n, k)) \in Seq(SttRequests \cup Chunks)
<1>1. ASSUME NEW op \in MicCalls
      PROVE  Append(micQ, Request(op, n, k)) \in Seq(MicRequests)
  <2>1. Request(op, n, k) \in MicRequests
    BY DEF Request, MicRequests
  <2> QED
    BY <2>1, AppendProperties DEF TypeOK
<1>2. ASSUME NEW op \in SttCalls
      PROVE  Append(sttQ, Request(op, n, k)) \in Seq(SttRequests \cup Chunks)
  <2>1. Request(op, n, k) \in SttRequests \cup Chunks
    BY DEF Request, SttRequests
  <2> QED
    BY <2>1, AppendProperties DEF TypeOK
<1> QED
  BY <1>1, <1>2

LEMMA GotoType ==
  ASSUME TypeOK, NEW t \in Tasks, NEW pc \in Calls, Goto(t, pc)
  PROVE  /\ task' \in [Tasks -> TaskStates]
         /\ micQ' \in Seq(MicRequests)
         /\ sttQ' \in Seq(SttRequests \cup Chunks)
<1>1. task' \in [Tasks -> TaskStates]
  BY AtType DEF Goto, TypeOK, Stages
<1>2. task[t].turn \in Nat /\ task[t].sess \in Nat
  BY DEF TypeOK, TaskStates
<1>3. micQ' \in Seq(MicRequests)
  BY <1>2, RequestType DEF Goto, TypeOK
<1>4. sttQ' \in Seq(SttRequests \cup Chunks)
  BY <1>2, RequestType DEF Goto, TypeOK
<1> QED
  BY <1>1, <1>3, <1>4

LEMMA BeginType ==
  ASSUME TypeOK, NEW t \in Tasks, NEW pc \in {"think", "stt_listen_start"}, Begin(t, pc),
         capturing' \in BOOLEAN, keys' \in Seq({"pressed", "released", "other"})
  PROVE  TypeOK'
<1>1. turns' \in Nat /\ turns + 1 \in Nat
  BY DEF Begin, TypeOK
<1>2. task' \in [Tasks -> TaskStates]
  BY <1>1 DEF Begin, TypeOK, TaskStates, Idle, Stages, Calls, SttCalls
<1>3. sttQ' \in Seq(SttRequests \cup Chunks)
  BY <1>1 DEF Begin, TypeOK, SttRequests, SttCalls, Request
<1> QED
  BY <1>1, <1>2, <1>3 DEF Begin, TryBeginTurn, TypeOK, mic

LEMMA AfterType ==
  ASSUME TypeOK, NEW t \in Tasks, NEW r \in Replies, After(t, r), timeouts' \in Nat
  PROVE  TypeOK'
<1>1. /\ busy' \in BOOLEAN /\ capturing' \in BOOLEAN
      /\ task' \in [Tasks -> TaskStates]
      /\ micQ' \in Seq(MicRequests)
      /\ sttQ' \in Seq(SttRequests \cup Chunks)
  <2>1. CASE AfterListenStart(t, r)
    BY <2>1, EndTurnType, GotoType DEF AfterListenStart, TypeOK, Calls, MicCalls
  <2>2. CASE AfterMicStart(t, r)
    <3>1. CASE r.ok
      <4>1. At(t, "hold") \in TaskStates
        BY AtType DEF Stages
      <4>2. [At(t, "hold") EXCEPT !.sess = r.sess] \in TaskStates
        BY <4>1 DEF TaskStates, Replies
      <4> QED
        BY <2>2, <3>1, <4>2 DEF AfterMicStart, TypeOK
    <3>2. CASE ~r.ok
      BY <2>2, <3>2, GotoType DEF AfterMicStart, TypeOK, Calls, SttCalls
    <3> QED  BY <3>1, <3>2
  <2>3. CASE AfterUndo(t)
    BY <2>3, EndTurnType DEF AfterUndo, TypeOK
  <2>4. CASE AfterMicStop(t, r)
    BY <2>4, GotoType, IdleType DEF AfterMicStop, TypeOK, Calls, SttCalls
  <2>5. CASE AfterListenStop(t, r)
    <3>1. At(t, "think") \in TaskStates
      BY AtType DEF Stages
    <3> QED
      <4>1. CASE r.ok /\ r.text /\ task[t].released
        BY <2>5, <3>1, <4>1 DEF AfterListenStop, TypeOK
      <4>2. CASE ~(r.ok /\ r.text /\ task[t].released)
        BY <2>5, <4>2, IdleType DEF AfterListenStop, TypeOK
      <4> QED  BY <4>1, <4>2
  <2> QED
    BY <2>1, <2>2, <2>3, <2>4, <2>5 DEF After
<1> QED
  BY <1>1 DEF After, TypeOK

LEMMA EndHoldType ==
  ASSUME TypeOK, NEW t \in Tasks, NEW b \in BOOLEAN, EndHold(t, b),
         keys' \in Seq({"pressed", "released", "other"}), events' \in Seq({"started", "ended", "other"})
  PROVE  TypeOK'
<1>1. task' \in [Tasks -> TaskStates]
  <2>1. At(t, "mic_stop") \in TaskStates
    BY AtType DEF Stages, Calls, MicCalls
  <2>2. [At(t, "mic_stop") EXCEPT !.released = b] \in TaskStates
    BY <2>1 DEF TaskStates
  <2> QED
    BY <2>2 DEF EndHold, TypeOK
<1>2. micQ' \in Seq(MicRequests)
  <2>1. task[t].turn \in Nat /\ task[t].sess \in Nat
    BY DEF TypeOK, TaskStates
  <2> QED
    BY <2>1, RequestType DEF EndHold, MicCalls
<1> QED
  BY <1>1, <1>2 DEF EndHold, TypeOK, bounds

LEMMA TypeStep == TypeOK /\ [Next]_vars => TypeOK'
<1> SUFFICES ASSUME TypeOK, [Next]_vars PROVE TypeOK'
  OBVIOUS
<1>1. CASE DaemonTurn
  BY <1>1, BeginType DEF DaemonTurn, TypeOK
<1>2. CASE Tick
  BY <1>2, BeginType DEF Tick, TypeOK
<1>3. CASE SetEnabled
  BY <1>3 DEF SetEnabled, TypeOK, mic, bounds
<1>4. CASE Key
  <2>1. keys' \in Seq({"pressed", "released", "other"})
    BY <1>4, AppendProperties DEF Key, TypeOK
  <2> QED
    BY <1>4, <2>1 DEF Key, TypeOK, mic, daemon
<1>5. CASE PttKey
  <2>1. keys' \in Seq({"pressed", "released", "other"})
    BY <1>5, HeadTailProperties DEF PttKey, TypeOK
  <2>2. CASE Head(keys) = "pressed" /\ enabled /\ ~busy
    BY <1>5, <2>1, <2>2, BeginType DEF PttKey, TypeOK
  <2>3. CASE ~(Head(keys) = "pressed" /\ enabled /\ ~busy)
    BY <1>5, <2>1, <2>3 DEF PttKey, TypeOK, mic, daemon, bounds
  <2> QED  BY <2>2, <2>3
<1>6. CASE PttEvent
  <2>1. keys' \in Seq({"pressed", "released", "other"})
    BY <1>6, HeadTailProperties DEF PttEvent, TypeOK
  <2>2. events' \in Seq({"started", "ended", "other"})
    BY <1>6 DEF PttEvent, TypeOK
  <2>3. CASE Head(keys) = "released"
    BY <1>6, <2>1, <2>2, <2>3, EndHoldType DEF PttEvent
  <2>4. CASE Head(keys) # "released"
    BY <1>6, <2>1, <2>4 DEF PttEvent, TypeOK, mic, daemon, bounds
  <2> QED  BY <2>3, <2>4
<1>7. CASE MaxHold
  BY <1>7, EndHoldType DEF MaxHold, TypeOK
<1>8. CASE SpeechEvent
  <2>1. events' \in Seq({"started", "ended", "other"}) /\ keys' \in Seq({"pressed", "released", "other"})
    BY <1>8, HeadTailProperties DEF SpeechEvent, TypeOK
  <2>2. ASSUME NEW t \in Tasks, EndHold(t, TRUE) PROVE TypeOK'
    BY <2>1, <2>2, EndHoldType
  <2>3. CASE UNCHANGED <<inst, daemon, mic, sttQ, stream, bounds>>
    BY <2>1, <2>3 DEF TypeOK, mic, daemon, bounds
  <2> QED
    BY <1>8, <2>2, <2>3 DEF SpeechEvent
<1>9. ASSUME NEW t \in Tasks, TakeReply(t) PROVE TypeOK'
  <2>1. task[t].reply \in Replies
    BY <1>9 DEF TakeReply, TypeOK, TaskStates
  <2> QED
    BY <1>9, <2>1, AfterType DEF TakeReply, TypeOK
<1>10. ASSUME NEW t \in Tasks, TimeOut(t) PROVE TypeOK'
  <2>1. timeouts' \in Nat
    BY <1>10 DEF TimeOut, TypeOK
  <2> QED
    BY <1>10, <2>1, AfterType, RefusedType DEF TimeOut
<1>11. ASSUME NEW t \in Tasks, WindowElapses(t) \/ SpeechDeadline(t) PROVE TypeOK'
  BY <1>11, EndHoldType DEF WindowElapses, SpeechDeadline, TypeOK
<1>12. ASSUME NEW t \in Tasks, Think(t) PROVE TypeOK'
  <2>1. At(t, "speak") \in TaskStates
    BY AtType DEF Stages
  <2>2. busy' \in BOOLEAN /\ capturing' \in BOOLEAN /\ task' \in [Tasks -> TaskStates]
    BY <1>12, <2>1, EndTurnType DEF Think, TypeOK
  <2> QED
    BY <1>12, <2>2 DEF Think, TypeOK, mic, bounds
<1>13. ASSUME NEW t \in Tasks, Speak(t) PROVE TypeOK'
  <2>1. task[t].turn \in Nat
    BY DEF TypeOK, TaskStates
  <2>2. Append(history, task[t].turn) \in Seq(Nat) /\ Append(history, task[t].turn) # <<>>
    <3>1. /\ Append(history, task[t].turn) \in Seq(Nat)
          /\ Len(Append(history, task[t].turn)) = Len(history) + 1
      BY <2>1, AppendProperties DEF TypeOK
    <3>2. Len(history) \in Nat
      BY LenProperties DEF TypeOK
    <3> QED
      BY <3>1, <3>2, EmptySeq
  <2>3. history' \in Seq(Nat)
    BY <1>13, <2>2, HeadTailProperties DEF Speak, Remember
  <2> QED
    BY <1>13, <2>3, EndTurnType DEF Speak, TypeOK, mic, bounds
<1>14. CASE ServeMic
  <2>1. Head(micQ) \in MicRequests /\ micQ' \in Seq(MicRequests)
    BY <1>14, HeadTailProperties DEF ServeMic, TypeOK
  <2>2. Len(sess) \in Nat /\ DOMAIN sess = 1 .. Len(sess)
    BY LenProperties DEF TypeOK
  <2>3. ASSUME NEW req, MicStart(req)
        PROVE  /\ task' \in [Tasks -> TaskStates]
               /\ sess' \in Seq(Sessions)
               /\ active' \subseteq DOMAIN sess'
    <3>1. CASE task' = Answer(req, Refused) /\ UNCHANGED <<sess, active>>
      BY <3>1, AnswerFacts, RefusedType DEF TypeOK
    <3>2. CASE /\ sess' = Append(RequestStop(sess, active), Recording)
               /\ active' = {Len(sess) + 1}
               /\ task' = Answer(req, [ok |-> TRUE, sess |-> Len(sess) + 1, text |-> FALSE])
      <4>1. Recording \in Sessions
        BY DEF Recording, Sessions
      <4>2. sess' \in Seq(Sessions) /\ Len(sess') = Len(sess) + 1
        BY <3>2, <4>1, StopFacts, AppendProperties
      <4>3. [ok |-> TRUE, sess |-> Len(sess) + 1, text |-> FALSE] \in Replies
        BY <2>2 DEF Replies
      <4>4. DOMAIN sess' = 1 .. Len(sess')
        BY <4>2, LenProperties
      <4> QED
        BY <2>2, <3>2, <4>2, <4>3, <4>4, AnswerFacts
    <3> QED
      BY <2>3, <3>1, <3>2 DEF MicStart
  <2>4. ASSUME NEW req, MicStop(req)
        PROVE  /\ task' \in [Tasks -> TaskStates]
               /\ sess' \in Seq(Sessions)
               /\ active' \subseteq DOMAIN sess'
    <3>1. [ok |-> TRUE, sess |-> 0, text |-> FALSE] \in Replies
      BY DEF Replies
    <3>2. sess' \in Seq(Sessions) /\ Len(sess') = Len(sess)
      BY <2>4, StopFacts DEF MicStop
    <3>3. DOMAIN sess' = DOMAIN sess
      BY <2>2, <3>2, LenProperties
    <3> QED
      BY <2>4, <3>1, <3>2, <3>3, AnswerFacts DEF MicStop, TypeOK
  <2>5. /\ task' \in [Tasks -> TaskStates]
        /\ sess' \in Seq(Sessions)
        /\ active' \subseteq DOMAIN sess'
    BY <1>14, <2>3, <2>4 DEF ServeMic
  <2> QED
    BY <1>14, <2>1, <2>5 DEF ServeMic, TypeOK, bounds
<1>15. ASSUME NEW i \in DOMAIN sess, ReadChunk(i) \/ EndCapture(i) PROVE TypeOK'
  <2>1. Len(sess) \in Nat /\ DOMAIN sess = 1 .. Len(sess) /\ sess[i] \in Sessions
    BY LenProperties, ElementOfSeq DEF TypeOK
  <2>2. \A b \in BOOLEAN : [op |-> "chunk", sess |-> i, audio |-> b] \in Chunks
    BY <2>1 DEF Chunks
  <2>3. out' \in Seq(Chunks)
    <3>1. \E c \in Chunks : out' = Append(out, c)
      BY <1>15, <2>2 DEF ReadChunk, EndCapture
    <3> QED
      BY <3>1, AppendProperties DEF TypeOK
  <2>4. \E e \in Sessions : sess' = [sess EXCEPT ![i] = e]
    BY <1>15, <2>1 DEF ReadChunk, EndCapture, Sessions
  <2>5. sess' \in Seq(Sessions) /\ DOMAIN sess' = DOMAIN sess
    BY <2>1, <2>4, ExceptSeq, LenProperties DEF TypeOK
  <2> QED
    BY <1>15, <2>3, <2>5 DEF ReadChunk, EndCapture, TypeOK, daemon, bounds
<1>16. CASE Forward
  <2>1. Head(out) \in Chunks /\ out' \in Seq(Chunks)
    BY <1>16, HeadTailProperties DEF Forward, TypeOK
  <2>2. sttQ' \in Seq(SttRequests \cup Chunks)
    BY <1>16, <2>1, AppendProperties DEF Forward, TypeOK
  <2> QED
    BY <1>16, <2>1, <2>2 DEF Forward, TypeOK, daemon, bounds
<1>17. CASE ServeStt
  <2>1. sttQ' \in Seq(SttRequests \cup Chunks)
    BY <1>17, HeadTailProperties DEF ServeStt, TypeOK
  <2>2. \A b \in BOOLEAN : [ok |-> TRUE, sess |-> 0, text |-> b] \in Replies
    BY DEF Replies
  <2>3. ASSUME NEW req, ListenStart(req) \/ ListenStop(req)
        PROVE  /\ task' \in [Tasks -> TaskStates]
               /\ stream' \in [open : BOOLEAN, audio : BOOLEAN, talking : BOOLEAN]
               /\ events' \in Seq({"started", "ended", "other"})
    <3>1. Closed \in [open : BOOLEAN, audio : BOOLEAN, talking : BOOLEAN]
      BY DEF Closed
    <3>2. Opened \in [open : BOOLEAN, audio : BOOLEAN, talking : BOOLEAN]
      BY DEF Closed, Opened
    <3>3. CASE ListenStart(req)
      <4>1. \E r \in Replies : task' = Answer(req, r)
        BY <2>2, <3>3, RefusedType DEF ListenStart
      <4>2. task' \in [Tasks -> TaskStates]
        BY <4>1, AnswerFacts
      <4> QED
        BY <3>2, <3>3, <4>2 DEF ListenStart, TypeOK
    <3>4. CASE ListenStop(req)
      <4>1. \E r \in Replies : task' = Answer(req, r)
        BY <2>2, <3>4, RefusedType DEF ListenStop
      <4>2. task' \in [Tasks -> TaskStates]
        BY <4>1, AnswerFacts
      <4> QED
        BY <3>1, <3>4, <4>2 DEF ListenStop, TypeOK
    <3> QED  BY <2>3, <3>3, <3>4
  <2>4. ASSUME NEW chunk, Push(chunk)
        PROVE  /\ task' \in [Tasks -> TaskStates]
               /\ stream' \in [open : BOOLEAN, audio : BOOLEAN, talking : BOOLEAN]
               /\ events' \in Seq({"started", "ended", "other"})
    <3>1. CASE UNCHANGED <<stream, events>>
      BY <2>4, <3>1 DEF Push, TypeOK
    <3>2. ASSUME NEW what \in {"none", "started", "ended"}, NEW b \in BOOLEAN,
                 stream' = [stream EXCEPT !.audio = TRUE, !.talking = b],
                 events' = IF what = "none" THEN events ELSE Append(events, what)
          PROVE  /\ stream' \in [open : BOOLEAN, audio : BOOLEAN, talking : BOOLEAN]
                 /\ events' \in Seq({"started", "ended", "other"})
      BY <3>2, AppendProperties DEF TypeOK
    <3>3. \/ UNCHANGED <<stream, events>>
          \/ \E what \in {"none", "started", "ended"}, b \in BOOLEAN :
                /\ stream' = [stream EXCEPT !.audio = TRUE, !.talking = b]
                /\ events' = IF what = "none" THEN events ELSE Append(events, what)
      <4>1. CASE ~(~stream.open \/ ~chunk.audio)
        <5>1. PICK step \in [event : {"none", "started", "ended"}, talking : BOOLEAN] :
                /\ stream' = [stream EXCEPT !.audio = TRUE, !.talking = step.talking]
                /\ events' = IF step.event = "none" THEN events ELSE Append(events, step.event)
          <6>1. Silent \in [event : {"none", "started", "ended"}, talking : BOOLEAN]
            BY DEF Silent
          <6> QED
            BY <2>4, <4>1, <6>1 DEF Push, Feed
        <5> QED
          BY <5>1
      <4> QED
        BY <2>4, <4>1 DEF Push
    <3> QED
      BY <2>4, <3>1, <3>2, <3>3 DEF Push, TypeOK
  <2>5. /\ task' \in [Tasks -> TaskStates]
        /\ stream' \in [open : BOOLEAN, audio : BOOLEAN, talking : BOOLEAN]
        /\ events' \in Seq({"started", "ended", "other"})
    BY <1>17, <2>3, <2>4 DEF ServeStt
  <2> QED
    BY <1>17, <2>1, <2>5 DEF ServeStt, TypeOK, mic, bounds
<1>18. CASE OtherEvent
  <2>1. keys' \in {keys, <<"other">>} /\ events' \in {events, <<"other">>}
    BY <1>18 DEF OtherEvent
  <2>2. /\ keys' \in Seq({"pressed", "released", "other"})
        /\ events' \in Seq({"started", "ended", "other"})
    BY <2>1, <<"other">> \in Seq({"pressed", "released", "other"}),
       <<"other">> \in Seq({"started", "ended", "other"}) DEF TypeOK
  <2> QED
    BY <1>18, <2>2 DEF OtherEvent, TypeOK, mic, daemon, bounds
<1>19. CASE UNCHANGED vars
  BY <1>19 DEF vars, TypeOK
<1> QED
  BY <1>1, <1>2, <1>3, <1>4, <1>5, <1>6, <1>7, <1>8, <1>9, <1>10, <1>11, <1>12, <1>13,
     <1>14, <1>15, <1>16, <1>17, <1>18, <1>19 DEF Next

(***************************************************************************)
(* The turn slot.                                                          *)
(***************************************************************************)
LEMMA SlotTaken ==
  ASSUME TypeOK, OneTurn, NEW t \in Tasks, NEW k, k.pc # "idle", ~busy, busy' = TRUE,
         task' = [task EXCEPT ![t] = k]
  PROVE  OneTurn'
  BY DEF OneTurn, TypeOK

LEMMA SlotKept ==
  ASSUME TypeOK, OneTurn, NEW t \in Tasks, NEW k, k.pc # "idle", task[t].pc # "idle",
         busy' = busy, task' = [task EXCEPT ![t] = k]
  PROVE  OneTurn'
  BY DEF OneTurn, TypeOK

LEMMA SlotFreed ==
  ASSUME TypeOK, OneTurn, NEW t \in Tasks, task[t].pc # "idle", busy' = FALSE,
         task' = [task EXCEPT ![t] = Idle]
  PROVE  OneTurn'
  BY DEF OneTurn, TypeOK, Idle

LEMMA SlotSame ==
  ASSUME OneTurn, busy' = busy, \A t \in Tasks : task'[t].pc = task[t].pc
  PROVE  OneTurn'
  BY DEF OneTurn

\* What serving a request of mic or of stt does to the tasks.
LEMMA ServeAnswers ==
  ASSUME TypeOK, ServeMic \/ ServeStt
  PROVE  UNCHANGED task \/ \E req : \E r \in Replies : task' = Answer(req, r)
<1>1. \A b \in BOOLEAN, n \in Nat : [ok |-> TRUE, sess |-> n, text |-> b] \in Replies
  BY DEF Replies
<1>2. Len(sess) + 1 \in Nat
  BY LenProperties DEF TypeOK
<1>3. CASE ServeMic
  <2>1. \E r \in Replies : task' = Answer(Head(micQ), r)
    BY <1>1, <1>2, <1>3, RefusedType DEF ServeMic, MicStart, MicStop
  <2> QED  BY <2>1
<1>4. CASE ServeStt
  <2>1. UNCHANGED task \/ \E r \in Replies : task' = Answer(Head(sttQ), r)
    BY <1>1, <1>4, RefusedType DEF ServeStt, ListenStart, ListenStop, Push
  <2> QED  BY <2>1
<1> QED  BY <1>3, <1>4

LEMMA OneTurnStep == TypeOK /\ OneTurn /\ [Next]_vars => OneTurn'
<1> SUFFICES ASSUME TypeOK, OneTurn, [Next]_vars PROVE OneTurn'
  OBVIOUS
<1>1. ASSUME NEW t \in Tasks, NEW pc \in {"think", "stt_listen_start"}, Begin(t, pc)
      PROVE  OneTurn'
  <2>1. [Idle EXCEPT !.pc = pc, !.turn = turns + 1].pc # "idle"
    BY DEF Idle
  <2> QED
    BY <1>1, <2>1, SlotTaken DEF Begin, TryBeginTurn
<1>2. ASSUME NEW t \in Tasks, NEW b, EndHold(t, b), task[t].pc = "hold"
      PROVE  OneTurn'
  <2>1. [At(t, "mic_stop") EXCEPT !.released = b].pc # "idle"
    BY AtType DEF At, TypeOK, TaskStates
  <2> QED
    BY <1>2, <2>1, SlotKept DEF EndHold
<1>3. ASSUME NEW t \in Tasks, NEW pc \in Calls, Goto(t, pc), task[t].pc # "idle", busy' = busy
      PROVE  OneTurn'
  <2>1. At(t, pc).pc # "idle"
    BY AtType DEF Stages, Calls, MicCalls, SttCalls
  <2> QED
    BY <1>3, <2>1, SlotKept DEF Goto
<1>4. ASSUME NEW t \in Tasks, NEW r \in Replies, After(t, r) PROVE OneTurn'
  <2>1. CASE task[t].pc = "stt_listen_start" /\ AfterListenStart(t, r)
    BY <1>3, <2>1, SlotFreed DEF AfterListenStart, EndTurn, Calls, MicCalls
  <2>2. CASE task[t].pc = "mic_start" /\ AfterMicStart(t, r)
    <3>1. [At(t, "hold") EXCEPT !.sess = r.sess].pc # "idle"
      BY DEF At, TypeOK, TaskStates
    <3> QED
      BY <1>3, <2>2, <3>1, SlotKept DEF AfterMicStart, Calls, SttCalls
  <2>3. CASE task[t].pc = "undo" /\ AfterUndo(t)
    BY <2>3, SlotFreed DEF AfterUndo, EndTurn
  <2>4. CASE task[t].pc = "mic_stop" /\ AfterMicStop(t, r)
    BY <1>3, <2>4, SlotFreed DEF AfterMicStop, Calls, SttCalls
  <2>5. CASE task[t].pc = "stt_listen_stop" /\ AfterListenStop(t, r)
    <3>1. At(t, "think").pc # "idle"
      BY AtType DEF Stages
    <3> QED
      BY <2>5, <3>1, SlotFreed, SlotKept DEF AfterListenStop
  <2> QED
    BY <1>4, <2>1, <2>2, <2>3, <2>4, <2>5 DEF After
<1>5. CASE DaemonTurn \/ Tick
  BY <1>1, <1>5 DEF DaemonTurn, Tick
<1>6. CASE SetEnabled \/ Key \/ OtherEvent
  BY <1>6, SlotSame DEF SetEnabled, Key, OtherEvent, daemon
<1>7. CASE PttKey
  <2>1. CASE Begin("ptt", "stt_listen_start")
    BY <1>1, <2>1
  <2>2. CASE UNCHANGED daemon
    BY <2>2, SlotSame DEF daemon
  <2> QED
    BY <1>7, <2>1, <2>2 DEF PttKey
<1>8. CASE PttEvent
  BY <1>2, <1>8, SlotSame DEF PttEvent, daemon
<1>9. CASE MaxHold
  BY <1>2, <1>9 DEF MaxHold
<1>10. CASE SpeechEvent
  BY <1>2, <1>10, SlotSame DEF SpeechEvent, daemon
<1>11. ASSUME NEW t \in Tasks, TakeReply(t) \/ TimeOut(t) PROVE OneTurn'
  <2>1. task[t].reply # NoReply => task[t].reply \in Replies
    BY DEF TypeOK, TaskStates
  <2> QED
    BY <1>4, <1>11, <2>1, RefusedType DEF TakeReply, TimeOut
<1>12. ASSUME NEW t \in Tasks, WindowElapses(t) \/ SpeechDeadline(t) PROVE OneTurn'
  BY <1>2, <1>12 DEF WindowElapses, SpeechDeadline
<1>13. ASSUME NEW t \in Tasks, Think(t) \/ Speak(t) PROVE OneTurn'
  <2>1. At(t, "speak").pc # "idle"
    BY AtType DEF Stages
  <2> QED
    BY <1>13, <2>1, SlotFreed, SlotKept DEF Think, Speak, EndTurn
<1>14. CASE ServeMic \/ ServeStt
  <2>1. busy' = busy
    BY <1>14 DEF ServeMic, ServeStt
  <2>2. \A t \in Tasks : task'[t].pc = task[t].pc
    BY <1>14, ServeAnswers, AnswerFacts
  <2> QED
    BY <2>1, <2>2, SlotSame
<1>15. CASE Forward \/ \E i \in DOMAIN sess : ReadChunk(i) \/ EndCapture(i)
  BY <1>15, SlotSame DEF Forward, ReadChunk, EndCapture, daemon
<1>16. CASE UNCHANGED vars
  BY <1>16, SlotSame DEF vars
<1> QED
  BY <1>5, <1>6, <1>7, <1>8, <1>9, <1>10, <1>11, <1>12, <1>13, <1>14, <1>15, <1>16 DEF Next

(***************************************************************************)
(* The table of mic.                                                       *)
(***************************************************************************)
LEMMA TableStep == TypeOK /\ TableInv /\ [Next]_vars => TableInv'
<1> SUFFICES ASSUME TypeOK, TableInv, [Next]_vars PROVE TableInv'
  OBVIOUS
<1>1. Len(sess) \in Nat /\ DOMAIN sess = 1 .. Len(sess)
  BY LenProperties DEF TypeOK
<1>2. ASSUME NEW req, MicStart(req) PROVE TableInv'
  <2>1. CASE UNCHANGED <<sess, active>>
    BY <2>1 DEF TableInv
  <2>2. CASE /\ sess' = Append(RequestStop(sess, active), Recording)
             /\ active' = {Len(sess) + 1}
    <3>1. Recording \in Sessions
      BY DEF Recording, Sessions
    <3> DEFINE s == RequestStop(sess, active)
    <3>2. s \in Seq(Sessions) /\ Len(s) = Len(sess)
      BY StopFacts
    <3>3. \A i \in 1 .. Len(sess) : s[i].state # "reading"
      BY <1>1, StopFacts DEF TableInv
    <3> HIDE DEF s
    <3>4. /\ Len(sess') = Len(sess) + 1 /\ DOMAIN sess' = 1 .. Len(sess')
          /\ \A i \in 1 .. Len(sess) : sess'[i] = s[i]
      BY <2>2, <3>1, <3>2, AppendProperties, LenProperties DEF s
    <3>5. \A i \in DOMAIN sess' : sess'[i].state = "reading" => i = Len(sess) + 1
      BY <1>1, <3>3, <3>4
    <3> QED
      BY <2>2, <3>5 DEF TableInv
  <2> QED
    BY <1>2, <2>1, <2>2 DEF MicStart
<1>3. ASSUME NEW req, MicStop(req) PROVE TableInv'
  <2> DEFINE reaped == {i \in active : sess[i].state # "done"}
  <2>1. DOMAIN sess' = DOMAIN sess
    BY <1>1, <1>3, StopFacts, LenProperties DEF MicStop
  <2>2. \A i \in DOMAIN sess : sess'[i].state =
          IF i \in reaped \cap {req.sess} /\ sess[i].state = "reading"
          THEN "stopping" ELSE sess[i].state
    BY <1>3, StopFacts DEF MicStop
  <2> QED
    BY <1>3, <2>1, <2>2 DEF MicStop, TableInv
<1>4. CASE ServeMic
  BY <1>2, <1>3, <1>4 DEF ServeMic
<1>5. ASSUME NEW i \in DOMAIN sess, ReadChunk(i) \/ EndCapture(i) PROVE TableInv'
  <2>1. sess[i] \in Sessions
    BY <1>1, ElementOfSeq DEF TypeOK
  <2>2. \E e \in Sessions : sess' = [sess EXCEPT ![i] = e]
                            /\ (e.state = "reading" => sess[i].state = "reading")
    BY <1>5, <2>1 DEF ReadChunk, EndCapture, Sessions
  <2>3. DOMAIN sess' = DOMAIN sess /\ \A j \in DOMAIN sess :
           sess'[j].state = "reading" => sess[j].state = "reading"
    BY <2>2
  <2> QED
    BY <1>5, <2>3 DEF ReadChunk, EndCapture, TableInv
<1>6. CASE UNCHANGED <<sess, active>>
  BY <1>6 DEF TableInv
<1>7. CASE DaemonTurn \/ Tick \/ SetEnabled \/ Key \/ OtherEvent \/ PttKey \/ PttEvent \/ MaxHold
  BY <1>6, <1>7 DEF DaemonTurn, Tick, SetEnabled, Key, OtherEvent, PttKey, PttEvent, MaxHold, Begin,
                    EndHold, mic
<1>8. CASE SpeechEvent \/ Forward \/ ServeStt
  BY <1>6, <1>8 DEF SpeechEvent, Forward, ServeStt, EndHold, mic
<1>9. ASSUME NEW t \in Tasks,
             \/ TakeReply(t) \/ TimeOut(t) \/ WindowElapses(t) \/ SpeechDeadline(t)
             \/ Think(t) \/ Speak(t)
      PROVE TableInv'
  BY <1>6, <1>9 DEF TakeReply, TimeOut, WindowElapses, SpeechDeadline, Think, Speak, After,
                    EndHold, mic
<1>10. CASE UNCHANGED vars
  BY <1>6, <1>10 DEF vars
<1> QED
  BY <1>4, <1>5, <1>7, <1>8, <1>9, <1>10 DEF Next

(***************************************************************************)
(* The capturing flag.                                                     *)
(***************************************************************************)
LEMMA FlagDown == ~capturing' => FlagInv'
  BY DEF FlagInv

LEMMA FlagSame ==
  ASSUME FlagInv, busy' = busy, capturing' = capturing,
         \A t \in Tasks : task'[t].pc = task[t].pc
  PROVE  FlagInv'
  BY DEF FlagInv

\* The running turn goes on: only what the flag is for its new stage matters.
LEMMA FlagMove ==
  ASSUME TypeOK, OneTurn, NEW t \in Tasks, NEW k,
         task' = [task EXCEPT ![t] = k], busy' = TRUE, task[t].pc # "idle" \/ ~busy,
         t # "ptt" /\ k.pc \in {"stt_listen_start", "mic_start", "undo", "think", "speak"}
            => ~capturing'
  PROVE  FlagInv'
<1>1. \A u \in Tasks \ {t} : task[u].pc = "idle"
  BY DEF OneTurn
<1>2. \A u \in Tasks \ {t} : task'[u].pc = "idle"
  BY <1>1 DEF TypeOK
<1>3. task'[t] = k
  BY DEF TypeOK
<1> QED
  BY <1>2, <1>3 DEF FlagInv

LEMMA FlagStep == TypeOK /\ OneTurn /\ FlagInv /\ [Next]_vars => FlagInv'
<1> SUFFICES ASSUME TypeOK, OneTurn, FlagInv, [Next]_vars PROVE FlagInv'
  OBVIOUS
<1>1. ASSUME NEW t \in Tasks, NEW pc \in {"think", "stt_listen_start"}, Begin(t, pc),
             t # "ptt" => capturing' = capturing
      PROVE  FlagInv'
  <2> DEFINE k == [Idle EXCEPT !.pc = pc, !.turn = turns + 1]
  <2>1. ~busy /\ busy' = TRUE /\ task' = [task EXCEPT ![t] = k]
    BY <1>1 DEF Begin, TryBeginTurn
  <2>2. t # "ptt" => ~capturing'
    BY <1>1, <2>1 DEF FlagInv
  <2> HIDE DEF k
  <2> QED
    BY <2>1, <2>2, FlagMove
<1>2. ASSUME NEW t \in Tasks, EndTurn(t),
             task[t].pc \in {"stt_listen_start", "undo", "think", "speak"}
      PROVE  FlagInv'
  <2>1. ~capturing'
    BY <1>2 DEF EndTurn, FlagInv
  <2> QED
    BY <2>1, FlagDown
<1>3. ASSUME NEW t \in Tasks, NEW b, EndHold(t, b), task[t].pc = "hold" PROVE FlagInv'
  <2> DEFINE k == [At(t, "mic_stop") EXCEPT !.released = b]
  <2>1. busy
    BY <1>3 DEF OneTurn
  <2>2. k.pc = "mic_stop"
    BY DEF At, TypeOK, TaskStates
  <2>3. task' = [task EXCEPT ![t] = k] /\ busy' = TRUE
    BY <1>3, <2>1 DEF EndHold, TypeOK
  <2> HIDE DEF k
  <2> QED
    BY <1>3, <2>2, <2>3, FlagMove
<1>4. ASSUME NEW t \in Tasks, NEW pc \in Calls, Goto(t, pc), task[t].pc # "idle",
             busy' = busy, capturing' = capturing,
             \/ task[t].pc \in {"stt_listen_start", "mic_start"}
             \/ pc = "stt_listen_stop"
      PROVE  FlagInv'
  <2> DEFINE k == At(t, pc)
  <2>1. busy' = TRUE
    BY <1>4 DEF OneTurn, TypeOK
  <2>2. k.pc = pc
    BY AtType DEF Stages
  <2>3. task' = [task EXCEPT ![t] = k]
    BY <1>4 DEF Goto
  <2>4. t # "ptt" /\ pc # "stt_listen_stop" => ~capturing'
    BY <1>4 DEF FlagInv
  <2> HIDE DEF k
  <2> QED
    BY <1>4, <2>1, <2>2, <2>3, <2>4, FlagMove
<1>5. ASSUME NEW t \in Tasks, NEW r \in Replies, After(t, r) PROVE FlagInv'
  <2>1. CASE task[t].pc = "stt_listen_start" /\ AfterListenStart(t, r)
    BY <1>2, <1>4, <2>1 DEF AfterListenStart, Calls, MicCalls
  <2>2. CASE task[t].pc = "mic_start" /\ AfterMicStart(t, r)
    <3> DEFINE k == [At(t, "hold") EXCEPT !.sess = r.sess]
    <3>1. k.pc = "hold"
      BY DEF At, TypeOK, TaskStates
    <3>2. busy = TRUE
      BY <2>2 DEF OneTurn, TypeOK
    <3>3. CASE task' = [task EXCEPT ![t] = k] /\ busy' = busy
      <4> HIDE DEF k
      <4> QED
        BY <2>2, <3>1, <3>2, <3>3, FlagMove
    <3>4. CASE Goto(t, "undo") /\ UNCHANGED <<busy, capturing>>
      BY <1>4, <2>2, <3>4 DEF Calls, SttCalls
    <3> QED
      BY <2>2, <3>3, <3>4 DEF AfterMicStart
  <2>3. CASE task[t].pc = "undo" /\ AfterUndo(t)
    BY <1>2, <2>3 DEF AfterUndo
  <2>4. CASE task[t].pc = "mic_stop" /\ AfterMicStop(t, r)
    BY <1>4, <2>4, FlagDown DEF AfterMicStop, Calls, SttCalls
  <2>5. CASE task[t].pc = "stt_listen_stop" /\ AfterListenStop(t, r)
    <3> DEFINE k == At(t, "think")
    <3>1. busy = TRUE
      BY <2>5 DEF OneTurn, TypeOK
    <3>2. CASE task' = [task EXCEPT ![t] = k] /\ capturing' = (t = "ptt") /\ busy' = busy
      <4> HIDE DEF k
      <4> QED
        BY <2>5, <3>1, <3>2, FlagMove
    <3>3. CASE ~capturing'
      BY <3>3, FlagDown
    <3> QED
      BY <2>5, <3>2, <3>3 DEF AfterListenStop
  <2> QED
    BY <1>5, <2>1, <2>2, <2>3, <2>4, <2>5 DEF After
<1>6. CASE DaemonTurn \/ Tick
  BY <1>1, <1>6 DEF DaemonTurn, Tick
<1>7. CASE SetEnabled \/ Key \/ OtherEvent
  BY <1>7, FlagSame DEF SetEnabled, Key, OtherEvent, daemon
<1>8. CASE PttKey
  <2>1. CASE UNCHANGED daemon
    BY <2>1, FlagSame DEF daemon
  <2>2. CASE Begin("ptt", "stt_listen_start")
    BY <1>1, <2>2
  <2> QED
    BY <1>8, <2>1, <2>2 DEF PttKey
<1>9. CASE PttEvent \/ MaxHold
  BY <1>3, <1>9, FlagSame DEF PttEvent, MaxHold, daemon
<1>10. CASE SpeechEvent
  BY <1>3, <1>10, FlagSame DEF SpeechEvent, daemon
<1>11. ASSUME NEW t \in Tasks, TakeReply(t) \/ TimeOut(t) PROVE FlagInv'
  <2>1. task[t].reply # NoReply => task[t].reply \in Replies
    BY DEF TypeOK, TaskStates
  <2> QED
    BY <1>5, <1>11, <2>1, RefusedType DEF TakeReply, TimeOut
<1>12. ASSUME NEW t \in Tasks, WindowElapses(t) \/ SpeechDeadline(t) PROVE FlagInv'
  BY <1>3, <1>12 DEF WindowElapses, SpeechDeadline
<1>13. ASSUME NEW t \in Tasks, Think(t) \/ Speak(t) PROVE FlagInv'
  <2>1. CASE EndTurn(t)
    BY <1>2, <1>13, <2>1 DEF Think, Speak
  <2>2. CASE task[t].pc = "think" /\ task' = [task EXCEPT ![t] = At(t, "speak")]
             /\ UNCHANGED <<busy, capturing>>
    <3> DEFINE k == At(t, "speak")
    <3>1. busy' = TRUE /\ (t # "ptt" => ~capturing')
      BY <2>2 DEF OneTurn, TypeOK, FlagInv
    <3> HIDE DEF k
    <3> QED
      BY <2>2, <3>1, FlagMove DEF k
  <2> QED
    BY <1>13, <2>1, <2>2 DEF Think, Speak
<1>14. CASE ServeMic \/ ServeStt
  <2>1. busy' = busy /\ capturing' = capturing
    BY <1>14 DEF ServeMic, ServeStt
  <2>2. \A t \in Tasks : task'[t].pc = task[t].pc
    BY <1>14, ServeAnswers, AnswerFacts
  <2> QED
    BY <2>1, <2>2, FlagSame
<1>15. CASE Forward \/ \E i \in DOMAIN sess : ReadChunk(i) \/ EndCapture(i)
  BY <1>15, FlagSame DEF Forward, ReadChunk, EndCapture, daemon
<1>16. CASE UNCHANGED vars
  BY <1>16, FlagSame DEF vars
<1> QED
  BY <1>6, <1>7, <1>8, <1>9, <1>10, <1>11, <1>12, <1>13, <1>14, <1>15, <1>16 DEF Next

(***************************************************************************)
(* The memory of the daemon.                                               *)
(***************************************************************************)
LEMMA MemorySame ==
  ASSUME MemoryInv, history' = history, turns' = turns, busy' => busy
  PROVE  MemoryInv'
  BY DEF MemoryInv, HistoryInOrder

\* Remembering the running turn keeps the order and the length.
LEMMA Remembered ==
  ASSUME TypeOK, MemoryInv, busy
  PROVE  LET h == Remember(history, turns)
         IN  /\ Len(h) <= MEMORY_TURNS
             /\ \A i, j \in DOMAIN h : i < j => h[i] < h[j]
             /\ \A i \in DOMAIN h : h[i] <= turns
<1> DEFINE l == Append(history, turns)
           n == Len(history)
<1>1. n \in Nat /\ DOMAIN history = 1 .. n /\ \A i \in 1 .. n : history[i] \in Nat
  BY LenProperties, ElementOfSeq DEF TypeOK
<1>2. /\ l \in Seq(Nat) /\ Len(l) = n + 1 /\ DOMAIN l = 1 .. n + 1
      /\ \A i \in 1 .. n : l[i] = history[i]
      /\ l[n + 1] = turns
  BY AppendProperties, LenProperties DEF TypeOK
<1>3. n <= MEMORY_TURNS /\ MEMORY_TURNS \in Nat /\ turns \in Nat
  BY VoiceAssumption DEF MemoryInv, HistoryInOrder, TypeOK
<1>4. \A i \in 1 .. n : history[i] < turns
  BY <1>1 DEF MemoryInv
<1>5. \A i, j \in 1 .. n : i < j => history[i] < history[j]
  BY <1>1 DEF MemoryInv, HistoryInOrder
<1>6. \A i, j \in 1 .. n + 1 : i < j => l[i] < l[j]
  BY <1>1, <1>2, <1>4, <1>5
<1>7. \A i \in 1 .. n + 1 : l[i] <= turns
  BY <1>1, <1>2, <1>3, <1>4
<1> HIDE DEF l, n
<1>8. CASE Len(l) <= MEMORY_TURNS
  <2>1. Remember(history, turns) = l
    BY <1>1, <1>2, <1>3, <1>8 DEF Remember, l
  <2> QED
    BY <1>2, <1>6, <1>7, <1>8, <2>1
<1>9. CASE Len(l) > MEMORY_TURNS
  <2>1. Remember(history, turns) = Tail(l)
    BY <1>9 DEF Remember, l
  <2>2. l # <<>>
    BY <1>1, <1>2, EmptySeq
  <2>3. /\ Tail(l) \in Seq(Nat) /\ Len(Tail(l)) = n
        /\ \A i \in 1 .. n : Tail(l)[i] = l[i + 1]
    BY <1>1, <1>2, <2>2, HeadTailProperties
  <2>4. DOMAIN Tail(l) = 1 .. n
    BY <2>3, LenProperties
  <2>5. ASSUME NEW i \in 1 .. n, NEW j \in 1 .. n, i < j PROVE Tail(l)[i] < Tail(l)[j]
    <3>1. i + 1 \in 1 .. n + 1 /\ j + 1 \in 1 .. n + 1 /\ i + 1 < j + 1
      BY <1>1, <2>5
    <3> QED
      BY <1>6, <2>3, <3>1
  <2>6. ASSUME NEW i \in 1 .. n PROVE Tail(l)[i] <= turns
    <3>1. i + 1 \in 1 .. n + 1
      BY <1>1
    <3> QED
      BY <1>7, <2>3, <3>1
  <2> QED
    BY <1>3, <2>1, <2>3, <2>4, <2>5, <2>6
<1> QED
  BY <1>1, <1>2, <1>3, <1>8, <1>9

LEMMA MemoryStep == TypeOK /\ OneTurn /\ StageInv /\ MemoryInv /\ [Next]_vars => MemoryInv'
<1> SUFFICES ASSUME TypeOK, OneTurn, StageInv, MemoryInv, [Next]_vars PROVE MemoryInv'
  OBVIOUS
<1>1. ASSUME NEW t \in Tasks, NEW pc, Begin(t, pc) PROVE MemoryInv'
  <2>1. history' = history /\ turns' = turns + 1 /\ turns \in Nat
    BY <1>1 DEF Begin, TypeOK
  <2>2. \A i \in DOMAIN history : history[i] \in Nat /\ history[i] <= turns
    BY LenProperties, ElementOfSeq DEF MemoryInv, TypeOK
  <2>3. \A i \in DOMAIN history : history[i] <= turns + 1 /\ history[i] < turns + 1
    BY <2>1, <2>2
  <2> QED
    BY <2>1, <2>3 DEF MemoryInv, HistoryInOrder
<1>2. ASSUME NEW t \in Tasks, Speak(t) PROVE MemoryInv'
  <2>1. task[t].turn = turns /\ busy
    BY <1>2 DEF Speak, StageInv, OneTurn
  <2>2. history' = Remember(history, turns) /\ turns' = turns /\ busy' = FALSE
    BY <1>2, <2>1 DEF Speak, EndTurn, bounds
  <2> DEFINE h == Remember(history, turns)
  <2>3. /\ Len(h) <= MEMORY_TURNS
        /\ \A i, j \in DOMAIN h : i < j => h[i] < h[j]
        /\ \A i \in DOMAIN h : h[i] <= turns
    BY <2>1, Remembered
  <2> HIDE DEF h
  <2>4. history' = h
    BY <2>2 DEF h
  <2> QED
    BY <2>2, <2>3, <2>4 DEF MemoryInv, HistoryInOrder
<1>3. CASE DaemonTurn \/ Tick
  BY <1>1, <1>3 DEF DaemonTurn, Tick
<1>4. CASE SetEnabled \/ Key \/ OtherEvent \/ Forward \/ ServeMic \/ ServeStt
  BY <1>4, MemorySame DEF SetEnabled, Key, OtherEvent, Forward, ServeMic, ServeStt, daemon, bounds
<1>5. CASE PttKey
  <2>1. CASE Begin("ptt", "stt_listen_start")
    BY <1>1, <2>1
  <2>2. CASE UNCHANGED <<daemon, bounds>>
    BY <2>2, MemorySame DEF daemon, bounds
  <2> QED
    BY <1>5, <2>1, <2>2 DEF PttKey
<1>6. CASE PttEvent \/ MaxHold \/ SpeechEvent
  BY <1>6, MemorySame DEF PttEvent, MaxHold, SpeechEvent, EndHold, daemon, bounds
<1>7. ASSUME NEW t \in Tasks, TakeReply(t) \/ TimeOut(t) PROVE MemoryInv'
  <2>1. PICK r : After(t, r)
    BY <1>7 DEF TakeReply, TimeOut
  <2>2. history' = history /\ turns' = turns
    BY <2>1 DEF After
  <2>3. busy' => busy
    BY <2>1 DEF After, AfterListenStart, AfterMicStart, AfterUndo, AfterMicStop,
                AfterListenStop, EndTurn
  <2> QED
    BY <2>2, <2>3, MemorySame
<1>8. ASSUME NEW t \in Tasks, WindowElapses(t) \/ SpeechDeadline(t) \/ Think(t)
      PROVE  MemoryInv'
  <2>1. history' = history /\ turns' = turns
    BY <1>8 DEF WindowElapses, SpeechDeadline, Think, EndHold, bounds
  <2>2. busy' => busy
    BY <1>8 DEF WindowElapses, SpeechDeadline, Think, EndHold, EndTurn
  <2> QED
    BY <2>1, <2>2, MemorySame
<1>9. CASE \E i \in DOMAIN sess : ReadChunk(i) \/ EndCapture(i)
  BY <1>9, MemorySame DEF ReadChunk, EndCapture, daemon, bounds
<1>10. CASE UNCHANGED vars
  BY <1>10, MemorySame DEF vars
<1> QED
  BY <1>2, <1>3, <1>4, <1>5, <1>6, <1>7, <1>8, <1>9, <1>10 DEF Next

(***************************************************************************)
(* The queues: what a request that is added, or served, leaves true.       *)
(***************************************************************************)
LEMMA QueueAges ==
  ASSUME NEW M, NEW q \in Seq(M), NEW n \in Nat, UpTo(q, n),
         \A m \in M : IsRequest(m) => m.turn \in Nat
  PROVE  UpTo(q, n + 1) /\ Older(q, n + 1)
<1>1. \A i \in 1 .. Len(q) : q[i] \in M
  BY ElementOfSeq
<1>2. \A i \in 1 .. Len(q) : IsRequest(q[i]) => q[i].turn \in Nat /\ q[i].turn <= n
  BY <1>1 DEF UpTo
<1> QED
  BY <1>2 DEF UpTo, Older

LEMMA QueueAppend ==
  ASSUME NEW M, NEW q \in Seq(M), NEW m \in M, NEW n \in Nat, NEW op
  PROVE  /\ NoRequest(q) /\ ~IsRequest(m) => NoRequest(Append(q, m))
         /\ UpTo(q, n) /\ (IsRequest(m) => m.turn <= n) => UpTo(Append(q, m), n)
         /\ Older(q, n) /\ m.op = op /\ m.turn = n => LastRequest(Append(q, m), op, n)
         /\ LastRequest(q, op, n) /\ ~IsRequest(m) => LastRequest(Append(q, m), op, n)
<1> DEFINE a == Append(q, m)
           l == Len(q)
<1>1. /\ l \in Nat /\ Len(a) = l + 1
      /\ \A i \in 1 .. l : a[i] = q[i]
      /\ a[l + 1] = m
  BY AppendProperties, LenProperties
<1>2. 1 .. l + 1 = (1 .. l) \cup {l + 1} /\ l + 1 \notin 1 .. l
  BY <1>1
<1> HIDE DEF a
<1>3. NoRequest(q) /\ ~IsRequest(m) => NoRequest(a)
  BY <1>1, <1>2 DEF NoRequest
<1>4. UpTo(q, n) /\ (IsRequest(m) => m.turn <= n) => UpTo(a, n)
  BY <1>1, <1>2 DEF UpTo
<1>5. ASSUME Older(q, n), m.op = op, m.turn = n PROVE LastRequest(a, op, n)
  <2>1. \A j \in 1 .. l : IsRequest(a[j]) => a[j].turn < n
    BY <1>1, <1>5 DEF Older
  <2>2. \A j \in 1 .. l : j < l + 1
    BY <1>1
  <2>3. \A j \in 1 .. l + 1 : IsRequest(a[j]) /\ j # l + 1 => j < l + 1 /\ a[j].turn < n
    BY <1>2, <2>1, <2>2
  <2> QED
    BY <1>1, <1>2, <1>5, <2>3 DEF LastRequest
<1>6. ASSUME LastRequest(q, op, n), ~IsRequest(m) PROVE LastRequest(a, op, n)
  <2>1. PICK i \in 1 .. l :
          /\ q[i].op = op /\ q[i].turn = n
          /\ \A j \in 1 .. l : IsRequest(q[j]) /\ j # i => j < i /\ q[j].turn < n
    BY <1>6 DEF LastRequest
  <2>2. \A j \in 1 .. l + 1 : IsRequest(a[j]) /\ j # i => j < i /\ a[j].turn < n
    BY <1>1, <1>2, <1>6, <2>1
  <2> QED
    BY <1>1, <1>2, <2>1, <2>2 DEF LastRequest
<1> QED
  BY <1>3, <1>4, <1>5, <1>6 DEF a

LEMMA QuietTail ==
  ASSUME NEW M, NEW q \in Seq(M), q # <<>>, NoRequest(q)
  PROVE  ~IsRequest(Head(q)) /\ NoRequest(Tail(q))
<1>1. Len(q) \in Nat /\ Len(q) # 0
  BY LenProperties, EmptySeq
<1>2. /\ Head(q) = q[1] /\ Len(Tail(q)) = Len(q) - 1
      /\ \A i \in 1 .. Len(q) - 1 : Tail(q)[i] = q[i + 1]
  BY <1>1, HeadTailProperties
<1>3. 1 \in 1 .. Len(q) /\ \A i \in 1 .. Len(q) - 1 : i + 1 \in 1 .. Len(q)
  BY <1>1
<1> QED
  BY <1>2, <1>3 DEF NoRequest

\* A queue that ends with the request of the running turn: when its head is served,
\* that was the request and no other is left, or it was an older one.
LEMMA QueueTail ==
  ASSUME NEW M, NEW q \in Seq(M), q # <<>>, NEW n, NEW op, op # "chunk"
  PROVE  /\ UpTo(q, n) => UpTo(Tail(q), n)
         /\ Older(q, n) => Older(Tail(q), n)
         /\ LastRequest(q, op, n) =>
              \/ Head(q).op = op /\ Head(q).turn = n /\ NoRequest(Tail(q))
              \/ /\ IsRequest(Head(q)) => Head(q).turn < n
                 /\ LastRequest(Tail(q), op, n)
<1> DEFINE b == Tail(q)
           l == Len(q)
<1>1. l \in Nat /\ l # 0
  BY LenProperties, EmptySeq
<1>2. /\ Head(q) = q[1] /\ Len(b) = l - 1
      /\ \A i \in 1 .. l - 1 : b[i] = q[i + 1]
  BY <1>1, HeadTailProperties
<1>3. 1 \in 1 .. l /\ \A i \in 1 .. l - 1 : i + 1 \in 1 .. l /\ i + 1 # 1
  BY <1>1
<1> HIDE DEF b
<1>4. (UpTo(q, n) => UpTo(b, n)) /\ (Older(q, n) => Older(b, n))
  BY <1>2, <1>3 DEF UpTo, Older
<1>5. ASSUME LastRequest(q, op, n)
      PROVE  \/ Head(q).op = op /\ Head(q).turn = n /\ NoRequest(b)
             \/ /\ IsRequest(Head(q)) => Head(q).turn < n
                /\ LastRequest(b, op, n)
  <2>1. PICK i \in 1 .. l :
          /\ q[i].op = op /\ q[i].turn = n
          /\ \A j \in 1 .. l : IsRequest(q[j]) /\ j # i => j < i /\ q[j].turn < n
    BY <1>5 DEF LastRequest
  <2>2. CASE i = 1
    <3>1. ASSUME NEW j \in 1 .. l - 1 PROVE ~IsRequest(b[j])
      <4>1. j + 1 \in 1 .. l /\ j + 1 # 1 /\ ~(j + 1 < 1) /\ b[j] = q[j + 1]
        BY <1>1, <1>2
      <4> QED
        BY <2>1, <2>2, <4>1
    <3> QED
      BY <1>2, <2>1, <2>2, <3>1 DEF NoRequest
  <2>3. CASE i # 1
    <3> DEFINE p == i - 1
    <3>1. p \in 1 .. l - 1 /\ b[p] = q[i]
      BY <1>1, <1>2, <2>3
    <3>2. ASSUME NEW j \in 1 .. l - 1, IsRequest(b[j]), j # p PROVE j < p /\ b[j].turn < n
      <4>1. j + 1 \in 1 .. l /\ j + 1 # i /\ b[j] = q[j + 1]
        BY <1>1, <1>2, <3>2
      <4>2. j + 1 < i /\ b[j].turn < n
        BY <2>1, <3>2, <4>1
      <4> QED
        BY <1>1, <4>2
    <3> HIDE DEF p
    <3>3. LastRequest(b, op, n)
      BY <1>2, <2>1, <3>1, <3>2 DEF LastRequest
    <3> QED
      BY <1>2, <1>3, <2>1, <2>3, <3>3
  <2> QED  BY <2>2, <2>3
<1> QED
  BY <1>4, <1>5 DEF b

(***************************************************************************)
(* The stages of the running turn.                                         *)
(***************************************************************************)
LEMMA RequestsNumbered ==
  /\ \A m \in MicRequests : IsRequest(m) /\ m.turn \in Nat
  /\ \A m \in SttRequests \cup Chunks : IsRequest(m) => m \in SttRequests /\ m.turn \in Nat
  BY DEF MicRequests, SttRequests, Chunks, IsRequest, MicCalls, SttCalls

LEMMA QueueTypes ==
  ASSUME TypeOK
  PROVE  /\ micQ \in Seq(MicRequests) /\ sttQ \in Seq(SttRequests \cup Chunks)
         /\ turns \in Nat
  BY DEF TypeOK

\* Only the task t runs.
LEMMA StageIntro ==
  ASSUME NEW t \in Tasks,
         UpTo(micQ, turns)', UpTo(sttQ, turns)',
         \A u \in Tasks \ {t} : task'[u].pc = "idle",
         (task[t].pc # "idle" => task[t].turn = turns)',
         StartingInv(task[t])', OpeningInv(task[t])', HoldingInv(task[t])'
  PROVE  StageInv'
  BY DEF StageInv, StartingInv, OpeningInv, HoldingInv

LEMMA OthersIdle ==
  ASSUME TypeOK, OneTurn, NEW t \in Tasks, task[t].pc # "idle" \/ ~busy,
         NEW k, task' = [task EXCEPT ![t] = k]
  PROVE  task'[t] = k /\ \A u \in Tasks \ {t} : task'[u].pc = "idle"
<1>1. \A u \in Tasks \ {t} : task[u].pc = "idle"
  BY DEF OneTurn
<1> QED
  BY <1>1 DEF TypeOK

LEMMA StageSame ==
  ASSUME StageInv, UNCHANGED <<micQ, sttQ, turns, task, stream, active, sess>>
  PROVE  StageInv'
  BY DEF StageInv, StartingInv, OpeningInv, HoldingInv, Owned, NoRequest, UpTo, Older,
         LastRequest

\* The turn goes on to a stage of which nothing is said, or ends.
LEMMA StageLater ==
  ASSUME TypeOK, OneTurn, StageInv, NEW t \in Tasks, task[t].pc # "idle", NEW k,
         task' = [task EXCEPT ![t] = k],
         k.pc \notin {"stt_listen_start", "mic_start", "hold"},
         k.pc # "idle" => k.turn = task[t].turn,
         turns' = turns,
         \/ micQ' = micQ
         \/ \E m \in MicRequests : micQ' = Append(micQ, m) /\ m.turn = task[t].turn,
         \/ sttQ' = sttQ
         \/ \E m \in SttRequests : sttQ' = Append(sttQ, m) /\ m.turn = task[t].turn
  PROVE  StageInv'
<1>1. task[t].turn = turns
  BY DEF StageInv
<1>2. UpTo(micQ', turns)
  <2>1. ASSUME NEW m \in MicRequests, m.turn = turns PROVE UpTo(Append(micQ, m), turns)
    <3>1. m.turn <= turns
      BY <2>1, QueueTypes
    <3> QED
      BY <3>1, QueueTypes, QueueAppend DEF StageInv
  <2> QED
    BY <1>1, <2>1 DEF StageInv
<1>3. UpTo(sttQ', turns)
  <2>1. ASSUME NEW m \in SttRequests, m.turn = turns PROVE UpTo(Append(sttQ, m), turns)
    <3>1. m.turn <= turns /\ m \in SttRequests \cup Chunks
      BY <2>1, QueueTypes
    <3> QED
      BY <3>1, QueueTypes, QueueAppend DEF StageInv
  <2> QED
    BY <1>1, <2>1 DEF StageInv
<1>4. task'[t] = k /\ \A u \in Tasks \ {t} : task'[u].pc = "idle"
  BY OthersIdle
<1> QED
  BY <1>1, <1>2, <1>3, <1>4, StageIntro DEF StartingInv, OpeningInv, HoldingInv

LEMMA StageBegin ==
  ASSUME TypeOK, OneTurn, StageInv, NEW t \in Tasks,
         NEW pc \in {"think", "stt_listen_start"}, Begin(t, pc)
  PROVE  StageInv'
<1> DEFINE k == [Idle EXCEPT !.pc = pc, !.turn = turns + 1]
           m == Request(pc, turns + 1, 0)
<1>1. /\ ~busy /\ task' = [task EXCEPT ![t] = k] /\ turns' = turns + 1
      /\ micQ' = micQ
      /\ sttQ' = IF pc \in SttCalls THEN Append(sttQ, m) ELSE sttQ
  BY DEF Begin, TryBeginTurn, mic
<1>2. k.pc = pc /\ k.turn = turns + 1 /\ k.reply = NoReply
  BY DEF Idle
<1>3. turns + 1 \in Nat /\ (pc \in SttCalls <=> pc = "stt_listen_start")
  BY QueueTypes DEF SttCalls
<1>4. pc = "stt_listen_start" => m \in SttRequests /\ m.turn = turns + 1 /\ m.op = pc
  BY <1>3 DEF Request, SttRequests, SttCalls
<1> HIDE DEF k, m
<1>5. task'[t] = k /\ \A u \in Tasks \ {t} : task'[u].pc = "idle"
  BY <1>1, OthersIdle
<1>6. UpTo(micQ, turns + 1) /\ Older(micQ, turns + 1)
  BY QueueTypes, QueueAges, RequestsNumbered DEF StageInv
<1>7. UpTo(sttQ, turns + 1) /\ Older(sttQ, turns + 1)
  BY QueueTypes, QueueAges, RequestsNumbered DEF StageInv
<1>8. UpTo(sttQ', turns + 1)
  <2>1. ASSUME pc = "stt_listen_start" PROVE UpTo(Append(sttQ, m), turns + 1)
    <3>1. m.turn <= turns + 1 /\ m \in SttRequests \cup Chunks
      BY <1>3, <1>4, <2>1
    <3> QED
      BY <1>3, <1>7, <3>1, QueueTypes, QueueAppend
  <2> QED
    BY <1>1, <1>3, <1>7, <2>1
<1>9. pc = "stt_listen_start" => LastRequest(sttQ', "stt_listen_start", turns + 1)
  BY <1>1, <1>3, <1>4, <1>7, QueueTypes, QueueAppend
<1>10. StartingInv(task[t])'
  BY <1>1, <1>2, <1>5, <1>6, <1>9 DEF StartingInv
<1> QED
  BY <1>1, <1>2, <1>5, <1>6, <1>8, <1>10, StageIntro DEF OpeningInv, HoldingInv

LEMMA StageAfter ==
  ASSUME TypeOK, OneTurn, StageInv, NEW t \in Tasks, NEW r \in Replies, After(t, r),
         r.ok => task[t].reply = r
  PROVE  StageInv'
<1>1. task[t].turn = turns /\ task[t].turn \in Nat /\ task[t].sess \in Nat
  BY DEF After, StageInv, TypeOK, TaskStates
<1>2. turns' = turns /\ stream' = stream /\ sess' = sess /\ active' = active
  BY DEF After
<1>3. r # NoReply
  BY VoiceAssumption
<1>4. ASSUME task[t].pc # "idle", task' = [task EXCEPT ![t] = Idle], UNCHANGED <<micQ, sttQ>>
      PROVE  StageInv'
  <2>1. Idle.pc = "idle"
    BY DEF Idle
  <2> QED
    BY <1>2, <1>4, <2>1, StageLater
<1>5. ASSUME task[t].pc # "idle", NEW pc \in {"undo", "stt_listen_stop"}, Goto(t, pc)
      PROVE  StageInv'
  <2> DEFINE k == At(t, pc)
             m == Request(pc, task[t].turn, 0)
  <2>1. k.pc = pc /\ k.turn = task[t].turn
    BY AtType DEF Stages, Calls, SttCalls
  <2>2. m \in SttRequests /\ m.turn = task[t].turn
    BY <1>1 DEF Request, SttRequests, SttCalls
  <2>3. task' = [task EXCEPT ![t] = k] /\ micQ' = micQ /\ sttQ' = Append(sttQ, m)
    BY <1>5 DEF Goto, MicCalls, SttCalls
  <2> HIDE DEF k, m
  <2> QED
    BY <1>2, <1>5, <2>1, <2>2, <2>3, StageLater
<1>6. CASE task[t].pc = "stt_listen_start" /\ AfterListenStart(t, r)
  <2>1. CASE ~r.ok
    BY <1>4, <1>6, <2>1 DEF AfterListenStart, EndTurn
  <2>2. CASE r.ok
    <3> DEFINE k == At(t, "mic_start")
               m == Request("mic_start", task[t].turn, task[t].sess)
    <3>1. k.pc = "mic_start" /\ k.turn = turns /\ k.reply = NoReply
      BY <1>1, AtType DEF Stages, Calls, MicCalls
    <3>2. m \in MicRequests /\ m.turn = turns /\ m.op = "mic_start"
      BY <1>1 DEF Request, MicRequests, MicCalls
    <3>3. task' = [task EXCEPT ![t] = k] /\ micQ' = Append(micQ, m) /\ sttQ' = sttQ
      BY <1>6, <2>2 DEF AfterListenStart, Goto, MicCalls, SttCalls
    <3> HIDE DEF k, m
    <3>4. Older(micQ, turns) /\ NoRequest(sttQ) /\ stream.open
      BY <1>3, <1>6, <2>2 DEF StageInv, StartingInv
    <3>5. UpTo(micQ', turns) /\ LastRequest(micQ', "mic_start", turns)
      BY <3>2, <3>3, <3>4, QueueTypes, QueueAppend DEF StageInv
    <3>6. task'[t] = k /\ \A u \in Tasks \ {t} : task'[u].pc = "idle"
      BY <1>6, <3>3, OthersIdle
    <3>7. OpeningInv(task[t])'
      BY <1>2, <3>1, <3>3, <3>4, <3>5, <3>6 DEF OpeningInv
    <3>8. UpTo(sttQ, turns)'
      BY <1>2, <3>3 DEF StageInv
    <3> QED
      BY <1>2, <3>1, <3>5, <3>6, <3>7, <3>8, StageIntro DEF StartingInv, HoldingInv
  <2> QED  BY <2>1, <2>2
<1>7. CASE task[t].pc = "mic_start" /\ AfterMicStart(t, r)
  <2>1. CASE ~r.ok
    BY <1>5, <1>7, <2>1 DEF AfterMicStart
  <2>2. CASE r.ok
    <3> DEFINE k == [At(t, "hold") EXCEPT !.sess = r.sess]
    <3>1. k.pc = "hold" /\ k.turn = turns /\ k.sess = r.sess
      BY <1>1 DEF At, TypeOK, TaskStates
    <3>2. task' = [task EXCEPT ![t] = k] /\ micQ' = micQ /\ sttQ' = sttQ
      BY <1>7, <2>2 DEF AfterMicStart
    <3> HIDE DEF k
    <3>3. NoRequest(micQ) /\ NoRequest(sttQ) /\ stream.open /\ Owned(r.sess)
      BY <1>3, <1>7, <2>2 DEF StageInv, OpeningInv
    <3>4. task'[t] = k /\ \A u \in Tasks \ {t} : task'[u].pc = "idle"
      BY <1>7, <3>2, OthersIdle
    <3>5. HoldingInv(task[t])'
      BY <1>2, <3>1, <3>2, <3>3, <3>4 DEF HoldingInv, Owned
    <3>6. UpTo(micQ, turns)' /\ UpTo(sttQ, turns)'
      BY <1>2, <3>2 DEF StageInv
    <3> QED
      BY <1>2, <3>1, <3>4, <3>5, <3>6, StageIntro DEF StartingInv, OpeningInv
  <2> QED  BY <2>1, <2>2
<1>8. CASE task[t].pc = "undo" /\ AfterUndo(t)
  BY <1>4, <1>8 DEF AfterUndo, EndTurn
<1>9. CASE task[t].pc = "mic_stop" /\ AfterMicStop(t, r)
  BY <1>4, <1>5, <1>9 DEF AfterMicStop
<1>10. CASE task[t].pc = "stt_listen_stop" /\ AfterListenStop(t, r)
  <2> DEFINE k == At(t, "think")
  <2>1. k.pc = "think" /\ k.turn = task[t].turn
    BY AtType DEF Stages
  <2>2. CASE task' = [task EXCEPT ![t] = k] /\ UNCHANGED <<micQ, sttQ>>
    <3> HIDE DEF k
    <3> QED
      BY <1>2, <1>10, <2>1, <2>2, StageLater
  <2> QED
    BY <1>4, <1>10, <2>2 DEF AfterListenStop
<1> QED
  BY <1>6, <1>7, <1>8, <1>9, <1>10 DEF After

LEMMA StageEndHold ==
  ASSUME TypeOK, OneTurn, StageInv, NEW t \in Tasks, NEW b, EndHold(t, b), task[t].pc = "hold"
  PROVE  StageInv'
<1> DEFINE k == [At(t, "mic_stop") EXCEPT !.released = b]
           m == Request("mic_stop", task[t].turn, task[t].sess)
<1>1. k.pc = "mic_stop" /\ k.turn = task[t].turn
  BY DEF At, TypeOK, TaskStates
<1>2. m \in MicRequests /\ m.turn = task[t].turn
  BY DEF Request, MicRequests, MicCalls, TypeOK, TaskStates
<1>3. task' = [task EXCEPT ![t] = k] /\ micQ' = Append(micQ, m) /\ sttQ' = sttQ
      /\ turns' = turns
  BY DEF EndHold, bounds
<1> HIDE DEF k, m
<1> QED
  BY <1>1, <1>2, <1>3, StageLater

\* mic serves the oldest request: an older turn's, or the one the turn waits for.
LEMMA StageServeMic ==
  ASSUME TypeOK, OneTurn, StageInv, ServeMic
  PROVE  StageInv'
<1> DEFINE req == Head(micQ)
<1>1. /\ micQ # <<>> /\ micQ' = Tail(micQ)
      /\ IF req.op = "mic_start" THEN MicStart(req) ELSE MicStop(req)
      /\ UNCHANGED <<sttQ, stream, turns>>
  BY DEF ServeMic, bounds
<1>2. req \in MicRequests /\ IsRequest(req) /\ req.op \in MicCalls
  <2>1. req \in MicRequests
    BY <1>1, QueueTypes, HeadTailProperties
  <2> HIDE DEF req
  <2> QED
    BY <2>1, RequestsNumbered DEF MicRequests
<1>3. Len(sess) \in Nat
  BY LenProperties DEF TypeOK
<1> HIDE DEF req
<1>4. PICK r \in Replies :
        /\ task' = Answer(req, r)
        /\ req.op = "mic_start" /\ r.ok => Owned(r.sess)'
  <2>1. CASE task' = Answer(req, Refused)
    BY <2>1, RefusedType DEF Refused
  <2>2. CASE req.op # "mic_start" /\ MicStop(req)
    <3>1. [ok |-> TRUE, sess |-> 0, text |-> FALSE] \in Replies
      BY DEF Replies
    <3> QED
      BY <2>2, <3>1 DEF MicStop
  <2>3. CASE /\ sess' = Append(RequestStop(sess, active), Recording)
             /\ active' = {Len(sess) + 1}
             /\ task' = Answer(req, [ok |-> TRUE, sess |-> Len(sess) + 1, text |-> FALSE])
    <3>0. PICK n \in Nat : n = Len(sess) + 1
      BY <1>3
    <3> DEFINE q == [ok |-> TRUE, sess |-> n, text |-> FALSE]
    <3>1. q \in Replies /\ q.sess = n
      BY DEF Replies
    <3>2. Recording \in Sessions /\ Recording.state = "reading"
      BY DEF Recording, Sessions
    <3>3. sess' \in Seq(Sessions) /\ Len(sess') = Len(sess) + 1 /\ sess'[Len(sess) + 1] = Recording
      BY <2>3, <3>2, StopFacts, AppendProperties
    <3>4. Len(sess) + 1 \in DOMAIN sess'
      BY <1>3, <3>3, LenProperties
    <3>5. Owned(n)'
      BY <2>3, <3>0, <3>2, <3>3, <3>4 DEF Owned
    <3>6. task' = Answer(req, q)
      BY <2>3, <3>0
    <3> HIDE DEF q
    <3> QED
      BY <3>1, <3>5, <3>6
  <2> QED
    BY <1>1, <2>1, <2>2, <2>3 DEF MicStart
<1>5. \A t \in Tasks :
         /\ task'[t].pc = task[t].pc /\ task'[t].turn = task[t].turn
         /\ task'[t].sess = task[t].sess
         /\ task'[t].reply = IF task[t].turn = req.turn /\ task[t].pc = req.op THEN r
                             ELSE task[t].reply
  BY <1>4, AnswerFacts
<1>6. UpTo(micQ, turns)' /\ UpTo(sttQ, turns)'
  BY <1>1, QueueTypes, QueueTail DEF StageInv
<1>7. ~NoRequest(micQ)
  BY <1>1, <1>2, QueueTypes, QuietTail DEF req
<1>8. r # NoReply
  BY VoiceAssumption
<1>9. ASSUME NEW t \in Tasks
      PROVE  /\ task'[t].pc # "idle" => task'[t].turn = turns'
             /\ StartingInv(task[t])' /\ OpeningInv(task[t])' /\ HoldingInv(task[t])'
  <2>1. task'[t].pc # "idle" => task'[t].turn = turns'
    BY <1>1, <1>5 DEF StageInv
  <2>2. HoldingInv(task[t])'
    BY <1>5, <1>7 DEF StageInv, HoldingInv
  <2>3. StartingInv(task[t])'
    <3> SUFFICES ASSUME task[t].pc = "stt_listen_start" PROVE StartingInv(task[t])'
      BY <1>5 DEF StartingInv
    <3>1. task'[t].reply = task[t].reply /\ task'[t].pc = "stt_listen_start"
      BY <1>2, <1>5 DEF MicCalls
    <3>2. Older(micQ', turns)
      BY <1>1, QueueTypes, QueueTail DEF StageInv, StartingInv
    <3> QED
      BY <1>1, <3>1, <3>2 DEF StageInv, StartingInv
  <2>4. OpeningInv(task[t])'
    <3> SUFFICES ASSUME task[t].pc = "mic_start" PROVE OpeningInv(task[t])'
      BY <1>5 DEF OpeningInv
    <3>1. NoRequest(sttQ) /\ stream.open
          /\ task[t].reply = NoReply /\ LastRequest(micQ, "mic_start", turns)
      BY <1>7 DEF StageInv, OpeningInv
    <3>2. task[t].turn = turns /\ turns \in Nat
      BY QueueTypes DEF StageInv
    <3>3. CASE req.op = "mic_start" /\ req.turn = turns /\ NoRequest(micQ')
      <4>1. task'[t].reply = r
        BY <1>5, <3>2, <3>3
      <4> QED
        BY <1>1, <1>4, <1>8, <3>1, <3>3, <4>1 DEF OpeningInv
    <3>4. CASE req.turn < turns /\ LastRequest(micQ', "mic_start", turns)
      <4>1. task[t].turn # req.turn
        BY <1>2, <3>2, <3>4, RequestsNumbered
      <4>2. task'[t].reply = NoReply
        BY <1>5, <3>1, <4>1
      <4> QED
        BY <1>1, <3>1, <3>4, <4>2 DEF OpeningInv
    <3>5. \/ req.op = "mic_start" /\ req.turn = turns /\ NoRequest(Tail(micQ))
          \/ /\ IsRequest(req) => req.turn < turns
             /\ LastRequest(Tail(micQ), "mic_start", turns)
      BY <1>1, <3>1, QueueTypes, QueueTail DEF req
    <3> QED
      BY <1>1, <1>2, <3>3, <3>4, <3>5
  <2> QED
    BY <2>1, <2>2, <2>3, <2>4
<1> QED
  BY <1>6, <1>9 DEF StageInv

\* A chunk neither answers anybody nor opens or closes the stream.
LEMMA ChunkServed ==
  ASSUME TypeOK, ServeStt
  PROVE  ~IsRequest(Head(sttQ)) => UNCHANGED task /\ stream'.open = stream.open
<1> DEFINE req == Head(sttQ)
<1>1. /\ sttQ # <<>> /\ sttQ' = Tail(sttQ)
      /\ \/ req.op = "stt_listen_start" /\ ListenStart(req)
         \/ req.op \in {"undo", "stt_listen_stop"} /\ ListenStop(req)
         \/ req.op = "chunk" /\ Push(req)
      /\ UNCHANGED <<micQ, sess, active, turns>>
  BY DEF ServeStt, bounds, mic
<1> HIDE DEF req
<1>2. stream \in [open : BOOLEAN, audio : BOOLEAN, talking : BOOLEAN]
  BY DEF TypeOK
<1> SUFFICES ASSUME req.op = "chunk", Push(req)
             PROVE  UNCHANGED task /\ stream'.open = stream.open
  BY <1>1 DEF IsRequest, req
<1>3. UNCHANGED task
  BY DEF Push
<1>4. CASE ~stream.open \/ ~req.audio
  BY <1>3, <1>4 DEF Push
<1>5. CASE ~(~stream.open \/ ~req.audio)
  <2> DEFINE fed(b) == [stream EXCEPT !.audio = TRUE, !.talking = b]
  <2>1. \A b : fed(b).open = stream.open
    BY <1>2
  <2>2. PICK step : stream' = fed(step.talking)
    BY <1>5 DEF Push
  <2> QED
    BY <1>3, <2>1, <2>2
<1> QED
  BY <1>4, <1>5

\* stt serves the oldest request or chunk.
LEMMA StageServeStt ==
  ASSUME TypeOK, OneTurn, StageInv, ServeStt
  PROVE  StageInv'
<1> DEFINE req == Head(sttQ)
<1>1. /\ sttQ # <<>> /\ sttQ' = Tail(sttQ)
      /\ \/ req.op = "stt_listen_start" /\ ListenStart(req)
         \/ req.op \in {"undo", "stt_listen_stop"} /\ ListenStop(req)
         \/ req.op = "chunk" /\ Push(req)
      /\ UNCHANGED <<micQ, sess, active, turns>>
  BY DEF ServeStt, bounds, mic
<1>2. req \in SttRequests \cup Chunks
  BY <1>1, QueueTypes, HeadTailProperties
<1>3. req.op \notin MicCalls
  BY <1>2 DEF SttRequests, Chunks, SttCalls, MicCalls
<1> HIDE DEF req
<1>4. UpTo(micQ, turns)' /\ UpTo(sttQ, turns)'
  BY <1>1, QueueTypes, QueueTail DEF StageInv
<1>5. ~IsRequest(req) => UNCHANGED task /\ stream'.open = stream.open
  BY ChunkServed DEF req
<1>6. IsRequest(req) => \E r \in Replies :
         /\ task' = Answer(req, r)
         /\ req.op = "stt_listen_start" /\ r.ok => stream'.open
  <2>1. \A b \in BOOLEAN : [ok |-> TRUE, sess |-> 0, text |-> b] \in Replies
    BY DEF Replies
  <2>2. CASE req.op = "stt_listen_start" /\ ListenStart(req)
    BY <2>1, <2>2, RefusedType DEF ListenStart, Refused, Opened, Closed
  <2>3. CASE req.op \in {"undo", "stt_listen_stop"} /\ ListenStop(req)
    BY <2>1, <2>3, RefusedType DEF ListenStop
  <2> QED
    BY <1>1, <2>2, <2>3 DEF IsRequest
<1>7. \A t \in Tasks : /\ task'[t].pc = task[t].pc /\ task'[t].turn = task[t].turn
                       /\ task'[t].sess = task[t].sess
                       /\ task[t].pc \in MicCalls => task'[t].reply = task[t].reply
  BY <1>3, <1>5, <1>6, AnswerFacts
<1>8. NoRequest(sttQ) => NoRequest(sttQ') /\ UNCHANGED task /\ stream'.open = stream.open
  <2>1. NoRequest(sttQ) => ~IsRequest(Head(sttQ)) /\ NoRequest(Tail(sttQ))
    BY <1>1, QueueTypes, QuietTail
  <2> QED
    BY <1>1, <1>5, <2>1 DEF req
<1>9. ASSUME NEW t \in Tasks
      PROVE  /\ task'[t].pc # "idle" => task'[t].turn = turns'
             /\ StartingInv(task[t])' /\ OpeningInv(task[t])' /\ HoldingInv(task[t])'
  <2>1. task'[t].pc # "idle" => task'[t].turn = turns'
    BY <1>1, <1>7 DEF StageInv
  <2>2. HoldingInv(task[t])'
    BY <1>1, <1>7, <1>8 DEF StageInv, HoldingInv, Owned
  <2>3. OpeningInv(task[t])'
    BY <1>1, <1>7, <1>8 DEF StageInv, OpeningInv, Owned, MicCalls
  <2>4. StartingInv(task[t])'
    <3> SUFFICES ASSUME task[t].pc = "stt_listen_start" PROVE StartingInv(task[t])'
      BY <1>7 DEF StartingInv
    <3>1. Older(micQ, turns) /\ task[t].turn = turns /\ turns \in Nat
      BY QueueTypes DEF StageInv, StartingInv
    <3>2. CASE NoRequest(sttQ)
      <4>1. task[t].reply # NoReply /\ (task[t].reply.ok => stream.open)
        BY <3>2 DEF StageInv, StartingInv, LastRequest, NoRequest, IsRequest
      <4> QED
        BY <1>1, <1>8, <3>1, <3>2, <4>1 DEF StartingInv
    <3>3. CASE ~NoRequest(sttQ)
      <4>1. task[t].reply = NoReply /\ LastRequest(sttQ, "stt_listen_start", turns)
        BY <3>3 DEF StageInv, StartingInv
      <4>2. CASE req.op = "stt_listen_start" /\ req.turn = turns /\ NoRequest(sttQ')
        <5>1. PICK r \in Replies : task' = Answer(req, r) /\ (r.ok => stream'.open)
          BY <1>6, <4>2 DEF IsRequest
        <5>2. task'[t].reply = r
          BY <3>1, <4>2, <5>1, AnswerFacts
        <5>3. r # NoReply
          BY VoiceAssumption
        <5> QED
          BY <1>1, <3>1, <4>2, <5>1, <5>2, <5>3 DEF StartingInv
      <4>3. CASE /\ IsRequest(req) => req.turn < turns
                 /\ LastRequest(sttQ', "stt_listen_start", turns)
        <5>1. IsRequest(req) => task[t].turn # req.turn
          BY <1>2, <3>1, <4>3, RequestsNumbered
        <5>2. task'[t].reply = NoReply
          BY <1>5, <1>6, <4>1, <5>1, AnswerFacts
        <5> QED
          BY <1>1, <3>1, <4>3, <5>2 DEF StartingInv
      <4> QED
        BY <1>1, <4>1, <4>2, <4>3, QueueTypes, QueueTail DEF req
    <3> QED  BY <3>2, <3>3
  <2> QED
    BY <2>1, <2>2, <2>3, <2>4
<1> QED
  BY <1>4, <1>9 DEF StageInv

LEMMA StageCapture ==
  ASSUME TypeOK, StageInv, NEW i \in DOMAIN sess, ReadChunk(i) \/ EndCapture(i)
  PROVE  StageInv'
<1>1. sess[i] \in Sessions
  BY LenProperties, ElementOfSeq DEF TypeOK
<1>2. \E e \in Sessions : sess' = [sess EXCEPT ![i] = e]
                          /\ (e.state = "stopping" => sess[i].state = "stopping")
  BY <1>1 DEF ReadChunk, EndCapture, Sessions
<1>3. DOMAIN sess' = DOMAIN sess /\ \A j \in DOMAIN sess :
         sess'[j].state = "stopping" => sess[j].state = "stopping"
  BY <1>2
<1>4. UNCHANGED <<micQ, sttQ, turns, task, stream, active>>
  BY DEF ReadChunk, EndCapture, daemon, bounds
<1>5. ASSUME NEW n, Owned(n) PROVE Owned(n)'
  BY <1>3, <1>4, <1>5 DEF Owned
<1>6. UpTo(micQ, turns)' /\ UpTo(sttQ, turns)'
  BY <1>4 DEF StageInv
<1>7. ASSUME NEW t \in Tasks
      PROVE  /\ task'[t].pc # "idle" => task'[t].turn = turns'
             /\ StartingInv(task[t])' /\ OpeningInv(task[t])' /\ HoldingInv(task[t])'
  <2>1. task'[t].pc # "idle" => task'[t].turn = turns'
    BY <1>4 DEF StageInv
  <2>2. StartingInv(task[t])'
    BY <1>4 DEF StageInv, StartingInv
  <2>3. PICK n, m : n = task[t].sess /\ m = task[t].reply.sess
    OBVIOUS
  <2>4. OpeningInv(task[t])'
    BY <1>4, <1>5, <2>3 DEF StageInv, OpeningInv
  <2>5. HoldingInv(task[t])'
    BY <1>4, <1>5, <2>3 DEF StageInv, HoldingInv
  <2> QED
    BY <2>1, <2>2, <2>4, <2>5
<1> QED
  BY <1>6, <1>7 DEF StageInv

LEMMA StageForward ==
  ASSUME TypeOK, StageInv, Forward
  PROVE  StageInv'
<1>1. PICK c \in Chunks : sttQ' = Append(sttQ, c)
  BY HeadTailProperties DEF Forward, TypeOK
<1>2. c \in SttRequests \cup Chunks /\ ~IsRequest(c)
  BY DEF Chunks, IsRequest
<1>3. UNCHANGED <<micQ, sess, turns, task, stream, active>>
  BY DEF Forward, daemon, bounds
<1>4. /\ UpTo(sttQ', turns)
      /\ NoRequest(sttQ) => NoRequest(sttQ')
      /\ LastRequest(sttQ, "stt_listen_start", turns)
           => LastRequest(sttQ', "stt_listen_start", turns)
  BY <1>1, <1>2, QueueTypes, QueueAppend DEF StageInv
<1>5. UpTo(micQ, turns)'
  BY <1>3 DEF StageInv
<1>6. ASSUME NEW t \in Tasks
      PROVE  /\ task'[t].pc # "idle" => task'[t].turn = turns'
             /\ StartingInv(task[t])' /\ OpeningInv(task[t])' /\ HoldingInv(task[t])'
  BY <1>3, <1>4 DEF StageInv, StartingInv, OpeningInv, HoldingInv, Owned
<1> QED
  BY <1>3, <1>4, <1>5, <1>6 DEF StageInv

LEMMA StageStep == TypeOK /\ OneTurn /\ StageInv /\ [Next]_vars => StageInv'
<1> SUFFICES ASSUME TypeOK, OneTurn, StageInv, [Next]_vars PROVE StageInv'
  OBVIOUS
<1>1. CASE DaemonTurn \/ Tick
  BY <1>1, StageBegin DEF DaemonTurn, Tick
<1>2. CASE SetEnabled \/ Key \/ OtherEvent
  BY <1>2, StageSame DEF SetEnabled, Key, OtherEvent, daemon, mic, bounds
<1>3. CASE PttKey
  <2>1. CASE Begin("ptt", "stt_listen_start")
    BY <2>1, StageBegin
  <2>2. CASE UNCHANGED <<daemon, mic, sttQ, stream, bounds>>
    BY <2>2, StageSame DEF daemon, mic, bounds
  <2> QED
    BY <1>3, <2>1, <2>2 DEF PttKey
<1>4. CASE PttEvent \/ MaxHold
  BY <1>4, StageEndHold, StageSame DEF PttEvent, MaxHold, daemon, mic, bounds
<1>5. CASE SpeechEvent
  BY <1>5, StageEndHold, StageSame DEF SpeechEvent, daemon, mic, bounds
<1>6. ASSUME NEW t \in Tasks, TakeReply(t) PROVE StageInv'
  <2>1. task[t].reply \in Replies
    BY <1>6 DEF TakeReply, TypeOK, TaskStates
  <2> QED
    BY <1>6, <2>1, StageAfter DEF TakeReply
<1>7. ASSUME NEW t \in Tasks, TimeOut(t) PROVE StageInv'
  <2>1. Refused \in Replies /\ ~Refused.ok
    BY RefusedType DEF Refused
  <2> QED
    BY <1>7, <2>1, StageAfter DEF TimeOut
<1>8. ASSUME NEW t \in Tasks, WindowElapses(t) \/ SpeechDeadline(t) PROVE StageInv'
  BY <1>8, StageEndHold DEF WindowElapses, SpeechDeadline
<1>9. ASSUME NEW t \in Tasks, Think(t) \/ Speak(t) PROVE StageInv'
  <2>1. /\ task[t].pc # "idle" /\ UNCHANGED <<micQ, sttQ, turns>>
        /\ task' = [task EXCEPT ![t] = At(t, "speak")] \/ task' = [task EXCEPT ![t] = Idle]
    BY <1>9 DEF Think, Speak, EndTurn, mic, bounds
  <2>2. At(t, "speak").pc = "speak" /\ At(t, "speak").turn = task[t].turn /\ Idle.pc = "idle"
    BY AtType DEF Stages, Idle
  <2> QED
    BY <2>1, <2>2, StageLater
<1>10. CASE ServeMic
  BY <1>10, StageServeMic
<1>11. CASE ServeStt
  BY <1>11, StageServeStt
<1>12. CASE Forward
  BY <1>12, StageForward
<1>13. CASE \E i \in DOMAIN sess : ReadChunk(i) \/ EndCapture(i)
  BY <1>13, StageCapture
<1>14. CASE UNCHANGED vars
  BY <1>14, StageSame DEF vars
<1> QED
  BY <1>1, <1>2, <1>3, <1>4, <1>5, <1>6, <1>7, <1>8, <1>9, <1>10, <1>11, <1>12, <1>13,
     <1>14 DEF Next

(***************************************************************************)
(* What IdleIsClean rests on: while every call is answered in time, the    *)
(* queues hold one request at most, that of the running turn, and its      *)
(* stage says whether the stream may be open and a session in the table.   *)
(***************************************************************************)
\* q holds no request but the one that k has made.
OnlyRequest(q, k) ==
    \E i \in 1 .. Len(q) :
        /\ q[i].op = k.pc /\ q[i].turn = k.turn
        /\ k.pc = "mic_stop" => q[i].sess = k.sess
        /\ \A j \in 1 .. Len(q) : j # i => ~IsRequest(q[j])

Waits(k, calls) == k.pc \in calls /\ k.reply = NoReply

Expects(q, calls, k) ==
    IF Waits(k, calls) THEN OnlyRequest(q, k) ELSE NoRequest(q)

Granted(k, call) == k.pc = call /\ k.reply # NoReply /\ k.reply.ok

MayListen(k) ==
    \/ k.pc \in {"mic_start", "hold", "mic_stop"}
    \/ Waits(k, {"undo", "stt_listen_stop"})
    \/ Granted(k, "stt_listen_start")

MayRecord(k, s) ==
    \/ (k.pc = "hold" \/ Waits(k, {"mic_stop"})) /\ s = k.sess
    \/ Granted(k, "mic_start") /\ s = k.reply.sess

\* The request, the stream and the table, as the task k that runs, if one does, must
\* find them; mic_stop is not refused.
CleanOK(mq, sq, open, table, k) ==
    /\ Expects(mq, MicCalls, k)
    /\ Expects(sq, SttCalls, k)
    /\ open => MayListen(k)
    /\ \A s \in table : MayRecord(k, s)
    /\ k.pc = "mic_stop" /\ k.reply # NoReply => k.reply.ok

CleanInv ==
    timeouts = 0 =>
        \A t \in Tasks : (\A u \in Tasks \ {t} : task[u].pc = "idle")
                            => CleanOK(micQ, sttQ, stream.open, active, task[t])

LEMMA ExpectsAppend ==
  ASSUME NEW M, NEW q \in Seq(M), NEW m \in M, NEW calls, NEW k
  PROVE  /\ ~IsRequest(m) /\ Expects(q, calls, k) => Expects(Append(q, m), calls, k)
         /\ /\ NoRequest(q) /\ m.op = k.pc /\ m.turn = k.turn
            /\ k.pc = "mic_stop" => m.sess = k.sess
            => OnlyRequest(Append(q, m), k)
<1> DEFINE a == Append(q, m)
           l == Len(q)
<1>1. /\ l \in Nat /\ Len(a) = l + 1
      /\ \A i \in 1 .. l : a[i] = q[i]
      /\ a[l + 1] = m
  BY AppendProperties, LenProperties
<1>2. 1 .. l + 1 = (1 .. l) \cup {l + 1} /\ l + 1 \notin 1 .. l
  BY <1>1
<1> HIDE DEF a
<1>3. NoRequest(q) /\ ~IsRequest(m) => NoRequest(a)
  BY <1>1, <1>2 DEF NoRequest
<1>4. ASSUME ~IsRequest(m), OnlyRequest(q, k) PROVE OnlyRequest(a, k)
  <2>1. PICK i \in 1 .. l :
          /\ q[i].op = k.pc /\ q[i].turn = k.turn
          /\ k.pc = "mic_stop" => q[i].sess = k.sess
          /\ \A j \in 1 .. l : j # i => ~IsRequest(q[j])
    BY <1>4 DEF OnlyRequest
  <2>2. \A j \in 1 .. l + 1 : j # i => ~IsRequest(a[j])
    BY <1>1, <1>2, <1>4, <2>1
  <2> QED
    BY <1>1, <1>2, <2>1, <2>2 DEF OnlyRequest
<1>5. ASSUME NoRequest(q), m.op = k.pc, m.turn = k.turn, k.pc = "mic_stop" => m.sess = k.sess
      PROVE  OnlyRequest(a, k)
  <2>1. \A j \in 1 .. l + 1 : j # l + 1 => ~IsRequest(a[j])
    BY <1>1, <1>2, <1>5 DEF NoRequest
  <2> QED
    BY <1>1, <1>2, <1>5, <2>1 DEF OnlyRequest
<1> QED
  BY <1>3, <1>4, <1>5 DEF a, Expects

\* When the head of a queue is served, that was the request of k, or a chunk.
LEMMA ExpectsTail ==
  ASSUME NEW M, NEW q \in Seq(M), q # <<>>, NEW k, k.pc # "chunk", OnlyRequest(q, k)
  PROVE  \/ /\ Head(q).op = k.pc /\ Head(q).turn = k.turn /\ NoRequest(Tail(q))
            /\ k.pc = "mic_stop" => Head(q).sess = k.sess
         \/ ~IsRequest(Head(q)) /\ OnlyRequest(Tail(q), k)
<1> DEFINE b == Tail(q)
           l == Len(q)
<1>1. l \in Nat /\ l # 0
  BY LenProperties, EmptySeq
<1>2. /\ Head(q) = q[1] /\ Len(b) = l - 1
      /\ \A i \in 1 .. l - 1 : b[i] = q[i + 1]
  BY <1>1, HeadTailProperties
<1>3. 1 \in 1 .. l /\ \A i \in 1 .. l - 1 : i + 1 \in 1 .. l /\ i + 1 # 1
  BY <1>1
<1>4. PICK i \in 1 .. l :
        /\ q[i].op = k.pc /\ q[i].turn = k.turn
        /\ k.pc = "mic_stop" => q[i].sess = k.sess
        /\ \A j \in 1 .. l : j # i => ~IsRequest(q[j])
  BY DEF OnlyRequest
<1> HIDE DEF b
<1>5. CASE i = 1
  <2>1. NoRequest(b)
    BY <1>2, <1>3, <1>4, <1>5 DEF NoRequest
  <2> QED
    BY <1>2, <1>4, <1>5, <2>1 DEF b
<1>6. CASE i # 1
  <2> DEFINE p == i - 1
  <2>1. p \in 1 .. l - 1 /\ b[p] = q[i]
    BY <1>1, <1>2, <1>6
  <2>2. ASSUME NEW j \in 1 .. l - 1, j # p PROVE ~IsRequest(b[j])
    <3>1. j + 1 \in 1 .. l /\ j + 1 # i /\ b[j] = q[j + 1]
      BY <1>1, <1>2, <2>2
    <3> QED
      BY <1>4, <3>1
  <2> HIDE DEF p
  <2>3. OnlyRequest(b, k)
    BY <1>2, <1>4, <2>1, <2>2 DEF OnlyRequest
  <2> QED
    BY <1>2, <1>3, <1>4, <1>6, <2>3 DEF b
<1> QED  BY <1>5, <1>6

\* Nothing runs, whichever task is asked.
LEMMA CleanIdle ==
  ASSUME NEW mq, NEW sq, NEW open, NEW table, NEW k, NEW l, k.pc = "idle", l.pc = "idle",
         CleanOK(mq, sq, open, table, k)
  PROVE  CleanOK(mq, sq, open, table, l)
  BY DEF CleanOK, Expects, Waits, MayListen, MayRecord, Granted, MicCalls, SttCalls

LEMMA CleanIntro ==
  ASSUME NEW t \in Tasks, \A u \in Tasks \ {t} : task'[u].pc = "idle",
         (timeouts = 0 => CleanOK(micQ, sttQ, stream.open, active, task[t]))'
  PROVE  CleanInv'
<1>1. ASSUME NEW u \in Tasks, timeouts' = 0, \A v \in Tasks \ {u} : task'[v].pc = "idle"
      PROVE  CleanOK(micQ', sttQ', stream'.open, active', task'[u])
  <2>1. CASE u = t
    BY <1>1, <2>1
  <2>2. CASE u # t
    BY <1>1, <2>2, CleanIdle
  <2> QED  BY <2>1, <2>2
<1> QED
  BY <1>1 DEF CleanInv

\* What holds of the task that runs, or may begin.
LEMMA CleanOf ==
  ASSUME OneTurn, CleanInv, timeouts = 0, NEW t \in Tasks, task[t].pc # "idle" \/ ~busy
  PROVE  CleanOK(micQ, sttQ, stream.open, active, task[t])
  BY DEF OneTurn, CleanInv

LEMMA CleanSame ==
  ASSUME CleanInv, UNCHANGED <<micQ, sttQ, task, stream, active, timeouts>>
  PROVE  CleanInv'
  BY DEF CleanInv

\* Where nothing is asked of mic or stt, all is as a turn should leave it.
AtRest(mq, sq, open, table) == NoRequest(mq) /\ NoRequest(sq) /\ ~open /\ table = {}

RestStages == {"idle", "think", "speak"}

LEMMA CleanAtRest ==
  ASSUME NEW mq, NEW sq, NEW open, NEW table, NEW k, k.pc \in RestStages
  PROVE  CleanOK(mq, sq, open, table, k) <=> AtRest(mq, sq, open, table)
  BY DEF CleanOK, AtRest, RestStages, Expects, Waits, MayListen, MayRecord, Granted, MicCalls,
         SttCalls

LEMMA CleanRests ==
  ASSUME TypeOK, OneTurn, NEW t \in Tasks, task[t].pc # "idle" \/ ~busy, NEW k,
         k.pc \in RestStages, task' = [task EXCEPT ![t] = k],
         UNCHANGED <<micQ, sttQ, stream, active>>,
         timeouts' = 0 => AtRest(micQ, sttQ, stream.open, active)
  PROVE  CleanInv'
<1>1. task'[t] = k /\ \A u \in Tasks \ {t} : task'[u].pc = "idle"
  BY OthersIdle
<1>2. timeouts' = 0 => CleanOK(micQ, sttQ, stream.open, active, k)
  BY CleanAtRest
<1> QED
  BY <1>1, <1>2, CleanIntro

\* The next call of a turn is made while nothing is asked.
LEMMA CleanCalls ==
  ASSUME TypeOK, OneTurn, NEW t \in Tasks, task[t].pc # "idle" \/ ~busy, NEW k,
         k.pc \in Calls, k.reply = NoReply, task' = [task EXCEPT ![t] = k],
         NEW m, m.op = k.pc, m.turn = k.turn, k.pc = "mic_stop" => m.sess = k.sess,
         IF k.pc \in MicCalls
         THEN m \in MicRequests /\ micQ' = Append(micQ, m) /\ sttQ' = sttQ
         ELSE m \in SttRequests /\ sttQ' = Append(sttQ, m) /\ micQ' = micQ,
         UNCHANGED <<stream, active>>,
         timeouts' = 0 =>
           /\ NoRequest(micQ) /\ NoRequest(sttQ)
           /\ stream.open => k.pc # "stt_listen_start"
           /\ \A s \in active : k.pc = "mic_stop" /\ s = k.sess
  PROVE  CleanInv'
<1>1. task'[t] = k /\ \A u \in Tasks \ {t} : task'[u].pc = "idle"
  BY OthersIdle
<1>2. ASSUME timeouts' = 0 PROVE CleanOK(micQ', sttQ', stream.open, active, k)
  <2>1. CASE k.pc \in MicCalls
    <3>1. k.pc \notin SttCalls
      BY <2>1 DEF MicCalls, SttCalls
    <3>2. OnlyRequest(Append(micQ, m), k)
      BY <1>2, <2>1, QueueTypes, ExpectsAppend
    <3>3. Expects(micQ', MicCalls, k) /\ Expects(sttQ', SttCalls, k)
      BY <1>2, <2>1, <3>1, <3>2 DEF Expects, Waits
    <3> QED
      BY <1>2, <2>1, <3>3 DEF CleanOK, MayListen, MayRecord, Waits, MicCalls
  <2>2. CASE k.pc \notin MicCalls
    <3>1. k.pc \in SttCalls /\ m \in SttRequests \cup Chunks
      BY <2>2 DEF Calls
    <3>2. OnlyRequest(Append(sttQ, m), k)
      BY <1>2, <3>1, QueueTypes, ExpectsAppend
    <3>3. Expects(micQ', MicCalls, k) /\ Expects(sttQ', SttCalls, k)
      BY <1>2, <2>2, <3>1, <3>2 DEF Expects, Waits
    <3>4. k.pc # "mic_stop"
      BY <2>2 DEF MicCalls
    <3> QED
      BY <1>2, <3>1, <3>3, <3>4 DEF CleanOK, MayListen, MayRecord, Waits, SttCalls
  <2> QED  BY <2>1, <2>2
<1> QED
  BY <1>1, <1>2, CleanIntro

LEMMA CleanBegin ==
  ASSUME TypeOK, OneTurn, CleanInv, NEW t \in Tasks,
         NEW pc \in {"think", "stt_listen_start"}, Begin(t, pc)
  PROVE  CleanInv'
<1> DEFINE k == [Idle EXCEPT !.pc = pc, !.turn = turns + 1]
           m == Request(pc, turns + 1, 0)
<1>1. /\ ~busy /\ task' = [task EXCEPT ![t] = k] /\ timeouts' = timeouts
      /\ micQ' = micQ /\ UNCHANGED <<stream, active>>
      /\ sttQ' = IF pc \in SttCalls THEN Append(sttQ, m) ELSE sttQ
  BY DEF Begin, TryBeginTurn, mic
<1>2. k.pc = pc /\ k.turn = turns + 1 /\ k.reply = NoReply
  BY DEF Idle
<1>3. m.op = pc /\ m.turn = turns + 1 /\ (pc = "stt_listen_start" => m \in SttRequests)
  BY QueueTypes DEF Request, SttRequests, SttCalls
<1> HIDE DEF k, m
<1>4. timeouts' = 0 => AtRest(micQ, sttQ, stream.open, active)
  <2>1. task[t].pc \in RestStages
    BY <1>1 DEF OneTurn, RestStages
  <2>2. timeouts = 0 => CleanOK(micQ, sttQ, stream.open, active, task[t])
    BY <1>1, CleanOf
  <2> QED
    BY <1>1, <2>1, <2>2, CleanAtRest
<1>5. CASE pc = "think"
  <2>1. UNCHANGED <<micQ, sttQ, stream, active>>
    BY <1>1, <1>5 DEF SttCalls
  <2>2. k.pc \in RestStages
    BY <1>2, <1>5 DEF RestStages
  <2> QED
    BY <1>1, <1>4, <2>1, <2>2, CleanRests
<1>6. CASE pc = "stt_listen_start"
  <2>1. pc \in SttCalls /\ pc \notin MicCalls /\ pc \in Calls /\ pc # "mic_stop"
    BY <1>6 DEF SttCalls, MicCalls, Calls
  <2> QED
    BY <1>1, <1>2, <1>3, <1>4, <1>6, <2>1, CleanCalls DEF AtRest
<1> QED  BY <1>5, <1>6

LEMMA CleanGoto ==
  ASSUME TypeOK, OneTurn, NEW t \in Tasks, task[t].pc # "idle",
         NEW pc \in {"mic_start", "undo", "stt_listen_stop"}, Goto(t, pc),
         UNCHANGED <<stream, active>>,
         timeouts' = 0 => NoRequest(micQ) /\ NoRequest(sttQ) /\ active = {}
  PROVE  CleanInv'
<1> DEFINE k == At(t, pc)
           m == IF pc = "mic_start" THEN Request(pc, task[t].turn, task[t].sess)
                                    ELSE Request(pc, task[t].turn, 0)
<1>1. k.pc = pc /\ k.turn = task[t].turn /\ k.reply = NoReply
  BY AtType DEF Stages, Calls, SttCalls, MicCalls
<1>2. task[t].turn \in Nat /\ task[t].sess \in Nat
  BY DEF TypeOK, TaskStates
<1>3. /\ m.op = pc /\ m.turn = task[t].turn
      /\ IF pc = "mic_start" THEN m \in MicRequests ELSE m \in SttRequests
  BY <1>2 DEF Request, MicRequests, SttRequests, MicCalls, SttCalls
<1>4. pc \in Calls /\ pc \notin {"mic_stop", "stt_listen_start"} /\ (pc \in MicCalls <=> pc = "mic_start")
  BY DEF MicCalls, SttCalls, Calls
<1>5. /\ task' = [task EXCEPT ![t] = k]
      /\ IF pc = "mic_start" THEN micQ' = Append(micQ, m) /\ sttQ' = sttQ
                             ELSE sttQ' = Append(sttQ, m) /\ micQ' = micQ
  BY DEF Goto, MicCalls, SttCalls
<1> HIDE DEF k, m
<1> QED
  BY <1>1, <1>3, <1>4, <1>5, CleanCalls

\* The daemon takes the answer it waited for.
LEMMA CleanAfter ==
  ASSUME TypeOK, OneTurn, CleanInv, NEW t \in Tasks, TakeReply(t)
  PROVE  CleanInv'
<1> DEFINE k == task[t]
           r == task[t].reply
<1>1. /\ r # NoReply /\ After(t, r) /\ timeouts' = timeouts
      /\ UNCHANGED <<stream, active>>
  BY DEF TakeReply, After
<1>2. k.pc \in Calls
  BY <1>1 DEF After, Calls, MicCalls, SttCalls
<1>3. k.pc # "idle"
  BY <1>2 DEF Calls, MicCalls, SttCalls
<1>4. ASSUME timeouts' = 0
      PROVE  /\ NoRequest(micQ) /\ NoRequest(sttQ)
             /\ stream.open => MayListen(k)
             /\ \A s \in active : MayRecord(k, s)
             /\ k.pc = "mic_stop" => r.ok
  BY <1>1, <1>3, <1>4, CleanOf DEF CleanOK, Expects, Waits
<1>5. ASSUME task' = [task EXCEPT ![t] = Idle], UNCHANGED <<micQ, sttQ>>,
             timeouts' = 0 => ~MayListen(k) /\ \A s \in active : ~MayRecord(k, s)
      PROVE  CleanInv'
  <2>1. Idle.pc \in RestStages
    BY DEF Idle, RestStages
  <2>2. timeouts' = 0 => AtRest(micQ, sttQ, stream.open, active)
    BY <1>4, <1>5 DEF AtRest
  <2> QED
    BY <1>1, <1>3, <1>5, <2>1, <2>2, CleanRests
<1>6. CASE k.pc = "stt_listen_start" /\ AfterListenStart(t, r)
  <2>1. \A s \in active : ~MayRecord(k, s)
    BY <1>6 DEF MayRecord, Waits, Granted
  <2>2. CASE ~r.ok
    <3>1. ~MayListen(k)
      BY <1>6, <2>2 DEF MayListen, Waits, Granted
    <3> QED
      BY <1>5, <1>6, <2>1, <2>2, <3>1 DEF AfterListenStart, EndTurn
  <2>3. CASE r.ok
    BY <1>1, <1>3, <1>4, <1>6, <2>1, <2>3, CleanGoto DEF AfterListenStart
  <2> QED  BY <2>2, <2>3
<1>7. CASE k.pc = "mic_start" /\ AfterMicStart(t, r)
  <2>1. CASE ~r.ok
    <3>1. \A s \in active : ~MayRecord(k, s)
      BY <1>7, <2>1 DEF MayRecord, Waits, Granted
    <3> QED
      BY <1>1, <1>3, <1>4, <1>7, <2>1, <3>1, CleanGoto DEF AfterMicStart
  <2>2. CASE r.ok
    <3> DEFINE h == [At(t, "hold") EXCEPT !.sess = r.sess]
    <3>1. h.pc = "hold" /\ h.sess = r.sess
      BY DEF At, TypeOK, TaskStates
    <3>2. task' = [task EXCEPT ![t] = h] /\ micQ' = micQ /\ sttQ' = sttQ
      BY <1>7, <2>2 DEF AfterMicStart
    <3>3. \A s : MayRecord(k, s) => MayRecord(h, s)
      BY <1>7, <3>1 DEF MayRecord, Waits, Granted
    <3>4. MayListen(h)
      BY <3>1 DEF MayListen
    <3>5. ~Waits(h, MicCalls) /\ ~Waits(h, SttCalls) /\ h.pc # "mic_stop"
      BY <3>1 DEF Waits, MicCalls, SttCalls
    <3> HIDE DEF h
    <3>6. timeouts' = 0 => CleanOK(micQ, sttQ, stream.open, active, h)
      BY <1>4, <3>3, <3>4, <3>5 DEF CleanOK, Expects
    <3>7. task'[t] = h /\ \A u \in Tasks \ {t} : task'[u].pc = "idle"
      BY <1>3, <3>2, OthersIdle
    <3> QED
      BY <1>1, <3>2, <3>6, <3>7, CleanIntro
  <2> QED  BY <2>1, <2>2
<1>8. CASE k.pc = "undo" /\ AfterUndo(t)
  BY <1>1, <1>5, <1>8 DEF AfterUndo, EndTurn, MayListen, MayRecord, Waits, Granted
<1>9. CASE k.pc = "mic_stop" /\ AfterMicStop(t, r)
  <2>1. \A s \in active : ~MayRecord(k, s)
    BY <1>1, <1>9 DEF MayRecord, Waits, Granted
  <2>2. CASE r.ok
    BY <1>1, <1>3, <1>4, <1>9, <2>1, <2>2, CleanGoto DEF AfterMicStop
  <2>3. CASE ~r.ok
    BY <1>4, <1>5, <1>9, <2>1, <2>3 DEF AfterMicStop
  <2> QED  BY <2>2, <2>3
<1>10. CASE k.pc = "stt_listen_stop" /\ AfterListenStop(t, r)
  <2>1. ~MayListen(k) /\ \A s \in active : ~MayRecord(k, s)
    BY <1>1, <1>10 DEF MayListen, MayRecord, Waits, Granted
  <2>2. CASE task' = [task EXCEPT ![t] = At(t, "think")] /\ UNCHANGED <<micQ, sttQ>>
    <3> DEFINE h == At(t, "think")
    <3>1. h.pc \in RestStages
      BY AtType DEF Stages, RestStages
    <3>2. timeouts' = 0 => AtRest(micQ, sttQ, stream.open, active)
      BY <1>4, <2>1 DEF AtRest
    <3> HIDE DEF h
    <3> QED
      BY <1>1, <1>3, <2>2, <3>1, <3>2, CleanRests DEF h
  <2> QED
    BY <1>5, <1>10, <2>1, <2>2 DEF AfterListenStop
<1> QED
  BY <1>1, <1>6, <1>7, <1>8, <1>9, <1>10 DEF After

LEMMA CleanEndHold ==
  ASSUME TypeOK, OneTurn, CleanInv, NEW t \in Tasks, NEW b, EndHold(t, b), task[t].pc = "hold"
  PROVE  CleanInv'
<1> DEFINE k == [At(t, "mic_stop") EXCEPT !.released = b]
           m == Request("mic_stop", task[t].turn, task[t].sess)
<1>1. k.pc = "mic_stop" /\ k.turn = task[t].turn /\ k.sess = task[t].sess /\ k.reply = NoReply
  BY DEF At, TypeOK, TaskStates
<1>2. m \in MicRequests /\ m.op = "mic_stop" /\ m.turn = task[t].turn /\ m.sess = task[t].sess
  BY DEF Request, MicRequests, MicCalls, TypeOK, TaskStates
<1>3. /\ task' = [task EXCEPT ![t] = k] /\ micQ' = Append(micQ, m) /\ sttQ' = sttQ
      /\ UNCHANGED <<stream, active, timeouts>>
  BY DEF EndHold, bounds
<1> HIDE DEF k, m
<1>4. ASSUME timeouts' = 0
      PROVE  NoRequest(micQ) /\ NoRequest(sttQ) /\ \A s \in active : s = task[t].sess
  <2>1. CleanOK(micQ, sttQ, stream.open, active, task[t])
    BY <1>3, <1>4, CleanOf
  <2> QED
    BY <2>1 DEF CleanOK, Expects, Waits, MayRecord, Granted, MicCalls, SttCalls
<1>5. k.pc \in Calls /\ k.pc \in MicCalls
  BY <1>1 DEF Calls, MicCalls
<1> QED
  BY <1>1, <1>2, <1>3, <1>4, <1>5, CleanCalls

\* mic serves the oldest request.
LEMMA CleanServeMic ==
  ASSUME TypeOK, OneTurn, TableInv, CleanInv, ServeMic
  PROVE  CleanInv'
<1> DEFINE req == Head(micQ)
<1>1. /\ micQ # <<>> /\ micQ' = Tail(micQ)
      /\ IF req.op = "mic_start" THEN MicStart(req) ELSE MicStop(req)
      /\ UNCHANGED <<sttQ, stream, timeouts>>
  BY DEF ServeMic, bounds
<1>2. IsRequest(req)
  BY <1>1, QueueTypes, HeadTailProperties, RequestsNumbered
<1> SUFFICES ASSUME timeouts' = 0, NEW t \in Tasks,
                    \A u \in Tasks \ {t} : task'[u].pc = "idle"
             PROVE  CleanOK(micQ', sttQ', stream'.open, active', task'[t])
  BY DEF CleanInv
<1> HIDE DEF req
<1>3. PICK r \in Replies :
        /\ task' = Answer(req, r)
        /\ req.op = "mic_start" /\ ~r.ok => active' = active
        /\ req.op = "mic_start" /\ r.ok => active' = {r.sess}
        /\ req.op # "mic_start" => r.ok /\ active' \subseteq active \ {req.sess}
  <2>1. CASE task' = Answer(req, Refused) /\ active' = active /\ req.op = "mic_start"
    BY <2>1, RefusedType DEF Refused
  <2>2. CASE req.op # "mic_start" /\ MicStop(req)
    <3>1. [ok |-> TRUE, sess |-> 0, text |-> FALSE] \in Replies
      BY DEF Replies
    <3> QED
      BY <2>2, <3>1 DEF MicStop
  <2>3. CASE /\ req.op = "mic_start"
             /\ active' = {Len(sess) + 1}
             /\ task' = Answer(req, [ok |-> TRUE, sess |-> Len(sess) + 1, text |-> FALSE])
    <3>0. PICK n \in Nat : n = Len(sess) + 1
      BY LenProperties DEF TypeOK
    <3> DEFINE q == [ok |-> TRUE, sess |-> n, text |-> FALSE]
    <3>1. q \in Replies /\ q.sess = n /\ q.ok
      BY DEF Replies
    <3>2. task' = Answer(req, q) /\ active' = {n}
      BY <2>3, <3>0
    <3> HIDE DEF q
    <3> QED
      BY <2>3, <3>1, <3>2
  <2> QED
    BY <1>1, <2>1, <2>2, <2>3 DEF MicStart
<1>4. \A u \in Tasks :
         /\ task'[u].pc = task[u].pc /\ task'[u].turn = task[u].turn
         /\ task'[u].sess = task[u].sess
         /\ task'[u].reply = IF task[u].turn = req.turn /\ task[u].pc = req.op THEN r
                             ELSE task[u].reply
  BY <1>3, AnswerFacts
<1>5. r # NoReply
  BY VoiceAssumption
<1>6. CleanOK(micQ, sttQ, stream.open, active, task[t])
  BY <1>1, <1>4 DEF CleanInv
<1>7. Waits(task[t], MicCalls) /\ OnlyRequest(micQ, task[t])
  <2>1. ~NoRequest(micQ)
    BY <1>1, <1>2, QueueTypes, QuietTail DEF req
  <2> QED
    BY <1>6, <2>1 DEF CleanOK, Expects
<1>8. /\ req.op = task[t].pc /\ req.turn = task[t].turn /\ NoRequest(micQ')
      /\ task[t].pc = "mic_stop" => req.sess = task[t].sess
  <2>1. task[t].pc # "chunk"
    BY <1>7 DEF Waits, MicCalls
  <2> QED
    BY <1>1, <1>2, <1>7, <2>1, QueueTypes, ExpectsTail DEF req
<1>9. /\ task'[t].reply = r /\ ~Waits(task'[t], MicCalls)
      /\ ~Waits(task'[t], SttCalls) /\ ~Waits(task[t], SttCalls)
  BY <1>4, <1>5, <1>7, <1>8 DEF Waits, MicCalls, SttCalls
<1>10. Expects(micQ', MicCalls, task'[t]) /\ Expects(sttQ', SttCalls, task'[t])
  BY <1>1, <1>6, <1>8, <1>9 DEF CleanOK, Expects
<1>11. MayListen(task'[t])
  BY <1>4, <1>7 DEF MayListen, Waits, MicCalls
<1>12. \A s \in active' : MayRecord(task'[t], s)
  <2>1. CASE task[t].pc = "mic_start"
    <3>1. active = {}
      BY <1>6, <1>7, <2>1 DEF CleanOK, MayRecord, Waits, Granted
    <3> QED
      BY <1>3, <1>4, <1>5, <1>8, <1>9, <2>1, <3>1 DEF MayRecord, Granted
  <2>2. CASE task[t].pc = "mic_stop"
    <3>1. \A s \in active : s = task[t].sess
      BY <1>6, <1>7, <2>2 DEF CleanOK, MayRecord, Waits, Granted
    <3> QED
      BY <1>3, <1>8, <2>2, <3>1
  <2> QED
    BY <1>7, <2>1, <2>2 DEF Waits, MicCalls
<1>13. task'[t].pc = "mic_stop" => task'[t].reply.ok
  BY <1>3, <1>4, <1>8, <1>9
<1> QED
  BY <1>10, <1>11, <1>12, <1>13 DEF CleanOK

\* stt serves the oldest request or chunk.
LEMMA CleanServeStt ==
  ASSUME TypeOK, OneTurn, CleanInv, ServeStt
  PROVE  CleanInv'
<1> DEFINE req == Head(sttQ)
<1>1. /\ sttQ # <<>> /\ sttQ' = Tail(sttQ)
      /\ \/ req.op = "stt_listen_start" /\ ListenStart(req)
         \/ req.op \in {"undo", "stt_listen_stop"} /\ ListenStop(req)
         \/ req.op = "chunk" /\ Push(req)
      /\ UNCHANGED <<micQ, active, timeouts>>
  BY DEF ServeStt, bounds, mic
<1> HIDE DEF req
<1>0. ~IsRequest(req) => UNCHANGED task /\ stream'.open = stream.open
  BY ChunkServed DEF req
<1> SUFFICES ASSUME timeouts' = 0, NEW t \in Tasks,
                    \A u \in Tasks \ {t} : task'[u].pc = "idle"
             PROVE  CleanOK(micQ', sttQ', stream'.open, active', task'[t])
  BY DEF CleanInv
<1>2. CASE ~IsRequest(req)
  <2>1. UNCHANGED task /\ stream'.open = stream.open
    BY <1>0, <1>2
  <2>2. CleanOK(micQ, sttQ, stream.open, active, task[t])
    BY <1>1, <2>1 DEF CleanInv
  <2>3. Expects(sttQ', SttCalls, task[t])
    <3>1. CASE Waits(task[t], SttCalls)
      <4>1. task[t].pc # "chunk" /\ OnlyRequest(sttQ, task[t])
        BY <2>2, <3>1 DEF CleanOK, Expects, Waits, SttCalls
      <4>2. req.op # task[t].pc
        BY <1>2, <4>1 DEF IsRequest
      <4> QED
        BY <1>1, <3>1, <4>1, <4>2, QueueTypes, ExpectsTail DEF req, Expects, IsRequest
    <3>2. CASE ~Waits(task[t], SttCalls)
      BY <1>1, <2>2, <3>2, QueueTypes, QuietTail DEF CleanOK, Expects
    <3> QED  BY <3>1, <3>2
  <2> QED
    BY <1>1, <2>1, <2>2, <2>3 DEF CleanOK
<1>3. CASE IsRequest(req)
  <2>1. PICK r \in Replies :
          /\ task' = Answer(req, r)
          /\ req.op = "stt_listen_start" => (stream'.open => r.ok \/ stream.open)
          /\ req.op # "stt_listen_start" => ~stream'.open
    <3>1. \A b \in BOOLEAN : [ok |-> TRUE, sess |-> 0, text |-> b] \in Replies
      BY DEF Replies
    <3>2. CASE req.op = "stt_listen_start" /\ ListenStart(req)
      BY <3>1, <3>2, RefusedType DEF ListenStart
    <3>3. CASE req.op \in {"undo", "stt_listen_stop"} /\ ListenStop(req)
      BY <3>1, <3>3, RefusedType DEF ListenStop, Closed
    <3> QED
      BY <1>1, <1>3, <3>2, <3>3 DEF IsRequest
  <2>2. \A u \in Tasks :
           /\ task'[u].pc = task[u].pc /\ task'[u].turn = task[u].turn
           /\ task'[u].sess = task[u].sess
           /\ task'[u].reply = IF task[u].turn = req.turn /\ task[u].pc = req.op THEN r
                               ELSE task[u].reply
    BY <2>1, AnswerFacts
  <2>3. r # NoReply
    BY VoiceAssumption
  <2>4. CleanOK(micQ, sttQ, stream.open, active, task[t])
    BY <1>1, <2>2 DEF CleanInv
  <2>5. Waits(task[t], SttCalls) /\ OnlyRequest(sttQ, task[t])
    <3>1. ~NoRequest(sttQ)
      BY <1>1, <1>3, QueueTypes, QuietTail DEF req
    <3> QED
      BY <2>4, <3>1 DEF CleanOK, Expects
  <2>6. req.op = task[t].pc /\ req.turn = task[t].turn /\ NoRequest(sttQ')
    <3>1. task[t].pc # "chunk"
      BY <2>5 DEF Waits, SttCalls
    <3> QED
      BY <1>1, <1>3, <2>5, <3>1, QueueTypes, ExpectsTail DEF req
  <2>7. /\ task'[t].reply = r /\ ~Waits(task'[t], SttCalls)
        /\ ~Waits(task'[t], MicCalls) /\ ~Waits(task[t], MicCalls)
    BY <2>2, <2>3, <2>5, <2>6 DEF Waits, MicCalls, SttCalls
  <2>8. Expects(micQ', MicCalls, task'[t]) /\ Expects(sttQ', SttCalls, task'[t])
    BY <1>1, <2>4, <2>6, <2>7 DEF CleanOK, Expects
  <2>9. stream'.open => MayListen(task'[t])
    <3>1. CASE task[t].pc = "stt_listen_start"
      <4>1. ~stream.open
        BY <2>4, <2>5, <3>1 DEF CleanOK, MayListen, Waits, Granted
      <4> QED
        BY <2>1, <2>2, <2>3, <2>6, <2>7, <3>1, <4>1 DEF MayListen, Granted
    <3> QED
      BY <2>1, <2>6, <3>1
  <2>10. active' = {} /\ task'[t].pc # "mic_stop"
    BY <1>1, <2>2, <2>4, <2>5 DEF CleanOK, MayRecord, Waits, Granted, SttCalls
  <2> QED
    BY <2>8, <2>9, <2>10 DEF CleanOK
<1> QED  BY <1>2, <1>3

LEMMA CleanForward ==
  ASSUME TypeOK, CleanInv, Forward
  PROVE  CleanInv'
<1>1. PICK c \in Chunks : sttQ' = Append(sttQ, c)
  BY HeadTailProperties DEF Forward, TypeOK
<1>2. c \in SttRequests \cup Chunks /\ ~IsRequest(c)
  BY DEF Chunks, IsRequest
<1>3. UNCHANGED <<micQ, task, stream, active, timeouts>>
  BY DEF Forward, daemon, bounds
<1>4. \A t \in Tasks : Expects(sttQ, SttCalls, task[t]) => Expects(sttQ', SttCalls, task[t])
  BY <1>1, <1>2, QueueTypes, ExpectsAppend
<1> QED
  BY <1>3, <1>4 DEF CleanInv, CleanOK

LEMMA CleanStep == TypeOK /\ OneTurn /\ TableInv /\ CleanInv /\ [Next]_vars => CleanInv'
<1> SUFFICES ASSUME TypeOK, OneTurn, TableInv, CleanInv, [Next]_vars PROVE CleanInv'
  OBVIOUS
<1>1. CASE DaemonTurn \/ Tick
  BY <1>1, CleanBegin DEF DaemonTurn, Tick
<1>2. CASE SetEnabled \/ Key \/ OtherEvent
  BY <1>2, CleanSame DEF SetEnabled, Key, OtherEvent, daemon, mic, bounds
<1>3. CASE PttKey
  <2>1. CASE Begin("ptt", "stt_listen_start")
    BY <2>1, CleanBegin
  <2>2. CASE UNCHANGED <<daemon, mic, sttQ, stream, bounds>>
    BY <2>2, CleanSame DEF daemon, mic, bounds
  <2> QED
    BY <1>3, <2>1, <2>2 DEF PttKey
<1>4. CASE PttEvent \/ MaxHold
  BY <1>4, CleanEndHold, CleanSame DEF PttEvent, MaxHold, daemon, mic, bounds
<1>5. CASE SpeechEvent
  BY <1>5, CleanEndHold, CleanSame DEF SpeechEvent, daemon, mic, bounds
<1>6. ASSUME NEW t \in Tasks, TakeReply(t) PROVE CleanInv'
  BY <1>6, CleanAfter
<1>7. ASSUME NEW t \in Tasks, TimeOut(t) PROVE CleanInv'
  <2>1. timeouts' # 0
    BY <1>7 DEF TimeOut, TypeOK
  <2> QED
    BY <2>1 DEF CleanInv
<1>8. ASSUME NEW t \in Tasks, WindowElapses(t) \/ SpeechDeadline(t) PROVE CleanInv'
  BY <1>8, CleanEndHold DEF WindowElapses, SpeechDeadline
<1>9. ASSUME NEW t \in Tasks, Think(t) \/ Speak(t) PROVE CleanInv'
  <2>1. /\ task[t].pc \in RestStages /\ task[t].pc # "idle"
        /\ UNCHANGED <<micQ, sttQ, stream, active, timeouts>>
        /\ task' = [task EXCEPT ![t] = At(t, "speak")] \/ task' = [task EXCEPT ![t] = Idle]
    BY <1>9 DEF Think, Speak, EndTurn, mic, bounds, RestStages
  <2>2. At(t, "speak").pc \in RestStages /\ Idle.pc \in RestStages
    BY AtType DEF Stages, Idle, RestStages
  <2>3. timeouts' = 0 => AtRest(micQ, sttQ, stream.open, active)
    BY <2>1, CleanOf, CleanAtRest
  <2> QED
    BY <2>1, <2>2, <2>3, CleanRests
<1>10. CASE ServeMic
  BY <1>10, CleanServeMic
<1>11. CASE ServeStt
  BY <1>11, CleanServeStt
<1>12. CASE Forward
  BY <1>12, CleanForward
<1>13. CASE \E i \in DOMAIN sess : ReadChunk(i) \/ EndCapture(i)
  BY <1>13, CleanSame DEF ReadChunk, EndCapture, daemon, bounds
<1>14. CASE UNCHANGED vars
  BY <1>14, CleanSame DEF vars
<1> QED
  BY <1>1, <1>2, <1>3, <1>4, <1>5, <1>6, <1>7, <1>8, <1>9, <1>10, <1>11, <1>12, <1>13,
     <1>14 DEF Next

(***************************************************************************)
(* The theorems.                                                           *)
(***************************************************************************)
VoiceIndInv ==
    TypeOK /\ OneTurn /\ StageInv /\ TableInv /\ FlagInv /\ MemoryInv

LEMMA VoiceInductive == Spec => []VoiceIndInv
<1>1. Init => VoiceIndInv
  <2> SUFFICES ASSUME Init PROVE VoiceIndInv
    OBVIOUS
  <2>1. TypeOK
    <3>1. task \in [Tasks -> TaskStates]
      BY IdleType DEF Init
    <3>2. /\ history \in Seq(Nat) /\ keys \in Seq({"pressed", "released", "other"})
          /\ events \in Seq({"started", "ended", "other"}) /\ micQ \in Seq(MicRequests)
          /\ sess \in Seq(Sessions) /\ out \in Seq(Chunks)
          /\ sttQ \in Seq(SttRequests \cup Chunks)
      BY EmptySeq DEF Init
    <3>3. stream \in [open : BOOLEAN, audio : BOOLEAN, talking : BOOLEAN]
      BY DEF Init, Closed
    <3> QED
      BY <3>1, <3>2, <3>3 DEF Init, TypeOK
  <2>2. OneTurn /\ FlagInv
    BY DEF Init, OneTurn, FlagInv, Idle
  <2>3. StageInv
    BY DEF Init, StageInv, UpTo, StartingInv, OpeningInv, HoldingInv, Idle
  <2>4. TableInv
    BY DEF Init, TableInv
  <2>5. MemoryInv
    BY VoiceAssumption DEF Init, MemoryInv, HistoryInOrder
  <2> QED
    BY <2>1, <2>2, <2>3, <2>4, <2>5 DEF VoiceIndInv
<1>2. VoiceIndInv /\ [Next]_vars => VoiceIndInv'
  BY TypeStep, OneTurnStep, StageStep, TableStep, FlagStep, MemoryStep DEF VoiceIndInv
<1> QED
  BY <1>1, <1>2, PTL DEF Spec

\* For any number of turns, timeouts, chunks and keys: one turn at a time holds the
\* slot of the daemon, at most one session of mic records, the capturing flag falls
\* with the turn, and the memory keeps the latest exchanges in order.
THEOREM VoiceSafe == Spec => []VoiceInv
<1>1. VoiceIndInv => VoiceInv
  <2> SUFFICES ASSUME VoiceIndInv PROVE VoiceInv
    OBVIOUS
  <2>1. SingleMic
    BY DEF VoiceIndInv, TableInv, SingleMic
  <2>2. CapturingInTurn
    BY DEF VoiceIndInv, FlagInv, CapturingInTurn
  <2> QED
    BY <2>1, <2>2 DEF VoiceIndInv, VoiceInv, MemoryInv
<1> QED
  BY <1>1, VoiceInductive, PTL

\* For any number of turns and any delays: a turn that holds the microphone is heard,
\* whatever requests of earlier turns were served late.
THEOREM HoldHeard == Spec => []HoldIsHeard
<1>1. VoiceIndInv => HoldIsHeard
  BY DEF VoiceIndInv, StageInv, HoldingInv, Owned, HoldIsHeard
<1> QED
  BY <1>1, VoiceInductive, PTL

\* For any number of turns, failures and key events: as long as every call was answered
\* in time, a daemon without a turn has left no listen stream and no recording session
\* behind, whichever stage failed.
THEOREM NothingLeftBehind == Spec => []IdleIsClean
<1>1. Init => CleanInv
  BY DEF Init, CleanInv, CleanOK, Expects, Waits, NoRequest, Idle, Closed, MicCalls, SttCalls
<1>2. TypeOK /\ OneTurn /\ TableInv /\ CleanInv => IdleIsClean
  <2> SUFFICES ASSUME OneTurn, TableInv, CleanInv, timeouts = 0, ~busy
               PROVE  ~stream.open /\ active = {} /\ \A i \in DOMAIN sess : sess[i].state # "reading"
    BY DEF IdleIsClean
  <2>1. PICK t \in Tasks : task[t].pc = "idle"
    BY DEF OneTurn
  <2>2. AtRest(micQ, sttQ, stream.open, active)
    BY <2>1, CleanOf, CleanAtRest DEF RestStages
  <2> QED
    BY <2>2 DEF AtRest, TableInv
<1>3. VoiceIndInv /\ CleanInv /\ [Next]_vars => CleanInv'
  BY CleanStep DEF VoiceIndInv
<1>4. VoiceIndInv /\ CleanInv => IdleIsClean
  BY <1>2 DEF VoiceIndInv
<1> QED
  BY <1>1, <1>3, <1>4, VoiceInductive, PTL DEF Spec
=============================================================================
