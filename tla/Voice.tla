------------------------------- MODULE Voice -------------------------------
(***************************************************************************)
(* The listening half of a voice turn: the daemon's turn slot and its      *)
(* capture sequence, the microphone sessions of mic and the listen stream  *)
(* of stt, which talk through the kernel.                                  *)
(*                                                                         *)
(* A turn is started by daemon_turn, by the timer or, in push-to-talk      *)
(* mode, by a key.  Its calls of mic and stt are requests that wait in the *)
(* queue of a plugin that serves one at a time.  The daemon stops waiting  *)
(* at a timeout, and the request is served all the same.  The audio takes  *)
(* another way: from the capture task through mic's outbound channel to    *)
(* the queue of stt, so it races the requests of the daemon.               *)
(*                                                                         *)
(* Audio is abstracted to whether there is any, a transcript to whether it *)
(* is blank, the agent, tts and sound to their outcomes.  One chunk of     *)
(* audio may start or end an utterance, within the states the detector     *)
(* has.  daemon_say, daemon_ask and the status actions touch none of this. *)
(* The kernel hands on the frames of one connection in order.              *)
(***************************************************************************)
EXTENDS Integers, Sequences, FiniteSets

CONSTANTS
    Instances,    \* the listen mode, and the bounds of what may happen
    MEMORY_TURNS, \* how many exchanges the daemon remembers
    NoReply       \* the call that was made has not been answered

Modes == {"window", "vad", "ptt"}

\* Who starts turns: handlers of daemon_turn, the timer, the push-to-talk task.
Tasks == {"manual", "timer", "ptt"}

(***************************************************************************)
(* What a turn is doing.  In the Calls it waits for the answer of the      *)
(* request it made on entering; "undo" is the stt_listen_stop that cleans  *)
(* up after a refused mic_start.                                           *)
(***************************************************************************)
MicCalls == {"mic_start", "mic_stop"}
SttCalls == {"stt_listen_start", "undo", "stt_listen_stop"}
Calls == MicCalls \cup SttCalls
Stages == Calls \cup {"idle", "hold", "think", "speak"}

\* An answer: refused, or accepted with the session of a mic_start or with
\* whether the text of an stt_listen_stop is not blank.
Refused == [ok |-> FALSE, sess |-> 0, text |-> FALSE]
Replies == [ok : BOOLEAN, sess : Nat, text : BOOLEAN]

Idle == [pc |-> "idle", turn |-> 0, sess |-> 0, released |-> TRUE, reply |-> NoReply]

MicRequests == [op : MicCalls, turn : Nat, sess : Nat]
SttRequests == [op : SttCalls, turn : Nat, sess : Nat]
Request(op, n, s) == [op |-> op, turn |-> n, sess |-> s]

\* An AudioStreamChunk: the session it comes from, and whether it holds samples.
Chunks == [op : {"chunk"}, sess : Nat, audio : BOOLEAN]

Closed == [open |-> FALSE, audio |-> FALSE, talking |-> FALSE]
Opened == [Closed EXCEPT !.open = TRUE]

ASSUME VoiceAssumption ==
    /\ MEMORY_TURNS \in Nat \ {0}
    /\ NoReply \notin Replies
    /\ \A i \in Instances :
          /\ i.mode \in Modes
          /\ {i.maxTurns, i.maxTimeouts, i.maxChunks, i.maxKeys} \subseteq Nat

VARIABLES
    inst,       \* the instance that runs
    enabled,    \* the background loop, or the push-to-talk key, is on
    busy,       \* the turn slot is taken
    capturing,  \* the capturing flag of daemon_status
    task,       \* where the turn of each task is
    history,    \* the turns whose exchange is remembered, oldest first
    keys,       \* bus events the push-to-talk task has not read
    events,     \* bus events on the way to a turn that waits for the end of speech
    micQ,       \* requests mic has not served
    sess,       \* every capture session there was
    active,     \* the sessions in mic's table
    out,        \* chunks capture tasks have handed to mic's serve loop
    sttQ,       \* requests and chunks stt has not served
    stream,     \* the listen stream of the daemon in stt
    turns,      \* history: the number of turns begun
    timeouts,   \* history: the number of calls that timed out
    presses     \* history: the number of key events

daemon == <<enabled, busy, capturing, task, history>>
mic == <<micQ, sess, active, out>>
bounds == <<turns, timeouts, presses>>
vars == <<inst, enabled, busy, capturing, task, history, keys, events,
          micQ, sess, active, out, sttQ, stream, turns, timeouts, presses>>

Init ==
    /\ inst \in Instances
    /\ enabled \in BOOLEAN
    /\ busy = FALSE
    /\ capturing = FALSE
    /\ task = [t \in Tasks |-> Idle]
    /\ history = <<>>
    /\ keys = <<>>
    /\ events = <<>>
    /\ micQ = <<>>
    /\ sess = <<>>
    /\ active = {}
    /\ out = <<>>
    /\ sttQ = <<>>
    /\ stream = Closed
    /\ turns = 0
    /\ timeouts = 0
    /\ presses = 0

(***************************************************************************)
(* The turn slot.                                                          *)
(***************************************************************************)
\* Mutant: the slot is not looked at before it is taken.
TryBeginTurnBlind == busy' = TRUE

TryBeginTurn == busy = FALSE /\ busy' = TRUE

EndTurn(t) ==
    /\ busy' = FALSE
    /\ capturing' = IF t = "ptt" THEN FALSE ELSE capturing
    /\ task' = [task EXCEPT ![t] = Idle]

\* The task, gone on to the stage pc.
At(t, pc) == [task[t] EXCEPT !.pc = pc, !.reply = NoReply]

\* The next call of a turn: its request is made.
Goto(t, pc) ==
    /\ task' = [task EXCEPT ![t] = At(t, pc)]
    /\ micQ' = IF pc \in MicCalls
               THEN Append(micQ, Request(pc, task[t].turn, task[t].sess)) ELSE micQ
    /\ sttQ' = IF pc \in SttCalls
               THEN Append(sttQ, Request(pc, task[t].turn, 0)) ELSE sttQ

Begin(t, pc) ==
    /\ turns < inst.maxTurns
    /\ TryBeginTurn
    /\ turns' = turns + 1
    /\ task' = [task EXCEPT ![t] = [Idle EXCEPT !.pc = pc, !.turn = turns + 1]]
    /\ sttQ' = IF pc \in SttCalls THEN Append(sttQ, Request(pc, turns + 1, 0)) ELSE sttQ
    /\ UNCHANGED <<inst, enabled, history, events, mic, stream, timeouts, presses>>

\* daemon_turn: a given text skips the listening.  While the slot is taken the
\* request is refused.
DaemonTurn ==
    /\ \/ Begin("manual", "think")
       \/ Begin("manual", "stt_listen_start")
    /\ UNCHANGED <<capturing, keys>>

\* The interval of the serve loop.
Tick ==
    /\ inst.mode # "ptt"
    /\ enabled
    /\ Begin("timer", "stt_listen_start")
    /\ UNCHANGED <<capturing, keys>>

\* The push-to-talk task, between turns, reads one key event: a press starts a
\* turn when the plugin is enabled and the slot is free.
PttKey ==
    /\ keys # <<>>
    /\ task["ptt"].pc = "idle"
    /\ keys' = Tail(keys)
    /\ IF Head(keys) = "pressed" /\ enabled /\ ~busy
       THEN Begin("ptt", "stt_listen_start") /\ capturing' = TRUE
       ELSE UNCHANGED <<inst, daemon, events, mic, sttQ, stream, bounds>>

\* daemon_enable and daemon_disable.
SetEnabled ==
    /\ enabled' = ~enabled
    /\ UNCHANGED <<inst, busy, capturing, task, history, keys, events, mic, sttQ, stream,
                   bounds>>

(***************************************************************************)
(* The capture sequence: stt_listen_start, mic_start, hold, mic_stop,      *)
(* stt_listen_stop.  Each step takes the answer r of the call.             *)
(***************************************************************************)
AfterListenStart(t, r) ==
    IF r.ok THEN Goto(t, "mic_start") /\ UNCHANGED <<busy, capturing>>
            ELSE EndTurn(t) /\ UNCHANGED <<micQ, sttQ>>

\* Mutant: a refused mic_start ends the turn at once.
AfterMicStartNoUndo(t, r) ==
    IF r.ok
    THEN /\ task' = [task EXCEPT ![t] = [At(t, "hold") EXCEPT !.sess = r.sess]]
         /\ capturing' = TRUE
         /\ UNCHANGED <<busy, micQ, sttQ>>
    ELSE EndTurn(t) /\ UNCHANGED <<micQ, sttQ>>

\* The session is held; the push-to-talk task has set capturing already.
AfterMicStart(t, r) ==
    IF r.ok
    THEN /\ task' = [task EXCEPT ![t] = [At(t, "hold") EXCEPT !.sess = r.sess]]
         /\ capturing' = TRUE
         /\ UNCHANGED <<busy, micQ, sttQ>>
    ELSE Goto(t, "undo") /\ UNCHANGED <<busy, capturing>>

AfterUndo(t) == EndTurn(t) /\ UNCHANGED <<micQ, sttQ>>

\* mic_stop fails only when it is not answered in time.
AfterMicStop(t, r) ==
    IF r.ok
    THEN Goto(t, "stt_listen_stop") /\ UNCHANGED <<busy, capturing>>
    ELSE /\ busy' = FALSE
         /\ capturing' = FALSE
         /\ task' = [task EXCEPT ![t] = Idle]
         /\ UNCHANGED <<micQ, sttQ>>

\* A blank transcript, and a key that was never released, end the turn here.
AfterListenStop(t, r) ==
    /\ IF r.ok /\ r.text /\ task[t].released
       THEN /\ task' = [task EXCEPT ![t] = At(t, "think")]
            /\ capturing' = (t = "ptt")
            /\ UNCHANGED busy
       ELSE /\ busy' = FALSE
            /\ capturing' = FALSE
            /\ task' = [task EXCEPT ![t] = Idle]
    /\ UNCHANGED <<micQ, sttQ>>

After(t, r) ==
    /\ \/ task[t].pc = "stt_listen_start" /\ AfterListenStart(t, r)
       \/ task[t].pc = "mic_start" /\ AfterMicStart(t, r)
       \/ task[t].pc = "undo" /\ AfterUndo(t)
       \/ task[t].pc = "mic_stop" /\ AfterMicStop(t, r)
       \/ task[t].pc = "stt_listen_stop" /\ AfterListenStop(t, r)
    /\ UNCHANGED <<inst, enabled, history, keys, events, sess, active, out, stream, turns,
                   presses>>

TakeReply(t) ==
    /\ task[t].reply # NoReply
    /\ After(t, task[t].reply)
    /\ UNCHANGED timeouts

\* The daemon stops waiting.  The request, or its answer, is still on its way.
TimeOut(t) ==
    /\ task[t].pc \in Calls
    /\ timeouts < inst.maxTimeouts
    /\ timeouts' = timeouts + 1
    /\ After(t, Refused)

(***************************************************************************)
(* How long the microphone is held.                                        *)
(***************************************************************************)
\* A turn of daemon_turn in push-to-talk mode holds the fixed window.
HoldMode(t) == IF inst.mode = "ptt" /\ t # "ptt" THEN "window" ELSE inst.mode

EndHold(t, released) ==
    /\ task' = [task EXCEPT ![t] = [At(t, "mic_stop") EXCEPT !.released = released]]
    /\ micQ' = Append(micQ, Request("mic_stop", task[t].turn, task[t].sess))
    /\ capturing' = (capturing /\ HoldMode(t) # "vad")
    /\ UNCHANGED <<inst, enabled, busy, history, sess, active, out, sttQ, stream, bounds>>

WindowElapses(t) ==
    /\ task[t].pc = "hold"
    /\ HoldMode(t) = "window"
    /\ EndHold(t, TRUE)
    /\ UNCHANGED <<keys, events>>

\* No speech in time, or too long an utterance.  Every event on the bus starts the
\* second time anew, so that Fairness counts on neither while there are events.
SpeechDeadline(t) ==
    /\ task[t].pc = "hold"
    /\ HoldMode(t) = "vad"
    /\ EndHold(t, TRUE)
    /\ UNCHANGED <<keys, events>>

\* The serve loop puts a speech event on the bus; only a turn that holds has
\* subscribed to it.  The events carry the stream, not the turn.
SpeechEvent ==
    /\ events # <<>>
    /\ events' = Tail(events)
    /\ LET waiting == {t \in Tasks : task[t].pc = "hold" /\ HoldMode(t) = "vad"}
       IN  IF Head(events) = "ended" /\ waiting # {}
           THEN \E t \in waiting : EndHold(t, TRUE)
           ELSE UNCHANGED <<inst, daemon, mic, sttQ, stream, bounds>>
    /\ UNCHANGED keys

PttEvent ==
    /\ task["ptt"].pc = "hold"
    /\ keys # <<>>
    /\ keys' = Tail(keys)
    /\ IF Head(keys) = "released"
       THEN EndHold("ptt", TRUE)
       ELSE UNCHANGED <<inst, daemon, mic, sttQ, stream, bounds>>
    /\ UNCHANGED events

\* Mutant: the hold is only left after a release.
MaxHoldReleased ==
    /\ task["ptt"].pc = "hold"
    /\ keys = <<>>
    /\ presses % 2 = 0
    /\ EndHold("ptt", FALSE)
    /\ UNCHANGED <<keys, events>>

\* The key is held too long: what was said is transcribed, and not used.  The time
\* runs while the task waits for one event, and begins anew with each, whatever it is.
MaxHold ==
    /\ task["ptt"].pc = "hold"
    /\ keys = <<>>
    /\ EndHold("ptt", FALSE)
    /\ UNCHANGED <<keys, events>>

(***************************************************************************)
(* Thinking and speaking.                                                  *)
(***************************************************************************)
\* goal_start answers, answers nothing, or fails.
Think(t) ==
    /\ task[t].pc = "think"
    /\ \/ task' = [task EXCEPT ![t] = At(t, "speak")] /\ UNCHANGED <<busy, capturing>>
       \/ EndTurn(t)
    /\ UNCHANGED <<inst, enabled, history, keys, events, mic, sttQ, stream, bounds>>

Remember(h, n) ==
    LET longer == Append(h, n)
    IN  IF Len(longer) > MEMORY_TURNS THEN Tail(longer) ELSE longer

\* tts_synthesize and sound_play.  The exchange is remembered whether or not it
\* could be spoken, since the payload of the turn holds the answer.
Speak(t) ==
    /\ task[t].pc = "speak"
    /\ history' = Remember(history, task[t].turn)
    /\ EndTurn(t)
    /\ UNCHANGED <<inst, enabled, keys, events, mic, sttQ, stream, bounds>>

(***************************************************************************)
(* mic.                                                                    *)
(***************************************************************************)
\* The answer of a request reaches the task that waits for it, if it still does.
Answer(req, r) ==
    [t \in Tasks |-> IF task[t].turn = req.turn /\ task[t].pc = req.op
                     THEN [task[t] EXCEPT !.reply = r] ELSE task[t]]

\* request_stop of the sessions ids.
RequestStop(s, ids) ==
    [i \in DOMAIN s |-> IF i \in ids /\ s[i].state = "reading"
                        THEN [s[i] EXCEPT !.state = "stopping"] ELSE s[i]]

Recording == [state |-> "reading", chunks |-> 0]

\* Mutant: the other sessions are stopped after the new one was put into the table.
MicStartStopsLast(req) ==
    \/ /\ task' = Answer(req, Refused)
       /\ UNCHANGED <<sess, active>>
    \/ LET id == Len(sess) + 1
       IN  /\ sess' = RequestStop(Append(sess, Recording), active \cup {id})
           /\ active' = {}
           /\ task' = Answer(req, [ok |-> TRUE, sess |-> id, text |-> FALSE])

\* No recorder can be started, or a new session replaces every other one.
MicStart(req) ==
    \/ /\ task' = Answer(req, Refused)
       /\ UNCHANGED <<sess, active>>
    \/ /\ sess' = Append(RequestStop(sess, active), Recording)
       /\ active' = {Len(sess) + 1}
       /\ task' = Answer(req, [ok |-> TRUE, sess |-> Len(sess) + 1, text |-> FALSE])

\* Sessions whose task has ended leave the table; the one that is named is stopped.
MicStop(req) ==
    LET reaped == {i \in active : sess[i].state # "done"}
    IN  /\ active' = reaped \ {req.sess}
        /\ sess' = RequestStop(sess, reaped \cap {req.sess})
        /\ task' = Answer(req, [ok |-> TRUE, sess |-> 0, text |-> FALSE])

ServeMic ==
    /\ micQ # <<>>
    /\ micQ' = Tail(micQ)
    /\ IF Head(micQ).op = "mic_start" THEN MicStart(Head(micQ)) ELSE MicStop(Head(micQ))
    /\ UNCHANGED <<inst, enabled, busy, capturing, history, keys, events, out, sttQ, stream,
                   bounds>>

\* A full chunk.  One that was read before the stop is still sent after it.
ReadChunk(i) ==
    /\ sess[i].state \in {"reading", "stopping"}
    /\ sess[i].chunks < inst.maxChunks
    /\ sess' = [sess EXCEPT ![i].chunks = @ + 1]
    /\ out' = Append(out, [op |-> "chunk", sess |-> i, audio |-> TRUE])
    /\ UNCHANGED <<inst, daemon, keys, events, micQ, active, sttQ, stream, bounds>>

\* The task was told to stop, or its recorder has died: the last chunk, with what
\* there is left, ends the stream.
EndCapture(i) ==
    /\ sess[i].state \in {"reading", "stopping"}
    /\ sess' = [sess EXCEPT ![i].state = "done"]
    /\ \E rest \in BOOLEAN : out' = Append(out, [op |-> "chunk", sess |-> i, audio |-> rest])
    /\ UNCHANGED <<inst, daemon, keys, events, micQ, active, sttQ, stream, bounds>>

\* The serve loop takes chunks and requests in any order.
Forward ==
    /\ out # <<>>
    /\ out' = Tail(out)
    /\ sttQ' = Append(sttQ, Head(out))
    /\ UNCHANGED <<inst, daemon, keys, events, micQ, sess, active, stream, bounds>>

(***************************************************************************)
(* stt.                                                                    *)
(***************************************************************************)
ListenStart(req) ==
    /\ IF stream.open
       THEN task' = Answer(req, Refused) /\ UNCHANGED stream
       ELSE task' = Answer(req, [ok |-> TRUE, sess |-> 0, text |-> FALSE]) /\ stream' = Opened
    /\ UNCHANGED events

\* The stream is taken out first, then transcribed.
ListenStop(req) ==
    /\ stream' = Closed
    /\ \/ task' = Answer(req, Refused)
       \/ /\ stream.open /\ stream.audio
          /\ \E text \in BOOLEAN : task' = Answer(req, [ok |-> TRUE, sess |-> 0, text |-> text])
    /\ UNCHANGED events

\* The detector: what it may say of a chunk, and whether it is then in an utterance.
\* One that is too short ends without an event.
Feed(talking) ==
    {step \in [event : {"none", "started", "ended"}, talking : BOOLEAN] :
        IF talking THEN step.event # "started" /\ (step.event = "ended" => ~step.talking)
                   ELSE step.event # "ended" /\ (step.event = "started" <=> step.talking)}

Silent == [event |-> "none", talking |-> FALSE]

\* Audio for a stream that is not open is dropped.
Push(chunk) ==
    /\ IF ~stream.open \/ ~chunk.audio
       THEN UNCHANGED <<stream, events>>
       ELSE \E step \in IF inst.mode = "vad" THEN Feed(stream.talking) ELSE {Silent} :
               /\ stream' = [stream EXCEPT !.audio = TRUE, !.talking = step.talking]
               /\ events' = IF step.event = "none" THEN events ELSE Append(events, step.event)
    /\ UNCHANGED task

ServeStt ==
    /\ sttQ # <<>>
    /\ sttQ' = Tail(sttQ)
    /\ \/ Head(sttQ).op = "stt_listen_start" /\ ListenStart(Head(sttQ))
       \/ Head(sttQ).op \in {"undo", "stt_listen_stop"} /\ ListenStop(Head(sttQ))
       \/ Head(sttQ).op = "chunk" /\ Push(Head(sttQ))
    /\ UNCHANGED <<inst, enabled, busy, capturing, history, keys, mic, bounds>>

(***************************************************************************)
(* The key of the user, through hotkey and the kernel.                     *)
(***************************************************************************)
Key ==
    /\ inst.mode = "ptt"
    /\ presses < inst.maxKeys
    /\ presses' = presses + 1
    /\ keys' = Append(keys, IF presses % 2 = 0 THEN "pressed" ELSE "released")
    /\ UNCHANGED <<inst, daemon, events, mic, sttQ, stream, turns, timeouts>>

\* Any other event on the bus, as often as it likes: of another key or stream, or the
\* news that some were lost.  One that is not read yet stands for all that follow it.
OtherEvent ==
    /\ \/ inst.mode = "ptt" /\ keys = <<>> /\ keys' = <<"other">> /\ UNCHANGED events
       \/ inst.mode = "vad" /\ events = <<>> /\ events' = <<"other">> /\ UNCHANGED keys
    /\ UNCHANGED <<inst, daemon, mic, sttQ, stream, bounds>>

Next ==
    \/ DaemonTurn \/ Tick \/ SetEnabled \/ Key \/ OtherEvent
    \/ PttKey \/ PttEvent \/ MaxHold \/ SpeechEvent
    \/ \E t \in Tasks :
          TakeReply(t) \/ TimeOut(t) \/ WindowElapses(t) \/ SpeechDeadline(t)
          \/ Think(t) \/ Speak(t)
    \/ ServeMic \/ Forward \/ ServeStt
    \/ \E i \in DOMAIN sess : ReadChunk(i) \/ EndCapture(i)

Spec == Init /\ [][Next]_vars

\* Spawned tasks and the serve loops go on, timers fire, and the calls of the agent,
\* of tts and of sound end, at the latest with their timeouts.  Nothing is assumed of
\* the callers, the user, the recorder, or of how long mic and stt take: the turn
\* only needs each to serve its queue.
Fairness ==
    /\ \A t \in Tasks :
          /\ WF_vars(TakeReply(t))
          /\ WF_vars(WindowElapses(t))
          /\ WF_vars(events = <<>> /\ SpeechDeadline(t))
          /\ WF_vars(Think(t))
          /\ WF_vars(Speak(t))
    /\ WF_vars(PttEvent)
    /\ WF_vars(SpeechEvent)
    /\ WF_vars(MaxHold)
    /\ WF_vars(ServeMic)
    /\ WF_vars(ServeStt)

LiveSpec == Spec /\ Fairness

(***************************************************************************)
(* Properties.                                                             *)
(***************************************************************************)
Sessions == [state : {"reading", "stopping", "done"}, chunks : Nat]

TaskStates ==
    [pc : Stages, turn : Nat, sess : Nat, released : BOOLEAN, reply : Replies \cup {NoReply}]

TypeOK ==
    /\ inst \in Instances
    /\ enabled \in BOOLEAN
    /\ busy \in BOOLEAN
    /\ capturing \in BOOLEAN
    /\ task \in [Tasks -> TaskStates]
    /\ history \in Seq(Nat)
    /\ keys \in Seq({"pressed", "released", "other"})
    /\ events \in Seq({"started", "ended", "other"})
    /\ micQ \in Seq(MicRequests)
    /\ sess \in Seq(Sessions)
    /\ active \subseteq DOMAIN sess
    /\ out \in Seq(Chunks)
    /\ sttQ \in Seq(SttRequests \cup Chunks)
    /\ stream \in [open : BOOLEAN, audio : BOOLEAN, talking : BOOLEAN]
    /\ turns \in Nat
    /\ timeouts \in Nat
    /\ presses \in Nat

\* The slot is taken exactly while a turn runs, and no two turns run at a time.
OneTurn ==
    /\ busy <=> \E t \in Tasks : task[t].pc # "idle"
    /\ \A t, u \in Tasks : task[t].pc # "idle" /\ task[u].pc # "idle" => t = u

\* At most one session records, whatever requests are served late.
SingleMic == \A i, j \in DOMAIN sess :
                sess[i].state = "reading" /\ sess[j].state = "reading" => i = j

\* The capturing flag never outlives the turn that set it.
CapturingInTurn == capturing => busy

\* The remembered exchanges are the latest ones, in the order they were spoken.
HistoryInOrder ==
    /\ Len(history) <= MEMORY_TURNS
    /\ \A i, j \in DOMAIN history : i < j => history[i] < history[j]

\* The daemon's slot, its flag and its memory, and the owner of the microphone
\* (try_begin_turn and end_turn of DaemonState, handle_start of mic).
VoiceInv == TypeOK /\ OneTurn /\ SingleMic /\ CapturingInTurn /\ HistoryInOrder

\* While a turn holds the microphone the listen stream is open and the session it
\* will stop is the one in mic's table, which nothing has told to stop: neither a
\* late start nor a late stop of an earlier turn takes the audio away from it
\* (start_capture of the daemon, handle_start and handle_stop of mic, listen::start).
HoldIsHeard ==
    \A t \in Tasks : task[t].pc = "hold" =>
        /\ stream.open
        /\ active = {task[t].sess}
        /\ sess[task[t].sess].state # "stopping"

\* As long as every call was answered in time, a daemon without a turn has left no
\* listen stream and no recording session behind, whichever stage failed
\* (start_capture and finish_capture of the daemon).
IdleIsClean ==
    timeouts = 0 /\ ~busy =>
        /\ ~stream.open
        /\ active = {}
        /\ \A i \in DOMAIN sess : sess[i].state # "reading"

\* No event but those of the key and of the stream is on its way.
BusQuiet == "other" \notin {keys[i] : i \in DOMAIN keys} \cup {events[i] : i \in DOMAIN events}

\* Once the rest of the bus has fallen silent every turn ends, with stages that fail,
\* calls that time out, keys that are never released and speech that never ends.
\* While other events keep coming a turn may hold the microphone and the slot for
\* ever: each one starts the longest hold, or utterance, anew (ptt_listen and
\* wait_for_speech_end, which are to cap them).
TurnsEnd == <>[]BusQuiet => (busy ~> ~busy)

(***************************************************************************)
(* What HoldIsHeard rests on: the queues are served in order, so once the  *)
(* request of the running turn has been served every older one has been.   *)
(***************************************************************************)
IsRequest(m) == m.op # "chunk"

NoRequest(q) == \A i \in 1 .. Len(q) : ~IsRequest(q[i])

UpTo(q, n) == \A i \in 1 .. Len(q) : IsRequest(q[i]) => q[i].turn <= n

Older(q, n) == \A i \in 1 .. Len(q) : IsRequest(q[i]) => q[i].turn < n

\* The request op of turn n is the last one in q, and the only one of that turn.
LastRequest(q, op, n) ==
    \E i \in 1 .. Len(q) :
        /\ q[i].op = op
        /\ q[i].turn = n
        /\ \A j \in 1 .. Len(q) : IsRequest(q[j]) /\ j # i => j < i /\ q[j].turn < n

\* Session s is the one in mic's table and has not been told to stop.
Owned(s) == s \in DOMAIN sess /\ active = {s} /\ sess[s].state # "stopping"

StartingInv(k) ==
    k.pc = "stt_listen_start" =>
        /\ Older(micQ, turns)
        /\ k.reply = NoReply => LastRequest(sttQ, "stt_listen_start", turns)
        /\ k.reply # NoReply => NoRequest(sttQ) /\ (k.reply.ok => stream.open)

OpeningInv(k) ==
    k.pc = "mic_start" =>
        /\ NoRequest(sttQ)
        /\ stream.open
        /\ k.reply = NoReply => LastRequest(micQ, "mic_start", turns)
        /\ k.reply # NoReply => NoRequest(micQ) /\ (k.reply.ok => Owned(k.reply.sess))

HoldingInv(k) ==
    k.pc = "hold" => NoRequest(sttQ) /\ stream.open /\ NoRequest(micQ) /\ Owned(k.sess)

StageInv ==
    /\ UpTo(micQ, turns)
    /\ UpTo(sttQ, turns)
    /\ \A t \in Tasks :
          /\ task[t].pc # "idle" => task[t].turn = turns
          /\ StartingInv(task[t])
          /\ OpeningInv(task[t])
          /\ HoldingInv(task[t])

\* What SingleMic rests on: a session that records is in mic's table.
TableInv ==
    /\ \A i, j \in active : i = j
    /\ \A i \in DOMAIN sess : sess[i].state = "reading" => i \in active

\* What CapturingInTurn rests on: only the push-to-talk task leaves the flag up when
\* it is not holding or stopping.
FlagInv ==
    /\ capturing => busy
    /\ \A t \in Tasks \ {"ptt"} :
          task[t].pc \in {"stt_listen_start", "mic_start", "undo", "think", "speak"}
              => ~capturing

\* What HistoryInOrder rests on: a running turn is newer than what is remembered.
MemoryInv ==
    /\ HistoryInOrder
    /\ \A i \in DOMAIN history : history[i] <= turns /\ (busy => history[i] < turns)
=============================================================================
