----------------------------- MODULE Scheduler -----------------------------
(***************************************************************************)
(* The scheduler plugin: once and cron schedules kept as documents in the  *)
(* database plugin, and the scans the serve loop spawns on every interval  *)
(* tick.  A scan lists the documents, and for every due one writes the     *)
(* mark back and then dispatches its event or action; a failed action is   *)
(* noted on the document.  Between any two database calls other scans and  *)
(* the handlers of schedule_set and schedule_delete may run, and the       *)
(* plugin may be killed: only the database survives.                       *)
(*                                                                         *)
(* A cron expression is abstracted to its period: it occurs at every       *)
(* multiple of it.  The number gen tells the documents written by          *)
(* different schedule_set requests apart.                                  *)
(***************************************************************************)
EXTENDS Naturals, FiniteSets, Sequences

CONSTANTS
    Ids,           \* the schedule ids, a set of positive numbers
    Handlers,      \* the requests that may be in progress at once
    Generate,      \* the id of a request that leaves the id out
    NoDoc,         \* no document under this key
    Never,         \* an Option<i64> that is None
    Instances      \* the situations considered, records of
                   \*   requests: the valid schedule_set requests [id, enabled, trigger, fire]
                   \*   scans: the scans that may be running at once
                   \*   serial: a tick comes only when the previous scan has ended
                   \*   dbMayFail: database writes may fail or time out
                   \*   maxSets, maxTime, maxFires, maxCrashes: bounds on requests,
                   \*     clock, dispatches and restarts

Triggers == [type : {"once"}, at : Nat] \cup [type : {"cron"}, period : Nat \ {0}]

Docs == [id : Ids, gen : Nat, enabled : BOOLEAN, trigger : Triggers,
         fire : {"event", "action"}, fired_once : BOOLEAN, fire_count : Nat,
         last_fired : Nat \cup {Never}, last_error : BOOLEAN, created_at : Nat]

\* What parse_request lets through.
Requests == [id : Ids \cup {Generate}, enabled : BOOLEAN,
             trigger : Triggers \cup [type : {"delay"}, delay : Nat],
             fire : {"event", "action"}]

ASSUME SchedulerAssumption ==
    /\ Ids \subseteq Nat \ {0}
    /\ \A i \in Instances :
          /\ i.requests \subseteq Requests
          /\ {i.maxSets, i.maxTime, i.maxFires, i.maxCrashes} \subseteq Nat
          /\ {i.serial, i.dbMayFail} \subseteq BOOLEAN
    /\ NoDoc \notin Docs
    /\ Never \notin Nat
    /\ Generate \notin Ids

VARIABLES
    inst,      \* the situation, chosen once
    clock,     \* unix milliseconds
    db,        \* the documents of the plugin's namespace: sched:<id>
    nextId,    \* the counter meta:next_id
    set,       \* the schedule_set handlers in progress
    scan,      \* the scans in progress
    sets,      \* history: the number of schedule_set requests
    fired,     \* history: the dispatches, in order
    crashes,   \* history: the number of restarts
    lost       \* history: requests whose marked fire was lost in a crash

vars == <<inst, clock, db, nextId, set, scan, sets, fired, crashes, lost>>

DueFires == [doc : Docs, for : Nat]

Idle == [pc |-> "idle"]

(***************************************************************************)
(* The pure timing model.                                                  *)
(***************************************************************************)
NextCronAfter(period, t) == ((t \div period) + 1) * period

NextCronAtOrAfter(period, t) == ((t + period - 1) \div period) * period

\* An enabled document that still has something to fire.
Pending(doc) ==
    doc.enabled /\ (doc.trigger.type = "once" => ~doc.fired_once)

\* A mutant: the next occurrence may be the last one again.
NextFireRepeats(doc) ==
    IF doc.trigger.type = "once" THEN doc.trigger.at
    ELSE NextCronAtOrAfter(doc.trigger.period,
                           IF doc.last_fired = Never THEN doc.created_at ELSE doc.last_fired)

\* The instant a pending document fires at.
NextFire(doc) ==
    IF doc.trigger.type = "once" THEN doc.trigger.at
    ELSE NextCronAfter(doc.trigger.period,
                       IF doc.last_fired = Never THEN doc.created_at ELSE doc.last_fired)

DueSchedules(docs, now) ==
    {[doc |-> d, for |-> NextFire(d)] :
        d \in {e \in docs : Pending(e) /\ NextFire(e) <= now}}

\* The stored trigger of a request: a delay is resolved when it is received.
ParseTrigger(t) ==
    IF t.type = "delay" THEN [type |-> "once", at |-> clock + t.delay] ELSE t

\* parse_request of schedule_set: what is fired is kept as it was given.
NewSchedule(r) == [r EXCEPT !.trigger = ParseTrigger(@)]

\* A mutant: replacing a one-shot forgets to reset fired_once.
BuildDocKeepsFired(id, r, created) ==
    [id |-> id, gen |-> sets + 1, enabled |-> r.enabled, trigger |-> r.trigger,
     fire |-> r.fire, fired_once |-> db[id] # NoDoc /\ db[id].fired_once,
     fire_count |-> 0, last_fired |-> Never, last_error |-> FALSE, created_at |-> created]

BuildDoc(id, r, created) ==
    [id |-> id, gen |-> sets + 1, enabled |-> r.enabled, trigger |-> r.trigger,
     fire |-> r.fire, fired_once |-> FALSE, fire_count |-> 0, last_fired |-> Never,
     last_error |-> FALSE, created_at |-> created]

Marked(f) ==
    [f.doc EXCEPT !.fired_once = @ \/ f.doc.trigger.type = "once",
                  !.fire_count = @ + 1,
                  !.last_fired = f.for,
                  !.last_error = FALSE]

(***************************************************************************)
(* The database, as the plugin uses it: single calls are atomic; a write   *)
(* that is reported as failed may or may not have been applied.            *)
(***************************************************************************)
Present == {i \in Ids : db[i] # NoDoc}

Write(doc) ==
    \/ db' = [db EXCEPT ![doc.id] = doc]
    \/ inst.dbMayFail /\ UNCHANGED db

(***************************************************************************)
(* schedule_set and schedule_delete.                                       *)
(***************************************************************************)
\* schedule_set reads the stored document for its creation time, or draws an
\* id from the counter.
SetBegin(h, r) ==
    /\ set[h] = Idle
    /\ sets < inst.maxSets
    /\ LET given   == r.id # Generate
           id      == IF given THEN r.id ELSE nextId + 1
           created == IF given /\ db[id] # NoDoc THEN db[id].created_at ELSE clock
       IN /\ id \in Ids
          /\ nextId' = IF given THEN nextId ELSE id
          /\ set' = [set EXCEPT ![h] = [pc |-> "put", doc |-> BuildDoc(id, NewSchedule(r), created)]]
    /\ sets' = sets + 1
    /\ UNCHANGED <<inst, clock, db, scan, fired, crashes, lost>>

SetPut(h) ==
    /\ set[h].pc = "put"
    /\ Write(set[h].doc)
    /\ set' = [set EXCEPT ![h] = Idle]
    /\ UNCHANGED <<inst, clock, nextId, scan, sets, fired, crashes, lost>>

Delete(id) ==
    /\ db[id] # NoDoc
    /\ db' = [db EXCEPT ![id] = NoDoc]
    /\ UNCHANGED <<inst, clock, nextId, set, scan, sets, fired, crashes, lost>>

(***************************************************************************)
(* A scan.                                                                 *)
(***************************************************************************)
\* An interval tick spawns a scan, whose first call lists the keys.
ScanKeys(s) ==
    /\ scan[s] = Idle
    /\ inst.serial => \A t \in inst.scans : scan[t] = Idle
    /\ Present # {}
    /\ scan' = [scan EXCEPT ![s] = [pc |-> "docs", now |-> clock, keys |-> Present]]
    /\ UNCHANGED <<inst, clock, db, nextId, set, sets, fired, crashes, lost>>

\* Where a scan goes when the fires in rest are what it has left to do.
NextOf(s, rest) ==
    IF rest = {} THEN Idle
    ELSE [pc |-> "mark", now |-> scan[s].now, due |-> rest]

\* db_batch_get; documents deleted since the keys were read are skipped.
ScanDocs(s) ==
    /\ scan[s].pc = "docs"
    /\ scan' = [scan EXCEPT ![s] = NextOf(s,
                  DueSchedules({db[i] : i \in scan[s].keys \cap Present}, scan[s].now))]
    /\ UNCHANGED <<inst, clock, db, nextId, set, sets, fired, crashes, lost>>

\* A listing that fails ends the scan.
ScanFails(s) ==
    /\ inst.dbMayFail
    /\ scan[s].pc = "docs"
    /\ scan' = [scan EXCEPT ![s] = Idle]
    /\ UNCHANGED <<inst, clock, db, nextId, set, sets, fired, crashes, lost>>

\* A mutant: the mark is skipped, as if it were written after the dispatch and
\* lost.
MarkFiredSkipped(s) ==
    /\ scan[s].pc = "mark"
    /\ \E f \in scan[s].due :
          scan' = [scan EXCEPT ![s] =
                [pc |-> "dispatch", now |-> scan[s].now, due |-> scan[s].due \ {f},
                 fire |-> [doc |-> Marked(f), for |-> f.for], stored |-> TRUE]]
    /\ UNCHANGED <<inst, clock, db, nextId, set, sets, fired, crashes, lost>>

\* mark_fired writes the scanned copy back, marked; a failure is only logged.
MarkFired(s) ==
    /\ scan[s].pc = "mark"
    /\ \E f \in scan[s].due :
          /\ Write(Marked(f))
          /\ scan' = [scan EXCEPT ![s] =
                [pc |-> "dispatch", now |-> scan[s].now, due |-> scan[s].due \ {f},
                 fire |-> [doc |-> Marked(f), for |-> f.for],
                 stored |-> db'[f.doc.id] = Marked(f)]]
    /\ UNCHANGED <<inst, clock, nextId, set, sets, fired, crashes, lost>>

\* The event is published, or the action called; an action that answers with an
\* error or times out is recorded on the document.
Dispatch(s) ==
    /\ scan[s].pc = "dispatch"
    /\ Len(fired) < inst.maxFires
    /\ LET f == scan[s].fire
       IN /\ fired' = Append(fired, [id |-> f.doc.id, gen |-> f.doc.gen,
                                     once |-> f.doc.trigger.type = "once",
                                     for |-> f.for, now |-> scan[s].now,
                                     stored |-> scan[s].stored])
          /\ \/ scan' = [scan EXCEPT ![s] = NextOf(s, scan[s].due)]
             \/ /\ f.doc.fire = "action"
                /\ scan' = [scan EXCEPT ![s] =
                      [pc |-> "failed", now |-> scan[s].now, due |-> scan[s].due,
                       id |-> f.doc.id]]
    /\ UNCHANGED <<inst, clock, db, nextId, set, sets, crashes, lost>>

\* record_last_error reads the document again; a vanished one ends it.
ErrorRead(s) ==
    /\ scan[s].pc = "failed"
    /\ scan' = [scan EXCEPT ![s] =
          IF db[scan[s].id] = NoDoc THEN NextOf(s, scan[s].due)
          ELSE [pc |-> "error", now |-> scan[s].now, due |-> scan[s].due,
                doc |-> [db[scan[s].id] EXCEPT !.last_error = TRUE]]]
    /\ UNCHANGED <<inst, clock, db, nextId, set, sets, fired, crashes, lost>>

ErrorWrite(s) ==
    /\ scan[s].pc = "error"
    /\ Write(scan[s].doc)
    /\ scan' = [scan EXCEPT ![s] = NextOf(s, scan[s].due)]
    /\ UNCHANGED <<inst, clock, nextId, set, sets, fired, crashes, lost>>

(***************************************************************************)
(* The environment: time, and the end of the process.                      *)
(***************************************************************************)
Tick ==
    /\ clock < inst.maxTime
    /\ clock' = clock + 1
    /\ UNCHANGED <<inst, db, nextId, set, scan, sets, fired, crashes, lost>>

Crash ==
    /\ crashes < inst.maxCrashes
    /\ \/ \E s \in inst.scans : scan[s] # Idle
       \/ \E h \in Handlers : set[h] # Idle
    /\ crashes' = crashes + 1
    /\ lost' = lost \cup {scan[s].fire.doc.gen : s \in {t \in inst.scans : scan[t].pc = "dispatch"}}
    /\ scan' = [s \in inst.scans |-> Idle]
    /\ set' = [h \in Handlers |-> Idle]
    /\ UNCHANGED <<inst, clock, db, nextId, sets, fired>>

Init ==
    /\ inst \in Instances
    /\ clock = 1
    /\ db = [i \in Ids |-> NoDoc]
    /\ nextId = 0
    /\ set = [h \in Handlers |-> Idle]
    /\ scan = [s \in inst.scans |-> Idle]
    /\ sets = 0
    /\ fired = <<>>
    /\ crashes = 0
    /\ lost = {}

SetStep == \E h \in Handlers : SetPut(h) \/ \E r \in inst.requests : SetBegin(h, r)

ScanStep(s) ==
    \/ ScanKeys(s) \/ ScanDocs(s) \/ ScanFails(s) \/ MarkFired(s)
    \/ Dispatch(s) \/ ErrorRead(s) \/ ErrorWrite(s)

Next ==
    \/ SetStep
    \/ \E id \in Ids : Delete(id)
    \/ \E s \in inst.scans : ScanStep(s)
    \/ Tick
    \/ Crash

Spec == Init /\ [][Next]_vars

(***************************************************************************)
(* The interval ticks for ever and every database call and dispatch ends,  *)
(* by its time-out if need be (lib.rs, Rpc::call).  Nobody has to send a   *)
(* request.                                                                *)
(***************************************************************************)
Fairness ==
    /\ WF_vars(Tick)
    /\ \A s \in UNION {i.scans : i \in Instances} : WF_vars(s \in inst.scans /\ ScanStep(s))
    /\ \A h \in Handlers : WF_vars(SetPut(h))

LiveSpec == Spec /\ Fairness

(***************************************************************************)
(* Properties.                                                             *)
(***************************************************************************)
\* A handler is idle or has a document to store.
HandlerOK(x) == x = Idle \/ (x.pc = "put" /\ x.doc \in Docs)

\* A scan is idle, has keys, or has fires to see to.
ScanOK(x) ==
    \/ x = Idle
    \/ x.pc = "docs" /\ x.keys \subseteq Ids /\ x.now \in Nat
    \/ /\ x.pc \in {"mark", "dispatch", "failed", "error"}
       /\ x.due \subseteq DueFires /\ x.now \in Nat
       /\ x.pc = "mark" => x.due # {}
       /\ x.pc = "dispatch" => x.fire \in DueFires /\ x.stored \in BOOLEAN
       /\ x.pc = "failed" => x.id \in Ids
       /\ x.pc = "error" => x.doc \in Docs

\* The state of every scan and handler is one its code can be in.
TypeOK ==
    /\ inst \in Instances
    /\ clock \in Nat
    /\ db \in [Ids -> Docs \cup {NoDoc}]
    /\ \A i \in Present : db[i].id = i
    /\ nextId \in Nat
    /\ \A h \in Handlers : HandlerOK(set[h])
    /\ \A s \in inst.scans : ScanOK(scan[s])
    /\ sets \in 0 .. inst.maxSets
    /\ crashes \in 0 .. inst.maxCrashes
    /\ lost \subseteq 1 .. inst.maxSets

\* "Due one-shots are marked fired_once BEFORE dispatch" (README): whatever
\* scans overlap and wherever the plugin is killed, a one-shot that has been
\* dispatched with its mark stored is never seen unmarked in the database again,
\* so no later scan picks it up (scan_due, mark_fired).  It takes one scan at a
\* time, or schedules that publish events: the note that record_last_error makes
\* of a failed action writes back the document as it read it, and when another
\* scan marks and dispatches in between, the mark is gone.
DispatchedStaysMarked ==
    inst.serial \/ (\A r \in inst.requests : r.fire = "event") =>
        \A k \in 1 .. Len(fired) :
            LET f == fired[k]
            IN f.once /\ f.stored /\ db[f.id] # NoDoc =>
                   (db[f.id].gen = f.gen => db[f.id].fired_once)

\* With one scan at a time fire_count never falls behind the dispatches: "total
\* fires so far" (ScheduleDoc::fire_count).
FireCountCovers ==
    inst.serial =>
        \A i \in Present :
            Cardinality({k \in 1 .. Len(fired) : fired[k].gen = db[i].gen /\ fired[k].stored})
                <= db[i].fire_count

\* With one scan at a time, an occurrence of a schedule whose mark was stored is
\* not dispatched again, however the operator's requests and a crash fall between
\* the steps of the scan (mark_fired before the dispatch, next_fire_ms strictly
\* after it).
OccurrenceFiresOnce ==
    inst.serial =>
        \A j, k \in 1 .. Len(fired) :
            j < k /\ fired[j].gen = fired[k].gen /\ fired[j].for = fired[k].for
                => ~fired[j].stored

\* A well-typed scheduler whose documents keep what was dispatched: marks are not
\* undone, fires are counted, and no stored occurrence is dispatched again
\* (mark_fired, record_last_error, scan).
SchedulerInv == TypeOK /\ DispatchedStaysMarked /\ FireCountCovers /\ OccurrenceFiresOnce

\* The document under key i is an enabled one-shot of request g.
OneShot(i, g) ==
    db[i] # NoDoc /\ db[i].gen = g /\ db[i].enabled /\ db[i].trigger.type = "once"

\* No scan, and no request in progress, holds a document of another request under
\* key i that it may still store.
Settled(i, g) ==
    /\ \A s \in inst.scans :
          LET x    == scan[s]
              held == CASE x.pc = "mark" -> {f.doc : f \in x.due}
                        [] x.pc = "dispatch" -> {f.doc : f \in x.due} \cup {x.fire.doc}
                        [] x.pc = "failed" -> {f.doc : f \in x.due}
                        [] x.pc = "error" -> {f.doc : f \in x.due} \cup {x.doc}
                        [] OTHER -> {}
          IN \A d \in held : d.id = i => d.gen = g
    /\ \A h \in Handlers : set[h] # Idle /\ set[h].doc.id = i => set[h].doc.gen = g

\* With one scan at a time and a database that answers, an enabled one-shot, new
\* or set again after it fired, that is stored while nobody holds an older copy of
\* its key is dispatched once its time has come, unless the operator deletes it or
\* replaces it by a later request, or a crash falls between its mark and its
\* dispatch; nothing else loses a fire, neither a crash elsewhere nor a failing
\* dispatch of another schedule (scan_due, mark_fired, build_doc).  A one-shot
\* stored while a scan holds the copy that it replaces is not covered: the scan's
\* mark (lib.rs:293) or error note (lib.rs:324) is written over it, and it never
\* fires.
DueOneShotFires ==
    \A i \in Ids : \A g \in 1 .. 2 :
        (inst.serial /\ ~inst.dbMayFail /\ OneShot(i, g) /\ Settled(i, g))
            ~> \/ \E k \in 1 .. Len(fired) : fired[k].gen = g
               \/ g \in lost
               \/ db[i] = NoDoc
               \/ db[i] # NoDoc /\ db[i].gen > g
=============================================================================
