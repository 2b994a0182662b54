-------------------------- MODULE Scheduler_proofs --------------------------
(***************************************************************************)
(* For every set of ids, requests, handlers and scans: a one-shot that was *)
(* dispatched stays marked, fires are counted, and with one scan at a time *)
(* no occurrence is dispatched twice, whatever the operator sends and the  *)
(* database refuses, and wherever the plugin is killed.                    *)
(***************************************************************************)
EXTENDS Scheduler, SequenceTheorems, FiniteSetTheorems, TLAPS

Firings == [id : Ids, gen : Nat, once : BOOLEAN, for : Nat, now : Nat, stored : BOOLEAN]

DocsOf(fires) == {f.doc : f \in fires}

\* The documents a scan in state x holds.
HeldBy(x) ==
    CASE x.pc \in {"mark", "failed"} -> DocsOf(x.due)
      [] x.pc = "dispatch" -> DocsOf(x.due) \cup {x.fire.doc}
      [] x.pc = "error" -> DocsOf(x.due) \cup {x.doc}
      [] OTHER -> {}

Stored == {db[i] : i \in Present}
Held == UNION {HeldBy(scan[s]) : s \in inst.scans}

\* The request a document or a dispatch comes from, as far as it is told.
Stub(d) == [gen |-> d.gen, id |-> d.id, type |-> d.trigger.type]
FiredStub(f) == [gen |-> f.gen, id |-> f.id, type |-> IF f.once THEN "once" ELSE "cron"]

Stubs == {Stub(d) : d \in Stored \cup Held} \cup {FiredStub(fired[k]) : k \in 1 .. Len(fired)}

\* A number stands for one request, and the document of a handler is nowhere else.
OneRequest ==
    /\ \A x \in Stubs : x.gen \in 1 .. sets
    /\ \A x, y \in Stubs : x.gen = y.gen => x = y
    /\ \A h \in Handlers : set[h].pc = "put" =>
          /\ set[h].doc.gen \in 1 .. sets
          /\ \A x \in Stubs : x.gen # set[h].doc.gen
          /\ \A g \in Handlers : set[g].pc = "put" /\ set[g].doc.gen = set[h].doc.gen => g = h

\* What a scan has before it: fires of pending documents, one per document.
DueIsDue(x) ==
    x.pc \in {"mark", "dispatch", "failed", "error"} =>
        /\ \A f \in x.due : Pending(f.doc) /\ f.for = NextFire(f.doc)
        /\ \A f, g \in x.due : f.doc.id = g.doc.id => f = g
        /\ x.pc = "dispatch" => \A f \in x.due : f.doc.id # x.fire.doc.id
        /\ x.pc = "failed" => \A f \in x.due : f.doc.id # x.id
        /\ x.pc = "error" => \A f \in x.due : f.doc.id # x.doc.id

ScansAreDue == \A s \in inst.scans : DueIsDue(scan[s])

OneScan ==
    inst.serial =>
        \A s, t \in inst.scans : scan[s] # Idle /\ scan[t] # Idle => s = t

EventsOnly == \A r \in inst.requests : r.fire = "event"

\* Where only events are published, no error is noted.
NoErrors ==
    EventsOnly =>
        /\ \A d \in Stored \cup Held : d.fire = "event"
        /\ \A h \in Handlers : set[h].pc = "put" => set[h].doc.fire = "event"
        /\ \A s \in inst.scans : scan[s].pc \notin {"failed", "error"}

\* Occurrences whose mark is stored: dispatched, or about to be.
SpentBy(x) ==
    IF x.pc = "dispatch" /\ x.stored
      THEN {[gen |-> x.fire.doc.gen, type |-> x.fire.doc.trigger.type, for |-> x.fire.for]}
      ELSE {}
SpentIn(f) ==
    IF f.stored THEN {[gen |-> f.gen, type |-> IF f.once THEN "once" ELSE "cron", for |-> f.for]}
                ELSE {}
AboutToFire == UNION {SpentBy(scan[s]) : s \in inst.scans}
Dispatched == UNION {SpentIn(fired[k]) : k \in 1 .. Len(fired)}
Spent == AboutToFire \cup Dispatched

\* The documents that are in the database or may be written to it as they are;
\* with one scan at a time, those that wait to be marked are such too.
ExposedBy(x) ==
    (IF x.pc = "error" THEN {x.doc} ELSE {})
      \cup (IF inst.serial /\ x.pc \in {"mark", "dispatch", "failed", "error"}
              THEN DocsOf(x.due) ELSE {})
Exposed == UNION {ExposedBy(scan[s]) : s \in inst.scans}
Known == Stored \cup Exposed

MarksKept ==
    inst.serial \/ EventsOnly =>
        \A p \in Spent, d \in Known : p.gen = d.gen =>
            /\ p.type = "once" => d.fired_once
            /\ inst.serial => d.last_fired # Never /\ p.for <= d.last_fired

\* With one scan at a time, what is about to be dispatched has not been.
NoRepeats ==
    inst.serial =>
        /\ OccurrenceFiresOnce
        /\ \A s \in inst.scans, k \in 1 .. Len(fired) :
              scan[s].pc = "dispatch" /\ fired[k].stored /\ fired[k].gen = scan[s].fire.doc.gen
                  => fired[k].for # scan[s].fire.for

FiresOf(g) == {k \in 1 .. Len(fired) : fired[k].gen = g /\ fired[k].stored}
Reserved(g) == \E s \in inst.scans : \E p \in SpentBy(scan[s]) : p.gen = g

FiresCounted ==
    inst.serial =>
        \A d \in Known :
            /\ Cardinality(FiresOf(d.gen)) <= d.fire_count
            /\ Reserved(d.gen) => Cardinality(FiresOf(d.gen)) + 1 <= d.fire_count

HandlersKnown == set = [h \in Handlers |-> set[h]]
ScansKnown == scan = [s \in inst.scans |-> scan[s]]

FiringInv ==
    /\ TypeOK
    /\ HandlersKnown /\ ScansKnown
    /\ fired \in Seq(Firings)
    /\ OneRequest /\ ScansAreDue /\ OneScan /\ NoErrors
    /\ MarksKept /\ NoRepeats /\ FiresCounted

-----------------------------------------------------------------------------
(* Documents and times.                                                     *)

(* The next fire of a document is an instant, and that of a cron schedule is *)
(* after the last one.                                                       *)
LEMMA NextFireIsLater ==
    ASSUME NEW d \in Docs
    PROVE  /\ NextFire(d) \in Nat
           /\ d.trigger.type \in {"once", "cron"}
           /\ d.trigger.type = "cron" /\ d.last_fired # Never => NextFire(d) > d.last_fired
<1>1. CASE d.trigger.type = "once"
  BY <1>1 DEF Docs, Triggers, NextFire
<1>2. CASE d.trigger.type # "once"
  <2>1. d.trigger.type = "cron" /\ d.trigger.period \in Nat \ {0}
    BY <1>2 DEF Docs, Triggers
  <2>2. PICK t \in Nat : t = IF d.last_fired = Never THEN d.created_at ELSE d.last_fired
    BY DEF Docs
  <2>3. \A p \in Nat \ {0} : ((t \div p) + 1) * p \in Nat /\ ((t \div p) + 1) * p > t
    <3> TAKE p \in Nat \ {0}
    <3>1. t = p * (t \div p) + (t % p) /\ t % p \in 0 .. (p - 1) /\ t \div p \in Nat
      OBVIOUS
    <3>2. \A q \in Nat : (q + 1) * p = p * q + p /\ p * q \in Nat
      OBVIOUS
    <3> QED
      BY <3>1, <3>2
  <2>4. NextFire(d) = ((t \div d.trigger.period) + 1) * d.trigger.period
    BY <2>1, <2>2 DEF NextFire, NextCronAfter
  <2> QED
    BY <2>1, <2>2, <2>3, <2>4
<1> QED
  BY <1>1, <1>2

(* The document a scan writes back for a fire.                               *)
LEMMA MarkedDoc ==
    ASSUME NEW f \in DueFires
    PROVE  /\ Marked(f) \in Docs /\ f.doc \in Docs /\ f.for \in Nat
           /\ Marked(f).id = f.doc.id /\ Marked(f).gen = f.doc.gen
           /\ Marked(f).trigger = f.doc.trigger /\ Marked(f).fire = f.doc.fire
           /\ Marked(f).last_fired = f.for
           /\ Marked(f).fire_count = f.doc.fire_count + 1
           /\ f.doc.trigger.type = "once" => Marked(f).fired_once
<1>1. f.doc \in Docs /\ f.for \in Nat
  BY DEF DueFires
<1>2. (f.doc.fired_once \/ f.doc.trigger.type = "once") \in BOOLEAN
  OBVIOUS
<1>3. /\ f.doc.fire_count + 1 \in Nat /\ f.for \in Nat \cup {Never}
      /\ DOMAIN f.doc = {"id", "gen", "enabled", "trigger", "fire", "fired_once",
                         "fire_count", "last_fired", "last_error", "created_at"}
  BY <1>1 DEF Docs
<1> QED
  BY <1>1, <1>2, <1>3 DEF Marked, Docs

(* Two documents that differ at most in the error that was noted.            *)
Same(d, e) ==
    /\ d.gen = e.gen /\ d.id = e.id /\ d.trigger = e.trigger /\ d.fire = e.fire
    /\ d.fired_once = e.fired_once /\ d.last_fired = e.last_fired /\ d.fire_count = e.fire_count

-----------------------------------------------------------------------------
(* What a step of one scan changes.                                         *)

(* Only the scan that takes the step gets other documents and marks.         *)
LEMMA ScanMoves ==
    ASSUME TypeOK, ScansKnown, inst' = inst, NEW s \in inst.scans, NEW x, ScanOK(x),
           scan' = [scan EXCEPT ![s] = x]
    PROVE  /\ scan'[s] = x /\ \A t \in inst.scans : t # s => scan'[t] = scan[t]
           /\ ScansKnown' /\ \A t \in inst'.scans : ScanOK(scan'[t])
           /\ Held' \subseteq Held \cup HeldBy(x)
           /\ Exposed' \subseteq Exposed \cup ExposedBy(x)
<1>1. scan'[s] = x /\ \A t \in inst.scans : t # s => scan'[t] = scan[t]
  BY DEF ScansKnown
<1>2. ScansKnown' /\ \A t \in inst'.scans : ScanOK(scan'[t])
  BY <1>1 DEF TypeOK, ScansKnown
<1>3. \A t \in inst.scans : HeldBy(scan'[t]) \subseteq Held \cup HeldBy(x)
  BY <1>1 DEF Held
<1>4. Held' \subseteq Held \cup HeldBy(x)
  <2>1. Held' = UNION {HeldBy(scan'[t]) : t \in inst'.scans}
    BY DEF Held, HeldBy
  <2> QED
    BY <1>3, <2>1
<1>5. \A t \in inst.scans : ExposedBy(scan[t])' = IF t = s THEN ExposedBy(x) ELSE ExposedBy(scan[t])
  BY <1>1 DEF ExposedBy
<1>6. Exposed' \subseteq Exposed \cup ExposedBy(x)
  BY <1>5 DEF Exposed
<1> QED
  BY <1>1, <1>2, <1>4, <1>6

(* With one scan at a time the others are idle, and hold nothing.            *)
LEMMA OthersAreIdle ==
    ASSUME OneScan, inst.serial, NEW s \in inst.scans, scan[s] # Idle
    PROVE  /\ \A t \in inst.scans : t # s => scan[t] = Idle
           /\ \A t \in inst.scans : t # s =>
                 HeldBy(scan[t]) = {} /\ ExposedBy(scan[t]) = {} /\ SpentBy(scan[t]) = {}
<1>1. \A t \in inst.scans : t # s => scan[t] = Idle
  BY DEF OneScan
<1>2. HeldBy(Idle) = {} /\ ExposedBy(Idle) = {} /\ SpentBy(Idle) = {}
  BY DEF HeldBy, ExposedBy, SpentBy, Idle
<1> QED
  BY <1>1, <1>2

(* A number that no new document bears stays that of one request.            *)
LEMMA RequestsStayApart ==
    ASSUME OneRequest, sets \in Nat, sets' \in Nat, sets <= sets', Stubs' \subseteq Stubs,
           \A h \in Handlers : set'[h].pc = "put" => set'[h] = set[h]
    PROVE  OneRequest'
<1>1. \A x \in Stubs' : x \in Stubs /\ x.gen \in 1 .. sets'
  BY DEF OneRequest
<1>2. \A h \in Handlers : set'[h].pc = "put" => set[h].pc = "put" /\ set'[h] = set[h]
  OBVIOUS
<1> QED
  BY <1>1, <1>2 DEF OneRequest

(* Nothing is dispatched and no mark is undone by a step that writes and     *)
(* reads documents as they are.                                              *)
LEMMA NothingFired ==
    ASSUME FiringInv, inst' = inst, fired' = fired,
           \A s \in inst.scans : scan'[s].pc = "dispatch" => scan'[s] = scan[s],
           \A d \in Known' : \E e \in Known : Same(d, e)
    PROVE  MarksKept' /\ NoRepeats' /\ FiresCounted'
<1> USE DEF FiringInv
<1>1. \A s \in inst.scans : SpentBy(scan'[s]) \subseteq SpentBy(scan[s])
  BY DEF SpentBy
<1>2. Spent' \subseteq Spent
  <2>1. AboutToFire' = UNION {SpentBy(scan'[s]) : s \in inst'.scans}
    BY DEF AboutToFire, SpentBy
  <2>2. AboutToFire' \subseteq AboutToFire
    BY <1>1, <2>1 DEF AboutToFire
  <2>3. Dispatched' = Dispatched
    BY DEF Dispatched, SpentIn
  <2> QED
    BY <2>2, <2>3 DEF Spent
<1>3. MarksKept'
  <2>1. (inst.serial \/ EventsOnly)' = (inst.serial \/ EventsOnly)
    BY DEF EventsOnly
  <2> SUFFICES ASSUME inst.serial \/ EventsOnly, NEW p \in Spent', NEW d \in Known', p.gen = d.gen
               PROVE  /\ p.type = "once" => d.fired_once
                      /\ inst'.serial => d.last_fired # Never /\ p.for <= d.last_fired
    BY <2>1 DEF MarksKept
  <2>2. PICK e \in Known : Same(d, e)
    OBVIOUS
  <2> QED
    BY <1>2, <2>2 DEF MarksKept, Same
<1>4. NoRepeats'
  <2>1. OccurrenceFiresOnce' = OccurrenceFiresOnce
    BY DEF OccurrenceFiresOnce
  <2> QED
    BY <2>1 DEF NoRepeats
<1>5. FiresCounted'
  <2> SUFFICES ASSUME inst.serial, NEW d \in Known'
               PROVE  /\ Cardinality(FiresOf(d.gen))' <= d.fire_count
                      /\ Reserved(d.gen)' => Cardinality(FiresOf(d.gen))' + 1 <= d.fire_count
    BY DEF FiresCounted
  <2>1. PICK e \in Known : Same(d, e)
    OBVIOUS
  <2>2. FiresOf(d.gen)' = FiresOf(e.gen)
    BY <2>1 DEF FiresOf, Same
  <2>3. Reserved(d.gen)' => Reserved(e.gen)
    <3>1. Reserved(d.gen)' = \E s \in inst'.scans : \E p \in SpentBy(scan'[s]) : p.gen = d.gen
      BY DEF Reserved, SpentBy
    <3> QED
      BY <1>1, <2>1, <3>1 DEF Reserved, Same
  <2> QED
    BY <2>1, <2>2, <2>3 DEF FiresCounted, Same
<1> QED
  BY <1>3, <1>4, <1>5

-----------------------------------------------------------------------------
(* Steps of a scan that dispatch nothing.                                   *)

(* A step of scan s to x that reads and writes documents as they are.        *)
LEMMA CalmStep ==
    ASSUME FiringInv, NEW s \in inst.scans, NEW x, ScanOK(x), DueIsDue(x), x.pc # "dispatch",
           scan' = [scan EXCEPT ![s] = x],
           UNCHANGED <<inst, clock, nextId, set, sets, fired, crashes, lost>>,
           db' \in [Ids -> Docs \cup {NoDoc}], \A i \in Ids : db'[i] # NoDoc => db'[i].id = i,
           \A d \in Stored' \cup HeldBy(x) : \E e \in Stored \cup Held : Same(d, e),
           \A d \in Stored' \cup ExposedBy(x) : \E e \in Known : Same(d, e),
           inst.serial => \A t \in inst.scans : t # s => scan[t] = Idle,
           x.pc \in {"failed", "error"} => ~EventsOnly
    PROVE  FiringInv'
<1> USE DEF FiringInv
<1>1. /\ scan'[s] = x /\ \A t \in inst.scans : t # s => scan'[t] = scan[t]
      /\ ScansKnown' /\ \A t \in inst'.scans : ScanOK(scan'[t])
      /\ Held' \subseteq Held \cup HeldBy(x)
      /\ Exposed' \subseteq Exposed \cup ExposedBy(x)
  BY ScanMoves
<1>2. TypeOK'
  BY <1>1 DEF TypeOK, Present
<1>3. HandlersKnown' /\ fired' \in Seq(Firings)
  BY DEF HandlersKnown
<1>4. \A d \in Stored' \cup Held' : \E e \in Stored \cup Held : Same(d, e)
  BY <1>1 DEF Same
<1>5. Stubs' \subseteq Stubs
  <2>1. \A d \in Stored' \cup Held' : Stub(d) \in {Stub(e) : e \in Stored \cup Held}
    BY <1>4 DEF Same, Stub
  <2>2. Stubs' = {Stub(d) : d \in Stored' \cup Held'} \cup {FiredStub(fired[k]) : k \in 1 .. Len(fired)}
    BY DEF Stubs, Stub, FiredStub
  <2> QED
    BY <2>1, <2>2 DEF Stubs
<1>6. OneRequest'
  BY <1>2, <1>5, RequestsStayApart DEF TypeOK
<1>7. ScansAreDue'
  BY <1>1 DEF ScansAreDue, DueIsDue
<1>8. OneScan'
  BY <1>1 DEF OneScan
<1>9. NoErrors'
  <2> SUFFICES ASSUME EventsOnly
               PROVE  /\ \A d \in Stored' \cup Held' : d.fire = "event"
                      /\ \A h \in Handlers : set'[h].pc = "put" => set'[h].doc.fire = "event"
                      /\ \A t \in inst'.scans : scan'[t].pc \notin {"failed", "error"}
    BY DEF NoErrors, EventsOnly
  <2>1. \A d \in Stored' \cup Held' : d.fire = "event"
    BY <1>4 DEF NoErrors, Same
  <2> QED
    BY <1>1, <2>1 DEF NoErrors
<1>10. \A d \in Known' : \E e \in Known : Same(d, e)
  BY <1>1 DEF Known, Same
<1>11. MarksKept' /\ NoRepeats' /\ FiresCounted'
  <2>1. \A t \in inst.scans : scan'[t].pc = "dispatch" => scan'[t] = scan[t]
    BY <1>1
  <2> HIDE DEF FiringInv
  <2> QED
    BY <1>10, <2>1, NothingFired
<1> QED
  BY <1>1, <1>2, <1>3, <1>6, <1>7, <1>8, <1>9, <1>11

(* What is left of a scan's fires after one of them.                         *)
LEMMA RestOfScan ==
    ASSUME TypeOK, NEW s \in inst.scans, NEW due \in SUBSET DueFires, scan[s].now \in Nat,
           \A f \in due : Pending(f.doc) /\ f.for = NextFire(f.doc),
           \A f, g \in due : f.doc.id = g.doc.id => f = g
    PROVE  /\ ScanOK(NextOf(s, due)) /\ DueIsDue(NextOf(s, due))
           /\ NextOf(s, due).pc \in {"idle", "mark"}
           /\ HeldBy(NextOf(s, due)) = DocsOf(due)
           /\ ExposedBy(NextOf(s, due)) = IF inst.serial THEN DocsOf(due) ELSE {}
<1>1. CASE due = {}
  BY <1>1 DEF NextOf, Idle, ScanOK, DueIsDue, HeldBy, ExposedBy, DocsOf
<1>2. CASE due # {}
  <2>1. PICK x : x = [pc |-> "mark", now |-> scan[s].now, due |-> due]
    OBVIOUS
  <2>2. x.pc = "mark" /\ x.due = due /\ x.now \in Nat /\ NextOf(s, due) = x
    BY <1>2, <2>1 DEF NextOf
  <2>3. ScanOK(x)
    BY <1>2, <2>2 DEF ScanOK
  <2>4. DueIsDue(x)
    BY <2>2 DEF DueIsDue
  <2> QED
    BY <2>2, <2>3, <2>4 DEF HeldBy, ExposedBy
<1> QED
  BY <1>1, <1>2

(* A scan that lists the keys.                                               *)
LEMMA ScanKeysKeeps ==
    ASSUME FiringInv, NEW s \in inst.scans, ScanKeys(s)
    PROVE  FiringInv'
<1> USE DEF FiringInv
<1>1. PICK x : x = [pc |-> "docs", now |-> clock, keys |-> Present]
  OBVIOUS
<1>2. ScanOK(x) /\ DueIsDue(x) /\ x.pc = "docs"
  BY <1>1 DEF ScanOK, DueIsDue, TypeOK, Present
<1>3. HeldBy(x) = {} /\ ExposedBy(x) = {}
  BY <1>2 DEF HeldBy, ExposedBy
<1>4. /\ scan' = [scan EXCEPT ![s] = x]
      /\ UNCHANGED <<inst, clock, db, nextId, set, sets, fired, crashes, lost>>
      /\ inst.serial => \A t \in inst.scans : scan[t] = Idle
  BY <1>1 DEF ScanKeys
<1>5. Stored' = Stored
  BY <1>4 DEF Stored, Present
<1>6. /\ db' \in [Ids -> Docs \cup {NoDoc}] /\ \A i \in Ids : db'[i] # NoDoc => db'[i].id = i
  BY <1>4 DEF TypeOK, Present
<1>7. /\ \A d \in Stored' \cup HeldBy(x) : \E e \in Stored \cup Held : Same(d, e)
      /\ \A d \in Stored' \cup ExposedBy(x) : \E e \in Known : Same(d, e)
  BY <1>3, <1>5 DEF Same, Known
<1> HIDE DEF FiringInv
<1> QED
  BY <1>2, <1>4, <1>6, <1>7, CalmStep

(* A step of a scan that does not touch the database.                        *)
LEMMA ScanReads ==
    ASSUME FiringInv, NEW s \in inst.scans, NEW x, ScanOK(x), DueIsDue(x), x.pc # "dispatch",
           scan[s] # Idle, scan' = [scan EXCEPT ![s] = x],
           UNCHANGED <<inst, clock, db, nextId, set, sets, fired, crashes, lost>>,
           \A d \in HeldBy(x) : \E e \in Stored \cup Held : Same(d, e),
           \A d \in ExposedBy(x) : \E e \in Known : Same(d, e),
           x.pc \in {"failed", "error"} => ~EventsOnly
    PROVE  FiringInv'
<1>1. Stored' = Stored
  BY DEF Stored, Present
<1>2. /\ db' \in [Ids -> Docs \cup {NoDoc}] /\ \A i \in Ids : db'[i] # NoDoc => db'[i].id = i
  BY DEF FiringInv, TypeOK, Present
<1>3. /\ \A d \in Stored' \cup HeldBy(x) : \E e \in Stored \cup Held : Same(d, e)
      /\ \A d \in Stored' \cup ExposedBy(x) : \E e \in Known : Same(d, e)
  BY <1>1 DEF Same, Known
<1>4. inst.serial => \A t \in inst.scans : t # s => scan[t] = Idle
  BY OthersAreIdle DEF FiringInv
<1> QED
  BY <1>2, <1>3, <1>4, CalmStep

(* A scan that has read its documents keeps those that are due.              *)
LEMMA ScanDocsKeeps ==
    ASSUME FiringInv, NEW s \in inst.scans, ScanDocs(s) \/ ScanFails(s)
    PROVE  FiringInv'
<1> USE DEF FiringInv
<1>1. scan[s].pc = "docs" /\ scan[s] # Idle
  BY DEF ScanDocs, ScanFails, Idle
<1>2. scan[s].now \in Nat /\ scan[s].keys \subseteq Ids
  BY <1>1 DEF TypeOK, ScanOK, Idle
<1>3. UNCHANGED <<inst, clock, db, nextId, set, sets, fired, crashes, lost>>
  BY DEF ScanDocs, ScanFails
<1>4. CASE ScanFails(s)
  <2>1. ScanOK(Idle) /\ DueIsDue(Idle) /\ Idle.pc = "idle" /\ HeldBy(Idle) = {} /\ ExposedBy(Idle) = {}
    BY DEF ScanOK, DueIsDue, Idle, HeldBy, ExposedBy
  <2>2. scan' = [scan EXCEPT ![s] = Idle]
    BY <1>4 DEF ScanFails
  <2> HIDE DEF FiringInv
  <2> QED
    BY <1>1, <1>3, <2>1, <2>2, ScanReads
<1>5. CASE ScanDocs(s)
  <2> DEFINE docs == {db[i] : i \in scan[s].keys \cap Present}
             due == DueSchedules(docs, scan[s].now)
             x == NextOf(s, due)
  <2>1. docs \subseteq Stored /\ docs \subseteq Docs /\ \A d, e \in docs : d.id = e.id => d = e
    BY DEF Stored, TypeOK, Present
  <2>2. \A f \in due : f.doc \in docs /\ Pending(f.doc) /\ f.for = NextFire(f.doc)
                       /\ f = [doc |-> f.doc, for |-> NextFire(f.doc)]
    BY DEF DueSchedules
  <2>3. due \subseteq DueFires
    <3> SUFFICES ASSUME NEW f \in due PROVE f \in DueFires
      OBVIOUS
    <3>1. f.doc \in Docs /\ NextFire(f.doc) \in Nat
      BY <2>1, <2>2, NextFireIsLater
    <3> QED
      BY <2>2, <3>1 DEF DueFires
  <2>4. \A f, g \in due : f.doc.id = g.doc.id => f = g
    BY <2>1, <2>2
  <2>5. DocsOf(due) \subseteq Stored
    BY <2>1, <2>2 DEF DocsOf
  <2> HIDE DEF docs, due
  <2>6. /\ ScanOK(x) /\ DueIsDue(x) /\ x.pc \in {"idle", "mark"}
        /\ HeldBy(x) \subseteq Stored /\ ExposedBy(x) \subseteq Stored
    BY <1>2, <2>2, <2>3, <2>4, <2>5, RestOfScan
  <2>7. scan' = [scan EXCEPT ![s] = x]
    BY <1>5 DEF ScanDocs, docs, due
  <2>8. /\ \A d \in HeldBy(x) : \E e \in Stored \cup Held : Same(d, e)
        /\ \A d \in ExposedBy(x) : \E e \in Known : Same(d, e)
    BY <2>6 DEF Same, Known
  <2> HIDE DEF FiringInv, x
  <2> QED
    BY <1>1, <1>3, <2>6, <2>7, <2>8, ScanReads
<1> QED
  BY <1>4, <1>5

(* The note of a failed action: the document is read again, and written back *)
(* as it was read.                                                           *)
LEMMA ErrorReadKeeps ==
    ASSUME FiringInv, NEW s \in inst.scans, ErrorRead(s)
    PROVE  FiringInv'
<1> USE DEF FiringInv
<1> DEFINE id == scan[s].id
           due == scan[s].due
<1>1. scan[s].pc = "failed" /\ scan[s] # Idle /\ ~EventsOnly
  BY DEF ErrorRead, Idle, NoErrors
<1>2. id \in Ids /\ due \in SUBSET DueFires /\ scan[s].now \in Nat
  BY <1>1 DEF TypeOK, ScanOK, Idle
<1>3. /\ \A f \in due : Pending(f.doc) /\ f.for = NextFire(f.doc)
      /\ \A f, g \in due : f.doc.id = g.doc.id => f = g
      /\ \A f \in due : f.doc.id # id
  BY <1>1 DEF ScansAreDue, DueIsDue
<1>4. DocsOf(due) \subseteq Held /\ (inst.serial => DocsOf(due) \subseteq Known)
  BY <1>1 DEF Held, HeldBy, Known, Exposed, ExposedBy
<1>5. UNCHANGED <<inst, clock, db, nextId, set, sets, fired, crashes, lost>>
  BY DEF ErrorRead
<1>6. CASE db[id] = NoDoc
  <2> DEFINE x == NextOf(s, due)
  <2>1. scan' = [scan EXCEPT ![s] = x]
    BY <1>6 DEF ErrorRead
  <2> HIDE DEF id, due
  <2>2. /\ ScanOK(x) /\ DueIsDue(x) /\ x.pc \in {"idle", "mark"} /\ HeldBy(x) = DocsOf(due)
        /\ ExposedBy(x) = IF inst.serial THEN DocsOf(due) ELSE {}
    BY <1>2, <1>3, RestOfScan
  <2>3. /\ \A d \in HeldBy(x) : \E e \in Stored \cup Held : Same(d, e)
        /\ \A d \in ExposedBy(x) : \E e \in Known : Same(d, e)
    BY <1>4, <2>2 DEF Same
  <2> HIDE DEF FiringInv, x
  <2> QED
    BY <1>1, <1>5, <2>1, <2>2, <2>3, ScanReads
<1>7. CASE db[id] # NoDoc
  <2>1. db[id] \in Docs /\ db[id].id = id /\ db[id] \in Stored
    BY <1>2, <1>7 DEF TypeOK, Present, Stored
  <2>2. PICK d \in Docs : d = [db[id] EXCEPT !.last_error = TRUE] /\ Same(d, db[id])
    <3>1. PICK e \in Docs : e = db[id]
      BY <2>1
    <3>2. [e EXCEPT !.last_error = TRUE] \in Docs /\ Same([e EXCEPT !.last_error = TRUE], e)
      BY DEF Docs, Same
    <3> QED
      BY <3>1, <3>2
  <2>3. PICK x : x = [pc |-> "error", now |-> scan[s].now, due |-> due, doc |-> d]
    OBVIOUS
  <2>4. scan' = [scan EXCEPT ![s] = x]
    BY <1>7, <2>2, <2>3 DEF ErrorRead
  <2> HIDE DEF id, due
  <2>5. x.pc = "error" /\ x.due = due /\ x.doc = d /\ x.now \in Nat
    BY <1>2, <2>3
  <2>6. ScanOK(x)
    BY <1>2, <2>5 DEF ScanOK
  <2>7. d.id = id
    BY <2>1, <2>2 DEF Same
  <2>8. DueIsDue(x)
    BY <1>3, <2>5, <2>7 DEF DueIsDue
  <2>9. HeldBy(x) = DocsOf(due) \cup {d} /\ ExposedBy(x) = {d} \cup (IF inst.serial THEN DocsOf(due) ELSE {})
    BY <2>5 DEF HeldBy, ExposedBy
  <2>10. /\ \A e \in HeldBy(x) : \E g \in Stored \cup Held : Same(e, g)
         /\ \A e \in ExposedBy(x) : \E g \in Known : Same(e, g)
    <3>1. \A e : Same(e, e)
      BY DEF Same
    <3>2. Stored \subseteq Known
      BY DEF Known
    <3> QED
      BY <1>4, <2>1, <2>2, <2>9, <3>1, <3>2
  <2> HIDE DEF FiringInv
  <2> QED
    BY <1>1, <1>5, <2>4, <2>5, <2>6, <2>8, <2>10, ScanReads
<1> QED
  BY <1>6, <1>7

(* What a write can do to the stored documents.                              *)
LEMMA WriteStores ==
    ASSUME TypeOK, NEW d \in Docs, Write(d)
    PROVE  /\ d.id \in Ids /\ d # NoDoc
           /\ db' \in [Ids -> Docs \cup {NoDoc}]
           /\ \A i \in Ids : db'[i] # NoDoc => db'[i].id = i
           /\ db' = db \/ (db'[d.id] = d /\ \A i \in Ids : i # d.id => db'[i] = db[i])
           /\ Stored' \subseteq Stored \cup {d}
<1>1. d.id \in Ids /\ d # NoDoc
  BY SchedulerAssumption DEF Docs
<1>2. /\ db' \in [Ids -> Docs \cup {NoDoc}]
      /\ db' = db \/ (db'[d.id] = d /\ \A i \in Ids : i # d.id => db'[i] = db[i])
  BY <1>1 DEF Write, TypeOK
<1>3. \A i \in Ids : db'[i] # NoDoc => db'[i].id = i
  BY <1>1, <1>2 DEF TypeOK, Present
<1>4. Stored' \subseteq Stored \cup {d}
  BY <1>2 DEF Stored, Present
<1> QED
  BY <1>1, <1>2, <1>3, <1>4

LEMMA ErrorWriteKeeps ==
    ASSUME FiringInv, NEW s \in inst.scans, ErrorWrite(s)
    PROVE  FiringInv'
<1> USE DEF FiringInv
<1> DEFINE d == scan[s].doc
           due == scan[s].due
           x == NextOf(s, due)
<1>1. scan[s].pc = "error" /\ scan[s] # Idle
  BY DEF ErrorWrite, Idle
<1>2. d \in Docs /\ due \in SUBSET DueFires /\ scan[s].now \in Nat
  BY <1>1 DEF TypeOK, ScanOK, Idle
<1>3. /\ \A f \in due : Pending(f.doc) /\ f.for = NextFire(f.doc)
      /\ \A f, g \in due : f.doc.id = g.doc.id => f = g
  BY <1>1 DEF ScansAreDue, DueIsDue
<1>4. /\ DocsOf(due) \subseteq Held /\ d \in Held /\ d \in Known
      /\ inst.serial => DocsOf(due) \subseteq Known
  BY <1>1 DEF Held, HeldBy, Known, Exposed, ExposedBy
<1>5. /\ UNCHANGED <<inst, clock, nextId, set, sets, fired, crashes, lost>>
      /\ scan' = [scan EXCEPT ![s] = x]
      /\ Write(d)
  BY DEF ErrorWrite
<1> HIDE DEF d, due
<1>6. /\ ScanOK(x) /\ DueIsDue(x) /\ x.pc \in {"idle", "mark"} /\ HeldBy(x) = DocsOf(due)
      /\ ExposedBy(x) = IF inst.serial THEN DocsOf(due) ELSE {}
  BY <1>2, <1>3, RestOfScan
<1>7. /\ db' \in [Ids -> Docs \cup {NoDoc}] /\ \A i \in Ids : db'[i] # NoDoc => db'[i].id = i
      /\ Stored' \subseteq Stored \cup {d}
  BY <1>2, <1>5, WriteStores
<1>8. /\ \A e \in Stored' \cup HeldBy(x) : \E g \in Stored \cup Held : Same(e, g)
      /\ \A e \in Stored' \cup ExposedBy(x) : \E g \in Known : Same(e, g)
  <2>1. \A e : Same(e, e)
    BY DEF Same
  <2>2. Stored \subseteq Known
    BY DEF Known
  <2> QED
    BY <1>4, <1>6, <1>7, <2>1, <2>2
<1>9. inst.serial => \A t \in inst.scans : t # s => scan[t] = Idle
  BY <1>1, OthersAreIdle
<1> HIDE DEF FiringInv, x
<1> QED
  BY <1>5, <1>6, <1>7, <1>8, <1>9, CalmStep

-----------------------------------------------------------------------------
(* Marks and dispatches.                                                    *)

(* A mark belongs to a request that a document or a dispatch tells of.       *)
LEMMA SpentAreStubs ==
    ASSUME FiringInv, NEW p \in Spent
    PROVE  p.for \in Nat /\ \E x \in Stubs : x.gen = p.gen /\ x.type = p.type
<1>1. CASE p \in AboutToFire
  <2>1. PICK s \in inst.scans : p \in SpentBy(scan[s])
    BY <1>1 DEF AboutToFire
  <2>2. /\ scan[s].pc = "dispatch"
        /\ p = [gen |-> scan[s].fire.doc.gen, type |-> scan[s].fire.doc.trigger.type,
                for |-> scan[s].fire.for]
    BY <2>1 DEF SpentBy
  <2>3. scan[s].fire.doc \in Held
    BY <2>2 DEF Held, HeldBy
  <2>4. Stub(scan[s].fire.doc) \in Stubs
    BY <2>3 DEF Stubs
  <2> QED
    BY <2>2, <2>4 DEF Stub, FiringInv, TypeOK, ScanOK, DueFires, Idle
<1>2. CASE p \in Dispatched
  <2>1. PICK k \in 1 .. Len(fired) : p \in SpentIn(fired[k])
    BY <1>2 DEF Dispatched
  <2>2. FiredStub(fired[k]) \in Stubs
    BY DEF Stubs
  <2>3. fired[k] \in Firings
    BY LenProperties DEF FiringInv
  <2> QED
    BY <2>1, <2>2, <2>3 DEF SpentIn, FiredStub, Firings
<1> QED
  BY <1>1, <1>2 DEF Spent

(* A dispatch whose mark was stored is a mark.                               *)
LEMMA StoredFireIsSpent ==
    ASSUME NEW k \in 1 .. Len(fired), fired[k].stored
    PROVE  \E p \in Spent : p.gen = fired[k].gen /\ p.for = fired[k].for
                            /\ p.type = (IF fired[k].once THEN "once" ELSE "cron")
<1>1. PICK q : q = [gen |-> fired[k].gen, type |-> IF fired[k].once THEN "once" ELSE "cron",
                   for |-> fired[k].for]
  OBVIOUS
<1>2. q \in SpentIn(fired[k])
  BY <1>1 DEF SpentIn
<1>3. q \in Spent
  BY <1>2 DEF Spent, Dispatched
<1>4. q.gen = fired[k].gen /\ q.for = fired[k].for /\ q.type = (IF fired[k].once THEN "once" ELSE "cron")
  BY <1>1
<1> QED
  BY <1>3, <1>4

(* The counts are counts.                                                    *)
LEMMA FiresAreCounted ==
    ASSUME fired \in Seq(Firings), NEW g
    PROVE  IsFiniteSet(FiresOf(g)) /\ Cardinality(FiresOf(g)) \in Nat
<1>1. Len(fired) \in Nat
  BY LenProperties
<1>2. IsFiniteSet(1 .. Len(fired))
  BY <1>1, FS_Interval
<1>3. FiresOf(g) \in SUBSET (1 .. Len(fired))
  BY DEF FiresOf
<1> QED
  BY <1>2, <1>3, FS_Subset, FS_CardinalityType

(* A mark is written before the fire it marks.  What is known of the marked  *)
(* request is then the marked document, or nothing was stored.               *)
LEMMA MarkFiredKeeps ==
    ASSUME FiringInv, NEW s \in inst.scans, MarkFired(s)
    PROVE  FiringInv'
<1> USE DEF FiringInv
<1> DEFINE due == scan[s].due
<1>1. scan[s].pc = "mark" /\ scan[s] # Idle
  BY DEF MarkFired, Idle
<1>2. due \in SUBSET DueFires /\ scan[s].now \in Nat
  BY <1>1 DEF TypeOK, ScanOK, Idle
<1>3. PICK f \in due :
         /\ Write(Marked(f))
         /\ scan' = [scan EXCEPT ![s] =
                [pc |-> "dispatch", now |-> scan[s].now, due |-> due \ {f},
                 fire |-> [doc |-> Marked(f), for |-> f.for],
                 stored |-> db'[f.doc.id] = Marked(f)]]
  BY DEF MarkFired
<1>4. UNCHANGED <<inst, clock, nextId, set, sets, fired, crashes, lost>>
  BY DEF MarkFired
<1>5. f \in DueFires
  BY <1>2
<1>6. PICK m \in Docs : m = Marked(f)
  BY <1>5, MarkedDoc
<1>7. /\ f.doc \in Docs /\ f.for \in Nat /\ m.id = f.doc.id /\ m.gen = f.doc.gen
      /\ m.trigger = f.doc.trigger /\ m.fire = f.doc.fire /\ m.last_fired = f.for
      /\ m.fire_count = f.doc.fire_count + 1
      /\ f.doc.trigger.type = "once" => m.fired_once
  BY <1>5, <1>6, MarkedDoc
<1>8. PICK st \in BOOLEAN : st <=> db'[m.id] = m
  OBVIOUS
<1>9. PICK x : x = [pc |-> "dispatch", now |-> scan[s].now, due |-> due \ {f},
                   fire |-> [doc |-> m, for |-> f.for], stored |-> st]
  OBVIOUS
<1>10. scan' = [scan EXCEPT ![s] = x]
  <2>1. st = (db'[f.doc.id] = Marked(f))
    BY <1>6, <1>7, <1>8
  <2> QED
    BY <1>3, <1>6, <1>9, <2>1
<1>11. /\ x.pc = "dispatch" /\ x.now \in Nat /\ x.due = due \ {f} /\ x.stored = st
       /\ x.fire = [doc |-> m, for |-> f.for] /\ x.fire.doc = m /\ x.fire.for = f.for
  BY <1>2, <1>9
<1>12. /\ \A g \in due : Pending(g.doc) /\ g.for = NextFire(g.doc)
       /\ \A g, k \in due : g.doc.id = k.doc.id => g = k
  BY <1>1 DEF ScansAreDue, DueIsDue
<1>13. DocsOf(due) \subseteq Held /\ f.doc \in DocsOf(due) /\ (inst.serial => DocsOf(due) \subseteq Known)
  BY <1>1 DEF Held, HeldBy, Known, Exposed, ExposedBy, DocsOf
<1> HIDE DEF due
<1>14. ScanOK(x)
  <2>1. x.fire \in DueFires
    BY <1>7, <1>11 DEF DueFires
  <2> QED
    BY <1>2, <1>11, <2>1 DEF ScanOK
<1>15. DueIsDue(x)
  <2>1. \A g \in x.due : g.doc.id # x.fire.doc.id
    BY <1>7, <1>11, <1>12
  <2> QED
    BY <1>11, <1>12, <2>1 DEF DueIsDue
<1>16. /\ scan'[s] = x /\ \A t \in inst.scans : t # s => scan'[t] = scan[t]
       /\ ScansKnown' /\ \A t \in inst'.scans : ScanOK(scan'[t])
       /\ Held' \subseteq Held \cup HeldBy(x)
       /\ Exposed' \subseteq Exposed \cup ExposedBy(x)
  BY <1>4, <1>10, <1>14, ScanMoves
<1>17. /\ m.id \in Ids /\ m # NoDoc
       /\ db' \in [Ids -> Docs \cup {NoDoc}]
       /\ \A i \in Ids : db'[i] # NoDoc => db'[i].id = i
       /\ db' = db \/ (db'[m.id] = m /\ \A i \in Ids : i # m.id => db'[i] = db[i])
       /\ Stored' \subseteq Stored \cup {m}
  BY <1>3, <1>6, WriteStores
<1>18. TypeOK' /\ HandlersKnown' /\ fired' \in Seq(Firings)
  BY <1>4, <1>16, <1>17 DEF TypeOK, Present, HandlersKnown
<1>19. HeldBy(x) \subseteq DocsOf(due) \cup {m} /\ ExposedBy(x) \subseteq (IF inst.serial THEN DocsOf(due) ELSE {})
  BY <1>11 DEF HeldBy, ExposedBy, DocsOf
<1>20. Stored' \cup Held' \subseteq Stored \cup Held \cup {m}
  BY <1>13, <1>16, <1>17, <1>19
<1>21. Stub(m) = Stub(f.doc) /\ Stub(f.doc) \in Stubs
  BY <1>7, <1>13 DEF Stub, Stubs
<1>22. Stubs' \subseteq Stubs
  <2>1. Stubs' = {Stub(d) : d \in Stored' \cup Held'} \cup {FiredStub(fired[k]) : k \in 1 .. Len(fired)}
    BY <1>4 DEF Stubs, Stub, FiredStub
  <2>2. \A d \in Stored' \cup Held' : Stub(d) \in Stubs
    BY <1>20, <1>21 DEF Stubs
  <2> QED
    BY <2>1, <2>2 DEF Stubs
<1>23. OneRequest'
  <2>1. sets \in Nat /\ sets' = sets
    BY <1>4 DEF TypeOK
  <2> QED
    BY <1>4, <1>22, <2>1, RequestsStayApart
<1>24. ScansAreDue' /\ OneScan'
  BY <1>1, <1>4, <1>15, <1>16 DEF ScansAreDue, DueIsDue, OneScan
<1>25. NoErrors'
  <2> SUFFICES ASSUME EventsOnly
               PROVE  /\ \A d \in Stored' \cup Held' : d.fire = "event"
                      /\ \A h \in Handlers : set'[h].pc = "put" => set'[h].doc.fire = "event"
                      /\ \A t \in inst'.scans : scan'[t].pc \notin {"failed", "error"}
    BY <1>4 DEF NoErrors, EventsOnly
  <2>1. \A d \in Stored' \cup Held' : d.fire = "event"
    BY <1>7, <1>13, <1>20 DEF NoErrors
  <2> QED
    BY <1>4, <1>11, <1>16, <2>1 DEF NoErrors
<1>26. inst.serial => /\ \A t \in inst.scans : t # s => scan[t] = Idle
                      /\ \A t \in inst.scans : t # s => ExposedBy(scan[t]) = {} /\ SpentBy(scan[t]) = {}
  BY <1>1, OthersAreIdle
\* With one scan at a time, whatever is marked already is an earlier occurrence.
<1>27. ASSUME NEW p \in Spent, p.gen = f.doc.gen
       PROVE  /\ p.type = f.doc.trigger.type
              /\ inst.serial => p.for < f.for
  <2>1. p.type = f.doc.trigger.type
    <3>1. PICK y \in Stubs : y.gen = p.gen /\ y.type = p.type
      BY SpentAreStubs
    <3>2. y = Stub(f.doc)
      BY <1>21, <1>27, <3>1 DEF OneRequest, Stub
    <3> QED
      BY <3>1, <3>2 DEF Stub
  <2>2. ASSUME inst.serial PROVE p.for < f.for
    <3>1. /\ p.type = "once" => f.doc.fired_once
          /\ f.doc.last_fired # Never /\ p.for <= f.doc.last_fired
      BY <1>13, <1>27, <2>2 DEF MarksKept
    <3>2. f.doc.trigger.type # "once"
      BY <1>12, <2>1, <3>1 DEF Pending
    <3>3. f.for > f.doc.last_fired
      BY <1>7, <1>12, <3>1, <3>2, NextFireIsLater
    <3>4. f.doc.last_fired \in Nat
      BY <1>7, <3>1 DEF Docs
    <3>5. p.for \in Nat
      BY SpentAreStubs
    <3> QED
      BY <1>7, <3>1, <3>3, <3>4, <3>5
  <2> QED
    BY <2>1, <2>2
<1>28. \A d \in Known' : d \in Known \/ d = m
  BY <1>13, <1>16, <1>17, <1>19 DEF Known
<1>29. ASSUME inst.serial \/ EventsOnly, st, NEW d \in Known', d.gen = f.doc.gen
       PROVE  d = m
  <2>1. CASE d \in Stored'
    <3>1. Stub(d) \in Stubs
      <4>1. Stub(d) \in Stubs'
        BY <2>1 DEF Stubs, Stub
      <4> QED
        BY <1>22, <4>1
    <3>2. d.id = m.id
      BY <1>7, <1>21, <1>29, <3>1 DEF OneRequest, Stub
    <3>3. PICK i \in Ids : d = db'[i] /\ db'[i] # NoDoc
      BY <2>1 DEF Stored, Present
    <3>4. d = db'[m.id]
      BY <1>17, <3>2, <3>3
    <3> QED
      BY <1>8, <1>29, <3>4
  <2>2. CASE d \in Exposed' /\ inst.serial
    <3>1. Exposed' \subseteq ExposedBy(x)
      <4>1. \A t \in inst.scans : t # s => ExposedBy(scan[t])' = {}
        BY <1>4, <1>16, <1>26, <2>2 DEF ExposedBy
      <4>2. ExposedBy(scan[s])' = ExposedBy(x)
        BY <1>4, <1>16 DEF ExposedBy
      <4> QED
        BY <1>4, <4>1, <4>2 DEF Exposed
    <3>2. PICK g \in due \ {f} : d = g.doc
      BY <1>11, <2>2, <3>1 DEF ExposedBy, DocsOf
    <3>3. Stub(g.doc) \in Stubs
      BY <1>13 DEF Stubs, DocsOf
    <3>4. g.doc.id = f.doc.id
      BY <1>21, <1>29, <3>2, <3>3 DEF OneRequest, Stub
    <3> QED
      BY <1>12, <3>2, <3>4
  <2>3. CASE d \in Exposed' /\ ~inst.serial
    <3>1. \A t \in inst'.scans : scan'[t].pc \notin {"failed", "error"}
      BY <1>4, <1>25, <1>29, <2>3 DEF NoErrors, EventsOnly
    <3> QED
      BY <1>4, <2>3, <3>1 DEF Exposed, ExposedBy
  <2> QED
    BY <2>1, <2>2, <2>3 DEF Known
<1>30. \A p \in Spent' : p \in Spent \/ (st /\ p.gen = f.doc.gen /\ p.type = f.doc.trigger.type
                                             /\ p.for = f.for)
  <2>1. \A t \in inst.scans : SpentBy(scan'[t]) \subseteq AboutToFire \cup SpentBy(x)
    BY <1>16 DEF AboutToFire
  <2>2. AboutToFire' = UNION {SpentBy(scan'[t]) : t \in inst'.scans} /\ Dispatched' = Dispatched
    BY <1>4 DEF AboutToFire, SpentBy, Dispatched, SpentIn
  <2>3. \A p \in SpentBy(x) : st /\ p.gen = f.doc.gen /\ p.type = f.doc.trigger.type /\ p.for = f.for
    BY <1>7, <1>11 DEF SpentBy
  <2> QED
    BY <1>4, <2>1, <2>2, <2>3 DEF Spent
<1>31. MarksKept'
  <2> SUFFICES ASSUME inst.serial \/ EventsOnly, NEW p \in Spent', NEW d \in Known', p.gen = d.gen
               PROVE  /\ p.type = "once" => d.fired_once
                      /\ inst.serial => d.last_fired # Never /\ p.for <= d.last_fired
    BY <1>4 DEF MarksKept, EventsOnly
  <2>1. f.for # Never
    BY <1>7, SchedulerAssumption
  <2>2. CASE p \in Spent /\ d \in Known
    BY <2>2 DEF MarksKept
  <2>3. CASE p \in Spent /\ d = m
    <3>1. p.for \in Nat
      BY <2>3, SpentAreStubs
    <3> QED
      BY <1>7, <1>27, <2>1, <2>3, <3>1
  <2>4. CASE p \notin Spent
    <3>1. st /\ p.gen = f.doc.gen /\ p.type = f.doc.trigger.type /\ p.for = f.for
      BY <1>30, <2>4
    <3>2. d = m
      BY <1>29, <3>1
    <3> QED
      BY <1>7, <2>1, <3>1, <3>2
  <2> QED
    BY <1>28, <2>2, <2>3, <2>4
<1>32. NoRepeats'
  <2> SUFFICES ASSUME inst.serial
               PROVE  /\ OccurrenceFiresOnce'
                      /\ \A t \in inst.scans, k \in 1 .. Len(fired) :
                            scan'[t].pc = "dispatch" /\ fired[k].stored
                              /\ fired[k].gen = scan'[t].fire.doc.gen
                              => fired[k].for # scan'[t].fire.for
    BY <1>4 DEF NoRepeats
  <2>1. OccurrenceFiresOnce'
    BY <1>4 DEF NoRepeats, OccurrenceFiresOnce
  <2>2. ASSUME NEW k \in 1 .. Len(fired), fired[k].stored, fired[k].gen = f.doc.gen
        PROVE  fired[k].for # f.for
    <3>1. PICK p \in Spent : p.gen = fired[k].gen /\ p.for = fired[k].for
      BY <2>2, StoredFireIsSpent
    <3>2. p.for \in Nat /\ p.for < f.for
      BY <1>27, <2>2, <3>1, SpentAreStubs
    <3> QED
      BY <1>7, <3>1, <3>2
  <2>3. \A t \in inst.scans : scan'[t].pc = "dispatch" => t = s
    BY <1>16, <1>26 DEF Idle
  <2> QED
    BY <1>7, <1>11, <1>16, <2>1, <2>2, <2>3
<1>33. FiresCounted'
  <2> SUFFICES ASSUME inst.serial, NEW d \in Known'
               PROVE  /\ Cardinality(FiresOf(d.gen))' <= d.fire_count
                      /\ Reserved(d.gen)' => Cardinality(FiresOf(d.gen))' + 1 <= d.fire_count
    BY <1>4 DEF FiresCounted
  <2>1. FiresOf(d.gen)' = FiresOf(d.gen) /\ Cardinality(FiresOf(d.gen)) \in Nat
    BY <1>4, FiresAreCounted DEF FiresOf
  <2>2. Reserved(d.gen)' => st /\ d.gen = f.doc.gen
    <3>1. Reserved(d.gen)' = \E t \in inst'.scans : \E p \in SpentBy(scan'[t]) : p.gen = d.gen
      BY DEF Reserved, SpentBy
    <3>2. \A t \in inst.scans : t # s => SpentBy(scan'[t]) = {}
      BY <1>16, <1>26
    <3>3. \A p \in SpentBy(x) : st /\ p.gen = f.doc.gen
      BY <1>7, <1>11 DEF SpentBy
    <3>4. ASSUME NEW t \in inst.scans, NEW p \in SpentBy(scan'[t]), p.gen = d.gen
          PROVE  st /\ d.gen = f.doc.gen
      <4>1. t = s
        BY <3>2, <3>4
      <4>2. p \in SpentBy(x)
        BY <1>16, <3>4, <4>1
      <4> QED
        BY <3>3, <3>4, <4>2
    <3> QED
      BY <1>4, <3>1, <3>4
  <2>3. CASE d = m
    <3>1. Cardinality(FiresOf(f.doc.gen)) <= f.doc.fire_count
      BY <1>13 DEF FiresCounted
    <3>2. f.doc.fire_count \in Nat
      BY <1>7 DEF Docs
    <3> QED
      BY <1>7, <2>1, <2>3, <3>1, <3>2
  <2>4. CASE d # m
    <3>1. d \in Known /\ ~Reserved(d.gen)'
      BY <1>28, <1>29, <2>2, <2>4
    <3> QED
      BY <2>1, <3>1 DEF FiresCounted
  <2> QED
    BY <2>3, <2>4
<1> QED
  BY <1>16, <1>18, <1>23, <1>24, <1>25, <1>31, <1>32, <1>33
(* A dispatch is of a marked document, and there it is the mark that it was. *)
LEMMA DispatchKeeps ==
    ASSUME FiringInv, NEW s \in inst.scans, Dispatch(s)
    PROVE  FiringInv'
<1> USE DEF FiringInv
<1> DEFINE n == Len(fired)
<1>1. scan[s].pc = "dispatch" /\ scan[s] # Idle
  BY DEF Dispatch, Idle
<1>2. PICK due \in SUBSET DueFires : due = scan[s].due
  BY <1>1 DEF TypeOK, ScanOK, Idle
<1>3. PICK f \in DueFires : f = scan[s].fire
  BY <1>1 DEF TypeOK, ScanOK, Idle
<1>4. PICK st \in BOOLEAN : st = scan[s].stored
  BY <1>1 DEF TypeOK, ScanOK, Idle
<1>5. scan[s].now \in Nat
  BY <1>1 DEF TypeOK, ScanOK, Idle
<1>6. f.doc \in Docs /\ f.for \in Nat /\ f.doc.trigger.type \in {"once", "cron"}
      /\ f.doc.id \in Ids /\ f.doc.gen \in Nat
  <2>1. f.doc \in Docs /\ f.for \in Nat
    BY DEF DueFires
  <2> QED
    BY <2>1, NextFireIsLater DEF Docs
<1>7. PICK e \in Firings :
         /\ e = [id |-> f.doc.id, gen |-> f.doc.gen, once |-> f.doc.trigger.type = "once",
                 for |-> f.for, now |-> scan[s].now, stored |-> st]
         /\ e.gen = f.doc.gen /\ e.id = f.doc.id /\ e.for = f.for /\ e.stored = st
         /\ e.once = (f.doc.trigger.type = "once")
  <2>1. PICK b \in BOOLEAN : b = (f.doc.trigger.type = "once")
    OBVIOUS
  <2>2. PICK g : g = [id |-> f.doc.id, gen |-> f.doc.gen, once |-> b,
                     for |-> f.for, now |-> scan[s].now, stored |-> st]
    OBVIOUS
  <2>3. g \in Firings
    BY <1>5, <1>6, <2>2 DEF Firings
  <2>4. /\ g.gen = f.doc.gen /\ g.id = f.doc.id /\ g.for = f.for /\ g.stored = st
        /\ g.once = b
    BY <2>2
  <2> QED
    BY <2>1, <2>2, <2>3, <2>4
<1>8. fired' = Append(fired, e)
  BY <1>3, <1>4, <1>7 DEF Dispatch
<1>9. /\ n \in Nat /\ Len(fired') = n + 1 /\ fired' \in Seq(Firings)
      /\ fired'[n + 1] = e /\ \A k \in 1 .. n : fired'[k] = fired[k]
  BY <1>8, LenProperties, AppendProperties
<1>10. UNCHANGED <<inst, clock, db, nextId, set, sets, crashes, lost>>
  BY DEF Dispatch
<1>11. /\ \A g \in due : Pending(g.doc) /\ g.for = NextFire(g.doc)
       /\ \A g, k \in due : g.doc.id = k.doc.id => g = k
       /\ \A g \in due : g.doc.id # f.doc.id
  BY <1>1, <1>2, <1>3 DEF ScansAreDue, DueIsDue
<1>12. /\ DocsOf(due) \subseteq Held /\ f.doc \in Held
       /\ inst.serial => DocsOf(due) \subseteq Known
  BY <1>1, <1>2, <1>3 DEF Held, HeldBy, Known, Exposed, ExposedBy
<1>13. PICK x : /\ scan' = [scan EXCEPT ![s] = x] /\ ScanOK(x) /\ DueIsDue(x)
                /\ x.pc \in {"idle", "mark", "failed"} /\ HeldBy(x) = DocsOf(due)
                /\ ExposedBy(x) \subseteq (IF inst.serial THEN DocsOf(due) ELSE {})
                /\ x.pc = "failed" => ~EventsOnly
  <2>1. CASE scan' = [scan EXCEPT ![s] = NextOf(s, scan[s].due)]
    <3>1. PICK y : y = NextOf(s, due)
      OBVIOUS
    <3>2. /\ ScanOK(y) /\ DueIsDue(y) /\ y.pc \in {"idle", "mark"} /\ HeldBy(y) = DocsOf(due)
          /\ ExposedBy(y) = IF inst.serial THEN DocsOf(due) ELSE {}
      BY <1>5, <1>11, <3>1, RestOfScan
    <3> QED
      BY <1>2, <2>1, <3>1, <3>2
  <2>2. CASE f.doc.fire = "action" /\ scan' = [scan EXCEPT ![s] =
               [pc |-> "failed", now |-> scan[s].now, due |-> due, id |-> f.doc.id]]
    <3>1. PICK y : y = [pc |-> "failed", now |-> scan[s].now, due |-> due, id |-> f.doc.id]
      OBVIOUS
    <3>2. y.pc = "failed" /\ y.now \in Nat /\ y.due = due /\ y.id = f.doc.id
      BY <1>5, <3>1
    <3>3. ScanOK(y)
      BY <1>6, <3>2 DEF ScanOK
    <3>4. DueIsDue(y)
      BY <1>11, <3>2 DEF DueIsDue
    <3>5. HeldBy(y) = DocsOf(due) /\ ExposedBy(y) \subseteq (IF inst.serial THEN DocsOf(due) ELSE {})
      BY <3>2 DEF HeldBy, ExposedBy
    <3>6. ~EventsOnly
      BY <1>12, <2>2 DEF NoErrors
    <3> QED
      BY <2>2, <3>1, <3>2, <3>3, <3>4, <3>5, <3>6
  <2> QED
    BY <1>2, <1>3, <2>1, <2>2 DEF Dispatch
<1>14. /\ scan'[s] = x /\ \A t \in inst.scans : t # s => scan'[t] = scan[t]
       /\ ScansKnown' /\ \A t \in inst'.scans : ScanOK(scan'[t])
       /\ Held' \subseteq Held \cup HeldBy(x)
       /\ Exposed' \subseteq Exposed \cup ExposedBy(x)
  BY <1>10, <1>13, ScanMoves
<1>15. TypeOK' /\ HandlersKnown'
  BY <1>10, <1>14 DEF TypeOK, Present, HandlersKnown
<1>16. Stored' = Stored /\ Held' \subseteq Held /\ Known' \subseteq Known
  <2>1. Stored' = Stored
    BY <1>10 DEF Stored, Present
  <2> QED
    BY <1>12, <1>13, <1>14, <2>1 DEF Known
<1>17. Stubs' \subseteq Stubs
  <2>1. Stubs' = {Stub(d) : d \in Stored' \cup Held'} \cup {FiredStub(fired'[k]) : k \in 1 .. Len(fired')}
    BY DEF Stubs, Stub, FiredStub
  <2>2. FiredStub(e) = Stub(f.doc) /\ Stub(f.doc) \in Stubs
    BY <1>6, <1>7, <1>12 DEF Stub, FiredStub, Stubs
  <2>3. \A k \in 1 .. n : FiredStub(fired'[k]) \in Stubs
    BY <1>9 DEF Stubs
  <2>4. \A k \in 1 .. Len(fired') : FiredStub(fired'[k]) \in Stubs
    BY <1>9, <2>2, <2>3
  <2> QED
    BY <1>16, <2>1, <2>4 DEF Stubs
<1>18. OneRequest'
  <2>1. sets \in Nat /\ sets' = sets
    BY <1>10 DEF TypeOK
  <2> QED
    BY <1>10, <1>17, <2>1, RequestsStayApart
<1>19. ScansAreDue' /\ OneScan'
  BY <1>1, <1>10, <1>13, <1>14 DEF ScansAreDue, DueIsDue, OneScan
<1>20. NoErrors'
  <2> SUFFICES ASSUME EventsOnly
               PROVE  /\ \A d \in Stored' \cup Held' : d.fire = "event"
                      /\ \A h \in Handlers : set'[h].pc = "put" => set'[h].doc.fire = "event"
                      /\ \A t \in inst'.scans : scan'[t].pc \notin {"failed", "error"}
    BY <1>10 DEF NoErrors, EventsOnly
  <2>1. \A d \in Stored' \cup Held' : d.fire = "event"
    BY <1>16 DEF NoErrors
  <2> QED
    BY <1>10, <1>13, <1>14, <2>1 DEF NoErrors
<1>21. \A t \in inst.scans : t # s => SpentBy(scan'[t]) = SpentBy(scan[t])
  BY <1>14
<1>22. SpentBy(x) = {} /\ SpentBy(scan[s]) = SpentIn(e)
  BY <1>1, <1>3, <1>4, <1>6, <1>7, <1>13 DEF SpentBy, SpentIn
<1>23. Spent' \subseteq Spent
  <2>1. AboutToFire' = UNION {SpentBy(scan'[t]) : t \in inst'.scans}
    BY DEF AboutToFire, SpentBy
  <2>2. AboutToFire' \subseteq AboutToFire
    BY <1>10, <1>14, <1>21, <1>22, <2>1 DEF AboutToFire
  <2>3. Dispatched' = UNION {SpentIn(fired'[k]) : k \in 1 .. Len(fired')}
    BY DEF Dispatched, SpentIn
  <2>4. SpentIn(e) \subseteq AboutToFire
    BY <1>22 DEF AboutToFire
  <2>5. \A k \in 1 .. n : SpentIn(fired'[k]) \subseteq Dispatched
    BY <1>9 DEF Dispatched
  <2>6. \A k \in 1 .. Len(fired') : SpentIn(fired'[k]) \subseteq Spent
    BY <1>9, <2>4, <2>5 DEF Spent
  <2> QED
    BY <2>2, <2>3, <2>6 DEF Spent
<1>24. MarksKept'
  BY <1>10, <1>16, <1>23 DEF MarksKept, EventsOnly
<1>25. inst.serial => \A t \in inst.scans : scan'[t].pc # "dispatch"
  BY <1>1, <1>13, <1>14, OthersAreIdle DEF Idle
<1>26. NoRepeats'
  <2> SUFFICES ASSUME inst.serial PROVE OccurrenceFiresOnce'
    BY <1>10, <1>25 DEF NoRepeats
  <2> SUFFICES ASSUME NEW j \in 1 .. (n + 1), NEW k \in 1 .. (n + 1), j < k,
                      fired'[j].gen = fired'[k].gen, fired'[j].for = fired'[k].for
               PROVE  ~fired'[j].stored
    BY <1>9 DEF OccurrenceFiresOnce
  <2>1. j \in 1 .. n /\ fired'[j] = fired[j]
    BY <1>9
  <2>2. CASE k \in 1 .. n
    BY <1>9, <2>1, <2>2 DEF NoRepeats, OccurrenceFiresOnce
  <2>3. CASE k = n + 1
    <3>1. fired'[k].gen = f.doc.gen /\ fired'[k].for = f.for
      BY <1>7, <1>9, <2>3
    <3> QED
      BY <1>1, <1>3, <2>1, <3>1 DEF NoRepeats
  <2> QED
    BY <1>9, <2>2, <2>3
<1>27. FiresCounted'
  <2> SUFFICES ASSUME inst.serial, NEW d \in Known'
               PROVE  /\ Cardinality(FiresOf(d.gen))' <= d.fire_count
                      /\ Reserved(d.gen)' => Cardinality(FiresOf(d.gen))' + 1 <= d.fire_count
    BY <1>10 DEF FiresCounted
  <2>1. ~Reserved(d.gen)'
    <3>1. Reserved(d.gen)' = \E t \in inst'.scans : \E p \in SpentBy(scan'[t]) : p.gen = d.gen
      BY DEF Reserved, SpentBy
    <3>2. \A t \in inst.scans : SpentBy(scan'[t]) = {}
      BY <1>25 DEF SpentBy
    <3> QED
      BY <1>10, <3>1, <3>2
  <2>2. IsFiniteSet(FiresOf(d.gen)) /\ Cardinality(FiresOf(d.gen)) \in Nat
    BY FiresAreCounted
  <2>3. d \in Known /\ Cardinality(FiresOf(d.gen)) <= d.fire_count
    BY <1>16 DEF FiresCounted
  <2>4. FiresOf(d.gen)' = {k \in 1 .. (n + 1) : fired'[k].gen = d.gen /\ fired'[k].stored}
    BY <1>9 DEF FiresOf
  <2>5. CASE st /\ f.doc.gen = d.gen
    <3>1. FiresOf(d.gen)' = FiresOf(d.gen) \cup {n + 1}
      BY <1>7, <1>9, <2>4, <2>5 DEF FiresOf
    <3>2. n + 1 \notin FiresOf(d.gen)
      BY <1>9 DEF FiresOf
    <3>3. Cardinality(FiresOf(d.gen) \cup {n + 1}) = Cardinality(FiresOf(d.gen)) + 1
      BY <2>2, <3>2, FS_AddElement
    <3>4. Reserved(d.gen)
      BY <1>1, <1>3, <1>4, <2>5 DEF Reserved, SpentBy
    <3>5. Cardinality(FiresOf(d.gen)) + 1 <= d.fire_count
      BY <2>3, <3>4 DEF FiresCounted
    <3>6. Cardinality(FiresOf(d.gen))' = Cardinality(FiresOf(d.gen)) + 1
      BY <3>1, <3>3
    <3> QED
      BY <2>1, <3>5, <3>6
  <2>6. CASE ~(st /\ f.doc.gen = d.gen)
    <3>1. FiresOf(d.gen)' = FiresOf(d.gen)
      BY <1>7, <1>9, <2>4, <2>6 DEF FiresOf
    <3> QED
      BY <2>1, <2>3, <3>1
  <2> QED
    BY <2>5, <2>6
<1> QED
  BY <1>9, <1>14, <1>15, <1>18, <1>19, <1>20, <1>24, <1>26, <1>27
-----------------------------------------------------------------------------
(* Requests, time and crashes.                                              *)

(* The documents, the fires and the handlers that there are stay, or go.     *)
LEMMA NothingNew ==
    ASSUME FiringInv, inst' = inst, fired' = fired, sets' = sets, HandlersKnown', ScansKnown',
           Stored' \subseteq Stored, TypeOK',
           \A s \in inst.scans : scan'[s] = scan[s] \/ scan'[s] = Idle,
           \A h \in Handlers : set'[h] = set[h] \/ set'[h] = Idle
    PROVE  FiringInv'
<1> USE DEF FiringInv
<1>1. /\ HeldBy(Idle) = {} /\ ExposedBy(Idle) = {} /\ Idle.pc = "idle" /\ DueIsDue(Idle)
  BY DEF HeldBy, ExposedBy, Idle, DueIsDue
<1>2. Held' \subseteq Held
  <2>1. Held' = UNION {HeldBy(scan'[t]) : t \in inst'.scans}
    BY DEF Held, HeldBy
  <2>2. \A t \in inst.scans : HeldBy(scan'[t]) \subseteq HeldBy(scan[t])
    BY <1>1
  <2> QED
    BY <2>1, <2>2 DEF Held
<1>3. Exposed' \subseteq Exposed
  <2>1. Exposed' = UNION {ExposedBy(scan[t])' : t \in inst'.scans}
    BY DEF Exposed
  <2>2. \A t \in inst.scans : ExposedBy(scan[t])' \subseteq ExposedBy(scan[t])
    BY <1>1 DEF ExposedBy
  <2> QED
    BY <2>1, <2>2 DEF Exposed
<1>4. Stubs' \subseteq Stubs
  <2>1. Stubs' = {Stub(d) : d \in Stored' \cup Held'} \cup {FiredStub(fired[k]) : k \in 1 .. Len(fired)}
    BY DEF Stubs, Stub, FiredStub
  <2> QED
    BY <1>2, <2>1 DEF Stubs
<1>5. OneRequest'
  <2>1. sets \in Nat
    BY DEF TypeOK
  <2>2. \A h \in Handlers : set'[h].pc = "put" => set'[h] = set[h]
    BY <1>1
  <2> QED
    BY <1>4, <2>1, <2>2, RequestsStayApart
<1>6. ScansAreDue' /\ OneScan'
  <2>1. \A s \in inst.scans : DueIsDue(scan'[s])
    BY <1>1 DEF ScansAreDue
  <2>2. ScansAreDue'
    BY <2>1 DEF ScansAreDue, DueIsDue
  <2> QED
    BY <2>2 DEF OneScan
<1>7. NoErrors'
  <2> SUFFICES ASSUME EventsOnly
               PROVE  /\ \A d \in Stored' \cup Held' : d.fire = "event"
                      /\ \A h \in Handlers : set'[h].pc = "put" => set'[h].doc.fire = "event"
                      /\ \A t \in inst'.scans : scan'[t].pc \notin {"failed", "error"}
    BY DEF NoErrors, EventsOnly
  <2> QED
    BY <1>1, <1>2 DEF NoErrors
<1>8. MarksKept' /\ NoRepeats' /\ FiresCounted'
  <2>1. \A s \in inst.scans : scan'[s].pc = "dispatch" => scan'[s] = scan[s]
    BY <1>1
  <2>2. \A d \in Known' : \E e \in Known : Same(d, e)
    BY <1>3 DEF Known, Same
  <2> HIDE DEF FiringInv
  <2> QED
    BY <2>1, <2>2, NothingFired
<1> QED
  BY <1>5, <1>6, <1>7, <1>8

(* A document is built from a request under a number of its own.             *)
LEMMA BuiltDoc ==
    ASSUME TypeOK, NEW r \in inst.requests, NEW id \in Ids, NEW created \in Nat
    PROVE  /\ BuildDoc(id, NewSchedule(r), created) \in Docs
           /\ BuildDoc(id, NewSchedule(r), created).gen = sets + 1
           /\ BuildDoc(id, NewSchedule(r), created).fire = r.fire
<1>1. r \in Requests /\ sets \in Nat /\ clock \in Nat
  BY SchedulerAssumption DEF TypeOK
<1>2. PICK t \in Triggers : t = ParseTrigger(r.trigger)
  <2>1. CASE r.trigger.type = "delay"
    <3>1. r.trigger.delay \in Nat
      BY <1>1, <2>1 DEF Requests, Triggers
    <3>2. PICK n \in Nat : n = clock + r.trigger.delay
      BY <1>1, <3>1
    <3>3. [type |-> "once", at |-> n] \in Triggers
      BY DEF Triggers
    <3>4. ParseTrigger(r.trigger) = [type |-> "once", at |-> n]
      BY <2>1, <3>2 DEF ParseTrigger
    <3> QED
      BY <3>3, <3>4
  <2>2. CASE r.trigger.type # "delay"
    BY <1>1, <2>2 DEF ParseTrigger, Requests
  <2> QED
    BY <2>1, <2>2
<1>3. r.enabled \in BOOLEAN /\ r.fire \in {"event", "action"}
  BY <1>1 DEF Requests
<1>4. NewSchedule(r).enabled = r.enabled /\ NewSchedule(r).fire = r.fire /\ NewSchedule(r).trigger = t
  BY <1>1, <1>2 DEF NewSchedule, Requests
<1>5. Never \in Nat \cup {Never} /\ sets + 1 \in Nat
  BY <1>1
<1> QED
  BY <1>1, <1>3, <1>4, <1>5 DEF BuildDoc, Docs

LEMMA SetBeginKeeps ==
    ASSUME FiringInv, NEW h \in Handlers, NEW r \in inst.requests, SetBegin(h, r)
    PROVE  FiringInv'
<1> USE DEF FiringInv
<1>1. /\ UNCHANGED <<inst, clock, db, scan, fired, crashes, lost>>
      /\ sets \in Nat /\ sets' = sets + 1 /\ sets' \in 0 .. inst.maxSets
  BY SchedulerAssumption DEF SetBegin, TypeOK
<1>2. PICK d \in Docs : /\ set' = [set EXCEPT ![h] = [pc |-> "put", doc |-> d]]
                        /\ d.gen = sets + 1 /\ d.fire = r.fire /\ nextId' \in Nat
  <2>1. PICK given \in BOOLEAN : given = (r.id # Generate)
    OBVIOUS
  <2>2. PICK id \in Ids : /\ id = IF given THEN r.id ELSE nextId + 1
                          /\ nextId' = IF given THEN nextId ELSE id
    BY <2>1 DEF SetBegin
  <2>3. PICK created : created = IF given /\ db[id] # NoDoc THEN db[id].created_at ELSE clock
    OBVIOUS
  <2>4. created \in Nat
    BY <2>2, <2>3 DEF TypeOK, Docs
  <2>5. set' = [set EXCEPT ![h] = [pc |-> "put", doc |-> BuildDoc(id, NewSchedule(r), created)]]
    BY <2>1, <2>2, <2>3 DEF SetBegin
  <2>6. nextId' \in Nat
    BY <2>2, SchedulerAssumption DEF TypeOK
  <2> QED
    BY <2>4, <2>5, <2>6, BuiltDoc
<1>3. /\ set'[h].pc = "put" /\ set'[h].doc = d /\ \A g \in Handlers : g # h => set'[g] = set[g]
      /\ HandlersKnown'
  BY <1>2 DEF HandlersKnown
<1>4. \A g \in Handlers : HandlerOK(set'[g])
  BY <1>3 DEF TypeOK, HandlerOK
<1>5. TypeOK' /\ ScansKnown' /\ fired' \in Seq(Firings)
  BY <1>1, <1>2, <1>4 DEF TypeOK, Present, ScansKnown
<1>6. Stored' = Stored /\ Held' = Held /\ Exposed' = Exposed /\ Stubs' = Stubs
  BY <1>1 DEF Stored, Present, Held, HeldBy, Exposed, ExposedBy, Stubs, Stub, FiredStub
<1>7. OneRequest'
  <2>1. \A x \in Stubs' : x.gen \in 1 .. sets /\ x.gen # sets + 1 /\ x.gen \in 1 .. sets'
    BY <1>1, <1>6 DEF OneRequest
  <2>2. \A x, y \in Stubs' : x.gen = y.gen => x = y
    BY <1>6 DEF OneRequest
  <2>3. \A g \in Handlers : set'[g].pc = "put" /\ g # h =>
           set[g].pc = "put" /\ set'[g].doc = set[g].doc
           /\ set'[g].doc.gen \in 1 .. sets /\ set'[g].doc.gen # sets + 1
    BY <1>1, <1>3 DEF OneRequest
  <2>4. set'[h].doc.gen = sets + 1 /\ sets + 1 \in 1 .. sets'
    BY <1>1, <1>2, <1>3
  <2>5. ASSUME NEW g \in Handlers, set'[g].pc = "put"
        PROVE  /\ set'[g].doc.gen \in 1 .. sets'
               /\ \A x \in Stubs' : x.gen # set'[g].doc.gen
               /\ \A k \in Handlers : set'[k].pc = "put" /\ set'[k].doc.gen = set'[g].doc.gen => k = g
    <3>1. CASE g = h
      BY <2>1, <2>3, <2>4, <3>1
    <3>2. CASE g # h
      <4>1. set'[g].doc.gen \in 1 .. sets'
        BY <1>1, <2>3, <2>5, <3>2
      <4> QED
        BY <1>6, <2>3, <2>4, <2>5, <3>2, <4>1 DEF OneRequest
    <3> QED
      BY <3>1, <3>2
  <2> QED
    BY <2>1, <2>2, <2>5 DEF OneRequest
<1>8. ScansAreDue' /\ OneScan'
  BY <1>1 DEF ScansAreDue, DueIsDue, OneScan
<1>9. NoErrors'
  <2> SUFFICES ASSUME EventsOnly
               PROVE  /\ \A e \in Stored' \cup Held' : e.fire = "event"
                      /\ \A g \in Handlers : set'[g].pc = "put" => set'[g].doc.fire = "event"
                      /\ \A t \in inst'.scans : scan'[t].pc \notin {"failed", "error"}
    BY <1>1 DEF NoErrors, EventsOnly
  <2>1. d.fire = "event"
    BY <1>2 DEF EventsOnly
  <2> QED
    BY <1>1, <1>3, <1>6, <2>1 DEF NoErrors
<1>10. MarksKept' /\ NoRepeats' /\ FiresCounted'
  <2>1. \A s \in inst.scans : scan'[s].pc = "dispatch" => scan'[s] = scan[s]
    BY <1>1
  <2>2. \A e \in Known' : \E g \in Known : Same(e, g)
    BY <1>6 DEF Known, Same
  <2> HIDE DEF FiringInv
  <2> QED
    BY <1>1, <2>1, <2>2, NothingFired
<1> QED
  BY <1>3, <1>5, <1>7, <1>8, <1>9, <1>10
(* The document of a request is the first that is seen of it.                *)
LEMMA SetPutKeeps ==
    ASSUME FiringInv, NEW h \in Handlers, SetPut(h)
    PROVE  FiringInv'
<1> USE DEF FiringInv
<1>1. UNCHANGED <<inst, clock, nextId, scan, sets, fired, crashes, lost>>
  BY DEF SetPut
<1>2. set[h].pc = "put" /\ set[h] # Idle
  BY DEF SetPut, Idle
<1>3. PICK d \in Docs : d = set[h].doc /\ Write(d)
  BY <1>2 DEF SetPut, TypeOK, HandlerOK
<1>4. /\ d.id \in Ids /\ d # NoDoc
      /\ db' \in [Ids -> Docs \cup {NoDoc}]
      /\ \A i \in Ids : db'[i] # NoDoc => db'[i].id = i
      /\ Stored' \subseteq Stored \cup {d}
  BY <1>3, WriteStores
<1>5. /\ set'[h] = Idle /\ \A g \in Handlers : g # h => set'[g] = set[g]
      /\ HandlersKnown'
  BY DEF SetPut, HandlersKnown
<1>6. \A g \in Handlers : HandlerOK(set'[g])
  BY <1>5 DEF TypeOK, HandlerOK
<1>7. TypeOK' /\ ScansKnown' /\ fired' \in Seq(Firings)
  BY <1>1, <1>4, <1>6 DEF TypeOK, Present, ScansKnown
<1>8. Held' = Held /\ Exposed' = Exposed /\ Spent' = Spent
  BY <1>1 DEF Held, HeldBy, Exposed, ExposedBy, Spent, AboutToFire, Dispatched, SpentBy, SpentIn
<1>9. Known' \subseteq Known \cup {d}
  BY <1>4, <1>8 DEF Known
<1>10. d.gen \in 1 .. sets /\ d.gen \in Nat /\ \A x \in Stubs : x.gen # d.gen
  BY <1>2, <1>3 DEF OneRequest, Docs
<1>11. \A x \in Stubs' : x \in Stubs \/ x = Stub(d)
  <2>1. Stubs' = {Stub(e) : e \in Stored' \cup Held'} \cup {FiredStub(fired[k]) : k \in 1 .. Len(fired)}
    BY <1>1 DEF Stubs, Stub, FiredStub
  <2> QED
    BY <1>4, <1>8, <2>1 DEF Stubs
<1>12. OneRequest'
  <2>1. Stub(d).gen = d.gen
    BY DEF Stub
  <2>2. \A x \in Stubs' : x.gen \in 1 .. sets'
    BY <1>1, <1>10, <1>11, <2>1 DEF OneRequest
  <2>3. \A x, y \in Stubs' : x.gen = y.gen => x = y
    BY <1>10, <1>11, <2>1 DEF OneRequest
  <2>4. \A g \in Handlers : set'[g].pc = "put" => g # h /\ set'[g] = set[g] /\ set[g].pc = "put"
    BY <1>5 DEF Idle
  <2>5. ASSUME NEW g \in Handlers, set'[g].pc = "put"
        PROVE  /\ set'[g].doc.gen \in 1 .. sets'
               /\ \A x \in Stubs' : x.gen # set'[g].doc.gen
               /\ \A k \in Handlers : set'[k].pc = "put" /\ set'[k].doc.gen = set'[g].doc.gen => k = g
    <3>1. set'[g].doc.gen \in 1 .. sets' /\ \A x \in Stubs : x.gen # set'[g].doc.gen
      BY <1>1, <2>4, <2>5 DEF OneRequest
    <3>2. set'[g].doc.gen # d.gen
      BY <1>2, <1>3, <2>4, <2>5 DEF OneRequest
    <3>3. \A k \in Handlers : set'[k].pc = "put" /\ set'[k].doc.gen = set'[g].doc.gen => k = g
      BY <2>4, <2>5 DEF OneRequest
    <3> QED
      BY <1>11, <2>1, <3>1, <3>2, <3>3
  <2> QED
    BY <2>2, <2>3, <2>5 DEF OneRequest
<1>13. ScansAreDue' /\ OneScan'
  BY <1>1 DEF ScansAreDue, DueIsDue, OneScan
<1>14. NoErrors'
  <2> SUFFICES ASSUME EventsOnly
               PROVE  /\ \A e \in Stored' \cup Held' : e.fire = "event"
                      /\ \A g \in Handlers : set'[g].pc = "put" => set'[g].doc.fire = "event"
                      /\ \A t \in inst'.scans : scan'[t].pc \notin {"failed", "error"}
    BY <1>1 DEF NoErrors, EventsOnly
  <2>1. d.fire = "event"
    BY <1>2, <1>3 DEF NoErrors
  <2>2. Idle.pc # "put"
    BY DEF Idle
  <2> QED
    BY <1>1, <1>4, <1>5, <1>8, <2>1, <2>2 DEF NoErrors
<1>15. \A p \in Spent : p.gen # d.gen
  BY <1>10, SpentAreStubs
<1>16. MarksKept'
  <2> SUFFICES ASSUME inst.serial \/ EventsOnly, NEW p \in Spent', NEW e \in Known', p.gen = e.gen
               PROVE  /\ p.type = "once" => e.fired_once
                      /\ inst.serial => e.last_fired # Never /\ p.for <= e.last_fired
    BY <1>1 DEF MarksKept, EventsOnly
  <2>1. p \in Spent /\ e \in Known
    BY <1>8, <1>9, <1>15
  <2> QED
    BY <2>1 DEF MarksKept
<1>17. NoRepeats'
  <2>1. OccurrenceFiresOnce' = OccurrenceFiresOnce
    BY <1>1 DEF OccurrenceFiresOnce
  <2> QED
    BY <1>1, <2>1 DEF NoRepeats
<1>18. FiresCounted'
  <2> SUFFICES ASSUME inst.serial, NEW e \in Known'
               PROVE  /\ Cardinality(FiresOf(e.gen))' <= e.fire_count
                      /\ Reserved(e.gen)' => Cardinality(FiresOf(e.gen))' + 1 <= e.fire_count
    BY <1>1 DEF FiresCounted
  <2>1. FiresOf(e.gen)' = FiresOf(e.gen)
    BY <1>1 DEF FiresOf
  <2>2. Reserved(e.gen)' = Reserved(e.gen)
    BY <1>1 DEF Reserved, SpentBy
  <2>3. CASE e \in Known
    BY <2>1, <2>2, <2>3 DEF FiresCounted
  <2>4. CASE e = d
    <3>1. FiresOf(d.gen) = {}
      <4> SUFFICES ASSUME NEW k \in FiresOf(d.gen) PROVE FALSE
        OBVIOUS
      <4>1. k \in 1 .. Len(fired) /\ fired[k].gen = d.gen /\ fired[k].stored
        BY DEF FiresOf
      <4>2. PICK p \in Spent : p.gen = fired[k].gen
        BY <4>1, StoredFireIsSpent
      <4> QED
        BY <1>15, <4>1, <4>2
    <3>2. ~Reserved(d.gen)
      BY <1>15 DEF Reserved, Spent, AboutToFire
    <3>3. Cardinality(FiresOf(d.gen)) = 0
      BY <3>1, FS_EmptySet
    <3>4. d.fire_count \in Nat
      BY DEF Docs
    <3> QED
      BY <2>1, <2>2, <2>4, <3>2, <3>3, <3>4
  <2> QED
    BY <1>9, <2>3, <2>4
<1> QED
  BY <1>5, <1>7, <1>12, <1>13, <1>14, <1>16, <1>17, <1>18

LEMMA DeleteKeeps ==
    ASSUME FiringInv, NEW id \in Ids, Delete(id)
    PROVE  FiringInv'
<1>1. /\ UNCHANGED <<inst, clock, nextId, set, scan, sets, fired, crashes, lost>>
      /\ db' = [db EXCEPT ![id] = NoDoc]
  BY DEF Delete
<1>2. /\ db' \in [Ids -> Docs \cup {NoDoc}]
      /\ \A i \in Ids : db'[i] # NoDoc => db[i] # NoDoc /\ db'[i] = db[i]
  BY <1>1 DEF FiringInv, TypeOK
<1>3. TypeOK' /\ HandlersKnown' /\ ScansKnown'
  BY <1>1, <1>2 DEF FiringInv, TypeOK, Present, HandlersKnown, ScansKnown
<1>4. Stored' \subseteq Stored
  BY <1>2 DEF Stored, Present
<1> QED
  BY <1>1, <1>3, <1>4, NothingNew

LEMMA CrashKeeps ==
    ASSUME FiringInv, Crash
    PROVE  FiringInv'
<1>1. /\ UNCHANGED <<inst, clock, db, nextId, sets, fired>>
      /\ crashes' \in 0 .. inst.maxCrashes
      /\ scan' = [s \in inst.scans |-> Idle] /\ set' = [h \in Handlers |-> Idle]
  BY SchedulerAssumption DEF Crash, FiringInv, TypeOK
<1>2. lost' \subseteq 1 .. inst.maxSets
  <2>1. \A s \in inst.scans : scan[s].pc = "dispatch" => scan[s].fire.doc.gen \in 1 .. inst.maxSets
    <3> SUFFICES ASSUME NEW s \in inst.scans, scan[s].pc = "dispatch"
                 PROVE  scan[s].fire.doc.gen \in 1 .. inst.maxSets
      OBVIOUS
    <3>1. scan[s].fire.doc \in Held
      BY DEF Held, HeldBy
    <3>2. Stub(scan[s].fire.doc) \in Stubs /\ Stub(scan[s].fire.doc).gen = scan[s].fire.doc.gen
      BY <3>1 DEF Stubs, Stub
    <3>3. scan[s].fire.doc.gen \in 1 .. sets
      BY <3>2 DEF FiringInv, OneRequest
    <3>4. sets \in Nat /\ inst.maxSets \in Nat /\ sets <= inst.maxSets
      BY SchedulerAssumption DEF FiringInv, TypeOK
    <3> QED
      BY <3>3, <3>4
  <2>2. lost' = lost \cup {scan[s].fire.doc.gen : s \in {t \in inst.scans : scan[t].pc = "dispatch"}}
    BY DEF Crash
  <2>3. lost \subseteq 1 .. inst.maxSets
    BY DEF FiringInv, TypeOK
  <2> QED
    BY <1>1, <2>1, <2>2, <2>3
<1>3. /\ \A s \in inst.scans : ScanOK(scan'[s])
      /\ \A h \in Handlers : HandlerOK(set'[h])
  BY <1>1 DEF ScanOK, HandlerOK
<1>4. TypeOK' /\ HandlersKnown' /\ ScansKnown'
  BY <1>1, <1>2, <1>3 DEF FiringInv, TypeOK, Present, HandlersKnown, ScansKnown
<1>5. Stored' = Stored
  BY <1>1 DEF Stored, Present
<1> QED
  BY <1>1, <1>4, <1>5, NothingNew

LEMMA TickKeeps ==
    ASSUME FiringInv, Tick \/ UNCHANGED vars
    PROVE  FiringInv'
<1>1. /\ UNCHANGED <<inst, db, nextId, set, scan, sets, fired, crashes, lost>>
      /\ clock' \in Nat
  BY DEF Tick, vars, FiringInv, TypeOK
<1>2. TypeOK' /\ HandlersKnown' /\ ScansKnown'
  BY <1>1 DEF FiringInv, TypeOK, Present, HandlersKnown, ScansKnown
<1>3. Stored' = Stored
  BY <1>1 DEF Stored, Present
<1> QED
  BY <1>1, <1>2, <1>3, NothingNew

-----------------------------------------------------------------------------
(* The invariant.                                                           *)

LEMMA FiringInit == Init => FiringInv
<1> SUFFICES ASSUME Init PROVE FiringInv
  OBVIOUS
<1> USE DEF Init
<1>1. \A i \in Ids : db[i] = NoDoc
  OBVIOUS
<1>2. /\ \A h \in Handlers : set[h] = Idle /\ set[h].pc = "idle" /\ HandlerOK(set[h])
      /\ \A s \in inst.scans : scan[s] = Idle /\ scan[s].pc = "idle" /\ ScanOK(scan[s])
  BY DEF Idle, HandlerOK, ScanOK
<1>3. TypeOK
  <2>1. inst.maxSets \in Nat /\ inst.maxCrashes \in Nat
    BY SchedulerAssumption
  <2> QED
    BY <1>1, <1>2, <2>1 DEF TypeOK, Present
<1>4. HandlersKnown /\ ScansKnown
  BY DEF HandlersKnown, ScansKnown
<1>5. fired = <<>> /\ fired \in Seq(Firings) /\ Len(fired) = 0 /\ 1 .. Len(fired) = {}
  BY EmptySeq
<1>6. /\ Stored = {} /\ Held = {} /\ Known = {}
  BY <1>1, <1>2 DEF Stored, Present, Held, HeldBy, Known, Exposed, ExposedBy
<1>7. Stubs = {}
  BY <1>5, <1>6 DEF Stubs
<1>8. OneRequest /\ ScansAreDue /\ OneScan /\ NoErrors
  BY <1>2, <1>6, <1>7 DEF OneRequest, ScansAreDue, DueIsDue, OneScan, NoErrors
<1>9. MarksKept /\ NoRepeats /\ FiresCounted
  BY <1>5, <1>6 DEF MarksKept, NoRepeats, OccurrenceFiresOnce, FiresCounted
<1> QED
  BY <1>3, <1>4, <1>5, <1>8, <1>9 DEF FiringInv

LEMMA FiringStep == FiringInv /\ [Next]_vars => FiringInv'
<1> SUFFICES ASSUME FiringInv, [Next]_vars PROVE FiringInv'
  OBVIOUS
<1>1. ASSUME NEW h \in Handlers, SetPut(h) PROVE FiringInv'
  BY <1>1, SetPutKeeps
<1>2. ASSUME NEW h \in Handlers, NEW r \in inst.requests, SetBegin(h, r) PROVE FiringInv'
  BY <1>2, SetBeginKeeps
<1>3. ASSUME NEW id \in Ids, Delete(id) PROVE FiringInv'
  BY <1>3, DeleteKeeps
<1>4. ASSUME NEW s \in inst.scans, ScanStep(s) PROVE FiringInv'
  <2>1. CASE ScanKeys(s)
    BY <2>1, ScanKeysKeeps
  <2>2. CASE ScanDocs(s) \/ ScanFails(s)
    BY <2>2, ScanDocsKeeps
  <2>3. CASE MarkFired(s)
    BY <2>3, MarkFiredKeeps
  <2>4. CASE Dispatch(s)
    BY <2>4, DispatchKeeps
  <2>5. CASE ErrorRead(s)
    BY <2>5, ErrorReadKeeps
  <2>6. CASE ErrorWrite(s)
    BY <2>6, ErrorWriteKeeps
  <2> QED
    BY <1>4, <2>1, <2>2, <2>3, <2>4, <2>5, <2>6 DEF ScanStep
<1>5. CASE Tick \/ UNCHANGED vars
  BY <1>5, TickKeeps
<1>6. CASE Crash
  BY <1>6, CrashKeeps
<1> QED
  BY <1>1, <1>2, <1>3, <1>4, <1>5, <1>6 DEF Next, SetStep

LEMMA FiringImpliesSchedulerInv == FiringInv => SchedulerInv
<1> SUFFICES ASSUME FiringInv PROVE SchedulerInv
  OBVIOUS
<1> USE DEF FiringInv
<1>1. DispatchedStaysMarked
  <2> SUFFICES ASSUME inst.serial \/ EventsOnly, NEW k \in 1 .. Len(fired),
                      fired[k].once, fired[k].stored, db[fired[k].id] # NoDoc,
                      db[fired[k].id].gen = fired[k].gen
               PROVE  db[fired[k].id].fired_once
    BY DEF DispatchedStaysMarked, EventsOnly
  <2>1. fired[k].id \in Ids
    <3>1. fired[k] \in Firings
      BY LenProperties
    <3> QED
      BY <3>1 DEF Firings
  <2>2. db[fired[k].id] \in Known
    BY <2>1 DEF Known, Stored, Present
  <2>3. PICK p \in Spent : p.gen = fired[k].gen /\ p.type = "once"
    BY StoredFireIsSpent
  <2> QED
    BY <2>2, <2>3 DEF MarksKept
<1>2. FireCountCovers
  <2> SUFFICES ASSUME inst.serial, NEW i \in Present
               PROVE  Cardinality(FiresOf(db[i].gen)) <= db[i].fire_count
    BY DEF FireCountCovers, FiresOf
  <2>1. db[i] \in Known
    BY DEF Known, Stored
  <2> QED
    BY <2>1 DEF FiresCounted
<1>3. OccurrenceFiresOnce
  BY DEF NoRepeats, OccurrenceFiresOnce
<1> QED
  BY <1>1, <1>2, <1>3 DEF SchedulerInv

(* However scans, requests, failed writes and crashes interleave, a one-shot *)
(* that was dispatched with its mark stored stays marked, and with one scan  *)
(* at a time every dispatch is counted and no occurrence is dispatched twice *)
(* (mark_fired, record_last_error, schedule_set).                            *)
THEOREM FiresAreMarked == Spec => []SchedulerInv
<1>1. Spec => []FiringInv
  BY FiringInit, FiringStep, PTL DEF Spec
<1> QED
  BY <1>1, FiringImpliesSchedulerInv, PTL
=============================================================================
