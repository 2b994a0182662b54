-------------------------- MODULE Documents_proofs --------------------------
(***************************************************************************)
(* For every number of handlers, scans, documents, UIDs and files, and for *)
(* each of the five plugins: the stored documents stay sound, no request   *)
(* replaces another's document, reminders are published once, imports make *)
(* no duplicates and library scans are exact.                              *)
(***************************************************************************)
EXTENDS Documents, SequenceTheorems, FiniteSetTheorems, TLAPS

DocsOf(kind) ==
    CASE kind = "notes"    -> NoteDocs
      [] kind = "contacts" -> ContactDocs
      [] kind = "tasks"    -> TaskDocs
      [] kind = "calendar" -> EventDocs
      [] kind = "library"  -> Entries

GoodDocs(kind) == {d \in DocsOf(kind) : SoundDoc(kind, d)}
GoodEvents == GoodDocs("calendar")
Indices == [Uids -> GoodEvents \cup {NoDoc}]

(***************************************************************************)
(* What a handler or scan may be doing.                                    *)
(***************************************************************************)
Puts(kind) == [pc : {"put"}, new : BOOLEAN, doc : GoodDocs(kind)]

ScanLists == [pc : {"docs"}, keys : SUBSET Keys, who : [for : {"scan"}, now : Nat]]
Marks == [pc : {"mark"}, now : Nat, due : (SUBSET GoodEvents) \ {{}}]
Publishes == [pc : {"publish"}, now : Nat, due : SUBSET GoodEvents, event : GoodEvents]
Scans == ScanLists \cup Marks \cup Publishes

ImportLists == [pc : {"docs"}, keys : SUBSET Keys, who : [for : {"import"}, todo : Seq(Occurrences)]]
Importing == [pc : {"import"}, byUid : Indices, todo : Seq(Occurrences) \ {<<>>}, left : Int]
ImportPuts == [pc : {"importput"}, new : BOOLEAN, doc : GoodEvents, byUid : Indices,
               todo : Seq(Occurrences), left : Int]
AllImports == ImportLists \cup Importing \cup ImportPuts

IndexLists == [pc : {"docs"}, keys : SUBSET Keys,
               who : [for : {"index"}, seen : SUBSET Entries, alone : BOOLEAN]]
Indexings == [pc : {"index"}, seen : SUBSET Entries, todo : SUBSET Entries,
              old : SUBSET Entries, alone : BOOLEAN]
Stampings == [pc : {"stamp"}, seen : SUBSET Entries, alone : BOOLEAN]
LibraryScans == IndexLists \cup Indexings \cup Stampings

KnownTask(kind, x) ==
    \/ x = Idle
    \/ kind # "library" /\ x \in Puts(kind)
    \/ kind = "calendar" /\ x \in Scans \cup AllImports
    \/ kind = "library" /\ x \in LibraryScans

StoreOK ==
    /\ inst \in Instances
    /\ clock \in 1 .. inst.maxTime
    /\ db \in [Keys -> GoodDocs(inst.kind) \cup {NoDoc}]
    /\ \A k \in Present : db[k].id = k
    /\ counter \in 0 .. Cardinality(Ids)
    /\ fs \in [Paths -> Nat]
    /\ credit \in [Keys -> Int]
    /\ gone \subseteq Keys

TasksOK ==
    /\ task = [t \in Tasks |-> task[t]]
    /\ \A t \in Tasks : KnownTask(inst.kind, task[t])

ShapeInv == StoreOK /\ TasksOK

(***************************************************************************)
(* Ids.                                                                    *)
(***************************************************************************)
Known(byUid) == {byUid[u] : u \in Uids} \ {NoDoc}

\* The copies of documents that a task may still write.
Copies(x) ==
    CASE x.pc = "put" -> {x.doc}
      [] x.pc = "importput" -> {x.doc} \cup Known(x.byUid)
      [] x.pc = "import" -> Known(x.byUid)
      [] x.pc \in {"mark", "publish"} -> x.due
      [] OTHER -> {}

Creating(x) == x.pc \in {"put", "importput"} /\ x.new

\* A copy whose document was stored, and has its UID still unless it was deleted.
Traced(d) ==
    \/ d.id \in gone
    \/ d.id \in Present /\ (inst.kind = "calendar" => db[d.id].uid = d.uid)

IdsInv ==
    inst.kind # "library" =>
        /\ Present \cup gone \subseteq 1 .. counter
        /\ \A t \in Tasks : \A d \in Copies(task[t]) :
              d.id <= counter /\ ((Creating(task[t]) /\ d = task[t].doc) \/ Traced(d))
        /\ \A t \in Tasks : Creating(task[t]) =>
              /\ task[t].doc.id \notin Present \cup gone
              /\ \A u \in Tasks \ {t} : \A d \in Copies(task[u]) : d.id # task[t].doc.id

(***************************************************************************)
(* Reminders.                                                              *)
(***************************************************************************)
\* What event k has to its credit: it is armed, or marked and not published.
Publishing(x, k) == x.pc = "publish" /\ x.event.id = k

OneEach(due) == \A d, e \in due : d.id = e.id => d = e

\* What a scan u that does x may rely on.
ScanOK(u, x) ==
    /\ x \in Scans => u \in inst.scanners
    /\ x.pc \in {"mark", "publish"} =>
          /\ OneEach(x.due)
          /\ x.pc = "publish" => \A d \in x.due : d.id # x.event.id
          /\ OneScan => \A d \in x.due : credit[d.id] >= 1
    /\ OneScan => \A k \in Keys : Publishing(x, k) => credit[k] >= IF Armed(db[k]) THEN 2 ELSE 1

CreditInv ==
    /\ inst.kind = "calendar" =>
          /\ OneScan => \A k \in Keys : credit[k] >= 0 /\ (Armed(db[k]) => credit[k] >= 1)
          /\ \A t \in Tasks : ScanOK(t, task[t])
    /\ inst.kind # "calendar" => \A k \in Keys : credit[k] >= 0

(***************************************************************************)
(* Imports.                                                                *)
(***************************************************************************)
\* The events that were never deleted, and those of one UID among them.
Lasting == Present \ gone
WithUid(u) == {k \in Lasting : db[k].uid = u}

ImportOK(x) ==
    /\ x.pc = "docs" => \A u \in Uids : WithUid(u) \subseteq x.keys
    /\ x.pc \in {"import", "importput"} =>
          \A u \in Uids :
            /\ WithUid(u) # {} => x.byUid[u] # NoDoc
            /\ x.byUid[u] # NoDoc => x.byUid[u].uid = u
    /\ x.pc = "importput" /\ x.doc.uid # None =>
          /\ x.byUid[x.doc.uid] = x.doc
          /\ x.new => WithUid(x.doc.uid) = {}

\* What a handler u that does x may rely on.
HandlerOK(u, x) ==
    /\ x \in AllImports => u \in inst.handlers /\ ImportOK(x)
    /\ x.pc = "put" /\ x.new => x.doc.uid = None

ImportsInv ==
    inst.kind = "calendar" =>
        /\ \A u \in Uids : \A i, j \in WithUid(u) : i = j
        /\ \A t \in Tasks : HandlerOK(t, task[t])
        /\ \A t, u \in Tasks : task[t] \in AllImports /\ task[u] \in AllImports => t = u

(***************************************************************************)
(* Library scans.                                                          *)
(***************************************************************************)
Alone(x) ==
    \/ x \in IndexLists /\ x.who.alone
    \/ x \in Indexings \cup Stampings /\ x.alone

Indexed(x) == x.seen \ x.todo

ExactSoFar(x) ==
    /\ x.pc = "docs" => x.keys = Present
    /\ x.pc = "index" =>
          /\ OneEach(x.seen) /\ x.todo \subseteq x.seen
          /\ \A e \in Indexed(x) : db[e.id] = e
          /\ \A k \in Present : db[k] \in x.old \cup Indexed(x)
          /\ x.todo # {} => \A o \in x.old : db[o.id] = o \/ \E e \in Indexed(x) : e.id = o.id
    /\ x.pc = "stamp" => {db[k] : k \in Present} = x.seen

WalkOK(x) == x \in IndexLists => OneEach(x.who.seen)

ScansInv ==
    inst.kind = "library" =>
        /\ \A t \in Tasks : WalkOK(task[t])
        /\ \A t \in Tasks : Alone(task[t]) =>
              /\ \A u \in Tasks \ {t} : task[u] = Idle
              /\ ExactSoFar(task[t])

DocsIInv == ShapeInv /\ IdsInv /\ CreditInv /\ ImportsInv /\ ScansInv

-----------------------------------------------------------------------------
(* Documents.                                                               *)

LEMMA InstanceFacts ==
    ASSUME inst \in Instances
    PROVE  /\ inst.kind \in Kinds
           /\ inst.maxTime \in Nat \ {0}
           /\ inst.maxImport \in Nat
           /\ \A r \in inst.requests : RequestOK(inst.kind, r)
           /\ \A ics \in inst.calendars : ics \in Seq(Occurrences)
BY DocumentsAssumption

LEMMA DocFacts ==
    ASSUME NEW kind \in Kinds, NEW d \in GoodDocs(kind)
    PROVE  /\ d # NoDoc
           /\ d.id \in Keys
           /\ kind # "library" => d.id \in Ids
           /\ kind = "library" => d \in Entries
           /\ kind = "calendar" => d \in EventDocs
           /\ SoundDoc(kind, d)
           /\ d \in Docs
BY NoDocAssumption
   DEF GoodDocs, DocsOf, Kinds, Keys, Docs, NoteDocs, ContactDocs, TaskDocs, EventDocs, Entries

LEMMA EntryFacts ==
    ASSUME NEW e \in Entries
    PROVE  e \in GoodDocs("library") /\ e.id \in Paths /\ e # NoDoc
BY NoDocAssumption DEF GoodDocs, DocsOf, SoundDoc, Docs, Entries

(* A new document is of the plugin's kind and sound.                         *)
LEMMA NewIsGood ==
    ASSUME inst \in Instances, NEW r \in inst.requests, r.op = "create", Accepted(r),
           NEW id \in Ids
    PROVE  /\ NewDoc(id, r.new) \in GoodDocs(inst.kind)
           /\ NewDoc(id, r.new).id = id
           /\ inst.kind = "calendar" => NewDoc(id, r.new).uid = None
           /\ inst.kind # "library"
<1>1. RequestOK(inst.kind, r) /\ inst.kind \in Kinds
  BY InstanceFacts
<1>2. NewOK(inst.kind, r.new)
  BY <1>1 DEF RequestOK
<1>3. CASE inst.kind = "notes"
  BY <1>2, <1>3 DEF NewOK, GoodDocs, DocsOf, SoundDoc, NoteDocs, NewDoc, NewNote, Accepted, NotesAccept
<1>4. CASE inst.kind = "contacts"
  BY <1>2, <1>4 DEF NewOK, GoodDocs, DocsOf, SoundDoc, ContactDocs, NewDoc, NewContact, Accepted, ContactsAccept
<1>5. CASE inst.kind = "tasks"
  BY <1>2, <1>5 DEF NewOK, GoodDocs, DocsOf, SoundDoc, TaskDocs, NewDoc, NewTask, Accepted, TasksAccept
<1>6. CASE inst.kind = "calendar"
  <2>1. /\ r.new \in [start : Int, end : Int \cup {None}, remind : Int \cup {None}]
        /\ r.new.start > 0 /\ (r.new.end # None => r.new.end >= r.new.start)
    BY <1>2, <1>6 DEF NewOK, Accepted, CalendarAccept
  <2>2. r.new.start \in Nat /\ r.new.end \in Nat \cup {None}
    BY <2>1
  <2>3. NewDoc(id, r.new) = NewEvent(id, r.new)
    BY <1>6 DEF NewDoc
  <2>4. NewEvent(id, r.new) \in EventDocs
    BY <2>1, <2>2 DEF NewEvent, EventDocs
  <2>5. SoundDoc("calendar", NewEvent(id, r.new))
    BY <2>1 DEF SoundDoc, NewEvent
  <2> QED
    BY <1>6, <2>3, <2>4, <2>5 DEF GoodDocs, DocsOf, NewEvent
<1>7. inst.kind # "library"
  BY <1>2 DEF NewOK
<1> QED
  BY <1>1, <1>3, <1>4, <1>5, <1>6, <1>7 DEF Kinds

(* A patch that is accepted gives a document of the plugin's kind again.     *)
LEMMA PatchedIsGood ==
    ASSUME inst \in Instances, NEW r \in inst.requests, r.op \in {"update", "done"}, Accepted(r),
           NEW d \in GoodDocs(inst.kind), Acceptable(Patched(d, r.patch))
    PROVE  /\ Patched(d, r.patch) \in GoodDocs(inst.kind)
           /\ Patched(d, r.patch).id = d.id
           /\ inst.kind = "calendar" => Patched(d, r.patch).uid = d.uid
           /\ inst.kind # "library"
<1>1. RequestOK(inst.kind, r) /\ inst.kind \in Kinds
  BY InstanceFacts
<1>2. PatchOK(inst.kind, r.patch)
  BY <1>1 DEF RequestOK, PatchOK, Gives
<1> DEFINE new == Overlay(d, r.patch)
<1>3. CASE inst.kind = "notes"
  <2>1. d \in NoteDocs /\ Gives(r.patch, {"title", "body"}, BOOLEAN)
    BY <1>2, <1>3 DEF PatchOK, GoodDocs, DocsOf
  <2>2. DOMAIN d = {"id", "title", "body"}
    BY <2>1 DEF NoteDocs
  <2>3. new \in NoteDocs /\ new.id = d.id
    BY <2>1, <2>2 DEF Overlay, NoteDocs, Gives
  <2> QED
    BY <1>3, <2>3 DEF Acceptable, Patched, PatchedNote, GoodDocs, DocsOf, SoundDoc
<1>4. CASE inst.kind = "contacts"
  <2>1. /\ d \in ContactDocs /\ Gives(r.patch, {"name", "email"}, BOOLEAN) /\ d.name
        /\ "name" \in DOMAIN r.patch => r.patch.name
    BY <1>2, <1>4 DEF PatchOK, GoodDocs, DocsOf, SoundDoc, Accepted, ContactsAccept
  <2>2. DOMAIN d = {"id", "name", "email"}
    BY <2>1 DEF ContactDocs
  <2>3. new \in ContactDocs /\ new.id = d.id
    BY <2>1, <2>2 DEF Overlay, ContactDocs, Gives
  <2>4. new.name
    BY <2>1, <2>2 DEF Overlay
  <2> QED
    BY <1>4, <2>3, <2>4 DEF Patched, PatchedContact, GoodDocs, DocsOf, SoundDoc
<1>5. CASE inst.kind = "tasks"
  <2>1. /\ d \in TaskDocs /\ Gives(r.patch, {"title", "done"}, BOOLEAN)
        /\ d.title /\ (d.done <=> d.done_at)
        /\ "title" \in DOMAIN r.patch => r.patch.title
    BY <1>2, <1>5 DEF PatchOK, GoodDocs, DocsOf, SoundDoc, Accepted, TasksAccept
  <2>2. DOMAIN d = {"id", "title", "done", "done_at"}
    BY <2>1 DEF TaskDocs
  <2>3. new \in TaskDocs /\ new.id = d.id /\ new.done_at = d.done_at
    BY <2>1, <2>2 DEF Overlay, TaskDocs, Gives
  <2>4. new.title
    BY <2>1, <2>2 DEF Overlay
  <2>5. PatchedTask(d, r.patch) = IF new.done = d.done THEN new ELSE [new EXCEPT !.done_at = new.done]
    BY DEF PatchedTask
  <2>6. PatchedTask(d, r.patch) \in TaskDocs /\ PatchedTask(d, r.patch).id = d.id
    BY <2>3, <2>5 DEF TaskDocs
  <2>7. SoundDoc("tasks", PatchedTask(d, r.patch))
    <3>1. CASE new.done = d.done
      BY <3>1, <2>1, <2>3, <2>4, <2>5 DEF SoundDoc
    <3>2. CASE new.done # d.done
      <4> DEFINE e == [new EXCEPT !.done_at = new.done]
      <4>1. e.title = new.title /\ e.done = new.done /\ e.done_at = new.done
        BY <2>3 DEF TaskDocs
      <4> HIDE DEF e
      <4> QED
        BY <3>2, <2>4, <2>5, <4>1 DEF SoundDoc, e
    <3> QED
      BY <3>1, <3>2
  <2> QED
    BY <1>5, <2>6, <2>7 DEF Patched, GoodDocs, DocsOf
<1>6. CASE inst.kind = "calendar"
  <2>1. /\ d \in EventDocs /\ Gives(r.patch, {"start", "end", "remind"}, Int)
        /\ "start" \in DOMAIN r.patch => r.patch.start > 0
    BY <1>2, <1>6 DEF PatchOK, GoodDocs, DocsOf, Accepted, CalendarAccept
  <2>2. DOMAIN d = {"id", "start", "end", "remind", "fired", "uid"}
    BY <2>1 DEF EventDocs
  <2>3. /\ new = [id |-> d.id, start |-> new.start, end |-> new.end, remind |-> new.remind,
                  fired |-> d.fired, uid |-> d.uid]
        /\ new.start \in Nat /\ new.end \in Int \cup {None} /\ new.remind \in Int \cup {None}
    <3>1. DOMAIN new = DOMAIN d /\ new = [f \in DOMAIN d |-> new[f]]
      BY DEF Overlay
    <3>2. new.id = d.id /\ new.fired = d.fired /\ new.uid = d.uid
      BY <2>1, <2>2 DEF Overlay, Gives
    <3>3. new.start \in Nat
      BY <2>1, <2>2 DEF Overlay, Gives, EventDocs
    <3>4. new.end \in Int \cup {None} /\ new.remind \in Int \cup {None}
      BY <2>1, <2>2 DEF Overlay, Gives, EventDocs
    <3> HIDE DEF new
    <3> QED
      BY <2>2, <3>1, <3>2, <3>3, <3>4
  <2> DEFINE changed == \E f \in {"start", "end", "remind"} : new[f] # d[f]
             e == PatchedEvent(d, r.patch)
  <2>4. e = [new EXCEPT !.fired = @ /\ ~changed]
    BY DEF PatchedEvent
  <2>5. /\ e = [id |-> d.id, start |-> new.start, end |-> new.end, remind |-> new.remind,
                fired |-> d.fired /\ ~changed, uid |-> d.uid]
        /\ (d.fired /\ ~changed) \in BOOLEAN
    <3> HIDE DEF new, changed, e
    <3> QED
      BY <2>3, <2>4
  <2>6. e.end = None \/ e.end >= e.start
    BY <1>6 DEF Acceptable, Patched
  <2>7. e.end \in Nat \cup {None}
    <3> HIDE DEF new, changed, e
    <3> QED
      BY <2>3, <2>5, <2>6
  <2>8. e \in EventDocs
    <3> HIDE DEF new, changed, e
    <3> QED
      BY <2>1, <2>3, <2>5, <2>7 DEF EventDocs
  <2>9. e.id = d.id /\ e.uid = d.uid
    <3> HIDE DEF new, changed, e
    <3> QED
      BY <2>5
  <2> HIDE DEF e
  <2> QED
    BY <1>6, <2>6, <2>8, <2>9 DEF e, Patched, GoodDocs, DocsOf, SoundDoc
<1>7. inst.kind # "library"
  BY <1>2 DEF PatchOK
<1> QED
  BY <1>1, <1>3, <1>4, <1>5, <1>6, <1>7 DEF Kinds

-----------------------------------------------------------------------------
(* The shape of documents and tasks.                                        *)

LEMMA ShapeStart == Init => ShapeInv
<1> SUFFICES ASSUME Init PROVE ShapeInv
  OBVIOUS
<1>1. inst \in Instances /\ inst.maxTime \in Nat \ {0}
  BY InstanceFacts DEF Init
<1>2. Cardinality(Ids) \in Nat
  BY DocumentsAssumption, FS_CardinalityType
<1>3. StoreOK
  BY <1>1, <1>2 DEF Init, StoreOK, Present
<1>4. TasksOK
  BY DEF Init, TasksOK, KnownTask, Tasks
<1> QED
  BY <1>3, <1>4 DEF ShapeInv

LEMMA StoreShape ==
    ASSUME StoreOK, NEW d \in GoodDocs(inst.kind), Store(d), inst' = inst, clock' = clock,
           counter' = counter, fs' = fs, gone' = gone
    PROVE  StoreOK'
<1>1. d.id \in Keys /\ d # NoDoc
  BY DocFacts, InstanceFacts DEF StoreOK
<1>2. db' = [db EXCEPT ![d.id] = d]
  BY DEF Store
<1>3. db' \in [Keys -> GoodDocs(inst.kind) \cup {NoDoc}]
  BY <1>1, <1>2 DEF StoreOK
<1>4. \A k \in Keys : db'[k] # NoDoc => db'[k].id = k
  BY <1>1, <1>2 DEF StoreOK, Present
<1>5. credit' \in [Keys -> Int]
  BY <1>1 DEF StoreOK, Store
<1> QED
  BY <1>3, <1>4, <1>5 DEF StoreOK, Present

LEMMA EraseShape ==
    ASSUME StoreOK, NEW k \in Keys, Erase(k), inst' = inst, clock' = clock,
           counter' = counter, fs' = fs, credit' = credit
    PROVE  StoreOK'
<1>1. db' = [db EXCEPT ![k] = NoDoc] /\ gone' \subseteq gone \cup {k}
  BY DEF Erase
<1>2. db' \in [Keys -> GoodDocs(inst.kind) \cup {NoDoc}]
  BY <1>1 DEF StoreOK
<1>3. \A j \in Keys : db'[j] # NoDoc => db'[j].id = j
  BY <1>1 DEF StoreOK, Present
<1> QED
  BY <1>1, <1>2, <1>3 DEF StoreOK, Present

LEMMA SameStore ==
    ASSUME StoreOK, inst' = inst, db' = db, clock' = clock, fs' = fs, credit' \in [Keys -> Int],
           gone' = gone, counter' \in 0 .. Cardinality(Ids)
    PROVE  StoreOK'
BY DEF StoreOK, Present

LEMMA GoShape ==
    ASSUME TasksOK, inst' = inst, NEW t \in Tasks, NEW x, KnownTask(inst.kind, x), Go(t, x)
    PROVE  TasksOK'
<1>1. Tasks' = Tasks
  BY DEF Tasks
<1>2. task' = [u \in Tasks |-> IF u = t THEN x ELSE task[u]]
  BY DEF Go, TasksOK
<1>3. \A u \in Tasks : KnownTask(inst.kind, task'[u])
  BY <1>2 DEF TasksOK
<1> QED
  BY <1>1, <1>2, <1>3 DEF TasksOK

LEMMA IdleShape == \A kind : KnownTask(kind, Idle)
BY DEF KnownTask

LEMMA PutShape ==
    ASSUME ShapeInv, NEW t \in Tasks, NEW d \in GoodDocs(inst.kind), NEW x,
           KnownTask(inst.kind, x), Put(t, d, x)
    PROVE  ShapeInv'
<1>1. /\ inst' = inst /\ clock' = clock /\ counter' = counter /\ fs' = fs /\ gone' = gone
      /\ Store(d) \/ (db' = db /\ credit' = credit)
      /\ Go(t, x) \/ Go(t, Idle)
  BY DEF Put, Failing
<1>2. TasksOK'
  BY <1>1, GoShape, IdleShape DEF ShapeInv
<1>3. StoreOK'
  BY <1>1, StoreShape, SameStore DEF ShapeInv, StoreOK
<1> QED
  BY <1>2, <1>3 DEF ShapeInv

LEMMA DrawShape ==
    ASSUME ShapeInv, NEW t \in Tasks, NEW x, KnownTask(inst.kind, x), DrawId(t, x), NextId \in Ids,
           inst' = inst, db' = db, clock' = clock, fs' = fs, credit' = credit, gone' = gone
    PROVE  ShapeInv'
<1>1. (Go(t, x) \/ Go(t, Idle)) /\ counter' \in {counter, counter + 1}
  BY DEF DrawId, Failing
<1>2. counter + 1 \in 1 .. Cardinality(Ids)
  BY DocumentsAssumption DEF NextId
<1>3. counter' \in 0 .. Cardinality(Ids)
  BY <1>1, <1>2, FS_CardinalityType, DocumentsAssumption DEF ShapeInv, StoreOK
<1>4. TasksOK'
  BY <1>1, GoShape, IdleShape DEF ShapeInv
<1>5. StoreOK'
  BY <1>3, SameStore DEF ShapeInv, StoreOK
<1> QED
  BY <1>4, <1>5 DEF ShapeInv

(* A step of t alone that leaves what is stored alone.                       *)
LEMMA StayShape ==
    ASSUME ShapeInv, NEW t \in Tasks, NEW x, KnownTask(inst.kind, x), Go(t, x),
           UNCHANGED <<inst, clock, db, counter, fs, gone>>, credit' \in [Keys -> Int]
    PROVE  ShapeInv'
BY GoShape, SameStore DEF ShapeInv, StoreOK

(* Tasks of one kind.                                                        *)
LEMMA TaskKinds ==
    ASSUME ShapeInv, NEW t \in Tasks
    PROVE  /\ inst.kind \in Kinds
           /\ task[t].pc \in {"idle", "put", "docs", "mark", "publish", "import", "importput",
                              "index", "stamp"}
           /\ task[t].pc = "idle" => task[t] = Idle
           /\ task[t].pc = "put" => inst.kind # "library" /\ task[t] \in Puts(inst.kind)
           /\ task[t].pc = "docs" =>
                 \/ inst.kind = "calendar" /\ task[t] \in ScanLists \cup ImportLists
                 \/ inst.kind = "library" /\ task[t] \in IndexLists
           /\ task[t].pc = "mark" => inst.kind = "calendar" /\ task[t] \in Marks
           /\ task[t].pc = "publish" => inst.kind = "calendar" /\ task[t] \in Publishes
           /\ task[t].pc = "import" => inst.kind = "calendar" /\ task[t] \in Importing
           /\ task[t].pc = "importput" => inst.kind = "calendar" /\ task[t] \in ImportPuts
           /\ task[t].pc = "index" => inst.kind = "library" /\ task[t] \in Indexings
           /\ task[t].pc = "stamp" => inst.kind = "library" /\ task[t] \in Stampings
<1>1. KnownTask(inst.kind, task[t]) /\ inst.kind \in Kinds
  BY InstanceFacts DEF ShapeInv, TasksOK, StoreOK
<1>2. CASE task[t] = Idle
  BY <1>1, <1>2 DEF Idle
<1>3. CASE inst.kind # "library" /\ task[t] \in Puts(inst.kind)
  BY <1>1, <1>3 DEF Puts
<1>4. CASE inst.kind = "calendar" /\ task[t] \in Scans
  BY <1>1, <1>4 DEF Scans, ScanLists, Marks, Publishes
<1>5. CASE inst.kind = "calendar" /\ task[t] \in AllImports
  BY <1>1, <1>5 DEF AllImports, ImportLists, Importing, ImportPuts
<1>6. CASE inst.kind = "library" /\ task[t] \in LibraryScans
  BY <1>1, <1>6 DEF LibraryScans, IndexLists, Indexings, Stampings
<1> QED
  BY <1>1, <1>2, <1>3, <1>4, <1>5, <1>6 DEF KnownTask

(* Listings for the scan, the import and the index.                          *)
LEMMA ListFacts ==
    /\ \A x \in ScanLists : x.pc = "docs" /\ x.who.for = "scan" /\ x.who.now \in Nat /\ x.keys \subseteq Keys
    /\ \A x \in ImportLists : /\ x.pc = "docs" /\ x.who.for = "import" /\ x.keys \subseteq Keys
                              /\ x.who.todo \in Seq(Occurrences)
    /\ \A x \in IndexLists : /\ x.pc = "docs" /\ x.who.for = "index" /\ x.keys \subseteq Keys
                             /\ x.who.seen \subseteq Entries /\ x.who.alone \in BOOLEAN
BY DEF ScanLists, ImportLists, IndexLists

LEMMA KnownKinds ==
    ASSUME NEW kind
    PROVE  /\ \A x \in Puts(kind) : kind # "library" => KnownTask(kind, x)
           /\ \A x \in Scans \cup AllImports : kind = "calendar" => KnownTask(kind, x)
           /\ \A x \in LibraryScans : kind = "library" => KnownTask(kind, x)
BY DEF KnownTask

LEMMA ListedDocs ==
    ASSUME ShapeInv, NEW keys \in SUBSET Keys
    PROVE  {db[k] : k \in keys \cap Present} \subseteq GoodDocs(inst.kind)
BY DEF ShapeInv, StoreOK, Present

LEMMA ScanNextKnown ==
    ASSUME NEW now \in Nat, NEW due \in SUBSET GoodEvents
    PROVE  KnownTask("calendar", ScanNext(now, due))
<1>1. CASE due = {}
  BY <1>1, IdleShape DEF ScanNext
<1>2. CASE due # {}
  <2>1. ScanNext(now, due) = [pc |-> "mark", now |-> now, due |-> due]
    BY <1>2 DEF ScanNext
  <2>2. ScanNext(now, due) \in Marks
    BY <1>2, <2>1 DEF Marks
  <2> QED
    BY <2>2, KnownKinds DEF Scans
<1> QED
  BY <1>1, <1>2

LEMMA ImportNextKnown ==
    ASSUME NEW byUid \in Indices, NEW todo \in Seq(Occurrences), NEW left \in Int
    PROVE  KnownTask("calendar", ImportNext(byUid, todo, left))
<1>1. CASE todo = <<>> \/ left = 0
  BY <1>1, IdleShape DEF ImportNext
<1>2. CASE ~(todo = <<>> \/ left = 0)
  <2>1. ImportNext(byUid, todo, left) = [pc |-> "import", byUid |-> byUid, todo |-> todo, left |-> left]
    BY <1>2 DEF ImportNext
  <2>2. ImportNext(byUid, todo, left) \in Importing
    BY <1>2, <2>1 DEF Importing
  <2> QED
    BY <2>2, KnownKinds DEF AllImports
<1> QED
  BY <1>1, <1>2

(* by_uid holds one of the documents with a UID.                             *)
LEMMA ByUidFacts ==
    ASSUME NEW docs \in SUBSET GoodEvents
    PROVE  /\ ByUid(docs) \in Indices
           /\ \A u \in Uids : ByUid(docs)[u] # NoDoc => ByUid(docs)[u] \in docs /\ ByUid(docs)[u].uid = u
           /\ \A d \in docs : d.uid \in Uids => ByUid(docs)[d.uid] # NoDoc
<1> DEFINE Of(u) == {d \in docs : d.uid = u}
           Pick(u) == IF Of(u) = {} THEN NoDoc ELSE CHOOSE d \in Of(u) : TRUE
<1>1. ByUid(docs) = [u \in Uids |-> Pick(u)]
  BY DEF ByUid
<1>2. ASSUME NEW u \in Uids
      PROVE  /\ Pick(u) \in GoodEvents \cup {NoDoc}
             /\ Pick(u) # NoDoc => Pick(u) \in docs /\ Pick(u).uid = u
             /\ Of(u) # {} => Pick(u) # NoDoc
  <2>1. CASE Of(u) = {}
    BY <2>1
  <2>2. CASE Of(u) # {}
    <3>1. (CHOOSE d \in Of(u) : TRUE) \in Of(u)
      BY <2>2
    <3>2. Pick(u) \in docs /\ Pick(u).uid = u
      BY <2>2, <3>1
    <3>3. Pick(u) # NoDoc
      BY <3>2, DocFacts DEF Kinds, GoodEvents
    <3> QED
      BY <3>2, <3>3
  <2> QED
    BY <2>1, <2>2
<1> HIDE DEF Pick
<1>3. ByUid(docs) \in [Uids -> GoodEvents \cup {NoDoc}]
  BY <1>1, <1>2
<1>4. \A d \in docs : d.uid \in Uids => Of(d.uid) # {}
  OBVIOUS
<1> HIDE DEF Of
<1> QED
  BY <1>1, <1>2, <1>3, <1>4 DEF Indices

LEMMA ListedKnown ==
    ASSUME ShapeInv, NEW t \in Tasks, task[t].pc = "docs"
    PROVE  KnownTask(inst.kind, ListedBy(task[t].who, {db[k] : k \in task[t].keys \cap Present}))
<1> DEFINE docs == {db[k] : k \in task[t].keys \cap Present}
           who == task[t].who
<1>1. CASE inst.kind = "calendar" /\ task[t] \in ScanLists
  <2>1. who.for = "scan" /\ who.now \in Nat /\ task[t].keys \subseteq Keys
    BY <1>1, ListFacts
  <2>2. docs \subseteq GoodEvents
    BY <1>1, <2>1, ListedDocs DEF GoodEvents
  <2>3. ListedBy(who, docs) = ScanNext(who.now, DueEvents(docs, who.now))
    BY <2>1 DEF ListedBy
  <2>4. DueEvents(docs, who.now) \subseteq docs
    BY DEF DueEvents
  <2> HIDE DEF docs, who
  <2> QED
    BY <1>1, <2>1, <2>2, <2>3, <2>4, ScanNextKnown DEF docs, who
<1>2. CASE inst.kind = "calendar" /\ task[t] \in ImportLists
  <2>1. who.for = "import" /\ who.todo \in Seq(Occurrences) /\ task[t].keys \subseteq Keys
    BY <1>2, ListFacts
  <2>2. docs \subseteq GoodEvents
    BY <1>2, <2>1, ListedDocs DEF GoodEvents
  <2>3. ListedBy(who, docs) = ImportNext(ByUid(docs), who.todo, inst.maxImport)
    BY <2>1 DEF ListedBy
  <2>4. inst.maxImport \in Int
    BY InstanceFacts DEF ShapeInv, StoreOK
  <2>5. ByUid(docs) \in Indices
    BY <2>2, ByUidFacts
  <2> HIDE DEF docs, who
  <2> QED
    BY <1>2, <2>1, <2>3, <2>4, <2>5, ImportNextKnown DEF docs, who
<1>3. CASE inst.kind = "library" /\ task[t] \in IndexLists
  <2>1. /\ who.for = "index" /\ who.seen \subseteq Entries /\ who.alone \in BOOLEAN
        /\ task[t].keys \subseteq Keys
    BY <1>3, ListFacts
  <2>2. docs \subseteq Entries
    BY <1>3, <2>1, ListedDocs DEF GoodDocs, DocsOf
  <2>3. ListedBy(who, docs) = [pc |-> "index", seen |-> who.seen, todo |-> who.seen,
                               old |-> docs, alone |-> who.alone]
    BY <2>1 DEF ListedBy
  <2> HIDE DEF docs, who
  <2>4. ListedBy(who, docs) \in Indexings
    BY <2>1, <2>2, <2>3 DEF Indexings
  <2> QED
    BY <1>3, <2>4, KnownKinds DEF LibraryScans, docs, who
<1> QED
  BY <1>1, <1>2, <1>3, TaskKinds

-----------------------------------------------------------------------------
(* What the steps of a task do.                                             *)

MarkNext(x, d) == [pc |-> "publish", now |-> x.now, due |-> x.due \ {d}, event |-> d]

LEMMA MarkFacts ==
    ASSUME ShapeInv, NEW t \in Tasks, Mark(t)
    PROVE  /\ inst.kind = "calendar" /\ task[t] \in Marks
           /\ \E d \in task[t].due :
                 /\ d \in GoodEvents /\ Marked(d) \in GoodEvents
                 /\ Marked(d).id = d.id /\ Marked(d).uid = d.uid /\ Marked(d).fired
                 /\ MarkNext(task[t], d) \in Publishes
                 /\ Put(t, Marked(d), MarkNext(task[t], d))
<1>1. inst.kind = "calendar" /\ task[t] \in Marks
  BY TaskKinds DEF Mark
<1>2. PICK d \in task[t].due : Put(t, Marked(d), MarkNext(task[t], d))
  BY DEF Mark, MarkNext
<1>3. task[t].due \subseteq GoodEvents /\ task[t].now \in Nat
  BY <1>1 DEF Marks
<1>4. d \in EventDocs /\ (d.end = None \/ d.end >= d.start)
  BY <1>2, <1>3 DEF GoodEvents, GoodDocs, DocsOf, SoundDoc
<1>5. /\ Marked(d) \in EventDocs /\ Marked(d).end = d.end /\ Marked(d).start = d.start
      /\ Marked(d).id = d.id /\ Marked(d).uid = d.uid /\ Marked(d).fired
  BY <1>4 DEF Marked, EventDocs
<1>6. Marked(d) \in GoodEvents
  BY <1>4, <1>5 DEF GoodEvents, GoodDocs, DocsOf, SoundDoc
<1>7. MarkNext(task[t], d) \in Publishes
  BY <1>2, <1>3 DEF MarkNext, Publishes
<1> QED
  BY <1>1, <1>2, <1>3, <1>5, <1>6, <1>7

ImportPutNext(x, known, doc, byUid) ==
    [pc |-> "importput", new |-> ~known, doc |-> doc, byUid |-> byUid,
     todo |-> Tail(x.todo), left |-> x.left - 1]

\* How one occurrence is stored: over the document of its UID, or as a new one.
Placed(x, u, known, doc, byUid) ==
    /\ known => u \in Uids /\ x.byUid[u] # NoDoc /\ doc.id = x.byUid[u].id /\ doc.uid = x.byUid[u].uid
    /\ ~known => doc.id = NextId /\ doc.uid = u /\ (u # None => x.byUid[u] = NoDoc)
    /\ byUid = IF u = None THEN x.byUid ELSE [x.byUid EXCEPT ![u] = doc]

LEMMA ImportOneFacts ==
    ASSUME ShapeInv, NEW t \in Tasks, ImportOne(t)
    PROVE  /\ inst.kind = "calendar" /\ task[t] \in Importing
           /\ UNCHANGED <<inst, clock, db, fs, credit, gone>>
           /\ \E u \in Uids \cup {None}, known \in BOOLEAN, doc \in GoodEvents, byUid \in Indices :
                 /\ Placed(task[t], u, known, doc, byUid)
                 /\ ImportPutNext(task[t], known, doc, byUid) \in ImportPuts
                 /\ known => Go(t, ImportPutNext(task[t], known, doc, byUid)) /\ UNCHANGED counter
                 /\ ~known => NextId \in Ids /\ DrawId(t, ImportPutNext(task[t], known, doc, byUid))
<1>1. inst.kind = "calendar" /\ task[t] \in Importing
  BY TaskKinds DEF ImportOne
<1>2. /\ task[t].byUid \in Indices /\ task[t].left \in Int
      /\ task[t].todo \in Seq(Occurrences) /\ task[t].todo # <<>>
  BY <1>1 DEF Importing
<1> DEFINE e == Head(task[t].todo)
           known == e.uid # None /\ task[t].byUid[e.uid] # NoDoc
           doc == IF known THEN Imported(task[t].byUid[e.uid], e)
                  ELSE [id |-> NextId, start |-> e.start, end |-> e.end, remind |-> e.remind,
                        fired |-> FALSE, uid |-> e.uid]
           byUid == IF e.uid = None THEN task[t].byUid
                    ELSE [task[t].byUid EXCEPT ![e.uid] = doc]
           next == ImportPutNext(task[t], known, doc, byUid)
<1>3. /\ doc.id \in Ids
      /\ IF known THEN Go(t, next) /\ UNCHANGED <<counter, fails>> ELSE DrawId(t, next)
      /\ UNCHANGED <<inst, clock, db, fs, credit, gone>>
  BY DEF ImportOne, ImportPutNext
<1>4. e \in Occurrences /\ Tail(task[t].todo) \in Seq(Occurrences)
  BY <1>2
<1>5. /\ e.uid \in Uids \cup {None} /\ e.start \in Nat /\ e.end \in Nat \cup {None}
      /\ e.remind \in Int \cup {None} /\ (e.end = None \/ e.end >= e.start) /\ e.retitled \in BOOLEAN
  BY <1>4 DEF Occurrences
<1>6. CASE known
  <2> DEFINE old == task[t].byUid[e.uid]
  <2>1. e.uid \in Uids /\ old \in GoodEvents
    BY <1>2, <1>5, <1>6 DEF Indices
  <2>2. old \in EventDocs
    BY <2>1 DEF GoodEvents, GoodDocs, DocsOf
  <2> HIDE DEF old
  <2>3. /\ Imported(old, e) \in EventDocs /\ Imported(old, e).id = old.id
        /\ Imported(old, e).uid = old.uid
        /\ Imported(old, e).end = e.end /\ Imported(old, e).start = e.start
    <3>1. (old.fired /\ old.start = e.start /\ ~e.retitled) \in BOOLEAN
      BY <2>2 DEF EventDocs
    <3> DEFINE f == old.fired /\ old.start = e.start /\ ~e.retitled
    <3>2. Imported(old, e) = [old EXCEPT !.start = e.start, !.end = e.end, !.remind = e.remind, !.fired = f]
      BY DEF Imported
    <3>3. f \in BOOLEAN
      BY <3>1
    <3> HIDE DEF f, e
    <3> QED
      BY <1>5, <2>2, <3>2, <3>3 DEF EventDocs
  <2>4. doc = Imported(old, e)
    BY <1>6 DEF old
  <2> HIDE DEF doc, e
  <2>5. doc \in GoodEvents /\ doc.id = old.id /\ doc.uid = old.uid
    BY <1>5, <2>3, <2>4 DEF GoodEvents, GoodDocs, DocsOf, SoundDoc
  <2>6. byUid \in Indices
    BY <1>2, <2>5 DEF Indices
  <2>7. Placed(task[t], e.uid, TRUE, doc, byUid)
    BY <1>6, <2>1, <2>5 DEF Placed, old
  <2>8. ImportPutNext(task[t], TRUE, doc, byUid) \in ImportPuts
    <3> HIDE DEF byUid
    <3> QED
      BY <1>2, <1>4, <2>5, <2>6 DEF ImportPutNext, ImportPuts, e
  <2>9. Go(t, ImportPutNext(task[t], TRUE, doc, byUid)) /\ UNCHANGED counter
    BY <1>3, <1>6
  <2> HIDE DEF byUid
  <2> QED
    BY <1>1, <1>3, <1>5, <2>5, <2>6, <2>7, <2>8, <2>9
<1>7. CASE ~known
  <2>1. doc = [id |-> NextId, start |-> e.start, end |-> e.end, remind |-> e.remind,
               fired |-> FALSE, uid |-> e.uid]
    BY <1>7
  <2>2. NextId \in Ids
    BY <1>3, <2>1
  <2> HIDE DEF doc, e
  <2>3. doc \in EventDocs /\ doc.id = NextId /\ doc.uid = e.uid /\ doc.end = e.end /\ doc.start = e.start
    BY <1>5, <2>1, <2>2 DEF EventDocs
  <2>4. doc \in GoodEvents
    BY <1>5, <2>3 DEF GoodEvents, GoodDocs, DocsOf, SoundDoc
  <2>5. byUid \in Indices
    BY <1>2, <1>5, <2>4 DEF Indices
  <2>6. Placed(task[t], e.uid, FALSE, doc, byUid)
    BY <1>7, <2>3 DEF Placed
  <2>7. ImportPutNext(task[t], FALSE, doc, byUid) \in ImportPuts
    <3> HIDE DEF byUid
    <3> QED
      BY <1>2, <1>4, <2>4, <2>5 DEF ImportPutNext, ImportPuts, e
  <2>8. DrawId(t, ImportPutNext(task[t], FALSE, doc, byUid))
    BY <1>3, <1>7
  <2> HIDE DEF byUid
  <2> QED
    BY <1>1, <1>3, <1>5, <2>2, <2>4, <2>5, <2>6, <2>7, <2>8
<1> QED
  BY <1>6, <1>7

(* Another walk began.                                                       *)
LEMMA DisturbedKnown ==
    ASSUME inst.kind = "library", NEW x, KnownTask(inst.kind, x)
    PROVE  /\ KnownTask(inst.kind, Disturbed(x))
           /\ ~Alone(Disturbed(x))
           /\ Disturbed(x) \in IndexLists => x \in IndexLists /\ Disturbed(x).who.seen = x.who.seen
           /\ x \in IndexLists => Disturbed(x) \in IndexLists
<1>0. /\ \A y \in IndexLists : y.pc = "docs"
      /\ \A y \in Indexings : y.pc = "index"
      /\ \A y \in Stampings : y.pc = "stamp"
  BY DEF IndexLists, Indexings, Stampings
<1>1. CASE x = Idle
  <2>1. Disturbed(x) = x /\ x.pc = "idle"
    BY <1>1 DEF Disturbed, Idle
  <2> QED
    BY <1>0, <1>1, <2>1, IdleShape DEF Alone
<1>2. CASE x \in IndexLists
  <2>1. Disturbed(x) = [x EXCEPT !.who.alone = FALSE]
    BY <1>0, <1>2 DEF Disturbed
  <2> DEFINE who == x.who
             calm == [who EXCEPT !.alone = FALSE]
  <2>2. Disturbed(x) = [x EXCEPT !.who = calm]
    BY <2>1
  <2>3. /\ who \in [for : {"index"}, seen : SUBSET Entries, alone : BOOLEAN]
        /\ x \in [pc : {"docs"}, keys : SUBSET Keys,
                  who : [for : {"index"}, seen : SUBSET Entries, alone : BOOLEAN]]
    BY <1>2 DEF IndexLists
  <2> HIDE DEF who
  <2>4. /\ calm \in [for : {"index"}, seen : SUBSET Entries, alone : BOOLEAN]
        /\ calm.alone = FALSE /\ calm.seen = who.seen
    BY <2>3
  <2> HIDE DEF calm
  <2>5. Disturbed(x) \in IndexLists /\ Disturbed(x).who = calm
    BY <2>2, <2>3, <2>4 DEF IndexLists
  <2>6. ~Disturbed(x).who.alone /\ Disturbed(x).who.seen = x.who.seen
    BY <2>4, <2>5 DEF who
  <2> QED
    BY <1>0, <1>2, <2>5, <2>6, KnownKinds DEF LibraryScans, Alone
<1>3. CASE x \in Indexings
  <2>1. Disturbed(x) = [x EXCEPT !.alone = FALSE]
    BY <1>0, <1>3 DEF Disturbed
  <2>2. Disturbed(x) \in Indexings /\ ~Disturbed(x).alone
    BY <1>3, <2>1 DEF Indexings
  <2> QED
    BY <1>0, <1>3, <2>2, KnownKinds DEF LibraryScans, Alone
<1>4. CASE x \in Stampings
  <2>1. Disturbed(x) = [x EXCEPT !.alone = FALSE]
    BY <1>0, <1>4 DEF Disturbed
  <2>2. Disturbed(x) \in Stampings /\ ~Disturbed(x).alone
    BY <1>4, <2>1 DEF Stampings
  <2> QED
    BY <1>0, <1>4, <2>2, KnownKinds DEF LibraryScans, Alone
<1> QED
  BY <1>1, <1>2, <1>3, <1>4 DEF KnownTask, LibraryScans

WalkNext(seen, alone) ==
    [pc |-> "docs", keys |-> Present, who |-> [for |-> "index", seen |-> seen, alone |-> alone]]

LEMMA WalkFacts ==
    ASSUME ShapeInv, NEW t \in Tasks, NEW roots \in SUBSET Paths, Walk(t, roots)
    PROVE  /\ inst.kind = "library" /\ task[t] = Idle
           /\ UNCHANGED <<inst, clock, db, counter, fs, credit, gone>>
           /\ \E seen \in SUBSET Entries, alone \in BOOLEAN :
                 /\ OneEach(seen)
                 /\ WalkNext(seen, alone) \in IndexLists
                 /\ alone => \A v \in Tasks : task[v] = Idle
                 /\ task' = [u \in Tasks |-> IF u # t THEN Disturbed(task[u]) ELSE WalkNext(seen, alone)]
<1>1. PICK seen \in Seen(roots) :
        task' = [u \in Tasks |-> IF u # t THEN Disturbed(task[u])
                                 ELSE WalkNext(seen, \A v \in Tasks : task[v] = Idle)]
  BY DEF Walk, ListKeys, WalkNext
<1> DEFINE alone == \A v \in Tasks : task[v] = Idle
<1>2. fs \in [Paths -> Nat]
  BY DEF ShapeInv, StoreOK
<1>3. PICK S \in SUBSET Paths : seen = {[id |-> p, version |-> fs[p]] : p \in S}
  BY <1>1 DEF Seen
<1>4. seen \subseteq Entries
  BY <1>2, <1>3 DEF Entries
<1>5. OneEach(seen)
  BY <1>3 DEF OneEach
<1>6. alone \in BOOLEAN
  OBVIOUS
<1>7. Present \subseteq Keys
  BY DEF Present
<1> HIDE DEF alone
<1>8. WalkNext(seen, alone) \in IndexLists
  BY <1>4, <1>6, <1>7 DEF WalkNext, IndexLists
<1> QED
  BY <1>1, <1>4, <1>5, <1>6, <1>8 DEF Walk, Receive, alone

LEMMA WalkShape ==
    ASSUME ShapeInv, NEW t \in Tasks, NEW roots \in SUBSET Paths, Walk(t, roots)
    PROVE  ShapeInv'
<1>1. inst.kind = "library" /\ UNCHANGED <<inst, clock, db, counter, fs, credit, gone>>
  BY WalkFacts
<1>2. PICK x \in IndexLists : task' = [u \in Tasks |-> IF u # t THEN Disturbed(task[u]) ELSE x]
  BY WalkFacts
<1>3. \A u \in Tasks : KnownTask(inst.kind, task'[u])
  BY <1>1, <1>2, DisturbedKnown, KnownKinds DEF LibraryScans, ShapeInv, TasksOK
<1>4. TasksOK'
  BY <1>1, <1>2, <1>3 DEF TasksOK, Tasks
<1>5. StoreOK'
  BY <1>1, SameStore DEF ShapeInv, StoreOK
<1> QED
  BY <1>4, <1>5 DEF ShapeInv

LEMMA ShapeHandle ==
    ASSUME ShapeInv, NEW t \in Tasks, Handle(t)
    PROVE  ShapeInv'
<1>1. ASSUME NEW r \in inst.requests, Create(t, r) PROVE ShapeInv'
  <2> DEFINE d == NewDoc(NextId, r.new)
             x == [pc |-> "put", new |-> TRUE, doc |-> d]
  <2>1. /\ r.op = "create" /\ Accepted(r) /\ NextId \in Ids /\ DrawId(t, x)
        /\ UNCHANGED <<inst, clock, db, fs, credit, gone>>
    BY <1>1 DEF Create
  <2>2. d \in GoodDocs(inst.kind) /\ inst.kind # "library"
    BY <2>1, NewIsGood DEF ShapeInv, StoreOK
  <2> HIDE DEF d
  <2>3. x \in Puts(inst.kind)
    BY <2>2 DEF Puts
  <2> HIDE DEF x
  <2> QED
    BY <2>1, <2>2, <2>3, KnownKinds, DrawShape
<1>2. ASSUME NEW r \in inst.requests, NEW id \in Ids, Update(t, r, id) PROVE ShapeInv'
  <2> DEFINE d == Patched(db[id], r.patch)
             x == [pc |-> "put", new |-> FALSE, doc |-> d]
  <2>1. /\ r.op \in {"update", "done"} /\ Accepted(r)
        /\ \/ db[id] # NoDoc /\ Acceptable(d) /\ Go(t, x)
           \/ UNCHANGED task
        /\ UNCHANGED <<inst, clock, db, counter, fs, credit, gone>>
    BY <1>2 DEF Update
  <2>2. CASE UNCHANGED task
    BY <2>1, <2>2, SameStore DEF ShapeInv, StoreOK, TasksOK, Tasks
  <2>3. CASE db[id] # NoDoc /\ Acceptable(d) /\ Go(t, x)
    <3>1. db[id] \in GoodDocs(inst.kind)
      BY <2>3 DEF ShapeInv, StoreOK, Keys
    <3>2. d \in GoodDocs(inst.kind) /\ inst.kind # "library"
      BY <2>1, <2>3, <3>1, PatchedIsGood DEF ShapeInv, StoreOK
    <3> HIDE DEF d
    <3>3. x \in Puts(inst.kind)
      BY <3>2 DEF Puts
    <3> HIDE DEF x
    <3>4. credit' \in [Keys -> Int]
      BY <2>1 DEF ShapeInv, StoreOK
    <3> QED
      BY <2>1, <2>3, <3>2, <3>3, <3>4, KnownKinds, StayShape
  <2> QED
    BY <2>1, <2>2, <2>3
<1>3. ASSUME NEW id \in Ids, Delete(t, id) PROVE ShapeInv'
  <2>1. Erase(id) /\ UNCHANGED <<inst, clock, counter, task, fs, credit>> /\ id \in Keys
    BY <1>3 DEF Delete, Keys
  <2>2. StoreOK'
    BY <2>1, EraseShape DEF ShapeInv
  <2> QED
    BY <2>1, <2>2 DEF ShapeInv, TasksOK, Tasks
<1>4. ASSUME NEW ics \in inst.calendars, Import(t, ics) PROVE ShapeInv'
  <2> DEFINE x == ListKeys([for |-> "import", todo |-> ics])
  <2>1. inst.kind = "calendar" /\ Go(t, x) /\ UNCHANGED <<inst, clock, db, counter, fs, credit, gone>>
    BY <1>4 DEF Import
  <2>2. ics \in Seq(Occurrences)
    BY InstanceFacts DEF ShapeInv, StoreOK
  <2>3. x \in ImportLists
    BY <2>2 DEF ListKeys, ImportLists, Present
  <2> HIDE DEF x
  <2>4. KnownTask(inst.kind, x)
    BY <2>1, <2>3, KnownKinds DEF AllImports
  <2>5. credit' \in [Keys -> Int]
    BY <2>1 DEF ShapeInv, StoreOK
  <2> QED
    BY <2>1, <2>4, <2>5, StayShape
<1>5. ASSUME NEW roots \in SUBSET Paths, Walk(t, roots) PROVE ShapeInv'
  BY <1>5, WalkShape
<1> QED
  BY <1>1, <1>2, <1>3, <1>4, <1>5 DEF Handle

LEMMA FailShape ==
    ASSUME ShapeInv, NEW t \in Tasks, Failing(t),
           UNCHANGED <<inst, clock, db, counter, fs, credit, gone>>
    PROVE  ShapeInv'
<1>1. Go(t, Idle)
  BY DEF Failing
<1> QED
  BY <1>1, IdleShape, StayShape DEF ShapeInv, StoreOK

LEMMA IndexFileFacts ==
    ASSUME ShapeInv, NEW t \in Tasks, IndexFile(t)
    PROVE  /\ inst.kind = "library" /\ task[t] \in Indexings
           /\ \E e \in task[t].todo :
                 /\ e \in Entries
                 /\ [task[t] EXCEPT !.todo = @ \ {e}] \in Indexings
                 /\ \/ e \notin task[t].old /\ Put(t, e, [task[t] EXCEPT !.todo = @ \ {e}])
                    \/ /\ e \in task[t].old /\ Go(t, [task[t] EXCEPT !.todo = @ \ {e}])
                       /\ UNCHANGED <<inst, clock, db, counter, fs, credit, gone>>
<1>1. inst.kind = "library" /\ task[t] \in Indexings
  BY TaskKinds DEF IndexFile
<1>2. PICK e \in task[t].todo :
         \/ e \notin task[t].old /\ Put(t, e, [task[t] EXCEPT !.todo = @ \ {e}])
         \/ /\ e \in task[t].old /\ Go(t, [task[t] EXCEPT !.todo = @ \ {e}])
            /\ UNCHANGED <<inst, clock, db, counter, fs, credit, gone>>
  BY DEF IndexFile, Current
<1>3. e \in Entries /\ [task[t] EXCEPT !.todo = @ \ {e}] \in Indexings
  BY <1>1, <1>2 DEF Indexings
<1> QED
  BY <1>1, <1>2, <1>3

LEMMA UnindexFacts ==
    ASSUME ShapeInv, NEW t \in Tasks, Unindex(t)
    PROVE  /\ inst.kind = "library" /\ task[t] \in Indexings /\ task[t].todo = {}
           /\ UNCHANGED <<inst, clock, counter, fs, credit>>
           /\ \E o \in task[t].old :
                 /\ o.id \in Keys /\ \A e \in task[t].seen : e.id # o.id
                 /\ [task[t] EXCEPT !.old = @ \ {o}] \in Indexings
                 /\ \/ Erase(o.id) /\ Go(t, [task[t] EXCEPT !.old = @ \ {o}])
                    \/ (Erase(o.id) \/ UNCHANGED <<db, gone>>) /\ Go(t, Idle)
<1>1. inst.kind = "library" /\ task[t] \in Indexings
  BY TaskKinds DEF Unindex
<1>2. PICK o \in task[t].old :
         /\ \A e \in task[t].seen : e.id # o.id
         /\ \/ Erase(o.id) /\ Go(t, [task[t] EXCEPT !.old = @ \ {o}])
            \/ (Erase(o.id) \/ UNCHANGED <<db, gone>>) /\ Go(t, Idle)
  BY DEF Unindex, Failing
<1>3. o \in Entries /\ [task[t] EXCEPT !.old = @ \ {o}] \in Indexings
  BY <1>1, <1>2 DEF Indexings
<1>4. o.id \in Keys
  BY <1>3 DEF Entries, Keys
<1> QED
  BY <1>1, <1>2, <1>3, <1>4 DEF Unindex

StampNext(x) == [pc |-> "stamp", seen |-> x.seen, alone |-> x.alone]

LEMMA StampFacts ==
    ASSUME ShapeInv, NEW t \in Tasks, StampScan(t)
    PROVE  /\ inst.kind = "library" /\ task[t] \in Indexings /\ task[t].todo = {}
           /\ StampNext(task[t]) \in Stampings
           /\ UNCHANGED <<inst, clock, db, counter, fs, credit, gone>>
           /\ \A o \in task[t].old : \E e \in task[t].seen : e.id = o.id
           /\ Go(t, StampNext(task[t])) \/ Go(t, Idle)
<1>1. inst.kind = "library" /\ task[t] \in Indexings
  BY TaskKinds DEF StampScan
<1>2. StampNext(task[t]) \in Stampings
  BY <1>1 DEF Indexings, Stampings, StampNext
<1> QED
  BY <1>1, <1>2 DEF StampScan, Failing, StampNext

LEMMA ShapeContinue ==
    ASSUME ShapeInv, NEW t \in Tasks, Continue(t)
    PROVE  ShapeInv'
<1>0. credit \in [Keys -> Int]
  BY DEF ShapeInv, StoreOK
<1>1. CASE PutDoc(t)
  <2>1. task[t].pc = "put" /\ Put(t, task[t].doc, Idle)
    BY <1>1 DEF PutDoc
  <2>2. task[t].doc \in GoodDocs(inst.kind)
    BY <2>1, TaskKinds DEF Puts
  <2> QED
    BY <2>1, <2>2, IdleShape, PutShape
<1>2. CASE ReadDocs(t)
  BY <1>0, <1>2, ListedKnown, StayShape DEF ReadDocs
<1>3. CASE ReadFails(t)
  BY <1>3, FailShape DEF ReadFails
<1>4. CASE Mark(t)
  <2>1. PICK d : /\ Marked(d) \in GoodEvents /\ MarkNext(task[t], d) \in Publishes
                 /\ Put(t, Marked(d), MarkNext(task[t], d))
    BY <1>4, MarkFacts
  <2>2. inst.kind = "calendar"
    BY <1>4, MarkFacts
  <2>3. KnownTask(inst.kind, MarkNext(task[t], d))
    BY <2>1, <2>2, KnownKinds DEF Scans
  <2> QED
    BY <2>1, <2>2, <2>3, PutShape DEF GoodEvents
<1>5. CASE PublishDue(t)
  <2>1. /\ inst.kind = "calendar" /\ task[t] \in Publishes
        /\ Go(t, ScanNext(task[t].now, task[t].due))
        /\ credit' = [credit EXCEPT ![task[t].event.id] = @ - 1]
        /\ UNCHANGED <<inst, clock, db, counter, fs, gone>>
    BY <1>5, TaskKinds DEF PublishDue
  <2>2. task[t].now \in Nat /\ task[t].due \subseteq GoodEvents
    BY <2>1 DEF Publishes
  <2>3. KnownTask(inst.kind, ScanNext(task[t].now, task[t].due))
    BY <2>1, <2>2, ScanNextKnown
  <2>4. credit' \in [Keys -> Int]
    <3> DEFINE k == task[t].event.id
    <3>1. credit' = [credit EXCEPT ![k] = credit[k] - 1]
      BY <2>1
    <3>2. k \in Keys
      BY <2>1, DocFacts DEF Publishes, GoodEvents, Kinds
    <3>3. credit[k] - 1 \in Int
      BY <1>0, <3>2
    <3> HIDE DEF k
    <3> QED
      BY <1>0, <3>1, <3>2, <3>3
  <2> QED
    BY <2>1, <2>3, <2>4, StayShape
<1>6. CASE ImportOne(t)
  <2>1. inst.kind = "calendar" /\ UNCHANGED <<inst, clock, db, fs, credit, gone>>
    BY <1>6, ImportOneFacts
  <2>2. PICK x \in ImportPuts : \/ Go(t, x) /\ UNCHANGED counter
                                \/ NextId \in Ids /\ DrawId(t, x)
    BY <1>6, ImportOneFacts
  <2>3. KnownTask(inst.kind, x)
    BY <2>1, <2>2, KnownKinds DEF AllImports
  <2> QED
    BY <1>0, <2>1, <2>2, <2>3, StayShape, DrawShape
<1>7. CASE ImportPut(t)
  <2>1. /\ inst.kind = "calendar" /\ task[t] \in ImportPuts
        /\ Put(t, task[t].doc, ImportNext(task[t].byUid, task[t].todo, task[t].left))
    BY <1>7, TaskKinds DEF ImportPut
  <2>2. /\ task[t].doc \in GoodEvents /\ task[t].byUid \in Indices
        /\ task[t].todo \in Seq(Occurrences) /\ task[t].left \in Int
    BY <2>1 DEF ImportPuts
  <2>3. KnownTask(inst.kind, ImportNext(task[t].byUid, task[t].todo, task[t].left))
    BY <2>1, <2>2, ImportNextKnown
  <2> QED
    BY <2>1, <2>2, <2>3, PutShape DEF GoodEvents
<1>8. CASE IndexFile(t)
  <2>1. PICK e \in Entries, x \in Indexings :
           Put(t, e, x) \/ (Go(t, x) /\ UNCHANGED <<inst, clock, db, counter, fs, credit, gone>>)
    BY <1>8, IndexFileFacts
  <2>2. inst.kind = "library" /\ KnownTask(inst.kind, x) /\ e \in GoodDocs(inst.kind)
    BY <1>8, <2>1, IndexFileFacts, KnownKinds, EntryFacts DEF LibraryScans
  <2> QED
    BY <1>0, <2>1, <2>2, PutShape, StayShape
<1>9. CASE Unindex(t)
  <2>1. inst.kind = "library" /\ UNCHANGED <<inst, clock, counter, fs, credit>>
    BY <1>9, UnindexFacts
  <2>2. PICK k \in Keys, x \in Indexings \cup {Idle} :
           (Erase(k) \/ UNCHANGED <<db, gone>>) /\ Go(t, x)
    BY <1>9, UnindexFacts
  <2>3. KnownTask(inst.kind, x)
    BY <2>1, <2>2, KnownKinds, IdleShape DEF LibraryScans
  <2>4. TasksOK'
    BY <2>1, <2>2, <2>3, GoShape DEF ShapeInv
  <2>5. StoreOK'
    BY <1>0, <2>1, <2>2, EraseShape, SameStore DEF ShapeInv, StoreOK
  <2> QED
    BY <2>4, <2>5 DEF ShapeInv
<1>10. CASE StampScan(t)
  <2>1. KnownTask(inst.kind, StampNext(task[t]))
    BY <1>10, StampFacts, KnownKinds DEF LibraryScans
  <2> QED
    BY <1>0, <1>10, <2>1, StampFacts, StayShape, IdleShape
<1>11. CASE EndScan(t)
  BY <1>0, <1>11, StayShape, IdleShape DEF EndScan
<1> QED
  BY <1>1, <1>2, <1>3, <1>4, <1>5, <1>6, <1>7, <1>8, <1>9, <1>10, <1>11 DEF Continue

LEMMA ShapeStep == ShapeInv /\ [Next]_vars => ShapeInv'
<1> SUFFICES ASSUME ShapeInv, [Next]_vars PROVE ShapeInv'
  OBVIOUS
<1>0. StoreOK /\ TasksOK /\ credit \in [Keys -> Int]
  BY DEF ShapeInv, StoreOK
<1>1. ASSUME NEW t \in Tasks, Handle(t) PROVE ShapeInv'
  BY <1>1, ShapeHandle
<1>2. ASSUME NEW t \in Tasks, Continue(t) PROVE ShapeInv'
  BY <1>2, ShapeContinue
<1>3. ASSUME NEW t \in Tasks, Scan(t) PROVE ShapeInv'
  <2> DEFINE x == ListKeys([for |-> "scan", now |-> clock])
  <2>1. inst.kind = "calendar" /\ Go(t, x) /\ UNCHANGED <<inst, clock, db, counter, fs, credit, gone>>
    BY <1>3 DEF Scan
  <2>2. clock \in Nat
    BY <1>0, InstanceFacts DEF StoreOK
  <2>3. x \in ScanLists
    BY <2>2 DEF ListKeys, ScanLists, Present
  <2> HIDE DEF x
  <2>4. KnownTask(inst.kind, x)
    BY <2>1, <2>3, KnownKinds DEF Scans
  <2> QED
    BY <1>0, <2>1, <2>4, StayShape
<1>4. ASSUME NEW p \in Paths, ChangeFile(p) PROVE ShapeInv'
  <2>1. /\ \E v \in 0 .. inst.maxTime : fs' = [fs EXCEPT ![p] = v]
        /\ UNCHANGED <<inst, clock, db, counter, task, credit, gone>>
    BY <1>4 DEF ChangeFile
  <2>2. fs' \in [Paths -> Nat]
    BY <1>0, <2>1, InstanceFacts DEF StoreOK
  <2> QED
    BY <1>0, <2>1, <2>2 DEF ShapeInv, StoreOK, TasksOK, Tasks, Present
<1>5. CASE Tick
  <2>1. clock' \in 1 .. inst.maxTime
    BY <1>0, <1>5, InstanceFacts DEF Tick, StoreOK
  <2> QED
    BY <1>0, <1>5, <2>1 DEF Tick, ShapeInv, StoreOK, TasksOK, Tasks, Present
<1>6. CASE Crash
  <2>1. TasksOK'
    BY <1>6, IdleShape DEF Crash, TasksOK, Tasks
  <2> QED
    BY <1>0, <1>6, <2>1 DEF Crash, ShapeInv, StoreOK, Present
<1>7. CASE UNCHANGED vars
  BY <1>0, <1>7 DEF vars, ShapeInv, StoreOK, TasksOK, Tasks, Present
<1> QED
  BY <1>1, <1>2, <1>3, <1>4, <1>5, <1>6, <1>7 DEF Next

-----------------------------------------------------------------------------
(* Ids.                                                                     *)

LEMMA CopiesOf ==
    ASSUME NEW x
    PROVE  /\ x.pc = "put" => Copies(x) = {x.doc} /\ (Creating(x) <=> x.new)
           /\ x.pc = "importput" => Copies(x) = {x.doc} \cup Known(x.byUid) /\ (Creating(x) <=> x.new)
           /\ x.pc = "import" => Copies(x) = Known(x.byUid) /\ ~Creating(x)
           /\ x.pc \in {"mark", "publish"} => Copies(x) = x.due /\ ~Creating(x)
           /\ x.pc \notin {"put", "importput", "import", "mark", "publish"} => Copies(x) = {} /\ ~Creating(x)
BY DEF Copies, Creating

LEMMA IdleCopies == Copies(Idle) = {} /\ ~Creating(Idle)
BY CopiesOf DEF Idle

(* A document that is about to be created is among the copies.               *)
LEMMA CreatingCopies ==
    ASSUME NEW x, Creating(x)
    PROVE  x.doc \in Copies(x)
BY DEF Creating, Copies

LEMMA CounterFacts ==
    ASSUME ShapeInv
    PROVE  counter \in Nat
BY FS_CardinalityType, DocumentsAssumption DEF ShapeInv, StoreOK

LEMMA TracedIds ==
    ASSUME NEW d, Traced(d)
    PROVE  d.id \in Present \cup gone
BY DEF Traced

(* Task t goes on with x, and the others still hold what they held.          *)
LEMMA IdsKept ==
    ASSUME IdsInv, inst.kind # "library", inst' = inst, NEW t \in Tasks, NEW x,
           task' = [u \in Tasks |-> IF u = t THEN x ELSE task[u]],
           counter \in Nat, counter' \in Nat, counter' >= counter,
           (Present \cup gone)' \subseteq 1 .. counter',
           \A u \in Tasks : \A d \in Copies(task[u]) : d.id \in Int,
           \A d \in Copies(x) : d.id \in Int,
           \A u \in Tasks \ {t} : \A d \in Copies(task[u]) : Traced(d) => Traced(d)',
           \A d \in Copies(x) : Traced(d)' \/ (Creating(x) /\ d = x.doc),
           Creating(x) => /\ x.doc.id \notin (Present \cup gone)' /\ x.doc.id <= counter'
                          /\ \A u \in Tasks \ {t} : \A d \in Copies(task[u]) : d.id # x.doc.id,
           \A u \in Tasks \ {t} : Creating(task[u]) => task[u].doc.id \notin (Present \cup gone)'
    PROVE  IdsInv'
<1>1. Tasks' = Tasks /\ inst'.kind # "library"
  BY DEF Tasks
<1>2. ASSUME NEW u \in Tasks, NEW d \in Copies(task'[u])
      PROVE  d.id <= counter' /\ ((Creating(task'[u]) /\ d = task'[u].doc) \/ Traced(d)')
  <2>1. CASE u = t
    <3>1. task'[u] = x /\ d \in Copies(x)
      BY <1>2, <2>1
    <3>2. Traced(d)' => d.id \in (Present \cup gone)'
      BY DEF Traced
    <3> QED
      BY <3>1, <3>2
  <2>2. CASE u # t
    <3>1. task'[u] = task[u] /\ d \in Copies(task[u])
      BY <1>2, <2>2
    <3>2. d.id <= counter /\ ((Creating(task[u]) /\ d = task[u].doc) \/ Traced(d))
      BY <3>1 DEF IdsInv
    <3> QED
      BY <2>2, <3>1, <3>2
  <2> QED
    BY <2>1, <2>2
<1>3. ASSUME NEW u \in Tasks, Creating(task'[u])
      PROVE  /\ task'[u].doc.id \notin (Present \cup gone)'
             /\ \A v \in Tasks \ {u} : \A d \in Copies(task'[v]) : d.id # task'[u].doc.id
  <2>1. CASE u = t
    BY <1>3, <2>1
  <2>2. CASE u # t
    <3>1. task'[u] = task[u] /\ Creating(task[u])
      BY <1>3, <2>2
    <3>2. task[u].doc.id \notin (Present \cup gone)'
      BY <2>2, <3>1
    <3>3. ASSUME NEW v \in Tasks \ {u}, NEW d \in Copies(task'[v]) PROVE d.id # task[u].doc.id
      <4>1. CASE v # t
        BY <3>1, <3>3, <4>1 DEF IdsInv
      <4>2. CASE v = t
        <5>1. d \in Copies(x)
          BY <3>3, <4>2
        <5>2. CASE Traced(d)'
          <6>1. d.id \in (Present \cup gone)'
            BY <5>2 DEF Traced
          <6> QED
            BY <3>2, <6>1
        <5>3. CASE Creating(x) /\ d = x.doc
          <6>1. task[u].doc \in Copies(task[u])
            BY <3>1, CreatingCopies
          <6> QED
            BY <2>2, <5>3, <6>1
        <5> QED
          BY <5>1, <5>2, <5>3
      <4> QED
        BY <4>1, <4>2
    <3> QED
      BY <3>1, <3>2, <3>3
  <2> QED
    BY <2>1, <2>2
<1> QED
  BY <1>1, <1>2, <1>3 DEF IdsInv

LEMMA GoesOn ==
    ASSUME ShapeInv, NEW t \in Tasks, NEW x, Go(t, x)
    PROVE  task' = [u \in Tasks |-> IF u = t THEN x ELSE task[u]]
BY DEF ShapeInv, TasksOK, Go

LEMMA KnownDocs ==
    ASSUME NEW byUid \in Indices
    PROVE  Known(byUid) \subseteq GoodEvents
BY DEF Known, Indices

LEMMA CopiesAreDocs ==
    ASSUME ShapeInv, NEW x, KnownTask(inst.kind, x)
    PROVE  Copies(x) \subseteq GoodDocs(inst.kind)
<1>1. CASE x = Idle
  BY <1>1, IdleCopies
<1>2. CASE x \in Puts(inst.kind)
  <2>1. x.pc = "put" /\ x.doc \in GoodDocs(inst.kind)
    BY <1>2 DEF Puts
  <2> QED
    BY <2>1, CopiesOf
<1>3. CASE inst.kind = "calendar" /\ x \in Scans
  <2>1. \/ x.pc = "docs"
        \/ x.pc \in {"mark", "publish"} /\ x.due \subseteq GoodEvents
    BY <1>3 DEF Scans, ScanLists, Marks, Publishes
  <2> QED
    BY <1>3, <2>1, CopiesOf DEF GoodEvents
<1>4. CASE inst.kind = "calendar" /\ x \in AllImports
  <2>1. \/ x.pc = "docs"
        \/ x.pc = "import" /\ x.byUid \in Indices
        \/ x.pc = "importput" /\ x.byUid \in Indices /\ x.doc \in GoodEvents
    BY <1>4 DEF AllImports, ImportLists, Importing, ImportPuts
  <2> QED
    BY <1>4, <2>1, CopiesOf, KnownDocs DEF GoodEvents
<1>5. CASE x \in LibraryScans
  <2>1. x.pc \in {"docs", "index", "stamp"}
    BY <1>5 DEF LibraryScans, IndexLists, Indexings, Stampings
  <2> QED
    BY <2>1, CopiesOf
<1> QED
  BY <1>1, <1>2, <1>3, <1>4, <1>5 DEF KnownTask

LEMMA CopyIds ==
    ASSUME ShapeInv, inst.kind # "library", NEW x, KnownTask(inst.kind, x)
    PROVE  \A d \in Copies(x) : d.id \in Ids /\ d.id \in Int /\ d.id >= 1
<1>1. \A d \in Copies(x) : d.id \in Ids
  BY CopiesAreDocs, DocFacts, InstanceFacts DEF ShapeInv, StoreOK
<1> QED
  BY <1>1, DocumentsAssumption, FS_CardinalityType

LEMMA AllCopyIds ==
    ASSUME ShapeInv, inst.kind # "library"
    PROVE  \A t \in Tasks : \A d \in Copies(task[t]) : d.id \in Ids /\ d.id \in Int /\ d.id >= 1
BY CopyIds DEF ShapeInv, TasksOK

(* Nothing stored changes; x holds what t held, what is stored, or a new     *)
(* document under the next id.                                               *)
LEMMA IdsMove ==
    ASSUME ShapeInv, IdsInv, inst.kind # "library", NEW t \in Tasks, NEW x, KnownTask(inst.kind, x),
           Go(t, x), UNCHANGED <<inst, db, gone>>, counter' \in {counter, counter + 1},
           \A d \in Copies(x) : Traced(d) \/ (Creating(x) /\ d = x.doc),
           Creating(x) => x.doc.id = counter + 1 /\ counter' = counter + 1
    PROVE  IdsInv'
<1>1. counter \in Nat /\ counter' \in Nat /\ counter' >= counter
  BY CounterFacts
<1>2. (Present \cup gone)' = Present \cup gone /\ Present \cup gone \subseteq 1 .. counter
  BY DEF Present, IdsInv
<1>3. \A d : Traced(d) => Traced(d)'
  BY DEF Traced, Present
<1>4. Creating(x) => /\ x.doc.id \notin (Present \cup gone)' /\ x.doc.id <= counter'
                     /\ \A u \in Tasks \ {t} : \A d \in Copies(task[u]) : d.id # x.doc.id
  <2>1. \A u \in Tasks : \A d \in Copies(task[u]) : d.id \in Int /\ d.id <= counter
    BY AllCopyIds DEF IdsInv
  <2> QED
    BY <1>1, <1>2, <2>1
<1>5. (Present \cup gone)' \subseteq 1 .. counter'
  BY <1>1, <1>2
<1>6. \A u \in Tasks \ {t} : Creating(task[u]) => task[u].doc.id \notin (Present \cup gone)'
  BY <1>2 DEF IdsInv
<1>7. \A d \in Copies(x) : Traced(d)' \/ (Creating(x) /\ d = x.doc)
  BY <1>3
<1>8. task' = [u \in Tasks |-> IF u = t THEN x ELSE task[u]]
  BY GoesOn
<1>9. /\ \A u \in Tasks : \A d \in Copies(task[u]) : d.id \in Int
      /\ \A d \in Copies(x) : d.id \in Int
  BY AllCopyIds, CopyIds
<1> QED
  BY <1>1, <1>3, <1>4, <1>5, <1>6, <1>7, <1>8, <1>9, IdsKept

LEMMA IdsIdle ==
    ASSUME ShapeInv, IdsInv, inst.kind # "library", NEW t \in Tasks,
           Go(t, Idle), UNCHANGED <<inst, db, gone>>, counter' \in {counter, counter + 1}
    PROVE  IdsInv'
BY IdsMove, IdleShape, IdleCopies

(* Task t writes a copy it held, and keeps some of the others.               *)
LEMMA IdsPut ==
    ASSUME ShapeInv, IdsInv, inst.kind # "library", NEW t \in Tasks, NEW c \in Copies(task[t]),
           NEW d \in GoodDocs(inst.kind), d.id = c.id, inst.kind = "calendar" => d.uid = c.uid,
           Creating(task[t]) => d = task[t].doc,
           NEW x, KnownTask(inst.kind, x), Copies(x) \subseteq Copies(task[t]), ~Creating(x),
           Put(t, d, x)
    PROVE  IdsInv'
<1>0. /\ inst' = inst /\ counter' = counter /\ gone' = gone
      /\ \/ Store(d) /\ (Go(t, x) \/ Go(t, Idle))
         \/ db' = db /\ Go(t, Idle)
  BY DEF Put, Failing
<1>1. CASE db' = db /\ Go(t, Idle)
  BY <1>0, <1>1, IdsIdle
<1>2. ASSUME NEW y, y \in {x, Idle}, Store(d), Go(t, y) PROVE IdsInv'
  <2>1. counter \in Nat /\ counter' \in Nat /\ counter' >= counter
    BY <1>0, CounterFacts
  <2>2. d.id \in Keys /\ d # NoDoc /\ db \in [Keys -> GoodDocs(inst.kind) \cup {NoDoc}]
    BY DocFacts, InstanceFacts DEF ShapeInv, StoreOK
  <2>3. db' = [db EXCEPT ![d.id] = d]
    BY <1>2 DEF Store
  <2>4. Present' = Present \cup {d.id}
    BY <2>2, <2>3 DEF Present
  <2>5. d.id \in 1 .. counter
    BY <2>1, AllCopyIds DEF IdsInv
  <2>6. (Present \cup gone)' \subseteq 1 .. counter'
    BY <1>0, <2>4, <2>5 DEF IdsInv
  <2>7. ASSUME NEW e, Traced(e) PROVE Traced(e)'
    <3>1. CASE e.id \in gone
      BY <1>0, <3>1 DEF Traced
    <3>2. CASE e.id \notin gone /\ e.id # d.id
      <4>1. db'[e.id] = db[e.id] /\ e.id \in Present'
        BY <2>2, <2>3, <2>4, <2>7, <3>2 DEF Traced, Present
      <4> QED
        BY <1>0, <2>7, <3>2, <4>1 DEF Traced
    <3>3. CASE e.id \notin gone /\ e.id = d.id
      <4>1. e.id \in Present /\ (inst.kind = "calendar" => db[e.id].uid = e.uid)
        BY <2>7, <3>3 DEF Traced
      <4>2. Traced(c)
        BY <3>3, <4>1 DEF IdsInv
      <4>3. inst.kind = "calendar" => d.uid = e.uid
        BY <3>3, <4>1, <4>2 DEF Traced
      <4>4. db'[e.id] = d
        BY <2>2, <2>3, <3>3
      <4> QED
        BY <1>0, <2>4, <3>3, <4>3, <4>4 DEF Traced
    <3> QED
      BY <3>1, <3>2, <3>3
  <2>8. ASSUME NEW e \in Copies(y) PROVE Traced(e)'
    <3>1. e \in Copies(task[t])
      BY <1>2, <2>8, IdleCopies
    <3>2. CASE Traced(e)
      BY <2>7, <3>2
    <3>3. CASE Creating(task[t]) /\ e = task[t].doc
      <4>1. e = d /\ db'[e.id] = d /\ e.id \in Present'
        BY <2>2, <2>3, <2>4, <3>3
      <4> QED
        BY <4>1 DEF Traced
    <3> QED
      BY <3>1, <3>2, <3>3 DEF IdsInv
  <2>9. \A u \in Tasks \ {t} : Creating(task[u]) => task[u].doc.id \notin (Present \cup gone)'
    BY <1>0, <2>4 DEF IdsInv
  <2>10. task' = [u \in Tasks |-> IF u = t THEN y ELSE task[u]]
    BY <1>2, GoesOn
  <2>11. ~Creating(y) /\ \A e \in Copies(y) : e.id \in Int
    BY <1>2, CopyIds, IdleCopies
  <2>12. \A u \in Tasks : \A e \in Copies(task[u]) : e.id \in Int
    BY AllCopyIds
  <2> QED
    BY <1>0, <2>1, <2>6, <2>7, <2>8, <2>9, <2>10, <2>11, <2>12, IdsKept
<1> QED
  BY <1>0, <1>1, <1>2

(* A document is deleted.                                                    *)
LEMMA IdsErase ==
    ASSUME ShapeInv, IdsInv, inst.kind # "library", NEW k \in Keys, Erase(k),
           UNCHANGED <<inst, counter, task>>
    PROVE  IdsInv'
<1>1. (Present \cup gone)' \subseteq Present \cup gone
  BY DEF Erase, Present, ShapeInv, StoreOK
<1>2. ASSUME NEW d, Traced(d) PROVE Traced(d)'
  <2>1. CASE d.id \in gone'
    BY <2>1 DEF Traced
  <2>2. CASE d.id \notin gone'
    <3>1. d.id \notin gone /\ d.id \in Present /\ d.id # k
      BY <1>2, <2>2 DEF Traced, Erase, Present
    <3>2. db'[d.id] = db[d.id] /\ d.id \in Present'
      BY <3>1 DEF Erase, Present, ShapeInv, StoreOK
    <3> QED
      BY <1>2, <3>1, <3>2 DEF Traced
  <2> QED
    BY <2>1, <2>2
<1>3. Tasks' = Tasks
  BY DEF Tasks
<1>4. (Present \cup gone)' \subseteq 1 .. counter'
  BY <1>1 DEF IdsInv
<1>5. \A t \in Tasks : \A d \in Copies(task'[t]) :
         d.id <= counter' /\ ((Creating(task'[t]) /\ d = task'[t].doc) \/ Traced(d)')
  BY <1>2 DEF IdsInv
<1>6. \A t \in Tasks : Creating(task'[t]) =>
         /\ task'[t].doc.id \notin (Present \cup gone)'
         /\ \A u \in Tasks \ {t} : \A d \in Copies(task'[u]) : d.id # task'[t].doc.id
  BY <1>1 DEF IdsInv
<1> QED
  BY <1>3, <1>4, <1>5, <1>6 DEF IdsInv

(* The documents stored are traced by themselves.                            *)
LEMMA StoredTraced ==
    ASSUME ShapeInv, NEW k \in Present
    PROVE  Traced(db[k]) /\ db[k].id = k
BY DEF ShapeInv, StoreOK, Traced

LEMMA TracedCopy ==
    ASSUME NEW c, Traced(c), NEW d, d.id = c.id, inst.kind = "calendar" => d.uid = c.uid
    PROVE  Traced(d)
BY DEF Traced

LEMMA ScanNextCopies ==
    ASSUME NEW now, NEW due
    PROVE  Copies(ScanNext(now, due)) \subseteq due /\ ~Creating(ScanNext(now, due))
<1>1. CASE due = {}
  BY <1>1, IdleCopies DEF ScanNext
<1>2. CASE due # {}
  <2>1. /\ ScanNext(now, due).pc = "mark"
        /\ ScanNext(now, due).due = due
    BY <1>2 DEF ScanNext
  <2> QED
    BY <2>1, CopiesOf
<1> QED
  BY <1>1, <1>2

LEMMA ImportNextCopies ==
    ASSUME NEW byUid, NEW todo, NEW left
    PROVE  /\ Copies(ImportNext(byUid, todo, left)) \subseteq Known(byUid)
           /\ ~Creating(ImportNext(byUid, todo, left))
<1>1. CASE todo = <<>> \/ left = 0
  BY <1>1, IdleCopies DEF ImportNext
<1>2. CASE ~(todo = <<>> \/ left = 0)
  <2>1. /\ ImportNext(byUid, todo, left).pc = "import"
        /\ ImportNext(byUid, todo, left).byUid = byUid
    BY <1>2 DEF ImportNext
  <2> QED
    BY <2>1, CopiesOf
<1> QED
  BY <1>1, <1>2

(* A listing holds documents that are stored.                                *)
LEMMA ListedCopies ==
    ASSUME ShapeInv, NEW t \in Tasks, task[t].pc = "docs"
    PROVE  LET x == ListedBy(task[t].who, {db[k] : k \in task[t].keys \cap Present})
           IN Copies(x) \subseteq {db[k] : k \in Present} /\ ~Creating(x)
<1> DEFINE docs == {db[k] : k \in task[t].keys \cap Present}
           who == task[t].who
           x == ListedBy(who, docs)
<1>0. docs \subseteq {db[k] : k \in Present}
  OBVIOUS
<1>1. CASE inst.kind = "calendar" /\ task[t] \in ScanLists
  <2>1. who.for = "scan"
    BY <1>1, ListFacts
  <2>2. x = ScanNext(who.now, DueEvents(docs, who.now)) /\ DueEvents(docs, who.now) \subseteq docs
    BY <2>1 DEF ListedBy, DueEvents
  <2> HIDE DEF docs, who, x
  <2>3. Copies(x) \subseteq docs /\ ~Creating(x)
    BY <2>2, ScanNextCopies
  <2> QED
    BY <1>0, <2>3 DEF docs, who, x
<1>2. CASE inst.kind = "calendar" /\ task[t] \in ImportLists
  <2>1. who.for = "import" /\ task[t].keys \subseteq Keys
    BY <1>2, ListFacts
  <2>2. docs \subseteq GoodEvents
    BY <1>2, <2>1, ListedDocs DEF GoodEvents
  <2>3. x = ImportNext(ByUid(docs), who.todo, inst.maxImport)
    BY <2>1 DEF ListedBy
  <2> HIDE DEF docs, who, x
  <2>4. Known(ByUid(docs)) \subseteq docs
    BY <2>2, ByUidFacts DEF Known
  <2>5. Copies(x) \subseteq docs /\ ~Creating(x)
    BY <2>3, <2>4, ImportNextCopies
  <2> QED
    BY <1>0, <2>5 DEF docs, who, x
<1>3. CASE inst.kind = "library" /\ task[t] \in IndexLists
  <2>1. who.for = "index"
    BY <1>3, ListFacts
  <2>2. x.pc = "index"
    BY <2>1 DEF ListedBy
  <2> HIDE DEF docs, who, x
  <2>3. Copies(x) = {} /\ ~Creating(x)
    BY <2>2, CopiesOf
  <2> QED
    BY <2>3 DEF docs, who, x
<1> QED
  BY <1>1, <1>2, <1>3, TaskKinds

LEMMA IdsHandle ==
    ASSUME ShapeInv, IdsInv, inst.kind # "library", NEW t \in Tasks, Handle(t)
    PROVE  IdsInv'
<1>1. ASSUME NEW r \in inst.requests, Create(t, r) PROVE IdsInv'
  <2> DEFINE d == NewDoc(NextId, r.new)
             x == [pc |-> "put", new |-> TRUE, doc |-> d]
  <2>1. /\ r.op = "create" /\ Accepted(r) /\ NextId \in Ids /\ DrawId(t, x)
        /\ UNCHANGED <<inst, db, gone>>
    BY <1>1 DEF Create
  <2>2. d \in GoodDocs(inst.kind) /\ d.id = NextId
    BY <2>1, NewIsGood DEF ShapeInv, StoreOK
  <2> HIDE DEF d
  <2>3. x \in Puts(inst.kind)
    BY <2>2 DEF Puts
  <2>4. x.pc = "put" /\ x.doc = d /\ x.new
    OBVIOUS
  <2> HIDE DEF x
  <2>5. KnownTask(inst.kind, x) /\ Copies(x) = {d} /\ Creating(x)
    BY <2>3, <2>4, KnownKinds, CopiesOf
  <2>6. CASE Go(t, x) /\ counter' = counter + 1
    BY <2>1, <2>2, <2>4, <2>5, <2>6, IdsMove DEF NextId
  <2>7. CASE Go(t, Idle) /\ counter' \in {counter, counter + 1}
    BY <2>1, <2>7, IdsIdle
  <2> QED
    BY <2>1, <2>6, <2>7 DEF DrawId, Failing
<1>2. ASSUME NEW r \in inst.requests, NEW id \in Ids, Update(t, r, id) PROVE IdsInv'
  <2> DEFINE d == Patched(db[id], r.patch)
             x == [pc |-> "put", new |-> FALSE, doc |-> d]
  <2>1. /\ r.op \in {"update", "done"} /\ Accepted(r)
        /\ \/ db[id] # NoDoc /\ Acceptable(d) /\ Go(t, x)
           \/ UNCHANGED task
        /\ UNCHANGED <<inst, db, counter, gone>>
    BY <1>2 DEF Update
  <2>2. CASE UNCHANGED task
    BY <2>1, <2>2 DEF IdsInv, Tasks, Present, Traced
  <2>3. CASE db[id] # NoDoc /\ Acceptable(d) /\ Go(t, x)
    <3>1. db[id] \in GoodDocs(inst.kind) /\ id \in Present
      BY <2>3 DEF ShapeInv, StoreOK, Keys, Present
    <3>2. /\ d \in GoodDocs(inst.kind) /\ d.id = db[id].id
          /\ inst.kind = "calendar" => d.uid = db[id].uid
      BY <2>1, <2>3, <3>1, PatchedIsGood DEF ShapeInv, StoreOK
    <3>3. Traced(d)
      BY <3>1, <3>2, StoredTraced, TracedCopy
    <3> HIDE DEF d
    <3>4. x \in Puts(inst.kind)
      BY <3>2 DEF Puts
    <3>5. x.pc = "put" /\ x.doc = d /\ ~x.new
      OBVIOUS
    <3> HIDE DEF x
    <3>6. KnownTask(inst.kind, x) /\ Copies(x) = {d} /\ ~Creating(x)
      BY <3>4, <3>5, KnownKinds, CopiesOf
    <3> QED
      BY <2>1, <2>3, <3>3, <3>6, IdsMove
  <2> QED
    BY <2>1, <2>2, <2>3
<1>3. ASSUME NEW id \in Ids, Delete(t, id) PROVE IdsInv'
  BY <1>3, IdsErase DEF Delete, Keys
<1>4. ASSUME NEW ics \in inst.calendars, Import(t, ics) PROVE IdsInv'
  <2> DEFINE x == ListKeys([for |-> "import", todo |-> ics])
  <2>1. inst.kind = "calendar" /\ Go(t, x) /\ UNCHANGED <<inst, db, counter, gone>>
    BY <1>4 DEF Import
  <2>2. ics \in Seq(Occurrences)
    BY InstanceFacts DEF ShapeInv, StoreOK
  <2>3. x \in ImportLists /\ x.pc = "docs"
    BY <2>2 DEF ListKeys, ImportLists, Present
  <2> HIDE DEF x
  <2>4. KnownTask(inst.kind, x) /\ Copies(x) = {} /\ ~Creating(x)
    BY <2>1, <2>3, KnownKinds, CopiesOf DEF AllImports
  <2> QED
    BY <2>1, <2>4, IdsMove
<1>5. ASSUME NEW roots \in SUBSET Paths, Walk(t, roots) PROVE IdsInv'
  BY <1>5 DEF Walk
<1> QED
  BY <1>1, <1>2, <1>3, <1>4, <1>5 DEF Handle

LEMMA IdsContinue ==
    ASSUME ShapeInv, IdsInv, inst.kind # "library", NEW t \in Tasks, Continue(t)
    PROVE  IdsInv'
<1>0. KnownTask(inst.kind, task[t])
  BY DEF ShapeInv, TasksOK
<1>1. CASE PutDoc(t)
  <2>1. task[t].pc = "put" /\ Put(t, task[t].doc, Idle)
    BY <1>1 DEF PutDoc
  <2>2. task[t].doc \in Copies(task[t]) /\ task[t].doc \in GoodDocs(inst.kind)
    BY <1>0, <2>1, CopiesOf, CopiesAreDocs
  <2> QED
    BY <2>1, <2>2, IdleShape, IdleCopies, IdsPut
<1>2. CASE ReadDocs(t)
  <2> DEFINE x == ListedBy(task[t].who, {db[k] : k \in task[t].keys \cap Present})
  <2>1. task[t].pc = "docs" /\ Go(t, x) /\ UNCHANGED <<inst, db, counter, gone>>
    BY <1>2 DEF ReadDocs
  <2>2. KnownTask(inst.kind, x)
    BY <2>1, ListedKnown
  <2>3. Copies(x) \subseteq {db[k] : k \in Present} /\ ~Creating(x)
    BY <2>1, ListedCopies
  <2> HIDE DEF x
  <2>4. \A d \in Copies(x) : Traced(d)
    BY <2>3, StoredTraced
  <2> QED
    BY <2>1, <2>2, <2>3, <2>4, IdsMove
<1>3. CASE ReadFails(t)
  BY <1>3, IdsIdle DEF ReadFails, Failing
<1>4. CASE Mark(t)
  <2>1. inst.kind = "calendar" /\ task[t] \in Marks
    BY <1>4, MarkFacts
  <2>2. PICK d \in task[t].due :
           /\ Marked(d) \in GoodEvents /\ Marked(d).id = d.id /\ Marked(d).uid = d.uid
           /\ MarkNext(task[t], d) \in Publishes /\ Put(t, Marked(d), MarkNext(task[t], d))
    BY <1>4, MarkFacts
  <2>3. Copies(task[t]) = task[t].due /\ ~Creating(task[t])
    BY <2>1, CopiesOf DEF Marks
  <2>4. /\ Copies(MarkNext(task[t], d)) \subseteq Copies(task[t])
        /\ ~Creating(MarkNext(task[t], d))
    BY <2>3, CopiesOf DEF MarkNext
  <2>5. KnownTask(inst.kind, MarkNext(task[t], d)) /\ Marked(d) \in GoodDocs(inst.kind)
    BY <2>1, <2>2, KnownKinds DEF Scans, GoodEvents
  <2> QED
    BY <2>2, <2>3, <2>4, <2>5, IdsPut
<1>5. CASE PublishDue(t)
  <2> DEFINE x == ScanNext(task[t].now, task[t].due)
  <2>1. /\ inst.kind = "calendar" /\ task[t] \in Publishes /\ Go(t, x)
        /\ UNCHANGED <<inst, db, counter, gone>>
    BY <1>5, TaskKinds DEF PublishDue
  <2>2. task[t].now \in Nat /\ task[t].due \subseteq GoodEvents /\ task[t].pc = "publish"
    BY <2>1 DEF Publishes
  <2>3. KnownTask(inst.kind, x) /\ Copies(x) \subseteq task[t].due /\ ~Creating(x)
    BY <2>1, <2>2, ScanNextKnown, ScanNextCopies
  <2>4. Copies(task[t]) = task[t].due /\ ~Creating(task[t])
    BY <2>2, CopiesOf
  <2> HIDE DEF x
  <2>5. \A d \in Copies(x) : Traced(d)
    BY <2>3, <2>4 DEF IdsInv
  <2> QED
    BY <2>1, <2>3, <2>5, IdsMove
<1>6. CASE ImportOne(t)
  <2>1. inst.kind = "calendar" /\ task[t] \in Importing /\ UNCHANGED <<inst, db, gone>>
    BY <1>6, ImportOneFacts
  <2>2. PICK u \in Uids \cup {None}, known \in BOOLEAN, doc \in GoodEvents, byUid \in Indices :
           /\ Placed(task[t], u, known, doc, byUid)
           /\ ImportPutNext(task[t], known, doc, byUid) \in ImportPuts
           /\ known => Go(t, ImportPutNext(task[t], known, doc, byUid)) /\ UNCHANGED counter
           /\ ~known => DrawId(t, ImportPutNext(task[t], known, doc, byUid))
    BY <1>6, ImportOneFacts
  <2> DEFINE x == ImportPutNext(task[t], known, doc, byUid)
  <2>3. x.pc = "importput" /\ x.doc = doc /\ x.byUid = byUid /\ x.new = ~known
    BY DEF ImportPutNext
  <2>4. x \in ImportPuts /\ KnownTask(inst.kind, x)
    BY <2>1, <2>2, KnownKinds DEF AllImports
  <2> HIDE DEF x
  <2>5. Copies(x) = {doc} \cup Known(byUid) /\ (Creating(x) <=> ~known)
    BY <2>3, CopiesOf
  <2>6. Copies(task[t]) = Known(task[t].byUid) /\ ~Creating(task[t]) /\ task[t].byUid \in Indices
    BY <2>1, CopiesOf DEF Importing
  <2>7. Known(byUid) \subseteq {doc} \cup Known(task[t].byUid)
    BY <2>2, <2>6 DEF Placed, Known, Indices
  <2>8. \A d \in Known(task[t].byUid) : Traced(d)
    BY <2>6 DEF IdsInv
  <2>9. known => Traced(doc)
    <3> SUFFICES ASSUME known PROVE Traced(doc)
      OBVIOUS
    <3>1. /\ u \in Uids /\ task[t].byUid[u] # NoDoc /\ doc.id = task[t].byUid[u].id
          /\ doc.uid = task[t].byUid[u].uid
      BY <2>2 DEF Placed
    <3>2. task[t].byUid[u] \in Known(task[t].byUid)
      BY <3>1 DEF Known
    <3> QED
      BY <2>8, <3>1, <3>2, TracedCopy
  <2>10. \A d \in Copies(x) : Traced(d) \/ (Creating(x) /\ d = x.doc)
    BY <2>3, <2>5, <2>7, <2>8, <2>9
  <2>11. Creating(x) => x.doc.id = counter + 1
    BY <2>2, <2>3, <2>5 DEF Placed, NextId
  <2>12. CASE known
    BY <2>1, <2>2, <2>4, <2>5, <2>10, <2>12, IdsMove DEF x
  <2>13. CASE ~known /\ Go(t, x) /\ counter' = counter + 1
    BY <2>1, <2>4, <2>10, <2>11, <2>13, IdsMove
  <2>14. CASE ~known /\ Go(t, Idle) /\ counter' \in {counter, counter + 1}
    BY <2>1, <2>14, IdsIdle
  <2> QED
    BY <2>2, <2>12, <2>13, <2>14 DEF DrawId, Failing, x
<1>7. CASE ImportPut(t)
  <2> DEFINE x == ImportNext(task[t].byUid, task[t].todo, task[t].left)
  <2>1. inst.kind = "calendar" /\ task[t] \in ImportPuts /\ Put(t, task[t].doc, x)
    BY <1>7, TaskKinds DEF ImportPut
  <2>2. /\ task[t].doc \in GoodEvents /\ task[t].byUid \in Indices /\ task[t].pc = "importput"
        /\ task[t].todo \in Seq(Occurrences) /\ task[t].left \in Int
    BY <2>1 DEF ImportPuts
  <2>3. KnownTask(inst.kind, x) /\ Copies(x) \subseteq Known(task[t].byUid) /\ ~Creating(x)
    BY <2>1, <2>2, ImportNextKnown, ImportNextCopies
  <2>4. Copies(task[t]) = {task[t].doc} \cup Known(task[t].byUid)
    BY <2>2, CopiesOf
  <2> HIDE DEF x
  <2> QED
    BY <2>1, <2>2, <2>3, <2>4, IdsPut DEF GoodEvents
<1>8. ASSUME IndexFile(t) \/ Unindex(t) \/ StampScan(t) PROVE FALSE
  BY <1>8, IndexFileFacts, UnindexFacts, StampFacts
<1>9. CASE EndScan(t)
  BY <1>9, IdsIdle DEF EndScan
<1> QED
  BY <1>1, <1>2, <1>3, <1>4, <1>5, <1>6, <1>7, <1>8, <1>9 DEF Continue

(* Nothing that ids depend on changes.                                       *)
LEMMA IdsSame ==
    ASSUME IdsInv, UNCHANGED <<inst, db, counter, task, gone>>
    PROVE  IdsInv'
BY DEF IdsInv, Tasks, Present, Traced

LEMMA SameInstance ==
    ASSUME [Next]_vars
    PROVE  inst' = inst
<1>1. ASSUME NEW t \in Tasks, Handle(t) PROVE inst' = inst
  BY <1>1 DEF Handle, Create, Update, Delete, Import, Walk
<1>2. ASSUME NEW t \in Tasks, PutDoc(t) \/ Mark(t) \/ ImportPut(t) PROVE inst' = inst
  BY <1>2 DEF PutDoc, Mark, ImportPut, Put
<1>3. ASSUME NEW t \in Tasks, ReadDocs(t) \/ ReadFails(t) \/ PublishDue(t) \/ Unindex(t)
             \/ StampScan(t) \/ EndScan(t) \/ Scan(t)
      PROVE  inst' = inst
  BY <1>3 DEF ReadDocs, ReadFails, PublishDue, Unindex, StampScan, EndScan, Scan
<1>4. ASSUME NEW t \in Tasks, ImportOne(t) PROVE inst' = inst
  BY <1>4 DEF ImportOne
<1>5. ASSUME NEW t \in Tasks, IndexFile(t) PROVE inst' = inst
  BY <1>5 DEF IndexFile, Put
<1> QED
  BY <1>1, <1>2, <1>3, <1>4, <1>5 DEF Next, Continue, ChangeFile, Tick, Crash, vars

LEMMA IdsStep == ShapeInv /\ IdsInv /\ [Next]_vars => IdsInv'
<1> SUFFICES ASSUME ShapeInv, IdsInv, [Next]_vars PROVE IdsInv'
  OBVIOUS
<1>0. CASE inst.kind = "library"
  <2>1. inst' = inst
    BY SameInstance
  <2> QED
    BY <1>0, <2>1 DEF IdsInv
<1>1. CASE inst.kind # "library"
  <2>1. ASSUME NEW t \in Tasks, Handle(t) PROVE IdsInv'
    BY <1>1, <2>1, IdsHandle
  <2>2. ASSUME NEW t \in Tasks, Continue(t) PROVE IdsInv'
    BY <1>1, <2>2, IdsContinue
  <2>3. ASSUME NEW t \in Tasks, Scan(t) PROVE IdsInv'
    <3> DEFINE x == ListKeys([for |-> "scan", now |-> clock])
    <3>1. inst.kind = "calendar" /\ Go(t, x) /\ UNCHANGED <<inst, db, counter, gone>>
      BY <2>3 DEF Scan
    <3>2. clock \in Nat
      BY InstanceFacts DEF StoreOK, ShapeInv
    <3>3. x \in ScanLists /\ x.pc = "docs"
      BY <3>2 DEF ListKeys, ScanLists, Present
    <3> HIDE DEF x
    <3>4. KnownTask(inst.kind, x) /\ Copies(x) = {} /\ ~Creating(x)
      BY <3>1, <3>3, KnownKinds, CopiesOf DEF Scans
    <3> QED
      BY <1>1, <3>1, <3>4, IdsMove
  <2>4. ASSUME NEW p \in Paths, ChangeFile(p) PROVE IdsInv'
    BY <2>4, IdsSame DEF ChangeFile
  <2>5. CASE Tick
    BY <2>5, IdsSame DEF Tick
  <2>6. CASE Crash
    <3>1. Tasks' = Tasks /\ \A t \in Tasks : task'[t] = Idle
      BY <2>6 DEF Crash, Tasks
    <3> QED
      BY <2>6, <3>1, IdleCopies DEF Crash, IdsInv, Present
  <2>7. CASE UNCHANGED vars
    BY <2>7, IdsSame DEF vars
  <2> QED
    BY <2>1, <2>2, <2>3, <2>4, <2>5, <2>6, <2>7 DEF Next
<1> QED
  BY <1>0, <1>1

-----------------------------------------------------------------------------
(* Reminders.                                                               *)

\* Whatever becomes armed gets a credit, and none is taken.
CreditGrows ==
    \A k \in Keys : /\ credit'[k] >= credit[k]
                    /\ Armed(db[k])' /\ ~Armed(db[k]) => credit'[k] >= credit[k] + 1

LEMMA StoreGrows ==
    ASSUME ShapeInv, inst' = inst, NEW d \in GoodDocs(inst.kind), Store(d)
    PROVE  CreditGrows
<1>1. db \in [Keys -> GoodDocs(inst.kind) \cup {NoDoc}] /\ credit \in [Keys -> Int] /\ d.id \in Keys
  BY DocFacts, InstanceFacts DEF ShapeInv, StoreOK
<1>2. db' = [db EXCEPT ![d.id] = d]
  BY DEF Store
<1>3. ASSUME NEW k \in Keys
      PROVE  /\ credit'[k] >= credit[k]
             /\ Armed(db[k])' /\ ~Armed(db[k]) => credit'[k] >= credit[k] + 1
  <2>1. CASE k = d.id
    <3>1. db'[k] = d
      BY <1>1, <1>2, <2>1
    <3>2. Armed(db[k])' <=> Armed(d)
      BY <3>1 DEF Armed
    <3> QED
      BY <1>1, <2>1, <3>2 DEF Store
  <2>2. CASE k # d.id
    <3>1. db'[k] = db[k] /\ credit'[k] = credit[k]
      BY <1>1, <1>2, <2>2 DEF Store
    <3> QED
      BY <1>1, <3>1 DEF Armed
  <2> QED
    BY <2>1, <2>2
<1> QED
  BY <1>3 DEF CreditGrows

LEMMA EraseGrows ==
    ASSUME ShapeInv, inst' = inst, NEW i \in Keys, Erase(i), credit' = credit
    PROVE  CreditGrows
BY DEF CreditGrows, Erase, Armed, ShapeInv, StoreOK

LEMMA SameGrows ==
    ASSUME ShapeInv, UNCHANGED <<inst, db, credit>>
    PROVE  CreditGrows
BY DEF CreditGrows, Armed, ShapeInv, StoreOK

(* What the scans rely on stays when no credit is taken.                     *)
LEMMA CreditKept ==
    ASSUME ShapeInv, CreditInv, inst.kind = "calendar", inst' = inst, CreditGrows,
           credit' \in [Keys -> Int],
           \A u \in Tasks : task'[u] = task[u] \/ ScanOK(u, task[u])'
    PROVE  CreditInv'
<1>0. Tasks' = Tasks /\ (OneScan' <=> OneScan) /\ credit \in [Keys -> Int]
  BY DEF Tasks, OneScan, ShapeInv, StoreOK
<1>1. OneScan => \A k \in Keys : credit'[k] >= 0 /\ (Armed(db[k])' => credit'[k] >= 1)
  <2> SUFFICES ASSUME OneScan, NEW k \in Keys
               PROVE  credit'[k] >= 0 /\ (Armed(db[k])' => credit'[k] >= 1)
    OBVIOUS
  <2>1. credit[k] >= 0 /\ (Armed(db[k]) => credit[k] >= 1) /\ credit[k] \in Int /\ credit'[k] \in Int
    BY <1>0 DEF CreditInv
  <2>2. credit'[k] >= credit[k] /\ (Armed(db[k])' /\ ~Armed(db[k]) => credit'[k] >= credit[k] + 1)
    BY DEF CreditGrows
  <2> QED
    BY <2>1, <2>2
<1>2. ASSUME NEW u \in Tasks, task'[u] = task[u] PROVE ScanOK(u, task[u])'
  <2>1. ScanOK(u, task[u])
    BY DEF CreditInv
  <2>2. task[u].pc \in {"mark", "publish"} => \A d \in task[u].due : d.id \in Keys
    <3>1. task[u].pc \in {"mark", "publish"} => task[u].due \subseteq GoodEvents
      BY TaskKinds DEF Marks, Publishes
    <3> QED
      BY <3>1, DocFacts DEF GoodEvents, Kinds
  <2>3. ASSUME OneScan, task[u].pc \in {"mark", "publish"}, NEW d \in task[u].due
        PROVE  credit'[d.id] >= 1
    <3>1. d.id \in Keys /\ credit[d.id] >= 1
      BY <2>1, <2>2, <2>3 DEF ScanOK
    <3> QED
      BY <1>0, <3>1 DEF CreditGrows
  <2>4. ASSUME OneScan, NEW k \in Keys, Publishing(task[u], k)
        PROVE  credit'[k] >= IF Armed(db[k])' THEN 2 ELSE 1
    <3>1. credit[k] >= IF Armed(db[k]) THEN 2 ELSE 1
      BY <2>1, <2>4 DEF ScanOK
    <3>2. credit'[k] >= credit[k] /\ (Armed(db[k])' /\ ~Armed(db[k]) => credit'[k] >= credit[k] + 1)
      BY DEF CreditGrows
    <3>3. credit[k] \in Int /\ credit'[k] \in Int
      BY <1>0
    <3> QED
      BY <3>1, <3>2, <3>3
  <2>5. task[u] \in Scans => u \in inst'.scanners
    BY <2>1 DEF ScanOK
  <2>6. task[u].pc \in {"mark", "publish"} =>
           OneEach(task[u].due) /\ (task[u].pc = "publish" => \A d \in task[u].due : d.id # task[u].event.id)
    BY <2>1 DEF ScanOK
  <2> QED
    BY <1>0, <1>2, <2>3, <2>4, <2>5, <2>6 DEF ScanOK
<1> QED
  BY <1>0, <1>1, <1>2 DEF CreditInv

(* A task that has nothing due.                                              *)
LEMMA NothingDue ==
    ASSUME NEW u, NEW x, x.pc \notin {"mark", "publish"}, x \in Scans => u \in inst'.scanners
    PROVE  ScanOK(u, x)'
BY DEF ScanOK, Publishing

LEMMA CreditGo ==
    ASSUME ShapeInv, CreditInv, inst.kind = "calendar", inst' = inst, CreditGrows,
           credit' \in [Keys -> Int], NEW t \in Tasks, NEW x, Go(t, x), ScanOK(t, x)'
    PROVE  CreditInv'
<1>1. task' = [u \in Tasks |-> IF u = t THEN x ELSE task[u]]
  BY GoesOn
<1>2. \A u \in Tasks : u # t => task'[u] = task[u]
  BY <1>1
<1>3. task'[t] = x
  BY <1>1
<1>4. ScanOK(t, task[t])'
  BY <1>3
<1> QED
  BY <1>2, <1>4, CreditKept

LEMMA IdleDue == Idle.pc \notin {"mark", "publish"} /\ Idle \notin Scans
BY DEF Idle, Scans, ScanLists, Marks, Publishes

LEMMA CreditQuiet ==
    ASSUME ShapeInv, CreditInv, inst.kind = "calendar", UNCHANGED <<inst, db, credit>>,
           NEW t \in Tasks, NEW x, Go(t, x), x.pc \notin {"mark", "publish"},
           x \in Scans => t \in inst.scanners
    PROVE  CreditInv'
<1>1. CreditGrows /\ inst' = inst
  BY SameGrows
<1>2. credit' \in [Keys -> Int]
  BY DEF ShapeInv, StoreOK
<1>3. ScanOK(t, x)'
  BY NothingDue
<1> QED
  BY <1>1, <1>2, <1>3, CreditGo

LEMMA CreditIdle ==
    ASSUME ShapeInv, CreditInv, inst.kind = "calendar", UNCHANGED <<inst, db, credit>>,
           NEW t \in Tasks, Go(t, Idle)
    PROVE  CreditInv'
BY IdleDue, CreditQuiet

LEMMA CreditPut ==
    ASSUME ShapeInv, ShapeInv', CreditInv, inst.kind = "calendar", NEW t \in Tasks,
           NEW d \in GoodDocs(inst.kind), NEW x, Put(t, d, x), Store(d) /\ Go(t, x) => ScanOK(t, x)'
    PROVE  CreditInv'
<1>1. /\ inst' = inst
      /\ \/ Store(d) /\ (Go(t, x) \/ Go(t, Idle))
         \/ db' = db /\ credit' = credit /\ Go(t, Idle)
  BY DEF Put, Failing
<1>2. credit' \in [Keys -> Int]
  BY DEF ShapeInv, StoreOK
<1>3. CASE Store(d) /\ Go(t, x)
  BY <1>1, <1>2, <1>3, StoreGrows, CreditGo
<1>4. CASE Store(d) /\ Go(t, Idle)
  <2>1. ScanOK(t, Idle)'
    BY IdleDue, NothingDue
  <2> QED
    BY <1>1, <1>2, <1>4, <2>1, StoreGrows, CreditGo
<1>5. CASE db' = db /\ credit' = credit /\ Go(t, Idle)
  BY <1>1, <1>5, CreditIdle
<1> QED
  BY <1>1, <1>3, <1>4, <1>5

LEMMA CreditDraw ==
    ASSUME ShapeInv, CreditInv, inst.kind = "calendar", UNCHANGED <<inst, db, credit>>,
           NEW t \in Tasks, NEW x, DrawId(t, x), x.pc \in {"put", "importput"}, x \notin Scans
    PROVE  CreditInv'
<1>1. Go(t, x) \/ Go(t, Idle)
  BY DEF DrawId, Failing
<1> QED
  BY <1>1, CreditQuiet, CreditIdle

LEMMA ScanPcs == \A x \in Scans : x.pc \in {"docs", "mark", "publish"}
BY DEF Scans, ScanLists, Marks, Publishes

LEMMA CreditSame ==
    ASSUME ShapeInv, CreditInv, UNCHANGED <<inst, db, credit, task>>
    PROVE  CreditInv'
<1>1. credit' \in [Keys -> Int]
  BY DEF ShapeInv, StoreOK
<1>2. CASE inst.kind = "calendar"
  BY <1>1, <1>2, SameGrows, CreditKept
<1> QED
  BY <1>2 DEF CreditInv

LEMMA CreditHandle ==
    ASSUME ShapeInv, CreditInv, inst.kind = "calendar", NEW t \in Tasks, Handle(t)
    PROVE  CreditInv'
<1>1. ASSUME NEW r \in inst.requests, Create(t, r) PROVE CreditInv'
  <2>1. PICK x : x = [pc |-> "put", new |-> TRUE, doc |-> NewDoc(NextId, r.new)]
    OBVIOUS
  <2>2. DrawId(t, x) /\ UNCHANGED <<inst, db, credit>>
    BY <1>1, <2>1 DEF Create
  <2>3. x.pc = "put"
    BY <2>1
  <2> QED
    BY <2>2, <2>3, ScanPcs, CreditDraw
<1>2. ASSUME NEW r \in inst.requests, NEW id \in Ids, Update(t, r, id) PROVE CreditInv'
  <2>1. PICK x : x = [pc |-> "put", new |-> FALSE, doc |-> Patched(db[id], r.patch)]
    OBVIOUS
  <2>2. (Go(t, x) \/ UNCHANGED task) /\ UNCHANGED <<inst, db, credit>>
    BY <1>2, <2>1 DEF Update
  <2>3. x.pc = "put"
    BY <2>1
  <2> QED
    BY <2>2, <2>3, ScanPcs, CreditQuiet, CreditSame
<1>3. ASSUME NEW id \in Ids, Delete(t, id) PROVE CreditInv'
  <2>1. Erase(id) /\ UNCHANGED <<inst, task, credit>> /\ id \in Keys
    BY <1>3 DEF Delete, Keys
  <2>2. credit' \in [Keys -> Int]
    BY <2>1 DEF ShapeInv, StoreOK
  <2> QED
    BY <2>1, <2>2, EraseGrows, CreditKept
<1>4. ASSUME NEW ics \in inst.calendars, Import(t, ics) PROVE CreditInv'
  <2>1. PICK x : x = ListKeys([for |-> "import", todo |-> ics])
    OBVIOUS
  <2>2. Go(t, x) /\ UNCHANGED <<inst, db, credit>>
    BY <1>4, <2>1 DEF Import
  <2>3. x.pc = "docs" /\ x.who.for = "import"
    BY <2>1 DEF ListKeys
  <2>4. x \notin Scans
    BY <2>3 DEF Scans, ScanLists, Marks, Publishes
  <2> QED
    BY <2>2, <2>3, <2>4, CreditQuiet
<1>5. ASSUME NEW roots \in SUBSET Paths, Walk(t, roots) PROVE CreditInv'
  BY <1>5 DEF Walk
<1> QED
  BY <1>1, <1>2, <1>3, <1>4, <1>5 DEF Handle

LEMMA ImportNextPc ==
    ASSUME NEW byUid, NEW todo, NEW left
    PROVE  /\ ImportNext(byUid, todo, left).pc \in {"idle", "import"}
           /\ ImportNext(byUid, todo, left) \notin Scans
<1>1. ImportNext(byUid, todo, left).pc \in {"idle", "import"}
  BY DEF ImportNext, Idle
<1> QED
  BY <1>1, ScanPcs

(* The events listed as due are armed.                                       *)
LEMMA DueAreArmed ==
    ASSUME ShapeInv, inst.kind = "calendar", NEW keys, NEW now
    PROVE  LET due == DueEvents({db[k] : k \in keys \cap Present}, now)
           IN OneEach(due) /\ \A d \in due : d.id \in Keys /\ Armed(db[d.id])
<1> DEFINE due == DueEvents({db[k] : k \in keys \cap Present}, now)
<1>1. ASSUME NEW d \in due PROVE d.id \in Keys /\ db[d.id] = d /\ Armed(d)
  <2>1. PICK k \in Present : d = db[k]
    BY DEF DueEvents
  <2>2. d.id = k /\ k \in Keys /\ d # NoDoc
    BY <2>1, StoredTraced DEF Present
  <2> QED
    BY <2>1, <2>2 DEF DueEvents, Armed
<1> QED
  BY <1>1 DEF OneEach

LEMMA CreditRead ==
    ASSUME ShapeInv, CreditInv, inst.kind = "calendar", NEW t \in Tasks, ReadDocs(t)
    PROVE  CreditInv'
<1> DEFINE docs == {db[k] : k \in task[t].keys \cap Present}
           who == task[t].who
<1>0. task[t].pc = "docs" /\ Go(t, ListedBy(who, docs)) /\ UNCHANGED <<inst, db, credit>>
  BY DEF ReadDocs
<1>1. CASE task[t] \in ImportLists
  <2>1. who.for = "import"
    BY <1>1, ListFacts
  <2>2. ListedBy(who, docs) = ImportNext(ByUid(docs), who.todo, inst.maxImport)
    BY <2>1 DEF ListedBy
  <2>3. PICK x : x = ListedBy(who, docs)
    OBVIOUS
  <2>4. x.pc \notin {"mark", "publish"} /\ x \notin Scans
    BY <2>2, <2>3, ImportNextPc
  <2> QED
    BY <1>0, <2>3, <2>4, CreditQuiet
<1>2. CASE task[t] \in ScanLists
  <2>1. who.for = "scan"
    BY <1>2, ListFacts
  <2>2. PICK due : due = DueEvents(docs, who.now)
    OBVIOUS
  <2>3. ListedBy(who, docs) = ScanNext(who.now, due)
    BY <2>1, <2>2 DEF ListedBy
  <2>4. OneEach(due) /\ \A d \in due : d.id \in Keys /\ Armed(db[d.id])
    BY <2>2, DueAreArmed
  <2>5. PICK x : x = ScanNext(who.now, due)
    OBVIOUS
  <2>6. x.pc \in {"idle", "mark"} /\ (x.pc = "mark" => x.due = due)
    BY <2>5 DEF ScanNext, Idle
  <2>7. t \in inst.scanners
    BY <1>2 DEF CreditInv, ScanOK, Scans
  <2>8. OneScan' => OneScan
    BY <1>0 DEF OneScan
  <2>9. OneScan => \A d \in due : credit'[d.id] >= 1
    BY <1>0, <2>4 DEF CreditInv
  <2>10. ScanOK(t, x)'
    BY <1>0, <2>4, <2>6, <2>7, <2>8, <2>9 DEF ScanOK, Publishing
  <2>11. CreditGrows /\ credit' \in [Keys -> Int]
    BY <1>0, SameGrows DEF ShapeInv, StoreOK
  <2> QED
    BY <1>0, <2>3, <2>5, <2>10, <2>11, CreditGo
<1> QED
  BY <1>0, <1>1, <1>2, TaskKinds

LEMMA CreditMark ==
    ASSUME ShapeInv, ShapeInv', CreditInv, NEW t \in Tasks, Mark(t)
    PROVE  CreditInv'
<1>1. inst.kind = "calendar" /\ task[t] \in Marks
  BY MarkFacts
<1>2. PICK d \in task[t].due :
         /\ d \in GoodEvents /\ Marked(d) \in GoodEvents
         /\ Marked(d).id = d.id /\ Marked(d).fired
         /\ Put(t, Marked(d), MarkNext(task[t], d))
  BY MarkFacts
<1>3. PICK x : x = MarkNext(task[t], d)
  OBVIOUS
<1>4. x.pc = "publish" /\ x.event = d /\ x.due = task[t].due \ {d}
  BY <1>3 DEF MarkNext
<1>5. task[t].pc = "mark" /\ task[t] \in Scans /\ ScanOK(t, task[t])
  BY <1>1 DEF Marks, Scans, CreditInv
<1>6. OneEach(task[t].due) /\ t \in inst.scanners /\ (OneScan => \A e \in task[t].due : credit[e.id] >= 1)
  BY <1>5 DEF ScanOK
<1>7. task[t].due \subseteq GoodEvents
  BY <1>1 DEF Marks
<1>8. \A e \in task[t].due : e.id \in Keys
  BY <1>7, DocFacts DEF GoodEvents, Kinds
<1>9. ASSUME Store(Marked(d)) PROVE ScanOK(t, x)'
  <2>1. inst' = inst
    BY <1>2 DEF Put
  <2>2. CreditGrows
    BY <1>1, <1>2, <1>9, <2>1, StoreGrows DEF GoodEvents
  <2>3. OneScan' => OneScan
    BY <2>1 DEF OneScan
  <2>4. ASSUME OneScan, NEW e \in task[t].due PROVE credit'[e.id] >= 1
    <3>1. credit[e.id] >= 1 /\ credit'[e.id] >= credit[e.id] /\ credit[e.id] \in Int /\ credit'[e.id] \in Int
      BY <1>6, <1>8, <2>2, <2>4 DEF CreditGrows, ShapeInv, StoreOK
    <3> QED
      BY <3>1
  <2>5. db'[d.id] = Marked(d)
    BY <1>2, <1>8, <1>9 DEF Store, ShapeInv, StoreOK
  <2>6. ~Armed(db[d.id])'
    BY <1>2, <2>5 DEF Armed
  <2>7. \A e \in x.due : e.id # d.id
    BY <1>4, <1>6 DEF OneEach
  <2>8. OneEach(x.due)
    BY <1>4, <1>6 DEF OneEach
  <2>9. OneScan' => \A k \in Keys : Publishing(x, k) => credit'[k] >= IF Armed(db[k])' THEN 2 ELSE 1
    BY <1>4, <2>3, <2>4, <2>6 DEF Publishing
  <2>10. OneScan' => \A e \in x.due : credit'[e.id] >= 1
    BY <1>4, <2>3, <2>4
  <2> QED
    BY <1>4, <1>6, <2>1, <2>7, <2>8, <2>9, <2>10 DEF ScanOK
<1>10. Put(t, Marked(d), x) /\ Marked(d) \in GoodDocs(inst.kind)
  BY <1>1, <1>2, <1>3 DEF GoodEvents
<1> QED
  BY <1>1, <1>9, <1>10, CreditPut

LEMMA CreditPublish ==
    ASSUME ShapeInv, CreditInv, NEW t \in Tasks, PublishDue(t)
    PROVE  CreditInv'
<1>1. inst.kind = "calendar" /\ task[t] \in Publishes /\ UNCHANGED <<inst, db>>
  BY TaskKinds DEF PublishDue
<1>2. PICK i : i = task[t].event.id
  OBVIOUS
<1>3. PICK x : x = ScanNext(task[t].now, task[t].due)
  OBVIOUS
<1>4. credit' = [credit EXCEPT ![i] = @ - 1] /\ task' = [u \in Tasks |-> IF u = t THEN x ELSE task[u]]
  BY <1>2, <1>3, GoesOn DEF PublishDue
<1>5. i \in Keys /\ task[t].due \subseteq GoodEvents /\ task[t].pc = "publish"
  BY <1>1, <1>2, DocFacts DEF Publishes, GoodEvents, Kinds
<1>6. \A d \in task[t].due : d.id \in Keys
  BY <1>5, DocFacts DEF GoodEvents, Kinds
<1>7. credit \in [Keys -> Int]
  BY DEF ShapeInv, StoreOK
<1>8. \A k \in Keys : credit'[k] = IF k = i THEN credit[k] - 1 ELSE credit[k]
  BY <1>4, <1>5, <1>7
<1>9. ScanOK(t, task[t]) /\ task[t] \in Scans /\ t \in inst.scanners
  BY <1>1 DEF CreditInv, ScanOK, Scans
<1>10. /\ OneEach(task[t].due) /\ \A d \in task[t].due : d.id # i
       /\ OneScan => /\ credit[i] >= IF Armed(db[i]) THEN 2 ELSE 1
                     /\ \A d \in task[t].due : credit[d.id] >= 1
  BY <1>2, <1>5, <1>9 DEF ScanOK, Publishing
<1>11. Tasks' = Tasks /\ (OneScan' <=> OneScan) /\ \A k \in Keys : Armed(db[k])' <=> Armed(db[k])
  BY <1>1 DEF Tasks, OneScan, Armed
<1>12. OneScan => \A k \in Keys : credit'[k] >= 0 /\ (Armed(db[k])' => credit'[k] >= 1)
  <2> SUFFICES ASSUME OneScan, NEW k \in Keys PROVE credit'[k] >= 0 /\ (Armed(db[k]) => credit'[k] >= 1)
    BY <1>11
  <2>1. credit[k] >= 0 /\ (Armed(db[k]) => credit[k] >= 1)
    BY <1>1 DEF CreditInv
  <2>2. credit[k] \in Int /\ credit[i] \in Int
    BY <1>5, <1>7
  <2> QED
    BY <1>8, <1>10, <2>1, <2>2
<1>13. ScanOK(t, x)'
  <2>1. x.pc \in {"idle", "mark"} /\ (x.pc = "mark" => x.due = task[t].due)
    BY <1>3 DEF ScanNext, Idle
  <2>2. OneScan => \A d \in task[t].due : credit'[d.id] >= 1
    BY <1>6, <1>8, <1>10
  <2> QED
    BY <1>1, <1>9, <1>10, <1>11, <2>1, <2>2 DEF ScanOK, Publishing
<1>14. ASSUME NEW u \in Tasks, u # t PROVE ScanOK(u, task[u])'
  <2>1. task'[u] = task[u] /\ ScanOK(u, task[u])
    BY <1>1, <1>4, <1>14 DEF CreditInv
  <2>2. OneScan => task[u] \notin Scans
    BY <1>9, <1>14, <2>1 DEF ScanOK, OneScan
  <2>3. task[u].pc \in {"mark", "publish"} => task[u] \in Scans
    BY TaskKinds DEF Scans
  <2> QED
    BY <1>1, <1>11, <2>1, <2>2, <2>3 DEF ScanOK, Publishing
<1>15. \A u \in Tasks : ScanOK(u, task[u])'
  <2>1. task'[t] = x
    BY <1>4
  <2>2. ScanOK(t, task[t])'
    BY <1>13, <2>1
  <2> QED
    BY <1>14, <2>2
<1> QED
  BY <1>1, <1>11, <1>12, <1>15 DEF CreditInv

LEMMA CreditContinue ==
    ASSUME ShapeInv, ShapeInv', CreditInv, inst.kind = "calendar", NEW t \in Tasks, Continue(t)
    PROVE  CreditInv'
<1>1. CASE PutDoc(t)
  <2>1. task[t].pc = "put" /\ Put(t, task[t].doc, Idle)
    BY <1>1 DEF PutDoc
  <2>2. task[t].doc \in GoodDocs(inst.kind)
    BY <2>1, TaskKinds DEF Puts
  <2>3. ScanOK(t, Idle)'
    BY IdleDue, NothingDue
  <2> QED
    BY <2>1, <2>2, <2>3, CreditPut
<1>2. CASE ReadDocs(t)
  BY <1>2, CreditRead
<1>3. CASE ReadFails(t) \/ EndScan(t)
  BY <1>3, CreditIdle DEF ReadFails, Failing, EndScan
<1>4. CASE Mark(t)
  BY <1>4, CreditMark
<1>5. CASE PublishDue(t)
  BY <1>5, CreditPublish
<1>6. CASE ImportOne(t)
  <2>1. UNCHANGED <<inst, db, credit>>
    BY <1>6, ImportOneFacts
  <2>2. PICK x : x.pc = "importput" /\ (Go(t, x) \/ DrawId(t, x))
    BY <1>6, ImportOneFacts DEF ImportPutNext
  <2> QED
    BY <2>1, <2>2, ScanPcs, CreditQuiet, CreditDraw
<1>7. CASE ImportPut(t)
  <2>1. PICK x : x = ImportNext(task[t].byUid, task[t].todo, task[t].left)
    OBVIOUS
  <2>2. task[t] \in ImportPuts /\ Put(t, task[t].doc, x)
    BY <1>7, <2>1, TaskKinds DEF ImportPut
  <2>3. task[t].doc \in GoodDocs(inst.kind)
    BY <2>2 DEF ImportPuts, GoodEvents
  <2>4. ScanOK(t, x)'
    BY <2>1, ImportNextPc, NothingDue
  <2> QED
    BY <2>2, <2>3, <2>4, CreditPut
<1>8. ASSUME IndexFile(t) \/ Unindex(t) \/ StampScan(t) PROVE FALSE
  BY <1>8, IndexFileFacts, UnindexFacts, StampFacts
<1> QED
  BY <1>1, <1>2, <1>3, <1>4, <1>5, <1>6, <1>7, <1>8 DEF Continue

(* Only events have reminders.                                               *)
LEMMA NoReminders ==
    ASSUME ShapeInv, inst.kind # "calendar", [Next]_vars
    PROVE  credit' = credit
<1>1. ASSUME NEW d, Store(d) PROVE credit' = credit
  BY <1>1 DEF Store, Armed
<1>2. ASSUME NEW t, NEW d, NEW x, Put(t, d, x) PROVE credit' = credit
  BY <1>1, <1>2 DEF Put
<1>3. ASSUME NEW t \in Tasks, Handle(t) PROVE credit' = credit
  BY <1>3 DEF Handle, Create, Update, Delete, Import, Walk
<1>4. ASSUME NEW t \in Tasks, Continue(t) PROVE credit' = credit
  <2>1. CASE PutDoc(t)
    BY <1>2, <2>1 DEF PutDoc
  <2>2. CASE ReadDocs(t) \/ ReadFails(t) \/ EndScan(t)
    BY <2>2 DEF ReadDocs, ReadFails, EndScan
  <2>5. CASE Unindex(t) \/ StampScan(t)
    BY <2>5, UnindexFacts, StampFacts
  <2>3. ASSUME Mark(t) \/ PublishDue(t) \/ ImportOne(t) \/ ImportPut(t) PROVE FALSE
    BY <2>3, TaskKinds DEF Mark, PublishDue, ImportOne, ImportPut
  <2>4. CASE IndexFile(t)
    BY <1>2, <2>4, IndexFileFacts
  <2> QED
    BY <1>4, <2>1, <2>2, <2>3, <2>4, <2>5 DEF Continue
<1> QED
  BY <1>3, <1>4 DEF Next, Scan, ChangeFile, Tick, Crash, vars

LEMMA CreditStep == ShapeInv /\ ShapeInv' /\ CreditInv /\ [Next]_vars => CreditInv'
<1> SUFFICES ASSUME ShapeInv, ShapeInv', CreditInv, [Next]_vars PROVE CreditInv'
  OBVIOUS
<1>0. inst' = inst
  BY SameInstance
<1>1. CASE inst.kind # "calendar"
  BY <1>0, <1>1, NoReminders DEF CreditInv
<1>2. CASE inst.kind = "calendar"
  <2>1. ASSUME NEW t \in Tasks, Handle(t) PROVE CreditInv'
    BY <1>2, <2>1, CreditHandle
  <2>2. ASSUME NEW t \in Tasks, Continue(t) PROVE CreditInv'
    BY <1>2, <2>2, CreditContinue
  <2>3. ASSUME NEW t \in Tasks, Scan(t) PROVE CreditInv'
    <3>1. PICK x : x = ListKeys([for |-> "scan", now |-> clock])
      OBVIOUS
    <3>2. x.pc = "docs"
      BY <3>1 DEF ListKeys
    <3>3. t \in inst.scanners /\ Go(t, x) /\ UNCHANGED <<inst, db, credit>>
      BY <2>3, <3>1 DEF Scan
    <3> QED
      BY <1>2, <3>2, <3>3, CreditQuiet
  <2>4. ASSUME NEW p \in Paths, ChangeFile(p) PROVE CreditInv'
    BY <2>4, CreditSame DEF ChangeFile
  <2>5. CASE Tick
    BY <2>5, CreditSame DEF Tick
  <2>6. CASE Crash
    <3>1. UNCHANGED <<inst, db, credit>> /\ \A t \in Tasks : task'[t] = Idle
      BY <2>6 DEF Crash
    <3>2. credit' \in [Keys -> Int]
      BY <3>1 DEF ShapeInv, StoreOK
    <3>3. \A t \in Tasks : ScanOK(t, Idle)'
      BY IdleDue, NothingDue
    <3>4. \A t \in Tasks : ScanOK(t, task[t])'
      BY <3>1, <3>3
    <3> QED
      BY <1>2, <3>1, <3>2, <3>4, SameGrows, CreditKept
  <2>7. CASE UNCHANGED vars
    BY <2>7, CreditSame DEF vars
  <2> QED
    BY <2>1, <2>2, <2>3, <2>4, <2>5, <2>6, <2>7 DEF Next
<1> QED
  BY <1>1, <1>2

-----------------------------------------------------------------------------
(* Imports.                                                                 *)

\* No UID gets another event.
UidsKept == \A u \in Uids : WithUid(u)' \subseteq WithUid(u)

LEMMA SameUids ==
    ASSUME UNCHANGED <<db, gone>>
    PROVE  UidsKept
BY DEF UidsKept, WithUid, Lasting, Present

LEMMA EraseUids ==
    ASSUME ShapeInv, NEW k \in Keys, Erase(k)
    PROVE  UidsKept
BY DEF UidsKept, WithUid, Lasting, Present, Erase, ShapeInv, StoreOK

LEMMA StoreUids ==
    ASSUME ShapeInv, inst.kind = "calendar", NEW d \in GoodDocs(inst.kind), Store(d), gone' = gone,
           d.uid = None \/ Traced(d)
    PROVE  UidsKept
<1>1. db \in [Keys -> GoodDocs(inst.kind) \cup {NoDoc}] /\ d.id \in Keys
  BY DocFacts, InstanceFacts DEF ShapeInv, StoreOK
<1>2. db' = [db EXCEPT ![d.id] = d]
  BY DEF Store
<1>3. ASSUME NEW u \in Uids, NEW k \in WithUid(u)' PROVE k \in WithUid(u)
  <2>1. k \in Keys /\ db'[k] # NoDoc /\ k \notin gone /\ db'[k].uid = u /\ u # None
    BY <1>3, DocumentsAssumption DEF WithUid, Lasting, Present
  <2>2. CASE k # d.id
    <3>1. db'[k] = db[k]
      BY <1>1, <1>2, <2>1, <2>2
    <3> QED
      BY <2>1, <3>1 DEF WithUid, Lasting, Present
  <2>3. CASE k = d.id
    <3>1. db'[k] = d
      BY <1>1, <1>2, <2>3
    <3>2. Traced(d) /\ d.id \notin gone
      BY <2>1, <2>3, <3>1
    <3> QED
      BY <2>1, <2>3, <3>1, <3>2 DEF WithUid, Lasting, Traced
  <2> QED
    BY <2>2, <2>3
<1> QED
  BY <1>3 DEF UidsKept

LEMMA ImportsKept ==
    ASSUME ImportsInv, inst.kind = "calendar", inst' = inst, UidsKept,
           \A u \in Tasks : task'[u] = task[u] \/ HandlerOK(u, task[u])',
           \A t, u \in Tasks : task'[t] \in AllImports /\ task'[u] \in AllImports => t = u
    PROVE  ImportsInv'
<1>1. Tasks' = Tasks
  BY DEF Tasks
<1>2. \A u \in Uids : \A i, j \in WithUid(u)' : i = j
  BY DEF ImportsInv, UidsKept
<1>3. ASSUME NEW u \in Tasks, task'[u] = task[u] PROVE HandlerOK(u, task[u])'
  <2>1. HandlerOK(u, task[u])
    BY DEF ImportsInv
  <2>2. ASSUME task[u] \in AllImports PROVE ImportOK(task[u])'
    <3>0. PICK x : x = task[u]
      OBVIOUS
    <3>1. ImportOK(x) /\ x \in AllImports
      BY <2>1, <2>2, <3>0 DEF HandlerOK
    <3>2. x.pc = "docs" => \A v \in Uids : WithUid(v)' \subseteq x.keys
      BY <3>1 DEF ImportOK, UidsKept
    <3>3. x.pc \in {"import", "importput"} =>
             \A v \in Uids : /\ WithUid(v)' # {} => x.byUid[v] # NoDoc
                             /\ x.byUid[v] # NoDoc => x.byUid[v].uid = v
      BY <3>1 DEF ImportOK, UidsKept
    <3>4. ASSUME x.pc = "importput", x.doc.uid # None
          PROVE  x.byUid[x.doc.uid] = x.doc /\ (x.new => WithUid(x.doc.uid)' = {})
      <4>1. x.byUid[x.doc.uid] = x.doc /\ (x.new => WithUid(x.doc.uid) = {})
        BY <3>1, <3>4 DEF ImportOK
      <4>2. x \in ImportPuts
        BY <3>1, <3>4 DEF AllImports, ImportLists, Importing
      <4>3. x.doc \in EventDocs
        BY <4>2 DEF ImportPuts, GoodEvents, GoodDocs, DocsOf
      <4>4. x.doc.uid \in Uids
        BY <3>4, <4>3 DEF EventDocs
      <4> QED
        BY <4>1, <4>4 DEF UidsKept
    <3> QED
      BY <1>3, <3>0, <3>2, <3>3, <3>4 DEF ImportOK
  <2> QED
    BY <1>3, <2>1, <2>2 DEF HandlerOK
<1>4. \A u \in Tasks : HandlerOK(u, task[u])'
  BY <1>3
<1> QED
  BY <1>1, <1>2, <1>4 DEF ImportsInv

LEMMA ImportsGo ==
    ASSUME ShapeInv, ImportsInv, inst.kind = "calendar", inst' = inst, UidsKept,
           NEW t \in Tasks, NEW x, Go(t, x), HandlerOK(t, x)',
           x \in AllImports => task[t] \in AllImports
    PROVE  ImportsInv'
<1>1. task' = [u \in Tasks |-> IF u = t THEN x ELSE task[u]]
  BY GoesOn
<1>2. /\ \A u \in Tasks : u # t => task'[u] = task[u]
      /\ task'[t] = x
  BY <1>1
<1>3. HandlerOK(t, task[t])'
  BY <1>2
<1>4. \A u \in Tasks : task'[u] \in AllImports => task[u] \in AllImports
  BY <1>2
<1>5. \A u, v \in Tasks : task'[u] \in AllImports /\ task'[v] \in AllImports => u = v
  BY <1>4 DEF ImportsInv
<1> QED
  BY <1>2, <1>3, <1>5, ImportsKept

LEMMA ImportPcs == \A x \in AllImports : x.pc \in {"docs", "import", "importput"}
BY DEF AllImports, ImportLists, Importing, ImportPuts

(* A task that imports nothing.                                              *)
LEMMA NoImport ==
    ASSUME NEW u, NEW x, x \notin AllImports, x.pc = "put" /\ x.new => x.doc.uid = None
    PROVE  HandlerOK(u, x)'
BY DEF HandlerOK

LEMMA IdleImport == Idle \notin AllImports /\ Idle.pc # "put"
BY ImportPcs DEF Idle

LEMMA ImportsIdle ==
    ASSUME ShapeInv, ImportsInv, inst.kind = "calendar", inst' = inst, UidsKept,
           NEW t \in Tasks, Go(t, Idle)
    PROVE  ImportsInv'
<1>1. HandlerOK(t, Idle)'
  BY IdleImport, NoImport
<1> QED
  BY <1>1, IdleImport, ImportsGo

LEMMA ImportsSame ==
    ASSUME ImportsInv, UNCHANGED <<inst, db, gone, task>>
    PROVE  ImportsInv'
<1>1. CASE inst.kind = "calendar"
  <2>1. \A t, u \in Tasks : task'[t] \in AllImports /\ task'[u] \in AllImports => t = u
    BY <1>1 DEF ImportsInv
  <2> QED
    BY <1>1, <2>1, SameUids, ImportsKept
<1> QED
  BY <1>1 DEF ImportsInv

LEMMA ImportsPut ==
    ASSUME ShapeInv, ImportsInv, inst.kind = "calendar", NEW t \in Tasks,
           NEW d \in GoodDocs(inst.kind), d.uid = None \/ Traced(d),
           NEW x, Put(t, d, x), x \in AllImports => task[t] \in AllImports,
           UidsKept => HandlerOK(t, x)'
    PROVE  ImportsInv'
<1>1. /\ inst' = inst /\ gone' = gone
      /\ Store(d) \/ db' = db
      /\ Go(t, x) \/ Go(t, Idle)
  BY DEF Put, Failing
<1>2. UidsKept
  BY <1>1, StoreUids, SameUids
<1> QED
  BY <1>1, <1>2, ImportsGo, ImportsIdle

LEMMA ImportNextImports ==
    ASSUME NEW byUid, NEW todo, NEW left
    PROVE  LET x == ImportNext(byUid, todo, left)
           IN x = Idle \/ (x.pc = "import" /\ x.byUid = byUid)
BY DEF ImportNext

(* The first event of a UID is stored.                                       *)
LEMMA ImportsNew ==
    ASSUME ShapeInv, ImportsInv, inst.kind = "calendar", NEW t \in Tasks, ImportPut(t),
           task[t].new, task[t].doc.uid # None
    PROVE  ImportsInv'
<1>1. PICK d : d = task[t].doc
  OBVIOUS
<1>2. PICK x : x = ImportNext(task[t].byUid, task[t].todo, task[t].left)
  OBVIOUS
<1>3. PICK w : w = task[t].byUid
  OBVIOUS
<1>4. task[t] \in ImportPuts /\ task[t].pc = "importput" /\ Put(t, d, x)
  BY <1>1, <1>2, TaskKinds DEF ImportPut
<1>5. task[t] \in AllImports
  BY <1>4 DEF AllImports
<1>6. d \in GoodDocs(inst.kind) /\ d.uid \in Uids /\ d.id \in Keys /\ d # NoDoc
  <2>1. d \in GoodEvents
    BY <1>1, <1>4 DEF ImportPuts
  <2>2. d.uid \in Uids
    BY <1>1, <2>1 DEF GoodEvents, GoodDocs, DocsOf, EventDocs
  <2> QED
    BY <2>1, <2>2, DocFacts DEF GoodEvents, Kinds
<1>7. HandlerOK(t, task[t]) /\ \A u \in Tasks : task[u] \in AllImports => u = t
  BY <1>5 DEF ImportsInv
<1>8. /\ t \in inst.handlers /\ w[d.uid] = d /\ WithUid(d.uid) = {}
      /\ \A u \in Uids : /\ WithUid(u) # {} => w[u] # NoDoc
                         /\ w[u] # NoDoc => w[u].uid = u
  BY <1>1, <1>3, <1>4, <1>5, <1>7 DEF HandlerOK, ImportOK
<1>9. CASE db' = db /\ Go(t, Idle)
  BY <1>4, <1>9, SameUids, ImportsIdle DEF Put
<1>10. ASSUME Store(d), NEW y \in {x, Idle}, Go(t, y) PROVE ImportsInv'
  <2>1. inst' = inst /\ gone' = gone /\ Tasks' = Tasks
    BY <1>4 DEF Put, Tasks
  <2>2. db' = [db EXCEPT ![d.id] = d] /\ db \in [Keys -> GoodDocs(inst.kind) \cup {NoDoc}]
    BY <1>10 DEF Store, ShapeInv, StoreOK
  <2>3. \A k \in Keys : db'[k] = IF k = d.id THEN d ELSE db[k]
    BY <2>2
  <2>4. \A u \in Uids : WithUid(u)' \subseteq WithUid(u) \cup (IF u = d.uid THEN {d.id} ELSE {})
    BY <2>1, <2>3 DEF WithUid, Lasting, Present
  <2>5. \A u \in Uids : \A i, j \in WithUid(u)' : i = j
    <3> TAKE u \in Uids
    <3>1. CASE u = d.uid
      BY <1>8, <2>4, <3>1
    <3>2. CASE u # d.uid
      BY <1>6, <2>4, <3>2 DEF ImportsInv
    <3> QED
      BY <3>1, <3>2
  <2>6. task' = [u \in Tasks |-> IF u = t THEN y ELSE task[u]]
    BY <1>10, GoesOn
  <2>7. \A u \in Tasks : u # t => task'[u] = task[u] /\ task'[u] \notin AllImports
    BY <1>7, <2>6
  <2>8. HandlerOK(t, y)'
    <3>1. y = Idle \/ (y.pc = "import" /\ y.byUid = w)
      BY <1>2, <1>3, <1>10, ImportNextImports
    <3>2. CASE y = Idle
      BY <3>2, IdleImport, NoImport
    <3>3. CASE y.pc = "import" /\ y.byUid = w
      <4>1. \A u \in Uids : /\ WithUid(u)' # {} => w[u] # NoDoc
                            /\ w[u] # NoDoc => w[u].uid = u
        BY <1>6, <1>8, <2>4
      <4> QED
        BY <1>8, <2>1, <3>3, <4>1 DEF HandlerOK, ImportOK
    <3> QED
      BY <3>1, <3>2, <3>3
  <2>9. \A u \in Tasks : HandlerOK(u, task[u])'
    <3>1. ASSUME NEW u \in Tasks, u # t PROVE HandlerOK(u, task[u])'
      <4>1. HandlerOK(u, task[u])
        BY <1>6 DEF ImportsInv
      <4> QED
        BY <2>7, <3>1, <4>1 DEF HandlerOK
    <3>2. task'[t] = y
      BY <2>6
    <3>3. HandlerOK(t, task[t])'
      BY <2>8, <3>2
    <3> QED
      BY <3>1, <3>3
  <2> QED
    BY <2>1, <2>5, <2>7, <2>9 DEF ImportsInv
<1> QED
  BY <1>4, <1>9, <1>10 DEF Put, Failing

LEMMA ImportsRead ==
    ASSUME ShapeInv, ImportsInv, inst.kind = "calendar", NEW t \in Tasks, ReadDocs(t)
    PROVE  ImportsInv'
<1> DEFINE docs == {db[k] : k \in task[t].keys \cap Present}
           who == task[t].who
<1>0. task[t].pc = "docs" /\ Go(t, ListedBy(who, docs)) /\ UNCHANGED <<inst, db, gone>>
  BY DEF ReadDocs
<1>1. UidsKept
  BY <1>0, SameUids
<1>2. CASE task[t] \in ScanLists
  <2>1. who.for = "scan"
    BY <1>2, ListFacts
  <2>2. PICK x : x = ScanNext(who.now, DueEvents(docs, who.now))
    OBVIOUS
  <2>3. x.pc \in {"idle", "mark"}
    BY <2>2 DEF ScanNext, Idle
  <2>4. x \notin AllImports /\ x.pc # "put"
    BY <2>3, ImportPcs
  <2>5. HandlerOK(t, x)'
    BY <2>4, NoImport
  <2>6. Go(t, x)
    BY <1>0, <2>1, <2>2 DEF ListedBy
  <2> QED
    BY <1>0, <1>1, <2>4, <2>5, <2>6, ImportsGo
<1>3. CASE task[t] \in ImportLists
  <2>1. who.for = "import" /\ task[t].keys \subseteq Keys
    BY <1>3, ListFacts
  <2>2. PICK w : w = ByUid(docs)
    OBVIOUS
  <2>3. PICK x : x = ImportNext(w, who.todo, inst.maxImport)
    OBVIOUS
  <2>4. Go(t, x)
    BY <1>0, <2>1, <2>2, <2>3 DEF ListedBy
  <2>5. docs \subseteq GoodEvents
    BY <2>1, ListedDocs DEF GoodEvents
  <2>6. task[t] \in AllImports /\ HandlerOK(t, task[t])
    BY <1>3 DEF AllImports, ImportsInv
  <2>7. t \in inst.handlers /\ \A u \in Uids : WithUid(u) \subseteq task[t].keys
    BY <1>0, <2>6 DEF HandlerOK, ImportOK
  <2>8. ASSUME NEW u \in Uids
        PROVE  (WithUid(u)' # {} => w[u] # NoDoc) /\ (w[u] # NoDoc => w[u].uid = u)
    <3>1. w[u] # NoDoc => w[u].uid = u
      BY <2>2, <2>5, ByUidFacts
    <3>2. ASSUME NEW k \in WithUid(u) PROVE w[u] # NoDoc
      <4>1. k \in task[t].keys \cap Present /\ db[k].uid = u
        BY <2>7, <3>2 DEF WithUid, Lasting
      <4>2. db[k] \in docs
        BY <4>1
      <4> HIDE DEF docs
      <4> QED
        BY <2>2, <2>5, <4>1, <4>2, ByUidFacts
    <3> QED
      BY <1>1, <3>1, <3>2 DEF UidsKept
  <2>9. x = Idle \/ (x.pc = "import" /\ x.byUid = w)
    BY <2>3, ImportNextImports
  <2>10. HandlerOK(t, x)'
    <3>1. CASE x = Idle
      BY <3>1, IdleImport, NoImport
    <3>2. CASE x.pc = "import" /\ x.byUid = w
      BY <1>0, <2>7, <2>8, <3>2 DEF HandlerOK, ImportOK
    <3> QED
      BY <2>9, <3>1, <3>2
  <2> QED
    BY <1>0, <1>1, <2>4, <2>6, <2>10, ImportsGo
<1> QED
  BY <1>0, <1>2, <1>3, TaskKinds

LEMMA ImportsHandle ==
    ASSUME ShapeInv, ImportsInv, inst.kind = "calendar", NEW t \in Tasks, Handle(t)
    PROVE  ImportsInv'
<1>1. ASSUME NEW r \in inst.requests, Create(t, r) PROVE ImportsInv'
  <2>1. PICK x : x = [pc |-> "put", new |-> TRUE, doc |-> NewDoc(NextId, r.new)]
    OBVIOUS
  <2>2. /\ DrawId(t, x) /\ UNCHANGED <<inst, db, gone>>
        /\ r.op = "create" /\ Accepted(r) /\ NextId \in Ids
    BY <1>1, <2>1 DEF Create
  <2>3. x.pc = "put" /\ x.doc.uid = None
    BY <2>1, <2>2, NewIsGood DEF ShapeInv, StoreOK
  <2>4. x \notin AllImports
    BY <2>3, ImportPcs
  <2>5. HandlerOK(t, x)'
    BY <2>3, <2>4, NoImport
  <2>6. Go(t, x) \/ Go(t, Idle)
    BY <2>2 DEF DrawId, Failing
  <2> QED
    BY <2>2, <2>4, <2>5, <2>6, SameUids, ImportsGo, ImportsIdle
<1>2. ASSUME NEW r \in inst.requests, NEW id \in Ids, Update(t, r, id) PROVE ImportsInv'
  <2>1. PICK x : x = [pc |-> "put", new |-> FALSE, doc |-> Patched(db[id], r.patch)]
    OBVIOUS
  <2>2. (Go(t, x) \/ UNCHANGED task) /\ UNCHANGED <<inst, db, gone>>
    BY <1>2, <2>1 DEF Update
  <2>3. x.pc = "put" /\ ~x.new
    BY <2>1
  <2>4. x \notin AllImports
    BY <2>3, ImportPcs
  <2>5. HandlerOK(t, x)'
    BY <2>3, <2>4, NoImport
  <2> QED
    BY <2>2, <2>4, <2>5, SameUids, ImportsGo, ImportsSame
<1>3. ASSUME NEW id \in Ids, Delete(t, id) PROVE ImportsInv'
  <2>1. Erase(id) /\ UNCHANGED <<inst, task>> /\ id \in Keys
    BY <1>3 DEF Delete, Keys
  <2>2. \A u, v \in Tasks : task'[u] \in AllImports /\ task'[v] \in AllImports => u = v
    BY <2>1 DEF ImportsInv
  <2> QED
    BY <2>1, <2>2, EraseUids, ImportsKept
<1>4. ASSUME NEW ics \in inst.calendars, Import(t, ics) PROVE ImportsInv'
  <2>1. PICK x : x = ListKeys([for |-> "import", todo |-> ics])
    OBVIOUS
  <2>2. /\ Go(t, x) /\ UNCHANGED <<inst, db, gone>> /\ t \in inst.handlers
        /\ \A u \in inst.handlers : task[u].pc \in {"idle", "put"}
    BY <1>4, <2>1 DEF Import, Receive
  <2>3. x.pc = "docs" /\ x.keys = Present
    BY <2>1 DEF ListKeys
  <2>4. UidsKept
    BY <2>2, SameUids
  <2>5. ImportOK(x)'
    BY <2>2, <2>3 DEF ImportOK, WithUid, Lasting, Present
  <2>6. HandlerOK(t, x)'
    BY <2>2, <2>3, <2>5 DEF HandlerOK
  <2>7. \A u \in Tasks : task[u] \notin AllImports
    BY <2>2, ImportPcs DEF ImportsInv, HandlerOK
  <2>8. task' = [u \in Tasks |-> IF u = t THEN x ELSE task[u]]
    BY <2>2, GoesOn
  <2>9. \A u, v \in Tasks : task'[u] \in AllImports /\ task'[v] \in AllImports => u = v
    BY <2>7, <2>8
  <2>10. \A u \in Tasks : u # t => task'[u] = task[u]
    BY <2>8
  <2>11. task'[t] = x
    BY <2>8
  <2>12. HandlerOK(t, task[t])'
    BY <2>6, <2>11
  <2> QED
    BY <2>2, <2>4, <2>9, <2>10, <2>12, ImportsKept
<1>5. ASSUME NEW roots \in SUBSET Paths, Walk(t, roots) PROVE ImportsInv'
  BY <1>5 DEF Walk
<1> QED
  BY <1>1, <1>2, <1>3, <1>4, <1>5 DEF Handle

LEMMA ImportsOne ==
    ASSUME ShapeInv, ImportsInv, NEW t \in Tasks, ImportOne(t)
    PROVE  ImportsInv'
<1>1. inst.kind = "calendar" /\ task[t] \in Importing /\ UNCHANGED <<inst, db, gone>>
  BY ImportOneFacts
<1>2. PICK u \in Uids \cup {None}, known \in BOOLEAN, doc \in GoodEvents, byUid \in Indices :
         /\ Placed(task[t], u, known, doc, byUid)
         /\ known => Go(t, ImportPutNext(task[t], known, doc, byUid))
         /\ ~known => DrawId(t, ImportPutNext(task[t], known, doc, byUid))
  BY ImportOneFacts
<1>3. PICK x : x = ImportPutNext(task[t], known, doc, byUid)
  OBVIOUS
<1>4. x.pc = "importput" /\ x.doc = doc /\ x.byUid = byUid /\ x.new = ~known
  BY <1>3 DEF ImportPutNext
<1>5. UidsKept
  BY <1>1, SameUids
<1>6. /\ task[t] \in AllImports /\ task[t].pc = "import" /\ HandlerOK(t, task[t])
      /\ task[t].byUid \in Indices
  BY <1>1 DEF AllImports, Importing, ImportsInv
<1>7. PICK w : w = task[t].byUid
  OBVIOUS
<1>8. /\ t \in inst.handlers
      /\ \A v \in Uids : /\ WithUid(v) # {} => w[v] # NoDoc
                         /\ w[v] # NoDoc => w[v].uid = v
  BY <1>6, <1>7 DEF HandlerOK, ImportOK
<1>9. doc.uid = u /\ (~known /\ u # None => w[u] = NoDoc) /\ (known => u # None)
  BY <1>2, <1>7, <1>8, DocumentsAssumption DEF Placed
<1>10. doc # NoDoc
  BY DocFacts DEF GoodEvents, Kinds
<1>11. \A v \in Uids : byUid[v] = IF v = u THEN doc ELSE w[v]
  BY <1>2, <1>6, <1>7, DocumentsAssumption DEF Placed, Indices
<1>12. \A v \in Uids : /\ WithUid(v)' # {} => byUid[v] # NoDoc
                       /\ byUid[v] # NoDoc => byUid[v].uid = v
  BY <1>5, <1>8, <1>9, <1>10, <1>11 DEF UidsKept
<1>13. doc.uid # None => byUid[doc.uid] = doc /\ (~known => WithUid(doc.uid)' = {})
  <2> SUFFICES ASSUME u # None PROVE byUid[u] = doc /\ (~known => WithUid(u)' = {})
    BY <1>9
  <2>1. u \in Uids
    BY <1>2
  <2> QED
    BY <1>5, <1>8, <1>9, <1>11, <2>1 DEF UidsKept
<1>14. HandlerOK(t, x)'
  BY <1>1, <1>4, <1>8, <1>12, <1>13 DEF HandlerOK, ImportOK
<1>15. Go(t, x) \/ Go(t, Idle)
  BY <1>2, <1>3 DEF DrawId, Failing
<1> QED
  BY <1>1, <1>5, <1>6, <1>14, <1>15, ImportsGo, ImportsIdle

LEMMA ImportsContinue ==
    ASSUME ShapeInv, IdsInv, ImportsInv, inst.kind = "calendar", NEW t \in Tasks, Continue(t)
    PROVE  ImportsInv'
<1>0. HandlerOK(t, task[t])
  BY DEF ImportsInv
<1>1. CASE PutDoc(t)
  <2>1. task[t].pc = "put" /\ Put(t, task[t].doc, Idle)
    BY <1>1 DEF PutDoc
  <2>2. task[t].doc \in GoodDocs(inst.kind) /\ task[t].new \in BOOLEAN
    BY <2>1, TaskKinds DEF Puts
  <2>3. task[t].doc \in Copies(task[t]) /\ (Creating(task[t]) <=> task[t].new)
    BY <2>1, CopiesOf
  <2>4. task[t].doc.uid = None \/ Traced(task[t].doc)
    BY <1>0, <2>1, <2>3 DEF IdsInv, HandlerOK
  <2>5. HandlerOK(t, Idle)'
    BY IdleImport, NoImport
  <2> QED
    BY <2>1, <2>2, <2>4, <2>5, IdleImport, ImportsPut
<1>2. CASE ReadDocs(t)
  BY <1>2, ImportsRead
<1>3. CASE ReadFails(t) \/ EndScan(t)
  BY <1>3, SameUids, ImportsIdle DEF ReadFails, Failing, EndScan
<1>4. CASE Mark(t)
  <2>1. task[t] \in Marks
    BY <1>4, MarkFacts
  <2>2. PICK d \in task[t].due :
           /\ Marked(d) \in GoodEvents /\ Marked(d).id = d.id /\ Marked(d).uid = d.uid
           /\ Put(t, Marked(d), MarkNext(task[t], d))
    BY <1>4, MarkFacts
  <2>3. d \in Copies(task[t]) /\ ~Creating(task[t])
    BY <2>1, CopiesOf DEF Marks
  <2>4. Traced(d)
    BY <2>3 DEF IdsInv
  <2>5. Traced(Marked(d))
    BY <2>2, <2>4, TracedCopy
  <2>6. PICK x : x = MarkNext(task[t], d)
    OBVIOUS
  <2>7. x.pc = "publish"
    BY <2>6 DEF MarkNext
  <2>8. x \notin AllImports
    BY <2>7, ImportPcs
  <2>9. HandlerOK(t, x)'
    BY <2>7, <2>8, NoImport
  <2> QED
    BY <2>2, <2>5, <2>6, <2>8, <2>9, ImportsPut DEF GoodEvents
<1>5. CASE PublishDue(t)
  <2>1. PICK x : x = ScanNext(task[t].now, task[t].due)
    OBVIOUS
  <2>2. x.pc \in {"idle", "mark"}
    BY <2>1 DEF ScanNext, Idle
  <2>3. x \notin AllImports
    BY <2>2, ImportPcs
  <2>4. HandlerOK(t, x)'
    BY <2>2, <2>3, NoImport
  <2>5. Go(t, x) /\ UNCHANGED <<inst, db, gone>>
    BY <1>5, <2>1 DEF PublishDue
  <2> QED
    BY <2>3, <2>4, <2>5, SameUids, ImportsGo
<1>6. CASE ImportOne(t)
  BY <1>6, ImportsOne
<1>7. CASE ImportPut(t)
  <2>1. CASE task[t].new /\ task[t].doc.uid # None
    BY <1>7, <2>1, ImportsNew
  <2>2. CASE ~(task[t].new /\ task[t].doc.uid # None)
    <3>1. PICK x : x = ImportNext(task[t].byUid, task[t].todo, task[t].left)
      OBVIOUS
    <3>2. task[t] \in ImportPuts /\ task[t].pc = "importput" /\ Put(t, task[t].doc, x)
      BY <1>7, <3>1, TaskKinds DEF ImportPut
    <3>3. task[t].doc \in GoodDocs(inst.kind) /\ task[t] \in AllImports
      BY <3>2 DEF ImportPuts, GoodEvents, AllImports
    <3>4. task[t].doc \in Copies(task[t]) /\ (Creating(task[t]) <=> task[t].new)
      BY <3>2, CopiesOf
    <3>5. task[t].doc.uid = None \/ Traced(task[t].doc)
      BY <2>2, <3>4 DEF IdsInv
    <3>6. ASSUME UidsKept PROVE HandlerOK(t, x)'
      <4>1. PICK w : w = task[t].byUid
        OBVIOUS
      <4>2. x = Idle \/ (x.pc = "import" /\ x.byUid = w)
        BY <3>1, <4>1, ImportNextImports
      <4>3. t \in inst.handlers /\ inst' = inst
        BY <1>0, <3>2, <3>3 DEF HandlerOK, Put
      <4>4. \A v \in Uids : /\ WithUid(v) # {} => w[v] # NoDoc
                            /\ w[v] # NoDoc => w[v].uid = v
        BY <1>0, <3>2, <3>3, <4>1 DEF HandlerOK, ImportOK
      <4>5. \A v \in Uids : /\ WithUid(v)' # {} => w[v] # NoDoc
                            /\ w[v] # NoDoc => w[v].uid = v
        BY <3>6, <4>4 DEF UidsKept
      <4>6. CASE x = Idle
        BY <4>6, IdleImport, NoImport
      <4>7. CASE x.pc = "import" /\ x.byUid = w
        BY <4>3, <4>5, <4>7 DEF HandlerOK, ImportOK
      <4> QED
        BY <4>2, <4>6, <4>7
    <3> QED
      BY <3>2, <3>3, <3>5, <3>6, ImportsPut
  <2> QED
    BY <2>1, <2>2
<1>8. ASSUME IndexFile(t) \/ Unindex(t) \/ StampScan(t) PROVE FALSE
  BY <1>8, IndexFileFacts, UnindexFacts, StampFacts
<1> QED
  BY <1>1, <1>2, <1>3, <1>4, <1>5, <1>6, <1>7, <1>8 DEF Continue

LEMMA ImportsStep == ShapeInv /\ IdsInv /\ ImportsInv /\ [Next]_vars => ImportsInv'
<1> SUFFICES ASSUME ShapeInv, IdsInv, ImportsInv, [Next]_vars PROVE ImportsInv'
  OBVIOUS
<1>0. inst' = inst
  BY SameInstance
<1>1. CASE inst.kind # "calendar"
  BY <1>0, <1>1 DEF ImportsInv
<1>2. CASE inst.kind = "calendar"
  <2>1. ASSUME NEW t \in Tasks, Handle(t) PROVE ImportsInv'
    BY <1>2, <2>1, ImportsHandle
  <2>2. ASSUME NEW t \in Tasks, Continue(t) PROVE ImportsInv'
    BY <1>2, <2>2, ImportsContinue
  <2>3. ASSUME NEW t \in Tasks, Scan(t) PROVE ImportsInv'
    <3>1. PICK x : x = ListKeys([for |-> "scan", now |-> clock])
      OBVIOUS
    <3>2. x.pc = "docs" /\ x.who.for = "scan"
      BY <3>1 DEF ListKeys
    <3>3. Go(t, x) /\ UNCHANGED <<inst, db, gone>>
      BY <2>3, <3>1 DEF Scan
    <3>4. x \notin AllImports
      BY <3>2 DEF AllImports, ImportLists, Importing, ImportPuts
    <3>5. HandlerOK(t, x)'
      BY <3>2, <3>4, NoImport
    <3> QED
      BY <1>2, <3>3, <3>4, <3>5, SameUids, ImportsGo
  <2>4. ASSUME NEW p \in Paths, ChangeFile(p) PROVE ImportsInv'
    BY <2>4, ImportsSame DEF ChangeFile
  <2>5. CASE Tick
    BY <2>5, ImportsSame DEF Tick
  <2>6. CASE Crash
    <3>1. UNCHANGED <<inst, db, gone>> /\ \A t \in Tasks : task'[t] = Idle
      BY <2>6 DEF Crash
    <3>2. \A t \in Tasks : HandlerOK(t, Idle)'
      BY IdleImport, NoImport
    <3>3. \A t \in Tasks : HandlerOK(t, task[t])'
      BY <3>1, <3>2
    <3>4. \A t, u \in Tasks : task'[t] \in AllImports /\ task'[u] \in AllImports => t = u
      BY <3>1, IdleImport
    <3> QED
      BY <1>2, <3>1, <3>3, <3>4, SameUids, ImportsKept
  <2>7. CASE UNCHANGED vars
    BY <2>7, ImportsSame DEF vars
  <2> QED
    BY <2>1, <2>2, <2>3, <2>4, <2>5, <2>6, <2>7 DEF Next
<1> QED
  BY <1>1, <1>2

-----------------------------------------------------------------------------
(* Library scans.                                                           *)

LEMMA LibraryPcs ==
    /\ \A x \in IndexLists : x.pc = "docs"
    /\ \A x \in Indexings : x.pc = "index"
    /\ \A x \in Stampings : x.pc = "stamp"
    /\ Idle.pc = "idle"
BY DEF IndexLists, Indexings, Stampings, Idle

LEMMA IdleScan == ~Alone(Idle) /\ WalkOK(Idle)
BY LibraryPcs DEF Alone, WalkOK

LEMMA ScansSame ==
    ASSUME ScansInv, UNCHANGED <<inst, db, task>>
    PROVE  ScansInv'
BY DEF ScansInv, ExactSoFar, Tasks, Present

(* A task that does something is the only one whose scan may be exact.       *)
LEMMA ScansGo ==
    ASSUME ShapeInv, ScansInv, inst.kind = "library", inst' = inst, NEW t \in Tasks, task[t] # Idle,
           NEW x, Go(t, x), WalkOK(x), Alone(x) => Alone(task[t]), Alone(x) => ExactSoFar(x)'
    PROVE  ScansInv'
<1>1. task' = [u \in Tasks |-> IF u = t THEN x ELSE task[u]] /\ Tasks' = Tasks
  BY GoesOn DEF Tasks
<1>2. ASSUME NEW u \in Tasks, u # t PROVE WalkOK(task'[u]) /\ ~Alone(task'[u])
  BY <1>1, <1>2 DEF ScansInv
<1>3. task'[t] = x
  BY <1>1
<1>4. Alone(x) => \A u \in Tasks \ {t} : task'[u] = Idle
  BY <1>1 DEF ScansInv
<1>5. Alone(task'[t]) => (\A u \in Tasks \ {t} : task'[u] = Idle) /\ ExactSoFar(task[t])'
  <2>1. Alone(x) => ExactSoFar(task[t])'
    BY <1>3
  <2> QED
    BY <1>3, <1>4, <2>1
<1>6. \A u \in Tasks : WalkOK(task'[u])
  BY <1>2, <1>3
<1>7. \A u \in Tasks : Alone(task'[u]) =>
         (\A v \in Tasks \ {u} : task'[v] = Idle) /\ ExactSoFar(task[u])'
  BY <1>2, <1>5
<1> QED
  BY <1>1, <1>6, <1>7 DEF ScansInv

LEMMA ScansIdle ==
    ASSUME ShapeInv, ScansInv, inst.kind = "library", inst' = inst, NEW t \in Tasks,
           task[t] # Idle, Go(t, Idle)
    PROVE  ScansInv'
BY IdleScan, ScansGo

LEMMA ScansWalk ==
    ASSUME ShapeInv, ScansInv, NEW t \in Tasks, NEW roots \in SUBSET Paths, Walk(t, roots)
    PROVE  ScansInv'
<1>1. inst.kind = "library" /\ UNCHANGED <<inst, db>> /\ Tasks' = Tasks
  BY WalkFacts DEF Tasks
<1>2. PICK seen \in SUBSET Entries, alone \in BOOLEAN :
         /\ OneEach(seen) /\ WalkNext(seen, alone) \in IndexLists
         /\ alone => \A v \in Tasks : task[v] = Idle
         /\ task' = [u \in Tasks |-> IF u # t THEN Disturbed(task[u]) ELSE WalkNext(seen, alone)]
  BY WalkFacts
<1>3. PICK x : x = WalkNext(seen, alone)
  OBVIOUS
<1>4. x \in IndexLists /\ x.pc = "docs" /\ x.keys = Present /\ x.who.seen = seen /\ x.who.alone = alone
  BY <1>2, <1>3 DEF WalkNext
<1>5. task'[t] = x
  BY <1>2, <1>3
<1>6. ASSUME NEW u \in Tasks, u # t PROVE WalkOK(task'[u]) /\ ~Alone(task'[u])
  <2>1. task'[u] = Disturbed(task[u]) /\ KnownTask(inst.kind, task[u]) /\ WalkOK(task[u])
    BY <1>1, <1>2, <1>6 DEF ShapeInv, TasksOK, ScansInv
  <2>2. WalkOK(Disturbed(task[u]))
    BY <1>1, <2>1, DisturbedKnown DEF WalkOK
  <2> QED
    BY <1>1, <2>1, <2>2, DisturbedKnown
<1>7. WalkOK(x)
  BY <1>2, <1>4 DEF WalkOK
<1>8. Alone(x) => \A u \in Tasks \ {t} : task'[u] = Idle
  <2>1. Alone(x) => alone
    BY <1>4, LibraryPcs DEF Alone
  <2>2. Disturbed(Idle) = Idle
    BY DEF Disturbed, Idle
  <2> QED
    BY <1>2, <2>1, <2>2
<1>9. ExactSoFar(x)'
  BY <1>1, <1>4 DEF ExactSoFar, Present
<1>10. \A u \in Tasks : WalkOK(task'[u])
  BY <1>5, <1>6, <1>7
<1>11. ExactSoFar(task[t])'
  BY <1>5, <1>9
<1>12. \A u \in Tasks : Alone(task'[u]) =>
          (\A v \in Tasks \ {u} : task'[v] = Idle) /\ ExactSoFar(task[u])'
  BY <1>5, <1>6, <1>8, <1>11
<1> QED
  BY <1>1, <1>10, <1>12 DEF ScansInv

LEMMA ScansRead ==
    ASSUME ShapeInv, ScansInv, inst.kind = "library", NEW t \in Tasks, ReadDocs(t)
    PROVE  ScansInv'
<1> DEFINE docs == {db[k] : k \in task[t].keys \cap Present}
           who == task[t].who
<1>1. task[t].pc = "docs" /\ Go(t, ListedBy(who, docs)) /\ UNCHANGED <<inst, db>>
  BY DEF ReadDocs
<1>2. task[t] \in IndexLists /\ task[t] # Idle
  BY <1>1, TaskKinds, LibraryPcs
<1>3. who.for = "index" /\ task[t].keys \subseteq Keys
  BY <1>2, ListFacts
<1>4. PICK x : x = [pc |-> "index", seen |-> who.seen, todo |-> who.seen,
                    old |-> docs, alone |-> who.alone]
  OBVIOUS
<1>5. Go(t, x)
  BY <1>1, <1>3, <1>4 DEF ListedBy
<1>6. x.pc = "index" /\ x.seen = who.seen /\ x.todo = who.seen /\ x.old = docs /\ x.alone = who.alone
  BY <1>4
<1>7. WalkOK(x)
  BY <1>6, LibraryPcs DEF WalkOK
<1>8. Alone(x) => Alone(task[t])
  BY <1>2, <1>6, LibraryPcs DEF Alone
<1>9. ASSUME Alone(x) PROVE ExactSoFar(x)'
  <2>1. ExactSoFar(task[t]) /\ WalkOK(task[t])
    BY <1>8, <1>9 DEF ScansInv
  <2>2. task[t].keys = Present /\ OneEach(x.seen)
    BY <1>1, <1>2, <1>6, <2>1 DEF ExactSoFar, WalkOK
  <2>3. x.old = {db[k] : k \in Present} /\ Indexed(x) = {}
    BY <1>6, <2>2 DEF Indexed
  <2>4. \A o \in x.old : db[o.id] = o
    BY <2>3, StoredTraced
  <2>5. Present' = Present
    BY <1>1 DEF Present
  <2> QED
    BY <1>1, <1>6, <2>2, <2>3, <2>4, <2>5 DEF ExactSoFar
<1> QED
  BY <1>1, <1>2, <1>5, <1>7, <1>8, <1>9, ScansGo

LEMMA ScansIndexFile ==
    ASSUME ShapeInv, ScansInv, NEW t \in Tasks, IndexFile(t)
    PROVE  ScansInv'
<1>1. inst.kind = "library" /\ task[t] \in Indexings /\ task[t] # Idle /\ task[t].pc = "index"
  BY IndexFileFacts, LibraryPcs
<1>2. PICK y : y = task[t]
  OBVIOUS
<1>3. PICK e \in y.todo :
         /\ e \in Entries
         /\ [y EXCEPT !.todo = @ \ {e}] \in Indexings
         /\ \/ e \notin y.old /\ Put(t, e, [y EXCEPT !.todo = @ \ {e}])
            \/ e \in y.old /\ Go(t, [y EXCEPT !.todo = @ \ {e}]) /\ UNCHANGED <<inst, db>>
  BY <1>2, IndexFileFacts
<1>4. PICK x : x = [y EXCEPT !.todo = @ \ {e}]
  OBVIOUS
<1>5. /\ x \in Indexings /\ x.pc = "index" /\ x.seen = y.seen /\ x.todo = y.todo \ {e}
      /\ x.old = y.old /\ x.alone = y.alone
  BY <1>1, <1>2, <1>3, <1>4 DEF Indexings
<1>6. WalkOK(x) /\ (Alone(x) => Alone(y))
  BY <1>1, <1>2, <1>5, LibraryPcs DEF WalkOK, Alone
<1>7. e \in GoodDocs("library") /\ e.id \in Keys /\ e # NoDoc
  BY <1>3, EntryFacts DEF Keys
<1>8. ASSUME Alone(y)
      PROVE  /\ OneEach(y.seen) /\ y.todo \subseteq y.seen
             /\ \A f \in Indexed(y) : db[f.id] = f
             /\ \A k \in Present : db[k] \in y.old \cup Indexed(y)
             /\ \A o \in y.old : db[o.id] = o \/ \E f \in Indexed(y) : f.id = o.id
             /\ Indexed(x) = Indexed(y) \cup {e}
             /\ \A f \in Indexed(y) : f.id # e.id
  <2>1. ExactSoFar(y)
    BY <1>1, <1>2, <1>8 DEF ScansInv
  <2>2. /\ OneEach(y.seen) /\ y.todo \subseteq y.seen
        /\ \A f \in Indexed(y) : db[f.id] = f
        /\ \A k \in Present : db[k] \in y.old \cup Indexed(y)
        /\ \A o \in y.old : db[o.id] = o \/ \E f \in Indexed(y) : f.id = o.id
    BY <1>1, <1>2, <2>1 DEF ExactSoFar
  <2>3. Indexed(x) = Indexed(y) \cup {e}
    BY <1>5, <2>2 DEF Indexed
  <2>4. \A f \in Indexed(y) : f.id # e.id
    BY <2>2 DEF Indexed, OneEach
  <2> QED
    BY <2>2, <2>3, <2>4
<1>9. CASE e \in y.old /\ Go(t, x) /\ UNCHANGED <<inst, db>>
  <2>1. ASSUME Alone(x) PROVE ExactSoFar(x)'
    <3>1. Alone(y) /\ Present' = Present
      BY <1>6, <1>9, <2>1 DEF Present
    <3>2. db[e.id] = e
      BY <1>8, <1>9, <3>1
    <3>3. \A f \in Indexed(x) : db[f.id] = f
      BY <1>8, <3>1, <3>2
    <3>4. \A k \in Present : db[k] \in x.old \cup Indexed(x)
      BY <1>5, <1>8, <3>1
    <3>5. \A o \in x.old : db[o.id] = o \/ \E f \in Indexed(x) : f.id = o.id
      BY <1>5, <1>8, <3>1
    <3>6. OneEach(x.seen) /\ x.todo \subseteq x.seen
      BY <1>5, <1>8, <3>1
    <3> QED
      BY <1>5, <1>9, <3>1, <3>3, <3>4, <3>5, <3>6 DEF ExactSoFar
  <2> QED
    BY <1>1, <1>2, <1>6, <1>9, <2>1, ScansGo
<1>10. CASE Store(e) /\ Go(t, x) /\ inst' = inst
  <2>1. db' = [db EXCEPT ![e.id] = e] /\ db \in [Keys -> GoodDocs(inst.kind) \cup {NoDoc}]
    BY <1>10 DEF Store, ShapeInv, StoreOK
  <2>2. \A k \in Keys : db'[k] = IF k = e.id THEN e ELSE db[k]
    BY <2>1
  <2>3. ASSUME Alone(x) PROVE ExactSoFar(x)'
    <3>1. Alone(y)
      BY <1>6, <2>3
    <3>2. \A f \in Indexed(x) : db'[f.id] = f
      BY <1>7, <1>8, <2>1, <3>1
    <3>3. \A k \in Present' : db'[k] \in x.old \cup Indexed(x)
      BY <1>5, <1>8, <2>2, <3>1 DEF Present
    <3>4. \A o \in x.old : db'[o.id] = o \/ \E f \in Indexed(x) : f.id = o.id
      BY <1>5, <1>8, <2>1, <3>1
    <3>5. OneEach(x.seen) /\ x.todo \subseteq x.seen
      BY <1>5, <1>8, <3>1
    <3> QED
      BY <1>5, <3>2, <3>3, <3>4, <3>5 DEF ExactSoFar
  <2> QED
    BY <1>1, <1>2, <1>6, <1>10, <2>3, ScansGo
<1>11. CASE Go(t, Idle) /\ inst' = inst
  BY <1>1, <1>11, ScansIdle
<1> QED
  BY <1>3, <1>4, <1>9, <1>10, <1>11 DEF Put, Failing

LEMMA ScansUnindex ==
    ASSUME ShapeInv, ScansInv, NEW t \in Tasks, Unindex(t)
    PROVE  ScansInv'
<1>1. /\ inst.kind = "library" /\ task[t] \in Indexings /\ task[t].todo = {} /\ inst' = inst
      /\ task[t] # Idle /\ task[t].pc = "index"
  BY UnindexFacts, LibraryPcs
<1>2. PICK y : y = task[t]
  OBVIOUS
<1>3. PICK o \in y.old :
         /\ o.id \in Keys /\ \A e \in y.seen : e.id # o.id
         /\ [y EXCEPT !.old = @ \ {o}] \in Indexings
         /\ \/ Erase(o.id) /\ Go(t, [y EXCEPT !.old = @ \ {o}])
            \/ Go(t, Idle)
  BY <1>2, UnindexFacts
<1>4. PICK x : x = [y EXCEPT !.old = @ \ {o}]
  OBVIOUS
<1>5. /\ x \in Indexings /\ x.pc = "index" /\ x.seen = y.seen /\ x.todo = y.todo
      /\ x.old = y.old \ {o} /\ x.alone = y.alone
  BY <1>1, <1>2, <1>3, <1>4 DEF Indexings
<1>6. WalkOK(x) /\ (Alone(x) => Alone(y))
  BY <1>1, <1>2, <1>5, LibraryPcs DEF WalkOK, Alone
<1>7. CASE Go(t, Idle)
  BY <1>1, <1>7, ScansIdle
<1>8. CASE Erase(o.id) /\ Go(t, x)
  <2>1. db' = [db EXCEPT ![o.id] = NoDoc] /\ db \in [Keys -> GoodDocs(inst.kind) \cup {NoDoc}]
    BY <1>8 DEF Erase, ShapeInv, StoreOK
  <2>2. \A k \in Keys : db'[k] = IF k = o.id THEN NoDoc ELSE db[k]
    BY <2>1
  <2>3. ASSUME Alone(x) PROVE ExactSoFar(x)'
    <3>1. ExactSoFar(y)
      BY <1>1, <1>2, <1>6, <2>3 DEF ScansInv
    <3>2. /\ OneEach(y.seen) /\ y.todo \subseteq y.seen
          /\ \A f \in Indexed(y) : db[f.id] = f
          /\ \A k \in Present : db[k] \in y.old \cup Indexed(y)
      BY <1>1, <1>2, <3>1 DEF ExactSoFar
    <3>3. Indexed(x) = Indexed(y) /\ Indexed(y) \subseteq y.seen
      BY <1>5 DEF Indexed
    <3>4. \A f \in Indexed(x) : db'[f.id] = f
      BY <1>3, <2>1, <3>2, <3>3
    <3>5. ASSUME NEW k \in Present' PROVE db'[k] \in x.old \cup Indexed(x)
      <4>1. k \in Present /\ k # o.id /\ db'[k] = db[k]
        BY <2>2, <3>5 DEF Present
      <4>2. db[k] # o
        BY <4>1, StoredTraced
      <4> QED
        BY <1>5, <3>2, <3>3, <4>1, <4>2
    <3>6. x.todo = {} /\ OneEach(x.seen)
      BY <1>1, <1>2, <1>5, <3>2
    <3> QED
      BY <1>5, <3>4, <3>5, <3>6 DEF ExactSoFar
  <2> QED
    BY <1>1, <1>2, <1>6, <1>8, <2>3, ScansGo
<1> QED
  BY <1>3, <1>4, <1>7, <1>8

LEMMA ScansStamp ==
    ASSUME ShapeInv, ScansInv, NEW t \in Tasks, StampScan(t)
    PROVE  ScansInv'
<1>1. /\ inst.kind = "library" /\ task[t] \in Indexings /\ task[t].todo = {} /\ UNCHANGED <<inst, db>>
      /\ task[t] # Idle /\ task[t].pc = "index"
  BY StampFacts, LibraryPcs
<1>2. PICK y : y = task[t]
  OBVIOUS
<1>3. /\ StampNext(y) \in Stampings
      /\ \A o \in y.old : \E e \in y.seen : e.id = o.id
      /\ Go(t, StampNext(y)) \/ Go(t, Idle)
  BY <1>2, StampFacts
<1>4. PICK x : x = StampNext(y)
  OBVIOUS
<1>5. x \in Stampings /\ x.pc = "stamp" /\ x.seen = y.seen /\ x.alone = y.alone
  BY <1>3, <1>4 DEF StampNext
<1>6. WalkOK(x) /\ (Alone(x) => Alone(y))
  BY <1>1, <1>2, <1>5, LibraryPcs DEF WalkOK, Alone
<1>7. ASSUME Alone(x) PROVE ExactSoFar(x)'
  <2>1. ExactSoFar(y)
    BY <1>1, <1>2, <1>6, <1>7 DEF ScansInv
  <2>2. Indexed(y) = y.seen
    BY <1>1, <1>2 DEF Indexed
  <2>3. (\A f \in y.seen : db[f.id] = f) /\ \A k \in Present : db[k] \in y.old \cup y.seen
    BY <1>1, <1>2, <2>1, <2>2 DEF ExactSoFar
  <2>4. ASSUME NEW k \in Present PROVE db[k] \in y.seen
    <3>1. CASE db[k] \in y.old
      <4>1. PICK e \in y.seen : e.id = db[k].id
        BY <1>3, <3>1
      <4>2. db[k] = e
        BY <2>3, <4>1, StoredTraced
      <4> QED
        BY <4>2
    <3> QED
      BY <2>3, <3>1
  <2>5. ASSUME NEW f \in y.seen PROVE f.id \in Present
    <3>1. f \in Entries
      BY <1>1, <1>2 DEF Indexings
    <3>2. f.id \in Keys /\ f # NoDoc
      BY <3>1, EntryFacts DEF Keys
    <3> QED
      BY <2>3, <3>2 DEF Present
  <2>6. {db[k] : k \in Present} = y.seen
    BY <2>3, <2>4, <2>5
  <2>7. {db[k] : k \in Present}' = {db[k] : k \in Present}
    BY <1>1 DEF Present
  <2> QED
    BY <1>5, <2>6, <2>7 DEF ExactSoFar
<1>8. Go(t, x) \/ Go(t, Idle)
  BY <1>3, <1>4
<1> QED
  BY <1>1, <1>2, <1>6, <1>7, <1>8, ScansGo, ScansIdle

LEMMA ScansStep == ShapeInv /\ ScansInv /\ [Next]_vars => ScansInv'
<1> SUFFICES ASSUME ShapeInv, ScansInv, [Next]_vars PROVE ScansInv'
  OBVIOUS
<1>0. inst' = inst
  BY SameInstance
<1>1. CASE inst.kind # "library"
  BY <1>0, <1>1 DEF ScansInv
<1>2. CASE inst.kind = "library"
  <2>1. ASSUME NEW t \in Tasks, Handle(t) PROVE ScansInv'
    <3>1. ASSUME NEW r \in inst.requests PROVE ~Accepted(r)
      BY <1>2 DEF Accepted
    <3>2. ASSUME NEW r \in inst.requests PROVE ~Create(t, r) /\ \A id \in Ids : ~Update(t, r, id)
      BY <3>1 DEF Create, Update
    <3>3. (\A id \in Ids : ~Delete(t, id)) /\ \A ics \in inst.calendars : ~Import(t, ics)
      BY <1>2 DEF Delete, Import
    <3>4. PICK roots \in SUBSET Paths : Walk(t, roots)
      BY <2>1, <3>2, <3>3 DEF Handle
    <3> QED
      BY <3>4, ScansWalk
  <2>2. ASSUME NEW t \in Tasks, Continue(t) PROVE ScansInv'
    <3>1. ASSUME PutDoc(t) \/ Mark(t) \/ PublishDue(t) \/ ImportOne(t) \/ ImportPut(t) PROVE FALSE
      BY <1>2, <3>1, TaskKinds DEF PutDoc, Mark, PublishDue, ImportOne, ImportPut
    <3>2. CASE ReadDocs(t)
      BY <1>2, <3>2, ScansRead
    <3>3. CASE ReadFails(t)
      BY <1>0, <1>2, <3>3, LibraryPcs, ScansIdle DEF ReadFails, Failing
    <3>4. CASE IndexFile(t)
      BY <3>4, ScansIndexFile
    <3>5. CASE Unindex(t)
      BY <3>5, ScansUnindex
    <3>6. CASE StampScan(t)
      BY <3>6, ScansStamp
    <3>7. CASE EndScan(t)
      BY <1>0, <1>2, <3>7, LibraryPcs, ScansIdle DEF EndScan
    <3> QED
      BY <2>2, <3>1, <3>2, <3>3, <3>4, <3>5, <3>6, <3>7 DEF Continue
  <2>3. ASSUME NEW t \in Tasks, Scan(t) PROVE ScansInv'
    BY <1>2, <2>3 DEF Scan
  <2>4. ASSUME NEW p \in Paths, ChangeFile(p) PROVE ScansInv'
    BY <2>4, ScansSame DEF ChangeFile
  <2>5. CASE Tick
    BY <2>5, ScansSame DEF Tick
  <2>6. CASE Crash
    <3>1. Tasks' = Tasks /\ \A t \in Tasks : task'[t] = Idle
      BY <2>6 DEF Crash, Tasks
    <3> QED
      BY <3>1, IdleScan DEF ScansInv
  <2>7. CASE UNCHANGED vars
    BY <2>7, ScansSame DEF vars
  <2> QED
    BY <2>1, <2>2, <2>3, <2>4, <2>5, <2>6, <2>7 DEF Next
<1> QED
  BY <1>1, <1>2

-----------------------------------------------------------------------------
(* The theorem.                                                             *)

LEMMA DocsStart == Init => DocsIInv
<1> SUFFICES ASSUME Init PROVE DocsIInv
  OBVIOUS
<1>1. ShapeInv
  BY ShapeStart
<1>2. Present = {} /\ gone = {} /\ \A t \in Tasks : task[t] = Idle
  BY DEF Init, Present
<1>3. IdsInv
  BY <1>2, IdleCopies DEF IdsInv
<1>4. CreditInv
  <2>1. \A k \in Keys : credit[k] >= 0 /\ ~Armed(db[k])
    BY DEF Init, Armed
  <2>2. \A t \in Tasks : ScanOK(t, task[t])
    BY <1>2, IdleDue DEF ScanOK, Publishing
  <2> QED
    BY <2>1, <2>2 DEF CreditInv
<1>5. ImportsInv
  BY <1>2, IdleImport DEF ImportsInv, HandlerOK, WithUid, Lasting
<1>6. ScansInv
  BY <1>2, IdleScan DEF ScansInv
<1> QED
  BY <1>1, <1>3, <1>4, <1>5, <1>6 DEF DocsIInv

LEMMA DocsStep == DocsIInv /\ [Next]_vars => DocsIInv'
BY ShapeStep, IdsStep, CreditStep, ImportsStep, ScansStep DEF DocsIInv

(* The invariant says what the runs check.                                   *)
LEMMA DocsImplied == DocsIInv => DocsInv
<1> SUFFICES ASSUME DocsIInv PROVE DocsInv
  OBVIOUS
<1>0. ShapeInv /\ IdsInv /\ CreditInv /\ ImportsInv /\ ScansInv /\ StoreOK
  BY DEF DocsIInv, ShapeInv
<1>1. inst.kind \in Kinds /\ db \in [Keys -> GoodDocs(inst.kind) \cup {NoDoc}]
  BY <1>0, InstanceFacts DEF StoreOK
<1>2. TypeOK
  <2>1. GoodDocs(inst.kind) \subseteq Docs
    BY <1>1, DocFacts
  <2>2. GoodEvents \subseteq EventDocs /\ GoodEvents \subseteq Docs
    BY DocFacts DEF GoodEvents, Kinds
  <2>3. ASSUME NEW t \in Tasks
        PROVE  /\ task[t].pc \in {"idle", "put", "docs", "mark", "publish", "import", "importput",
                                  "index", "stamp"}
               /\ task[t].pc \in {"put", "importput"} => task[t].doc \in Docs
               /\ task[t].pc = "mark" => task[t].due # {} /\ task[t].due \subseteq EventDocs
               /\ task[t].pc = "import" => Len(task[t].todo) > 0
    <3>1. task[t].pc \in {"put", "importput"} => task[t].doc \in Docs
      BY <1>0, <2>1, <2>2, TaskKinds DEF Puts, ImportPuts
    <3>2. task[t].pc = "mark" => task[t].due # {} /\ task[t].due \subseteq EventDocs
      BY <1>0, <2>2, TaskKinds DEF Marks
    <3>3. task[t].pc = "import" => Len(task[t].todo) > 0
      <4> SUFFICES ASSUME task[t].pc = "import" PROVE Len(task[t].todo) > 0
        OBVIOUS
      <4>1. task[t].todo \in Seq(Occurrences) /\ task[t].todo # <<>>
        BY <1>0, TaskKinds DEF Importing
      <4> QED
        BY <4>1, EmptySeq, LenProperties
    <3> QED
      BY <1>0, <3>1, <3>2, <3>3, TaskKinds
  <2>4. db \in [Keys -> Docs \cup {NoDoc}]
    BY <1>1, <2>1
  <2> QED
    BY <1>0, <2>3, <2>4 DEF StoreOK, TypeOK
<1>3. DocsAreSound
  BY <1>1, DocFacts DEF DocsAreSound, Present
<1>4. CreateIsFresh
  <2>1. CASE inst.kind = "library"
    BY <1>0, <2>1, TaskKinds DEF CreateIsFresh
  <2>2. CASE inst.kind # "library"
    <3> SUFFICES ASSUME NEW t \in Tasks, NEW u \in Tasks, Creating(task[t])
                 PROVE  /\ task[t].doc.id \notin Present \cup gone
                        /\ u # t /\ task[u].pc \in {"put", "importput"} =>
                              task[u].doc.id # task[t].doc.id
      BY DEF CreateIsFresh, Creating
    <3>1. task[u].pc \in {"put", "importput"} => task[u].doc \in Copies(task[u])
      BY CopiesOf
    <3> QED
      BY <1>0, <2>2, <3>1 DEF IdsInv
  <2> QED
    BY <2>1, <2>2
<1>5. ReminderOnce
  <2>1. CASE inst.kind = "calendar"
    BY <1>0, <2>1 DEF ReminderOnce, CreditInv, Keys
  <2>2. CASE inst.kind # "calendar"
    BY <1>0, <2>2 DEF ReminderOnce, CreditInv, Keys
  <2> QED
    BY <2>1, <2>2
<1>6. OneDocPerUid
  <2> SUFFICES ASSUME inst.kind = "calendar", NEW i \in Present, NEW j \in Present, i # j,
                      db[i].uid # None, db[i].uid = db[j].uid, i \notin gone, j \notin gone
               PROVE  FALSE
    BY DEF OneDocPerUid
  <2>1. db[i] \in EventDocs
    BY <1>1, DocFacts DEF Present
  <2>2. db[i].uid \in Uids
    BY <2>1 DEF EventDocs
  <2> QED
    BY <1>0, <2>2 DEF ImportsInv, WithUid, Lasting
<1>7. ScanIsExact
  <2> SUFFICES ASSUME NEW t \in Tasks, task[t].pc = "stamp", task[t].alone
               PROVE  {db[k] : k \in Present} = task[t].seen
    BY DEF ScanIsExact
  <2>1. inst.kind = "library" /\ task[t] \in Stampings
    BY <1>0, TaskKinds
  <2> QED
    BY <1>0, <2>1 DEF ScansInv, Alone, ExactSoFar
<1> QED
  BY <1>2, <1>3, <1>4, <1>5, <1>6, <1>7 DEF DocsInv

(* Whatever is asked, fails, overlaps or is killed: the stored documents     *)
(* satisfy their plugin's rules, a create replaces nothing, a reminder is    *)
(* published at most once each time it was armed (one scan at a time), an    *)
(* import duplicates no event and an undisturbed library scan is exact       *)
(* (handle_action of the five plugins, scan_due, import_ics, library_scan).  *)
THEOREM DocumentsAreKept == Spec => []DocsInv
<1>1. Init => DocsIInv
  BY DocsStart
<1>2. DocsIInv /\ [Next]_vars => DocsIInv'
  BY DocsStep
<1>3. DocsIInv => DocsInv
  BY DocsImplied
<1> QED
  BY <1>1, <1>2, <1>3, PTL DEF Spec
=============================================================================
