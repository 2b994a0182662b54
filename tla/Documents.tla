----------------------------- MODULE Documents -----------------------------
(***************************************************************************)
(* The plugins that keep their documents in the database plugin: notes,    *)
(* contacts, tasks, calendar and library.  A handler is a sequence of      *)
(* calls of the database, each atomic; between two of them any other       *)
(* handler or scan may run, every call may fail, after having been applied *)
(* or not, and the plugin may be killed.  A document is always written     *)
(* whole, as the handler last read it: nothing is compared before a write. *)
(*                                                                         *)
(* The calendar also imports ICS files, event by event, and scans for due  *)
(* reminders; the library mirrors the media files under its roots.         *)
(*                                                                         *)
(* Texts are abstracted to empty or not, an ICS file to its occurrences    *)
(* within the import window, and a media file to its path and the version  *)
(* its size and time of modification stand for.  Requests that only read   *)
(* (get, list, search, export...) are left out, and so are the change      *)
(* events, which the serve loop sends after the response (RpcProxy).       *)
(***************************************************************************)
EXTENDS Integers, Sequences, FiniteSets

CONSTANTS
    Instances,  \* the plugins considered, with the requests they receive
    Ids,        \* document ids drawn from the counter: 1 .. n
    Paths,      \* the paths of media files
    Uids,       \* the UIDs of ICS events
    NoDoc,      \* no document under this key
    None        \* an Option that is None

Kinds == {"notes", "contacts", "tasks", "calendar", "library"}

\* What the parameters of a create hold, and the fields a patch may give.
NewOK(kind, new) ==
    CASE kind = "notes"    -> new \in [title : BOOLEAN, body : BOOLEAN]
      [] kind = "contacts" -> new \in [name : BOOLEAN, email : BOOLEAN]
      [] kind = "tasks"    -> new \in [title : BOOLEAN]
      [] kind = "calendar" -> new \in [start : Int, end : Int \cup {None}, remind : Int \cup {None}]
      [] OTHER             -> FALSE

Gives(patch, fields, values) == DOMAIN patch \subseteq fields /\ \A f \in DOMAIN patch : patch[f] \in values

PatchOK(kind, patch) ==
    CASE kind = "notes"    -> Gives(patch, {"title", "body"}, BOOLEAN)
      [] kind = "contacts" -> Gives(patch, {"name", "email"}, BOOLEAN)
      [] kind = "tasks"    -> Gives(patch, {"title", "done"}, BOOLEAN)
      [] kind = "calendar" -> Gives(patch, {"start", "end", "remind"}, Int)
      [] OTHER             -> FALSE

RequestOK(kind, r) ==
    \/ r.op = "create" /\ NewOK(kind, r.new)
    \/ r.op = "update" /\ PatchOK(kind, r.patch)
    \/ r.op = "done" /\ kind = "tasks" /\ r.patch \in [done : BOOLEAN]

\* parse_ics drops an end before the start.
Occurrences ==
    {o \in [uid : Uids \cup {None}, retitled : BOOLEAN, start : Nat, end : Nat \cup {None},
            remind : Int \cup {None}] : o.end = None \/ o.end >= o.start}

ASSUME DocumentsAssumption ==
    /\ IsFiniteSet(Ids) /\ Ids = 1 .. Cardinality(Ids)
    /\ None \notin Int \cup Uids
    /\ \A i \in Instances :
          /\ i.kind \in Kinds
          /\ {i.maxRequests, i.maxFails, i.maxCrashes, i.maxFiles, i.maxImport} \subseteq Nat
          /\ i.maxTime \in Nat \ {0}
          /\ \A r \in i.requests : RequestOK(i.kind, r)
          /\ \A ics \in i.calendars : ics \in Seq(Occurrences)

VARIABLES
    inst,      \* the plugin that runs
    clock,     \* unix milliseconds
    db,        \* the stored documents
    counter,   \* meta:next_id
    task,      \* what each handler and scan is doing
    fs,        \* the version of each media file, 0 when it does not exist
    credit,    \* history: reminders armed and not yet published, per event
    gone,      \* history: the ids that were deleted at some time
    requests,  \* history: the number of requests received
    fails,     \* history: the number of failed database calls
    crashes    \* history: the number of restarts

vars == <<inst, clock, db, counter, task, fs, credit, gone, requests, fails, crashes>>

Idle == [pc |-> "idle"]

Tasks == inst.handlers \cup inst.scanners

(***************************************************************************)
(* What the documents hold and which requests are accepted.                *)
(***************************************************************************)
\* Documents of the five plugins.
NoteDocs == [id : Ids, title : BOOLEAN, body : BOOLEAN]
ContactDocs == [id : Ids, name : BOOLEAN, email : BOOLEAN]
TaskDocs == [id : Ids, title : BOOLEAN, done : BOOLEAN, done_at : BOOLEAN]
EventDocs == [id : Ids, start : Nat, end : Nat \cup {None}, remind : Int \cup {None},
              fired : BOOLEAN, uid : Uids \cup {None}]
Entries == [id : Paths, version : Nat]

Docs == NoteDocs \cup ContactDocs \cup TaskDocs \cup EventDocs \cup Entries

ASSUME NoDocAssumption == NoDoc \notin Docs

Keys == Ids \cup Paths

\* parse_request of each plugin: the new document of a create, the patch of an
\* update.  A patch holds the fields that are given.
NotesAccept(r) ==
    IF r.op = "create" THEN r.new.title \/ r.new.body ELSE DOMAIN r.patch # {}

ContactsAccept(r) ==
    IF r.op = "create" THEN r.new.name
    ELSE DOMAIN r.patch # {} /\ ("name" \in DOMAIN r.patch => r.patch.name)

TasksAccept(r) ==
    IF r.op = "create" THEN r.new.title
    ELSE DOMAIN r.patch # {} /\ ("title" \in DOMAIN r.patch => r.patch.title)

CalendarAccept(r) ==
    IF r.op = "create"
      THEN /\ r.new.start > 0
           /\ r.new.end # None => r.new.end >= r.new.start
           /\ r.new.remind # None => r.new.remind >= 0
      ELSE DOMAIN r.patch # {} /\ ("start" \in DOMAIN r.patch => r.patch.start > 0)

Accepted(r) ==
    CASE inst.kind = "notes"    -> NotesAccept(r)
      [] inst.kind = "contacts" -> ContactsAccept(r)
      [] inst.kind = "tasks"    -> TasksAccept(r)
      [] inst.kind = "calendar" -> CalendarAccept(r)
      [] OTHER                  -> FALSE

\* The document a create stores under the id it drew.
NewNote(id, new) == [id |-> id, title |-> new.title, body |-> new.body]
NewContact(id, new) == [id |-> id, name |-> new.name, email |-> new.email]
NewTask(id, new) == [id |-> id, title |-> new.title, done |-> FALSE, done_at |-> FALSE]
NewEvent(id, new) ==
    [id |-> id, start |-> new.start, end |-> new.end, remind |-> new.remind,
     fired |-> FALSE, uid |-> None]

NewDoc(id, new) ==
    CASE inst.kind = "notes"    -> NewNote(id, new)
      [] inst.kind = "contacts" -> NewContact(id, new)
      [] inst.kind = "tasks"    -> NewTask(id, new)
      [] inst.kind = "calendar" -> NewEvent(id, new)

\* A mutant: a patch is stored without looking at the result.
AcceptableAlways(doc) == TRUE

\* The checks on the document that results from a patch.
Acceptable(doc) ==
    CASE inst.kind = "notes"    -> doc.title \/ doc.body
      [] inst.kind = "calendar" -> doc.end = None \/ doc.end >= doc.start
      [] OTHER                  -> TRUE

\* The document with the fields that are given.
Overlay(doc, patch) ==
    [f \in DOMAIN doc |-> IF f \in DOMAIN patch THEN patch[f] ELSE doc[f]]

PatchedNote(note, patch) == Overlay(note, patch)
PatchedContact(contact, patch) == Overlay(contact, patch)

\* done_at changes only with done.
PatchedTask(t, patch) ==
    LET new == Overlay(t, patch)
    IN IF new.done = t.done THEN new ELSE [new EXCEPT !.done_at = new.done]

\* An event whose times change is to be reminded of again.
PatchedEvent(doc, patch) ==
    LET new == Overlay(doc, patch)
        times_changed == \E f \in {"start", "end", "remind"} : new[f] # doc[f]
    IN [new EXCEPT !.fired = @ /\ ~times_changed]

Patched(doc, patch) ==
    CASE inst.kind = "notes"    -> PatchedNote(doc, patch)
      [] inst.kind = "contacts" -> PatchedContact(doc, patch)
      [] inst.kind = "tasks"    -> PatchedTask(doc, patch)
      [] inst.kind = "calendar" -> PatchedEvent(doc, patch)

(***************************************************************************)
(* Calls of the database.                                                  *)
(***************************************************************************)
Armed(d) == d # NoDoc /\ inst.kind = "calendar" /\ d.remind # None /\ ~d.fired

Store(doc) ==
    /\ db' = [db EXCEPT ![doc.id] = doc]
    /\ credit' = IF Armed(doc) /\ ~Armed(db[doc.id])
                   THEN [credit EXCEPT ![doc.id] = @ + 1] ELSE credit

Erase(id) ==
    /\ db' = [db EXCEPT ![id] = NoDoc]
    /\ gone' = IF db[id] = NoDoc THEN gone ELSE gone \cup {id}

Go(t, next) == task' = [task EXCEPT ![t] = next]

\* A call that fails ends its handler; a write may have been applied.
Failing(t) ==
    /\ fails < inst.maxFails
    /\ fails' = fails + 1
    /\ Go(t, Idle)

Put(t, doc, next) ==
    /\ \/ Store(doc) /\ Go(t, next) /\ UNCHANGED fails
       \/ Store(doc) /\ Failing(t)
       \/ Failing(t) /\ UNCHANGED <<db, credit>>
    /\ UNCHANGED <<inst, clock, counter, fs, gone, requests, crashes>>

\* db_incr of meta:next_id, which may fail like every call.
DrawId(t, next) ==
    \/ Go(t, next) /\ counter' = counter + 1 /\ UNCHANGED fails
    \/ Failing(t) /\ counter' \in {counter, counter + 1}

\* The value db_incr returns.
NextId == counter + 1

Present == {k \in Keys : db[k] # NoDoc}

(***************************************************************************)
(* The handlers of notes, contacts, tasks and calendar.                    *)
(***************************************************************************)
Receive(t) ==
    /\ t \in inst.handlers
    /\ task[t] = Idle
    /\ requests < inst.maxRequests
    /\ requests' = requests + 1

Create(t, r) ==
    /\ Receive(t)
    /\ r.op = "create" /\ Accepted(r)
    /\ NextId \in Ids
    /\ DrawId(t, [pc |-> "put", new |-> TRUE, doc |-> NewDoc(NextId, r.new)])
    /\ UNCHANGED <<inst, clock, db, fs, credit, gone, crashes>>

\* *_update and task_done read the document first; a missing one, or a result
\* that is not acceptable, is an error, and task_done writes nothing when the
\* task already is what it should be.
Update(t, r, id) ==
    /\ Receive(t)
    /\ r.op \in {"update", "done"} /\ Accepted(r)
    /\ IF db[id] # NoDoc
          /\ Acceptable(Patched(db[id], r.patch))
          /\ (r.op = "done" => db[id].done # r.patch.done)
         THEN Go(t, [pc |-> "put", new |-> FALSE, doc |-> Patched(db[id], r.patch)])
         ELSE UNCHANGED task
    /\ UNCHANGED <<inst, clock, db, counter, fs, credit, gone, fails, crashes>>

PutDoc(t) ==
    /\ task[t].pc = "put"
    /\ Put(t, task[t].doc, Idle)

\* A delete that fails either did what this does or nothing.
Delete(t, id) ==
    /\ Receive(t)
    /\ inst.kind # "library"
    /\ Erase(id)
    /\ UNCHANGED <<inst, clock, counter, task, fs, credit, fails, crashes>>

(***************************************************************************)
(* Listings: db_keys, then db_batch_get, which skips what was deleted in   *)
(* between.  The three handlers that list go on with ListedBy.             *)
(***************************************************************************)
\* A mutant: an event that has started is no longer reminded of.
DueEventsOnTime(docs, now) ==
    {d \in docs : d.remind # None /\ ~d.fired /\ d.start - d.remind <= now /\ now <= d.start}

DueEvents(docs, now) ==
    {d \in docs : d.remind # None /\ ~d.fired /\ d.start - d.remind <= now}

\* A mutant: the imported UIDs are not looked up.
ByUidEmpty(docs) == [u \in Uids |-> NoDoc]

\* by_uid: of several documents with one UID the last one listed stays.
ByUid(docs) ==
    [u \in Uids |->
        LET ds == {d \in docs : d.uid = u}
        IN IF ds = {} THEN NoDoc ELSE CHOOSE d \in ds : TRUE]

ScanNext(now, due) ==
    IF due = {} THEN Idle ELSE [pc |-> "mark", now |-> now, due |-> due]

\* The import ends with its last occurrence, or with an error when it has
\* written MAX_IMPORT_DOCS documents and there is another.
ImportNext(byUid, todo, left) ==
    IF todo = <<>> \/ left = 0 THEN Idle
    ELSE [pc |-> "import", byUid |-> byUid, todo |-> todo, left |-> left]

ListedBy(who, docs) ==
    CASE who.for = "scan"   -> ScanNext(who.now, DueEvents(docs, who.now))
      [] who.for = "import" -> ImportNext(ByUid(docs), who.todo, inst.maxImport)
      [] who.for = "index"  -> [pc |-> "index", seen |-> who.seen, todo |-> who.seen,
                                old |-> docs, alone |-> who.alone]

ListKeys(who) == [pc |-> "docs", keys |-> Present, who |-> who]

ReadDocs(t) ==
    /\ task[t].pc = "docs"
    /\ Go(t, ListedBy(task[t].who, {db[k] : k \in task[t].keys \cap Present}))
    /\ UNCHANGED <<inst, clock, db, counter, fs, credit, gone, requests, fails, crashes>>

ReadFails(t) ==
    /\ task[t].pc = "docs"
    /\ Failing(t)
    /\ UNCHANGED <<inst, clock, db, counter, fs, credit, gone, requests, crashes>>

(***************************************************************************)
(* calendar: scan_due, spawned by the interval.  One scan at a time is     *)
(* considered; the code spawns the next one whether or not the last ended. *)
(***************************************************************************)
Scan(t) ==
    /\ inst.kind = "calendar"
    /\ t \in inst.scanners /\ task[t] = Idle
    /\ Go(t, ListKeys([for |-> "scan", now |-> clock]))
    /\ UNCHANGED <<inst, clock, db, counter, fs, credit, gone, requests, fails, crashes>>

Marked(d) == [d EXCEPT !.fired = TRUE]

\* A mutant: a failed write of the mark is only logged.
MarkRegardless(t) ==
    /\ task[t].pc = "mark"
    /\ \E d \in task[t].due :
          /\ Store(Marked(d)) \/ UNCHANGED <<db, credit>>
          /\ Go(t, [pc |-> "publish", now |-> task[t].now, due |-> task[t].due \ {d},
                    event |-> d])
    /\ UNCHANGED <<inst, clock, counter, fs, gone, requests, fails, crashes>>

\* The mark is stored first; a failure ends the scan.
Mark(t) ==
    /\ task[t].pc = "mark"
    /\ \E d \in task[t].due :
          Put(t, Marked(d), [pc |-> "publish", now |-> task[t].now,
                             due |-> task[t].due \ {d}, event |-> d])

\* The due event is queued and notify_send called; neither can fail the scan.
PublishDue(t) ==
    /\ task[t].pc = "publish"
    /\ credit' = [credit EXCEPT ![task[t].event.id] = @ - 1]
    /\ Go(t, ScanNext(task[t].now, task[t].due))
    /\ UNCHANGED <<inst, clock, db, counter, fs, gone, requests, fails, crashes>>

(***************************************************************************)
(* calendar: import_ics.  One import at a time is considered.              *)
(***************************************************************************)
Import(t, ics) ==
    /\ inst.kind = "calendar"
    /\ Receive(t)
    /\ \A u \in inst.handlers : task[u].pc \in {"idle", "put"}
    /\ Go(t, ListKeys([for |-> "import", todo |-> ics]))
    /\ UNCHANGED <<inst, clock, db, counter, fs, credit, gone, fails, crashes>>

\* A new start or title arms the reminder again.
Imported(doc, e) ==
    [doc EXCEPT !.start = e.start, !.end = e.end, !.remind = e.remind,
                !.fired = @ /\ doc.start = e.start /\ ~e.retitled]

\* One occurrence: the document of its UID is overwritten, or a new one stored
\* under a fresh id and remembered.
ImportOne(t) ==
    /\ task[t].pc = "import"
    /\ LET e     == Head(task[t].todo)
           known == e.uid # None /\ task[t].byUid[e.uid] # NoDoc
           doc   == IF known THEN Imported(task[t].byUid[e.uid], e)
                    ELSE [id |-> NextId, start |-> e.start, end |-> e.end, remind |-> e.remind,
                          fired |-> FALSE, uid |-> e.uid]
           byUid == IF e.uid = None THEN task[t].byUid
                    ELSE [task[t].byUid EXCEPT ![e.uid] = doc]
       IN /\ doc.id \in Ids
          /\ LET next == [pc |-> "importput", new |-> ~known, doc |-> doc, byUid |-> byUid,
                          todo |-> Tail(task[t].todo), left |-> task[t].left - 1]
             IN IF known THEN Go(t, next) /\ UNCHANGED <<counter, fails>>
                ELSE DrawId(t, next)
    /\ UNCHANGED <<inst, clock, db, fs, credit, gone, requests, crashes>>

ImportPut(t) ==
    /\ task[t].pc = "importput"
    /\ Put(t, task[t].doc, ImportNext(task[t].byUid, task[t].todo, task[t].left))

(***************************************************************************)
(* library: library_scan.                                                  *)
(***************************************************************************)
\* scan_filesystem sees the files under the roots, up to a limit.
Seen(roots) ==
    LET files == {p \in roots : fs[p] # 0}
        n     == IF Cardinality(files) <= inst.maxFiles THEN Cardinality(files)
                 ELSE inst.maxFiles
    IN {{[id |-> p, version |-> fs[p]] : p \in S} :
            S \in {X \in SUBSET files : Cardinality(X) = n}}

Disturbed(s) ==
    IF s.pc = "docs" THEN [s EXCEPT !.who.alone = FALSE]
    ELSE IF s.pc \in {"index", "stamp"} THEN [s EXCEPT !.alone = FALSE] ELSE s

\* library_scan walks the roots, then lists what is stored.
Walk(t, roots) ==
    /\ inst.kind = "library"
    /\ Receive(t)
    /\ roots # {}
    /\ \E seen \in Seen(roots) :
          task' = [u \in Tasks |->
                     IF u # t THEN Disturbed(task[u])
                     ELSE ListKeys([for |-> "index", seen |-> seen,
                                       alone |-> \A v \in Tasks : task[v] = Idle])]
    /\ UNCHANGED <<inst, clock, db, counter, fs, credit, gone, fails, crashes>>

\* A mutant: an entry counts as current when its path is known.
CurrentByPath(old, e) == \E o \in old : o.id = e.id

Current(old, e) == e \in old

\* New and changed files are stored, ...
IndexFile(t) ==
    /\ task[t].pc = "index"
    /\ \E e \in task[t].todo :
          LET next == [task[t] EXCEPT !.todo = @ \ {e}]
          IN \/ /\ ~Current(task[t].old, e)
                /\ Put(t, e, next)
             \/ /\ Current(task[t].old, e)
                /\ Go(t, next)
                /\ UNCHANGED <<inst, clock, db, counter, fs, credit, gone, requests, fails,
                               crashes>>

\* ... then whatever was stored and not seen is deleted, ...
Unindex(t) ==
    /\ task[t].pc = "index"
    /\ task[t].todo = {}
    /\ \E o \in task[t].old :
          /\ \A e \in task[t].seen : e.id # o.id
          /\ \/ Erase(o.id) /\ Go(t, [task[t] EXCEPT !.old = @ \ {o}]) /\ UNCHANGED fails
             \/ Erase(o.id) /\ Failing(t)
             \/ Failing(t) /\ UNCHANGED <<db, gone>>
    /\ UNCHANGED <<inst, clock, counter, fs, credit, requests, crashes>>

\* ... and the time of the scan noted.
StampScan(t) ==
    /\ task[t].pc = "index"
    /\ task[t].todo = {}
    /\ \A o \in task[t].old : \E e \in task[t].seen : e.id = o.id
    /\ \/ /\ Go(t, [pc |-> "stamp", seen |-> task[t].seen, alone |-> task[t].alone])
          /\ UNCHANGED fails
       \/ Failing(t)
    /\ UNCHANGED <<inst, clock, db, counter, fs, credit, gone, requests, crashes>>

\* What is stored is counted for the response.
EndScan(t) ==
    /\ task[t].pc = "stamp"
    /\ Go(t, Idle)
    /\ UNCHANGED <<inst, clock, db, counter, fs, credit, gone, requests, fails, crashes>>

(***************************************************************************)
(* The environment.                                                        *)
(***************************************************************************)
ChangeFile(p) ==
    /\ inst.kind = "library"
    /\ fs' \in {[fs EXCEPT ![p] = v] : v \in (0 .. inst.maxTime) \ {fs[p]}}
    /\ UNCHANGED <<inst, clock, db, counter, task, credit, gone, requests, fails, crashes>>

Tick ==
    /\ inst.kind = "calendar"
    /\ clock < inst.maxTime
    /\ clock' = clock + 1
    /\ UNCHANGED <<inst, db, counter, task, fs, credit, gone, requests, fails, crashes>>

Crash ==
    /\ crashes < inst.maxCrashes
    /\ \E t \in Tasks : task[t] # Idle
    /\ crashes' = crashes + 1
    /\ task' = [t \in Tasks |-> Idle]
    /\ UNCHANGED <<inst, clock, db, counter, fs, credit, gone, requests, fails>>

Init ==
    /\ inst \in Instances
    /\ clock = 1
    /\ db = [k \in Keys |-> NoDoc]
    /\ counter = 0
    /\ task = [t \in Tasks |-> Idle]
    /\ fs = [p \in Paths |-> 0]
    /\ credit = [k \in Keys |-> 0]
    /\ gone = {}
    /\ requests = 0 /\ fails = 0 /\ crashes = 0

Handle(t) ==
    \/ \E r \in inst.requests : Create(t, r) \/ \E id \in Ids : Update(t, r, id)
    \/ \E id \in Ids : Delete(t, id)
    \/ \E ics \in inst.calendars : Import(t, ics)
    \/ \E roots \in SUBSET Paths : Walk(t, roots)

Continue(t) ==
    \/ PutDoc(t) \/ ReadDocs(t) \/ ReadFails(t)
    \/ Mark(t) \/ PublishDue(t)
    \/ ImportOne(t) \/ ImportPut(t)
    \/ IndexFile(t) \/ Unindex(t) \/ StampScan(t) \/ EndScan(t)

Next ==
    \/ \E t \in Tasks : Handle(t) \/ Continue(t) \/ Scan(t)
    \/ \E p \in Paths : ChangeFile(p)
    \/ Tick \/ Crash

(***************************************************************************)
(* The interval ticks for ever and every call ends, at its timeout if need *)
(* be.                                                                     *)
(***************************************************************************)
Fairness ==
    \A t \in UNION {i.scanners : i \in Instances} :
        WF_vars(t \in inst.scanners /\ (Continue(t) \/ Scan(t)))

Spec == Init /\ [][Next]_vars /\ Fairness

OneScan == \A s, t \in inst.scanners : s = t

(***************************************************************************)
(* Properties.                                                             *)
(***************************************************************************)
\* Every document and every handler's copy is of the plugin's kind.
TypeOK ==
    /\ inst \in Instances
    /\ clock \in 1 .. inst.maxTime
    /\ db \in [Keys -> Docs \cup {NoDoc}]
    /\ \A k \in Present : db[k].id = k
    /\ counter \in 0 .. Cardinality(Ids)
    /\ \A t \in Tasks :
          /\ task[t].pc \in {"idle", "put", "docs", "mark", "publish", "import", "importput",
                             "index", "stamp"}
          /\ task[t].pc \in {"put", "importput"} => task[t].doc \in Docs
          /\ task[t].pc = "mark" => task[t].due # {} /\ task[t].due \subseteq EventDocs
          /\ task[t].pc = "import" => Len(task[t].todo) > 0
    /\ fs \in [Paths -> Nat]
    /\ gone \subseteq Keys

SoundDoc(kind, d) ==
    CASE kind = "notes"    -> d.title \/ d.body
      [] kind = "contacts" -> d.name
      [] kind = "tasks"    -> d.title /\ (d.done <=> d.done_at)
      [] kind = "calendar" -> d.end = None \/ d.end >= d.start
      [] OTHER             -> TRUE

\* No request, however it interleaves, stores a document its own rules refuse:
\* a note stays non-empty, a task has a completion time exactly when it is done,
\* an event does not end before it starts (update handlers, import_ics).
DocsAreSound == \A k \in Present : SoundDoc(inst.kind, db[k])

\* The id of a document that is about to be created or imported is still free and
\* was never another document's, so that the write replaces nothing and no stale
\* copy of another document can later replace it (next_id).
CreateIsFresh ==
    \A t, u \in Tasks :
        task[t].pc \in {"put", "importput"} /\ task[t].new =>
            /\ task[t].doc.id \notin Present \cup gone
            /\ (u # t /\ task[u].pc \in {"put", "importput"}) =>
                    task[u].doc.id # task[t].doc.id

\* "At-most-once" (calendar README): with one scan at a time a due reminder is
\* published at most once for every time it was armed, wherever the scan fails
\* or is killed; only a write of an unfired copy arms it (scan_due).
ReminderOnce == OneScan => \A i \in Ids : credit[i] >= 0

\* "a re-import of the same calendar never duplicates events" (import_ics): two
\* events share a UID only if one of them was deleted and then put back by a
\* handler that had read it before.
OneDocPerUid ==
    inst.kind = "calendar" =>
        \A i, j \in Present :
            i # j /\ db[i].uid # None /\ db[i].uid = db[j].uid => {i, j} \cap gone # {}

\* A library scan that no other scan overlapped leaves exactly the files it saw
\* in the index, whatever an aborted scan had left there (library_scan).
ScanIsExact ==
    \A t \in Tasks :
        task[t].pc = "stamp" /\ task[t].alone =>
            {db[k] : k \in Present} = task[t].seen

\* The stored documents are sound and no request replaces another's document by
\* accident, a reminder is published once, an import makes no duplicates and a
\* library scan is exact (handle_action of the five plugins, scan_due,
\* import_ics, library_scan).
DocsInv == /\ TypeOK /\ DocsAreSound /\ CreateIsFresh
           /\ ReminderOnce /\ OneDocPerUid /\ ScanIsExact

Due(i) ==
    Armed(db[i]) /\ db[i].start - db[i].remind <= clock

\* A reminder that is due is marked, unless the event is deleted or moved
\* first: neither a failed call nor a crash makes the scans forget it
\* (scan_due, due_events).
DueIsMarked == \A i \in Ids : Due(i) ~> ~Due(i)
=============================================================================
