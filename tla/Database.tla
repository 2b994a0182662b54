------------------------------ MODULE Database ------------------------------
(***************************************************************************)
(* The database plugin: a key-value store in one SQLite file per caller.   *)
(*                                                                         *)
(* Every request is handled by a task of its own: it gets the caller's     *)
(* pool (opening and migrating the file if none is cached), sweeps the     *)
(* expired rows, and runs its statements.  db_incr, db_append and db_patch *)
(* read and write in one deferred transaction: in WAL mode the write fails *)
(* if another connection committed since the read.                         *)
(***************************************************************************)
EXTENDS KvData, Sequences, FiniteSets

CONSTANT NoPool

ASSUME PoolAssumption == NoPool \notin Tasks

VARIABLES
    clock,    \* unix time
    file,     \* caller -> its file: the kv table's rows and its schema
    pools,    \* caller -> the pool in the cache, named by the task that opened it
    task      \* task -> what it does

vars == <<clock, file, pools, task>>

Rows(c) == file[c].rows

\* Tasks that have been given a request and have not answered it yet.
Handling == {"pool", "open", "schema", "alter", "cache", "sweep", "act", "write"}
Busy(t) == task[t].pc \in Handling

Key(t) == task[t].req.key
RowOf(t) == Rows(task[t].c)[Key(t)]

Goto(t, pc) == task' = [task EXCEPT ![t].pc = pc]

Answered(t, reply) ==
    [pc |-> "reply", c |-> task[t].c, req |-> task[t].req, reply |-> reply]

Respond(t, reply) == task' = [task EXCEPT ![t] = Answered(t, reply)]

\* A commit that changes the file: transactions that have read it are behind.
Commit(t, rows, next) ==
    LET c == task[t].c
        Behind(u) == /\ task[u].pc = "write" /\ task[u].c = c
                     /\ rows # Rows(c)
    IN
    /\ file' = [file EXCEPT ![c].rows = rows]
    /\ task' = [u \in Tasks |-> IF u = t THEN next
                                ELSE IF Behind(u) THEN [task[u] EXCEPT !.fresh = FALSE]
                                ELSE task[u]]
    /\ UNCHANGED <<clock, pools>>

(***************************************************************************)
(* The caller's pool.                                                      *)
(***************************************************************************)
OnAction(t, c, r) ==
    /\ task[t] = Idle
    /\ task' = [task EXCEPT ![t] = [pc |-> "pool", c |-> c, req |-> r, pool |-> NoPool,
                                    lapsed |-> {}, got |-> <<>>, new |-> NoRow, fresh |-> FALSE]]
    /\ UNCHANGED <<clock, file, pools>>

\* The lock is held for the look-up only.
PoolLookup(t) ==
    /\ task[t].pc = "pool"
    /\ LET p == pools[task[t].c] IN
       task' = [task EXCEPT ![t].pc = IF p = NoPool THEN "open" ELSE "sweep", ![t].pool = p]
    /\ UNCHANGED <<clock, file, pools>>

\* The file is opened, and created if need be.
OpenFile(t) ==
    /\ task[t].pc = "open"
    /\ file' = [file EXCEPT ![task[t].c].schema = IF @ = "none" THEN "new" ELSE @]
    /\ Goto(t, "schema")
    /\ UNCHANGED <<clock, pools>>

\* A file from before v0.3 lacks the column expires_at.
CheckSchema(t) ==
    /\ task[t].pc = "schema"
    /\ Goto(t, IF file[task[t].c].schema = "old" THEN "alter" ELSE "cache")
    /\ UNCHANGED <<clock, file, pools>>

\* Two tasks may both have found it missing: the second ALTER fails.
Alter(t) ==
    /\ task[t].pc = "alter"
    /\ file' = [file EXCEPT ![task[t].c].schema = "new"]
    /\ IF file[task[t].c].schema = "old" THEN Goto(t, "cache") ELSE Respond(t, Error)
    /\ UNCHANGED <<clock, pools>>

\* Mutant of CachePool: the last one wins.
CachePoolLast(t) ==
    /\ task[t].pc = "cache"
    /\ pools' = [pools EXCEPT ![task[t].c] = t]
    /\ task' = [task EXCEPT ![t].pc = "sweep", ![t].pool = t]
    /\ UNCHANGED <<clock, file>>

\* The pool that was cached first wins; a second one is dropped.
CachePool(t) ==
    /\ task[t].pc = "cache"
    /\ pools' = [pools EXCEPT ![task[t].c] = IF @ = NoPool THEN t ELSE @]
    /\ task' = [task EXCEPT ![t].pc = "sweep", ![t].pool = pools'[task[t].c]]
    /\ UNCHANGED <<clock, file>>

\* sweep_expired.
Sweep(t) ==
    LET c == task[t].c IN
    /\ task[t].pc = "sweep"
    /\ Commit(t, [k \in Keys |-> IF Alive(Rows(c)[k], clock) THEN Rows(c)[k] ELSE NoRow],
              [task[t] EXCEPT !.pc = "act"])

(***************************************************************************)
(* The actions, after the sweep.  A row may still end before they run.     *)
(***************************************************************************)
Acts(t, op) == task[t].pc = "act" /\ task[t].req.op = op

\* What a select with the expiry filter finds.
Found(row) == IF Alive(row, clock) THEN row ELSE NoRow

Write(t, row, reply) ==
    Commit(t, [Rows(task[t].c) EXCEPT ![Key(t)] = row], Answered(t, reply))

HandleGet(t) ==
    LET row == Found(RowOf(t)) IN
    /\ Acts(t, "get")
    /\ Respond(t, IF Has(row, "junk") THEN Error ELSE Reply(ValueOf(row), FALSE))
    /\ UNCHANGED <<clock, file, pools>>

HandleSet(t) ==
    LET r == task[t].req IN
    /\ Acts(t, "set")
    /\ Write(t, Row(r.value, Until(r.ttl, clock)), Reply(NoRow, TRUE))

\* The delete has no expiry filter; deleting nothing is no change.
HandleDelete(t) ==
    LET deleted == RowOf(t) # NoRow IN
    /\ Acts(t, "delete")
    /\ Write(t, NoRow, Reply(deleted, deleted))

\* db_keys has no expiry filter either.
HandleKeys(t) ==
    /\ Acts(t, "keys")
    /\ Respond(t, Reply({k \in Keys : Rows(task[t].c)[k] # NoRow}, FALSE))
    /\ UNCHANGED <<clock, file, pools>>

\* One select per key, without a transaction around them.
HandleBatchGet(t) ==
    LET i == Len(task[t].got) + 1
        row == Found(Rows(task[t].c)[task[t].req.keys[i]])
        got == Append(task[t].got, ValueOf(row))
    IN
    /\ Acts(t, "batch")
    /\ task' = [task EXCEPT ![t] =
          IF Has(row, "junk") THEN Answered(t, Error)
          ELSE IF i < Len(task[t].req.keys) THEN [task[t] EXCEPT !.got = got]
          ELSE Answered(t, Reply(got, FALSE))]
    /\ UNCHANGED <<clock, file, pools>>

\* db_query: one statement on the caller's own file.  A result over
\* max_response_bytes is refused after the statement has run.
HandleQuery(t) ==
    LET r == task[t].req IN
    /\ Acts(t, "query")
    /\ IF r.sql = "attach"
         THEN /\ Respond(t, Error)
              /\ UNCHANGED <<clock, file, pools>>
         ELSE \E reply \in {Reply(NoRow, FALSE), Error} :
                Write(t, CASE r.sql = "insert" -> Row(r.value, Never)
                           [] r.sql = "delete" -> NoRow
                           [] OTHER -> RowOf(t), reply)

\* The transaction's read, and the value it is going to write, if any.
ReadFor(t, op, ok, new) ==
    /\ Acts(t, op)
    /\ IF ok THEN task' = [task EXCEPT ![t].pc = "write", ![t].fresh = TRUE, ![t].new = new]
             ELSE Respond(t, Error)
    /\ UNCHANGED <<clock, file, pools>>

IncrRead(t) ==
    LET row == Found(RowOf(t)) IN
    ReadFor(t, "incr", row = NoRow \/ Has(row, "int"),
            Num(IF row = NoRow THEN task[t].req.delta ELSE Wrap(row.value.n + task[t].req.delta)))

AppendRead(t) ==
    LET row == Found(RowOf(t))
        length == IF row = NoRow THEN 1 ELSE row.value.n + 1
    IN
    ReadFor(t, "append", (row = NoRow \/ Has(row, "list")) /\ length <= MaxLen, List(length))

\* json_set replaces the whole value or, on a value that is no object, nothing.
PatchRead(t) ==
    LET row == Found(RowOf(t))
        r == task[t].req
    IN
    ReadFor(t, "patch", row # NoRow /\ ~Has(row, "junk") /\ r.path # "bad",
            IF r.path = "root" THEN r.value ELSE ValueOf(row))

\* Mutant of Upsert: the write of a transaction that has been overtaken.
UpsertBlind(t) ==
    LET row == RowOf(t) IN
    /\ task[t].pc = "write"
    /\ Write(t, Row(task[t].new, IF row = NoRow THEN Never ELSE row.exp), Reply(task[t].new, TRUE))

\* The upsert keeps the expires_at of the row that is there, dead or alive.
Upsert(t) ==
    LET row == RowOf(t) IN
    /\ task[t].pc = "write" /\ task[t].fresh
    /\ Write(t, Row(task[t].new, IF row = NoRow THEN Never ELSE row.exp), Reply(task[t].new, TRUE))

\* Parsing, opening, a busy or full file, or a transaction that was overtaken.
Fail(t) ==
    /\ Busy(t)
    /\ Respond(t, Error)
    /\ UNCHANGED <<clock, file, pools>>

\* The response first, then the change event.
SendResponse(t) ==
    /\ task[t].pc = "reply"
    /\ task' = [task EXCEPT ![t] = IF task[t].reply.event
                                     THEN [pc |-> "event", c |-> task[t].c, req |-> task[t].req] ELSE Idle]
    /\ UNCHANGED <<clock, file, pools>>

SendEvent(t) ==
    /\ task[t].pc = "event"
    /\ task' = [task EXCEPT ![t] = Idle]
    /\ UNCHANGED <<clock, file, pools>>

(***************************************************************************)
(* The environment.                                                        *)
(***************************************************************************)
\* history: the live rows that end now are noted with the requests under way.
Tick ==
    LET gone(c) == {k \in Keys : Alive(Rows(c)[k], clock) /\ ~Alive(Rows(c)[k], clock + 1)} IN
    /\ clock < MaxTime
    /\ clock' = clock + 1
    /\ task' = [t \in Tasks |->
          IF ~Busy(t) THEN task[t]
          ELSE [task[t] EXCEPT !.lapsed = @ \cup {[key |-> k, row |-> Rows(task[t].c)[k]] : k \in gone(task[t].c)}]]
    /\ UNCHANGED <<file, pools>>

Restart ==
    /\ task' = [t \in Tasks |-> Idle]
    /\ pools' = [c \in Callers |-> NoPool]
    /\ UNCHANGED <<clock, file>>

Init ==
    /\ clock = 0
    /\ \E s \in [Callers -> {"none", "old"}] :
          file = [c \in Callers |-> [rows |-> [k \in Keys |-> NoRow], schema |-> s[c]]]
    /\ pools = [c \in Callers |-> NoPool]
    /\ task = [t \in Tasks |-> Idle]

GetPool(t) == PoolLookup(t) \/ OpenFile(t) \/ CheckSchema(t) \/ Alter(t) \/ CachePool(t)

Act(t) ==
    \/ HandleGet(t) \/ HandleSet(t) \/ HandleDelete(t) \/ HandleKeys(t) \/ HandleBatchGet(t) \/ HandleQuery(t)
    \/ IncrRead(t) \/ AppendRead(t) \/ PatchRead(t) \/ Upsert(t)

Next ==
    \/ \E t \in Tasks, c \in Callers, r \in Requests : OnAction(t, c, r)
    \/ \E t \in Tasks : GetPool(t) \/ Sweep(t) \/ Act(t) \/ Fail(t) \/ SendResponse(t) \/ SendEvent(t)
    \/ Tick \/ Restart

Spec == Init /\ [][Next]_vars

(***************************************************************************)
(* Properties.                                                             *)
(***************************************************************************)
\* A task that has a request works on a caller's pool and has what the request
\* needs; one that has answered keeps the answer, or the event.
Called == [pc : Handling, c : Callers, req : Requests, pool : Tasks \cup {NoPool},
           lapsed : SUBSET [key : Keys, row : AnyRow], got : Seq(Values \cup {NoRow}),
           new : Values \cup {NoRow}, fresh : BOOLEAN]

TaskOK(x) ==
    \/ x = Idle
    \/ /\ x \in Called
       /\ x.pc = "write" => x.new \in Values /\ x.req.op \in {"incr", "append", "patch"}
       /\ x.req.op = "batch" => Len(x.got) < Len(x.req.keys)
    \/ x.pc = "reply" /\ x = [pc |-> "reply", c |-> x.c, req |-> x.req, reply |-> x.reply]
    \/ x.pc = "event" /\ x = [pc |-> "event", c |-> x.c, req |-> x.req]

TypeOK ==
    /\ clock \in 0 .. MaxTime
    /\ file \in [Callers -> [rows : [Keys -> AnyRow \cup {NoRow}], schema : {"none", "old", "new"}]]
    /\ pools \in [Callers -> Tasks \cup {NoPool}]
    /\ DOMAIN task = Tasks
    /\ \A t \in Tasks : TaskOK(task[t])

\* "Exactly one pool per caller_id ends up cached" although two first requests
\* may open the file at once (pool_for): every task works on the cached one.
OnePool ==
    \A t \in Tasks : task[t].pc \in {"sweep", "act", "write"} => task[t].pool = pools[task[t].c]

\* No statement that names expires_at runs on a file that lacks the column,
\* although a pool may be found in the cache by a task that never looked.
MigratedBeforeUse ==
    \A t \in Tasks : task[t].pc \in {"sweep", "act", "write"} => file[task[t].c].schema = "new"

\* The plugin's own state is sound: rows and replies are well formed, the values
\* within the width of an i64, and every statement runs on the cached pool of a
\* migrated file (pool_for, open_pool, db_incr).
StoreInv == TypeOK /\ OnePool /\ MigratedBeforeUse

\* What a caller sees of a task that is in state x, and of its rows.
AbsTask(x) ==
    IF x.pc \in Handling
      THEN [pc |-> "called", c |-> x.c, req |-> x.req, lapsed |-> x.lapsed, got |-> x.got]
      ELSE IF x.pc = "reply" THEN [x EXCEPT !.pc = "done"] ELSE x

AbsOpen == [t \in Tasks |-> AbsTask(task[t])]
AbsStore == [c \in Callers |-> [k \in Keys |-> Found(Rows(c)[k])]]

Abs == INSTANCE KvSpec WITH store <- AbsStore, open <- AbsOpen

\* A caller's requests take effect one after the other: no increment, append or
\* patch is lost or doubled however the tasks interleave; a refused request leaves
\* no trace; expired rows are never seen; events follow exactly the requests that
\* changed something.
ImplementsKvSpec == Abs!Spec
=============================================================================
