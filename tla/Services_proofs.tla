-------------------------- MODULE Services_proofs --------------------------
(***************************************************************************)
(* The plugins that serve the others' data.  Database: for every set of    *)
(* callers, keys, tasks and requests, every width of a counter and every   *)
(* cap of a list, the tasks share one migrated pool per caller, and their  *)
(* interleaved statements implement the atomic store KvSpec.  Network: for *)
(* any requests, callers, hosts, policy and bounds, slots and ends are     *)
(* counted exactly, the cache holds what it is charged for, nothing        *)
(* forbidden is contacted, and every stream ends once.                     *)
(***************************************************************************)
EXTENDS Database, Network, VectorDb, SequenceTheorems, FiniteSetTheorems, TLAPS

Statement == {"sweep", "act", "write"}

\* A pool that is opened, or used, is one of a migrated file.
PoolOK(x) ==
    /\ x.pc \in {"schema", "alter", "cache"} => file[x.c].schema # "none"
    /\ x.pc = "cache" => file[x.c].schema = "new"
    /\ x.pc \in Statement => x.pool = pools[x.c] /\ x.pool # NoPool

PoolsMigrated == \A c \in Callers : pools[c] # NoPool => file[c].schema = "new"

Dead(row, now) == row # NoRow /\ ~Alive(row, now)

\* A row that is dead after the sweep ended while the request was handled.
DeadOK(x) ==
    x.pc \in {"act", "write"} =>
        \A k \in Keys : Dead(Rows(x.c)[k], clock) => \E e \in x.lapsed : e.key = k

\* The row a transaction read is the one in the file; it may have ended since.
Seen(x, row, now, seen) ==
    \/ seen = NoRow /\ ~Alive(row, now)
    \/ /\ seen = row /\ row # NoRow
       /\ Alive(row, now) \/ \E e \in x.lapsed : e.key = x.req.key /\ e.row = row

\* What the request r writes when it finds the row seen.
Rewritten(r, seen, v) ==
    /\ r.op = "incr" =>
          /\ seen = NoRow \/ Has(seen, "int")
          /\ v = Num(IF seen = NoRow THEN r.delta ELSE Wrap(seen.value.n + r.delta))
    /\ r.op = "append" =>
          /\ seen = NoRow \/ Has(seen, "list")
          /\ v = List(IF seen = NoRow THEN 1 ELSE seen.value.n + 1) /\ v.n <= MaxLen
    /\ r.op = "patch" =>
          /\ seen # NoRow /\ ~Has(seen, "junk") /\ r.path # "bad"
          /\ v = (IF r.path = "root" THEN r.value ELSE seen.value)

\* A transaction that has not been overtaken writes what its row makes it write.
WriteOK(x) ==
    x.pc = "write" /\ x.fresh =>
        \E seen \in {NoRow, Rows(x.c)[x.req.key]} :
            /\ Seen(x, Rows(x.c)[x.req.key], clock, seen)
            /\ Rewritten(x.req, seen, x.new)

KvInv ==
    /\ TypeOK
    /\ PoolsMigrated
    /\ \A t \in Tasks : PoolOK(task[t]) /\ DeadOK(task[t]) /\ WriteOK(task[t])

-----------------------------------------------------------------------------
(* Values, rows and requests.                                               *)

(* A counter wraps around within its width.                                  *)
LEMMA WrapInRange ==
    ASSUME NEW n \in Int
    PROVE  Wrap(n) \in -Half .. Half - 1
<1>1. \A h \in Nat \ {0} : ((n + h) % (2 * h)) - h \in -h .. h - 1
  OBVIOUS
<1> QED
  BY <1>1, KvAssumption DEF Wrap

LEMMA KindsOfValues ==
    /\ \A n \in -Half .. Half - 1 : Num(n) \in Values
    /\ \A n \in 0 .. MaxLen : List(n) \in Values
    /\ Junk \in Values
    /\ \A v \in Values : /\ v.type = "int" => v.n \in -Half .. Half - 1
                         /\ v.type = "list" => v.n \in 0 .. MaxLen
                         /\ v.type \in {"int", "list", "junk"}
<1>1. \A v \in Values : (\E n \in -Half .. Half - 1 : v = Num(n))
                         \/ (\E n \in 0 .. MaxLen : v = List(n)) \/ v = Junk
  BY DEF Values
<1>2. ASSUME NEW v \in Values
      PROVE  /\ v.type = "int" => v.n \in -Half .. Half - 1
             /\ v.type = "list" => v.n \in 0 .. MaxLen
             /\ v.type \in {"int", "list", "junk"}
  BY <1>1 DEF Num, List, Junk
<1>3. /\ \A n \in -Half .. Half - 1 : Num(n) \in Values
      /\ \A n \in 0 .. MaxLen : List(n) \in Values
      /\ Junk \in Values
  BY DEF Values
<1> QED
  BY <1>2, <1>3

LEMMA RowsAreRows ==
    /\ \A v \in Values, e \in Nat \cup {Never} :
          /\ Row(v, e) \in AnyRow /\ Row(v, e) # NoRow
          /\ Row(v, e).value = v /\ Row(v, e).exp = e
    /\ \A row \in AnyRow : row # NoRow /\ row.value \in Values /\ row.exp \in Nat \cup {Never}
    /\ \A now : ~Alive(NoRow, now)
  BY KvAssumption DEF Row, AnyRow, Alive

(* A row that is alive has been so before, and one that is written with a    *)
(* time to live is alive.                                                    *)
LEMMA LifeEndsOnce ==
    ASSUME NEW now \in Nat
    PROVE  /\ \A row : Alive(row, now + 1) /\ row \in AnyRow => Alive(row, now)
           /\ \A ttl \in Int \cup {Never} :
                 /\ Until(ttl, now) \in Nat \cup {Never}
                 /\ Until(ttl, now) # Never => Until(ttl, now) > now
<1>1. \A row \in AnyRow : row.exp \in Nat \cup {Never}
  BY RowsAreRows
<1>2. \A row : Alive(row, now + 1) /\ row \in AnyRow => Alive(row, now)
  BY <1>1 DEF Alive
<1>3. ASSUME NEW ttl \in Int \cup {Never}
      PROVE  /\ Until(ttl, now) \in Nat \cup {Never}
             /\ Until(ttl, now) # Never => Until(ttl, now) > now
  BY <1>3, KvAssumption DEF Until
<1> QED
  BY <1>2, <1>3

(* What the operation of a request tells about its parameters.               *)
LEMMA Parameters ==
    ASSUME NEW r \in Requests
    PROVE  /\ r.op \in {"get", "set", "delete", "keys", "batch", "query", "incr", "append", "patch"}
           /\ r.op \in {"get", "set", "delete", "incr", "append", "patch", "query"} => r.key \in Keys
           /\ r.op = "set" => r.value \in Values /\ r.ttl \in Int \cup {Never}
           /\ r.op = "patch" => r.value \in Values /\ r.path \in {"root", "below", "bad"}
           /\ r.op = "query" => r.value \in Values /\ r.sql \in {"select", "insert", "delete", "attach"}
           /\ r.op = "incr" => r.delta \in -Half .. Half - 1
           /\ r.op = "batch" => r.keys \in Seq(Keys) /\ r.keys # <<>> /\ Len(r.keys) > 0
<1>1. r \in AnyRequest
  BY KvAssumption
<1>2. \A q \in Seq(Keys) : q # <<>> => Len(q) > 0
  BY LenProperties, EmptySeq
<1> QED
  BY <1>1, <1>2 DEF AnyRequest

-----------------------------------------------------------------------------
(* Tasks.                                                                   *)

LEMMA States ==
    /\ Idle.pc = "idle" /\ "idle" \notin Handling
    /\ \A x : x.pc \in Handling => x # Idle /\ x.pc # "reply" /\ x.pc # "event"
    /\ Statement \subseteq Handling /\ {"pool", "open", "schema", "alter", "cache"} \subseteq Handling
  BY DEF Idle, Handling, Statement

(* What a task under way has.                                                *)
LEMMA UnderWay ==
    ASSUME TypeOK, NEW t \in Tasks, task[t].pc \in Handling
    PROVE  /\ task[t] \in Called /\ TaskOK(task[t])
           /\ task[t].c \in Callers /\ task[t].req \in Requests /\ task[t].pool \in Tasks \cup {NoPool}
           /\ task[t].lapsed \subseteq [key : Keys, row : AnyRow]
           /\ task[t].got \in Seq(Values \cup {NoRow}) /\ task[t].new \in Values \cup {NoRow}
           /\ task[t].fresh \in BOOLEAN
           /\ task[t].pc = "write" => /\ task[t].new \in Values
                                      /\ task[t].req.op \in {"incr", "append", "patch"}
           /\ task[t].req.op = "batch" => Len(task[t].got) < Len(task[t].req.keys)
           /\ Rows(task[t].c) \in [Keys -> AnyRow \cup {NoRow}]
<1>1. TaskOK(task[t]) /\ task[t].pc \notin {"reply", "event", "idle"}
  BY States DEF TypeOK
<1>2. /\ task[t] \in Called
      /\ task[t].pc = "write" => task[t].new \in Values /\ task[t].req.op \in {"incr", "append", "patch"}
      /\ task[t].req.op = "batch" => Len(task[t].got) < Len(task[t].req.keys)
  BY <1>1, States DEF TaskOK
<1>3. task[t].c \in Callers
  BY <1>2 DEF Called
<1>4. Rows(task[t].c) \in [Keys -> AnyRow \cup {NoRow}]
  BY <1>3 DEF TypeOK, Rows
<1> QED
  BY <1>1, <1>2, <1>4 DEF Called

(* An answer is well formed, and asks nothing of the pools and rows.         *)
LEMMA AnswersAreOK ==
    ASSUME NEW t \in Tasks, NEW reply
    PROVE  /\ TaskOK(Answered(t, reply)) /\ PoolOK(Answered(t, reply))
           /\ DeadOK(Answered(t, reply)) /\ WriteOK(Answered(t, reply))
           /\ Answered(t, reply).pc = "reply"
<1>1. PICK x : x = [pc |-> "reply", c |-> task[t].c, req |-> task[t].req, reply |-> reply]
  OBVIOUS
<1>2. Answered(t, reply) = x
  BY <1>1 DEF Answered
<1>3. x.pc = "reply" /\ x = [pc |-> "reply", c |-> x.c, req |-> x.req, reply |-> x.reply]
  BY <1>1
<1> QED
  BY <1>2, <1>3 DEF TaskOK, PoolOK, DeadOK, WriteOK, Statement

-----------------------------------------------------------------------------
(* Two kinds of step.                                                       *)

(* A task goes on by itself.                                                 *)
LEMMA TaskStep ==
    ASSUME KvInv, NEW t \in Tasks, NEW x, task' = [task EXCEPT ![t] = x],
           UNCHANGED <<clock, file, pools>>,
           TaskOK(x), PoolOK(x), DeadOK(x), WriteOK(x)
    PROVE  KvInv'
<1>1. task'[t] = x /\ \A u \in Tasks : u # t => task'[u] = task[u]
  BY DEF KvInv, TypeOK
<1>2. DOMAIN task' = Tasks
  BY DEF KvInv, TypeOK
<1>3. TypeOK'
  BY <1>1, <1>2 DEF KvInv, TypeOK
<1>4. PoolsMigrated'
  BY DEF KvInv, PoolsMigrated
<1>5. ASSUME NEW u \in Tasks
      PROVE  PoolOK(task[u])' /\ DeadOK(task[u])' /\ WriteOK(task[u])'
  <2>1. PICK y : y = task'[u] /\ PoolOK(y) /\ DeadOK(y) /\ WriteOK(y)
    BY <1>1 DEF KvInv
  <2> QED
    BY <2>1 DEF PoolOK, DeadOK, WriteOK, Rows
<1> QED
  BY <1>3, <1>4, <1>5 DEF KvInv

(* A statement changes the rows of a caller, and overtakes the transactions  *)
(* that have read them.  It makes no row dead.                               *)
LEMMA CommitStep ==
    ASSUME KvInv, NEW t \in Tasks, NEW rows \in [Keys -> AnyRow \cup {NoRow}], NEW x,
           task[t].pc \in Statement, Commit(t, rows, x),
           TaskOK(x), PoolOK(x), x.pc # "write",
           x.pc = "act" => \A k \in Keys : ~Dead(rows[k], clock) /\ x.c = task[t].c,
           \A k \in Keys : Dead(rows[k], clock) => Dead(Rows(task[t].c)[k], clock)
    PROVE  KvInv'
<1> USE DEF KvInv
<1>1. PICK c \in Callers : c = task[t].c
  BY States, UnderWay
<1>2. /\ clock' = clock /\ pools' = pools
      /\ file' = [file EXCEPT ![c].rows = rows]
      /\ task' = [u \in Tasks |-> IF u = t THEN x
                                  ELSE IF task[u].pc = "write" /\ task[u].c = c /\ rows # Rows(c)
                                       THEN [task[u] EXCEPT !.fresh = FALSE]
                                       ELSE task[u]]
  BY <1>1 DEF Commit
<1>3. /\ file' \in [Callers -> [rows : [Keys -> AnyRow \cup {NoRow}], schema : {"none", "old", "new"}]]
      /\ file'[c].rows = rows
      /\ \A d \in Callers : file'[d].schema = file[d].schema /\ (d # c => file'[d] = file[d])
  BY <1>2 DEF TypeOK
<1>4. task'[t] = x /\ DOMAIN task' = Tasks
  BY <1>2
<1>5. ASSUME NEW u \in Tasks, u # t
      PROVE  TaskOK(task'[u]) /\ PoolOK(task[u])' /\ DeadOK(task[u])' /\ WriteOK(task[u])'
  <2>1. PICK y : y = task'[u]
    OBVIOUS
  <2>2. CASE task[u].pc = "write" /\ task[u].c = c /\ rows # Rows(c)
    <3>1. y = [task[u] EXCEPT !.fresh = FALSE]
      BY <1>2, <1>5, <2>1, <2>2
    <3>2. task[u] \in Called /\ TaskOK(task[u]) /\ task[u].new \in Values
          /\ task[u].req.op \in {"incr", "append", "patch"}
      BY <2>2, States, UnderWay DEF Statement
    <3>3. /\ y.pc = "write" /\ y.c = c /\ y.fresh = FALSE /\ y.lapsed = task[u].lapsed
          /\ y.pool = task[u].pool /\ y.req = task[u].req /\ y.new = task[u].new /\ y \in Called
      BY <2>2, <3>1, <3>2 DEF Called
    <3>4. TaskOK(y)
      BY <3>2, <3>3 DEF TaskOK
    <3>5. PoolOK(task[u])'
      BY <1>2, <2>1, <2>2, <3>3 DEF PoolOK, Statement
    <3>6. \A k \in Keys : Dead(rows[k], clock) => \E e \in y.lapsed : e.key = k
      BY <1>1, <2>2, <3>3 DEF DeadOK
    <3>7. DeadOK(task[u])'
      BY <1>2, <1>3, <2>1, <3>3, <3>6 DEF DeadOK, Rows
    <3> QED
      BY <2>1, <3>3, <3>4, <3>5, <3>7 DEF WriteOK
  <2>3. CASE ~(task[u].pc = "write" /\ task[u].c = c /\ rows # Rows(c))
    <3>1. y = task[u] /\ PoolOK(y) /\ DeadOK(y) /\ WriteOK(y) /\ TaskOK(y)
      BY <1>2, <1>5, <2>1, <2>3 DEF TypeOK
    <3>2. y.pc \in Handling => y.c \in Callers
      BY <3>1, UnderWay
    <3>3. PoolOK(task[u])'
      BY <1>2, <1>3, <2>1, <3>1, <3>2, States DEF PoolOK
    <3>4. DeadOK(task[u])'
      <4> SUFFICES ASSUME y.pc \in {"act", "write"}, NEW k \in Keys, Dead(file'[y.c].rows[k], clock)
                   PROVE  \E e \in y.lapsed : e.key = k
        BY <1>2, <2>1 DEF DeadOK, Rows
      <4>1. y.c \in Callers
        BY <3>2, States DEF Statement
      <4>2. Dead(Rows(y.c)[k], clock)
        BY <1>1, <1>3, <4>1 DEF Rows
      <4> QED
        BY <3>1, <4>2 DEF DeadOK
    <3>5. WriteOK(task[u])'
      <4> SUFFICES ASSUME y.pc = "write", y.fresh
                   PROVE  \E seen \in {NoRow, file'[y.c].rows[y.req.key]} :
                             /\ Seen(y, file'[y.c].rows[y.req.key], clock, seen)
                             /\ Rewritten(y.req, seen, y.new)
        BY <1>2, <2>1 DEF WriteOK, Rows
      <4>1. y.c \in Callers
        BY <3>2, States DEF Statement
      <4>2. file'[y.c].rows = file[y.c].rows
        BY <1>3, <2>3, <3>1, <4>1 DEF Rows
      <4> QED
        BY <3>1, <4>2 DEF WriteOK, Rows
    <3> QED
      BY <2>1, <3>1, <3>3, <3>4, <3>5
  <2> QED
    BY <2>2, <2>3
<1>6. PoolOK(task[t])' /\ DeadOK(task[t])' /\ WriteOK(task[t])'
  <2>1. x.pc \in Handling => x.c \in Callers
    BY States DEF TaskOK, Called
  <2>2. PoolOK(task[t])'
    BY <1>2, <1>3, <1>4, <2>1, States DEF PoolOK
  <2>3. DeadOK(task[t])'
    BY <1>1, <1>2, <1>3, <1>4 DEF DeadOK, Rows
  <2> QED
    BY <1>4, <2>2, <2>3 DEF WriteOK
<1>7. TypeOK'
  BY <1>2, <1>3, <1>4, <1>5 DEF TypeOK
<1>8. PoolsMigrated'
  BY <1>2, <1>3 DEF PoolsMigrated
<1> QED
  BY <1>5, <1>6, <1>7, <1>8
-----------------------------------------------------------------------------
(* The steps.                                                               *)

LEMMA OnActionKeeps ==
    ASSUME KvInv, NEW t \in Tasks, NEW c \in Callers, NEW r \in Requests, OnAction(t, c, r)
    PROVE  KvInv'
<1>1. PICK x : x = [pc |-> "pool", c |-> c, req |-> r, pool |-> NoPool,
                   lapsed |-> {}, got |-> <<>>, new |-> NoRow, fresh |-> FALSE]
  OBVIOUS
<1>2. /\ x.pc = "pool" /\ x.req = r /\ x.got = <<>>
      /\ x \in Called
  BY <1>1, EmptySeq DEF Called, Handling
<1>3. r.op = "batch" => Len(x.got) < Len(r.keys)
  BY <1>2, Parameters, EmptySeq
<1>4. TaskOK(x)
  BY <1>2, <1>3 DEF TaskOK
<1>5. PoolOK(x) /\ DeadOK(x) /\ WriteOK(x)
  BY <1>2 DEF PoolOK, DeadOK, WriteOK, Statement
<1>6. task' = [task EXCEPT ![t] = x] /\ UNCHANGED <<clock, file, pools>>
  BY <1>1 DEF OnAction
<1> QED
  BY <1>4, <1>5, <1>6, TaskStep

(* A task that moves to another place, perhaps with a pool.                  *)
Move(x, pc, pool) == [x EXCEPT !.pc = pc, !.pool = pool]

LEMMA Moved ==
    ASSUME TypeOK, NEW t \in Tasks, task[t].pc \in Handling, NEW pc \in Handling \ {"write", "act"},
           NEW pool \in Tasks \cup {NoPool}
    PROVE  /\ Move(task[t], pc, pool).pc = pc /\ Move(task[t], pc, pool).pool = pool
           /\ Move(task[t], pc, pool).c = task[t].c
           /\ TaskOK(Move(task[t], pc, pool)) /\ DeadOK(Move(task[t], pc, pool)) /\ WriteOK(Move(task[t], pc, pool))
<1>1. task[t] \in Called /\ TaskOK(task[t])
      /\ (task[t].req.op = "batch" => Len(task[t].got) < Len(task[t].req.keys))
  BY UnderWay
<1>2. PICK x : x = Move(task[t], pc, pool)
  OBVIOUS
<1>3. x.pc = pc /\ x.pool = pool /\ x.c = task[t].c /\ x.req = task[t].req /\ x.got = task[t].got /\ x \in Called
  BY <1>1, <1>2 DEF Called, Move
<1> QED
  BY <1>1, <1>2, <1>3 DEF TaskOK, DeadOK, WriteOK

LEMMA PoolKeeps ==
    ASSUME KvInv, NEW t \in Tasks, GetPool(t)
    PROVE  KvInv'
<1> USE DEF KvInv
<1> DEFINE c == task[t].c
<1>1. task[t].pc \in {"pool", "open", "schema", "alter", "cache"}
  BY DEF GetPool, PoolLookup, OpenFile, CheckSchema, Alter, CachePool
<1>2. task[t].pc \in Handling
  BY <1>1, States
<1>3. /\ c \in Callers /\ task[t] \in Called /\ PoolOK(task[t])
      /\ task[t].pool \in Tasks \cup {NoPool} /\ pools[c] \in Tasks \cup {NoPool}
      /\ file[c] \in [rows : [Keys -> AnyRow \cup {NoRow}], schema : {"none", "old", "new"}]
  BY <1>2, UnderWay DEF TypeOK
<1>4. CASE PoolLookup(t)
  <2>1. PICK pc : pc = IF pools[c] = NoPool THEN "open" ELSE "sweep"
    OBVIOUS
  <2>2. pc \in Handling \ {"write", "act"}
    BY <2>1 DEF Handling
  <2> PICK p \in Tasks \cup {NoPool} : p = pools[c]
    BY <1>3
  <2> PICK x : x = Move(task[t], pc, p)
    OBVIOUS
  <2>3. /\ x.pc = pc /\ x.pool = p /\ x.c = c
        /\ TaskOK(x) /\ DeadOK(x) /\ WriteOK(x)
    BY <1>2, <2>2, Moved
  <2>4. PoolOK(x)
    BY <2>1, <2>3 DEF PoolOK, Statement
  <2>5. task' = [task EXCEPT ![t] = x] /\ UNCHANGED <<clock, file, pools>>
    BY <1>4, <2>1 DEF PoolLookup, Move
  <2> QED
    BY <2>3, <2>4, <2>5, TaskStep
<1>5. CASE CheckSchema(t)
  <2>1. PICK pc : pc = IF file[c].schema = "old" THEN "alter" ELSE "cache"
    OBVIOUS
  <2>2. pc \in Handling \ {"write", "act"}
    BY <2>1 DEF Handling
  <2>3. task[t].pool \in Tasks \cup {NoPool}
    BY <1>3
  <2> PICK x : x = Move(task[t], pc, task[t].pool)
    OBVIOUS
  <2>4. /\ x.pc = pc /\ x.c = c /\ TaskOK(x) /\ DeadOK(x) /\ WriteOK(x)
        /\ x = [task[t] EXCEPT !.pc = pc]
    <3>1. x = [task[t] EXCEPT !.pc = pc]
      BY <1>3 DEF Move, Called
    <3>2. /\ x.pc = pc /\ x.c = c /\ TaskOK(x) /\ DeadOK(x) /\ WriteOK(x)
      BY <1>2, <1>3, <2>2, <2>3, Moved
    <3> QED
      BY <3>1, <3>2
  <2>5. PoolOK(x)
    BY <1>3, <1>5, <2>1, <2>4 DEF PoolOK, Statement, CheckSchema
  <2>6. task' = [task EXCEPT ![t] = x] /\ UNCHANGED <<clock, file, pools>>
    BY <1>5, <2>1, <2>4 DEF CheckSchema, Goto
  <2> QED
    BY <2>4, <2>5, <2>6, TaskStep
<1>6. ASSUME NEW schema \in {"none", "old", "new"}, NEW x,
             file' = [file EXCEPT ![c].schema = schema], UNCHANGED <<clock, pools>>,
             task' = [task EXCEPT ![t] = x],
             schema # "none", file[c].schema = "new" => schema = "new",
             TaskOK(x), PoolOK(x)', DeadOK(x), WriteOK(x), x.pc \notin {"act", "write"}
      PROVE  KvInv'
  <2>1. /\ file' \in [Callers -> [rows : [Keys -> AnyRow \cup {NoRow}], schema : {"none", "old", "new"}]]
        /\ \A d \in Callers : file'[d].rows = file[d].rows
        /\ \A d \in Callers : d # c => file'[d] = file[d]
        /\ file'[c].schema = schema
    BY <1>3, <1>6 DEF TypeOK
  <2>2. task'[t] = x /\ DOMAIN task' = Tasks /\ \A u \in Tasks : u # t => task'[u] = task[u]
    BY <1>6 DEF TypeOK
  <2>3. TypeOK'
    BY <1>6, <2>1, <2>2 DEF TypeOK
  <2>4. PoolsMigrated'
    BY <1>6, <2>1 DEF PoolsMigrated
  <2>5. ASSUME NEW u \in Tasks, u # t
        PROVE  PoolOK(task[u])' /\ DeadOK(task[u])' /\ WriteOK(task[u])'
    <3>1. PICK y : y = task'[u] /\ y = task[u] /\ PoolOK(y) /\ DeadOK(y) /\ WriteOK(y)
      BY <2>2, <2>5
    <3>2. y.pc \in Handling => y.c \in Callers
      BY <3>1, UnderWay
    <3>3. PoolOK(task[u])'
      BY <1>6, <2>1, <3>1, <3>2, States DEF PoolOK
    <3>4. y.pc \in {"act", "write"} => file'[y.c].rows = file[y.c].rows
      BY <2>1, <3>2, States DEF Statement
    <3>5. DeadOK(task[u])'
      BY <1>6, <3>1, <3>4 DEF DeadOK, Rows
    <3>6. WriteOK(task[u])'
      <4> SUFFICES ASSUME y.pc = "write", y.fresh
                   PROVE  \E seen \in {NoRow, file'[y.c].rows[y.req.key]} :
                             /\ Seen(y, file'[y.c].rows[y.req.key], clock, seen)
                             /\ Rewritten(y.req, seen, y.new)
        BY <1>6, <3>1 DEF WriteOK, Rows
      <4> QED
        BY <3>1, <3>4 DEF WriteOK, Rows
    <3> QED
      BY <3>3, <3>5, <3>6
  <2>6. PoolOK(task[t])' /\ DeadOK(task[t])' /\ WriteOK(task[t])'
    BY <1>6, <2>2 DEF PoolOK, DeadOK, WriteOK
  <2> QED
    BY <2>3, <2>4, <2>5, <2>6
<1>7. CASE OpenFile(t)
  <2>1. PICK schema \in {"none", "old", "new"} : schema = IF file[c].schema = "none" THEN "new" ELSE file[c].schema
    BY <1>3
  <2>2. file' = [file EXCEPT ![c].schema = schema]
    BY <1>3, <1>7, <2>1 DEF OpenFile, TypeOK
  <2>3. "schema" \in Handling \ {"write", "act"}
    BY DEF Handling
  <2>4. task[t].pool \in Tasks \cup {NoPool}
    BY <1>3
  <2> PICK x : x = Move(task[t], "schema", task[t].pool)
    OBVIOUS
  <2>5. /\ x.pc = "schema" /\ x.c = c /\ TaskOK(x) /\ DeadOK(x) /\ WriteOK(x)
        /\ x = [task[t] EXCEPT !.pc = "schema"]
    <3>1. x = [task[t] EXCEPT !.pc = "schema"]
      BY <1>3 DEF Move, Called
    <3>2. /\ x.pc = "schema" /\ x.c = c /\ TaskOK(x) /\ DeadOK(x) /\ WriteOK(x)
      BY <1>2, <1>3, <2>3, <2>4, Moved
    <3> QED
      BY <3>1, <3>2
  <2>6. PoolOK(x)'
    <3>1. file'[c].schema = schema
      BY <1>3, <2>2 DEF TypeOK
    <3> QED
      BY <2>1, <2>5, <3>1 DEF PoolOK, Statement
  <2>7. task' = [task EXCEPT ![t] = x] /\ UNCHANGED <<clock, pools>>
    BY <1>7, <2>5 DEF OpenFile, Goto
  <2> HIDE DEF KvInv, c
  <2> QED
    BY <1>6, <2>1, <2>2, <2>5, <2>6, <2>7
<1>8. CASE Alter(t)
  <2>1. file' = [file EXCEPT ![c].schema = "new"] /\ UNCHANGED <<clock, pools>> /\ file'[c].schema = "new"
    BY <1>3, <1>8 DEF Alter, TypeOK
  <2>2. PICK x : /\ task' = [task EXCEPT ![t] = x]
                 /\ x.pc \in {"cache", "reply"} /\ TaskOK(x) /\ DeadOK(x) /\ WriteOK(x)
                 /\ x.pc = "cache" => x.c = c
    <3>1. CASE file[c].schema = "old"
      <4>1. "cache" \in Handling \ {"write", "act"}
        BY DEF Handling
      <4>2. task[t].pool \in Tasks \cup {NoPool}
        BY <1>3
      <4> PICK x : x = Move(task[t], "cache", task[t].pool)
        OBVIOUS
      <4>3. /\ x.pc = "cache" /\ x.c = c /\ TaskOK(x) /\ DeadOK(x) /\ WriteOK(x)
            /\ x = [task[t] EXCEPT !.pc = "cache"]
        <5>1. x = [task[t] EXCEPT !.pc = "cache"]
          BY <1>3 DEF Move, Called
        <5>2. /\ x.pc = "cache" /\ x.c = c /\ TaskOK(x) /\ DeadOK(x) /\ WriteOK(x)
          BY <1>2, <1>3, <4>1, <4>2, Moved
        <5> QED
          BY <5>1, <5>2
      <4> QED
        BY <1>8, <3>1, <4>3 DEF Alter, Goto
    <3>2. CASE file[c].schema # "old"
      BY <1>8, <3>2, AnswersAreOK DEF Alter, Respond
    <3> QED
      BY <3>1, <3>2
  <2>3. PoolOK(x)'
    BY <2>1, <2>2 DEF PoolOK, Statement
  <2> HIDE DEF KvInv, c
  <2> QED
    BY <1>6, <2>1, <2>2, <2>3
<1>9. CASE CachePool(t)
  <2>1. PICK p \in Tasks : p = IF pools[c] = NoPool THEN t ELSE pools[c]
    BY <1>3
  <2>2. pools' = [pools EXCEPT ![c] = p] /\ pools'[c] = p /\ p # NoPool
    BY <1>3, <1>9, <2>1, PoolAssumption DEF CachePool, TypeOK
  <2>3. "sweep" \in Handling \ {"write", "act"}
    BY DEF Handling
  <2> PICK x : x = Move(task[t], "sweep", p)
    OBVIOUS
  <2>4. /\ x.pc = "sweep" /\ x.pool = p /\ x.c = c
        /\ TaskOK(x) /\ DeadOK(x) /\ WriteOK(x)
    BY <1>2, <2>3, Moved
  <2>5. task' = [task EXCEPT ![t] = x] /\ UNCHANGED <<clock, file>>
    BY <1>9, <2>2 DEF CachePool, Move
  <2>6. /\ task'[t] = x /\ DOMAIN task' = Tasks /\ \A u \in Tasks : u # t => task'[u] = task[u]
        /\ pools' \in [Callers -> Tasks \cup {NoPool}]
        /\ \A d \in Callers : pools[d] # NoPool \/ d # c => pools'[d] = pools[d]
    BY <2>1, <2>2, <2>5 DEF TypeOK
  <2>7. TypeOK'
    BY <2>4, <2>5, <2>6 DEF TypeOK
  <2>8. file[c].schema = "new"
    BY <1>3, <1>9 DEF PoolOK, CachePool
  <2>9. PoolsMigrated'
    BY <2>5, <2>6, <2>8 DEF PoolsMigrated
  <2>10. ASSUME NEW u \in Tasks, u # t
         PROVE  PoolOK(task[u])' /\ DeadOK(task[u])' /\ WriteOK(task[u])'
    <3>1. PICK y : y = task'[u] /\ y = task[u] /\ PoolOK(y) /\ DeadOK(y) /\ WriteOK(y)
      BY <2>6, <2>10
    <3>2. y.pc \in Handling => y.c \in Callers
      BY <3>1, UnderWay
    <3>3. PoolOK(task[u])'
      BY <2>5, <2>6, <3>1, <3>2, States DEF PoolOK
    <3>4. DeadOK(task[u])' /\ WriteOK(task[u])'
      BY <2>5, <3>1 DEF DeadOK, WriteOK, Rows
    <3> QED
      BY <3>3, <3>4
  <2>11. PoolOK(task[t])' /\ DeadOK(task[t])' /\ WriteOK(task[t])'
    BY <2>2, <2>4, <2>6 DEF PoolOK, DeadOK, WriteOK
  <2> QED
    BY <2>7, <2>9, <2>10, <2>11
<1> QED
  BY <1>4, <1>5, <1>7, <1>8, <1>9 DEF GetPool
(* A statement runs on the cached pool of a migrated file.                   *)
LEMMA InStatement ==
    ASSUME KvInv, NEW t \in Tasks, task[t].pc \in Statement
    PROVE  /\ task[t].c \in Callers /\ task[t].pc \in Handling /\ clock \in Nat
           /\ task[t].pool = pools[task[t].c] /\ task[t].pool # NoPool
           /\ file[task[t].c].schema = "new"
<1>1. task[t].pc \in Handling /\ task[t].c \in Callers
  BY States, UnderWay DEF KvInv
<1>2. task[t].pool = pools[task[t].c] /\ task[t].pool # NoPool
  BY DEF KvInv, PoolOK
<1>3. clock \in Nat
  BY KvAssumption DEF KvInv, TypeOK
<1> QED
  BY <1>1, <1>2, <1>3 DEF KvInv, PoolsMigrated

LEMMA SweepKeeps ==
    ASSUME KvInv, NEW t \in Tasks, Sweep(t)
    PROVE  KvInv'
<1>1. task[t].pc = "sweep" /\ task[t].pc \in Statement /\ task[t].pc \in Handling
  BY States DEF Sweep, Statement
<1>2. /\ task[t] \in Called /\ Rows(task[t].c) \in [Keys -> AnyRow \cup {NoRow}] /\ task[t].c \in Callers
      /\ task[t].req.op = "batch" => Len(task[t].got) < Len(task[t].req.keys)
  BY <1>1, UnderWay DEF KvInv
<1>3. PICK rows : rows = [k \in Keys |-> IF Alive(Rows(task[t].c)[k], clock) THEN Rows(task[t].c)[k] ELSE NoRow]
  OBVIOUS
<1>4. rows \in [Keys -> AnyRow \cup {NoRow}] /\ \A k \in Keys : ~Dead(rows[k], clock)
  BY <1>2, <1>3 DEF Dead
<1>5. PICK x : x = [task[t] EXCEPT !.pc = "act"]
  OBVIOUS
<1>6. /\ x.pc = "act" /\ x.c = task[t].c /\ x.pool = task[t].pool
      /\ x.req = task[t].req /\ x.got = task[t].got /\ x \in Called
  BY <1>2, <1>5 DEF Called, Handling
<1>7. TaskOK(x)
  BY <1>2, <1>6 DEF TaskOK
<1>8. PoolOK(x)
  BY <1>1, <1>6, InStatement DEF PoolOK, Statement
<1>9. Commit(t, rows, x)
  BY <1>3, <1>5 DEF Sweep
<1> QED
  BY <1>1, <1>4, <1>6, <1>7, <1>8, <1>9, CommitStep

(* A statement that writes a row, and answers.                               *)
LEMMA WriteKeeps ==
    ASSUME KvInv, NEW t \in Tasks, NEW row \in AnyRow \cup {NoRow}, NEW reply,
           task[t].pc \in Statement, task[t].req.key \in Keys, Write(t, row, reply),
           Dead(row, clock) => Dead(RowOf(t), clock)
    PROVE  KvInv'
<1>1. Rows(task[t].c) \in [Keys -> AnyRow \cup {NoRow}]
  BY States, UnderWay DEF KvInv
<1>2. PICK rows : rows = [Rows(task[t].c) EXCEPT ![Key(t)] = row]
  OBVIOUS
<1>3. /\ rows \in [Keys -> AnyRow \cup {NoRow}]
      /\ \A k \in Keys : Dead(rows[k], clock) => Dead(Rows(task[t].c)[k], clock)
  BY <1>1, <1>2 DEF Key, RowOf
<1>4. PICK x : x = Answered(t, reply)
  OBVIOUS
<1>5. TaskOK(x) /\ PoolOK(x) /\ x.pc = "reply"
  BY <1>4, AnswersAreOK
<1>6. Commit(t, rows, x)
  BY <1>2, <1>4 DEF Write
<1> QED
  BY <1>3, <1>5, <1>6, CommitStep

LEMMA AnswerKeeps ==
    ASSUME KvInv, NEW t \in Tasks, NEW reply, Respond(t, reply), UNCHANGED <<clock, file, pools>>
    PROVE  KvInv'
<1>1. PICK x : x = Answered(t, reply) /\ TaskOK(x) /\ PoolOK(x) /\ DeadOK(x) /\ WriteOK(x)
  BY AnswersAreOK
<1>2. task' = [task EXCEPT ![t] = x]
  BY <1>1 DEF Respond
<1> QED
  BY <1>1, <1>2, TaskStep

(* A row of a caller, and what a select finds.                               *)
LEMMA RowsOfTasks ==
    ASSUME KvInv, NEW t \in Tasks, task[t].pc \in Handling, NEW k \in Keys
    PROVE  /\ Rows(task[t].c)[k] \in AnyRow \cup {NoRow}
           /\ Found(Rows(task[t].c)[k]) \in AnyRow \cup {NoRow}
           /\ ValueOf(Found(Rows(task[t].c)[k])) \in Values \cup {NoRow}
<1>1. Rows(task[t].c)[k] \in AnyRow \cup {NoRow}
  BY UnderWay DEF KvInv
<1>2. Found(Rows(task[t].c)[k]) \in AnyRow \cup {NoRow}
  BY <1>1 DEF Found
<1> QED
  BY <1>1, <1>2, RowsAreRows DEF ValueOf

(* What the requests that read and write compute.                            *)
LEMMA RewrittenIsValue ==
    ASSUME NEW r \in Requests, r.op \in {"incr", "append", "patch"},
           NEW seen \in AnyRow \cup {NoRow}, NEW v, Rewritten(r, seen, v)
    PROVE  v \in Values
<1>1. seen # NoRow => seen.value \in Values
  BY RowsAreRows
<1>2. CASE r.op = "incr"
  <2>1. r.delta \in -Half .. Half - 1 /\ -Half \in Int /\ Half - 1 \in Int
    BY <1>2, Parameters, KvAssumption
  <2>2. CASE seen = NoRow
    BY <1>2, <2>1, <2>2, KindsOfValues DEF Rewritten
  <2>3. CASE seen # NoRow
    <3>1. seen.value.n \in -Half .. Half - 1
      BY <1>1, <1>2, <2>3, KindsOfValues DEF Rewritten, Has
    <3>2. seen.value.n + r.delta \in Int
      BY <2>1, <3>1
    <3>3. Wrap(seen.value.n + r.delta) \in -Half .. Half - 1
      BY <3>2, WrapInRange
    <3> QED
      BY <1>2, <2>3, <3>3, KindsOfValues DEF Rewritten
  <2> QED
    BY <2>2, <2>3
<1>3. CASE r.op = "append"
  <2>1. PICK n : n = IF seen = NoRow THEN 1 ELSE seen.value.n + 1
    OBVIOUS
  <2>2. n \in Nat
    BY <1>1, <1>3, <2>1, KindsOfValues, KvAssumption DEF Rewritten, Has
  <2>3. v = List(n) /\ v.n <= MaxLen
    BY <1>3, <2>1 DEF Rewritten
  <2>4. n \in 0 .. MaxLen
    BY <2>2, <2>3, KvAssumption DEF List
  <2> QED
    BY <2>3, <2>4, KindsOfValues
<1>4. CASE r.op = "patch"
  BY <1>1, <1>4, Parameters DEF Rewritten
<1> QED
  BY <1>2, <1>3, <1>4

(* A transaction that has read its row.                                      *)
LEMMA ReadKeeps ==
    ASSUME KvInv, NEW t \in Tasks, NEW op \in {"incr", "append", "patch"}, NEW ok, NEW new,
           ReadFor(t, op, ok, new),
           ok => Rewritten(task[t].req, Found(RowOf(t)), new)
    PROVE  KvInv'
<1>1. /\ task[t].pc = "act" /\ task[t].pc \in Statement /\ task[t].pc \in Handling /\ task[t].req.op = op
      /\ UNCHANGED <<clock, file, pools>>
  BY States DEF ReadFor, Acts, Statement
<1>2. /\ task[t] \in Called /\ task[t].req \in Requests /\ task[t].c \in Callers
      /\ task[t].req.op = "batch" => Len(task[t].got) < Len(task[t].req.keys)
  BY <1>1, UnderWay DEF KvInv
<1>3. task[t].req.key \in Keys
  BY <1>1, <1>2, Parameters
<1>4. CASE ok
  <2>1. PICK row : row = RowOf(t)
    OBVIOUS
  <2>2. row \in AnyRow \cup {NoRow} /\ Found(row) \in AnyRow \cup {NoRow}
    BY <1>1, <1>3, <2>1, RowsOfTasks DEF RowOf, Key
  <2>3. Rewritten(task[t].req, Found(row), new)
    BY <1>4, <2>1
  <2>4. new \in Values
    BY <1>1, <1>2, <2>2, <2>3, RewrittenIsValue
  <2>5. PICK x : x = [task[t] EXCEPT !.pc = "write", !.fresh = TRUE, !.new = new]
    OBVIOUS
  <2>6. /\ x.pc = "write" /\ x.fresh = TRUE /\ x.new = new /\ x.c = task[t].c /\ x.req = task[t].req
        /\ x.got = task[t].got /\ x.lapsed = task[t].lapsed /\ x.pool = task[t].pool
        /\ x \in Called
    BY <1>2, <2>4, <2>5 DEF Called, Handling
  <2>7. TaskOK(x)
    BY <1>1, <1>2, <2>4, <2>6 DEF TaskOK
  <2>8. PoolOK(x)
    BY <1>1, <2>6, InStatement DEF PoolOK, Statement
  <2>9. DeadOK(x)
    BY <1>1, <2>6 DEF DeadOK, KvInv
  <2>10. WriteOK(x)
    <3>1. row = Rows(x.c)[x.req.key]
      BY <2>1, <2>6 DEF RowOf, Key
    <3>2. Seen(x, row, clock, Found(row))
      BY RowsAreRows DEF Seen, Found, Alive
    <3>3. Found(row) \in {NoRow, row}
      BY DEF Found
    <3> QED
      BY <2>3, <2>6, <3>1, <3>2, <3>3 DEF WriteOK
  <2>11. task' = [task EXCEPT ![t] = x]
    BY <1>4, <2>5 DEF ReadFor
  <2> QED
    BY <1>1, <2>7, <2>8, <2>9, <2>10, <2>11, TaskStep
<1>5. CASE ~ok
  BY <1>1, <1>5, AnswerKeeps DEF ReadFor
<1> QED
  BY <1>4, <1>5

LEMMA TransactionKeeps ==
    ASSUME KvInv, NEW t \in Tasks, IncrRead(t) \/ AppendRead(t) \/ PatchRead(t)
    PROVE  KvInv'
<1> DEFINE row == Found(RowOf(t))
           r == task[t].req
<1>1. CASE IncrRead(t)
  <2>1. PICK ok, v : /\ ok = (row = NoRow \/ Has(row, "int"))
                     /\ v = Num(IF row = NoRow THEN r.delta ELSE Wrap(row.value.n + r.delta))
    OBVIOUS
  <2>2. ReadFor(t, "incr", ok, v) /\ r.op = "incr"
    BY <1>1, <2>1 DEF IncrRead, ReadFor, Acts
  <2>3. ok => Rewritten(r, row, v)
    BY <2>1, <2>2 DEF Rewritten
  <2> QED
    BY <2>2, <2>3, ReadKeeps
<1>2. CASE AppendRead(t)
  <2>1. PICK n : n = IF row = NoRow THEN 1 ELSE row.value.n + 1
    OBVIOUS
  <2>2. PICK ok, v : ok = ((row = NoRow \/ Has(row, "list")) /\ n <= MaxLen) /\ v = List(n)
    OBVIOUS
  <2>3. ReadFor(t, "append", ok, v) /\ r.op = "append"
    BY <1>2, <2>1, <2>2 DEF AppendRead, ReadFor, Acts
  <2>4. v.n = n
    BY <2>2 DEF List
  <2>5. ok => Rewritten(r, row, v)
    BY <2>1, <2>2, <2>3, <2>4 DEF Rewritten
  <2> QED
    BY <2>3, <2>5, ReadKeeps
<1>3. CASE PatchRead(t)
  <2>1. PICK ok, v : /\ ok = (row # NoRow /\ ~Has(row, "junk") /\ r.path # "bad")
                     /\ v = (IF r.path = "root" THEN r.value ELSE ValueOf(row))
    OBVIOUS
  <2>2. ReadFor(t, "patch", ok, v) /\ r.op = "patch"
    BY <1>3, <2>1 DEF PatchRead, ReadFor, Acts
  <2>3. ok => Rewritten(r, row, v)
    BY <2>1, <2>2 DEF Rewritten, ValueOf
  <2> QED
    BY <2>2, <2>3, ReadKeeps
<1> QED
  BY <1>1, <1>2, <1>3
(* The requests that need no transaction.                                    *)
LEMMA HandlersKeep ==
    ASSUME KvInv, NEW t \in Tasks,
           HandleGet(t) \/ HandleSet(t) \/ HandleDelete(t) \/ HandleKeys(t) \/ HandleQuery(t)
    PROVE  KvInv'
<1> DEFINE r == task[t].req
<1>1. task[t].pc = "act" /\ task[t].pc \in Statement /\ task[t].pc \in Handling
  BY States DEF HandleGet, HandleSet, HandleDelete, HandleKeys, HandleQuery, Acts, Statement
<1>2. r \in Requests
  BY <1>1, UnderWay DEF KvInv
<1>3. clock \in Nat
  BY <1>1, InStatement
<1>4. CASE HandleGet(t)
  BY <1>4, AnswerKeeps DEF HandleGet
<1>5. CASE HandleKeys(t)
  BY <1>5, AnswerKeeps DEF HandleKeys
<1>6. CASE HandleSet(t)
  <2>1. r.op = "set" /\ r.key \in Keys /\ r.value \in Values /\ r.ttl \in Int \cup {Never}
    BY <1>2, <1>6, Parameters DEF HandleSet, Acts
  <2>2. PICK e \in Nat \cup {Never} : e = Until(r.ttl, clock) /\ (e # Never => e > clock)
    BY <1>3, <2>1, LifeEndsOnce
  <2>3. PICK row : row = Row(r.value, e)
    OBVIOUS
  <2>4. row \in AnyRow /\ row.exp = e
    BY <2>1, <2>3, RowsAreRows
  <2>5. ~Dead(row, clock)
    BY <2>2, <2>4 DEF Dead, Alive
  <2>6. Write(t, row, Reply(NoRow, TRUE))
    BY <1>6, <2>2, <2>3 DEF HandleSet
  <2> QED
    BY <1>1, <2>1, <2>4, <2>5, <2>6, WriteKeeps
<1>7. CASE HandleDelete(t)
  <2>1. r.key \in Keys
    BY <1>2, <1>7, Parameters DEF HandleDelete, Acts
  <2>2. PICK reply : Write(t, NoRow, reply)
    BY <1>7 DEF HandleDelete
  <2>3. ~Dead(NoRow, clock)
    BY DEF Dead
  <2> QED
    BY <1>1, <2>1, <2>2, <2>3, WriteKeeps
<1>8. CASE HandleQuery(t)
  <2>1. r.key \in Keys /\ r.value \in Values
    BY <1>2, <1>8, Parameters DEF HandleQuery, Acts
  <2>2. CASE r.sql = "attach"
    BY <1>8, <2>2, AnswerKeeps DEF HandleQuery
  <2>3. CASE r.sql # "attach"
    <3>1. PICK row, reply :
             /\ row = CASE r.sql = "insert" -> Row(r.value, Never)
                        [] r.sql = "delete" -> NoRow
                        [] OTHER -> RowOf(t)
             /\ Write(t, row, reply)
      BY <1>8, <2>3 DEF HandleQuery
    <3>2. RowOf(t) \in AnyRow \cup {NoRow}
      BY <1>1, <2>1, RowsOfTasks DEF RowOf, Key
    <3>3. Row(r.value, Never) \in AnyRow /\ Row(r.value, Never).exp = Never
      BY <2>1, RowsAreRows
    <3>4. row \in AnyRow \cup {NoRow} /\ (Dead(row, clock) => Dead(RowOf(t), clock))
      <4>1. CASE r.sql = "insert"
        BY <3>1, <3>3, <4>1 DEF Dead, Alive
      <4>2. CASE r.sql = "delete"
        BY <3>1, <4>2 DEF Dead
      <4>3. CASE r.sql \notin {"insert", "delete"}
        BY <3>1, <3>2, <4>3
      <4> QED
        BY <4>1, <4>2, <4>3
    <3> QED
      BY <1>1, <2>1, <3>1, <3>4, WriteKeeps
  <2> QED
    BY <2>2, <2>3
<1> QED
  BY <1>4, <1>5, <1>6, <1>7, <1>8

(* A batch goes on to its next key, or answers.                              *)
LEMMA BatchKeeps ==
    ASSUME KvInv, NEW t \in Tasks, HandleBatchGet(t)
    PROVE  KvInv'
<1>1. /\ task[t].pc = "act" /\ task[t].pc \in Statement /\ task[t].pc \in Handling
      /\ task[t].req.op = "batch" /\ UNCHANGED <<clock, file, pools>>
  BY States DEF HandleBatchGet, Acts, Statement
<1>2. /\ task[t] \in Called /\ task[t].req \in Requests /\ task[t].c \in Callers
      /\ task[t].got \in Seq(Values \cup {NoRow}) /\ Len(task[t].got) < Len(task[t].req.keys)
  BY <1>1, UnderWay DEF KvInv
<1>3. task[t].req.keys \in Seq(Keys)
  BY <1>1, <1>2, Parameters
<1>4. PICK i \in 1 .. Len(task[t].req.keys) : i = Len(task[t].got) + 1
  BY <1>2, <1>3, LenProperties
<1>5. PICK k \in Keys : k = task[t].req.keys[i]
  BY <1>3, <1>4, ElementOfSeq
<1>6. PICK v \in Values \cup {NoRow} : v = ValueOf(Found(Rows(task[t].c)[k]))
  BY <1>1, RowsOfTasks
<1>7. PICK got \in Seq(Values \cup {NoRow}) : got = Append(task[t].got, v) /\ Len(got) = i
  <2>1. PICK q \in Seq(Values \cup {NoRow}) : q = task[t].got
    BY <1>2
  <2>2. Append(q, v) \in Seq(Values \cup {NoRow}) /\ Len(Append(q, v)) = Len(q) + 1
    BY AppendProperties
  <2> QED
    BY <1>4, <2>1, <2>2
<1>8. \/ \E reply : Respond(t, reply)
      \/ i < Len(task[t].req.keys) /\ task' = [task EXCEPT ![t] = [task[t] EXCEPT !.got = got]]
  BY <1>4, <1>5, <1>6, <1>7 DEF HandleBatchGet, Respond
<1>9. CASE \E reply : Respond(t, reply)
  BY <1>1, <1>9, AnswerKeeps
<1>10. CASE i < Len(task[t].req.keys) /\ task' = [task EXCEPT ![t] = [task[t] EXCEPT !.got = got]]
  <2>1. PICK x : x = [task[t] EXCEPT !.got = got]
    OBVIOUS
  <2>2. /\ x.pc = "act" /\ x.got = got /\ x.c = task[t].c /\ x.req = task[t].req
        /\ x.lapsed = task[t].lapsed /\ x.pool = task[t].pool /\ x \in Called
    BY <1>1, <1>2, <2>1 DEF Called
  <2>3. TaskOK(x)
    BY <1>7, <1>10, <2>2 DEF TaskOK
  <2>4. PoolOK(x) /\ WriteOK(x)
    BY <1>1, <2>2, InStatement DEF PoolOK, WriteOK, Statement
  <2>5. DeadOK(x)
    BY <1>1, <2>2 DEF DeadOK, KvInv
  <2> QED
    BY <1>1, <1>10, <2>1, <2>3, <2>4, <2>5, TaskStep
<1> QED
  BY <1>8, <1>9, <1>10

(* The upsert keeps the time of the row that is there.                       *)
LEMMA UpsertKeeps ==
    ASSUME KvInv, NEW t \in Tasks, Upsert(t)
    PROVE  KvInv'
<1>1. task[t].pc = "write" /\ task[t].pc \in Statement /\ task[t].pc \in Handling
  BY States DEF Upsert, Statement
<1>2. task[t].new \in Values /\ task[t].req \in Requests /\ task[t].req.op \in {"incr", "append", "patch"}
  BY <1>1, UnderWay DEF KvInv
<1>3. task[t].req.key \in Keys
  BY <1>2, Parameters
<1>4. RowOf(t) \in AnyRow \cup {NoRow}
  BY <1>1, <1>3, RowsOfTasks DEF RowOf, Key
<1>5. PICK e \in Nat \cup {Never} : e = IF RowOf(t) = NoRow THEN Never ELSE RowOf(t).exp
  BY <1>4, RowsAreRows
<1>6. PICK row : row = Row(task[t].new, e)
  OBVIOUS
<1>7. row \in AnyRow /\ row.exp = e
  BY <1>2, <1>6, RowsAreRows
<1>8. Dead(row, clock) => Dead(RowOf(t), clock)
  BY <1>5, <1>7 DEF Dead, Alive
<1>9. Write(t, row, Reply(task[t].new, TRUE))
  BY <1>5, <1>6 DEF Upsert
<1> QED
  BY <1>1, <1>3, <1>7, <1>8, <1>9, WriteKeeps

LEMMA FailKeeps ==
    ASSUME KvInv, NEW t \in Tasks, Fail(t)
    PROVE  KvInv'
BY AnswerKeeps DEF Fail

LEMMA SendKeeps ==
    ASSUME KvInv, NEW t \in Tasks, SendResponse(t) \/ SendEvent(t)
    PROVE  KvInv'
<1>1. TaskOK(Idle) /\ PoolOK(Idle) /\ DeadOK(Idle) /\ WriteOK(Idle)
  BY DEF TaskOK, PoolOK, DeadOK, WriteOK, Idle, Statement
<1>2. PICK y : y = [pc |-> "event", c |-> task[t].c, req |-> task[t].req]
  OBVIOUS
<1>3. y.pc = "event" /\ y = [pc |-> "event", c |-> y.c, req |-> y.req]
  BY <1>2
<1>4. TaskOK(y) /\ PoolOK(y) /\ DeadOK(y) /\ WriteOK(y)
  BY <1>3 DEF TaskOK, PoolOK, DeadOK, WriteOK, Statement
<1>5. UNCHANGED <<clock, file, pools>>
  BY DEF SendResponse, SendEvent
<1>6. task' = [task EXCEPT ![t] = y] \/ task' = [task EXCEPT ![t] = Idle]
  BY <1>2 DEF SendResponse, SendEvent
<1>7. CASE task' = [task EXCEPT ![t] = y]
  BY <1>4, <1>5, <1>7, TaskStep
<1>8. CASE task' = [task EXCEPT ![t] = Idle]
  BY <1>1, <1>5, <1>8, TaskStep
<1> QED
  BY <1>6, <1>7, <1>8

-----------------------------------------------------------------------------
(* Time, restarts, and the invariant.                                       *)

\* The rows of a caller that end with the next tick, as tasks note them.
Ending(c) ==
    {[key |-> k, row |-> Rows(c)[k]] :
        k \in {j \in Keys : Alive(Rows(c)[j], clock) /\ ~Alive(Rows(c)[j], clock + 1)}}

LEMMA TickSteps ==
    ASSUME KvInv, Tick
    PROVE  /\ clock' = clock + 1 /\ clock \in Nat /\ clock' \in 0 .. MaxTime /\ file' = file /\ pools' = pools
           /\ DOMAIN task' = Tasks
           /\ \A t \in Tasks : task[t].pc \notin Handling => task'[t] = task[t]
           /\ \A t \in Tasks : task[t].pc \in Handling =>
                 /\ task'[t] = [task[t] EXCEPT !.lapsed = task[t].lapsed \cup Ending(task[t].c)]
                 /\ task'[t] \in Called
                 /\ task'[t].lapsed = task[t].lapsed \cup Ending(task[t].c)
                 /\ task'[t].pc = task[t].pc /\ task'[t].c = task[t].c /\ task'[t].req = task[t].req
                 /\ task'[t].got = task[t].got /\ task'[t].new = task[t].new
                 /\ task'[t].fresh = task[t].fresh /\ task'[t].pool = task[t].pool
<1>1. /\ clock' = clock + 1 /\ clock \in Nat /\ clock' \in 0 .. MaxTime /\ file' = file /\ pools' = pools
      /\ DOMAIN task' = Tasks
  BY KvAssumption DEF Tick, KvInv, TypeOK
<1>2. \A t \in Tasks : task[t].pc \notin Handling => task'[t] = task[t]
  BY DEF Tick, Busy
<1>3. ASSUME NEW t \in Tasks, task[t].pc \in Handling
      PROVE  /\ task'[t] = [task[t] EXCEPT !.lapsed = task[t].lapsed \cup Ending(task[t].c)]
             /\ task'[t] \in Called
             /\ task'[t].lapsed = task[t].lapsed \cup Ending(task[t].c)
             /\ task'[t].pc = task[t].pc /\ task'[t].c = task[t].c /\ task'[t].req = task[t].req
             /\ task'[t].got = task[t].got /\ task'[t].new = task[t].new
             /\ task'[t].fresh = task[t].fresh /\ task'[t].pool = task[t].pool
  <2>1. PICK l : l = task[t].lapsed \cup Ending(task[t].c)
    OBVIOUS
  <2>2. task'[t] = [task[t] EXCEPT !.lapsed = l]
    BY <1>3, <2>1 DEF Tick, Busy, Ending
  <2>3. task[t] \in Called /\ task[t].lapsed \subseteq [key : Keys, row : AnyRow]
    BY <1>3, UnderWay DEF KvInv
  <2>4. Ending(task[t].c) \subseteq [key : Keys, row : AnyRow]
    <3>1. Rows(task[t].c) \in [Keys -> AnyRow \cup {NoRow}]
      BY <1>3, UnderWay DEF KvInv
    <3>2. \A k \in Keys : Alive(Rows(task[t].c)[k], clock) => Rows(task[t].c)[k] \in AnyRow
      BY <3>1 DEF Alive
    <3> QED
      BY <3>2 DEF Ending
  <2>5. l \in SUBSET [key : Keys, row : AnyRow]
    BY <2>1, <2>3, <2>4
  <2> QED
    BY <2>1, <2>2, <2>3, <2>5 DEF Called
<1> QED
  BY <1>1, <1>2, <1>3

LEMMA TickKeeps ==
    ASSUME KvInv, Tick
    PROVE  KvInv'
<1>1. /\ clock' = clock + 1 /\ clock \in Nat /\ clock' \in 0 .. MaxTime /\ file' = file /\ pools' = pools
      /\ DOMAIN task' = Tasks
  BY TickSteps
<1>2. ASSUME NEW t \in Tasks
      PROVE  TaskOK(task'[t]) /\ PoolOK(task[t])' /\ DeadOK(task[t])' /\ WriteOK(task[t])'
  <2>1. TaskOK(task[t]) /\ PoolOK(task[t]) /\ DeadOK(task[t]) /\ WriteOK(task[t])
    BY DEF KvInv, TypeOK
  <2>2. CASE task[t].pc \notin Handling
    <3>1. PICK y : y = task'[t] /\ y = task[t] /\ y.pc \notin Handling
      BY <2>2, TickSteps
    <3> QED
      BY <2>1, <3>1, States DEF PoolOK, DeadOK, WriteOK, Statement
  <2>3. CASE task[t].pc \in Handling
    <3>1. PICK x : x = task[t]
      OBVIOUS
    <3>2. PICK y : y = task'[t]
      OBVIOUS
    <3>3. /\ y \in Called /\ y.lapsed = x.lapsed \cup Ending(x.c)
          /\ y.pc = x.pc /\ y.c = x.c /\ y.req = x.req
          /\ y.got = x.got /\ y.new = x.new /\ y.fresh = x.fresh /\ y.pool = x.pool
      BY <2>3, <3>1, <3>2, TickSteps
    <3>4. /\ x.c \in Callers /\ x.req \in Requests /\ Rows(x.c) \in [Keys -> AnyRow \cup {NoRow}]
          /\ x.pc = "write" => x.new \in Values /\ x.req.op \in {"incr", "append", "patch"}
          /\ x.req.op = "batch" => Len(x.got) < Len(x.req.keys)
      BY <2>3, <3>1, UnderWay DEF KvInv
    <3>5. TaskOK(y)
      BY <3>3, <3>4 DEF TaskOK
    <3>6. PoolOK(task[t])'
      BY <1>1, <2>1, <3>1, <3>2, <3>3 DEF PoolOK
    <3>7. \A k \in Keys : Alive(Rows(x.c)[k], clock) /\ ~Alive(Rows(x.c)[k], clock + 1) =>
             [key |-> k, row |-> Rows(x.c)[k]] \in y.lapsed
      BY <3>3 DEF Ending
    <3>8. DeadOK(task[t])'
      <4> SUFFICES ASSUME y.pc \in {"act", "write"}, NEW k \in Keys, Dead(Rows(y.c)[k], clock + 1)
                   PROVE  \E e \in y.lapsed : e.key = k
        BY <1>1, <3>2 DEF DeadOK, Rows
      <4>1. CASE Alive(Rows(x.c)[k], clock)
        <5>1. [key |-> k, row |-> Rows(x.c)[k]] \in y.lapsed
          BY <3>3, <3>7, <4>1 DEF Dead
        <5> QED
          BY <5>1
      <4>2. CASE ~Alive(Rows(x.c)[k], clock)
        <5>1. \E e \in x.lapsed : e.key = k
          BY <2>1, <3>1, <3>3, <4>2 DEF DeadOK, Dead
        <5> QED
          BY <3>3, <5>1
      <4> QED
        BY <4>1, <4>2
    <3>9. WriteOK(task[t])'
      <4> SUFFICES ASSUME y.pc = "write", y.fresh
                   PROVE  \E seen \in {NoRow, Rows(x.c)[x.req.key]} :
                             /\ Seen(y, Rows(x.c)[x.req.key], clock + 1, seen)
                             /\ Rewritten(x.req, seen, x.new)
        BY <1>1, <3>2, <3>3 DEF WriteOK, Rows
      <4>1. x.req.key \in Keys
        BY <3>3, <3>4, Parameters
      <4>2. PICK row : row = Rows(x.c)[x.req.key]
        OBVIOUS
      <4>3. row \in AnyRow \cup {NoRow}
        BY <3>4, <4>1, <4>2
      <4>4. PICK seen \in {NoRow, row} : Seen(x, row, clock, seen) /\ Rewritten(x.req, seen, x.new)
        BY <2>1, <3>1, <3>3, <4>2 DEF WriteOK
      <4>5. CASE seen = NoRow /\ ~Alive(row, clock)
        <5>1. ~Alive(row, clock + 1)
          BY <1>1, <4>3, <4>5, LifeEndsOnce, RowsAreRows
        <5> QED
          BY <4>2, <4>4, <4>5, <5>1 DEF Seen
      <4>6. CASE seen = row /\ row # NoRow /\ (Alive(row, clock) \/ \E e \in x.lapsed : e.key = x.req.key /\ e.row = row)
        <5>1. Alive(row, clock + 1) \/ \E e \in y.lapsed : e.key = y.req.key /\ e.row = row
          <6>1. CASE Alive(row, clock) /\ ~Alive(row, clock + 1)
            <7>1. PICK e \in y.lapsed : e = [key |-> x.req.key, row |-> row]
              BY <3>7, <4>1, <4>2, <6>1
            <7> QED
              BY <3>3, <7>1
          <6>2. CASE \E e \in x.lapsed : e.key = x.req.key /\ e.row = row
            BY <3>3, <6>2
          <6> QED
            BY <4>6, <6>1, <6>2
        <5> QED
          BY <4>2, <4>4, <4>6, <5>1 DEF Seen
      <4> QED
        BY <4>4, <4>5, <4>6 DEF Seen
    <3> QED
      BY <3>2, <3>5, <3>6, <3>8, <3>9
  <2> QED
    BY <2>2, <2>3
<1>3. TypeOK'
  BY <1>1, <1>2 DEF KvInv, TypeOK
<1>4. PoolsMigrated'
  BY <1>1 DEF KvInv, PoolsMigrated
<1> QED
  BY <1>2, <1>3, <1>4 DEF KvInv

LEMMA IdleTasks ==
    TaskOK(Idle) /\ PoolOK(Idle) /\ DeadOK(Idle) /\ WriteOK(Idle) /\ PoolOK(Idle)' /\ DeadOK(Idle)' /\ WriteOK(Idle)'
  BY DEF TaskOK, PoolOK, DeadOK, WriteOK, Idle, Statement

LEMMA RestartKeeps ==
    ASSUME KvInv, Restart
    PROVE  KvInv'
<1>1. /\ \A t \in Tasks : task'[t] = Idle
      /\ \A c \in Callers : pools'[c] = NoPool
      /\ pools' \in [Callers -> Tasks \cup {NoPool}] /\ DOMAIN task' = Tasks
      /\ clock' = clock /\ file' = file
  BY DEF Restart
<1>2. TypeOK' /\ PoolsMigrated'
  BY <1>1, IdleTasks DEF KvInv, TypeOK, PoolsMigrated
<1>3. \A t \in Tasks : PoolOK(task[t])' /\ DeadOK(task[t])' /\ WriteOK(task[t])'
  BY <1>1 DEF PoolOK, DeadOK, WriteOK, Idle, Statement
<1> QED
  BY <1>2, <1>3 DEF KvInv

LEMMA KvInit == Init => KvInv
<1> SUFFICES ASSUME Init PROVE KvInv
  OBVIOUS
<1>1. /\ \A t \in Tasks : task[t] = Idle
      /\ \A c \in Callers : pools[c] = NoPool
      /\ pools \in [Callers -> Tasks \cup {NoPool}] /\ DOMAIN task = Tasks
      /\ clock = 0
  BY DEF Init
<1>2. file \in [Callers -> [rows : [Keys -> AnyRow \cup {NoRow}], schema : {"none", "old", "new"}]]
  BY DEF Init
<1>3. TypeOK /\ PoolsMigrated
  BY <1>1, <1>2, IdleTasks, KvAssumption DEF TypeOK, PoolsMigrated
<1> QED
  BY <1>1, <1>3, IdleTasks DEF KvInv

LEMMA KvStep == KvInv /\ [Next]_vars => KvInv'
<1> SUFFICES ASSUME KvInv, [Next]_vars PROVE KvInv'
  OBVIOUS
<1>1. ASSUME NEW t \in Tasks, NEW c \in Callers, NEW r \in Requests, OnAction(t, c, r) PROVE KvInv'
  BY <1>1, OnActionKeeps
<1>2. ASSUME NEW t \in Tasks, GetPool(t) \/ Sweep(t) \/ Fail(t) \/ SendResponse(t) \/ SendEvent(t) PROVE KvInv'
  BY <1>2, PoolKeeps, SweepKeeps, FailKeeps, SendKeeps
<1>3. ASSUME NEW t \in Tasks, Act(t) PROVE KvInv'
  BY <1>3, HandlersKeep, BatchKeeps, TransactionKeeps, UpsertKeeps DEF Act
<1>4. CASE Tick
  BY <1>4, TickKeeps
<1>5. CASE Restart
  BY <1>5, RestartKeeps
<1>6. CASE UNCHANGED vars
  <2>1. clock' = clock /\ file' = file /\ pools' = pools /\ task' = task
    BY <1>6 DEF vars
  <2> QED
    BY <2>1 DEF KvInv, TypeOK, PoolsMigrated, PoolOK, DeadOK, WriteOK, Rows
<1> QED
  BY <1>1, <1>2, <1>3, <1>4, <1>5, <1>6 DEF Next

(* However first requests, migrations, statements, failures and restarts     *)
(* interleave, every statement runs on the pool that is cached for its       *)
(* caller, of a file that has the column it names, and every value that is   *)
(* stored is within its bounds (pool_for, open_pool, db_incr, db_append).    *)
THEOREM StoreIsSound == Spec => []StoreInv
<1>1. KvInv => StoreInv
  <2> SUFFICES ASSUME KvInv PROVE StoreInv
    OBVIOUS
  <2>1. \A t \in Tasks : task[t].pc \in Statement =>
           task[t].pool = pools[task[t].c] /\ file[task[t].c].schema = "new"
    BY InStatement
  <2> QED
    BY <2>1 DEF Statement, StoreInv, OnePool, MigratedBeforeUse, KvInv
<1>2. Spec => []KvInv
  BY KvInit, KvStep, PTL DEF Spec
<1> QED
  BY <1>1, <1>2, PTL
-----------------------------------------------------------------------------
(* The tasks implement KvSpec.                                              *)

(* Both modules speak of the same values.                                    *)
LEMMA SameData ==
    /\ Abs!Idle = Idle /\ Abs!Error = Error
    /\ \A v, e : Abs!Row(v, e) = Row(v, e) /\ Abs!Reply(v, e) = Reply(v, e)
    /\ \A row : Abs!ValueOf(row) = ValueOf(row)
    /\ \A row, type : Abs!Has(row, type) = Has(row, type)
    /\ \A row, now : Abs!Alive(row, now) = Alive(row, now)
    /\ \A n : Abs!Num(n) = Num(n) /\ Abs!List(n) = List(n) /\ Abs!Wrap(n) = Wrap(n)
    /\ \A ttl, now : Abs!Until(ttl, now) = Until(ttl, now)
<1>1. Abs!Idle = Idle /\ Abs!Error = Error
  BY DEF Abs!Idle, Idle, Abs!Error, Error
<1>2. \A v, e : Abs!Row(v, e) = Row(v, e) /\ Abs!Reply(v, e) = Reply(v, e)
  BY DEF Abs!Row, Row, Abs!Reply, Reply
<1>3. \A row : Abs!ValueOf(row) = ValueOf(row)
  BY DEF Abs!ValueOf, ValueOf
<1>4. \A row, type : Abs!Has(row, type) = Has(row, type)
  BY DEF Abs!Has, Has
<1>5. \A row, now : Abs!Alive(row, now) = Alive(row, now)
  BY DEF Abs!Alive, Alive
<1>6. \A n : Abs!Num(n) = Num(n) /\ Abs!List(n) = List(n) /\ Abs!Wrap(n) = Wrap(n)
  BY DEF Abs!Num, Num, Abs!List, List, Abs!Wrap, Wrap
<1>7. \A ttl, now : Abs!Until(ttl, now) = Until(ttl, now)
  BY DEF Abs!Until, Until
<1> QED
  BY <1>1, <1>2, <1>3, <1>4, <1>5, <1>6, <1>7

(* What the caller sees of a request that is under way.                      *)
LEMMA SeenAsCalled ==
    ASSUME KvInv, NEW t \in Tasks, task[t].pc \in Handling
    PROVE  /\ AbsOpen[t] = [pc |-> "called", c |-> task[t].c, req |-> task[t].req,
                            lapsed |-> task[t].lapsed, got |-> task[t].got]
           /\ AbsOpen[t].pc = "called" /\ AbsOpen[t].c = task[t].c /\ AbsOpen[t].req = task[t].req
           /\ AbsOpen[t].lapsed = task[t].lapsed /\ AbsOpen[t].got = task[t].got
           /\ \A k \in Keys : AbsStore[task[t].c][k] = Found(Rows(task[t].c)[k])
<1>1. AbsOpen[t] = [pc |-> "called", c |-> task[t].c, req |-> task[t].req,
                    lapsed |-> task[t].lapsed, got |-> task[t].got]
  BY DEF AbsOpen, AbsTask
<1>2. task[t].c \in Callers
  BY UnderWay DEF KvInv
<1>3. \A k \in Keys : AbsStore[task[t].c][k] = Found(Rows(task[t].c)[k])
  BY <1>2 DEF AbsStore
<1>4. /\ AbsOpen[t].pc = "called" /\ AbsOpen[t].c = task[t].c /\ AbsOpen[t].req = task[t].req
      /\ AbsOpen[t].lapsed = task[t].lapsed /\ AbsOpen[t].got = task[t].got
  BY <1>1
<1> QED
  BY <1>1, <1>3, <1>4

LEMMA AnswerIsDone ==
    ASSUME NEW t \in Tasks, NEW reply
    PROVE  AbsTask(Answered(t, reply)) = [pc |-> "done", c |-> task[t].c, req |-> task[t].req, reply |-> reply]
<1>1. PICK x : x = [pc |-> "reply", c |-> task[t].c, req |-> task[t].req, reply |-> reply]
  OBVIOUS
<1>2. x = Answered(t, reply) /\ x.pc = "reply" /\ x.pc \notin Handling
  BY <1>1 DEF Answered, Handling
<1>3. [x EXCEPT !.pc = "done"] = [pc |-> "done", c |-> task[t].c, req |-> task[t].req, reply |-> reply]
  BY <1>1
<1> QED
  BY <1>2, <1>3 DEF AbsTask

(* What a step of one task changes for the callers.                          *)
LEMMA TaskFrame ==
    ASSUME KvInv, NEW t \in Tasks, NEW x, task' = [task EXCEPT ![t] = x]
    PROVE  AbsOpen' = [AbsOpen EXCEPT ![t] = AbsTask(x)]
<1>1. task'[t] = x /\ \A u \in Tasks : u # t => task'[u] = task[u]
  BY DEF KvInv, TypeOK
<1>2. AbsOpen' = [u \in Tasks |-> AbsTask(task'[u])]
  BY DEF AbsOpen, AbsTask
<1>3. AbsOpen = [u \in Tasks |-> AbsTask(task[u])]
  BY DEF AbsOpen
<1> QED
  BY <1>1, <1>2, <1>3

LEMMA StoreFrame ==
    ASSUME clock' = clock, \A c \in Callers : file'[c].rows = file[c].rows
    PROVE  AbsStore' = AbsStore
BY DEF AbsStore, Found, Rows, Alive

LEMMA CommitFrame ==
    ASSUME KvInv, NEW t \in Tasks, NEW rows \in [Keys -> AnyRow \cup {NoRow}], NEW x,
           task[t].pc \in Statement, Commit(t, rows, x)
    PROVE  /\ AbsOpen' = [AbsOpen EXCEPT ![t] = AbsTask(x)]
           /\ AbsStore' = [AbsStore EXCEPT ![task[t].c] = [k \in Keys |-> Found(rows[k])]]
           /\ clock' = clock
<1>1. PICK c \in Callers : c = task[t].c
  BY InStatement
<1>2. /\ clock' = clock
      /\ file' = [file EXCEPT ![c].rows = rows]
      /\ task' = [u \in Tasks |-> IF u = t THEN x
                                  ELSE IF task[u].pc = "write" /\ task[u].c = c /\ rows # Rows(c)
                                       THEN [task[u] EXCEPT !.fresh = FALSE]
                                       ELSE task[u]]
  BY <1>1 DEF Commit
<1>3. file'[c].rows = rows /\ \A d \in Callers : d # c => file'[d] = file[d]
  BY <1>2 DEF KvInv, TypeOK
<1>4. AbsStore' = [AbsStore EXCEPT ![c] = [k \in Keys |-> Found(rows[k])]]
  <2>1. AbsStore' = [d \in Callers |-> [k \in Keys |-> Found(file'[d].rows[k])]]
    BY <1>2 DEF AbsStore, Found, Rows, Alive
  <2>2. \A d \in Callers : d # c => AbsStore[d] = [k \in Keys |-> Found(file'[d].rows[k])]
    BY <1>3 DEF AbsStore, Rows
  <2>3. DOMAIN AbsStore = Callers /\ AbsStore = [d \in Callers |-> AbsStore[d]]
    BY DEF AbsStore
  <2> QED
    BY <1>3, <2>1, <2>2, <2>3
<1>5. ASSUME NEW u \in Tasks, u # t PROVE AbsTask(task'[u]) = AbsTask(task[u])
  <2>1. CASE task[u].pc = "write" /\ task[u].c = c /\ rows # Rows(c)
    <3>1. task[u] \in Called /\ task[u].pc \in Handling
      BY <2>1, States, UnderWay DEF Statement, KvInv
    <3>2. PICK y : y = task'[u] /\ y = [task[u] EXCEPT !.fresh = FALSE]
      BY <1>2, <1>5, <2>1
    <3>3. y.pc = task[u].pc /\ y.c = task[u].c /\ y.req = task[u].req
          /\ y.lapsed = task[u].lapsed /\ y.got = task[u].got
      BY <3>1, <3>2 DEF Called
    <3> QED
      BY <3>1, <3>2, <3>3 DEF AbsTask
  <2>2. CASE ~(task[u].pc = "write" /\ task[u].c = c /\ rows # Rows(c))
    BY <1>2, <1>5, <2>2
  <2> QED
    BY <2>1, <2>2
<1>6. AbsOpen' = [AbsOpen EXCEPT ![t] = AbsTask(x)]
  <2>1. AbsOpen' = [u \in Tasks |-> AbsTask(task'[u])]
    BY DEF AbsOpen, AbsTask
  <2>2. task'[t] = x
    BY <1>2
  <2>3. AbsOpen = [u \in Tasks |-> AbsTask(task[u])]
    BY DEF AbsOpen
  <2> QED
    BY <1>5, <2>1, <2>2, <2>3
<1> QED
  BY <1>1, <1>2, <1>4, <1>6

(* A statement that writes a row and answers.                                *)
LEMMA WriteFrame ==
    ASSUME KvInv, NEW t \in Tasks, NEW row \in AnyRow \cup {NoRow}, NEW reply,
           task[t].pc \in Statement, task[t].req.key \in Keys, Write(t, row, reply)
    PROVE  /\ Abs!Answer(t, reply) /\ clock' = clock
           /\ Abs!Put(t, Found(row))
           /\ Found(row) = Found(RowOf(t)) => AbsStore' = AbsStore
<1>1. Rows(task[t].c) \in [Keys -> AnyRow \cup {NoRow}] /\ task[t].c \in Callers /\ task[t].pc \in Handling
  BY States, UnderWay DEF KvInv
<1>2. PICK rows \in [Keys -> AnyRow \cup {NoRow}] : rows = [Rows(task[t].c) EXCEPT ![Key(t)] = row]
  BY <1>1 DEF Key
<1>3. Commit(t, rows, Answered(t, reply))
  BY <1>2 DEF Write
<1>4. /\ AbsOpen' = [AbsOpen EXCEPT ![t] = AbsTask(Answered(t, reply))]
      /\ AbsStore' = [AbsStore EXCEPT ![task[t].c] = [k \in Keys |-> Found(rows[k])]]
      /\ clock' = clock
  BY <1>3, CommitFrame
<1>5. AbsOpen[t].c = task[t].c /\ AbsOpen[t].req = task[t].req
  BY <1>1, SeenAsCalled
<1>6. Abs!Answer(t, reply)
  BY <1>4, <1>5, AnswerIsDone DEF Abs!Answer
<1>7. PICK c \in Callers, k \in Keys : c = task[t].c /\ k = task[t].req.key
  BY <1>1
<1>8. AbsStore[c] = [j \in Keys |-> Found(Rows(c)[j])]
  BY DEF AbsStore
<1>9. [j \in Keys |-> Found(rows[j])] = [AbsStore[c] EXCEPT ![k] = Found(row)]
  BY <1>1, <1>2, <1>7, <1>8 DEF Key
<1>10. AbsStore' = [AbsStore EXCEPT ![c] = [AbsStore[c] EXCEPT ![k] = Found(row)]]
  BY <1>4, <1>7, <1>9
<1>11. Abs!Put(t, Found(row))
  <2>1. DOMAIN AbsStore = Callers
    BY DEF AbsStore
  <2> QED
    BY <1>5, <1>7, <1>10, <2>1 DEF Abs!Put
<1>12. ASSUME Found(row) = Found(RowOf(t)) PROVE AbsStore' = AbsStore
  <2>1. AbsStore[c][k] = Found(row)
    BY <1>7, <1>8, <1>12 DEF RowOf, Key
  <2>2. [AbsStore[c] EXCEPT ![k] = Found(row)] = AbsStore[c]
    BY <1>8, <2>1
  <2>3. AbsStore = [d \in Callers |-> AbsStore[d]]
    BY DEF AbsStore
  <2> QED
    BY <1>10, <2>2, <2>3
<1> QED
  BY <1>4, <1>6, <1>11, <1>12

(* What the abstract request of a task sees.                                 *)
LEMMA View ==
    ASSUME KvInv, NEW t \in Tasks, task[t].pc \in Handling
    PROVE  /\ \A op : Abs!Request(t, op) <=> task[t].req.op = op
           /\ task[t].req.key \in Keys =>
                 /\ Abs!Current(t) = Found(RowOf(t))
                 /\ \A e \in task[t].lapsed : e.key = Key(t) => e.row \in Abs!Lapsed(t)
<1>1. /\ AbsOpen[t].pc = "called" /\ AbsOpen[t].c = task[t].c /\ AbsOpen[t].req = task[t].req
      /\ AbsOpen[t].lapsed = task[t].lapsed
      /\ \A k \in Keys : AbsStore[task[t].c][k] = Found(Rows(task[t].c)[k])
  BY SeenAsCalled
<1>2. \A op : Abs!Request(t, op) <=> task[t].req.op = op
  BY <1>1 DEF Abs!Request
<1>3. ASSUME task[t].req.key \in Keys PROVE Abs!Current(t) = Found(RowOf(t))
  BY <1>1, <1>3 DEF Abs!Current, RowOf, Key
<1>4. ASSUME NEW e \in task[t].lapsed, e.key = Key(t) PROVE e.row \in Abs!Lapsed(t)
  BY <1>1, <1>4 DEF Abs!Lapsed, Key
<1> QED
  BY <1>2, <1>3, <1>4

(* A refused request changes nothing a caller can see.                       *)
LEMMA Refused ==
    ASSUME KvInv, NEW t \in Tasks, task[t].pc \in Handling, Respond(t, Error),
           clock' = clock, \A c \in Callers : file'[c].rows = file[c].rows
    PROVE  Abs!Refuse(t)
<1>1. AbsOpen' = [AbsOpen EXCEPT ![t] = AbsTask(Answered(t, Error))]
  BY TaskFrame DEF Respond
<1>2. AbsOpen[t].pc = "called" /\ AbsOpen[t].c = task[t].c /\ AbsOpen[t].req = task[t].req
  BY SeenAsCalled
<1>3. Abs!Answer(t, Error)
  BY <1>1, <1>2, AnswerIsDone DEF Abs!Answer
<1>4. AbsStore' = AbsStore
  BY StoreFrame
<1> QED
  BY <1>2, <1>3, <1>4, SameData DEF Abs!Refuse

(* A statement takes effect on the row that is there, or comes too late: the *)
(* row ended while the request was handled, and what is written has ended    *)
(* with it.                                                                  *)
LEMMA WriteSettles ==
    ASSUME KvInv, NEW t \in Tasks, task[t].pc \in {"act", "write"}, task[t].req.key \in Keys,
           NEW row \in AnyRow \cup {NoRow}, NEW reply, Write(t, row, reply), NEW seen, NEW new,
           \/ seen = Found(RowOf(t)) /\ new = Found(row)
           \/ /\ Dead(RowOf(t), clock) /\ Found(row) = NoRow
              /\ seen = NoRow \/ \E e \in task[t].lapsed : e.key = Key(t) /\ e.row = seen
    PROVE  Abs!Settle(t, seen, new, reply) /\ seen \in {NoRow, Abs!Current(t)} \cup Abs!Lapsed(t)
<1>1. task[t].pc \in Statement /\ task[t].pc \in Handling
  BY States DEF Statement
<1>2. /\ Abs!Answer(t, reply) /\ clock' = clock
      /\ Abs!Put(t, Found(row))
      /\ Found(row) = Found(RowOf(t)) => AbsStore' = AbsStore
  BY <1>1, WriteFrame
<1>3. /\ Abs!Current(t) = Found(RowOf(t))
      /\ \A e \in task[t].lapsed : e.key = Key(t) => e.row \in Abs!Lapsed(t)
  BY <1>1, View
<1>4. CASE seen = Found(RowOf(t)) /\ new = Found(row)
  BY <1>2, <1>3, <1>4 DEF Abs!Settle
<1>5. CASE /\ Dead(RowOf(t), clock) /\ Found(row) = NoRow
           /\ seen = NoRow \/ \E e \in task[t].lapsed : e.key = Key(t) /\ e.row = seen
  <2>1. Found(RowOf(t)) = NoRow
    BY <1>5 DEF Dead, Found
  <2>2. \E e \in task[t].lapsed : e.key = Key(t)
    BY <1>5 DEF KvInv, DeadOK, RowOf, Key
  <2>3. Abs!Lapsed(t) # {} /\ seen \in Abs!Lapsed(t) \cup {NoRow}
    BY <1>3, <1>5, <2>2
  <2>4. AbsStore' = AbsStore
    BY <1>2, <1>5, <2>1
  <2> QED
    BY <1>2, <1>3, <2>1, <2>3, <2>4 DEF Abs!Settle
<1> QED
  BY <1>4, <1>5

(* An answer from what was read.                                             *)
LEMMA ReadSettles ==
    ASSUME KvInv, NEW t \in Tasks, task[t].pc \in Handling, NEW reply, Respond(t, reply),
           UNCHANGED <<clock, file, pools>>
    PROVE  /\ Abs!Answer(t, reply) /\ clock' = clock /\ AbsStore' = AbsStore
           /\ task[t].req.key \in Keys => Abs!Settle(t, Found(RowOf(t)), Found(RowOf(t)), reply)
<1>1. AbsOpen' = [AbsOpen EXCEPT ![t] = AbsTask(Answered(t, reply))]
  BY TaskFrame DEF Respond
<1>2. AbsOpen[t].c = task[t].c /\ AbsOpen[t].req = task[t].req
  BY SeenAsCalled
<1>3. Abs!Answer(t, reply)
  BY <1>1, <1>2, AnswerIsDone DEF Abs!Answer
<1>4. AbsStore' = AbsStore
  BY StoreFrame
<1>5. ASSUME task[t].req.key \in Keys PROVE Abs!Settle(t, Found(RowOf(t)), Found(RowOf(t)), reply)
  <2>1. Abs!Current(t) = Found(RowOf(t))
    BY <1>5, View
  <2>2. PICK c \in Callers, k \in Keys : c = task[t].c /\ k = task[t].req.key
    BY <1>5, UnderWay DEF KvInv
  <2>3. AbsStore[c][k] = Found(RowOf(t))
    BY <1>2, <2>1, <2>2 DEF Abs!Current
  <2>4. AbsStore[c] = [j \in Keys |-> AbsStore[c][j]] /\ AbsStore = [d \in Callers |-> AbsStore[d]]
    BY DEF AbsStore
  <2>5. [AbsStore[c] EXCEPT ![k] = Found(RowOf(t))] = AbsStore[c]
    BY <2>3, <2>4
  <2>6. [AbsStore EXCEPT ![c] = [AbsStore[c] EXCEPT ![k] = Found(RowOf(t))]] = AbsStore
    BY <2>4, <2>5
  <2>7. Abs!Put(t, Found(RowOf(t)))
    BY <1>2, <1>4, <2>2, <2>6 DEF Abs!Put
  <2> QED
    BY <1>3, <2>1, <2>7 DEF Abs!Settle
<1> QED
  BY <1>3, <1>4, <1>5

LEMMA SetsAndDeletes ==
    ASSUME KvInv, NEW t \in Tasks, HandleSet(t) \/ HandleDelete(t)
    PROVE  Abs!OnRow(t)
<1> DEFINE r == task[t].req
<1>1. task[t].pc = "act" /\ task[t].pc \in Handling /\ r.op \in {"set", "delete"}
  BY States DEF HandleSet, HandleDelete, Acts, Statement
<1>2. r \in Requests /\ r.key \in Keys /\ clock \in Nat
  BY <1>1, UnderWay, Parameters, InStatement DEF KvInv, Statement
<1>3. AbsOpen[t].pc = "called" /\ AbsOpen[t].req = r /\ (\A op : Abs!Request(t, op) <=> r.op = op)
  BY <1>1, SeenAsCalled, View
<1>4. RowOf(t) \in AnyRow \cup {NoRow}
  BY <1>1, <1>2, RowsOfTasks DEF RowOf, Key
<1>5. CASE HandleSet(t)
  <2>1. r.op = "set" /\ r.value \in Values /\ r.ttl \in Int \cup {Never}
    BY <1>2, <1>5, Parameters DEF HandleSet, Acts
  <2>2. PICK e \in Nat \cup {Never} : e = Until(r.ttl, clock) /\ (e # Never => e > clock)
    BY <1>2, <2>1, LifeEndsOnce
  <2>3. PICK row : row = Row(r.value, e) /\ row \in AnyRow /\ row.exp = e
    BY <2>1, RowsAreRows
  <2>4. Found(row) = row
    BY <2>2, <2>3, RowsAreRows DEF Found, Alive
  <2>5. Write(t, row, Reply(NoRow, TRUE))
    BY <1>5, <2>2, <2>3 DEF HandleSet
  <2>6. PICK seen : seen = Found(RowOf(t))
    OBVIOUS
  <2>7. Abs!Settle(t, seen, row, Reply(NoRow, TRUE)) /\ seen \in {NoRow, Abs!Current(t)} \cup Abs!Lapsed(t)
    BY <1>1, <1>2, <2>3, <2>4, <2>5, <2>6, WriteSettles
  <2>8. Abs!Set(t, seen)
    BY <1>3, <2>1, <2>2, <2>3, <2>7, SameData DEF Abs!Set
  <2> QED
    BY <1>1, <1>3, <2>7, <2>8 DEF Abs!OnRow
<1>6. CASE HandleDelete(t)
  <2>1. r.op = "delete"
    BY <1>6 DEF HandleDelete, Acts
  <2>2. PICK deleted : deleted = (RowOf(t) # NoRow)
    OBVIOUS
  <2>3. Write(t, NoRow, Reply(deleted, deleted))
    BY <1>6, <2>2 DEF HandleDelete
  <2>4. Found(NoRow) = NoRow
    BY DEF Found
  <2>5. PICK seen : /\ deleted = (seen # NoRow)
                    /\ \/ seen = Found(RowOf(t))
                       \/ Dead(RowOf(t), clock) /\ \E e \in task[t].lapsed : e.key = Key(t) /\ e.row = seen
    <3>1. CASE RowOf(t) = NoRow \/ Alive(RowOf(t), clock)
      BY <2>2, <3>1 DEF Found
    <3>2. CASE RowOf(t) # NoRow /\ ~Alive(RowOf(t), clock)
      <4>1. PICK e \in task[t].lapsed : e.key = Key(t)
        BY <1>1, <1>2, <3>2 DEF KvInv, DeadOK, Dead, RowOf, Key
      <4>2. e.row # NoRow
        BY <1>1, <4>1, UnderWay, RowsAreRows DEF KvInv
      <4> QED
        BY <2>2, <3>2, <4>1, <4>2 DEF Dead
    <3> QED
      BY <3>1, <3>2
  <2>6. Abs!Settle(t, seen, NoRow, Reply(deleted, deleted)) /\ seen \in {NoRow, Abs!Current(t)} \cup Abs!Lapsed(t)
    BY <1>1, <1>2, <2>3, <2>4, <2>5, WriteSettles
  <2>7. Abs!Delete(t, seen)
    BY <1>3, <2>1, <2>5, <2>6, SameData DEF Abs!Delete
  <2> QED
    BY <1>1, <1>3, <2>6, <2>7 DEF Abs!OnRow
<1> QED
  BY <1>5, <1>6

(* The upsert of a transaction that was not overtaken: the read and the      *)
(* write are one step of the caller's store.                                 *)
LEMMA UpsertSettles ==
    ASSUME KvInv, NEW t \in Tasks, Upsert(t)
    PROVE  Abs!OnRow(t)
<1> DEFINE r == task[t].req
           v == task[t].new
<1>1. task[t].pc = "write" /\ task[t].pc \in Handling /\ task[t].fresh
  BY States DEF Upsert, Statement
<1>2. v \in Values /\ r \in Requests /\ r.op \in {"incr", "append", "patch"}
  BY <1>1, UnderWay DEF KvInv
<1>3. r.key \in Keys
  BY <1>2, Parameters
<1>4. AbsOpen[t].pc = "called" /\ AbsOpen[t].req = r /\ (\A op : Abs!Request(t, op) <=> r.op = op)
  BY <1>1, SeenAsCalled, View
<1>5. PICK row \in AnyRow \cup {NoRow} : row = RowOf(t)
  BY <1>1, <1>3, RowsOfTasks DEF RowOf, Key
<1>6. PICK seen \in {NoRow, row} : Seen(task[t], row, clock, seen) /\ Rewritten(r, seen, v)
  BY <1>1, <1>5 DEF KvInv, WriteOK, RowOf, Key
<1>7. PICK e \in Nat \cup {Never} : e = IF row = NoRow THEN Never ELSE row.exp
  BY <1>5, RowsAreRows
<1>8. PICK put : put = Row(v, e) /\ put \in AnyRow /\ put.exp = e /\ put # NoRow
  BY <1>2, RowsAreRows
<1>9. Write(t, put, Reply(v, TRUE))
  BY <1>5, <1>7, <1>8 DEF Upsert
<1>10. PICK new : new = Row(v, IF seen = NoRow THEN Never ELSE seen.exp)
  OBVIOUS
<1>11. \/ seen = Found(RowOf(t)) /\ new = Found(put)
       \/ /\ Dead(RowOf(t), clock) /\ Found(put) = NoRow
          /\ seen = NoRow \/ \E f \in task[t].lapsed : f.key = Key(t) /\ f.row = seen
  <2>1. CASE row = NoRow
    BY <1>5, <1>6, <1>7, <1>8, <1>10, <2>1 DEF Found, Alive
  <2>2. CASE row # NoRow /\ Alive(row, clock)
    BY <1>5, <1>6, <1>7, <1>8, <1>10, <2>2 DEF Found, Alive, Seen
  <2>3. CASE row # NoRow /\ ~Alive(row, clock)
    BY <1>5, <1>6, <1>7, <1>8, <2>3 DEF Found, Alive, Seen, Dead, Key
  <2> QED
    BY <2>1, <2>2, <2>3
<1>12. Abs!Settle(t, seen, new, Reply(v, TRUE)) /\ seen \in {NoRow, Abs!Current(t)} \cup Abs!Lapsed(t)
  BY <1>1, <1>3, <1>8, <1>9, <1>11, WriteSettles
<1>13. Abs!Rewrite(t, seen, v, v)
  BY <1>10, <1>12, SameData DEF Abs!Rewrite
<1>14. CASE r.op = "incr"
  <2>1. Abs!Incr(t, seen)
    BY <1>4, <1>6, <1>13, <1>14, SameData DEF Abs!Incr, Rewritten
  <2> QED
    BY <1>4, <1>12, <1>14, <2>1 DEF Abs!OnRow
<1>15. CASE r.op = "append"
  <2>1. Abs!AppendTo(t, seen)
    BY <1>4, <1>6, <1>13, <1>15, SameData DEF Abs!AppendTo, Rewritten
  <2> QED
    BY <1>4, <1>12, <1>15, <2>1 DEF Abs!OnRow
<1>16. CASE r.op = "patch"
  <2>1. Abs!Patch(t, seen)
    BY <1>4, <1>6, <1>13, <1>16, SameData DEF Abs!Patch, Rewritten
  <2> QED
    BY <1>4, <1>12, <1>16, <2>1 DEF Abs!OnRow
<1> QED
  BY <1>2, <1>14, <1>15, <1>16

LEMMA GetsSettle ==
    ASSUME KvInv, NEW t \in Tasks, HandleGet(t)
    PROVE  Abs!OnRow(t) \/ Abs!Refuse(t)
<1>1. task[t].pc \in Handling /\ task[t].req.op = "get" /\ UNCHANGED <<clock, file, pools>>
  BY States DEF HandleGet, Acts, Statement
<1>2. task[t].req.key \in Keys
  BY <1>1, UnderWay, Parameters DEF KvInv
<1>3. PICK row : row = Found(RowOf(t))
  OBVIOUS
<1>4. CASE Has(row, "junk")
  BY <1>1, <1>3, <1>4, Refused DEF HandleGet
<1>5. CASE ~Has(row, "junk")
  <2>1. Respond(t, Reply(ValueOf(row), FALSE))
    BY <1>3, <1>5 DEF HandleGet
  <2>2. Abs!Settle(t, row, row, Reply(ValueOf(row), FALSE))
    BY <1>1, <1>2, <1>3, <2>1, ReadSettles
  <2>3. AbsOpen[t].pc = "called" /\ AbsOpen[t].req = task[t].req /\ Abs!Request(t, "get") /\ row = Abs!Current(t)
    BY <1>1, <1>2, <1>3, SeenAsCalled, View
  <2>4. Abs!Get(t, row)
    BY <1>5, <2>2, <2>3, SameData DEF Abs!Get
  <2> QED
    BY <1>1, <2>3, <2>4 DEF Abs!OnRow
<1> QED
  BY <1>4, <1>5

LEMMA KeysListed ==
    ASSUME KvInv, NEW t \in Tasks, HandleKeys(t)
    PROVE  Abs!ListKeys(t)
<1>1. task[t].pc = "act" /\ task[t].pc \in Handling /\ task[t].req.op = "keys" /\ UNCHANGED <<clock, file, pools>>
  BY States DEF HandleKeys, Acts, Statement
<1>2. PICK all : all = {k \in Keys : Rows(task[t].c)[k] # NoRow}
  OBVIOUS
<1>3. PICK live : live = {k \in Keys : AbsStore[AbsOpen[t].c][k] # NoRow}
  OBVIOUS
<1>4. PICK K : K = {k \in Keys : Dead(Rows(task[t].c)[k], clock)}
  OBVIOUS
<1>5. /\ AbsOpen[t].c = task[t].c /\ AbsOpen[t].lapsed = task[t].lapsed /\ Abs!Request(t, "keys")
      /\ \A k \in Keys : AbsStore[task[t].c][k] = Found(Rows(task[t].c)[k])
  BY <1>1, SeenAsCalled, View
<1>6. all = live \cup K
  BY <1>2, <1>3, <1>4, <1>5 DEF Dead, Found, Alive
<1>7. K \in SUBSET {e.key : e \in AbsOpen[t].lapsed}
  BY <1>1, <1>4, <1>5 DEF KvInv, DeadOK
<1>8. Respond(t, Reply(all, FALSE))
  BY <1>2 DEF HandleKeys
<1>9. Abs!Answer(t, Reply(all, FALSE)) /\ clock' = clock /\ AbsStore' = AbsStore
  BY <1>1, <1>8, ReadSettles
<1> QED
  BY <1>3, <1>5, <1>6, <1>7, <1>9, SameData DEF Abs!ListKeys

LEMMA AppendIsFunction ==
    ASSUME NEW S, NEW q \in Seq(S), NEW v \in S
    PROVE  Append(q, v) = [j \in 1 .. Len(q) + 1 |-> IF j < Len(q) + 1 THEN q[j] ELSE v]
<1>1. PICK a : a = Append(q, v)
  OBVIOUS
<1>2. PICK n \in Nat : n = Len(q)
  BY LenProperties
<1>3. /\ a \in Seq(S) /\ Len(a) = n + 1
      /\ \A i \in 1 .. n : a[i] = q[i]
      /\ a[n + 1] = v
  BY <1>1, <1>2, AppendProperties
<1>4. DOMAIN a = 1 .. n + 1 /\ a = [j \in DOMAIN a |-> a[j]]
  BY <1>3, LenProperties
<1>5. \A j \in 1 .. n + 1 : a[j] = IF j < n + 1 THEN q[j] ELSE v
  BY <1>3
<1>6. a = [j \in 1 .. n + 1 |-> IF j < n + 1 THEN q[j] ELSE v]
  BY <1>4, <1>5
<1> QED
  BY <1>1, <1>2, <1>6

LEMMA BatchGoesOn ==
    ASSUME KvInv, NEW t \in Tasks, HandleBatchGet(t)
    PROVE  Abs!BatchGet(t) \/ Abs!Refuse(t)
<1>1. /\ task[t].pc \in Handling /\ task[t].req.op = "batch" /\ UNCHANGED <<clock, file, pools>>
  BY States DEF HandleBatchGet, Acts, Statement
<1>2. /\ task[t] \in Called /\ task[t].req \in Requests
      /\ task[t].got \in Seq(Values \cup {NoRow}) /\ Len(task[t].got) < Len(task[t].req.keys)
  BY <1>1, UnderWay DEF KvInv
<1>3. task[t].req.keys \in Seq(Keys)
  BY <1>1, <1>2, Parameters
<1>4. PICK i \in 1 .. Len(task[t].req.keys) : i = Len(task[t].got) + 1
  BY <1>2, <1>3, LenProperties
<1>5. PICK k \in Keys : k = task[t].req.keys[i]
  BY <1>3, <1>4, ElementOfSeq
<1>6. PICK row : row = Found(Rows(task[t].c)[k])
  OBVIOUS
<1>7. PICK got : got = Append(task[t].got, ValueOf(row))
  OBVIOUS
<1>8. got = [j \in 1 .. i |-> IF j < i THEN task[t].got[j] ELSE ValueOf(row)]
  <2>1. ValueOf(row) \in Values \cup {NoRow}
    BY <1>1, <1>6, RowsOfTasks
  <2> QED
    BY <1>2, <1>4, <1>7, <2>1, AppendIsFunction
<1>9. /\ Has(row, "junk") => Respond(t, Error)
      /\ ~Has(row, "junk") /\ i < Len(task[t].req.keys) => task' = [task EXCEPT ![t] = [task[t] EXCEPT !.got = got]]
      /\ ~Has(row, "junk") /\ ~(i < Len(task[t].req.keys)) => Respond(t, Reply(got, FALSE))
  <2>1. PICK y : y = IF Has(row, "junk") THEN Answered(t, Error)
                     ELSE IF i < Len(task[t].req.keys) THEN [task[t] EXCEPT !.got = got]
                     ELSE Answered(t, Reply(got, FALSE))
    OBVIOUS
  <2>2. task' = [task EXCEPT ![t] = y]
    BY <1>4, <1>5, <1>6, <1>7, <2>1, Zenon DEF HandleBatchGet
  <2>3. CASE Has(row, "junk")
    BY <2>1, <2>2, <2>3, Zenon DEF Respond
  <2>4. CASE ~Has(row, "junk") /\ i < Len(task[t].req.keys)
    BY <2>1, <2>2, <2>4, Zenon
  <2>5. CASE ~Has(row, "junk") /\ ~(i < Len(task[t].req.keys))
    BY <2>1, <2>2, <2>5, Zenon DEF Respond
  <2> QED
    BY <2>3, <2>4, <2>5
<1>10. /\ AbsOpen[t] = [pc |-> "called", c |-> task[t].c, req |-> task[t].req,
                        lapsed |-> task[t].lapsed, got |-> task[t].got]
       /\ AbsOpen[t].c = task[t].c /\ AbsOpen[t].req = task[t].req /\ AbsOpen[t].got = task[t].got
       /\ Abs!Request(t, "batch") /\ AbsStore[task[t].c][k] = row
  BY <1>1, <1>6, SeenAsCalled, View
<1>11. AbsStore' = AbsStore /\ clock' = clock
  BY <1>1, StoreFrame
<1>12. CASE Has(row, "junk")
  BY <1>1, <1>9, <1>12, Refused
<1>13. CASE ~Has(row, "junk") /\ i < Len(task[t].req.keys)
  <2>1. PICK x : x = [task[t] EXCEPT !.got = got]
    OBVIOUS
  <2>2. x.pc = task[t].pc /\ x.got = got /\ x.c = task[t].c /\ x.req = task[t].req /\ x.lapsed = task[t].lapsed
    BY <1>2, <2>1 DEF Called
  <2>3. AbsTask(x) = [pc |-> "called", c |-> task[t].c, req |-> task[t].req, lapsed |-> task[t].lapsed, got |-> got]
    BY <1>1, <2>2 DEF AbsTask
  <2>4. AbsTask(x) = [AbsOpen[t] EXCEPT !.got = got]
    BY <1>10, <2>3
  <2>5. AbsOpen' = [AbsOpen EXCEPT ![t] = AbsTask(x)]
    BY <1>9, <1>13, <2>1, TaskFrame
  <2>6. AbsOpen' = [AbsOpen EXCEPT ![t].got = got]
    BY <2>4, <2>5
  <2> QED
    BY <1>4, <1>5, <1>8, <1>10, <1>11, <1>13, <2>6, SameData DEF Abs!BatchGet
<1>14. CASE ~Has(row, "junk") /\ ~(i < Len(task[t].req.keys))
  <2>1. Respond(t, Reply(got, FALSE))
    BY <1>9, <1>14 DEF Respond
  <2>2. Abs!Answer(t, Reply(got, FALSE))
    BY <1>1, <2>1, ReadSettles
  <2> QED
    BY <1>4, <1>5, <1>8, <1>10, <1>11, <1>14, <2>2, SameData DEF Abs!BatchGet
<1> QED
  BY <1>12, <1>13, <1>14

LEMMA QueriesSettle ==
    ASSUME KvInv, NEW t \in Tasks, HandleQuery(t)
    PROVE  Abs!Query(t) \/ Abs!Refuse(t)
<1> DEFINE r == task[t].req
<1>1. task[t].pc \in Statement /\ task[t].pc \in Handling /\ r.op = "query"
  BY States DEF HandleQuery, Acts, Statement
<1>2. r.key \in Keys /\ r.value \in Values
  BY <1>1, UnderWay, Parameters DEF KvInv
<1>3. CASE r.sql = "attach"
  BY <1>1, <1>3, Refused DEF HandleQuery
<1>4. CASE r.sql # "attach"
  <2>0. PICK row : row = CASE r.sql = "insert" -> Row(r.value, Never)
                           [] r.sql = "delete" -> NoRow
                           [] OTHER -> RowOf(t)
    OBVIOUS
  <2>1. PICK reply \in {Reply(NoRow, FALSE), Error} : Write(t, row, reply)
    BY <1>4, <2>0 DEF HandleQuery
  <2>2. RowOf(t) \in AnyRow \cup {NoRow}
    BY <1>1, <1>2, RowsOfTasks DEF RowOf, Key
  <2>3. Row(r.value, Never) \in AnyRow /\ Row(r.value, Never).exp = Never /\ Row(r.value, Never) # NoRow
    BY <1>2, RowsAreRows
  <2>4. row \in AnyRow \cup {NoRow}
    BY <2>0, <2>2, <2>3
  <2>5. /\ Abs!Answer(t, reply) /\ clock' = clock
        /\ Abs!Put(t, Found(row))
        /\ Found(row) = Found(RowOf(t)) => AbsStore' = AbsStore
    BY <1>1, <1>2, <2>1, <2>4, WriteFrame
  <2>6. /\ r.sql = "insert" => Found(row) = Row(r.value, Never)
        /\ r.sql = "delete" => Found(row) = NoRow
        /\ r.sql \notin {"insert", "delete"} => Found(row) = Found(RowOf(t))
    <3>1. CASE r.sql = "insert"
      BY <2>0, <2>3, <3>1 DEF Found, Alive
    <3>2. CASE r.sql = "delete"
      BY <2>0, <3>2 DEF Found
    <3>3. CASE r.sql \notin {"insert", "delete"}
      BY <2>0, <3>3
    <3> QED
      BY <3>1, <3>2, <3>3
  <2>7. AbsOpen[t].req = r /\ Abs!Request(t, "query")
    BY <1>1, SeenAsCalled, View
  <2>8. CASE r.sql = "insert"
    BY <1>4, <2>1, <2>5, <2>6, <2>7, <2>8, SameData DEF Abs!Query
  <2>9. CASE r.sql = "delete"
    BY <1>4, <2>1, <2>5, <2>6, <2>7, <2>9, SameData DEF Abs!Query
  <2>10. CASE r.sql \notin {"insert", "delete"}
    BY <1>4, <2>1, <2>5, <2>6, <2>7, <2>10, SameData DEF Abs!Query
  <2> QED
    BY <2>8, <2>9, <2>10
<1> QED
  BY <1>3, <1>4

(* Steps inside a task that callers do not see.                              *)
LEMMA Unseen ==
    ASSUME KvInv, NEW t \in Tasks, task[t].pc \in Handling, NEW x, task' = [task EXCEPT ![t] = x],
           x.pc \in Handling, x.c = task[t].c, x.req = task[t].req,
           x.lapsed = task[t].lapsed, x.got = task[t].got,
           clock' = clock, \A c \in Callers : file'[c].rows = file[c].rows
    PROVE  UNCHANGED Abs!vars
<1>1. AbsOpen' = [AbsOpen EXCEPT ![t] = AbsTask(x)]
  BY TaskFrame
<1>2. AbsTask(x) = AbsOpen[t]
  BY SeenAsCalled DEF AbsTask
<1>3. AbsOpen = [u \in Tasks |-> AbsOpen[u]]
  BY DEF AbsOpen
<1>4. AbsOpen' = AbsOpen
  BY <1>1, <1>2, <1>3
<1>5. AbsStore' = AbsStore
  BY StoreFrame
<1> QED
  BY <1>4, <1>5 DEF Abs!vars

LEMMA PoolsUnseen ==
    ASSUME KvInv, NEW t \in Tasks, GetPool(t)
    PROVE  UNCHANGED Abs!vars \/ Abs!Refuse(t)
<1>1. task[t].pc \in {"pool", "open", "schema", "alter", "cache"}
  BY DEF GetPool, PoolLookup, OpenFile, CheckSchema, Alter, CachePool
<1>2. task[t].pc \in Handling
  BY <1>1, States
<1>3. task[t] \in Called /\ task[t].c \in Callers
  BY <1>2, UnderWay DEF KvInv
<1>4. /\ clock' = clock
      /\ \A c \in Callers : file'[c].rows = file[c].rows
  <2>1. file \in [Callers -> [rows : [Keys -> AnyRow \cup {NoRow}], schema : {"none", "old", "new"}]]
    BY DEF KvInv, TypeOK
  <2>2. CASE PoolLookup(t) \/ CheckSchema(t) \/ CachePool(t)
    BY <2>2 DEF PoolLookup, CheckSchema, CachePool
  <2>3. CASE OpenFile(t)
    BY <1>3, <2>1, <2>3 DEF OpenFile
  <2>4. CASE Alter(t)
    BY <1>3, <2>1, <2>4 DEF Alter
  <2> QED
    BY <2>2, <2>3, <2>4 DEF GetPool
<1>5. ASSUME NEW pc \in Handling, task' = [task EXCEPT ![t].pc = pc] PROVE UNCHANGED Abs!vars
  <2>1. PICK x : x = [task[t] EXCEPT !.pc = pc]
    OBVIOUS
  <2>2. task' = [task EXCEPT ![t] = x]
    BY <1>5, <2>1
  <2>3. x.pc = pc /\ x.c = task[t].c /\ x.req = task[t].req /\ x.lapsed = task[t].lapsed /\ x.got = task[t].got
    BY <1>3, <2>1 DEF Called
  <2> QED
    BY <1>2, <1>4, <1>5, <2>2, <2>3, Unseen
<1>6. ASSUME NEW pc \in Handling, NEW p, task' = [task EXCEPT ![t].pc = pc, ![t].pool = p] PROVE UNCHANGED Abs!vars
  <2>1. PICK x : x = [task[t] EXCEPT !.pc = pc, !.pool = p]
    OBVIOUS
  <2>2. task' = [task EXCEPT ![t] = x]
    BY <1>6, <2>1
  <2>3. x.pc = pc /\ x.c = task[t].c /\ x.req = task[t].req /\ x.lapsed = task[t].lapsed /\ x.got = task[t].got
    BY <1>3, <2>1 DEF Called
  <2> QED
    BY <1>2, <1>4, <1>6, <2>2, <2>3, Unseen
<1>7. CASE PoolLookup(t)
  <2>1. PICK pc \in Handling : pc = IF pools[task[t].c] = NoPool THEN "open" ELSE "sweep"
    BY DEF Handling
  <2>2. PICK p : p = pools[task[t].c]
    OBVIOUS
  <2> QED
    BY <1>6, <1>7, <2>1, <2>2 DEF PoolLookup
<1>8. CASE OpenFile(t)
  <2>1. "schema" \in Handling
    BY States
  <2> QED
    BY <1>5, <1>8, <2>1 DEF OpenFile, Goto
<1>9. CASE CheckSchema(t)
  <2>1. PICK pc \in Handling : pc = IF file[task[t].c].schema = "old" THEN "alter" ELSE "cache"
    BY DEF Handling
  <2> QED
    BY <1>5, <1>9, <2>1 DEF CheckSchema, Goto
<1>10. CASE Alter(t)
  <2>1. CASE file[task[t].c].schema = "old"
    <3>1. "cache" \in Handling
      BY States
    <3> QED
      BY <1>5, <1>10, <2>1, <3>1 DEF Alter, Goto
  <2>2. CASE file[task[t].c].schema # "old"
    <3>1. Respond(t, Error)
      BY <1>10, <2>2 DEF Alter
    <3> QED
      BY <1>2, <1>4, <3>1, Refused
  <2> QED
    BY <2>1, <2>2
<1>11. CASE CachePool(t)
  <2>1. PICK p : task' = [task EXCEPT ![t].pc = "sweep", ![t].pool = p]
    BY <1>11 DEF CachePool
  <2>2. "sweep" \in Handling
    BY DEF Handling
  <2> QED
    BY <1>6, <2>1, <2>2
<1> QED
  BY <1>7, <1>8, <1>9, <1>10, <1>11 DEF GetPool

LEMMA SweepUnseen ==
    ASSUME KvInv, NEW t \in Tasks, Sweep(t)
    PROVE  UNCHANGED Abs!vars
<1>1. task[t].pc = "sweep" /\ task[t].pc \in Statement /\ task[t].pc \in Handling
  BY States DEF Sweep, Statement
<1>2. /\ task[t] \in Called /\ Rows(task[t].c) \in [Keys -> AnyRow \cup {NoRow}]
  BY <1>1, UnderWay DEF KvInv
<1>3. PICK c \in Callers : c = task[t].c
  BY <1>1, InStatement
<1>4. PICK rows \in [Keys -> AnyRow \cup {NoRow}] :
         rows = [k \in Keys |-> IF Alive(Rows(c)[k], clock) THEN Rows(c)[k] ELSE NoRow]
  BY <1>2, <1>3
<1>5. PICK x : x = [task[t] EXCEPT !.pc = "act"]
  OBVIOUS
<1>6. x.pc \in Handling /\ x.c = task[t].c /\ x.req = task[t].req /\ x.lapsed = task[t].lapsed /\ x.got = task[t].got
  BY <1>2, <1>5 DEF Called, Handling
<1>7. Commit(t, rows, x)
  BY <1>3, <1>4, <1>5 DEF Sweep
<1>8. /\ AbsOpen' = [AbsOpen EXCEPT ![t] = AbsTask(x)]
      /\ AbsStore' = [AbsStore EXCEPT ![c] = [k \in Keys |-> Found(rows[k])]]
      /\ clock' = clock
  BY <1>1, <1>3, <1>7, CommitFrame
<1>9. AbsTask(x) = AbsOpen[t]
  BY <1>1, <1>6, SeenAsCalled DEF AbsTask
<1>10. AbsOpen = [u \in Tasks |-> AbsOpen[u]] /\ AbsStore = [d \in Callers |-> AbsStore[d]]
  BY DEF AbsOpen, AbsStore
<1>11. \A k \in Keys : Found(rows[k]) = Found(Rows(c)[k])
  BY <1>4 DEF Found, Alive
<1>12. AbsStore[c] = [k \in Keys |-> Found(Rows(c)[k])]
  BY DEF AbsStore
<1>13. AbsStore[c] = [k \in Keys |-> Found(rows[k])]
  BY <1>11, <1>12
<1>14. AbsOpen' = AbsOpen
  BY <1>8, <1>9, <1>10
<1>15. AbsStore' = AbsStore
  BY <1>8, <1>10, <1>13
<1> QED
  BY <1>8, <1>14, <1>15 DEF Abs!vars

LEMMA ReadsUnseen ==
    ASSUME KvInv, NEW t \in Tasks, NEW op, NEW ok, NEW new, ReadFor(t, op, ok, new)
    PROVE  UNCHANGED Abs!vars \/ Abs!Refuse(t)
<1>1. task[t].pc \in Handling /\ UNCHANGED <<clock, file, pools>>
  BY States DEF ReadFor, Acts, Statement
<1>2. task[t] \in Called
  BY <1>1, UnderWay DEF KvInv
<1>3. CASE ok
  <2>1. PICK x : x = [task[t] EXCEPT !.pc = "write", !.fresh = TRUE, !.new = new]
    OBVIOUS
  <2>2. /\ x.pc \in Handling /\ x.c = task[t].c /\ x.req = task[t].req
        /\ x.lapsed = task[t].lapsed /\ x.got = task[t].got
    BY <1>2, <2>1 DEF Called, Handling
  <2>3. task' = [task EXCEPT ![t] = x]
    BY <1>3, <2>1 DEF ReadFor
  <2> QED
    BY <1>1, <2>2, <2>3, Unseen
<1>4. CASE ~ok
  BY <1>1, <1>4, Refused DEF ReadFor
<1> QED
  BY <1>3, <1>4

(* Requests come and answers go.                                             *)
LEMMA CallsAndReturns ==
    ASSUME KvInv, NEW t \in Tasks,
           \/ \E c \in Callers, r \in Requests : OnAction(t, c, r)
           \/ SendResponse(t) \/ SendEvent(t)
    PROVE  Abs!Call(t) \/ Abs!Return(t) \/ Abs!Notify(t)
<1>1. AbsStore' = AbsStore /\ clock' = clock
  <2>1. clock' = clock /\ file' = file
    BY DEF OnAction, SendResponse, SendEvent
  <2> QED
    BY <2>1, StoreFrame
<1>2. AbsTask(Idle) = Idle /\ AbsOpen[t] = AbsTask(task[t]) /\ DOMAIN AbsOpen = Tasks
  BY DEF AbsTask, Idle, Handling, AbsOpen
<1>3. ASSUME NEW c \in Callers, NEW r \in Requests, OnAction(t, c, r) PROVE Abs!Call(t)
  <2>1. PICK x : x = [pc |-> "pool", c |-> c, req |-> r, pool |-> NoPool,
                      lapsed |-> {}, got |-> <<>>, new |-> NoRow, fresh |-> FALSE]
    OBVIOUS
  <2>2. x.pc = "pool" /\ x.c = c /\ x.req = r /\ x.lapsed = {} /\ x.got = <<>> /\ x.pc \in Handling
    BY <2>1 DEF Handling
  <2>3. task' = [task EXCEPT ![t] = x] /\ task[t] = Idle
    BY <1>3, <2>1 DEF OnAction
  <2>4. PICK y : y = [pc |-> "called", c |-> c, req |-> r, lapsed |-> {}, got |-> <<>>]
    OBVIOUS
  <2>5. AbsTask(x) = y /\ y.pc = "called"
    BY <2>2, <2>4 DEF AbsTask
  <2>6. AbsOpen' = [AbsOpen EXCEPT ![t] = y]
    BY <2>3, <2>5, TaskFrame
  <2>7. AbsOpen'[t] = y
    BY <1>2, <2>6
  <2> QED
    BY <1>1, <1>2, <2>3, <2>4, <2>5, <2>6, <2>7, SameData DEF Abs!Call
<1>4. CASE SendResponse(t)
  <2>1. PICK x : x = task[t] /\ x.pc = "reply"
    BY <1>4 DEF SendResponse
  <2>2. x = [pc |-> "reply", c |-> x.c, req |-> x.req, reply |-> x.reply] /\ x.pc \notin Handling
    BY <2>1, States DEF KvInv, TypeOK, TaskOK, Called, Idle
  <2>3. PICK y : y = AbsOpen[t]
    OBVIOUS
  <2>4. y = [x EXCEPT !.pc = "done"]
    BY <1>2, <2>1, <2>2, <2>3 DEF AbsTask
  <2>5. y.pc = "done" /\ y.c = x.c /\ y.req = x.req /\ y.reply = x.reply
    BY <2>2, <2>4
  <2>6. PICK z : z = IF x.reply.event THEN [pc |-> "event", c |-> x.c, req |-> x.req] ELSE Idle
    OBVIOUS
  <2>7. AbsTask(z) = z
    BY <2>6 DEF AbsTask, Handling, Idle
  <2>8. task' = [task EXCEPT ![t] = z]
    BY <1>4, <2>1, <2>6 DEF SendResponse
  <2>9. AbsOpen' = [AbsOpen EXCEPT ![t] = z]
    BY <2>7, <2>8, TaskFrame
  <2>10. z = IF y.reply.event THEN [pc |-> "event", c |-> y.c, req |-> y.req] ELSE Idle
    BY <2>5, <2>6
  <2> QED
    BY <1>1, <2>3, <2>5, <2>9, <2>10, SameData DEF Abs!Return
<1>5. CASE SendEvent(t)
  <2>1. task[t].pc = "event" /\ task' = [task EXCEPT ![t] = Idle]
    BY <1>5 DEF SendEvent
  <2>2. AbsOpen[t].pc = "event"
    BY <1>2, <2>1 DEF AbsTask, Handling
  <2>3. AbsOpen' = [AbsOpen EXCEPT ![t] = Idle]
    BY <1>2, <2>1, TaskFrame
  <2> QED
    BY <1>1, <2>2, <2>3, SameData DEF Abs!Notify
<1> QED
  BY <1>3, <1>4, <1>5

\* The keys of a caller whose rows end with the next tick, for KvSpec.
Gone(c) == {k \in Keys : AbsStore[c][k] # NoRow /\ ~Abs!Alive(AbsStore[c][k], clock + 1)}

(* Time passes for both: rows end, and the requests under way take note.     *)
LEMMA TimePasses ==
    ASSUME KvInv, Tick
    PROVE  Abs!Tick
<1>1. clock' = clock + 1 /\ clock \in Nat /\ file' = file
  BY TickSteps
<1>2. \A c \in Callers : Rows(c) \in [Keys -> AnyRow \cup {NoRow}]
  BY DEF KvInv, TypeOK, Rows
<1>3. \A c : Gone(c) = {k \in Keys : AbsStore[c][k] # NoRow /\ ~Alive(AbsStore[c][k], clock + 1)}
  BY SameData DEF Gone
<1>4. \A c \in Callers, k \in Keys : AbsStore[c][k] = IF Alive(Rows(c)[k], clock) THEN Rows(c)[k] ELSE NoRow
  BY DEF AbsStore, Found
<1>5. \A c \in Callers, k \in Keys : AbsStore[c][k] # NoRow <=> Alive(Rows(c)[k], clock)
  BY <1>4 DEF Alive
<1>6. \A c \in Callers, k \in Keys :
         /\ k \in Gone(c) <=> Alive(Rows(c)[k], clock) /\ ~Alive(Rows(c)[k], clock + 1)
         /\ k \in Gone(c) => AbsStore[c][k] = Rows(c)[k]
  BY <1>3, <1>4, <1>5
<1>7. AbsStore' = [c \in Callers |-> [k \in Keys |-> IF k \in Gone(c) THEN NoRow ELSE AbsStore[c][k]]]
  <2>1. AbsStore' = [c \in Callers |-> [k \in Keys |-> IF Alive(Rows(c)[k], clock + 1) THEN Rows(c)[k] ELSE NoRow]]
    BY <1>1 DEF AbsStore, Found, Rows, Alive
  <2>2. ASSUME NEW c \in Callers, NEW k \in Keys
        PROVE  (IF Alive(Rows(c)[k], clock + 1) THEN Rows(c)[k] ELSE NoRow)
                 = (IF k \in Gone(c) THEN NoRow ELSE AbsStore[c][k])
    <3>1. Alive(Rows(c)[k], clock + 1) => Alive(Rows(c)[k], clock)
      <4>1. Rows(c)[k] \in AnyRow \cup {NoRow}
        BY <1>2
      <4> QED
        BY <1>1, <4>1, LifeEndsOnce, RowsAreRows
    <3> QED
      BY <1>4, <1>6, <3>1
  <2> QED
    BY <2>1, <2>2
<1>8. ASSUME NEW t \in Tasks
      PROVE  AbsTask(task'[t]) = IF AbsOpen[t].pc # "called" THEN AbsOpen[t]
                ELSE [AbsOpen[t] EXCEPT !.lapsed =
                         @ \cup {[key |-> k, row |-> AbsStore[AbsOpen[t].c][k]] : k \in Gone(AbsOpen[t].c)}]
  <2>1. CASE task[t].pc \notin Handling
    <3>1. task'[t] = task[t] /\ AbsOpen[t] = AbsTask(task[t])
      BY <2>1, TickSteps DEF AbsOpen
    <3>2. AbsTask(task[t]).pc # "called"
      <4>1. CASE task[t].pc = "reply"
        <5>1. PICK x : x = task[t]
          OBVIOUS
        <5>2. x = [pc |-> "reply", c |-> x.c, req |-> x.req, reply |-> x.reply]
          BY <4>1, <5>1, States DEF KvInv, TypeOK, TaskOK, Called, Idle
        <5>3. [x EXCEPT !.pc = "done"].pc = "done"
          BY <5>2
        <5>4. AbsTask(x) = [x EXCEPT !.pc = "done"]
          BY <2>1, <4>1, <5>1 DEF AbsTask
        <5> QED
          BY <5>1, <5>3, <5>4
      <4>2. CASE task[t].pc # "reply"
        <5>1. task[t].pc \in {"idle", "event"}
          BY <2>1, <4>2 DEF KvInv, TypeOK, TaskOK, Called, Idle
        <5>2. AbsTask(task[t]) = task[t]
          BY <2>1, <4>2 DEF AbsTask
        <5> QED
          BY <5>1, <5>2
      <4> QED
        BY <4>1, <4>2
    <3> QED
      BY <3>1, <3>2
  <2>2. CASE task[t].pc \in Handling
    <3>1. PICK c \in Callers : c = task[t].c
      BY <2>2, UnderWay DEF KvInv
    <3>2. PICK y : y = task'[t]
      OBVIOUS
    <3>3. /\ y.pc = task[t].pc /\ y.c = c /\ y.req = task[t].req /\ y.got = task[t].got
          /\ y.lapsed = task[t].lapsed \cup Ending(c)
      BY <2>2, <3>1, <3>2, TickSteps
    <3>4. AbsTask(y) = [pc |-> "called", c |-> c, req |-> task[t].req,
                        lapsed |-> task[t].lapsed \cup Ending(c), got |-> task[t].got]
      BY <2>2, <3>3 DEF AbsTask
    <3>5. Ending(c) = {[key |-> k, row |-> AbsStore[c][k]] : k \in Gone(c)}
      <4>1. Gone(c) = {j \in Keys : Alive(Rows(c)[j], clock) /\ ~Alive(Rows(c)[j], clock + 1)}
        BY <1>3, <1>6
      <4>2. \A k \in Gone(c) : AbsStore[c][k] = Rows(c)[k]
        BY <1>3, <1>6
      <4> QED
        BY <4>1, <4>2 DEF Ending
    <3>6. /\ AbsOpen[t] = [pc |-> "called", c |-> c, req |-> task[t].req,
                           lapsed |-> task[t].lapsed, got |-> task[t].got]
          /\ AbsOpen[t].pc = "called" /\ AbsOpen[t].c = c
      BY <2>2, <3>1, SeenAsCalled
    <3>7. PICK E : E = Ending(c)
      OBVIOUS
    <3>8. [AbsOpen[t] EXCEPT !.lapsed = @ \cup E] = AbsTask(y)
      BY <3>4, <3>6, <3>7
    <3> QED
      BY <3>2, <3>5, <3>6, <3>7, <3>8
  <2> QED
    BY <2>1, <2>2
<1>9. AbsOpen' = [t \in Tasks |-> AbsTask(task'[t])]
  BY DEF AbsOpen, AbsTask
<1>10. AbsOpen' = [t \in Tasks |->
          IF AbsOpen[t].pc # "called" THEN AbsOpen[t]
          ELSE [AbsOpen[t] EXCEPT !.lapsed =
                   @ \cup {[key |-> k, row |-> AbsStore[AbsOpen[t].c][k]] : k \in Gone(AbsOpen[t].c)}]]
  BY <1>8, <1>9
<1> QED
  BY <1>1, <1>7, <1>10 DEF Abs!Tick, Gone

LEMMA Restarts ==
    ASSUME KvInv, Restart
    PROVE  Abs!Restart
<1>1. clock' = clock /\ file' = file /\ task' = [t \in Tasks |-> Idle]
  BY DEF Restart
<1>2. AbsStore' = AbsStore
  BY <1>1, StoreFrame
<1>3. AbsTask(Idle) = Idle
  BY DEF AbsTask, Idle, Handling
<1>4. AbsOpen' = [t \in Tasks |-> AbsTask(task'[t])]
  BY DEF AbsOpen, AbsTask
<1>5. AbsOpen' = [t \in Tasks |-> Idle]
  BY <1>1, <1>3, <1>4
<1> QED
  BY <1>1, <1>2, <1>5, SameData DEF Abs!Restart

LEMMA StoreStarts == Init => Abs!Init
<1> SUFFICES ASSUME Init PROVE Abs!Init
  OBVIOUS
<1>1. /\ task = [t \in Tasks |-> Idle] /\ clock = 0
      /\ \A c \in Callers : Rows(c) = [k \in Keys |-> NoRow]
  BY DEF Init, Rows
<1>2. AbsTask(Idle) = Idle
  BY DEF AbsTask, Idle, Handling
<1>3. AbsOpen = [t \in Tasks |-> Idle]
  BY <1>1, <1>2 DEF AbsOpen
<1>4. \A c \in Callers, k \in Keys : Found(Rows(c)[k]) = NoRow
  BY <1>1 DEF Found
<1>5. AbsStore = [c \in Callers |-> [k \in Keys |-> NoRow]]
  BY <1>4 DEF AbsStore
<1> QED
  BY <1>1, <1>3, <1>5, SameData DEF Abs!Init

LEMMA StoreImplements == KvInv /\ [Next]_vars => [Abs!Next]_(Abs!vars)
<1> SUFFICES ASSUME KvInv, [Next]_vars PROVE Abs!Next \/ UNCHANGED Abs!vars
  OBVIOUS
<1>1. ASSUME NEW t \in Tasks, Act(t) PROVE Abs!Next \/ UNCHANGED Abs!vars
  <2>1. Abs!OnRow(t) \/ Abs!ListKeys(t) \/ Abs!BatchGet(t) \/ Abs!Query(t) \/ Abs!Refuse(t) \/ UNCHANGED Abs!vars
    <3>1. CASE HandleGet(t)
      BY <3>1, GetsSettle
    <3>2. CASE HandleSet(t) \/ HandleDelete(t)
      BY <3>2, SetsAndDeletes
    <3>3. CASE HandleKeys(t)
      BY <3>3, KeysListed
    <3>4. CASE HandleBatchGet(t)
      BY <3>4, BatchGoesOn
    <3>5. CASE HandleQuery(t)
      BY <3>5, QueriesSettle
    <3>6. CASE IncrRead(t) \/ AppendRead(t) \/ PatchRead(t)
      <4>1. \E op, ok, new : ReadFor(t, op, ok, new)
        BY <3>6, Zenon DEF IncrRead, AppendRead, PatchRead
      <4> QED
        BY <4>1, ReadsUnseen
    <3>7. CASE Upsert(t)
      BY <3>7, UpsertSettles
    <3> QED
      BY <1>1, <3>1, <3>2, <3>3, <3>4, <3>5, <3>6, <3>7 DEF Act
  <2> QED
    BY <2>1 DEF Abs!Next
<1>2. ASSUME NEW t \in Tasks, GetPool(t) \/ Sweep(t) \/ Fail(t) PROVE Abs!Next \/ UNCHANGED Abs!vars
  <2>1. CASE GetPool(t)
    BY <2>1, PoolsUnseen DEF Abs!Next
  <2>2. CASE Sweep(t)
    BY <2>2, SweepUnseen
  <2>3. CASE Fail(t)
    <3>1. Abs!Refuse(t)
      BY <2>3, Refused DEF Fail, Busy
    <3> QED
      BY <3>1 DEF Abs!Next
  <2> QED
    BY <1>2, <2>1, <2>2, <2>3
<1>3. ASSUME NEW t \in Tasks,
             \/ \E c \in Callers, r \in Requests : OnAction(t, c, r)
             \/ SendResponse(t) \/ SendEvent(t)
      PROVE  Abs!Next
  BY <1>3, CallsAndReturns DEF Abs!Next
<1>4. CASE Tick
  BY <1>4, TimePasses DEF Abs!Next
<1>5. CASE Restart
  BY <1>5, Restarts DEF Abs!Next
<1>6. CASE UNCHANGED vars
  <2>1. clock' = clock /\ file' = file /\ task' = task
    BY <1>6 DEF vars
  <2>2. AbsStore' = AbsStore
    BY <2>1, StoreFrame
  <2>3. AbsOpen' = AbsOpen
    BY <2>1 DEF AbsOpen, AbsTask
  <2> QED
    BY <2>1, <2>2, <2>3 DEF Abs!vars
<1> QED
  BY <1>1, <1>2, <1>3, <1>4, <1>5, <1>6 DEF Next

(* However the tasks of concurrent requests interleave over their pools,     *)
(* transactions, failures and restarts, every caller has a store of its own  *)
(* whose requests take effect one at a time: no increment, append or patch   *)
(* is lost or doubled, a refused request leaves no trace, an expired row is  *)
(* not seen, and events follow exactly the requests that changed something.  *)
THEOREM TasksImplementKvSpec == Spec => ImplementsKvSpec
<1>1. Spec => []KvInv
  BY KvInit, KvStep, PTL DEF Spec
<1>2. Init => Abs!Init
  BY StoreStarts
<1>3. KvInv /\ [Next]_vars => [Abs!Next]_(Abs!vars)
  BY StoreImplements
<1> QED
  BY <1>1, <1>2, <1>3, PTL DEF Spec, ImplementsKvSpec, Abs!Spec

-----------------------------------------------------------------------------
(***************************************************************************)
(* Sums, counted as units: f[x] of them for each x.                        *)
(***************************************************************************)
Units(f, S) == UNION {{x} \X (1..f[x]) : x \in S}
Total(f, S) == Cardinality(Units(f, S))

LEMMA UnitsOfOne ==
    ASSUME NEW f, NEW x, f[x] \in Nat
    PROVE  IsFiniteSet({x} \X (1..f[x])) /\ Cardinality({x} \X (1..f[x])) = f[x]
<1>1. IsFiniteSet({x}) /\ Cardinality({x}) = 1
  BY FS_Singleton
<1>2. IsFiniteSet(1..f[x]) /\ Cardinality(1..f[x]) = f[x]
  <2>1. f[x] \in Int /\ 1 \in Int /\ (1 > f[x] => f[x] = 0)
    OBVIOUS
  <2> QED
    BY <2>1, FS_Interval
<1>3. IsFiniteSet({x} \X (1..f[x])) /\ Cardinality({x} \X (1..f[x])) = 1 * f[x]
  BY <1>1, <1>2, FS_Product
<1> QED
  BY <1>3

LEMMA UnitsFinite ==
    ASSUME NEW S, IsFiniteSet(S), NEW f, \A x \in S : f[x] \in Nat
    PROVE  IsFiniteSet(Units(f, S)) /\ Total(f, S) \in Nat
<1> DEFINE g == [x \in S |-> {x} \X (1..f[x])]
           T == {{x} \X (1..f[x]) : x \in S}
<1>1. g \in Surjection(S, T)
  BY DEF Surjection
<1>2. IsFiniteSet(T)
  BY <1>1, FS_Surjection
<1>3. \A t \in T : IsFiniteSet(t)
  BY UnitsOfOne
<1>4. IsFiniteSet(UNION T)
  BY <1>2, <1>3, FS_UNION
<1> QED
  BY <1>4, FS_CardinalityType DEF Units, Total

LEMMA TotalSame ==
    ASSUME NEW S, NEW f, NEW g, \A x \in S : f[x] = g[x]
    PROVE  Units(f, S) = Units(g, S) /\ Total(f, S) = Total(g, S)
BY DEF Units, Total

LEMMA TotalEmpty == ASSUME NEW f PROVE Total(f, {}) = 0
BY FS_EmptySet DEF Units, Total

LEMMA TotalOne ==
    ASSUME NEW f, NEW x, f[x] \in Nat PROVE Total(f, {x}) = f[x]
<1>1. Units(f, {x}) = {x} \X (1..f[x])
  BY DEF Units
<1> QED
  BY <1>1, UnitsOfOne DEF Total

LEMMA TotalSplit ==
    ASSUME NEW S, NEW R, IsFiniteSet(S), IsFiniteSet(R), S \cap R = {}, NEW f,
           \A x \in S \cup R : f[x] \in Nat
    PROVE  Total(f, S \cup R) = Total(f, S) + Total(f, R)
<1>1. Units(f, S \cup R) = Units(f, S) \cup Units(f, R)
  BY DEF Units
<1>2. Units(f, S) \cap Units(f, R) = {}
  BY DEF Units
<1>3. IsFiniteSet(Units(f, S)) /\ IsFiniteSet(Units(f, R)) /\ Total(f, S) \in Nat /\ Total(f, R) \in Nat
  BY UnitsFinite
<1>4. Cardinality(Units(f, S) \cup Units(f, R)) = Total(f, S) + Total(f, R) - Cardinality({})
  BY <1>2, <1>3, FS_Union DEF Total
<1>5. Total(f, S \cup R) = Cardinality(Units(f, S) \cup Units(f, R))
  BY <1>1 DEF Total
<1>6. Cardinality({}) = 0
  BY FS_EmptySet
<1> QED
  BY <1>3, <1>4, <1>5, <1>6

(* A sum without the part over R, and with one summand replaced.             *)
LEMMA TotalWithout ==
    ASSUME NEW S, IsFiniteSet(S), NEW R, R \subseteq S, NEW f, \A x \in S : f[x] \in Nat
    PROVE  /\ Total(f, S \ R) = Total(f, S) - Total(f, R)
           /\ Total(f, S) \in Nat /\ Total(f, R) \in Nat /\ Total(f, R) <= Total(f, S)
<1>1. IsFiniteSet(R) /\ IsFiniteSet(S \ R)
  BY FS_Subset
<1>2. Total(f, S) = Total(f, S \ R) + Total(f, R)
  <2>1. S = (S \ R) \cup R /\ (S \ R) \cap R = {}
    OBVIOUS
  <2> QED
    BY <1>1, <2>1, TotalSplit
<1>3. Total(f, S \ R) \in Nat /\ Total(f, R) \in Nat
  BY <1>1, UnitsFinite
<1> QED
  BY <1>2, <1>3

LEMMA TotalChanged ==
    ASSUME NEW S, IsFiniteSet(S), NEW f, NEW g, NEW x \in S,
           \A y \in S : f[y] \in Nat /\ g[y] \in Nat,
           \A y \in S : y # x => g[y] = f[y]
    PROVE  Total(g, S) = Total(f, S) - f[x] + g[x] /\ Total(f, S) \in Nat /\ f[x] <= Total(f, S)
<1>1. Total(f, S \ {x}) = Total(f, S) - f[x] /\ Total(f, S) \in Nat /\ f[x] <= Total(f, S)
  <2>1. {x} \subseteq S /\ f[x] \in Nat /\ \A y \in S : f[y] \in Nat
    OBVIOUS
  <2>2. Total(f, {x}) = f[x]
    BY <2>1, TotalOne
  <2> QED
    BY <2>1, <2>2, TotalWithout
<1>2. Total(g, S \ {x}) = Total(g, S) - g[x] /\ Total(g, S) \in Nat
  <2>1. {x} \subseteq S /\ g[x] \in Nat /\ \A y \in S : g[y] \in Nat
    OBVIOUS
  <2>2. Total(g, {x}) = g[x]
    BY <2>1, TotalOne
  <2> QED
    BY <2>1, <2>2, TotalWithout
<1>3. Total(g, S \ {x}) = Total(f, S \ {x})
  BY TotalSame
<1> QED
  BY <1>1, <1>2, <1>3

-----------------------------------------------------------------------------
(***************************************************************************)
(* Network.                                                                *)
(***************************************************************************)
SlotPcs == {"lookup", "precheck", "fetch", "accept", "body", "end"}
Outcomes == {"none", "ok", "busy", "notfound", "redirect", "transient", "fatal", "cancelled"}
HttpEntries == [at : Nat, expires : Nat, size : Nat, by : TaskIds]
HttpTasks == [pc : {"idle", "spawned", "checked", "done"} \cup SlotPcs,
              req : HttpRequests \cup {None}, hop : Nat, attempt : Nat, set : BOOLEAN,
              att : TaskIds \cup {None}, status : Outcomes, end : Outcomes,
              hit : HttpEntries \cup {None}]
HttpFrames == {"accept", "chunk", "close", "error", "reply"}

NetShape ==
  /\ netTask \in [TaskIds -> HttpTasks]
  /\ active \in [NetCallers -> Int]
  /\ stats \in [NetCallers -> [requests : Nat, errors : Nat]]
  /\ jars \in [NetCallers -> [Hosts -> TaskIds \cup {None}]]
  /\ cache \in [DOMAIN cache -> HttpEntries] /\ IsFiniteSet(DOMAIN cache)
  /\ frames \in [TaskIds -> Seq(HttpFrames)]
  /\ netNow \in Nat /\ streams \subseteq TaskIds
  /\ \A t \in TaskIds : netTask[t].pc # "idle" => netTask[t].req \in HttpRequests

\* A caller's slots are the requests of its that are between acquire and the drop.
Slots(c) == {t \in TaskIds : netTask[t].pc \in SlotPcs /\ netTask[t].req.caller = c}
NetSlots == HttpLimit > 0 => \A c \in NetCallers : active[c] = Cardinality(Slots(c))

\* An end is recorded when a request that got a slot comes to it.
Ended(c) == {t \in TaskIds : /\ netTask[t].pc = "done" /\ netTask[t].end # "none"
                             /\ netTask[t].req.caller = c}
NetStats ==
  /\ \A c \in NetCallers : stats[c].requests = Cardinality(Ended(c))
  /\ \A t \in TaskIds : /\ netTask[t].pc \notin {"end", "done"} => netTask[t].end = "none"
                        /\ netTask[t].pc = "end" => netTask[t].end # "none"

\* What is stored was stored by a request that is over, under its own key.
IsOver(t) == netTask[t].pc = "done"
NetStores ==
  /\ total = Bytes(cache) /\ Fits(cache, total)
  /\ \A k \in DOMAIN cache :
       LET u == cache[k].by IN
       IsOver(u) /\ netTask[u].end = "ok" /\ CacheKey(netTask[u].req) = k
  /\ \A c \in NetCallers, h \in Hosts :
       LET u == jars[c][h] IN u # None => IsOver(u) /\ netTask[u].req.caller = c
  /\ \A t \in TaskIds :
       LET k == netTask[t] IN
       /\ k.hit # None => /\ k.pc # "idle" /\ IsOver(k.hit.by) /\ netTask[k.hit.by].end = "ok"
                          /\ CacheKey(netTask[k.hit.by].req) = CacheKey(k.req)
       /\ k.att # None => k.pc # "idle" /\ IsOver(k.att) /\ netTask[k.att].req.caller = k.req.caller

\* A literal address is looked at before each hop that leads to it.
NetPolicy ==
  /\ ContactsPermitted
  /\ \A t \in TaskIds :
       LET k == netTask[t] IN
       /\ k.pc \in {"idle", "spawned", "checked", "lookup", "precheck"} => k.hop = 1
       /\ k.pc = "fetch" => /\ k.hop \in 1 .. Len(k.req.chain)
                            /\ LiteralOk(k.req.chain[1]) /\ LiteralOk(k.req.chain[k.hop])

\* Acceptance and chunks.
Opened(s) == s # <<>> /\ s[1] = "accept" /\ \A i \in 2 .. Len(s) : s[i] = "chunk"
NetStreams ==
  /\ StreamsOrderly
  /\ cancelled \subseteq closed
  /\ \A t \in TaskIds :
       LET k == netTask[t] IN
       /\ k.pc \in {"idle", "spawned", "checked", "lookup", "precheck", "fetch", "accept"} =>
            frames[t] = <<>>
       /\ k.pc \in {"checked", "lookup", "precheck", "fetch", "accept", "body", "end"} =>
            k.req.action \in {"http", "stream"}
       /\ k.pc \in {"accept", "body"} => k.req.action = "stream"
       /\ t \in streams => k.req.action = "stream"
       /\ k.pc = "body" => Opened(frames[t])
       /\ k.pc = "end" => frames[t] = <<>> \/ (k.req.action = "stream" /\ Opened(frames[t]))

NetIInv == NetShape /\ NetSlots /\ NetStats /\ NetStores /\ NetPolicy /\ NetStreams

-----------------------------------------------------------------------------
(* What the assumption says.                                                *)

LEMMA NetFinite == IsFiniteSet(TaskIds) /\ IsFiniteSet(NetCallers)
BY NetworkBounds DEF NetworkAssumption

LEMMA RequestKnown ==
    ASSUME NEW r \in HttpRequests
    PROVE  /\ r.caller \in NetCallers /\ r.chain \in Seq(Hosts) /\ r.chain # <<>>
           /\ r.action \in {"http", "stream", "stats", "unknown"} /\ r.ttl \in Nat /\ r.size \in Nat
BY NetworkBounds DEF NetworkAssumption

-----------------------------------------------------------------------------
(* One task moves; the others stay.                                         *)

LEMMA HttpFields ==
    ASSUME NEW k \in HttpTasks
    PROVE  /\ k.pc \in {"idle", "spawned", "checked", "done"} \cup SlotPcs
           /\ k.req \in HttpRequests \cup {None} /\ k.hop \in Nat /\ k.attempt \in Nat
           /\ k.set \in BOOLEAN /\ k.att \in TaskIds \cup {None}
           /\ k.status \in Outcomes /\ k.end \in Outcomes /\ k.hit \in HttpEntries \cup {None}
BY DEF HttpTasks

LEMMA HttpMoves ==
    ASSUME NetShape, NEW t \in TaskIds, NEW k \in HttpTasks, netTask' = [netTask EXCEPT ![t] = k]
    PROVE  /\ netTask' \in [TaskIds -> HttpTasks] /\ netTask'[t] = k
           /\ \A u \in TaskIds : u # t => netTask'[u] = netTask[u]
BY DEF NetShape

LEMMA SlotsKept ==
    ASSUME NetShape, NetSlots, NEW t \in TaskIds, NEW k \in HttpTasks,
           netTask' = [netTask EXCEPT ![t] = k], active' = active,
           k.pc \in SlotPcs <=> netTask[t].pc \in SlotPcs,
           k.pc \in SlotPcs => k.req = netTask[t].req
    PROVE  NetSlots'
<1>1. \A c : Slots(c)' = Slots(c)
  BY HttpMoves DEF Slots
<1> QED
  BY <1>1 DEF NetSlots

LEMMA EndsKept ==
    ASSUME NetShape, NetStats, NEW t \in TaskIds, NEW k \in HttpTasks,
           netTask' = [netTask EXCEPT ![t] = k], stats' = stats,
           netTask[t].pc # "done", k.pc = "done" => k.end = "none",
           k.pc \notin {"end", "done"} => k.end = "none", k.pc = "end" => k.end # "none"
    PROVE  NetStats'
<1>1. \A c : Ended(c)' = Ended(c)
  BY HttpMoves DEF Ended
<1>2. \A u \in TaskIds : /\ netTask'[u].pc \notin {"end", "done"} => netTask'[u].end = "none"
                         /\ netTask'[u].pc = "end" => netTask'[u].end # "none"
  BY HttpMoves DEF NetStats
<1> QED
  BY <1>1, <1>2 DEF NetStats

LEMMA StoresKept ==
    ASSUME NetShape, NetStores, NEW t \in TaskIds, NEW k \in HttpTasks,
           netTask' = [netTask EXCEPT ![t] = k], cache' = cache, total' = total, jars' = jars,
           ~IsOver(t),
           k.hit # None => /\ k.pc # "idle" /\ IsOver(k.hit.by) /\ netTask[k.hit.by].end = "ok"
                           /\ CacheKey(netTask[k.hit.by].req) = CacheKey(k.req),
           k.att # None => k.pc # "idle" /\ IsOver(k.att) /\ netTask[k.att].req.caller = k.req.caller
    PROVE  NetStores'
<1>1. \A u \in TaskIds : IsOver(u) => netTask'[u] = netTask[u] /\ netTask'[u].pc = "done"
  BY HttpMoves DEF IsOver
<1>2. total' = Bytes(cache') /\ Fits(cache', total')
  BY DEF NetStores
<1>3. \A i \in DOMAIN cache : LET u == cache[i].by IN
         netTask'[u].pc = "done" /\ netTask'[u].end = "ok" /\ CacheKey(netTask'[u].req) = i
  <2> SUFFICES ASSUME NEW i \in DOMAIN cache
               PROVE  LET u == cache[i].by IN
                      netTask'[u].pc = "done" /\ netTask'[u].end = "ok" /\ CacheKey(netTask'[u].req) = i
    OBVIOUS
  <2>1. cache[i].by \in TaskIds
    BY DEF NetShape, HttpEntries
  <2> QED
    BY <1>1, <2>1 DEF NetStores
<1>4. \A c \in NetCallers, h \in Hosts :
         LET u == jars[c][h] IN u # None => netTask'[u].pc = "done" /\ netTask'[u].req.caller = c
  <2> SUFFICES ASSUME NEW c \in NetCallers, NEW h \in Hosts, jars[c][h] # None
               PROVE  netTask'[jars[c][h]].pc = "done" /\ netTask'[jars[c][h]].req.caller = c
    OBVIOUS
  <2>1. jars[c][h] \in TaskIds
    BY DEF NetShape
  <2> QED
    BY <1>1, <2>1 DEF NetStores
<1>5. ASSUME NEW u \in TaskIds
      PROVE  LET x == netTask'[u] IN
             /\ x.hit # None => /\ x.pc # "idle" /\ netTask'[x.hit.by].pc = "done" /\ netTask'[x.hit.by].end = "ok"
                                /\ CacheKey(netTask'[x.hit.by].req) = CacheKey(x.req)
             /\ x.att # None => /\ x.pc # "idle" /\ netTask'[x.att].pc = "done"
                                /\ netTask'[x.att].req.caller = x.req.caller
  <2>1. PICK x \in HttpTasks : x = netTask'[u]
    BY HttpMoves
  <2>2. /\ x.hit # None => /\ x.pc # "idle" /\ IsOver(x.hit.by) /\ netTask[x.hit.by].end = "ok"
                           /\ CacheKey(netTask[x.hit.by].req) = CacheKey(x.req)
        /\ x.att # None => x.pc # "idle" /\ IsOver(x.att) /\ netTask[x.att].req.caller = x.req.caller
    <3>1. CASE u = t
      BY <2>1, <3>1, HttpMoves
    <3>2. CASE u # t
      <4>1. x = netTask[u]
        BY <2>1, <3>2, HttpMoves
      <4> QED
        BY <4>1 DEF NetStores
    <3> QED
      BY <3>1, <3>2
  <2>3. x.hit # None => x.hit.by \in TaskIds
    BY HttpFields DEF HttpEntries
  <2>4. x.att # None => x.att \in TaskIds
    BY HttpFields
  <2>5. x.hit # None => netTask'[x.hit.by] = netTask[x.hit.by] /\ netTask'[x.hit.by].pc = "done"
    BY <1>1, <2>2, <2>3
  <2>6. x.att # None => netTask'[x.att] = netTask[x.att] /\ netTask'[x.att].pc = "done"
    BY <1>1, <2>2, <2>4
  <2> QED
    BY <2>1, <2>2, <2>5, <2>6
<1> QED
  BY <1>2, <1>3, <1>4, <1>5 DEF NetStores, IsOver

PolicyOf(k) ==
  /\ k.pc \in {"idle", "spawned", "checked", "lookup", "precheck"} => k.hop = 1
  /\ k.pc = "fetch" => /\ k.hop \in 1 .. Len(k.req.chain)
                       /\ LiteralOk(k.req.chain[1]) /\ LiteralOk(k.req.chain[k.hop])

LEMMA PolicyKept ==
    ASSUME NetShape, NetPolicy, NEW t \in TaskIds, NEW k \in HttpTasks,
           netTask' = [netTask EXCEPT ![t] = k], ContactsPermitted',
           PolicyOf(k)
    PROVE  NetPolicy'
<1>1. \A u \in TaskIds : PolicyOf(netTask'[u])
  BY HttpMoves DEF NetPolicy, PolicyOf
<1> QED
  BY <1>1 DEF NetPolicy, PolicyOf

(* What the frames and the switch of one task are when it moves.             *)
StreamOf(x, f, t, S, C) ==
  /\ t \in S => x.pc \in {"body", "end"} /\ x.req.action = "stream"
  /\ \A i \in DOMAIN f :
       /\ f[i] \in Terminal => i = Len(f) /\ x.pc = "done"
       /\ f[i] = "chunk" => i > 1 /\ f[1] = "accept"
  /\ x.pc = "done" /\ t \notin C => f # <<>> /\ f[Len(f)] \in Terminal
  /\ x.end = "cancelled" => t \in C
  /\ x.pc \in {"idle", "spawned", "checked", "lookup", "precheck", "fetch", "accept"} => f = <<>>
  /\ x.pc \in {"checked", "lookup", "precheck", "fetch", "accept", "body", "end"} =>
       x.req.action \in {"http", "stream"}
  /\ x.pc \in {"accept", "body"} => x.req.action = "stream"
  /\ x.pc = "body" => Opened(f)
  /\ x.pc = "end" => f = <<>> \/ (x.req.action = "stream" /\ Opened(f))

LEMMA StreamsByTask ==
    NetStreams <=> /\ cancelled \subseteq closed
                   /\ \A t \in TaskIds : StreamOf(netTask[t], frames[t], t, streams, closed)
BY DEF NetStreams, StreamOf, StreamsOrderly, Last, Is

LEMMA StreamsKept ==
    ASSUME NetShape, NetStreams, NEW t \in TaskIds, NEW k \in HttpTasks,
           netTask' = [netTask EXCEPT ![t] = k], frames' \in [TaskIds -> Seq(HttpFrames)],
           \A u \in TaskIds : u # t => frames'[u] = frames[u],
           \A u \in TaskIds : u # t => (u \in streams' <=> u \in streams),
           cancelled' = cancelled, closed' = closed,
           StreamOf(k, frames'[t], t, streams', closed)
    PROVE  NetStreams'
<1>1. \A u \in TaskIds : StreamOf(netTask'[u], frames'[u], u, streams', closed')
  <2> SUFFICES ASSUME NEW u \in TaskIds PROVE StreamOf(netTask'[u], frames'[u], u, streams', closed')
    OBVIOUS
  <2>1. CASE u = t
    BY <2>1, HttpMoves
  <2>2. CASE u # t
    <3>1. StreamOf(netTask[u], frames[u], u, streams, closed)
      BY StreamsByTask
    <3>2. netTask'[u] = netTask[u]
      BY <2>2, HttpMoves
    <3> QED
      BY <2>2, <3>1, <3>2 DEF StreamOf
  <2> QED
    BY <2>1, <2>2
<1>2. cancelled' \subseteq closed'
  BY DEF NetStreams
<1> QED
  BY <1>1, <1>2 DEF NetStreams, StreamOf, StreamsOrderly, Last, Is, Terminal

\* What a task holds of the stores; and when its end is known.
HoldsOf(k) ==
  /\ k.hit # None => /\ IsOver(k.hit.by) /\ netTask[k.hit.by].end = "ok"
                     /\ CacheKey(netTask[k.hit.by].req) = CacheKey(k.req)
  /\ k.att # None => IsOver(k.att) /\ netTask[k.att].req.caller = k.req.caller
EndOf(k) ==
  /\ k.pc \notin {"end", "done"} => k.end = "none"
  /\ k.pc = "end" => k.end # "none"

LEMMA TaskMoved ==
    ASSUME NetIInv, NEW t \in TaskIds, NEW k \in HttpTasks, netTask' = [netTask EXCEPT ![t] = k],
           cache' = cache, total' = total, jars' = jars, stats' = stats, netNow' = netNow,
           active' \in [NetCallers -> Int], NetSlots',
           ~IsOver(t), k.pc # "idle", k.req \in HttpRequests,
           EndOf(k), k.pc = "done" => k.end = "none", HoldsOf(k), PolicyOf(k),
           ContactsPermitted',
           frames' \in [TaskIds -> Seq(HttpFrames)], streams' \subseteq TaskIds,
           \A u \in TaskIds : u # t => frames'[u] = frames[u],
           \A u \in TaskIds : u # t => (u \in streams' <=> u \in streams),
           cancelled' = cancelled, closed' = closed,
           StreamOf(k, frames'[t], t, streams', closed)
    PROVE  NetIInv'
<1>1. NetShape'
  <2>1. \A u \in TaskIds : netTask'[u].pc # "idle" => netTask'[u].req \in HttpRequests
    BY HttpMoves DEF NetIInv, NetShape
  <2> QED
    BY <2>1, HttpMoves DEF NetIInv, NetShape
<1>2. NetStats'
  BY EndsKept DEF NetIInv, EndOf, IsOver
<1>3. NetStores'
  BY StoresKept DEF NetIInv, HoldsOf
<1>4. NetPolicy'
  BY PolicyKept DEF NetIInv, PolicyOf
<1>5. NetStreams'
  BY StreamsKept DEF NetIInv
<1> QED
  BY <1>1, <1>2, <1>3, <1>4, <1>5 DEF NetIInv

\* What the invariant says of one task.
LEMMA AboutTask ==
    ASSUME NetIInv, NEW t \in TaskIds
    PROVE  /\ netTask[t] \in HttpTasks /\ (netTask[t].pc # "idle" => netTask[t].req \in HttpRequests)
           /\ EndOf(netTask[t]) /\ HoldsOf(netTask[t]) /\ PolicyOf(netTask[t])
           /\ StreamOf(netTask[t], frames[t], t, streams, closed)
           /\ netTask[t].pc = "idle" => netTask[t].hit = None /\ netTask[t].att = None
           /\ frames[t] \in Seq(HttpFrames)
<1>1. netTask[t] \in HttpTasks /\ (netTask[t].pc # "idle" => netTask[t].req \in HttpRequests)
      /\ frames[t] \in Seq(HttpFrames)
  BY DEF NetIInv, NetShape
<1>2. EndOf(netTask[t])
  BY DEF NetIInv, NetStats, EndOf
<1>3. HoldsOf(netTask[t]) /\ (netTask[t].pc = "idle" => netTask[t].hit = None /\ netTask[t].att = None)
  BY DEF NetIInv, NetStores, HoldsOf
<1>4. PolicyOf(netTask[t])
  BY DEF NetIInv, NetPolicy, PolicyOf
<1>5. StreamOf(netTask[t], frames[t], t, streams, closed)
  BY StreamsByTask DEF NetIInv
<1> QED
  BY <1>1, <1>2, <1>3, <1>4, <1>5

LEMMA FrameSent ==
    ASSUME NetIInv, NEW t \in TaskIds, NEW f \in HttpFrames, frames' = [frames EXCEPT ![t] = Append(@, f)]
    PROVE  /\ frames' \in [TaskIds -> Seq(HttpFrames)] /\ frames'[t] = Append(frames[t], f)
           /\ \A u \in TaskIds : u # t => frames'[u] = frames[u]
           /\ frames[t] = <<>> => frames'[t] = <<f>>
<1>1. frames \in [TaskIds -> Seq(HttpFrames)]
  BY DEF NetIInv, NetShape
<1>2. Append(frames[t], f) \in Seq(HttpFrames)
  BY <1>1
<1>3. frames[t] = <<>> => Append(frames[t], f) = <<f>>
  OBVIOUS
<1> QED
  BY <1>1, <1>2, <1>3

LEMMA KeepsAccept ==
    ASSUME NetIInv, NEW t \in TaskIds, Accept(t)
    PROVE  NetIInv'
<1>1. PICK r \in HttpRequests, p \in {"done", "spawned"} :
         /\ netTask' = [netTask EXCEPT ![t] = [netTask[t] EXCEPT !.req = r, !.pc = p]]
         /\ IF p = "done" THEN frames' = [frames EXCEPT ![t] = Append(@, "error")] ELSE frames' = frames
  BY DEF Accept, SetTask, Send
<1>2. /\ netTask[t].pc = "idle"
      /\ UNCHANGED <<cache, total, jars, stats, streams, cancelled, closed, active, contacted, netNow>>
  BY DEF Accept, Is, KeepStores, KeepStreams
<1> DEFINE x == netTask[t]
           k == [x EXCEPT !.req = r, !.pc = p]
<1>3. x \in HttpTasks /\ EndOf(x) /\ StreamOf(x, frames[t], t, streams, closed) /\ x.hit = None
      /\ x.att = None /\ x.hop = 1
  BY <1>2, AboutTask DEF PolicyOf
<1>4. /\ k \in HttpTasks /\ k.pc = p /\ k.req = r /\ k.end = "none" /\ k.hit = None /\ k.att = None /\ k.hop = x.hop
  BY <1>2, <1>3 DEF HttpTasks, EndOf
<1>5. NetSlots'
  BY <1>1, <1>2, <1>4, SlotsKept DEF NetIInv, SlotPcs
<1>6. frames[t] = <<>> /\ t \notin streams
  BY <1>2, <1>3 DEF StreamOf
<1>7. /\ frames' \in [TaskIds -> Seq(HttpFrames)] /\ \A u \in TaskIds : u # t => frames'[u] = frames[u]
      /\ frames'[t] = IF p = "done" THEN <<"error">> ELSE <<>>
  BY <1>1, <1>6, FrameSent DEF HttpFrames, NetIInv, NetShape
<1>8. StreamOf(k, frames'[t], t, streams', closed)
  BY <1>2, <1>4, <1>6, <1>7 DEF StreamOf, Terminal
<1>9. EndOf(k) /\ HoldsOf(k) /\ PolicyOf(k)
  BY <1>3, <1>4 DEF EndOf, HoldsOf, PolicyOf
<1>10. ContactsPermitted'
  BY <1>2 DEF NetIInv, NetPolicy, ContactsPermitted
<1>11. active' \in [NetCallers -> Int] /\ streams' \subseteq TaskIds /\ ~IsOver(t)
  BY <1>2 DEF NetIInv, NetShape, IsOver
<1> HIDE DEF k
<1> QED
  BY <1>1, <1>2, <1>4, <1>5, <1>7, <1>8, <1>9, <1>10, <1>11, TaskMoved DEF k

LEMMA KeepsOnAction ==
    ASSUME NetIInv, NEW t \in TaskIds, OnHttpAction(t)
    PROVE  NetIInv'
<1>1. PICK p \in {"done", "checked"} :
         /\ netTask' = [netTask EXCEPT ![t].pc = p]
         /\ IF p = "done" THEN \E f \in {"reply", "error"} : frames' = [frames EXCEPT ![t] = Append(@, f)]
                          ELSE frames' = frames /\ netTask[t].req.action \in {"http", "stream"}
  BY DEF OnHttpAction, Go, Send
<1>2. /\ netTask[t].pc = "spawned"
      /\ UNCHANGED <<cache, total, jars, stats, streams, cancelled, closed, active, contacted, netNow>>
  BY DEF OnHttpAction, Is, KeepStores, KeepStreams
<1> DEFINE x == netTask[t]
           k == [x EXCEPT !.pc = p]
<1>3. x \in HttpTasks /\ EndOf(x) /\ HoldsOf(x) /\ StreamOf(x, frames[t], t, streams, closed)
      /\ x.req \in HttpRequests /\ x.hop = 1
  BY <1>2, AboutTask DEF PolicyOf
<1>4. /\ k \in HttpTasks /\ k.pc = p /\ k.req = x.req /\ k.end = "none" /\ k.hit = x.hit /\ k.att = x.att
      /\ k.hop = x.hop
  BY <1>2, <1>3 DEF HttpTasks, EndOf
<1>5. netTask' = [netTask EXCEPT ![t] = k]
  BY <1>1 DEF NetIInv, NetShape
<1>6. NetSlots'
  BY <1>2, <1>4, <1>5, SlotsKept DEF NetIInv, SlotPcs
<1>7. frames[t] = <<>> /\ t \notin streams
  BY <1>2, <1>3 DEF StreamOf
<1>8. /\ frames' \in [TaskIds -> Seq(HttpFrames)] /\ \A u \in TaskIds : u # t => frames'[u] = frames[u]
      /\ p = "done" => frames'[t] \in {<<"error">>, <<"reply">>}
      /\ p # "done" => frames'[t] = <<>>
  BY <1>1, <1>7, FrameSent DEF HttpFrames, NetIInv, NetShape
<1>9. StreamOf(k, frames'[t], t, streams', closed)
  <2>1. x.end = "none" /\ t \notin streams'
    BY <1>2, <1>3, <1>7 DEF EndOf
  <2>2. CASE p = "done"
    <3>1. PICK f \in {"error", "reply"} : frames'[t] = <<f>>
      BY <1>8, <2>2
    <3>2. Len(<<f>>) = 1 /\ <<f>>[1] = f /\ DOMAIN <<f>> = {1}
      OBVIOUS
    <3> HIDE DEF k
    <3> QED
      BY <1>4, <2>1, <2>2, <3>1, <3>2 DEF StreamOf, Terminal
  <2>3. CASE p = "checked"
    <3>1. frames'[t] = <<>> /\ x.req.action \in {"http", "stream"}
      BY <1>1, <1>8, <2>3
    <3> HIDE DEF k
    <3> QED
      BY <1>4, <2>1, <2>3, <3>1 DEF StreamOf, Terminal
  <2> QED
    BY <2>2, <2>3
<1>10. EndOf(k) /\ HoldsOf(k) /\ PolicyOf(k)
  BY <1>3, <1>4 DEF EndOf, HoldsOf, PolicyOf
<1>11. ContactsPermitted'
  BY <1>2 DEF NetIInv, NetPolicy, ContactsPermitted
<1>12. active' \in [NetCallers -> Int] /\ streams' \subseteq TaskIds /\ ~IsOver(t)
  BY <1>2 DEF NetIInv, NetShape, IsOver
<1> HIDE DEF k
<1> QED
  BY <1>2, <1>3, <1>4, <1>5, <1>6, <1>8, <1>9, <1>10, <1>11, <1>12, TaskMoved

LEMMA SlotsFinite == \A c : IsFiniteSet(Slots(c)) /\ Cardinality(Slots(c)) \in Nat
<1>1. ASSUME NEW c PROVE IsFiniteSet(Slots(c)) /\ Cardinality(Slots(c)) \in Nat
  <2>1. IsFiniteSet(TaskIds) /\ Slots(c) \subseteq TaskIds
    BY NetFinite DEF Slots
  <2> QED
    BY <2>1, FS_Subset, FS_CardinalityType
<1> QED
  BY <1>1

LEMMA SlotTaken ==
    ASSUME NetShape, NetSlots, NEW t \in TaskIds, NEW k \in HttpTasks,
           netTask' = [netTask EXCEPT ![t] = k], netTask[t].pc \notin SlotPcs,
           k.pc \in SlotPcs, NEW c \in NetCallers, k.req.caller = c,
           active' = IF HttpLimit > 0 THEN [active EXCEPT ![c] = @ + 1] ELSE active
    PROVE  NetSlots' /\ active' \in [NetCallers -> Int]
<1>1. Slots(c)' = Slots(c) \cup {t} /\ t \notin Slots(c)
  BY HttpMoves DEF Slots
<1>2. \A d : d # c => Slots(d)' = Slots(d)
  BY HttpMoves DEF Slots
<1>3. Cardinality(Slots(c)') = Cardinality(Slots(c)) + 1
  BY <1>1, SlotsFinite, FS_AddElement
<1>4. active' \in [NetCallers -> Int]
  BY DEF NetShape
<1>5. ASSUME HttpLimit > 0, NEW d \in NetCallers PROVE active'[d] = Cardinality(Slots(d)')
  <2>1. active[d] = Cardinality(Slots(d)) /\ active \in [NetCallers -> Int]
    BY <1>5 DEF NetShape, NetSlots
  <2>2. active'[d] = IF d = c THEN active[d] + 1 ELSE active[d]
    BY <1>5, <2>1
  <2>3. CASE d = c
    BY <1>3, <2>1, <2>2, <2>3
  <2>4. CASE d # c
    BY <1>2, <2>1, <2>2, <2>4
  <2> QED
    BY <2>3, <2>4
<1> QED
  BY <1>4, <1>5 DEF NetSlots

LEMMA SlotFreed ==
    ASSUME NetShape, NetSlots, NEW t \in TaskIds, NEW k \in HttpTasks,
           netTask' = [netTask EXCEPT ![t] = k], netTask[t].pc \in SlotPcs,
           k.pc \notin SlotPcs, NEW c \in NetCallers, netTask[t].req.caller = c,
           active' = [active EXCEPT ![c] = IF HttpLimit > 0 THEN @ - 1 ELSE @]
    PROVE  NetSlots' /\ active' \in [NetCallers -> Int]
<1>1. Slots(c)' = Slots(c) \ {t} /\ t \in Slots(c)
  BY HttpMoves DEF Slots
<1>2. \A d : d # c => Slots(d)' = Slots(d)
  BY HttpMoves DEF Slots
<1>3. Cardinality(Slots(c)') = Cardinality(Slots(c)) - 1
  <2>1. IsFiniteSet(Slots(c))
    BY SlotsFinite
  <2>2. Cardinality(Slots(c) \ {t}) = IF t \in Slots(c) THEN Cardinality(Slots(c)) - 1 ELSE Cardinality(Slots(c))
    BY <2>1, FS_RemoveElement
  <2> QED
    BY <1>1, <2>2
<1>4. active' \in [NetCallers -> Int]
  BY DEF NetShape
<1>5. ASSUME HttpLimit > 0, NEW d \in NetCallers PROVE active'[d] = Cardinality(Slots(d)')
  <2>1. active[d] = Cardinality(Slots(d)) /\ active \in [NetCallers -> Int]
    BY <1>5 DEF NetShape, NetSlots
  <2>2. active'[d] = IF d = c THEN active[d] - 1 ELSE active[d]
    BY <1>5, <2>1
  <2>3. CASE d = c
    BY <1>3, <2>1, <2>2, <2>3
  <2>4. CASE d # c
    BY <1>2, <2>1, <2>2, <2>4
  <2> QED
    BY <2>3, <2>4
<1> QED
  BY <1>4, <1>5 DEF NetSlots

\* A task that has sent nothing yet.
Early == {"checked", "lookup", "precheck", "fetch"}
LEMMA StillSilent ==
    ASSUME NEW x, NEW k, NEW t, NEW S, NEW C, NEW f, x.pc \in Early, StreamOf(x, f, t, S, C),
           k.req = x.req, k.pc \in {"lookup", "precheck", "fetch", "accept", "end"},
           k.pc = "accept" => x.req.action = "stream", k.end # "cancelled"
    PROVE  StreamOf(k, f, t, S, C)
BY DEF StreamOf, Early

LEMMA SlotOf ==
    ASSUME NetIInv, NEW t \in TaskIds, netTask[t].pc \in SlotPcs
    PROVE  netTask[t].req \in HttpRequests /\ netTask[t].req.caller \in NetCallers
BY RequestKnown, AboutTask DEF SlotPcs

\* The step of a task that holds a slot and keeps it.
LEMMA Carried ==
    ASSUME NetIInv, NEW t \in TaskIds, NEW k \in HttpTasks, netTask' = [netTask EXCEPT ![t] = k],
           UNCHANGED <<active, cache, total, jars, stats, netNow, frames, streams, cancelled, closed>>,
           netTask[t].pc \in SlotPcs, k.pc \in SlotPcs, k.req = netTask[t].req,
           EndOf(k), HoldsOf(k), PolicyOf(k), ContactsPermitted',
           StreamOf(k, frames[t], t, streams, closed)
    PROVE  NetIInv'
<1>1. k.req \in HttpRequests
  BY SlotOf
<1>2. NetSlots'
  BY SlotsKept DEF NetIInv
<1>3. ~IsOver(t) /\ k.pc # "idle" /\ k.pc # "done"
  BY DEF IsOver, SlotPcs
<1>4. active' \in [NetCallers -> Int] /\ frames' \in [TaskIds -> Seq(HttpFrames)] /\ streams' \subseteq TaskIds
  BY DEF NetIInv, NetShape
<1> QED
  BY <1>1, <1>2, <1>3, <1>4, TaskMoved

LEMMA ContactsKept ==
    ASSUME NetIInv, contacted' = contacted PROVE ContactsPermitted'
BY DEF NetIInv, NetPolicy, ContactsPermitted

LEMMA KeepsAcquire ==
    ASSUME NetIInv, NEW t \in TaskIds, Acquire(t)
    PROVE  NetIInv'
<1> DEFINE x == netTask[t]
<1>1. /\ x.pc = "checked"
      /\ UNCHANGED <<cache, total, jars, stats, streams, cancelled, closed, contacted, frames, netNow>>
      /\ active' = IF HttpLimit > 0 THEN [active EXCEPT ![x.req.caller] = @ + 1] ELSE active
  BY DEF Acquire, Is, Caller, KeepStores, KeepStreams
<1>2. PICK p \in {"lookup", "precheck", "end"}, e \in {x.end, "fatal"} :
         /\ netTask' = [netTask EXCEPT ![t] = [x EXCEPT !.pc = p, !.end = e]]
         /\ IF p = "end" THEN e = "fatal" ELSE e = x.end
  <2>1. x \in HttpTasks /\ netTask \in [TaskIds -> HttpTasks]
    BY AboutTask DEF NetIInv, NetShape
  <2>2. CASE ~ParseOk(x.req)
    BY <2>1, <2>2 DEF Acquire, EndTask, SetTask
  <2>3. CASE ParseOk(x.req)
    <3>1. PICK p \in {"lookup", "precheck"} : netTask' = [netTask EXCEPT ![t].pc = p]
      BY <2>3 DEF Acquire, Go
    <3>2. [netTask EXCEPT ![t].pc = p] = [netTask EXCEPT ![t] = [x EXCEPT !.pc = p, !.end = x.end]]
      BY <2>1 DEF HttpTasks
    <3> QED
      BY <3>1, <3>2
  <2> QED
    BY <2>2, <2>3
<1> DEFINE k == [x EXCEPT !.pc = p, !.end = e]
<1>3. x \in HttpTasks /\ x.end = "none" /\ HoldsOf(x) /\ StreamOf(x, frames[t], t, streams, closed)
      /\ x.req \in HttpRequests /\ x.hop = 1
  BY <1>1, AboutTask DEF EndOf, PolicyOf
<1>4. /\ k \in HttpTasks /\ k.pc = p /\ k.req = x.req /\ k.end = e /\ k.hit = x.hit /\ k.att = x.att
      /\ k.hop = x.hop
  BY <1>2, <1>3 DEF HttpTasks, SlotPcs, Outcomes
<1>5. netTask' = [netTask EXCEPT ![t] = k] /\ x.req.caller \in NetCallers
  BY <1>2, <1>3, RequestKnown
<1> HIDE DEF k
<1>6. NetSlots' /\ active' \in [NetCallers -> Int]
  <2>1. x.pc \notin SlotPcs /\ k.pc \in SlotPcs /\ k.req.caller = x.req.caller
    BY <1>1, <1>4 DEF SlotPcs
  <2> QED
    BY <1>1, <1>4, <1>5, <2>1, SlotTaken DEF NetIInv
<1>7. StreamOf(k, frames'[t], t, streams', closed)
  <2>1. k.pc \in {"lookup", "precheck", "end"} /\ k.end # "cancelled"
    BY <1>2, <1>3, <1>4
  <2>2. StreamOf(k, frames[t], t, streams, closed)
    BY <1>1, <1>3, <1>4, <2>1, StillSilent DEF Early
  <2> QED
    BY <1>1, <2>2
<1>8. EndOf(k) /\ HoldsOf(k) /\ PolicyOf(k)
  BY <1>2, <1>3, <1>4 DEF EndOf, HoldsOf, PolicyOf
<1>9. /\ frames' \in [TaskIds -> Seq(HttpFrames)] /\ streams' \subseteq TaskIds /\ ~IsOver(t)
      /\ ContactsPermitted' /\ k.pc # "idle" /\ k.pc # "done"
      /\ \A u \in TaskIds : frames'[u] = frames[u] /\ (u \in streams' <=> u \in streams)
  BY <1>1, <1>2, <1>4, ContactsKept DEF NetIInv, NetShape, IsOver
<1> QED
  BY <1>1, <1>3, <1>4, <1>5, <1>6, <1>7, <1>8, <1>9, TaskMoved

LEMMA KeepsCacheLookup ==
    ASSUME NetIInv, NEW t \in TaskIds, CacheLookup(t)
    PROVE  NetIInv'
<1> DEFINE x == netTask[t]
           y == CacheKey(x.req)
<1>1. /\ x.pc = "lookup"
      /\ UNCHANGED <<cache, total, jars, stats, streams, cancelled, closed, active, contacted, frames,
                     netNow>>
  BY DEF CacheLookup, Is, KeepStores, KeepStreams
<1>2. x \in HttpTasks /\ x.end = "none" /\ HoldsOf(x) /\ StreamOf(x, frames[t], t, streams, closed)
      /\ x.hop = 1
  BY <1>1, AboutTask DEF EndOf, PolicyOf
<1>3. \/ netTask' = [netTask EXCEPT ![t].pc = "precheck"]
      \/ /\ y \in DOMAIN cache
         /\ netTask' = [netTask EXCEPT ![t] = [x EXCEPT !.pc = "end", !.end = "ok", !.hit = cache[y]]]
  BY DEF CacheLookup, CacheGet, Go, SetTask
<1>4. CASE netTask' = [netTask EXCEPT ![t].pc = "precheck"]
  <2> DEFINE k == [x EXCEPT !.pc = "precheck"]
  <2>1. netTask' = [netTask EXCEPT ![t] = k]
    BY <1>4 DEF NetIInv, NetShape
  <2>2. k \in HttpTasks /\ k.pc = "precheck" /\ k.req = x.req /\ k.end = "none" /\ k.hit = x.hit /\ k.att = x.att
        /\ k.hop = x.hop
    BY <1>2 DEF HttpTasks, SlotPcs
  <2> HIDE DEF k
  <2>3. StreamOf(k, frames[t], t, streams, closed)
    BY <1>1, <1>2, <2>2, StillSilent DEF Early
  <2>4. EndOf(k) /\ HoldsOf(k) /\ PolicyOf(k)
    BY <1>2, <2>2 DEF EndOf, HoldsOf, PolicyOf
  <2>5. x.pc \in SlotPcs /\ k.pc \in SlotPcs
    BY <1>1, <2>2 DEF SlotPcs
  <2> QED
    BY <1>1, <2>1, <2>2, <2>3, <2>4, <2>5, Carried, ContactsKept
<1>5. CASE /\ y \in DOMAIN cache
           /\ netTask' = [netTask EXCEPT ![t] = [x EXCEPT !.pc = "end", !.end = "ok", !.hit = cache[y]]]
  <2>1. PICK e \in HttpEntries : e = cache[y]
    BY <1>5 DEF NetIInv, NetShape
  <2>2. IsOver(e.by) /\ netTask[e.by].end = "ok" /\ CacheKey(netTask[e.by].req) = y
    BY <1>5, <2>1 DEF NetIInv, NetStores
  <2> DEFINE k == [x EXCEPT !.pc = "end", !.end = "ok", !.hit = e]
  <2>3. netTask' = [netTask EXCEPT ![t] = k]
    BY <1>5, <2>1
  <2>4. k \in HttpTasks /\ k.pc = "end" /\ k.req = x.req /\ k.end = "ok" /\ k.hit = e /\ k.att = x.att
    BY <1>2, <2>1 DEF HttpTasks, SlotPcs, Outcomes
  <2> HIDE DEF k
  <2>5. StreamOf(k, frames[t], t, streams, closed)
    BY <1>1, <1>2, <2>4, StillSilent DEF Early
  <2>6. EndOf(k) /\ HoldsOf(k) /\ PolicyOf(k)
    BY <1>2, <2>2, <2>4 DEF EndOf, HoldsOf, PolicyOf
  <2>7. x.pc \in SlotPcs /\ k.pc \in SlotPcs
    BY <1>1, <2>4 DEF SlotPcs
  <2> QED
    BY <1>1, <2>3, <2>4, <2>5, <2>6, <2>7, Carried, ContactsKept
<1> QED
  BY <1>3, <1>4, <1>5

LEMMA KeepsPrecheck ==
    ASSUME NetIInv, NEW t \in TaskIds, Precheck(t)
    PROVE  NetIInv'
<1> DEFINE x == netTask[t]
           r == x.req
           h == x.req.chain[1]
<1>1. /\ x.pc = "precheck"
      /\ UNCHANGED <<cache, total, jars, stats, streams, cancelled, closed, active, contacted, frames,
                     netNow>>
  BY DEF Precheck, Is, KeepStores, KeepStreams
<1>2. /\ x \in HttpTasks /\ x.end = "none" /\ HoldsOf(x) /\ StreamOf(x, frames[t], t, streams, closed)
      /\ r \in HttpRequests /\ x.hop = 1
  BY <1>1, AboutTask DEF EndOf, PolicyOf
<1>3. r.caller \in NetCallers /\ h \in Hosts /\ 1 \in 1 .. Len(r.chain)
  <2>1. r.caller \in NetCallers /\ r.chain \in Seq(Hosts) /\ r.chain # <<>>
    BY <1>2, RequestKnown
  <2> QED
    BY <2>1
<1>4. \/ \E a \in {None, jars[r.caller][h]} :
           /\ LiteralOk(h)
           /\ netTask' = [netTask EXCEPT ![t] = [x EXCEPT !.pc = "fetch", !.att = a]]
      \/ netTask' = [netTask EXCEPT ![t] = [x EXCEPT !.pc = "end", !.end = "fatal"]]
  BY DEF Precheck, EndTask, SetTask
<1>5. ASSUME NEW a \in {None, jars[r.caller][h]}, LiteralOk(h),
             netTask' = [netTask EXCEPT ![t] = [x EXCEPT !.pc = "fetch", !.att = a]]
      PROVE  NetIInv'
  <2>1. a \in TaskIds \cup {None} /\ (a # None => IsOver(a) /\ netTask[a].req.caller = r.caller)
    BY <1>3 DEF NetIInv, NetShape, NetStores
  <2> DEFINE k == [x EXCEPT !.pc = "fetch", !.att = a]
  <2>2. /\ k \in HttpTasks /\ k.pc = "fetch" /\ k.req = x.req /\ k.end = "none" /\ k.hit = x.hit /\ k.att = a
        /\ k.hop = x.hop
    BY <1>2, <2>1 DEF HttpTasks, SlotPcs
  <2>3. netTask' = [netTask EXCEPT ![t] = k]
    BY <1>5
  <2> HIDE DEF k
  <2>4. StreamOf(k, frames[t], t, streams, closed)
    BY <1>1, <1>2, <2>2, StillSilent DEF Early
  <2>5. EndOf(k) /\ HoldsOf(k)
    BY <1>2, <2>1, <2>2 DEF EndOf, HoldsOf
  <2>6. PolicyOf(k)
    BY <1>1, <1>2, <1>3, <1>5, <2>2 DEF PolicyOf
  <2>7. x.pc \in SlotPcs /\ k.pc \in SlotPcs
    BY <1>1, <2>2 DEF SlotPcs
  <2> QED
    BY <1>1, <2>2, <2>3, <2>4, <2>5, <2>6, <2>7, Carried, ContactsKept
<1>6. CASE netTask' = [netTask EXCEPT ![t] = [x EXCEPT !.pc = "end", !.end = "fatal"]]
  <2> DEFINE k == [x EXCEPT !.pc = "end", !.end = "fatal"]
  <2>1. k \in HttpTasks /\ k.pc = "end" /\ k.req = x.req /\ k.end = "fatal" /\ k.hit = x.hit /\ k.att = x.att
    BY <1>2 DEF HttpTasks, SlotPcs, Outcomes
  <2>2. netTask' = [netTask EXCEPT ![t] = k]
    BY <1>6
  <2> HIDE DEF k
  <2>3. StreamOf(k, frames[t], t, streams, closed)
    BY <1>1, <1>2, <2>1, StillSilent DEF Early
  <2>4. EndOf(k) /\ HoldsOf(k) /\ PolicyOf(k)
    BY <1>2, <2>1 DEF EndOf, HoldsOf, PolicyOf
  <2>5. x.pc \in SlotPcs /\ k.pc \in SlotPcs
    BY <1>1, <2>1 DEF SlotPcs
  <2> QED
    BY <1>1, <2>1, <2>2, <2>3, <2>4, <2>5, Carried, ContactsKept
<1> QED
  BY <1>4, <1>5, <1>6

\* An attempt is over: the answer, the next attempt, or the stream's acceptance.
LEMMA Settled ==
    ASSUME NetIInv, NEW t \in TaskIds, netTask[t].pc = "fetch",
           NEW s \in {"ok", "busy", "notfound", "redirect", "transient", "fatal"}, Settle(t, s),
           UNCHANGED <<active, cache, total, jars, stats, netNow, frames, streams, cancelled, closed>>,
           ContactsPermitted'
    PROVE  NetIInv'
<1> DEFINE x == netTask[t]
<1>1. /\ x \in HttpTasks /\ x.end = "none" /\ HoldsOf(x) /\ StreamOf(x, frames[t], t, streams, closed)
      /\ x.hop \in 1 .. Len(x.req.chain)
      /\ LiteralOk(x.req.chain[1]) /\ LiteralOk(x.req.chain[x.hop])
  BY AboutTask DEF EndOf, PolicyOf
<1>2. x.req.chain \in Seq(Hosts) /\ x.req.chain # <<>>
  BY SlotOf, RequestKnown DEF SlotPcs
<1> DEFINE b == x.set \/ s \notin NoResponse
           seen == [x EXCEPT !.status = s, !.set = b]
<1>3. /\ seen \in HttpTasks /\ seen.req = x.req /\ seen.end = "none" /\ seen.hit = x.hit /\ seen.att = x.att
      /\ seen.attempt = x.attempt
  BY <1>1 DEF HttpTasks, Outcomes
<1>4. \/ netTask' = [netTask EXCEPT ![t] = [seen EXCEPT !.pc = "accept"]] /\ x.req.action = "stream"
      \/ netTask' = [netTask EXCEPT ![t] = [seen EXCEPT !.attempt = x.attempt + 1, !.hop = 1]]
      \/ netTask' = [netTask EXCEPT ![t] = [seen EXCEPT !.pc = "end", !.end = s]]
  BY DEF Settle, SetTask
<1>5. x.pc \in SlotPcs /\ x.pc \in Early
  BY DEF SlotPcs, Early
<1>6. seen.pc = "fetch"
  BY <1>1 DEF HttpTasks
<1> HIDE DEF seen
<1>7. CASE netTask' = [netTask EXCEPT ![t] = [seen EXCEPT !.pc = "accept"]] /\ x.req.action = "stream"
  <2> DEFINE k == [seen EXCEPT !.pc = "accept"]
  <2>1. k \in HttpTasks /\ k.pc = "accept" /\ k.req = x.req /\ k.end = "none" /\ k.hit = x.hit /\ k.att = x.att
    BY <1>3 DEF HttpTasks, SlotPcs
  <2>2. netTask' = [netTask EXCEPT ![t] = k] /\ x.req.action = "stream"
    BY <1>7
  <2> HIDE DEF k
  <2>3. StreamOf(k, frames[t], t, streams, closed)
    BY <1>1, <1>5, <2>1, <2>2, StillSilent
  <2>4. EndOf(k) /\ HoldsOf(k) /\ PolicyOf(k) /\ k.pc \in SlotPcs
    BY <1>1, <2>1 DEF EndOf, HoldsOf, PolicyOf, SlotPcs
  <2> QED
    BY <1>5, <2>1, <2>2, <2>3, <2>4, Carried
<1>8. CASE netTask' = [netTask EXCEPT ![t] = [seen EXCEPT !.attempt = x.attempt + 1, !.hop = 1]]
  <2> DEFINE k == [seen EXCEPT !.attempt = x.attempt + 1, !.hop = 1]
  <2>1. /\ k \in HttpTasks /\ k.pc = "fetch" /\ k.req = x.req /\ k.end = "none" /\ k.hit = x.hit /\ k.att = x.att
        /\ k.hop = 1
    <3>1. x.attempt + 1 \in Nat /\ 1 \in Nat
      BY <1>1, HttpFields
    <3> DEFINE n == x.attempt + 1
    <3> HIDE DEF n
    <3> QED
      BY <1>3, <1>6, <3>1 DEF HttpTasks, SlotPcs, n
  <2>2. netTask' = [netTask EXCEPT ![t] = k]
    BY <1>8
  <2> HIDE DEF k
  <2>3. StreamOf(k, frames[t], t, streams, closed)
    BY <1>1, <1>5, <2>1, StillSilent
  <2>4. EndOf(k) /\ HoldsOf(k) /\ k.pc \in SlotPcs
    BY <1>1, <2>1 DEF EndOf, HoldsOf, SlotPcs
  <2>5. PolicyOf(k)
    BY <1>1, <1>2, <2>1 DEF PolicyOf
  <2> QED
    BY <1>5, <2>1, <2>2, <2>3, <2>4, <2>5, Carried
<1>9. CASE netTask' = [netTask EXCEPT ![t] = [seen EXCEPT !.pc = "end", !.end = s]]
  <2> DEFINE k == [seen EXCEPT !.pc = "end", !.end = s]
  <2>1. k \in HttpTasks /\ k.pc = "end" /\ k.req = x.req /\ k.end = s /\ k.hit = x.hit /\ k.att = x.att
    BY <1>3 DEF HttpTasks, SlotPcs, Outcomes
  <2>2. netTask' = [netTask EXCEPT ![t] = k]
    BY <1>9
  <2> HIDE DEF k
  <2>3. StreamOf(k, frames[t], t, streams, closed)
    BY <1>1, <1>5, <2>1, StillSilent
  <2>4. EndOf(k) /\ HoldsOf(k) /\ PolicyOf(k) /\ k.pc \in SlotPcs
    BY <1>1, <2>1 DEF EndOf, HoldsOf, PolicyOf, SlotPcs
  <2> QED
    BY <1>5, <2>1, <2>2, <2>3, <2>4, Carried
<1> QED
  BY <1>4, <1>7, <1>8, <1>9

LEMMA KeepsFetch ==
    ASSUME NetIInv, NEW t \in TaskIds, FetchHop(t)
    PROVE  NetIInv'
<1> DEFINE x == netTask[t]
           chain == x.req.chain
           h == chain[x.hop]
<1>1. /\ x.pc = "fetch"
      /\ UNCHANGED <<cache, total, jars, stats, streams, cancelled, closed, active, frames, netNow>>
  BY DEF FetchHop, Is, KeepStores, KeepStreams
<1>2. /\ x \in HttpTasks /\ x.end = "none" /\ HoldsOf(x) /\ StreamOf(x, frames[t], t, streams, closed)
      /\ x.hop \in 1 .. Len(chain) /\ LiteralOk(chain[1]) /\ LiteralOk(h)
  BY <1>1, AboutTask DEF EndOf, PolicyOf
<1>3. chain \in Seq(Hosts)
  BY <1>1, SlotOf, RequestKnown DEF SlotPcs
<1>4. PICK found \in Answers(h) :
       LET ips == IF BuildOk(x.req) THEN Reach(h, found) ELSE {} IN
       /\ contacted' = contacted \cup ({h} \X ips)
       /\ \/ ips = {} /\ Settle(t, IF BuildOk(x.req) THEN "transient" ELSE "fatal")
          \/ /\ ips # {} /\ x.hop < Len(chain)
             /\ IF x.hop > Redirects(x.req) THEN Settle(t, "redirect")
                ELSE IF LiteralOk(chain[x.hop + 1])
                     THEN netTask' = [netTask EXCEPT ![t].hop = @ + 1]
                     ELSE Settle(t, "fatal")
          \/ /\ ips # {} /\ x.hop = Len(chain)
             /\ \E s \in HttpKinds : Settle(t, s)
  BY DEF FetchHop
<1>5. ContactsPermitted'
  <2>1. \A ip \in Reach(h, found) : Permits(h, ip)
    BY <1>2 DEF Reach, LiteralOk, Resolve
  <2>2. contacted' \subseteq contacted \cup ({h} \X Reach(h, found))
    BY <1>4
  <2>3. ASSUME NEW c \in contacted' PROVE Permits(c[1], c[2])
    <3>1. CASE c \in contacted
      BY <3>1 DEF NetIInv, NetPolicy, ContactsPermitted
    <3>2. CASE c \in {h} \X Reach(h, found)
      BY <2>1, <3>2
    <3> QED
      BY <2>2, <3>1, <3>2
  <2> QED
    BY <2>3 DEF ContactsPermitted
<1>6. \/ \E s \in {"ok", "busy", "notfound", "redirect", "transient", "fatal"} : Settle(t, s)
      \/ /\ x.hop < Len(chain) /\ LiteralOk(chain[x.hop + 1])
         /\ netTask' = [netTask EXCEPT ![t].hop = @ + 1]
  <2>1. HttpKinds \subseteq {"ok", "busy", "notfound", "transient", "fatal"}
    BY NetworkBounds DEF NetworkAssumption
  <2> QED
    BY <1>4, <2>1
<1>7. CASE \E s \in {"ok", "busy", "notfound", "redirect", "transient", "fatal"} : Settle(t, s)
  <2>1. PICK s \in {"ok", "busy", "notfound", "redirect", "transient", "fatal"} : Settle(t, s)
    BY <1>7
  <2> QED
    BY <1>1, <1>5, <2>1, Settled
<1>8. CASE /\ x.hop < Len(chain) /\ LiteralOk(chain[x.hop + 1])
           /\ netTask' = [netTask EXCEPT ![t].hop = @ + 1]
  <2> DEFINE k == [x EXCEPT !.hop = x.hop + 1]
  <2>1. netTask' = [netTask EXCEPT ![t] = k]
    BY <1>8 DEF NetIInv, NetShape
  <2>2. /\ k \in HttpTasks /\ k.pc = "fetch" /\ k.req = x.req /\ k.end = "none" /\ k.hit = x.hit /\ k.att = x.att
        /\ k.hop = x.hop + 1
    BY <1>1, <1>2 DEF HttpTasks
  <2> HIDE DEF k
  <2>3. StreamOf(k, frames[t], t, streams, closed)
    BY <1>1, <1>2, <2>2, StillSilent DEF Early
  <2>4. EndOf(k) /\ HoldsOf(k) /\ k.pc \in SlotPcs /\ x.pc \in SlotPcs
    BY <1>1, <1>2, <2>2 DEF EndOf, HoldsOf, SlotPcs
  <2>5. x.hop + 1 \in 1 .. Len(chain)
    BY <1>2, <1>3, <1>8
  <2>6. PolicyOf(k)
    BY <1>2, <1>8, <2>2, <2>5 DEF PolicyOf
  <2> QED
    BY <1>1, <1>5, <2>1, <2>2, <2>3, <2>4, <2>6, Carried
<1> QED
  BY <1>6, <1>7, <1>8

LEMMA OneFrame == ASSUME NEW f PROVE Len(<<f>>) = 1 /\ <<f>>[1] = f /\ DOMAIN <<f>> = {1} /\ <<f>> # <<>>
OBVIOUS

LEMMA KeepsStreamAccept ==
    ASSUME NetIInv, NEW t \in TaskIds, StreamAccept(t)
    PROVE  NetIInv'
<1> DEFINE x == netTask[t]
<1>1. /\ x.pc = "accept" /\ streams' = streams \cup {t}
      /\ UNCHANGED <<cache, total, jars, stats, cancelled, closed, active, contacted, netNow>>
  BY DEF StreamAccept, Is, KeepStores
<1>2. /\ x \in HttpTasks /\ x.end = "none" /\ HoldsOf(x) /\ StreamOf(x, frames[t], t, streams, closed)
      /\ x.req \in HttpRequests /\ frames[t] = <<>> /\ x.req.action = "stream"
  BY <1>1, AboutTask DEF EndOf, StreamOf
<1>3. PICK p \in {"body", "end"}, e \in {"none", "fatal"} :
         /\ netTask' = [netTask EXCEPT ![t] = [x EXCEPT !.pc = p, !.end = e]]
         /\ IF p = "body" THEN e = "none" /\ frames' = [frames EXCEPT ![t] = Append(@, "accept")]
                          ELSE e = "fatal" /\ frames' = frames
  <2>1. [netTask EXCEPT ![t].pc = "body"] = [netTask EXCEPT ![t] = [x EXCEPT !.pc = "body", !.end = "none"]]
    <3>1. [x EXCEPT !.pc = "body"] = [x EXCEPT !.pc = "body", !.end = "none"]
      BY <1>2 DEF HttpTasks
    <3>2. [netTask EXCEPT ![t].pc = "body"] = [netTask EXCEPT ![t] = [x EXCEPT !.pc = "body"]]
      BY DEF NetIInv, NetShape
    <3> QED
      BY <3>1, <3>2
  <2>2. \/ netTask' = [netTask EXCEPT ![t].pc = "body"] /\ frames' = [frames EXCEPT ![t] = Append(@, "accept")]
        \/ netTask' = [netTask EXCEPT ![t] = [x EXCEPT !.pc = "end", !.end = "fatal"]] /\ frames' = frames
    BY DEF StreamAccept, Go, Send, EndTask, SetTask
  <2> QED
    BY <2>1, <2>2
<1> DEFINE k == [x EXCEPT !.pc = p, !.end = e]
<1>4. /\ k \in HttpTasks /\ k.pc = p /\ k.req = x.req /\ k.end = e /\ k.hit = x.hit /\ k.att = x.att
  BY <1>2 DEF HttpTasks, SlotPcs, Outcomes
<1>5. netTask' = [netTask EXCEPT ![t] = k]
  BY <1>3
<1> HIDE DEF k
<1>6. /\ frames' \in [TaskIds -> Seq(HttpFrames)] /\ \A u \in TaskIds : u # t => frames'[u] = frames[u]
      /\ frames'[t] = IF p = "body" THEN <<"accept">> ELSE <<>>
  <2>1. "accept" \in HttpFrames /\ frames \in [TaskIds -> Seq(HttpFrames)]
    BY DEF HttpFrames, NetIInv, NetShape
  <2> QED
    BY <1>2, <1>3, <2>1, FrameSent
<1>7. StreamOf(k, frames'[t], t, streams', closed)
  <2>1. CASE p = "body"
    BY <1>2, <1>3, <1>4, <1>6, <2>1, OneFrame DEF StreamOf, Opened, Terminal
  <2>2. CASE p = "end"
    BY <1>2, <1>3, <1>4, <1>6, <2>2 DEF StreamOf
  <2> QED
    BY <2>1, <2>2
<1>8. NetSlots' /\ active' \in [NetCallers -> Int]
  <2>1. k.pc \in SlotPcs /\ x.pc \in SlotPcs
    BY <1>1, <1>4 DEF SlotPcs
  <2> QED
    BY <1>1, <1>4, <1>5, <2>1, SlotsKept DEF NetIInv, NetShape
<1>9. EndOf(k) /\ HoldsOf(k) /\ PolicyOf(k) /\ k.pc # "idle" /\ k.pc # "done" /\ ~IsOver(t)
  BY <1>1, <1>2, <1>3, <1>4 DEF EndOf, HoldsOf, PolicyOf, IsOver
<1>10. streams' \subseteq TaskIds /\ \A u \in TaskIds : u # t => (u \in streams' <=> u \in streams)
  BY <1>1 DEF NetIInv, NetShape
<1> QED
  BY <1>1, <1>2, <1>4, <1>5, <1>6, <1>7, <1>8, <1>9, <1>10, TaskMoved, ContactsKept

LEMMA OpenedMore ==
    ASSUME NEW f \in Seq(HttpFrames), Opened(f)
    PROVE  Opened(Append(f, "chunk")) /\ \A i \in DOMAIN f : f[i] \notin Terminal
<1>1. Len(Append(f, "chunk")) = Len(f) + 1 /\ Len(f) \in Nat /\ Len(f) > 0
  BY DEF Opened
<1>2. \A i \in 1 .. Len(f) + 1 : Append(f, "chunk")[i] = IF i <= Len(f) THEN f[i] ELSE "chunk"
  OBVIOUS
<1>3. Append(f, "chunk") # <<>>
  BY <1>1
<1>4. \A i \in DOMAIN f : f[i] \in {"accept", "chunk"}
  BY DEF Opened
<1> QED
  BY <1>1, <1>2, <1>3, <1>4 DEF Opened, Terminal

LEMMA OpenedFrames ==
    ASSUME NEW f \in Seq(HttpFrames), Opened(f)
    PROVE  \A i \in DOMAIN f : f[i] \notin Terminal /\ (f[i] = "chunk" => i > 1 /\ f[1] = "accept")
<1>1. \A i \in DOMAIN f : f[i] \notin Terminal
  BY OpenedMore
<1>2. \A i \in DOMAIN f : f[i] = "chunk" => i > 1 /\ f[1] = "accept"
  <2>1. DOMAIN f = 1 .. Len(f) /\ Len(f) \in Nat
    OBVIOUS
  <2> QED
    BY <2>1 DEF Opened
<1> QED
  BY <1>1, <1>2

LEMMA KeepsStreamBody ==
    ASSUME NetIInv, NEW t \in TaskIds, StreamBody(t)
    PROVE  NetIInv'
<1> DEFINE x == netTask[t]
<1>1. /\ x.pc = "body"
      /\ UNCHANGED <<cache, total, jars, stats, streams, cancelled, closed, active, contacted, netNow>>
  BY DEF StreamBody, Is, KeepStores, KeepStreams
<1>2. /\ x \in HttpTasks /\ x.end = "none" /\ HoldsOf(x) /\ PolicyOf(x) /\ EndOf(x)
      /\ x.req \in HttpRequests /\ Opened(frames[t]) /\ x.req.action = "stream"
      /\ frames[t] \in Seq(HttpFrames)
  BY <1>1, AboutTask DEF EndOf, StreamOf
<1>3. cancelled \subseteq closed
  BY DEF NetIInv, NetStreams
<1>4. \/ \E s \in {"cancelled", "ok", "transient", "fatal"} :
           /\ s = "cancelled" => t \in cancelled
           /\ netTask' = [netTask EXCEPT ![t] = [x EXCEPT !.pc = "end", !.end = s]] /\ frames' = frames
      \/ frames' = [frames EXCEPT ![t] = Append(@, "chunk")] /\ netTask' = netTask
  BY DEF StreamBody, EndTask, SetTask, Send
<1>5. ASSUME NEW s \in {"cancelled", "ok", "transient", "fatal"}, s = "cancelled" => t \in cancelled,
             netTask' = [netTask EXCEPT ![t] = [x EXCEPT !.pc = "end", !.end = s]], frames' = frames
      PROVE  NetIInv'
  <2> DEFINE k == [x EXCEPT !.pc = "end", !.end = s]
  <2>1. k \in HttpTasks /\ k.pc = "end" /\ k.req = x.req /\ k.end = s /\ k.hit = x.hit /\ k.att = x.att
    BY <1>2 DEF HttpTasks, SlotPcs, Outcomes
  <2>2. netTask' = [netTask EXCEPT ![t] = k]
    BY <1>5
  <2> HIDE DEF k
  <2>3. StreamOf(k, frames[t], t, streams, closed)
    <3>1. k.pc \in {"body", "end"} /\ k.req.action = "stream" /\ (k.end = "cancelled" => t \in closed)
      BY <1>2, <1>3, <1>5, <2>1
    <3>2. frames[t] \in Seq(HttpFrames) /\ Opened(frames[t])
      BY <1>2
    <3> QED
      BY <3>1, <3>2, OpenedFrames DEF StreamOf
  <2>4. EndOf(k) /\ HoldsOf(k) /\ PolicyOf(k) /\ k.pc \in SlotPcs /\ x.pc \in SlotPcs
    BY <1>1, <1>2, <2>1 DEF EndOf, HoldsOf, PolicyOf, SlotPcs
  <2> QED
    BY <1>1, <1>5, <2>1, <2>2, <2>3, <2>4, Carried, ContactsKept
<1>6. CASE frames' = [frames EXCEPT ![t] = Append(@, "chunk")] /\ netTask' = netTask
  <2>1. netTask' = [netTask EXCEPT ![t] = x]
    BY <1>6 DEF NetIInv, NetShape
  <2>2. "chunk" \in HttpFrames
    BY DEF HttpFrames
  <2>3. /\ frames' \in [TaskIds -> Seq(HttpFrames)] /\ frames'[t] = Append(frames[t], "chunk")
        /\ \A u \in TaskIds : u # t => frames'[u] = frames[u]
    BY <1>6, <2>2, FrameSent
  <2>4. frames'[t] \in Seq(HttpFrames) /\ Opened(frames'[t])
    BY <1>2, <2>3, OpenedMore
  <2>5. StreamOf(x, frames'[t], t, streams', closed')
    <3>1. x.pc \in {"body", "end"} /\ x.req.action = "stream" /\ (x.end = "cancelled" => t \in closed')
      BY <1>1, <1>2
    <3>2. PICK f \in Seq(HttpFrames) : f = frames'[t]
      BY <2>4
    <3>3. /\ Opened(f) /\ f # <<>>
          /\ \A i \in DOMAIN f : f[i] \notin Terminal /\ (f[i] = "chunk" => i > 1 /\ f[1] = "accept")
      BY <2>4, <3>2, OpenedFrames DEF Opened
    <3> HIDE DEF x
    <3>4. StreamOf(x, f, t, streams', closed')
      BY <3>1, <3>3 DEF StreamOf
    <3> QED
      BY <1>1, <3>2, <3>4
  <2>6. NetSlots' /\ active' \in [NetCallers -> Int] /\ streams' \subseteq TaskIds
        /\ \A u \in TaskIds : u # t => (u \in streams' <=> u \in streams)
    BY <1>1, <1>2, <2>1, SlotsKept DEF NetIInv, NetShape
  <2>7. x.pc # "idle" /\ x.pc # "done" /\ ~IsOver(t)
    BY <1>1 DEF IsOver
  <2> QED
    BY <1>1, <1>2, <2>1, <2>3, <2>5, <2>6, <2>7, TaskMoved, ContactsKept
<1> QED
  BY <1>4, <1>5, <1>6

LEMMA KeepsSessionClose ==
    ASSUME NetIInv, NEW t \in TaskIds, SessionClose(t)
    PROVE  NetIInv'
<1>1. /\ closed' = closed \cup {t} /\ streams' = streams \ {t}
      /\ cancelled' = IF t \in streams THEN cancelled \cup {t} ELSE cancelled
      /\ UNCHANGED <<netTask, cache, total, jars, stats, active, contacted, frames, netNow>>
  BY DEF SessionClose, KeepStores
<1>2. NetShape'
  BY <1>1 DEF NetIInv, NetShape
<1>3. NetSlots' /\ NetStats'
  BY <1>1 DEF NetIInv, NetSlots, NetStats, Slots, Ended
<1>4. NetStores'
  BY <1>1 DEF NetIInv, NetStores, IsOver
<1>5. NetPolicy'
  BY <1>1 DEF NetIInv, NetPolicy, ContactsPermitted
<1>6. NetStreams'
  <2>1. ASSUME NEW u \in TaskIds PROVE StreamOf(netTask'[u], frames'[u], u, streams', closed')
    <3>1. StreamOf(netTask[u], frames[u], u, streams, closed)
      BY AboutTask
    <3> QED
      BY <1>1, <3>1 DEF StreamOf
  <2>2. cancelled' \subseteq closed'
    BY <1>1 DEF NetIInv, NetStreams
  <2> QED
    BY <2>1, <2>2 DEF NetStreams, StreamOf, StreamsOrderly, Last, Is, Terminal
<1> QED
  BY <1>2, <1>3, <1>4, <1>5, <1>6 DEF NetIInv

-----------------------------------------------------------------------------
(* The byte count of the cache.                                             *)

LEMMA BytesAreTotal ==
    ASSUME NEW c, NEW S, DOMAIN c = S, NEW f, \A k \in S : f[k] = c[k].size
    PROVE  Bytes(c) = Total(f, S)
<1>1. UNION {{k} \X (1..c[k].size) : k \in DOMAIN c} = UNION {{k} \X (1..f[k]) : k \in S}
  OBVIOUS
<1>2. Bytes(c) = Cardinality(UNION {{k} \X (1..c[k].size) : k \in DOMAIN c})
  BY DEF Bytes
<1> QED
  BY <1>1, <1>2 DEF Total, Units

LEMMA Put ==
    ASSUME NetShape, NetStores, NEW y, NEW e \in HttpEntries, CachePut(y, e)
    PROVE  /\ cache' \in [DOMAIN cache' -> HttpEntries] /\ IsFiniteSet(DOMAIN cache')
           /\ total' = Bytes(cache') /\ Fits(cache', total')
           /\ \A i \in DOMAIN cache' : \/ i = y /\ cache'[i] = e
                                       \/ i \in DOMAIN cache /\ cache'[i] = cache[i]
<1>1. /\ cache \in [DOMAIN cache -> HttpEntries] /\ IsFiniteSet(DOMAIN cache)
      /\ total = Bytes(cache) /\ Fits(cache, total)
  BY DEF NetShape, NetStores
<1>2. CASE e.size > CacheBytes
  <2>1. cache' = cache /\ total' = total
    BY <1>2 DEF CachePut
  <2> QED
    BY <1>1, <2>1
<1>3. CASE ~(e.size > CacheBytes)
  <2> DEFINE D == DOMAIN cache
             S == D \cup {y}
             c == [j \in S |-> IF j = y THEN e ELSE cache[j]]
             old == IF y \in D THEN cache[y].size ELSE 0
  <2>1. PICK drop \in SUBSET S :
          /\ cache' = [j \in S \ drop |-> c[j]]
          /\ total' = (total - old + e.size) - Bytes([j \in drop |-> c[j]])
          /\ Fits(cache', total')
    BY <1>3 DEF CachePut, EvictTo
  <2>2. IsFiniteSet(S) /\ c \in [S -> HttpEntries]
    BY <1>1, FS_AddElement
  <2>3. IsFiniteSet(S \ drop) /\ DOMAIN cache' = S \ drop
    BY <2>1, <2>2, FS_Subset
  <2>4. \A j \in S : c[j] \in HttpEntries /\ c[j].size \in Nat
    BY <2>2 DEF HttpEntries
  <2> DEFINE f == [j \in S |-> c[j].size]
             g == [j \in S |-> IF j \in D THEN cache[j].size ELSE 0]
  <2>5. \A j \in S : f[j] \in Nat /\ g[j] \in Nat /\ f[j] = c[j].size
    BY <1>1, <2>4 DEF HttpEntries
  <2>6. f[y] = e.size /\ g[y] = old /\ \A j \in S : j # y => g[j] = f[j]
    OBVIOUS
  <2>7. total = Total(g, D)
    <3>1. \A j \in D : g[j] = cache[j].size
      OBVIOUS
    <3> HIDE DEF g
    <3> QED
      BY <1>1, <3>1, BytesAreTotal
  <2>8. Bytes([j \in drop |-> c[j]]) = Total(f, drop)
    <3>1. DOMAIN [j \in drop |-> c[j]] = drop /\ \A j \in drop : f[j] = [i \in drop |-> c[i]][j].size
      BY <2>1, <2>5
    <3> HIDE DEF f, c
    <3> QED
      BY <3>1, BytesAreTotal
  <2>9. Bytes(cache') = Total(f, S \ drop)
    <3>1. \A j \in S \ drop : f[j] = cache'[j].size
      BY <2>1, <2>5
    <3> HIDE DEF f, c, S
    <3> QED
      BY <2>3, <3>1, BytesAreTotal
  <2>10. e.size \in Nat /\ old \in Nat
    BY <1>1 DEF HttpEntries
  <2> HIDE DEF f, g, old, c
  <2>11. Total(f, S) = total - old + e.size /\ total \in Nat
    <3>1. CASE y \in D
      <4>1. S = D /\ y \in S /\ \A j \in S : j # y => f[j] = g[j]
        BY <2>6, <3>1
      <4>2. Total(f, S) = Total(g, S) - g[y] + f[y] /\ Total(g, S) \in Nat
        <5>1. IsFiniteSet(S) /\ y \in S /\ \A j \in S : g[j] \in Nat /\ f[j] \in Nat
          BY <2>2, <2>5
        <5>2. \A j \in S : j # y => f[j] = g[j]
          BY <4>1
        <5> HIDE DEF S
        <5> QED
          BY <5>1, <5>2, TotalChanged
      <4> QED
        BY <2>6, <2>7, <4>1, <4>2
    <3>2. CASE y \notin D
      <4>1. IsFiniteSet(D) /\ IsFiniteSet({y}) /\ D \cap {y} = {}
        BY <1>1, <3>2, FS_Singleton
      <4>2. \A j \in D \cup {y} : f[j] \in Nat
        BY <2>5
      <4>3. Total(f, D \cup {y}) = Total(f, D) + Total(f, {y})
        BY <4>1, <4>2, TotalSplit
      <4>4. Total(f, {y}) = e.size
        BY <2>6, <2>10, TotalOne
      <4>5. \A j \in D : f[j] = g[j]
        BY <2>6, <3>2
      <4>6. Total(f, D) = Total(g, D)
        BY <4>5, TotalSame
      <4>7. old = 0
        BY <3>2 DEF old
      <4>8. Total(f, D) \in Nat
        BY <4>1, <4>2, UnitsFinite
      <4> QED
        BY <2>7, <2>10, <4>3, <4>4, <4>6, <4>7, <4>8
    <3> QED
      BY <3>1, <3>2
  <2>12. Total(f, S \ drop) = Total(f, S) - Total(f, drop)
    <3>1. drop \subseteq S /\ \A j \in S : f[j] \in Nat
      BY <2>1, <2>5
    <3> HIDE DEF S
    <3> QED
      BY <2>2, <3>1, TotalWithout
  <2>13. total' = Bytes(cache')
    BY <2>1, <2>8, <2>9, <2>11, <2>12
  <2>14. cache' \in [DOMAIN cache' -> HttpEntries]
    BY <2>1, <2>2, <2>3
  <2>15. \A i \in DOMAIN cache' : \/ i = y /\ cache'[i] = e
                                  \/ i \in DOMAIN cache /\ cache'[i] = cache[i]
    BY <2>1 DEF c
  <2> QED
    BY <2>1, <2>3, <2>13, <2>14, <2>15
<1> QED
  BY <1>2, <1>3

-----------------------------------------------------------------------------
(* The ends of a request, and the network's theorem.                        *)

LEMMA EndCounted ==
    ASSUME NetShape, NetStats, NEW t \in TaskIds, NEW k \in HttpTasks,
           netTask' = [netTask EXCEPT ![t] = k], netTask[t].pc = "end", k.pc = "done",
           k.end = netTask[t].end, k.req = netTask[t].req, NEW c \in NetCallers, k.req.caller = c,
           NEW m \in {0, 1}, stats' = [stats EXCEPT ![c] = [requests |-> stats[c].requests + 1,
                                                           errors |-> stats[c].errors + m]]
    PROVE  NetStats' /\ stats' \in [NetCallers -> [requests : Nat, errors : Nat]]
<1>1. netTask[t].end # "none"
  BY DEF NetStats
<1>2. Ended(c)' = Ended(c) \cup {t} /\ t \notin Ended(c)
  BY <1>1, HttpMoves DEF Ended
<1>3. \A d : d # c => Ended(d)' = Ended(d)
  BY HttpMoves DEF Ended
<1>4. IsFiniteSet(Ended(c)) /\ Cardinality(Ended(c)) \in Nat
  <2>1. IsFiniteSet(TaskIds) /\ Ended(c) \subseteq TaskIds
    BY NetFinite DEF Ended
  <2> QED
    BY <2>1, FS_Subset, FS_CardinalityType
<1>5. Cardinality(Ended(c)') = Cardinality(Ended(c)) + 1
  BY <1>2, <1>4, FS_AddElement
<1>6. stats' \in [NetCallers -> [requests : Nat, errors : Nat]]
  BY DEF NetShape
<1>7. ASSUME NEW d \in NetCallers PROVE stats'[d].requests = Cardinality(Ended(d)')
  <2>1. stats[d].requests = Cardinality(Ended(d))
    BY DEF NetStats
  <2>2. CASE d = c
    <3>1. stats'[c] = [requests |-> stats[c].requests + 1, errors |-> stats[c].errors + m]
      BY DEF NetShape
    <3> QED
      BY <1>5, <2>1, <2>2, <3>1
  <2>3. CASE d # c
    <3>1. stats'[d] = stats[d]
      BY <2>3 DEF NetShape
    <3> QED
      BY <1>3, <2>1, <2>3, <3>1
  <2> QED
    BY <2>2, <2>3
<1>8. \A u \in TaskIds : /\ netTask'[u].pc \notin {"end", "done"} => netTask'[u].end = "none"
                         /\ netTask'[u].pc = "end" => netTask'[u].end # "none"
  BY HttpMoves DEF NetStats
<1> QED
  BY <1>6, <1>7, <1>8 DEF NetStats

\* What a request that is over leaves in the stores.
LEMMA StoresGrown ==
    ASSUME NetShape, NetStores, NEW t \in TaskIds, NEW k \in HttpTasks,
           netTask' = [netTask EXCEPT ![t] = k], ~IsOver(t), k.pc = "done", k.req = netTask[t].req,
           HoldsOf(k),
           total' = Bytes(cache'), Fits(cache', total'),
           \A i \in DOMAIN cache' : \/ /\ i = CacheKey(k.req) /\ cache'[i].by = t /\ k.end = "ok"
                                    \/ i \in DOMAIN cache /\ cache'[i] = cache[i],
           \A c \in NetCallers, h \in Hosts : \/ jars'[c][h] = jars[c][h]
                                              \/ jars'[c][h] = t /\ k.req.caller = c
    PROVE  NetStores'
<1>1. \A u \in TaskIds : IsOver(u) => netTask'[u] = netTask[u] /\ netTask'[u].pc = "done"
  BY HttpMoves DEF IsOver
<1>2. netTask'[t] = k
  BY HttpMoves
<1>3. ASSUME NEW i \in DOMAIN cache'
      PROVE  LET u == cache'[i].by IN
             netTask'[u].pc = "done" /\ netTask'[u].end = "ok" /\ CacheKey(netTask'[u].req) = i
  <2>1. CASE i = CacheKey(k.req) /\ cache'[i].by = t /\ k.end = "ok"
    BY <1>2, <2>1
  <2>2. CASE i \in DOMAIN cache /\ cache'[i] = cache[i]
    <3>1. cache[i].by \in TaskIds
      BY <2>2 DEF NetShape, HttpEntries
    <3>2. IsOver(cache[i].by) /\ netTask[cache[i].by].end = "ok" /\ CacheKey(netTask[cache[i].by].req) = i
      BY <2>2 DEF NetStores
    <3> QED
      BY <1>1, <2>2, <3>1, <3>2
  <2> QED
    BY <2>1, <2>2
<1>4. ASSUME NEW c \in NetCallers, NEW h \in Hosts, jars'[c][h] # None
      PROVE  netTask'[jars'[c][h]].pc = "done" /\ netTask'[jars'[c][h]].req.caller = c
  <2>1. CASE jars'[c][h] = t /\ k.req.caller = c
    BY <1>2, <2>1
  <2>2. CASE jars'[c][h] = jars[c][h]
    <3>1. jars[c][h] \in TaskIds
      BY <1>4, <2>2 DEF NetShape
    <3>2. IsOver(jars[c][h]) /\ netTask[jars[c][h]].req.caller = c
      BY <1>4, <2>2 DEF NetStores
    <3> QED
      BY <1>1, <2>2, <3>1, <3>2
  <2> QED
    BY <2>1, <2>2
<1>5. ASSUME NEW u \in TaskIds
      PROVE  LET x == netTask'[u] IN
             /\ x.hit # None => /\ x.pc # "idle" /\ netTask'[x.hit.by].pc = "done" /\ netTask'[x.hit.by].end = "ok"
                                /\ CacheKey(netTask'[x.hit.by].req) = CacheKey(x.req)
             /\ x.att # None => /\ x.pc # "idle" /\ netTask'[x.att].pc = "done"
                                /\ netTask'[x.att].req.caller = x.req.caller
  <2>1. PICK x \in HttpTasks : x = netTask'[u]
    BY HttpMoves
  <2>2. /\ x.hit # None => /\ x.pc # "idle" /\ IsOver(x.hit.by) /\ netTask[x.hit.by].end = "ok"
                           /\ CacheKey(netTask[x.hit.by].req) = CacheKey(x.req)
        /\ x.att # None => x.pc # "idle" /\ IsOver(x.att) /\ netTask[x.att].req.caller = x.req.caller
    <3>1. CASE u = t
      BY <2>1, <3>1, HttpMoves DEF HoldsOf
    <3>2. CASE u # t
      <4>1. x = netTask[u]
        BY <2>1, <3>2, HttpMoves
      <4> QED
        BY <4>1 DEF NetStores
    <3> QED
      BY <3>1, <3>2
  <2>3. x.hit # None => x.hit.by \in TaskIds
    BY HttpFields DEF HttpEntries
  <2>4. x.att # None => x.att \in TaskIds
    BY HttpFields
  <2>5. x.hit # None => netTask'[x.hit.by] = netTask[x.hit.by] /\ netTask'[x.hit.by].pc = "done"
    BY <1>1, <2>2, <2>3
  <2>6. x.att # None => netTask'[x.att] = netTask[x.att] /\ netTask'[x.att].pc = "done"
    BY <1>1, <2>2, <2>4
  <2> QED
    BY <2>1, <2>2, <2>5, <2>6
<1> QED
  BY <1>3, <1>4, <1>5 DEF NetStores, IsOver

\* The last frame of a request.
LEMMA LastFrame ==
    ASSUME NEW x, NEW f \in Seq(HttpFrames), f = <<>> \/ Opened(f), NEW k, k.pc = "done",
           NEW C, NEW t, k.end = "cancelled" => t \in C, NEW S, t \notin S,
           NEW g, g \in {"error", "reply", "close"}
    PROVE  StreamOf(k, Append(f, g), t, S, C)
<1> DEFINE s == Append(f, g)
<1>1. Len(s) = Len(f) + 1 /\ Len(f) \in Nat /\ s # <<>> /\ DOMAIN s = 1 .. Len(f) + 1
  <2>1. g \in HttpFrames
    BY DEF HttpFrames
  <2>2. Len(s) = Len(f) + 1 /\ Len(f) \in Nat /\ DOMAIN s = 1 .. Len(f) + 1
    BY <2>1
  <2>3. s # <<>>
    BY <2>2
  <2> QED
    BY <2>2, <2>3
<1>2. \A i \in DOMAIN s : s[i] = IF i <= Len(f) THEN f[i] ELSE g
  OBVIOUS
<1>3. \A i \in DOMAIN f : f[i] \notin Terminal /\ (f[i] = "chunk" => i > 1 /\ f[1] = "accept")
  BY OpenedFrames
<1>4. ASSUME NEW i \in DOMAIN s
      PROVE  /\ s[i] \in Terminal => i = Len(s)
             /\ s[i] = "chunk" => i > 1 /\ s[1] = "accept"
  <2>1. CASE i <= Len(f)
    <3>1. i \in DOMAIN f /\ 1 \in DOMAIN f /\ 1 \in DOMAIN s /\ 1 <= Len(f)
      BY <1>1, <2>1
    <3> QED
      BY <1>2, <1>3, <2>1, <3>1
  <2>2. CASE ~(i <= Len(f))
    BY <1>1, <1>2, <2>2
  <2> QED
    BY <2>1, <2>2
<1>5. s[Len(s)] \in Terminal
  BY <1>1, <1>2 DEF Terminal
<1> HIDE DEF s
<1>6. StreamOf(k, s, t, S, C)
  BY <1>1, <1>4, <1>5 DEF StreamOf
<1> QED
  BY <1>6 DEF s

LEMMA KeepsFinish ==
    ASSUME NetIInv, NEW t \in TaskIds, Finish(t)
    PROVE  NetIInv'
<1> DEFINE x == netTask[t]
           r == x.req
           h == r.chain[1]
           c == r.caller
<1>1. /\ x.pc = "end" /\ r.action = "http" /\ netTask' = [netTask EXCEPT ![t].pc = "done"]
      /\ UNCHANGED <<streams, cancelled, closed, contacted, netNow>>
  BY DEF Finish, Is, Go, KeepStreams
<1>2. /\ x \in HttpTasks /\ HoldsOf(x) /\ StreamOf(x, frames[t], t, streams, closed) /\ EndOf(x)
      /\ r \in HttpRequests /\ frames[t] = <<>> /\ frames[t] \in Seq(HttpFrames)
  BY <1>1, AboutTask DEF StreamOf
<1>3. c \in NetCallers /\ h \in Hosts /\ r.ttl \in Nat /\ r.size \in Nat
  <2>1. c \in NetCallers /\ r.chain \in Seq(Hosts) /\ r.chain # <<>> /\ r.ttl \in Nat /\ r.size \in Nat
    BY <1>2, RequestKnown
  <2> QED
    BY <2>1
<1>4. PICK m \in {0, 1}, f \in {"error", "reply"} :
        /\ stats' = [stats EXCEPT ![c] = [requests |-> stats[c].requests + 1,
                                         errors |-> stats[c].errors + m]]
        /\ active' = [active EXCEPT ![c] = IF HttpLimit > 0 THEN @ - 1 ELSE @]
        /\ frames' = [frames EXCEPT ![t] = Append(@, f)]
  BY DEF Finish, Count, Release, Send
<1> DEFINE k == [x EXCEPT !.pc = "done"]
<1>5. k \in HttpTasks /\ k.pc = "done" /\ k.req = x.req /\ k.end = x.end /\ k.hit = x.hit /\ k.att = x.att
  BY <1>2 DEF HttpTasks
<1>6. netTask' = [netTask EXCEPT ![t] = k]
  BY <1>1 DEF NetIInv, NetShape
<1>7. ~IsOver(t) /\ x.pc \in SlotPcs /\ k.pc \notin SlotPcs
  BY <1>1, <1>5 DEF IsOver, SlotPcs
<1> HIDE DEF k
<1>8. NetSlots' /\ active' \in [NetCallers -> Int]
  BY <1>3, <1>4, <1>5, <1>6, <1>7, SlotFreed DEF NetIInv
<1>9. NetStats' /\ stats' \in [NetCallers -> [requests : Nat, errors : Nat]]
  BY <1>1, <1>3, <1>4, <1>5, <1>6, EndCounted DEF NetIInv
<1>10. /\ cache' \in [DOMAIN cache' -> HttpEntries] /\ IsFiniteSet(DOMAIN cache')
       /\ total' = Bytes(cache') /\ Fits(cache', total')
       /\ \A i \in DOMAIN cache' : \/ /\ i = CacheKey(k.req) /\ cache'[i].by = t /\ k.end = "ok"
                                   \/ i \in DOMAIN cache /\ cache'[i] = cache[i]
  <2>1. CASE UNCHANGED <<cache, total>>
    BY <2>1 DEF NetIInv, NetShape, NetStores
  <2>2. CASE ~UNCHANGED <<cache, total>>
    <3> DEFINE e == [at |-> netNow, expires |-> netNow + r.ttl, size |-> r.size, by |-> t]
    <3>1. CachePut(CacheKey(r), e) /\ x.end = "ok"
      BY <2>2 DEF Finish, IsCacheable
    <3>2. e \in HttpEntries /\ e.by = t
      BY <1>3 DEF HttpEntries, NetIInv, NetShape
    <3> HIDE DEF e
    <3>3. /\ cache' \in [DOMAIN cache' -> HttpEntries] /\ IsFiniteSet(DOMAIN cache')
          /\ total' = Bytes(cache') /\ Fits(cache', total')
          /\ \A i \in DOMAIN cache' : \/ i = CacheKey(r) /\ cache'[i] = e
                                      \/ i \in DOMAIN cache /\ cache'[i] = cache[i]
      BY <3>1, <3>2, Put DEF NetIInv
    <3> QED
      BY <1>5, <3>1, <3>2, <3>3
  <2> QED
    BY <2>1, <2>2
<1>11. /\ jars' \in [NetCallers -> [Hosts -> TaskIds \cup {None}]]
       /\ \A d \in NetCallers, j \in Hosts : \/ jars'[d][j] = jars[d][j]
                                             \/ jars'[d][j] = t /\ k.req.caller = d
  <2>1. jars \in [NetCallers -> [Hosts -> TaskIds \cup {None}]]
    BY DEF NetIInv, NetShape
  <2>2. \/ jars' = jars
        \/ jars' = [jars EXCEPT ![c] = [jars[c] EXCEPT ![h] = t]]
    BY DEF Finish
  <2>3. CASE jars' = jars
    BY <2>1, <2>3
  <2>4. CASE jars' = [jars EXCEPT ![c] = [jars[c] EXCEPT ![h] = t]]
    <3> DEFINE q == [jars[c] EXCEPT ![h] = t]
    <3>1. q \in [Hosts -> TaskIds \cup {None}] /\ q[h] = t /\ \A j \in Hosts : j # h => q[j] = jars[c][j]
      BY <1>3, <2>1
    <3>2. jars' = [jars EXCEPT ![c] = q]
      BY <2>4
    <3> HIDE DEF q
    <3>3. jars'[c] = q /\ (\A d \in NetCallers : d # c => jars'[d] = jars[d])
          /\ jars' \in [NetCallers -> [Hosts -> TaskIds \cup {None}]]
      BY <1>3, <2>1, <3>1, <3>2
    <3> QED
      BY <1>5, <3>1, <3>3
  <2> QED
    BY <2>2, <2>3, <2>4
<1>12. NetStores'
  <2>1. HoldsOf(k)
    BY <1>2, <1>5 DEF HoldsOf
  <2> QED
    BY <1>5, <1>6, <1>7, <1>10, <1>11, <2>1, StoresGrown DEF NetIInv
<1>13. PolicyOf(k) /\ ContactsPermitted'
  BY <1>1, <1>5, ContactsKept DEF PolicyOf
<1>14. NetPolicy'
  BY <1>5, <1>6, <1>13, PolicyKept DEF NetIInv
<1>15. /\ frames' \in [TaskIds -> Seq(HttpFrames)] /\ frames'[t] = Append(frames[t], f)
       /\ \A u \in TaskIds : u # t => frames'[u] = frames[u]
  <2>1. f \in HttpFrames
    BY DEF HttpFrames
  <2> QED
    BY <1>4, <2>1, FrameSent
<1>16. StreamOf(k, frames'[t], t, streams', closed)
  <2>1. t \notin streams'
    BY <1>1, <1>2 DEF StreamOf
  <2>2. k.end = "cancelled" => t \in closed
    BY <1>2, <1>5 DEF StreamOf
  <2>3. StreamOf(k, Append(frames[t], f), t, streams', closed)
    BY <1>2, <1>5, <2>1, <2>2, LastFrame
  <2> QED
    BY <1>15, <2>3
<1>17. NetStreams'
  <2>1. \A u \in TaskIds : u # t => (u \in streams' <=> u \in streams)
    BY <1>1
  <2> QED
    BY <1>1, <1>5, <1>6, <1>15, <1>16, <2>1, StreamsKept DEF NetIInv
<1>18. NetShape'
  <2>1. \A u \in TaskIds : netTask'[u].pc # "idle" => netTask'[u].req \in HttpRequests
    BY <1>2, <1>5, <1>6, HttpMoves DEF NetIInv, NetShape
  <2>2. netTask' \in [TaskIds -> HttpTasks]
    BY <1>5, <1>6, HttpMoves DEF NetIInv
  <2>3. netNow' \in Nat /\ streams' \subseteq TaskIds
    BY <1>1 DEF NetIInv, NetShape
  <2> QED
    BY <1>8, <1>9, <1>10, <1>11, <1>15, <2>1, <2>2, <2>3 DEF NetShape
<1> QED
  BY <1>8, <1>9, <1>12, <1>14, <1>17, <1>18 DEF NetIInv

LEMMA KeepsStreamFinish ==
    ASSUME NetIInv, NEW t \in TaskIds, StreamFinish(t)
    PROVE  NetIInv'
<1> DEFINE x == netTask[t]
           c == x.req.caller
<1>1. /\ x.pc = "end" /\ x.req.action = "stream" /\ netTask' = [netTask EXCEPT ![t].pc = "done"]
      /\ streams' = streams \ {t}
      /\ UNCHANGED <<cancelled, closed, cache, total, jars, contacted, netNow>>
  BY DEF StreamFinish, Is, Go
<1>2. /\ x \in HttpTasks /\ HoldsOf(x) /\ StreamOf(x, frames[t], t, streams, closed)
      /\ x.req \in HttpRequests /\ frames[t] \in Seq(HttpFrames)
      /\ (frames[t] = <<>> \/ Opened(frames[t])) /\ (x.end = "cancelled" => t \in closed)
  BY <1>1, AboutTask DEF StreamOf
<1>3. c \in NetCallers
  BY <1>2, RequestKnown
<1>4. PICK m \in {0, 1} :
        /\ stats' = [stats EXCEPT ![c] = [requests |-> stats[c].requests + 1,
                                         errors |-> stats[c].errors + m]]
        /\ active' = [active EXCEPT ![c] = IF HttpLimit > 0 THEN @ - 1 ELSE @]
  BY DEF StreamFinish, Count, Release
<1> DEFINE k == [x EXCEPT !.pc = "done"]
<1>5. k \in HttpTasks /\ k.pc = "done" /\ k.req = x.req /\ k.end = x.end /\ k.hit = x.hit /\ k.att = x.att
  BY <1>2 DEF HttpTasks
<1>6. netTask' = [netTask EXCEPT ![t] = k]
  BY <1>1 DEF NetIInv, NetShape
<1>7. ~IsOver(t) /\ x.pc \in SlotPcs /\ k.pc \notin SlotPcs
  BY <1>1, <1>5 DEF IsOver, SlotPcs
<1> HIDE DEF k
<1>8. NetSlots' /\ active' \in [NetCallers -> Int]
  BY <1>3, <1>4, <1>5, <1>6, <1>7, SlotFreed DEF NetIInv
<1>9. NetStats' /\ stats' \in [NetCallers -> [requests : Nat, errors : Nat]]
  BY <1>1, <1>3, <1>4, <1>5, <1>6, EndCounted DEF NetIInv
<1>10. NetStores'
  <2>1. HoldsOf(k)
    BY <1>2, <1>5 DEF HoldsOf
  <2>2. total' = Bytes(cache') /\ Fits(cache', total')
    BY <1>1 DEF NetIInv, NetStores
  <2>3. (\A i \in DOMAIN cache' : i \in DOMAIN cache /\ cache'[i] = cache[i])
        /\ (\A d \in NetCallers, j \in Hosts : jars'[d][j] = jars[d][j])
    BY <1>1
  <2> QED
    BY <1>5, <1>6, <1>7, <2>1, <2>2, <2>3, StoresGrown DEF NetIInv
<1>11. PolicyOf(k) /\ ContactsPermitted'
  BY <1>1, <1>5, ContactsKept DEF PolicyOf
<1>12. NetPolicy'
  BY <1>5, <1>6, <1>11, PolicyKept DEF NetIInv
<1>13. \/ x.end = "cancelled" /\ frames' = [frames EXCEPT ![t] = frames[t]]
       \/ \E f \in {"close", "error"} : frames' = [frames EXCEPT ![t] = Append(@, f)]
  BY DEF StreamFinish
<1>14. t \notin streams' /\ (k.end = "cancelled" => t \in closed)
  BY <1>1, <1>2, <1>5
<1>15. /\ frames' \in [TaskIds -> Seq(HttpFrames)]
       /\ \A u \in TaskIds : u # t => frames'[u] = frames[u]
       /\ StreamOf(k, frames'[t], t, streams', closed)
  <2>1. CASE x.end = "cancelled" /\ frames' = [frames EXCEPT ![t] = frames[t]]
    <3>1. frames' = frames
      BY <2>1 DEF NetIInv, NetShape
    <3>2. \A i \in DOMAIN frames[t] : /\ frames[t][i] \notin Terminal
                                     /\ frames[t][i] = "chunk" => i > 1 /\ frames[t][1] = "accept"
      BY <1>2, OpenedFrames
    <3>3. StreamOf(k, frames[t], t, streams', closed)
      BY <1>5, <1>14, <1>2, <2>1, <3>2 DEF StreamOf
    <3> QED
      BY <3>1, <3>3 DEF NetIInv, NetShape
  <2>2. CASE \E f \in {"close", "error"} : frames' = [frames EXCEPT ![t] = Append(@, f)]
    <3>1. PICK f \in {"close", "error"} : frames' = [frames EXCEPT ![t] = Append(@, f)]
      BY <2>2
    <3>2. f \in HttpFrames /\ f \in {"error", "reply", "close"}
      BY DEF HttpFrames
    <3>3. /\ frames' \in [TaskIds -> Seq(HttpFrames)] /\ frames'[t] = Append(frames[t], f)
          /\ \A u \in TaskIds : u # t => frames'[u] = frames[u]
      BY <3>1, <3>2, FrameSent
    <3>4. StreamOf(k, Append(frames[t], f), t, streams', closed)
      BY <1>2, <1>5, <1>14, <3>2, LastFrame
    <3> QED
      BY <3>3, <3>4
  <2> QED
    BY <1>13, <2>1, <2>2
<1>16. NetStreams'
  <2>1. \A u \in TaskIds : u # t => (u \in streams' <=> u \in streams)
    BY <1>1
  <2> QED
    BY <1>1, <1>5, <1>6, <1>15, <2>1, StreamsKept DEF NetIInv
<1>17. NetShape'
  <2>1. \A u \in TaskIds : netTask'[u].pc # "idle" => netTask'[u].req \in HttpRequests
    BY <1>2, <1>5, <1>6, HttpMoves DEF NetIInv, NetShape
  <2>2. netTask' \in [TaskIds -> HttpTasks]
    BY <1>5, <1>6, HttpMoves DEF NetIInv
  <2>3. /\ netNow' \in Nat /\ streams' \subseteq TaskIds
        /\ cache' \in [DOMAIN cache' -> HttpEntries] /\ IsFiniteSet(DOMAIN cache')
        /\ jars' \in [NetCallers -> [Hosts -> TaskIds \cup {None}]]
    BY <1>1 DEF NetIInv, NetShape
  <2> QED
    BY <1>8, <1>9, <1>15, <2>1, <2>2, <2>3 DEF NetShape
<1> QED
  BY <1>8, <1>9, <1>10, <1>12, <1>16, <1>17 DEF NetIInv

LEMMA KeepsTick == ASSUME NetIInv, NetworkTick PROVE NetIInv'
<1>1. netNow' \in Nat /\ UNCHANGED <<netTask, active, streams, cancelled, closed, cache, total,
                                     jars, stats, contacted, frames>>
  BY DEF NetworkTick, NetIInv, NetShape
<1>2. NetShape'
  BY <1>1 DEF NetIInv, NetShape
<1>3. NetSlots' /\ NetStats'
  BY <1>1 DEF NetIInv, NetSlots, NetStats, Slots, Ended
<1>4. NetStores'
  BY <1>1 DEF NetIInv, NetStores, IsOver
<1>5. NetPolicy'
  BY <1>1 DEF NetIInv, NetPolicy, ContactsPermitted
<1>6. NetStreams'
  BY <1>1 DEF NetIInv, NetStreams, StreamsOrderly, Is, Opened
<1> QED
  BY <1>2, <1>3, <1>4, <1>5, <1>6 DEF NetIInv

LEMMA NetHolds == ASSUME NetIInv PROVE NetworkInv
<1>1. SlotsExact
  <2>1. \A c : {t \in Holding : Caller(t) = c} = Slots(c)
    BY DEF Holding, Caller, Slots, SlotPcs
  <2> QED
    BY <2>1 DEF NetIInv, NetSlots, SlotsExact
<1>2. StatsExact
  <2>1. \A c : {t \in TaskIds : Is(t, "done") /\ netTask[t].end # "none" /\ Caller(t) = c} = Ended(c)
    BY DEF Is, Caller, Ended
  <2> QED
    BY <2>1 DEF NetIInv, NetStats, StatsExact
<1>3. CacheExact
  BY DEF NetIInv, NetStores, CacheExact, Caller
<1>4. ContactsPermitted /\ StreamsOrderly
  BY DEF NetIInv, NetPolicy, NetStreams
<1> QED
  BY <1>1, <1>2, <1>3, <1>4 DEF NetworkInv

LEMMA NetStarts == ASSUME NetworkInit PROVE NetIInv
<1> DEFINE w == [pc |-> "idle", req |-> None, hop |-> 1, attempt |-> 0, set |-> FALSE, att |-> None,
                 status |-> "none", end |-> "none", hit |-> None]
<1>1. /\ netTask = [t \in TaskIds |-> w] /\ active = [c \in NetCallers |-> 0]
      /\ streams = {} /\ cancelled = {} /\ closed = {} /\ cache = <<>> /\ total = 0
      /\ jars = [c \in NetCallers |-> [h \in Hosts |-> None]]
      /\ stats = [c \in NetCallers |-> [requests |-> 0, errors |-> 0]]
      /\ contacted = {} /\ frames = [t \in TaskIds |-> <<>>] /\ netNow = 0
  BY DEF NetworkInit, Fresh
<1>2. w \in HttpTasks /\ w.pc = "idle" /\ w.hit = None /\ w.att = None /\ w.end = "none" /\ w.hop = 1
  BY DEF HttpTasks, SlotPcs, Outcomes
<1> HIDE DEF w
<1>3. NetShape
  <2>1. DOMAIN cache = {} /\ IsFiniteSet({})
    BY <1>1, FS_EmptySet
  <2>2. <<>> \in Seq(HttpFrames)
    OBVIOUS
  <2> QED
    BY <1>1, <1>2, <2>1, <2>2 DEF NetShape
<1>4. NetSlots
  <2>1. \A c : Slots(c) = {}
    BY <1>1, <1>2 DEF Slots, SlotPcs
  <2> QED
    BY <1>1, <2>1, FS_EmptySet DEF NetSlots
<1>5. NetStats
  <2>1. \A c : Ended(c) = {}
    BY <1>1, <1>2 DEF Ended
  <2> QED
    BY <1>1, <1>2, <2>1, FS_EmptySet DEF NetStats
<1>6. NetStores
  <2>1. Bytes(cache) = 0
    <3>1. Bytes(cache) = Cardinality({})
      <4>1. DOMAIN cache = {}
        BY <1>1
      <4>2. UNION {{k} \X (1..cache[k].size) : k \in DOMAIN cache} = {}
        BY <4>1
      <4> QED
        BY <4>2 DEF Bytes
    <3> QED
      BY <3>1, FS_EmptySet
  <2>2. Fits(cache, total)
    <3>1. CacheEntries \in Nat /\ CacheBytes \in Nat
      BY NetworkBounds DEF NetworkAssumption
    <3>2. Cardinality(DOMAIN cache) = 0
      BY <1>1, FS_EmptySet
    <3> QED
      BY <1>1, <3>1, <3>2 DEF Fits
  <2> QED
    BY <1>1, <1>2, <2>1, <2>2 DEF NetStores
<1>7. NetPolicy
  BY <1>1, <1>2 DEF NetPolicy, ContactsPermitted
<1>8. NetStreams
  BY <1>1, <1>2 DEF NetStreams, StreamsOrderly, Is
<1> QED
  BY <1>3, <1>4, <1>5, <1>6, <1>7, <1>8 DEF NetIInv

LEMMA NetSteps == ASSUME NetIInv, NetworkNext PROVE NetIInv'
<1>1. ASSUME NEW t \in TaskIds, NetworkStep(t) PROVE NetIInv'
  BY <1>1, KeepsAccept, KeepsOnAction, KeepsAcquire, KeepsCacheLookup, KeepsPrecheck, KeepsFetch,
     KeepsStreamAccept, KeepsStreamBody, KeepsSessionClose, KeepsFinish, KeepsStreamFinish DEF NetworkStep
<1> QED
  BY <1>1, KeepsTick DEF NetworkNext

LEMMA NetStays == ASSUME NetIInv, UNCHANGED networkVars PROVE NetIInv'
<1>1. UNCHANGED <<netTask, active, streams, cancelled, closed, cache, total,
                  jars, stats, contacted, frames, netNow>>
  BY DEF networkVars
<1>2. NetShape'
  BY <1>1 DEF NetIInv, NetShape
<1>3. NetSlots' /\ NetStats'
  BY <1>1 DEF NetIInv, NetSlots, NetStats, Slots, Ended
<1>4. NetStores'
  BY <1>1 DEF NetIInv, NetStores, IsOver
<1>5. NetPolicy'
  BY <1>1 DEF NetIInv, NetPolicy, ContactsPermitted
<1>6. NetStreams'
  BY <1>1 DEF NetIInv, NetStreams, StreamsOrderly, Is, Opened
<1> QED
  BY <1>2, <1>3, <1>4, <1>5, <1>6 DEF NetIInv

(* The network plugin keeps to the policy, counts each slot and each request *)
(* once, charges the cache what it holds, and ends every stream once: for    *)
(* any requests, callers, hosts, policy and bounds.                          *)
THEOREM NetworkSafe == NetworkSpec => []NetworkInv
<1>1. NetworkInit => NetIInv
  BY NetStarts
<1>2. NetIInv /\ [NetworkNext]_networkVars => NetIInv'
  BY NetSteps, NetStays
<1>3. NetIInv => NetworkInv
  BY NetHolds
<1> QED
  BY <1>1, <1>2, <1>3, PTL DEF NetworkSpec
=============================================================================
