------------------------------- MODULE KvSpec -------------------------------
(***************************************************************************)
(* What the database plugin promises its callers: every caller has a store *)
(* of its own, and each request takes effect at one instant between its    *)
(* arrival and its answer, or is refused and changes nothing.  A change    *)
(* event follows the answer of every request that changed something.       *)
(*                                                                         *)
(* A row whose time has come is gone.  If it goes while a request for its  *)
(* key is being handled, the request may be answered as if it had come in  *)
(* time, or as if it had found nothing, and what it wrote goes with the    *)
(* row.  db_batch_get reads its keys one by one, and db_query may be       *)
(* refused for the size of its result after it has taken effect.           *)
(***************************************************************************)
EXTENDS KvData, Sequences

VARIABLES
    clock,     \* unix time
    store,     \* caller -> key -> live row
    open       \* task -> the request it handles

vars == <<clock, store, open>>

Init ==
    /\ clock = 0
    /\ store = [c \in Callers |-> [k \in Keys |-> NoRow]]
    /\ open = [t \in Tasks |-> Idle]

Call(t) ==
    /\ open[t] = Idle
    /\ open'[t].pc = "called"
    /\ \E c \in Callers, r \in Requests :
          open' = [open EXCEPT ![t] = [pc |-> "called", c |-> c, req |-> r, lapsed |-> {}, got |-> <<>>]]
    /\ UNCHANGED <<clock, store>>

Request(t, op) == open[t].pc = "called" /\ open[t].req.op = op

Current(t) == store[open[t].c][open[t].req.key]

Lapsed(t) == {e.row : e \in {f \in open[t].lapsed : f.key = open[t].req.key}}

Answer(t, reply) ==
    open' = [open EXCEPT ![t] = [pc |-> "done", c |-> open[t].c, req |-> open[t].req, reply |-> reply]]

Put(t, row) == store' = [store EXCEPT ![open[t].c][open[t].req.key] = row]

\* The request sees row and makes it new: at once, or too late.
Settle(t, row, new, reply) ==
    /\ \/ row = Current(t) /\ Put(t, new)
       \/ /\ Current(t) = NoRow /\ Lapsed(t) # {}
          /\ row \in Lapsed(t) \cup {NoRow}
          /\ store' = store
    /\ Answer(t, reply)
    /\ clock' = clock

\* A counter, list or document keeps the time its row had.
Rewrite(t, row, v, val) ==
    Settle(t, row, Row(v, IF row = NoRow THEN Never ELSE row.exp), Reply(val, TRUE))

Get(t, row) ==
    /\ Request(t, "get") /\ row = Current(t) /\ ~Has(row, "junk")
    /\ Settle(t, row, row, Reply(ValueOf(row), FALSE))

Set(t, row) ==
    /\ Request(t, "set")
    /\ Settle(t, row, Row(open[t].req.value, Until(open[t].req.ttl, clock)), Reply(NoRow, TRUE))

Delete(t, row) ==
    /\ Request(t, "delete")
    /\ Settle(t, row, NoRow, Reply(row # NoRow, row # NoRow))

Incr(t, row) ==
    LET v == Num(IF row = NoRow THEN open[t].req.delta ELSE Wrap(row.value.n + open[t].req.delta)) IN
    /\ Request(t, "incr") /\ (row = NoRow \/ Has(row, "int"))
    /\ Rewrite(t, row, v, v)

AppendTo(t, row) ==
    LET v == List(IF row = NoRow THEN 1 ELSE row.value.n + 1) IN
    /\ Request(t, "append") /\ (row = NoRow \/ Has(row, "list"))
    /\ v.n <= MaxLen
    /\ Rewrite(t, row, v, v)

Patch(t, row) ==
    LET v == IF open[t].req.path = "root" THEN open[t].req.value ELSE row.value IN
    /\ Request(t, "patch") /\ row # NoRow /\ ~Has(row, "junk")
    /\ open[t].req.path # "bad"
    /\ Rewrite(t, row, v, v)

\* All live keys, and perhaps some that lapsed on the way.
ListKeys(t) ==
    LET live == {k \in Keys : store[open[t].c][k] # NoRow} IN
    /\ Request(t, "keys")
    /\ \E K \in SUBSET {e.key : e \in open[t].lapsed} : Answer(t, Reply(live \cup K, FALSE))
    /\ UNCHANGED <<clock, store>>

\* The next key of a batch; after the last one, the answer.
BatchGet(t) ==
    LET i == Len(open[t].got) + 1
        row == store[open[t].c][open[t].req.keys[i]]
        got == [j \in 1 .. i |-> IF j < i THEN open[t].got[j] ELSE ValueOf(row)]
    IN
    /\ Request(t, "batch") /\ ~Has(row, "junk")
    /\ IF i < Len(open[t].req.keys)
         THEN open' = [open EXCEPT ![t].got = got]
         ELSE Answer(t, Reply(got, FALSE))
    /\ UNCHANGED <<clock, store>>

\* Raw SQL: it reads, writes or deletes a row, and its answer may not fit.
Query(t) ==
    /\ Request(t, "query") /\ open[t].req.sql # "attach"
    /\ \E reply \in {Reply(NoRow, FALSE), Error} : Answer(t, reply)
    /\ CASE open[t].req.sql = "insert" -> Put(t, Row(open[t].req.value, Never))
         [] open[t].req.sql = "delete" -> Put(t, NoRow)
         [] OTHER -> store' = store
    /\ clock' = clock

Refuse(t) ==
    /\ open[t].pc = "called"
    /\ Answer(t, Error)
    /\ UNCHANGED <<clock, store>>

\* The answer, then the event.
Return(t) ==
    /\ open[t].pc = "done"
    /\ open' = [open EXCEPT ![t] = IF open[t].reply.event
                                     THEN [pc |-> "event", c |-> open[t].c, req |-> open[t].req] ELSE Idle]
    /\ UNCHANGED <<clock, store>>

Notify(t) ==
    /\ open[t].pc = "event"
    /\ open' = [open EXCEPT ![t] = Idle]
    /\ UNCHANGED <<clock, store>>

\* Time passes; rows that end now are gone.
Tick ==
    LET gone(c) == {k \in Keys : store[c][k] # NoRow /\ ~Alive(store[c][k], clock + 1)} IN
    /\ clock' = clock + 1
    /\ store' = [c \in Callers |-> [k \in Keys |-> IF k \in gone(c) THEN NoRow ELSE store[c][k]]]
    /\ open' = [t \in Tasks |->
          IF open[t].pc # "called" THEN open[t]
          ELSE [open[t] EXCEPT !.lapsed = @ \cup {[key |-> k, row |-> store[open[t].c][k]] : k \in gone(open[t].c)}]]

\* A restart forgets the requests and keeps the stores.
Restart ==
    /\ open' = [t \in Tasks |-> Idle]
    /\ UNCHANGED <<clock, store>>

OnRow(t) ==
    /\ open[t].pc = "called" /\ open[t].req.op \in {"get", "set", "delete", "incr", "append", "patch"}
    /\ \E row \in {NoRow, Current(t)} \cup Lapsed(t) :
          \/ Get(t, row) \/ Set(t, row) \/ Delete(t, row)
          \/ Incr(t, row) \/ AppendTo(t, row) \/ Patch(t, row)

Next ==
    \/ \E t \in Tasks :
          \/ Call(t) \/ OnRow(t) \/ ListKeys(t) \/ BatchGet(t) \/ Query(t)
          \/ Refuse(t) \/ Return(t) \/ Notify(t)
    \/ Tick \/ Restart

Spec == Init /\ [][Next]_vars
=============================================================================
