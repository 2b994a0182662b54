------------------------------- MODULE KvData -------------------------------
(* The data of the database plugin: JSON values, rows, requests and answers. *)
EXTENDS Integers, Sequences

CONSTANTS
    Callers, Keys, Tasks,
    Requests,      \* the requests callers may send
    NoRow,         \* no row, or no value
    Never,         \* expires_at is null, ttl_ms is absent
    Half,          \* a counter is one of -Half .. Half - 1; 2^63 for an i64
    MaxLen,        \* the longest list that fits max_value_bytes
    MaxTime        \* bound on the clock

\* A stored value is an integer, a list (of which only the length matters) or
\* text that is no JSON, which only db_query can store.
Num(n) == [type |-> "int", n |-> n]
List(n) == [type |-> "list", n |-> n]
Junk == [type |-> "junk", n |-> 0]

Values == {Num(n) : n \in -Half .. Half - 1} \cup {List(n) : n \in 0 .. MaxLen} \cup {Junk}
AnyRow == [value : Values, exp : Nat \cup {Never}]

\* What parse_request lets through; JSON values are never junk.
AnyRequest ==
    [op : {"get", "delete", "append"}, key : Keys]
      \cup [op : {"keys"}]
      \cup [op : {"set"}, key : Keys, value : Values \ {Junk}, ttl : Int \cup {Never}]
      \cup [op : {"incr"}, key : Keys, delta : -Half .. Half - 1]
      \cup [op : {"patch"}, key : Keys, path : {"root", "below", "bad"}, value : Values \ {Junk}]
      \cup [op : {"batch"}, keys : Seq(Keys) \ {<<>>}]
      \cup [op : {"query"}, key : Keys, sql : {"select", "insert", "delete", "attach"}, value : Values]

ASSUME KvAssumption ==
    /\ Half \in Nat \ {0} /\ MaxLen \in Nat /\ MaxTime \in Nat
    /\ Never \notin Nat
    /\ NoRow \notin AnyRow
    /\ \A r \in Requests : r \in AnyRequest

Row(v, e) == [value |-> v, exp |-> e]
ValueOf(row) == IF row = NoRow THEN NoRow ELSE row.value
Has(row, type) == row # NoRow /\ row.value.type = type

\* i64 arithmetic.
Wrap(n) == ((n + Half) % (2 * Half)) - Half

\* db_set stamps the end of the row's life; a ttl that is not positive is none.
Until(ttl, now) == IF ttl = Never \/ ttl <= 0 THEN Never ELSE now + ttl

\* A row that ends at now is already dead.
Alive(row, now) == row # NoRow /\ (row.exp # Never => row.exp > now)

\* An answer, and whether a change event follows it.
Reply(v, event) == [ok |-> TRUE, val |-> v, event |-> event]
Error == [ok |-> FALSE, val |-> NoRow, event |-> FALSE]

Idle == [pc |-> "idle"]
=============================================================================
