----------------------------- MODULE MCDatabase -----------------------------
(* Database for TLC: the requests callers send, one or two of each kind. *)
EXTENDS Database, TLC

CONSTANTS k1, k2

MCRequests ==
    {[op |-> "get", key |-> k1], [op |-> "delete", key |-> k1], [op |-> "keys"],
     [op |-> "set", key |-> k1, value |-> Num(0), ttl |-> 1],
     [op |-> "incr", key |-> k1, delta |-> -1], [op |-> "append", key |-> k1],
     [op |-> "patch", key |-> k1, path |-> "root", value |-> List(1)],
     [op |-> "batch", keys |-> <<k1, k2>>],
     [op |-> "query", key |-> k2, sql |-> "insert", value |-> Junk]}

TaskSymmetry == Permutations(Tasks)
=============================================================================
