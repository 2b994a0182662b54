------------------------------ MODULE MCVoice ------------------------------
(* Small instances of Voice. *)
EXTENDS Voice

Bounds(mode, n, timeoutsMax, chunks, keysMax) ==
    [mode |-> mode, maxTurns |-> n, maxTimeouts |-> timeoutsMax, maxChunks |-> chunks,
     maxKeys |-> keysMax]

\* Three turns on the same stream when all is answered in time; late requests of one
\* turn in the next one; and the two modes that wait for events.
MCInstances == {Bounds("window", 3, 0, 0, 0), Bounds("window", 2, 1, 1, 0),
                Bounds("window", 2, 2, 0, 0), Bounds("vad", 2, 0, 1, 0),
                Bounds("ptt", 2, 0, 0, 4), Bounds("ptt", 2, 1, 0, 2)}
=============================================================================
