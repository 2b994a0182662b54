---------------------------- MODULE MCScheduler ----------------------------
(* Small instances of Scheduler. *)
EXTENDS Scheduler

CONSTANTS s1, s2

Once(id, t, f) == [id |-> id, enabled |-> TRUE, fire |-> f,
                   trigger |-> [type |-> "once", at |-> t]]
After(id, d, f) == [id |-> id, enabled |-> TRUE, fire |-> f,
                    trigger |-> [type |-> "delay", delay |-> d]]
Cron(id, p, f) == [id |-> id, enabled |-> TRUE, fire |-> f,
                   trigger |-> [type |-> "cron", period |-> p]]

\* Event fires under a client id, and under an id drawn from the counter that may
\* be the same.
EventRequests == {Once(1, 1, "event"), Once(Generate, 2, "event")}

\* One-shots and crons, events and actions, over two ids, and a disabled one.
MixedRequests == {After(1, 0, "action"), Once(2, 2, "event"),
                  Cron(1, 1, "event"), Cron(2, 2, "action"),
                  [Once(1, 1, "event") EXCEPT !.enabled = FALSE]}

\* Overlapping scans, and calls of the database that fail.
Overlapping == [requests |-> EventRequests, scans |-> {s1, s2}, serial |-> FALSE,
                dbMayFail |-> TRUE, maxSets |-> 2, maxTime |-> 2, maxFires |-> 2,
                maxCrashes |-> 1]

\* One scan at a time.
Serial == [requests |-> MixedRequests, scans |-> {s1}, serial |-> TRUE,
           dbMayFail |-> FALSE, maxSets |-> 2, maxTime |-> 3, maxFires |-> 5,
           maxCrashes |-> 1]

MCInstances == {Overlapping, Serial}
=============================================================================
