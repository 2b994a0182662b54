---------------------------- MODULE MCDocuments ----------------------------
(* Small instances of Documents, one per plugin.                             *)
EXTENDS Documents, TLC

CONSTANTS h1, h2, s1, p1, p2, u1

New(d) == [op |-> "create", new |-> d]
Upd(p) == [op |-> "update", patch |-> p]

Plain == [handlers |-> {h1, h2}, scanners |-> {}, calendars |-> {}, maxRequests |-> 4,
          maxTime |-> 2, maxFails |-> 1, maxCrashes |-> 1, maxFiles |-> 1, maxImport |-> 2]

Notes == [kind |-> "notes", requests |->
    {New([title |-> TRUE, body |-> FALSE]), New([title |-> FALSE, body |-> FALSE]),
     Upd([title |-> FALSE]), Upd([body |-> TRUE]), Upd([title |-> TRUE, body |-> FALSE])}]
    @@ Plain

Contacts == [kind |-> "contacts", requests |->
    {New([name |-> TRUE, email |-> FALSE]), New([name |-> FALSE, email |-> TRUE]),
     Upd([name |-> FALSE]), Upd([email |-> TRUE])}]
    @@ Plain

TheTasks == [kind |-> "tasks", requests |->
    {New([title |-> TRUE]), Upd([title |-> FALSE]), Upd([done |-> TRUE])}
    \cup {[op |-> "done", patch |-> [done |-> b]] : b \in BOOLEAN}]
    @@ Plain

Event(s, e, r) == [start |-> s, end |-> e, remind |-> r]

\* Requests against the reminder scan.
Reminders == [kind |-> "calendar", requests |->
    {New(Event(1, 1, 0)), New(Event(2, 1, None)), Upd([start |-> 2]), Upd([remind |-> -1])},
    scanners |-> {s1}, maxRequests |-> 3]
    @@ Plain

Occurrence(u, s, e, r) == [uid |-> u, retitled |-> FALSE] @@ Event(s, e, r)

\* Imports of a single and of a recurring event, against updates and deletes.
Imports == [kind |-> "calendar", requests |-> {Upd([start |-> 1])},
    calendars |-> {<<Occurrence(u1, 2, 2, None)>>,
                   <<Occurrence(u1, 1, None, 0), Occurrence(u1, 2, None, 0)>>,
                   <<[Occurrence(None, 1, None, None) EXCEPT !.retitled = TRUE],
                     [Occurrence(u1, 2, None, 0) EXCEPT !.retitled = TRUE]>>},
    scanners |-> {s1}, maxRequests |-> 4, maxCrashes |-> 0]
    @@ Plain

Libraries == [kind |-> "library", requests |-> {}, maxRequests |-> 3] @@ Plain

MCInstances == {Notes, Contacts, TheTasks, Reminders, Imports, Libraries}
=============================================================================
