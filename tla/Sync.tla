-------------------------------- MODULE Sync --------------------------------
(***************************************************************************)
(* The sync plugin, the host's versioned key-value store, and sync-client, *)
(* a device's mirror of it.                                                *)
(*                                                                         *)
(* The host handles every request in a task of its own.  A mutation bumps  *)
(* the version in the transaction that changes the state, and the task     *)
(* then publishes the delta; nothing orders the publications of two tasks. *)
(* The client subscribes, pulls a snapshot, and from then on applies every *)
(* delta above the version it has reached.  Frames that arrive while it    *)
(* waits for the snapshot are dropped by the SDK, and the kernel delivers  *)
(* them again, because they were not acknowledged.                         *)
(*                                                                         *)
(* A key is a number, so that "order by key" means something.              *)
(***************************************************************************)
EXTENDS Integers, Sequences, FiniteSets

CONSTANTS
    Keys,           \* keys of the store, numbers
    Beats,          \* the keys "heartbeat.<device>"
    OwnBeat,        \* the client's own heartbeat key
    Values,         \* what sync_set writes
    Absent,         \* no row
    Tasks,          \* the host's handler tasks
    Ttl,            \* heartbeat_ttl_secs; 0 disables pruning
    MaxTime,        \* bound on the clock
    MaxVersion,     \* bound on the mutations
    MaxConnects,    \* bound on the client's connections
    MaxFaults,      \* bound on host restarts and on pulls that time out or are refused
    SerialHost      \* TRUE: one host task at a time, publications included

\* A row of table state; a missing one is none.
Rows == [value : Values, at : Nat]

ASSUME SyncAssumption ==
    /\ Keys \subseteq Nat /\ IsFiniteSet(Keys)
    /\ Beats \subseteq Keys /\ OwnBeat \in Beats
    /\ Absent \notin Values \cup Rows
    /\ {Ttl, MaxTime, MaxVersion, MaxConnects, MaxFaults} \subseteq Nat
    /\ SerialHost \in BOOLEAN

VARIABLES
    clock,     \* unix time, in the unit of the TTL
    state,     \* table state: key -> row
    version,   \* meta.version
    task,      \* what the host's tasks do
    client,    \* the connection of the client
    mirror,    \* its mirror
    feed,      \* frames on their way to the client, in order
    unacked,   \* deltas the SDK dropped, which the kernel keeps for redelivery
    faults,    \* history: the number of restarts and failed pulls
    hist,      \* history: the contents of the store at every version
    applied    \* history: the versions that reached the mirror

host == <<clock, state, version, task, faults, hist>>
device == <<client, mirror, feed, unacked, applied>>
vars == <<host, device>>

Contents == [Keys -> Values \cup {Absent}]

Deltas == [kind : {"delta"}, op : {"set", "del"}, key : Keys,
           value : Values \cup {Absent}, version : Nat]
Snapshots == [kind : {"snapshot"}, pull : Nat, version : Nat, state : Contents]
Refusals == [kind : {"refused"}, pull : Nat]

Idle == [pc |-> "idle"]
ContentsOf(s) == [k \in Keys |-> IF s[k] = Absent THEN Absent ELSE s[k].value]
Empty == [k \in Keys |-> Absent]

\* One more restart, timeout or refusal.
Fault == faults < MaxFaults /\ faults' = faults + 1

(***************************************************************************)
(* The host's transactions.                                                *)
(***************************************************************************)
\* Rows a prune deletes, in the order of their keys.
Stale == {k \in Beats : Ttl > 0 /\ state[k] # Absent /\ state[k].at + Ttl < clock}

Rank(S, k) == Cardinality({j \in S : j <= k})

Without(S) == [k \in Keys |-> IF k \in S THEN Absent ELSE state[k]]

\* One version and one delta per pruned row.
PruneDeltas(S) ==
    {[kind |-> "delta", op |-> "del", key |-> k, value |-> Absent,
      version |-> version + Rank(S, k)] : k \in S}

\* The store's contents at the versions a transaction goes through: first the
\* pruned rows, one by one, then, if it mutates, the mutation.
Extend(S, n) ==
    [v \in 0 .. n |->
        IF v <= version THEN hist[v]
        ELSE IF v <= version + Cardinality(S)
             THEN ContentsOf(Without({k \in S : Rank(S, k) <= v - version}))
             ELSE ContentsOf(state')]

MayStart(t) ==
    /\ task[t] = Idle
    /\ SerialHost => \A u \in Tasks : task[u] = Idle

\* A request reaches its task; a mutation stamps the time before it asks for
\* the transaction.
Accept(t, req) ==
    /\ MayStart(t)
    /\ task' = [task EXCEPT ![t] = req]
    /\ UNCHANGED <<clock, state, version, faults, hist>>

SetBegin(t, k, v) ==
    /\ version < MaxVersion
    /\ Accept(t, [pc |-> "set", key |-> k, value |-> v, now |-> clock])
    /\ UNCHANGED device

DelBegin(t, k) ==
    /\ version < MaxVersion
    /\ Accept(t, [pc |-> "del", key |-> k])
    /\ UNCHANGED device

Publish(t, out) ==
    task' = [task EXCEPT ![t] = IF out = {} THEN Idle ELSE [pc |-> "publish", out |-> out]]

\* handle_set: prune, upsert and bump commit together.
SetCommit(t) ==
    LET r == task[t]
        S == Stale
        n == version + Cardinality(S) + 1
    IN
    /\ r.pc = "set"
    /\ state' = [Without(S) EXCEPT ![r.key] = [value |-> r.value, at |-> r.now]]
    /\ version' = n
    /\ hist' = Extend(S, n)
    /\ Publish(t, PruneDeltas(S) \cup {[kind |-> "delta", op |-> "set", key |-> r.key,
                                        value |-> r.value, version |-> n]})
    /\ UNCHANGED <<clock, faults, device>>

\* handle_del: deleting nothing is no mutation.
DelCommit(t) ==
    LET r == task[t] IN
    /\ r.pc = "del"
    /\ IF state[r.key] # Absent
         THEN /\ state' = Without({r.key})
              /\ version' = version + 1
              /\ hist' = Extend({}, version + 1)
              /\ Publish(t, {[kind |-> "delta", op |-> "del", key |-> r.key, value |-> Absent,
                              version |-> version + 1]})
         ELSE /\ Publish(t, {})
              /\ UNCHANGED <<state, version, hist>>
    /\ UNCHANGED <<clock, faults, device>>

\* A value over its cap, the disk quota, or a transaction another one got ahead
\* of: the request fails and nothing changes.
Refuse(t) ==
    /\ task[t].pc \in {"set", "del"}
    /\ task' = [task EXCEPT ![t] = Idle]
    /\ UNCHANGED <<clock, state, version, faults, hist, device>>

\* handle_snapshot prunes as well; the reply goes out before the deltas.
SnapshotRead(t) ==
    LET S == Stale
        n == version + Cardinality(S)
    IN
    /\ task[t].pc = "snapshot"
    /\ state' = Without(S)
    /\ version' = n
    /\ hist' = Extend(S, n)
    /\ task' = [task EXCEPT ![t] =
          [pc |-> "reply", out |-> PruneDeltas(S),
           reply |-> [kind |-> "snapshot", pull |-> task[t].pull, version |-> n,
                      state |-> ContentsOf(state')]]]
    /\ UNCHANGED <<clock, faults, device>>

\* The snapshot exceeds max_response_bytes: the prune is committed all the same,
\* and its deltas are dropped with the result.
SnapshotTooLarge(t) ==
    LET S == Stale
        n == version + Cardinality(S)
    IN
    /\ Fault
    /\ task[t].pc = "snapshot"
    /\ state' = Without(S)
    /\ version' = n
    /\ hist' = Extend(S, n)
    /\ task' = [task EXCEPT ![t] =
          [pc |-> "reply", out |-> {}, reply |-> [kind |-> "refused", pull |-> task[t].pull]]]
    /\ UNCHANGED <<clock, device>>

\* The snapshot's transaction fails: nothing is pruned.
SnapshotFails(t) ==
    /\ Fault
    /\ task[t].pc = "snapshot"
    /\ task' = [task EXCEPT ![t] =
          [pc |-> "reply", out |-> {}, reply |-> [kind |-> "refused", pull |-> task[t].pull]]]
    /\ UNCHANGED <<clock, state, version, hist, device>>

(***************************************************************************)
(* Frames to the client: the kernel keeps the order per connection.        *)
(***************************************************************************)
Emit(f) == feed' = IF client.pc = "down" THEN feed ELSE Append(feed, f)

\* The task's envelopes follow one by one; other tasks' may come in between.
SendReply(t) ==
    /\ task[t].pc = "reply"
    /\ Emit(task[t].reply)
    /\ Publish(t, task[t].out)
    /\ UNCHANGED <<clock, state, version, faults, hist, client, mirror, unacked, applied>>

SendDelta(t) ==
    /\ task[t].pc = "publish"
    /\ \E d \in task[t].out :
          /\ \A e \in task[t].out : d.version <= e.version
          /\ Emit(d)
          /\ Publish(t, task[t].out \ {d})
    /\ UNCHANGED <<clock, state, version, faults, hist, client, mirror, unacked, applied>>

(***************************************************************************)
(* The client.                                                             *)
(***************************************************************************)
\* Mutant of Connect: only the first connection pulls.
ConnectPullsOnce ==
    /\ client.pc = "down"
    /\ client.pull < MaxConnects
    /\ client' = [pc |-> IF client.pull = 0 THEN "pulling" ELSE "live",
                  pull |-> client.pull + 1, asked |-> FALSE]
    /\ UNCHANGED <<host, mirror, feed, unacked, applied>>

\* serve_cycle: register, subscribe, ask for the snapshot.
Connect ==
    /\ client.pc = "down"
    /\ client.pull < MaxConnects
    /\ client' = [pc |-> "pulling", pull |-> client.pull + 1, asked |-> FALSE]
    /\ UNCHANGED <<host, mirror, feed, unacked, applied>>

\* The request reaches the host.
PullBegin(t) ==
    /\ client.pc = "pulling" /\ ~client.asked
    /\ Accept(t, [pc |-> "snapshot", pull |-> client.pull])
    /\ client' = [client EXCEPT !.asked = TRUE]
    /\ UNCHANGED <<mirror, feed, unacked, applied>>

Received ==
    /\ feed # <<>>
    /\ feed' = Tail(feed)

\* Mutant of Seed: the version is taken over, the state is merged.
SeedMerge ==
    LET f == Head(feed) IN
    /\ client.pc = "pulling"
    /\ Received
    /\ f.kind = "snapshot" /\ f.pull = client.pull
    /\ mirror' = [version |-> f.version,
                  state |-> [k \in Keys |-> IF f.state[k] = Absent THEN mirror.state[k] ELSE f.state[k]]]
    /\ applied' = 1 .. f.version
    /\ client' = [client EXCEPT !.pc = "live"]
    /\ UNCHANGED <<host, unacked>>

\* on_init: the snapshot replaces the whole mirror.
Seed ==
    LET f == Head(feed) IN
    /\ client.pc = "pulling"
    /\ Received
    /\ f.kind = "snapshot" /\ f.pull = client.pull
    /\ mirror' = [version |-> f.version, state |-> f.state]
    /\ applied' = 1 .. f.version
    /\ client' = [client EXCEPT !.pc = "live"]
    /\ UNCHANGED <<host, unacked>>

\* While send_action waits, every other frame is dropped.
Drop ==
    LET f == Head(feed) IN
    /\ client.pc = "pulling"
    /\ Received
    /\ f.kind # "delta" => f.pull # client.pull
    /\ unacked' = IF f.kind = "delta" THEN unacked \cup {f} ELSE unacked
    /\ UNCHANGED <<host, client, mirror, applied>>

\* The pull is refused, or its time is up: the stale mirror is kept.
PullFails ==
    /\ client.pc = "pulling"
    /\ \/ /\ Received
          /\ Head(feed).kind = "refused" /\ Head(feed).pull = client.pull
          /\ UNCHANGED faults
       \/ Fault /\ UNCHANGED feed
    /\ client' = [client EXCEPT !.pc = "live"]
    /\ UNCHANGED <<clock, state, version, task, hist, mirror, unacked, applied>>

\* Mutant of Covered: every delta is applied.
CoveredNever(d) == FALSE

\* Mutant of Covered: off by one.
CoveredAndNext(d) == d.version <= mirror.version + 1

\* A delta at or below the mirror's version is already there.
Covered(d) == d.version <= mirror.version

\* on_event.
ApplyDelta ==
    LET d == Head(feed) IN
    /\ client.pc = "live"
    /\ Received
    /\ d.kind = "delta" /\ ~Covered(d)
    /\ mirror' = [version |-> d.version,
                  state |-> [mirror.state EXCEPT ![d.key] = IF d.op = "set" THEN d.value ELSE Absent]]
    /\ applied' = applied \cup {d.version}
    /\ UNCHANGED <<host, client, unacked>>

\* Covered deltas and late replies are acknowledged and forgotten.
SkipFrame ==
    LET f == Head(feed) IN
    /\ client.pc = "live"
    /\ Received
    /\ f.kind = "delta" => Covered(f)
    /\ UNCHANGED <<host, client, mirror, unacked, applied>>

\* The kernel delivers a dropped event again.
Redeliver ==
    /\ client.pc # "down"
    /\ \E d \in unacked :
          /\ feed' = Append(feed, d)
          /\ unacked' = unacked \ {d}
    /\ UNCHANGED <<host, client, mirror, applied>>

\* The heartbeat task's sync_set, while the loop runs.
Heartbeat(t, v) ==
    /\ client.pc = "live"
    /\ SetBegin(t, OwnBeat, v)

Disconnect ==
    /\ client.pc # "down"
    /\ client.pull < MaxConnects
    /\ client' = [client EXCEPT !.pc = "down"]
    /\ feed' = <<>>
    /\ unacked' = {}
    /\ UNCHANGED <<host, mirror, applied>>

(***************************************************************************)
(* The environment.                                                        *)
(***************************************************************************)
Tick ==
    /\ clock < MaxTime
    /\ clock' = clock + 1
    /\ UNCHANGED <<state, version, task, faults, hist, device>>

\* The host restarts: what its tasks had not yet published is lost; the file is
\* opened again, and the version goes on where it was.
HostRestart ==
    /\ Fault
    /\ task' = [t \in Tasks |-> Idle]
    /\ UNCHANGED <<clock, state, version, hist, device>>

Init ==
    /\ clock = 0
    /\ state = Empty
    /\ version = 0
    /\ task = [t \in Tasks |-> Idle]
    /\ client = [pc |-> "down", pull |-> 0, asked |-> FALSE]
    /\ mirror = [version |-> 0, state |-> Empty]
    /\ feed = <<>>
    /\ unacked = {}
    /\ faults = 0
    /\ hist = [v \in 0 .. 0 |-> Empty]
    /\ applied = {}

HostStep(t) ==
    \/ SetCommit(t) \/ DelCommit(t) \/ Refuse(t)
    \/ SnapshotRead(t) \/ SnapshotTooLarge(t) \/ SnapshotFails(t)
    \/ SendReply(t) \/ SendDelta(t)

ClientStep == Seed \/ Drop \/ PullFails \/ ApplyDelta \/ SkipFrame \/ Redeliver

Next ==
    \/ \E t \in Tasks : HostStep(t) \/ PullBegin(t)
    \/ \E t \in Tasks, k \in Keys : DelBegin(t, k)
    \/ \E t \in Tasks, k \in Keys \ {OwnBeat}, v \in Values : SetBegin(t, k, v)
    \/ \E t \in Tasks, v \in Values : Heartbeat(t, v)
    \/ ClientStep \/ Connect \/ Disconnect
    \/ Tick \/ HostRestart

Spec == Init /\ [][Next]_vars

(***************************************************************************)
(* Properties.                                                             *)
(***************************************************************************)
\* A task of the host is idle, has a request, or has envelopes to send.
TaskOK(r) ==
    \/ r = Idle
    \/ r \in [pc : {"set"}, key : Keys, value : Values, now : Nat]
    \/ r \in [pc : {"del"}, key : Keys]
    \/ r \in [pc : {"snapshot"}, pull : Nat]
    \/ /\ r.pc \in {"reply", "publish"}
       /\ r.out \subseteq Deltas
       /\ r.pc = "reply" => r.reply \in Snapshots \cup Refusals
       /\ r.pc = "publish" => r.out # {}

TypeOK ==
    /\ clock \in 0 .. MaxTime
    /\ state \in [Keys -> Rows \cup {Absent}]
    /\ version \in Nat
    /\ hist \in [0 .. version -> Contents]
    /\ \A t \in Tasks : TaskOK(task[t])
    /\ client \in [pc : {"down", "pulling", "live"}, pull : Nat, asked : BOOLEAN]
    /\ mirror \in [version : Nat, state : Contents]
    /\ feed \in Seq(Deltas \cup Snapshots \cup Refusals)
    /\ unacked \subseteq Deltas
    /\ faults \in 0 .. MaxFaults
    /\ applied \subseteq Nat

\* The mirror of a client that missed nothing is the store as it was at the
\* mirror's version, although deltas of concurrent writers, redelivered ones and
\* those a snapshot already covers arrive in any order (on_init, on_event).
MirrorIsExact ==
    applied = 1 .. mirror.version => mirror.state = hist[mirror.version]

\* Host, client and what is under way between them are well formed, and a mirror
\* that missed nothing is exact (on_init, on_event, publish).
SyncInv == TypeOK /\ MirrorIsExact

\* Whatever is lost, delayed or delivered twice, and however the client
\* reconnects, its mirror never goes back to an earlier version: a late snapshot
\* or a redelivered delta cannot undo a newer one.
MirrorMovesForward == [][mirror'.version >= mirror.version]_vars

\* With one request handled at a time and no failing pull, a device sees a
\* consistent prefix of the store's history (README of sync, Heartbeat TTL):
\* nothing up to its version is missing.
SeesPrefix == mirror.version <= version /\ applied = 1 .. mirror.version

\* "Reconnect re-pulls the snapshot so an offline device catches up": every
\* mutation reaches the mirror in the end, through a delta or a snapshot.
CatchesUp ==
    \A n \in 1 .. MaxVersion : version >= n ~> mirror.version >= n
=============================================================================
