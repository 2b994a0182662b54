----------------------------- MODULE Sync_proofs -----------------------------
(***************************************************************************)
(* For every set of keys, values and host tasks, every TTL and every       *)
(* bound: the mirror of a device that missed nothing is the host's store   *)
(* as it was at the mirror's version, and it never goes back.  As long as  *)
(* requests do not overlap, and nothing fails, it misses nothing.          *)
(*                                                                         *)
(* And, in the second half, the chats: for every set of sessions and turns *)
(* and every bound, no vector of a deleted session is forgotten, and what  *)
(* the plugin keeps, shows and hands to its clients stays right.           *)
(***************************************************************************)
EXTENDS MCSync, SequenceTheorems, FiniteSetTheorems, WellFoundedInduction,
        TLAPS

Elems(s) == {s[i] : i \in DOMAIN s}

\* What a task of the host has still to send.
Outgoing(t) ==
    CASE task[t].pc = "reply" -> task[t].out \cup {task[t].reply}
      [] task[t].pc = "publish" -> task[t].out
      [] OTHER -> {}

Unsent == UNION {Outgoing(t) : t \in Tasks}

\* Every frame that may still reach the client.
InTransit == Elems(feed) \cup unacked \cup Unsent

\* Contents c after k is written.
Update(c, k, v) == [c EXCEPT ![k] = v]

\* A delta tells how its version of the store came out of the one before.
TrueDelta(d) ==
    /\ d.version \in 1 .. version
    /\ hist[d.version] =
          Update(hist[d.version - 1], d.key, IF d.op = "set" THEN d.value ELSE Absent)

\* A snapshot is the store at its version, and not older than the mirror of the
\* client that waits for it.
TrueSnapshot(s) ==
    /\ s.version \in 0 .. version
    /\ s.state = hist[s.version]
    /\ s.pull <= client.pull
    /\ client.pc = "pulling" /\ s.pull = client.pull => mirror.version <= s.version

TrueFrame(f) ==
    /\ f.kind = "delta" => TrueDelta(f)
    /\ f.kind = "snapshot" => TrueSnapshot(f)

FramesAreTrue == \A f \in InTransit : TrueFrame(f)

\* The tasks are Tasks, and no pull is of a connection to come.
TasksAreKnown ==
    /\ task = [t \in Tasks |-> task[t]]
    /\ \A t \in Tasks : task[t].pc = "snapshot" => task[t].pull <= client.pull

HistoryIsKept == hist[version] = ContentsOf(state)

MirrorFollows ==
    /\ mirror.version <= version
    /\ applied \subseteq 1 .. mirror.version

MirrorInv ==
    /\ SyncInv
    /\ FramesAreTrue
    /\ TasksAreKnown
    /\ HistoryIsKept
    /\ MirrorFollows

-----------------------------------------------------------------------------
(* Ranks, contents, and what a transaction adds to the history.             *)

(* The keys of a finite set are ranked from 1, each lower than the next.     *)
LEMMA RankIsOrder ==
    ASSUME NEW S \in SUBSET Nat, IsFiniteSet(S), NEW k \in S
    PROVE  /\ Cardinality(S) \in Nat
           /\ Rank(S, k) \in 1 .. Cardinality(S)
           /\ \A j \in S : j < k => Rank(S, j) < Rank(S, k)
<1> DEFINE Upto(j) == {i \in S : i <= j}
<1>1. Cardinality(S) \in Nat
  BY FS_CardinalityType
<1>2. \A j \in S : IsFiniteSet(Upto(j)) /\ Cardinality(Upto(j)) <= Cardinality(S)
  BY FS_Subset
<1>3. \A j \in S : Rank(S, j) \in Nat /\ Rank(S, j) <= Cardinality(S)
  BY <1>2, FS_CardinalityType DEF Rank
<1>4. Rank(S, k) # 0
  <2>1. k \in Upto(k)
    OBVIOUS
  <2> QED
    BY <2>1, <1>2, FS_EmptySet DEF Rank
<1>5. ASSUME NEW j \in S, j < k PROVE Rank(S, j) < Rank(S, k)
  <2>1. \A i \in Nat : i <= j => i <= k
    BY <1>5
  <2>2. ~(k <= j) /\ k <= k
    BY <1>5
  <2>3. Upto(j) \subseteq Upto(k) /\ k \in Upto(k) /\ k \notin Upto(j)
    BY <2>1, <2>2
  <2>4. Upto(j) # Upto(k)
    BY <2>3
  <2>5. Cardinality(Upto(j)) <= Cardinality(Upto(k)) /\ Cardinality(Upto(j)) # Cardinality(Upto(k))
    BY <1>2, <2>3, <2>4, FS_Subset
  <2> QED
    BY <1>3, <2>5 DEF Rank
<1> QED
  BY <1>1, <1>3, <1>4, <1>5

(* Ranks are distinct, and every row a prune deletes has its own version.    *)
LEMMA PrunedRows ==
    ASSUME TypeOK, NEW S \in SUBSET Keys
    PROVE  /\ IsFiniteSet(S) /\ Cardinality(S) \in Nat
           /\ \A k \in S : Rank(S, k) \in 1 .. Cardinality(S)
           /\ \A j, k \in S : Rank(S, j) <= Rank(S, k) <=> j <= k
<1>1. IsFiniteSet(S) /\ S \subseteq Nat
  BY SyncAssumption, FS_Subset
<1>2. Cardinality(S) \in Nat
  BY <1>1, FS_CardinalityType
<1>3. \A k \in S : Rank(S, k) \in 1 .. Cardinality(S)
  BY <1>1, RankIsOrder
<1>4. \A j, k \in S : j < k => Rank(S, j) < Rank(S, k)
  BY <1>1, RankIsOrder
<1>5. \A j, k \in S : Rank(S, j) <= Rank(S, k) <=> j <= k
  <2> SUFFICES ASSUME NEW j \in S, NEW k \in S PROVE Rank(S, j) <= Rank(S, k) <=> j <= k
    OBVIOUS
  <2>1. j \in Nat /\ k \in Nat /\ Rank(S, j) \in Nat /\ Rank(S, k) \in Nat
    BY <1>1, <1>3, <1>2
  <2> QED
    BY <1>4, <2>1
<1> QED
  BY <1>1, <1>2, <1>3, <1>5

(* The contents of the store are contents.                                   *)
LEMMA ContentsType ==
    ASSUME NEW s \in [Keys -> Rows \cup {Absent}]
    PROVE  ContentsOf(s) \in Contents
BY DEF ContentsOf, Contents, Rows

(* Deleting rows from a store is deleting them from its contents.            *)
LEMMA ContentsWithout ==
    ASSUME TypeOK, NEW S \in SUBSET Keys
    PROVE  /\ Without(S) \in [Keys -> Rows \cup {Absent}]
           /\ ContentsOf(Without(S)) =
                 [k \in Keys |-> IF k \in S THEN Absent ELSE ContentsOf(state)[k]]
BY DEF ContentsOf, Without, TypeOK

\* What the transaction of a task does to the store: it prunes S, and n is the
\* version of its last change.
Transaction(S, n) ==
    /\ state' \in [Keys -> Rows \cup {Absent}]
    /\ version' = n
    /\ hist' = Extend(S, n)
    /\ \/ n = version + Cardinality(S) /\ state' = Without(S)
       \/ n = version + Cardinality(S) + 1

(* The history goes on where it was: the pruned rows disappear one by one,   *)
(* and the last version is the store.                                        *)
LEMMA HistoryGrows ==
    ASSUME TypeOK, HistoryIsKept, NEW S \in SUBSET Keys, NEW n, Transaction(S, n)
    PROVE  /\ n \in Nat /\ version + Cardinality(S) <= n
           /\ hist' \in [0 .. n -> Contents]
           /\ \A v \in 0 .. version : hist'[v] = hist[v]
           /\ HistoryIsKept'
           /\ hist'[version + Cardinality(S)] = ContentsOf(Without(S))
           /\ \A k \in S, v \in 1 .. n :
                 v = version + Rank(S, k) =>
                     hist'[v] = Update(hist'[v - 1], k, Absent)
<1> DEFINE c == Cardinality(S)
           Upto(i) == {k \in S : Rank(S, k) <= i}
<1>1. /\ c \in Nat /\ version \in Nat
      /\ \A k \in S : Rank(S, k) \in 1 .. c
      /\ \A j, k \in S : Rank(S, j) <= Rank(S, k) <=> j <= k
  BY PrunedRows DEF TypeOK
<1>2. n \in Nat /\ version + c <= n /\ n <= version + c + 1
  BY <1>1 DEF Transaction
<1>3. \A T \in SUBSET Keys : ContentsOf(Without(T)) \in Contents
  BY ContentsWithout, ContentsType
<1>4. ContentsOf(state') \in Contents
  BY ContentsType DEF Transaction
<1>5. hist' = [v \in 0 .. n |->
                 IF v <= version THEN hist[v]
                 ELSE IF v <= version + c THEN ContentsOf(Without(Upto(v - version)))
                 ELSE ContentsOf(state')]
  BY DEF Transaction, Extend
<1>6. hist' \in [0 .. n -> Contents]
  <2> SUFFICES ASSUME NEW v \in 0 .. n PROVE hist'[v] \in Contents
    BY <1>5
  <2>1. v <= version => hist[v] \in Contents
    BY <1>1 DEF TypeOK
  <2>2. ContentsOf(Without(Upto(v - version))) \in Contents
    BY <1>3
  <2> QED
    BY <1>4, <1>5, <2>1, <2>2
<1>7. \A v \in 0 .. version : hist'[v] = hist[v]
  BY <1>1, <1>2, <1>5
<1>8. \A i \in 0 .. c : hist'[version + i] = ContentsOf(Without(Upto(i)))
  <2> SUFFICES ASSUME NEW i \in 0 .. c
               PROVE  hist'[version + i] = ContentsOf(Without(Upto(i)))
    OBVIOUS
  <2>1. version + i \in 0 .. n /\ version + i - version = i
    BY <1>1, <1>2
  <2>2. CASE i = 0
    <3>1. Upto(0) = {}
      BY <1>1
    <3>2. ContentsOf(Without({})) = ContentsOf(state)
      <4>1. ContentsOf(Without({})) = [k \in Keys |-> ContentsOf(state)[k]]
        BY ContentsWithout
      <4> QED
        BY <4>1 DEF ContentsOf
    <3> HIDE DEF Upto
    <3>3. hist'[version] = hist[version]
      BY <1>7, <1>1
    <3>4. hist[version] = ContentsOf(state)
      BY DEF HistoryIsKept
    <3>5. version + i = version
      BY <2>2, <1>1
    <3> QED
      BY <2>2, <3>1, <3>2, <3>3, <3>4, <3>5
  <2>3. CASE i # 0
    <3> HIDE DEF Upto
    <3>1. ~(version + i <= version) /\ version + i <= version + c
      BY <2>3, <1>1
    <3>2. PICK w \in 0 .. n : w = version + i
      BY <2>1
    <3>3. hist'[w] = ContentsOf(Without(Upto(w - version)))
      BY <1>5, <3>1, <3>2
    <3>4. w - version = i
      BY <1>1, <3>2
    <3> QED
      BY <3>2, <3>3, <3>4
  <2> QED
    BY <2>2, <2>3
<1>9. hist'[version + c] = ContentsOf(Without(S))
  <2>1. Upto(c) = S
    BY <1>1
  <2> QED
    BY <1>1, <1>8, <2>1
<1>10. HistoryIsKept'
  <2>1. CASE n = version + c /\ state' = Without(S)
    <3>1. hist'[version'] = ContentsOf(Without(S)) /\ state' = Without(S)
      BY <1>9, <2>1 DEF Transaction
    <3>2. ContentsOf(state)' = ContentsOf(state')
      BY DEF ContentsOf
    <3> QED
      BY <3>1, <3>2 DEF HistoryIsKept
  <2>2. CASE n = version + c + 1
    <3>1. n \in 0 .. n /\ ~(n <= version) /\ ~(n <= version + c)
      BY <1>1, <2>2
    <3>2. hist'[n] = ContentsOf(state')
      BY <1>5, <3>1
    <3> QED
      BY <3>2 DEF Transaction, HistoryIsKept, ContentsOf
  <2> QED
    BY <2>1, <2>2 DEF Transaction
<1>11. ASSUME NEW k \in S, NEW v \in 1 .. n, v = version + Rank(S, k)
       PROVE  hist'[v] = Update(hist'[v - 1], k, Absent)
  <2> DEFINE r == Rank(S, k)
  <2>1. r \in 1 .. c /\ r - 1 \in 0 .. c
    BY <1>1
  <2>2. Upto(r) = Upto(r - 1) \cup {k}
    <3>1. ASSUME NEW j \in S PROVE Rank(S, j) <= r <=> Rank(S, j) <= r - 1 \/ j = k
      <4>1. Rank(S, j) \in Nat /\ r \in Nat /\ j \in Nat /\ k \in Nat
        <5>1. S \subseteq Nat
          BY SyncAssumption
        <5>2. Rank(S, j) \in 1 .. c /\ r \in 1 .. c
          BY <1>1, <2>1
        <5> QED
          BY <1>1, <5>1, <5>2
      <4>2. (Rank(S, j) <= r <=> j <= k) /\ (r <= Rank(S, j) <=> k <= j)
        BY <1>1
      <4> HIDE DEF r
      <4>3. Rank(S, j) <= r - 1 <=> Rank(S, j) <= r /\ ~(r <= Rank(S, j))
        BY <4>1
      <4>4. j = k => r <= Rank(S, j) /\ Rank(S, j) <= r
        BY <4>1, <4>2
      <4>5. Rank(S, j) <= r /\ r <= Rank(S, j) => j = k
        BY <4>1, <4>2
      <4> QED
        BY <4>3, <4>4, <4>5
    <3> QED
      BY <3>1, <2>1, <1>1
  <2>4. v = version + r /\ v - 1 = version + (r - 1)
    BY <1>1, <1>11, <2>1
  <2>3. /\ hist'[v] = ContentsOf(Without(Upto(r)))
        /\ hist'[v - 1] = ContentsOf(Without(Upto(r - 1)))
    BY <1>8, <2>1, <2>4
  <2>5. /\ Upto(r) \in SUBSET Keys /\ Upto(r - 1) \in SUBSET Keys
    OBVIOUS
  <2> HIDE DEF r, Upto
  <2>6. ContentsOf(Without(Upto(r))) = Update(ContentsOf(Without(Upto(r - 1))), k, Absent)
    <3>1. \A T \in SUBSET Keys : ContentsOf(Without(T)) =
             [j \in Keys |-> IF j \in T THEN Absent ELSE ContentsOf(state)[j]]
      BY ContentsWithout
    <3> QED
      BY <2>2, <2>5, <3>1 DEF Update
  <2> QED
    BY <2>3, <2>6
<1> QED
  BY <1>2, <1>6, <1>7, <1>9, <1>10, <1>11

-----------------------------------------------------------------------------
(* Frames, tasks and what a step changes of them.                           *)

Frames == Deltas \cup Snapshots \cup Refusals

(* A frame that is sent is the only new one of the feed.                     *)
LEMMA AppendElems ==
    ASSUME NEW S, NEW s \in Seq(S), NEW e \in S
    PROVE  Append(s, e) \in Seq(S) /\ Elems(Append(s, e)) \subseteq Elems(s) \cup {e}
<1>1. Append(s, e) \in Seq(S) /\ Len(Append(s, e)) = Len(s) + 1
  BY AppendProperties
<1>2. DOMAIN s = 1 .. Len(s) /\ Len(s) \in Nat /\ DOMAIN Append(s, e) = 1 .. (Len(s) + 1)
  BY <1>1, LenProperties
<1>3. (\A i \in 1 .. Len(s) : Append(s, e)[i] = s[i]) /\ Append(s, e)[Len(s) + 1] = e
  BY AppendProperties
<1> QED
  BY <1>1, <1>2, <1>3 DEF Elems

(* The frame the client takes is one of the feed, and the others stay.       *)
LEMMA TailElems ==
    ASSUME NEW S, NEW s \in Seq(S), s # <<>>
    PROVE  /\ Head(s) \in S /\ Head(s) \in Elems(s)
           /\ Tail(s) \in Seq(S) /\ Elems(Tail(s)) \subseteq Elems(s)
<1>1. /\ DOMAIN s = 1 .. Len(s) /\ Len(s) \in Nat \ {0}
      /\ Tail(s) \in Seq(S) /\ DOMAIN Tail(s) = 1 .. (Len(s) - 1)
  BY LenProperties, HeadTailProperties, EmptySeq
<1>2. \A i \in 1 .. (Len(s) - 1) : Tail(s)[i] = s[i + 1]
  BY <1>1, HeadTailProperties
<1>3. Head(s) = s[1] /\ 1 \in DOMAIN s
  BY <1>1
<1>4. ASSUME NEW x \in Elems(Tail(s)) PROVE x \in Elems(s)
  <2>1. PICK i \in 1 .. (Len(s) - 1) : x = Tail(s)[i]
    BY <1>1 DEF Elems
  <2>2. i + 1 \in DOMAIN s /\ x = s[i + 1]
    BY <1>1, <1>2, <2>1
  <2> QED
    BY <2>2 DEF Elems
<1> QED
  BY <1>1, <1>3, <1>4 DEF Elems

(* What a task does is its own affair.                                       *)
LEMMA OneTask ==
    ASSUME TypeOK, TasksAreKnown, NEW t \in Tasks, NEW x, task' = [task EXCEPT ![t] = x],
           TaskOK(x), x.pc = "snapshot" => x.pull <= client'.pull,
           client.pull <= client'.pull, client'.pull \in Nat
    PROVE  /\ \A u \in Tasks : TaskOK(task'[u])
           /\ TasksAreKnown'
           /\ task'[t] = x
           /\ Unsent' \subseteq Unsent \cup Outgoing(t)'
<1>1. task'[t] = x /\ \A u \in Tasks : u # t => task'[u] = task[u]
  BY DEF TasksAreKnown
<1>2. task' = [u \in Tasks |-> task'[u]]
  BY DEF TasksAreKnown
<1>3. \A u \in Tasks : TaskOK(task'[u])
  BY <1>1 DEF TypeOK
<1>4. ASSUME NEW u \in Tasks, task'[u].pc = "snapshot" PROVE task'[u].pull <= client'.pull
  <2>1. CASE u = t
    BY <1>1, <1>4, <2>1
  <2>2. CASE u # t
    <3>1. task[u].pull <= client.pull /\ task[u].pc = "snapshot" /\ task'[u].pull = task[u].pull
      BY <1>1, <1>4, <2>2 DEF TasksAreKnown
    <3>2. task[u].pull \in Nat
      BY <3>1 DEF TypeOK, TaskOK, Idle
    <3> QED
      BY <3>1, <3>2 DEF TypeOK
  <2> QED
    BY <2>1, <2>2
<1>5. \A u \in Tasks : u # t => Outgoing(u)' = Outgoing(u)
  BY <1>1 DEF Outgoing
<1>6. Unsent' \subseteq Unsent \cup Outgoing(t)'
  BY <1>5 DEF Unsent
<1> QED
  BY <1>1, <1>2, <1>3, <1>4, <1>6 DEF TasksAreKnown

(* A frame stays true while the history grows and the client's pull goes on. *)
LEMMA FramesStayTrue ==
    ASSUME TypeOK, TypeOK', FramesAreTrue, NEW N,
           InTransit' \subseteq InTransit \cup N,
           \A f \in N : TrueFrame(f)',
           version <= version',
           \A v \in 0 .. version : hist'[v] = hist[v],
           client.pull <= client'.pull,
           client'.pc = "pulling" =>
               \/ client'.pull > client.pull
               \/ client.pc = "pulling" /\ mirror'.version = mirror.version,
           \A f \in InTransit : f.kind = "snapshot" => f.pull \in Nat
    PROVE  FramesAreTrue'
<1> SUFFICES ASSUME NEW f \in InTransit PROVE TrueFrame(f)'
  BY DEF FramesAreTrue
<1>1. version \in Nat /\ version' \in Nat
  BY DEF TypeOK
<1>2. client.pull \in Nat /\ client'.pull \in Nat
  BY DEF TypeOK
<1>3. ASSUME f.kind = "delta" PROVE TrueDelta(f)'
  <2>1. TrueDelta(f)
    BY <1>3 DEF FramesAreTrue, TrueFrame
  <2>2. f.version \in 0 .. version /\ f.version - 1 \in 0 .. version /\ f.version \in 1 .. version'
    BY <1>1, <2>1 DEF TrueDelta
  <2> QED
    BY <2>1, <2>2 DEF TrueDelta
<1>4. ASSUME f.kind = "snapshot" PROVE TrueSnapshot(f)'
  <2>1. TrueSnapshot(f) /\ f.pull \in Nat
    BY <1>4 DEF FramesAreTrue, TrueFrame
  <2>2. f.version \in 0 .. version /\ f.version \in 0 .. version' /\ f.pull <= client'.pull
    BY <1>1, <1>2, <2>1 DEF TrueSnapshot
  <2>3. f.pull = client'.pull => ~(client'.pull > client.pull)
    BY <1>2, <2>1 DEF TrueSnapshot
  <2>4. ~(client'.pull > client.pull) => client'.pull = client.pull
    BY <1>2
  <2> QED
    BY <2>1, <2>2, <2>3, <2>4 DEF TrueSnapshot
<1> QED
  BY <1>3, <1>4 DEF TrueFrame

(* Whatever is on its way is a frame.                                        *)
LEMMA InTransitType ==
    ASSUME TypeOK
    PROVE  InTransit \subseteq Frames
<1>1. Elems(feed) \subseteq Frames
  BY LenProperties DEF TypeOK, Elems, Frames
<1>2. \A t \in Tasks : Outgoing(t) \subseteq Frames
  BY DEF TypeOK, TaskOK, Outgoing, Frames, Idle
<1> QED
  BY <1>1, <1>2 DEF InTransit, Unsent, TypeOK, Frames

(* The three kinds of frame differ.                                          *)
LEMMA FrameKinds ==
    ASSUME NEW f \in Frames
    PROVE  /\ f.kind = "delta" => f \in Deltas
           /\ f.kind = "snapshot" => f \in Snapshots
           /\ f.kind \in {"delta", "snapshot", "refused"}
BY DEF Frames, Deltas, Snapshots, Refusals

-----------------------------------------------------------------------------
(* Steps of the host.                                                       *)

(* A task of the host may change the store and its own envelopes: what has   *)
(* been true stays true when what it adds is true.                           *)
LEMMA HostAct ==
    ASSUME MirrorInv, NEW t \in Tasks, NEW x, TaskOK(x), task' = [task EXCEPT ![t] = x],
           x.pc = "snapshot" => x.pull <= client.pull,
           \A f \in Outgoing(t)' : f \in InTransit \/ TrueFrame(f)',
           client' = client \/ client' = [client EXCEPT !.asked = TRUE],
           feed' \in Seq(Frames), \A f \in Elems(feed)' : f \in InTransit,
           UNCHANGED <<clock, unacked, mirror, applied>>,
           faults' \in 0 .. MaxFaults,
           state' \in [Keys -> Rows \cup {Absent}],
           version' \in Nat, version <= version',
           hist' \in [0 .. version' -> Contents],
           \A v \in 0 .. version : hist'[v] = hist[v],
           HistoryIsKept'
    PROVE  MirrorInv'
<1> USE DEF MirrorInv, SyncInv
<1>1. /\ client'.pull = client.pull /\ client'.pc = client.pc
      /\ client' \in [pc : {"down", "pulling", "live"}, pull : Nat, asked : BOOLEAN]
  BY DEF TypeOK
<1>2. client.pull \in Nat
  BY DEF TypeOK
<1>3. /\ \A u \in Tasks : TaskOK(task'[u])
      /\ TasksAreKnown'
      /\ Unsent' \subseteq Unsent \cup Outgoing(t)'
  <2>1. (x.pc = "snapshot" => x.pull <= client'.pull) /\ client.pull <= client'.pull
    BY <1>1, <1>2
  <2> QED
    BY <1>1, <1>2, <2>1, OneTask
<1>4. TypeOK'
  BY <1>1, <1>3 DEF TypeOK, Frames
<1>5. FramesAreTrue'
  <2> DEFINE N == {f \in Outgoing(t)' : f \notin InTransit}
  <2>1. InTransit' \subseteq InTransit \cup N
    BY <1>3 DEF InTransit
  <2>2. \A f \in N : TrueFrame(f)'
    OBVIOUS
  <2>3. \A f \in InTransit : f.kind = "snapshot" => f.pull \in Nat
    BY InTransitType, FrameKinds DEF Snapshots
  <2>4. client.pull <= client'.pull
    BY <1>1, <1>2
  <2> HIDE DEF N
  <2> QED
    BY <1>1, <1>4, <2>1, <2>2, <2>3, <2>4, FramesStayTrue
<1>6. MirrorFollows'
  BY DEF MirrorFollows, TypeOK
<1>7. MirrorIsExact'
  <2>1. mirror.version \in 0 .. version
    BY DEF MirrorFollows, TypeOK
  <2> QED
    BY <2>1 DEF MirrorIsExact
<1> QED
  BY <1>3, <1>4, <1>5, <1>6, <1>7

(* The deltas of a prune are true of the history it makes.                   *)
LEMMA PruneDeltasAreTrue ==
    ASSUME TypeOK, HistoryIsKept, NEW S \in SUBSET Keys, NEW n, Transaction(S, n)
    PROVE  /\ PruneDeltas(S) \subseteq Deltas
           /\ \A d \in PruneDeltas(S) : d.kind = "delta" /\ TrueFrame(d)'
<1> SUFFICES ASSUME NEW d \in PruneDeltas(S)
             PROVE  d \in Deltas /\ d.kind = "delta" /\ TrueFrame(d)'
  OBVIOUS
<1>0. PICK k \in S : d = [kind |-> "delta", op |-> "del", key |-> k, value |-> Absent,
                          version |-> version + Rank(S, k)]
  BY DEF PruneDeltas
<1>1. version \in Nat /\ Cardinality(S) \in Nat /\ Rank(S, k) \in 1 .. Cardinality(S)
  BY PrunedRows DEF TypeOK
<1>2. n \in Nat /\ version + Cardinality(S) <= n
  BY HistoryGrows
<1>3. version + Rank(S, k) \in 1 .. n
  BY <1>1, <1>2
<1>4. PICK v \in 1 .. n : v = version + Rank(S, k)
  BY <1>3
<1>5. d \in Deltas
  BY <1>0, <1>3 DEF Deltas
<1>6. TrueDelta(d)'
  <2>1. d.version = version + Rank(S, k) /\ d.key = k /\ d.op = "del"
    BY <1>0
  <2>2. version' = n
    BY DEF Transaction
  <2>3. d.version \in 1 .. version'
    BY <1>3, <2>1, <2>2
  <2>4. hist'[d.version] = Update(hist'[d.version - 1], d.key, Absent)
    <3>1. hist'[v] = Update(hist'[v - 1], k, Absent)
      BY <1>4, HistoryGrows
    <3>2. d.version = v /\ d.key = k
      BY <2>1, <1>4
    <3> QED
      BY <3>1, <3>2
  <2> QED
    BY <2>1, <2>3, <2>4 DEF TrueDelta
<1> QED
  BY <1>0, <1>5, <1>6 DEF TrueFrame

(* A committed set: the pruned rows, then the row that is written.           *)
LEMMA SetCommitKeeps ==
    ASSUME MirrorInv, NEW t \in Tasks, SetCommit(t)
    PROVE  MirrorInv'
<1> USE DEF MirrorInv, SyncInv
<1> DEFINE S == Stale
           n == version + Cardinality(S) + 1
           r == task[t]
<1>1. S \in SUBSET Keys
  BY SyncAssumption DEF Stale
<1>2. r \in [pc : {"set"}, key : Keys, value : Values, now : Nat]
  BY DEF SetCommit, TypeOK, TaskOK, Idle
<1>3. version \in Nat /\ Cardinality(S) \in Nat
  BY <1>1, PrunedRows DEF TypeOK
<1>4. /\ state' = [Without(S) EXCEPT ![r.key] = [value |-> r.value, at |-> r.now]]
      /\ version' = n /\ hist' = Extend(S, n)
      /\ UNCHANGED <<clock, faults, client, mirror, feed, unacked, applied>>
  BY DEF SetCommit, device
<1> HIDE DEF S
<1>6. /\ Without(S) \in [Keys -> Rows \cup {Absent}]
      /\ state' \in [Keys -> Rows \cup {Absent}]
  <2>1. Without(S) \in [Keys -> Rows \cup {Absent}]
    BY <1>1, ContentsWithout
  <2>2. [value |-> r.value, at |-> r.now] \in Rows
    BY <1>2 DEF Rows
  <2> QED
    BY <1>4, <2>1, <2>2
<1>7. Transaction(S, n)
  BY <1>4, <1>6 DEF Transaction
<1>0. r.key \in Keys /\ r.value \in Values /\ n \in Nat
  BY <1>2, <1>3
<1> HIDE DEF r, n
<1>5. PICK d \in Deltas : d = [kind |-> "delta", op |-> "set", key |-> r.key,
                               value |-> r.value, version |-> n]
  BY <1>0 DEF Deltas
<1>8. /\ n \in Nat /\ hist' \in [0 .. n -> Contents]
      /\ \A v \in 0 .. version : hist'[v] = hist[v]
      /\ HistoryIsKept'
      /\ hist'[version + Cardinality(S)] = ContentsOf(Without(S))
  BY <1>1, <1>7, HistoryGrows
<1>9. TrueFrame(d)'
  <2>1. ContentsOf(state') = Update(ContentsOf(Without(S)), r.key, r.value)
    <3>1. [value |-> r.value, at |-> r.now] # Absent
      BY <1>2, SyncAssumption DEF Rows
    <3> QED
      BY <1>4, <1>6, <3>1 DEF ContentsOf, Update
  <2>2. hist'[n] = ContentsOf(state')
    BY <1>4, <1>8 DEF HistoryIsKept, ContentsOf
  <2>3. n - 1 = version + Cardinality(S) /\ n \in 1 .. n
    BY <1>3 DEF n
  <2>4. hist'[n] = Update(hist'[n - 1], r.key, r.value)
    BY <1>8, <2>1, <2>2, <2>3
  <2>5. TrueDelta(d)'
    BY <1>4, <1>5, <2>3, <2>4 DEF TrueDelta
  <2> QED
    BY <1>5, <2>5 DEF TrueFrame
<1>10. PruneDeltas(S) \subseteq Deltas /\ \A e \in PruneDeltas(S) : TrueFrame(e)'
  BY <1>1, <1>7, PruneDeltasAreTrue
<1> DEFINE x == [pc |-> "publish", out |-> PruneDeltas(S) \cup {d}]
<1>11. TaskOK(x) /\ x.pc # "snapshot" /\ task' = [task EXCEPT ![t] = x]
  <2>1. Publish(t, PruneDeltas(S) \cup {d})
    BY <1>5 DEF SetCommit, S, n, r
  <2> QED
    BY <1>10, <2>1 DEF TaskOK, Publish
<1>12. Outgoing(t)' = x.out
  <2>1. task'[t] = x
    BY <1>11 DEF TasksAreKnown
  <2> QED
    BY <2>1 DEF Outgoing
<1>13. \A f \in Outgoing(t)' : TrueFrame(f)'
  BY <1>9, <1>10, <1>12
<1>14. feed' \in Seq(Frames) /\ \A f \in Elems(feed)' : f \in InTransit
  BY <1>4 DEF TypeOK, Frames, InTransit, Elems
<1>15. version <= version' /\ version' \in Nat /\ faults' \in 0 .. MaxFaults /\ version' = n
  BY <1>3, <1>4 DEF TypeOK, n
<1> HIDE DEF x, MirrorInv, SyncInv
<1> QED
  BY <1>4, <1>6, <1>8, <1>11, <1>13, <1>14, <1>15, HostAct

(* A committed delete of a row that is there.                                *)
LEMMA DelCommitKeeps ==
    ASSUME MirrorInv, NEW t \in Tasks, DelCommit(t), state[task[t].key] # Absent
    PROVE  MirrorInv'
<1> USE DEF MirrorInv, SyncInv
<1> DEFINE k == task[t].key
           n == version + 1
<1>1. k \in Keys /\ version \in Nat /\ n \in Nat /\ {} \in SUBSET Keys
  BY DEF DelCommit, TypeOK, TaskOK, Idle
<1>2. Cardinality({}) = 0
  BY FS_EmptySet
<1>3. /\ state' = Without({k}) /\ version' = n /\ hist' = Extend({}, n)
      /\ UNCHANGED <<clock, faults, client, mirror, feed, unacked, applied>>
  BY DEF DelCommit, device
<1>4. /\ state' \in [Keys -> Rows \cup {Absent}]
      /\ ContentsOf(state') = Update(ContentsOf(state), k, Absent)
  <2>1. /\ Without({k}) \in [Keys -> Rows \cup {Absent}]
        /\ ContentsOf(Without({k})) =
              [j \in Keys |-> IF j \in {k} THEN Absent ELSE ContentsOf(state)[j]]
    BY <1>1, ContentsWithout
  <2>2. ContentsOf(state) \in Contents
    BY ContentsType DEF TypeOK
  <2> QED
    BY <1>3, <2>1, <2>2 DEF Update, Contents
<1>5. Transaction({}, n)
  BY <1>1, <1>2, <1>3, <1>4 DEF Transaction
<1>6. /\ hist' \in [0 .. n -> Contents]
      /\ \A v \in 0 .. version : hist'[v] = hist[v]
      /\ HistoryIsKept'
  BY <1>1, <1>5, HistoryGrows
<1>7. PICK d \in Deltas : d = [kind |-> "delta", op |-> "del", key |-> k, value |-> Absent,
                               version |-> n]
  BY <1>1 DEF Deltas
<1>8. TrueFrame(d)'
  <2>1. n - 1 = version /\ n \in 1 .. version' /\ version \in 0 .. version
    BY <1>1, <1>3
  <2>2. hist'[version] = ContentsOf(state)
    BY <1>6, <2>1 DEF HistoryIsKept
  <2>3. hist'[n] = ContentsOf(state')
    BY <1>3, <1>6 DEF HistoryIsKept, ContentsOf
  <2> HIDE DEF n, k
  <2>4. hist'[n] = Update(hist'[n - 1], k, Absent)
    BY <1>4, <2>1, <2>2, <2>3
  <2>5. TrueDelta(d)'
    BY <1>7, <2>1, <2>4 DEF TrueDelta
  <2> QED
    BY <1>7, <2>5 DEF TrueFrame
<1> DEFINE x == [pc |-> "publish", out |-> {d}]
<1>9. TaskOK(x) /\ x.pc # "snapshot" /\ task' = [task EXCEPT ![t] = x]
  <2>1. Publish(t, {d})
    BY <1>7 DEF DelCommit
  <2> QED
    BY <2>1 DEF TaskOK, Publish
<1>10. \A f \in Outgoing(t)' : TrueFrame(f)'
  <2>1. task'[t] = x
    BY <1>9 DEF TasksAreKnown
  <2>2. Outgoing(t)' = {d}
    BY <2>1 DEF Outgoing
  <2> QED
    BY <1>8, <2>2
<1>11. feed' \in Seq(Frames) /\ \A f \in Elems(feed)' : f \in InTransit
  BY <1>3 DEF TypeOK, Frames, InTransit, Elems
<1>12. version <= version' /\ version' \in Nat /\ faults' \in 0 .. MaxFaults /\ version' = n
  BY <1>1, <1>3 DEF TypeOK
<1> HIDE DEF x, n, k, MirrorInv, SyncInv
<1> QED
  BY <1>3, <1>4, <1>6, <1>9, <1>10, <1>11, <1>12, HostAct

(* A snapshot, sent or too large to be sent: the prune is committed.         *)
LEMMA SnapshotKeeps ==
    ASSUME MirrorInv, NEW t \in Tasks, SnapshotRead(t) \/ SnapshotTooLarge(t)
    PROVE  MirrorInv'
<1> USE DEF MirrorInv, SyncInv
<1> DEFINE S == Stale
           n == version + Cardinality(S)
           pl == task[t].pull
<1>1. S \in SUBSET Keys
  BY SyncAssumption DEF Stale
<1>2. pl \in Nat /\ pl <= client.pull
  BY DEF SnapshotRead, SnapshotTooLarge, TypeOK, TaskOK, Idle, TasksAreKnown
<1>3. version \in Nat /\ Cardinality(S) \in Nat /\ n \in Nat
  BY <1>1, PrunedRows DEF TypeOK
<1>4. /\ state' = Without(S) /\ version' = n /\ hist' = Extend(S, n)
      /\ UNCHANGED <<clock, client, mirror, feed, unacked, applied>>
  BY DEF SnapshotRead, SnapshotTooLarge, device
<1> HIDE DEF S
<1>5. state' \in [Keys -> Rows \cup {Absent}]
  BY <1>1, <1>4, ContentsWithout
<1>6. Transaction(S, n)
  BY <1>4, <1>5 DEF Transaction
<1>7. faults' \in 0 .. MaxFaults
  BY SyncAssumption DEF SnapshotRead, SnapshotTooLarge, Fault, TypeOK
<1> HIDE DEF n, pl
<1>8. /\ hist' \in [0 .. n -> Contents]
      /\ \A v \in 0 .. version : hist'[v] = hist[v]
      /\ HistoryIsKept'
  BY <1>1, <1>6, HistoryGrows
<1>9. PruneDeltas(S) \subseteq Deltas /\ \A e \in PruneDeltas(S) : TrueFrame(e)'
  BY <1>1, <1>6, PruneDeltasAreTrue
<1>10. PICK x : /\ task' = [task EXCEPT ![t] = x]
                /\ x.pc = "reply" /\ x.out \subseteq PruneDeltas(S)
                /\ \/ x.reply = [kind |-> "snapshot", pull |-> pl, version |-> n,
                                 state |-> ContentsOf(state')]
                   \/ x.reply = [kind |-> "refused", pull |-> pl]
  <2>1. CASE SnapshotRead(t)
    <3> DEFINE x == [pc |-> "reply", out |-> PruneDeltas(S),
                     reply |-> [kind |-> "snapshot", pull |-> pl, version |-> n,
                                state |-> ContentsOf(state')]]
    <3>1. task' = [task EXCEPT ![t] = x]
      BY <2>1 DEF SnapshotRead, S, n, pl
    <3>2. x.pc = "reply" /\ x.out = PruneDeltas(S)
      OBVIOUS
    <3>3. x.reply = [kind |-> "snapshot", pull |-> pl, version |-> n, state |-> ContentsOf(state')]
      OBVIOUS
    <3> HIDE DEF x
    <3> QED
      BY <3>1, <3>2, <3>3
  <2>2. CASE SnapshotTooLarge(t)
    <3> DEFINE x == [pc |-> "reply", out |-> {}, reply |-> [kind |-> "refused", pull |-> pl]]
    <3>1. task' = [task EXCEPT ![t] = x]
      BY <2>2 DEF SnapshotTooLarge, pl
    <3>2. x.pc = "reply" /\ x.out = {} /\ x.reply = [kind |-> "refused", pull |-> pl]
      OBVIOUS
    <3> HIDE DEF x
    <3> QED
      BY <3>1, <3>2
  <2> QED
    BY <2>1, <2>2
<1>11. x.reply \in Snapshots \cup Refusals /\ TrueFrame(x.reply)'
  <2>1. CASE x.reply = [kind |-> "refused", pull |-> pl]
    <3>1. PICK f \in Refusals : f = x.reply
      BY <1>2, <2>1 DEF Refusals
    <3>2. f.kind = "refused"
      BY <3>1 DEF Refusals
    <3>3. TrueFrame(f)'
      BY <3>2 DEF TrueFrame
    <3> QED
      BY <3>1, <3>3
  <2>2. CASE x.reply = [kind |-> "snapshot", pull |-> pl, version |-> n,
                        state |-> ContentsOf(state')]
    <3>1. ContentsOf(state') \in Contents /\ n \in Nat
      BY <1>3, <1>5, ContentsType DEF n
    <3>2. PICK f \in Snapshots : f = x.reply
      BY <1>2, <2>2, <3>1 DEF Snapshots
    <3>3. f.kind = "snapshot" /\ f.pull = pl /\ f.version = n /\ f.state = ContentsOf(state')
      BY <2>2, <3>2
    <3>4. hist'[n] = ContentsOf(state')
      BY <1>4, <1>8 DEF HistoryIsKept, ContentsOf
    <3>5. mirror.version <= n /\ n \in 0 .. n
      BY <1>3, <3>1 DEF n, MirrorFollows, TypeOK
    <3>6. TrueSnapshot(f)'
      BY <1>2, <1>4, <3>3, <3>4, <3>5 DEF TrueSnapshot
    <3> QED
      BY <3>2, <3>3, <3>6 DEF TrueFrame
  <2> QED
    BY <1>10, <2>1, <2>2
<1>12. TaskOK(x) /\ x.pc # "snapshot"
  BY <1>9, <1>10, <1>11 DEF TaskOK
<1>13. \A f \in Outgoing(t)' : TrueFrame(f)'
  <2>1. task'[t] = x
    BY <1>10 DEF TasksAreKnown
  <2>2. Outgoing(t)' = x.out \cup {x.reply}
    BY <1>10, <2>1 DEF Outgoing
  <2> QED
    BY <1>9, <1>10, <1>11, <2>2
<1>14. feed' \in Seq(Frames) /\ \A f \in Elems(feed)' : f \in InTransit
  BY <1>4 DEF TypeOK, Frames, InTransit, Elems
<1>15. version <= version' /\ version' \in Nat /\ version' = n
  BY <1>3, <1>4 DEF n
<1> HIDE DEF MirrorInv, SyncInv
<1> QED
  BY <1>4, <1>5, <1>7, <1>8, <1>10, <1>12, <1>13, <1>14, <1>15, HostAct

(* A task that leaves the store alone: it takes or refuses a request, or     *)
(* sends what is true already.                                               *)
LEMMA TaskAct ==
    ASSUME MirrorInv, NEW t \in Tasks, NEW x, TaskOK(x), task' = [task EXCEPT ![t] = x],
           x.pc = "snapshot" => x.pull <= client.pull,
           \A f \in Outgoing(t)' : f \in InTransit \/ f.kind = "refused",
           client' = client \/ client' = [client EXCEPT !.asked = TRUE],
           feed' \in Seq(Frames), \A f \in Elems(feed)' : f \in InTransit,
           UNCHANGED <<clock, state, version, hist, unacked, mirror, applied>>,
           faults' \in 0 .. MaxFaults
    PROVE  MirrorInv'
<1>1. \A f \in Outgoing(t)' : f \in InTransit \/ TrueFrame(f)'
  BY DEF TrueFrame
<1>2. /\ version \in Nat /\ version <= version'
      /\ state' \in [Keys -> Rows \cup {Absent}] /\ hist' \in [0 .. version' -> Contents]
      /\ \A v \in 0 .. version : hist'[v] = hist[v]
      /\ HistoryIsKept'
  BY DEF MirrorInv, SyncInv, TypeOK, HistoryIsKept, ContentsOf
<1> QED
  BY <1>1, <1>2, HostAct

(* A task takes a request, or drops it: nothing is under way because of it.  *)
LEMMA RequestKeeps ==
    ASSUME MirrorInv, NEW t \in Tasks, NEW x, TaskOK(x), task' = [task EXCEPT ![t] = x],
           x.pc \in {"idle", "set", "del", "snapshot"},
           x.pc = "snapshot" => x.pull <= client.pull,
           client' = client \/ client' = [client EXCEPT !.asked = TRUE],
           UNCHANGED <<clock, state, version, hist, faults, feed, unacked, mirror, applied>>
    PROVE  MirrorInv'
<1>1. task'[t] = x
  BY DEF MirrorInv, TasksAreKnown
<1>2. Outgoing(t)' = {}
  BY <1>1 DEF Outgoing
<1>3. feed' \in Seq(Frames) /\ faults' \in 0 .. MaxFaults
  BY DEF MirrorInv, SyncInv, TypeOK, Frames
<1>4. \A f \in Elems(feed)' : f \in InTransit
  BY DEF InTransit, Elems
<1> QED
  BY <1>2, <1>3, <1>4, TaskAct

(* Requests: sync_set, sync_del, the heartbeat, the client's pull, and those *)
(* that fail or change nothing.                                              *)
LEMMA RequestsKeep ==
    ASSUME MirrorInv, NEW t \in Tasks,
           \/ \E k \in Keys, v \in Values : SetBegin(t, k, v)
           \/ \E k \in Keys : DelBegin(t, k)
           \/ PullBegin(t) \/ Refuse(t)
           \/ DelCommit(t) /\ state[task[t].key] = Absent
    PROVE  MirrorInv'
<1>1. client.pull \in Nat /\ clock \in Nat
  BY SyncAssumption DEF MirrorInv, SyncInv, TypeOK
<1>2. ASSUME NEW k \in Keys, NEW v \in Values, SetBegin(t, k, v) PROVE MirrorInv'
  <2> DEFINE x == [pc |-> "set", key |-> k, value |-> v, now |-> clock]
  <2>1. TaskOK(x) /\ x.pc = "set" /\ task' = [task EXCEPT ![t] = x]
    BY <1>1, <1>2 DEF TaskOK, SetBegin, Accept
  <2>2. UNCHANGED <<clock, state, version, hist, faults, client, feed, unacked, mirror, applied>>
    BY <1>2 DEF SetBegin, Accept, device
  <2> HIDE DEF x
  <2> QED
    BY <2>1, <2>2, RequestKeeps
<1>3. ASSUME NEW k \in Keys, DelBegin(t, k) PROVE MirrorInv'
  <2> DEFINE x == [pc |-> "del", key |-> k]
  <2>1. TaskOK(x) /\ x.pc = "del" /\ task' = [task EXCEPT ![t] = x]
    BY <1>3 DEF TaskOK, DelBegin, Accept
  <2>2. UNCHANGED <<clock, state, version, hist, faults, client, feed, unacked, mirror, applied>>
    BY <1>3 DEF DelBegin, Accept, device
  <2> HIDE DEF x
  <2> QED
    BY <2>1, <2>2, RequestKeeps
<1>4. CASE PullBegin(t)
  <2> DEFINE x == [pc |-> "snapshot", pull |-> client.pull]
  <2>1. TaskOK(x) /\ x.pc = "snapshot" /\ x.pull <= client.pull /\ task' = [task EXCEPT ![t] = x]
    BY <1>1, <1>4 DEF TaskOK, PullBegin, Accept
  <2>2. /\ UNCHANGED <<clock, state, version, hist, faults, feed, unacked, mirror, applied>>
        /\ client' = [client EXCEPT !.asked = TRUE]
    BY <1>4 DEF PullBegin, Accept
  <2> HIDE DEF x
  <2> QED
    BY <2>1, <2>2, RequestKeeps
<1>5. CASE Refuse(t) \/ (DelCommit(t) /\ state[task[t].key] = Absent)
  <2>1. task' = [task EXCEPT ![t] = Idle]
    BY <1>5 DEF Refuse, DelCommit, Publish
  <2>2. UNCHANGED <<clock, state, version, hist, faults, client, feed, unacked, mirror, applied>>
    BY <1>5 DEF Refuse, DelCommit, device
  <2>3. TaskOK(Idle) /\ Idle.pc = "idle"
    BY DEF TaskOK, Idle
  <2> QED
    BY <2>1, <2>2, <2>3, RequestKeeps
<1> QED
  BY <1>2, <1>3, <1>4, <1>5

(* A snapshot whose transaction fails is answered with a refusal.            *)
LEMMA SnapshotFailsKeeps ==
    ASSUME MirrorInv, NEW t \in Tasks, SnapshotFails(t)
    PROVE  MirrorInv'
<1> DEFINE x == [pc |-> "reply", out |-> {}, reply |-> [kind |-> "refused", pull |-> task[t].pull]]
<1>1. task' = [task EXCEPT ![t] = x] /\ x.pc = "reply" /\ x.out = {} /\ x.reply.kind = "refused"
  BY DEF SnapshotFails
<1>2. task[t].pull \in Nat
  BY DEF MirrorInv, SyncInv, TypeOK, TaskOK, Idle, SnapshotFails
<1>3. x.reply \in Refusals
  BY <1>2 DEF Refusals
<1> HIDE DEF x
<1>4. TaskOK(x)
  BY <1>1, <1>3 DEF TaskOK
<1>5. \A f \in Outgoing(t)' : f.kind = "refused"
  <2>1. task'[t] = x
    BY <1>1 DEF MirrorInv, TasksAreKnown
  <2>2. Outgoing(t)' = {x.reply}
    BY <1>1, <2>1 DEF Outgoing
  <2> QED
    BY <1>1, <2>2
<1>6. /\ UNCHANGED <<clock, state, version, hist, client, feed, unacked, mirror, applied>>
      /\ faults' \in 0 .. MaxFaults
  BY SyncAssumption DEF SnapshotFails, device, Fault, MirrorInv, SyncInv, TypeOK
<1>7. feed' \in Seq(Frames) /\ \A f \in Elems(feed)' : f \in InTransit
  BY <1>6 DEF MirrorInv, SyncInv, TypeOK, Frames, InTransit, Elems
<1> QED
  BY <1>1, <1>4, <1>5, <1>6, <1>7, TaskAct

(* The envelopes of a task reach the client's connection, or nobody.         *)
LEMMA SendKeeps ==
    ASSUME MirrorInv, NEW t \in Tasks, SendReply(t) \/ SendDelta(t)
    PROVE  MirrorInv'
<1>1. /\ task[t].out \subseteq Deltas
      /\ task[t].pc = "reply" => task[t].reply \in Snapshots \cup Refusals
  BY DEF MirrorInv, SyncInv, TypeOK, TaskOK, Idle, SendReply, SendDelta
<1>2. PICK f \in Outgoing(t), out \in SUBSET task[t].out : Emit(f) /\ Publish(t, out)
  <2>1. CASE SendReply(t)
    <3>1. task[t].reply \in Outgoing(t)
      BY <2>1 DEF Outgoing, SendReply
    <3> QED
      BY <2>1, <3>1 DEF SendReply
  <2>2. CASE SendDelta(t)
    <3>1. Outgoing(t) = task[t].out
      BY <2>2 DEF Outgoing, SendDelta
    <3> QED
      BY <2>2, <3>1 DEF SendDelta
  <2> QED
    BY <2>1, <2>2
<1>3. f \in InTransit /\ f \in Frames
  <2>1. f \in InTransit
    BY DEF InTransit, Unsent
  <2> QED
    BY <2>1, InTransitType DEF MirrorInv, SyncInv
<1>4. out \subseteq InTransit /\ out \subseteq Deltas
  BY <1>1 DEF Outgoing, SendReply, SendDelta, InTransit, Unsent
<1>5. feed' \in Seq(Frames) /\ \A g \in Elems(feed)' : g \in InTransit
  <2>1. feed \in Seq(Frames) /\ \A g \in Elems(feed) : g \in InTransit
    BY DEF MirrorInv, SyncInv, TypeOK, Frames, InTransit
  <2>2. CASE feed' = feed
    BY <2>1, <2>2 DEF Elems
  <2>3. CASE feed' = Append(feed, f)
    <3>1. Append(feed, f) \in Seq(Frames) /\ Elems(Append(feed, f)) \subseteq Elems(feed) \cup {f}
      BY <1>3, <2>1, AppendElems
    <3>2. Elems(feed)' = Elems(Append(feed, f))
      BY <2>3 DEF Elems
    <3> QED
      BY <1>3, <2>1, <2>3, <3>1, <3>2
  <2> QED
    BY <1>2, <2>2, <2>3 DEF Emit
<1>6. PICK x : x = IF out = {} THEN Idle ELSE [pc |-> "publish", out |-> out]
  OBVIOUS
<1>7. task' = [task EXCEPT ![t] = x]
  BY <1>2, <1>6 DEF Publish
<1>8. TaskOK(x) /\ x.pc # "snapshot"
  BY <1>4, <1>6 DEF TaskOK, Idle
<1>9. Outgoing(t)' \subseteq InTransit
  <2>1. task'[t] = x
    BY <1>7 DEF MirrorInv, TasksAreKnown
  <2>2. Outgoing(t)' = out
    BY <1>6, <2>1 DEF Outgoing, Idle
  <2> QED
    BY <1>4, <2>2
<1>10. /\ UNCHANGED <<clock, state, version, hist, client, unacked, mirror, applied>>
       /\ faults' \in 0 .. MaxFaults
  BY DEF SendReply, SendDelta, MirrorInv, SyncInv, TypeOK
<1> QED
  BY <1>5, <1>7, <1>8, <1>9, <1>10, TaskAct

-----------------------------------------------------------------------------
(* Steps of the client and of the environment.                              *)

(* What a step of the client has to see to: nothing new is on its way, and   *)
(* the mirror follows the store.                                             *)
LEMMA ClientAct ==
    ASSUME MirrorInv, TypeOK', UNCHANGED <<state, version, hist>>, TasksAreKnown',
           InTransit' \subseteq InTransit,
           client.pull <= client'.pull,
           client'.pc = "pulling" =>
               \/ client'.pull > client.pull
               \/ client.pc = "pulling" /\ mirror' = mirror,
           MirrorFollows', MirrorIsExact'
    PROVE  MirrorInv'
<1>1. \A f \in InTransit : f.kind = "snapshot" => f.pull \in Nat
  BY InTransitType, FrameKinds DEF Snapshots, MirrorInv, SyncInv
<1>2. version <= version' /\ \A v \in 0 .. version : hist'[v] = hist[v]
  BY DEF MirrorInv, SyncInv, TypeOK
<1>3. FramesAreTrue'
  <2> DEFINE N == {}
  <2>1. InTransit' \subseteq InTransit \cup N
    OBVIOUS
  <2>2. client'.pc = "pulling" =>
               \/ client'.pull > client.pull
               \/ client.pc = "pulling" /\ mirror'.version = mirror.version
    OBVIOUS
  <2>3. \A f \in N : TrueFrame(f)'
    OBVIOUS
  <2>4. TypeOK /\ FramesAreTrue
    BY DEF MirrorInv, SyncInv
  <2> HIDE DEF N
  <2> QED
    BY <1>1, <1>2, <2>1, <2>2, <2>3, <2>4, FramesStayTrue
<1>4. HistoryIsKept'
  BY DEF MirrorInv, HistoryIsKept, ContentsOf
<1> QED
  BY <1>3, <1>4 DEF MirrorInv, SyncInv

(* The tasks and what they have still to send do not depend on the client.   *)
LEMMA TasksUntouched ==
    ASSUME UNCHANGED task
    PROVE  Unsent' = Unsent
<1>1. \A t \in Tasks : Outgoing(t)' = Outgoing(t)
  BY DEF Outgoing
<1> QED
  BY <1>1 DEF Unsent

(* Taking a frame: what is left of the feed was on its way before.           *)
LEMMA Takes ==
    ASSUME TypeOK, Received
    PROVE  /\ Head(feed) \in Frames /\ Head(feed) \in InTransit
           /\ feed' \in Seq(Frames) /\ Elems(feed)' \subseteq Elems(feed)
<1>1. feed \in Seq(Frames) /\ feed # <<>> /\ feed' = Tail(feed)
  BY DEF TypeOK, Received, Frames
<1>2. /\ Head(feed) \in Frames /\ Head(feed) \in Elems(feed)
      /\ Tail(feed) \in Seq(Frames) /\ Elems(Tail(feed)) \subseteq Elems(feed)
  BY <1>1, TailElems
<1> QED
  BY <1>1, <1>2 DEF InTransit, Elems

(* The snapshot the client waited for: the mirror is the store at its        *)
(* version, and this is not behind the mirror.                               *)
LEMMA SeedKeeps ==
    ASSUME MirrorInv, Seed
    PROVE  MirrorInv' /\ mirror.version <= mirror'.version
<1> USE DEF MirrorInv, SyncInv
<1> DEFINE f == Head(feed)
<1>1. f \in Frames /\ f \in InTransit /\ feed' \in Seq(Frames) /\ Elems(feed)' \subseteq Elems(feed)
  BY Takes DEF Seed
<1>2. f \in Snapshots /\ TrueSnapshot(f)
  BY <1>1, FrameKinds DEF Seed, FramesAreTrue, TrueFrame
<1>3. /\ mirror' = [version |-> f.version, state |-> f.state]
      /\ applied' = 1 .. f.version
      /\ client' = [client EXCEPT !.pc = "live"]
      /\ UNCHANGED <<clock, state, version, task, faults, hist, unacked>>
      /\ client.pc = "pulling" /\ f.pull = client.pull
  BY DEF Seed, host
<1>4. f.version \in Nat /\ f.version \in 0 .. version /\ f.state \in Contents
  BY <1>2 DEF Snapshots, TrueSnapshot
<1>5. f.state = hist[f.version] /\ mirror.version <= f.version
  BY <1>2, <1>3 DEF TrueSnapshot
<1> HIDE DEF f
<1>6. /\ client' \in [pc : {"down", "pulling", "live"}, pull : Nat, asked : BOOLEAN]
      /\ client'.pull = client.pull /\ client'.pc = "live"
  BY <1>3 DEF TypeOK
<1>7. TypeOK'
  BY <1>1, <1>3, <1>4, <1>6 DEF TypeOK, Frames
<1>8. InTransit' \subseteq InTransit
  BY <1>1, <1>3, TasksUntouched DEF InTransit
<1>9. TasksAreKnown'
  BY <1>3, <1>6 DEF TasksAreKnown
<1>10. MirrorFollows'
  BY <1>3, <1>4 DEF MirrorFollows, TypeOK
<1>11. MirrorIsExact'
  BY <1>3, <1>5 DEF MirrorIsExact
<1>12. client.pull <= client'.pull
  BY <1>6 DEF TypeOK
<1> HIDE DEF MirrorInv, SyncInv
<1> QED
  BY <1>3, <1>5, <1>6, <1>7, <1>8, <1>9, <1>10, <1>11, <1>12, ClientAct

(* A delta above the mirror's version.  A mirror that misses nothing after   *)
(* it missed nothing before, so the delta was the next one.                  *)
LEMMA ApplyDeltaKeeps ==
    ASSUME MirrorInv, ApplyDelta
    PROVE  MirrorInv' /\ mirror.version <= mirror'.version
<1> USE DEF MirrorInv, SyncInv
<1> DEFINE d == Head(feed)
           v == IF d.op = "set" THEN d.value ELSE Absent
<1>1. d \in Frames /\ d \in InTransit /\ feed' \in Seq(Frames) /\ Elems(feed)' \subseteq Elems(feed)
  BY Takes DEF ApplyDelta
<1>2. d \in Deltas /\ TrueDelta(d)
  BY <1>1, FrameKinds DEF ApplyDelta, FramesAreTrue, TrueFrame
<1>3. /\ mirror' = [version |-> d.version, state |-> Update(mirror.state, d.key, v)]
      /\ applied' = applied \cup {d.version}
      /\ UNCHANGED <<clock, state, version, task, faults, hist, client, unacked>>
      /\ client.pc = "live" /\ ~(d.version <= mirror.version)
  BY DEF ApplyDelta, host, Update, Covered
<1>4. /\ d.version \in 1 .. version /\ d.version \in Nat /\ d.key \in Keys
      /\ v \in Values \cup {Absent}
      /\ hist[d.version] = Update(hist[d.version - 1], d.key, v)
  BY <1>2 DEF Deltas, TrueDelta
<1> HIDE DEF d, v
<1>5. Update(mirror.state, d.key, v) \in Contents
  BY <1>4 DEF TypeOK, Update, Contents
<1>6. TypeOK'
  BY <1>1, <1>3, <1>4, <1>5 DEF TypeOK, Frames
<1>7. InTransit' \subseteq InTransit
  BY <1>1, <1>3, TasksUntouched DEF InTransit
<1>8. TasksAreKnown'
  BY <1>3 DEF TasksAreKnown
<1>9. mirror.version \in Nat /\ applied \subseteq 1 .. mirror.version /\ version \in Nat
  BY DEF TypeOK, MirrorFollows
<1>10. mirror.version <= d.version /\ mirror'.version = d.version
  BY <1>3, <1>4, <1>9
<1>11. MirrorFollows'
  <2>1. \A i \in applied : i \in 1 .. d.version
    BY <1>4, <1>9, <1>10
  <2>2. applied' \subseteq 1 .. mirror'.version
    BY <1>3, <1>4, <1>10, <2>1
  <2>3. mirror'.version <= version'
    BY <1>3, <1>4, <1>10
  <2> QED
    BY <2>2, <2>3 DEF MirrorFollows
<1>12. MirrorIsExact'
  <2> SUFFICES ASSUME applied' = 1 .. d.version PROVE mirror'.state = hist[d.version]
    BY <1>3 DEF MirrorIsExact
  <2>1. d.version = mirror.version + 1
    <3>1. mirror.version + 1 \in applied'
      BY <1>3, <1>4, <1>9
    <3> QED
      BY <1>3, <1>4, <1>9, <3>1
  <2>2. applied = 1 .. mirror.version
    <3>1. \A i \in 1 .. mirror.version : i \in applied' /\ i # d.version
      BY <1>9, <2>1
    <3> QED
      BY <1>3, <1>9, <3>1
  <2>3. mirror.state = hist[mirror.version] /\ d.version - 1 = mirror.version
    BY <1>9, <2>1, <2>2 DEF MirrorIsExact
  <2> QED
    BY <1>3, <1>4, <2>3
<1>13. client.pull <= client'.pull /\ client'.pc = "live"
  BY <1>3 DEF TypeOK
<1> HIDE DEF MirrorInv, SyncInv
<1> QED
  BY <1>3, <1>6, <1>7, <1>8, <1>10, <1>11, <1>12, <1>13, ClientAct

(* Steps of the client that leave its mirror as it is: what it drops stays   *)
(* unacknowledged, what comes again was unacknowledged, and a new pull has a *)
(* number of its own.                                                        *)
LEMMA MirrorUntouched ==
    ASSUME MirrorInv, Drop \/ PullFails \/ SkipFrame \/ Redeliver \/ Connect \/ Disconnect
                      \/ Tick \/ UNCHANGED vars
    PROVE  MirrorInv' /\ mirror' = mirror
<1> USE DEF MirrorInv, SyncInv
<1>1. UNCHANGED <<state, version, task, hist, mirror, applied>>
  BY DEF Drop, PullFails, SkipFrame, Redeliver, Connect, Disconnect, Tick, vars, host, device, Fault
<1>2. clock' \in 0 .. MaxTime /\ faults' \in 0 .. MaxFaults
  BY SyncAssumption DEF TypeOK, Drop, PullFails, SkipFrame, Redeliver, Connect, Disconnect, Tick,
                        vars, host, device, Fault
<1>3. /\ client' \in [pc : {"down", "pulling", "live"}, pull : Nat, asked : BOOLEAN]
      /\ client.pull <= client'.pull
      /\ client'.pc = "pulling" => client'.pull > client.pull \/ client.pc = "pulling"
  <2>1. client \in [pc : {"down", "pulling", "live"}, pull : Nat, asked : BOOLEAN]
    BY DEF TypeOK
  <2>2. CASE Connect
    BY <2>1, <2>2 DEF Connect
  <2>3. CASE PullFails \/ Disconnect
    BY <2>1, <2>3 DEF PullFails, Disconnect
  <2>4. CASE Drop \/ SkipFrame \/ Redeliver \/ Tick \/ UNCHANGED vars
    BY <2>1, <2>4 DEF Drop, SkipFrame, Redeliver, Tick, vars, device
  <2> QED
    BY <2>2, <2>3, <2>4
<1>4. /\ feed' \in Seq(Frames) /\ unacked' \subseteq Deltas
      /\ Elems(feed)' \subseteq InTransit /\ unacked' \subseteq InTransit
  <2>0. feed \in Seq(Frames) /\ unacked \subseteq Deltas /\ unacked \subseteq InTransit
    BY DEF TypeOK, Frames, InTransit
  <2>1. CASE Drop
    <3>1. /\ Head(feed) \in Frames /\ Head(feed) \in InTransit
          /\ feed' \in Seq(Frames) /\ Elems(feed)' \subseteq Elems(feed)
      BY <2>1, Takes DEF Drop
    <3>2. unacked' = unacked \/ (Head(feed) \in Deltas /\ unacked' = unacked \cup {Head(feed)})
      BY <2>1, <3>1, FrameKinds DEF Drop
    <3> QED
      BY <2>0, <3>1, <3>2 DEF InTransit
  <2>2. CASE SkipFrame \/ (PullFails /\ Received)
    <3>1. feed' \in Seq(Frames) /\ Elems(feed)' \subseteq Elems(feed)
      BY <2>2, Takes DEF SkipFrame
    <3> QED
      BY <2>0, <2>2, <3>1 DEF InTransit, SkipFrame, PullFails
  <2>3. CASE Redeliver
    <3>1. PICK d \in unacked : feed' = Append(feed, d) /\ unacked' = unacked \ {d}
      BY <2>3 DEF Redeliver
    <3>2. d \in Frames
      BY <2>0 DEF Frames
    <3>3. Append(feed, d) \in Seq(Frames) /\ Elems(Append(feed, d)) \subseteq Elems(feed) \cup {d}
      BY <2>0, <3>2, AppendElems
    <3>4. Elems(feed)' = Elems(Append(feed, d))
      BY <3>1 DEF Elems
    <3> QED
      BY <2>0, <3>1, <3>3, <3>4 DEF InTransit
  <2>4. CASE Disconnect
    BY <2>4 DEF Disconnect, Elems
  <2>5. CASE UNCHANGED <<feed, unacked>>
    BY <2>0, <2>5 DEF Elems, InTransit
  <2> QED
    BY <2>1, <2>2, <2>3, <2>4, <2>5 DEF PullFails, Connect, Tick, vars, device
<1>5. TypeOK'
  BY <1>1, <1>2, <1>3, <1>4 DEF TypeOK, Frames
<1>6. InTransit' \subseteq InTransit
  BY <1>1, <1>4, TasksUntouched DEF InTransit
<1>7. TasksAreKnown'
  <2>1. ASSUME NEW t \in Tasks, task[t].pc = "snapshot" PROVE task[t].pull <= client'.pull
    <3>1. task[t].pull <= client.pull /\ task[t].pull \in Nat
      BY <2>1 DEF TasksAreKnown, TypeOK, TaskOK, Idle
    <3> QED
      BY <1>3, <3>1 DEF TypeOK
  <2> QED
    BY <1>1, <2>1 DEF TasksAreKnown
<1>8. MirrorFollows' /\ MirrorIsExact'
  BY <1>1 DEF MirrorFollows, MirrorIsExact
<1> HIDE DEF MirrorInv, SyncInv
<1> QED
  BY <1>1, <1>3, <1>5, <1>6, <1>7, <1>8, ClientAct

(* A restart of the host forgets what was not yet sent.                      *)
LEMMA RestartKeeps ==
    ASSUME MirrorInv, HostRestart
    PROVE  MirrorInv' /\ mirror' = mirror
<1> USE DEF MirrorInv, SyncInv
<1>1. /\ task' = [t \in Tasks |-> Idle]
      /\ UNCHANGED <<clock, state, version, hist, client, mirror, feed, unacked, applied>>
  BY DEF HostRestart, device
<1>2. faults' \in 0 .. MaxFaults
  BY SyncAssumption DEF HostRestart, Fault, TypeOK
<1>3. \A t \in Tasks : Outgoing(t)' = {} /\ TaskOK(task'[t])
  BY <1>1 DEF Outgoing, Idle, TaskOK
<1>4. TypeOK'
  BY <1>1, <1>2, <1>3 DEF TypeOK
<1>5. InTransit' \subseteq InTransit
  BY <1>1, <1>3 DEF InTransit, Unsent, Elems
<1>6. TasksAreKnown'
  BY <1>1 DEF TasksAreKnown, Idle
<1>7. MirrorFollows' /\ MirrorIsExact'
  BY <1>1 DEF MirrorFollows, MirrorIsExact
<1>8. client.pull <= client'.pull
  BY <1>1 DEF TypeOK
<1> HIDE DEF MirrorInv, SyncInv
<1> QED
  BY <1>1, <1>4, <1>5, <1>6, <1>7, <1>8, ClientAct

-----------------------------------------------------------------------------
(* As long as no two requests overlap and no pull fails, nothing up to the   *)
(* mirror's version is missing.                                              *)

\* The delta of version v.
IsDelta(f, v) == f.kind = "delta" /\ f.version = v

\* Above b the deltas of q come in the order of their versions.
Ascending(q, b) ==
    \A j \in 1 .. Len(q) : \A i \in 1 .. j - 1 :
        q[i].kind = "delta" /\ q[j].kind = "delta" /\ q[j].version > b =>
            q[i].version < q[j].version

\* Of the versions after b, up to n, each is in q or has yet to be sent.
Complete(q, out, b, n) ==
    \A v \in b + 1 .. n :
        (\E i \in 1 .. Len(q) : IsDelta(q[i], v)) \/ \E d \in out : IsDelta(d, v)

\* A mirror at version b can take what is in q, of out and of un.
Aligned(q, out, un, b, n) ==
    /\ Ascending(q, b)
    /\ Complete(q, out, b, n)
    /\ \A d \in un : d.version <= b

\* The frame f is the snapshot that a pull waits for.
Answers(f, pull) == f.kind = "snapshot" /\ f.pull = pull

\* What comes before the frame p of q, the snapshot covers.
CoveredBefore(q, p) ==
    \A i \in 1 .. p - 1 : q[i].kind = "delta" => q[i].version <= q[p].version

SeedAligned(q, out, un, pull, n) ==
    \A p \in 1 .. Len(q) : Answers(q[p], pull) =>
        /\ Aligned(q, out, un, q[p].version, n)
        /\ CoveredBefore(q, p)

OneAtATime == \A t, u \in Tasks : task[t] # Idle /\ task[u] # Idle => t = u

\* No two requests overlap, and neither a pull nor the host has failed.
Undisturbed == OneAtATime /\ faults = 0

\* A delta that was not yet sent is newer than all that were, and has its version
\* to itself.
UnsentIsNewer ==
    \A d \in Unsent : d.kind = "delta" =>
        /\ \A f \in Elems(feed) \cup unacked : f.kind = "delta" => f.version < d.version
        /\ \A e \in Unsent : IsDelta(e, d.version) => e = d

\* A reply that was not sent yet is the store as it is; none is a refusal.
RepliesAreCurrent ==
    /\ \A t \in Tasks : task[t].pc = "reply" =>
          task[t].reply.kind = "snapshot" /\ task[t].reply.version = version
    /\ \A f \in InTransit : f.kind # "refused"

DeviceAligned ==
    /\ client.pc = "pulling" => SeedAligned(feed, Unsent, unacked, client.pull, version)
    /\ client.pc = "live" => Aligned(feed, Unsent, unacked, mirror.version, version)

PrefixInv ==
    /\ OneAtATime
    /\ UnsentIsNewer
    /\ RepliesAreCurrent
    /\ DeviceAligned
    /\ applied = 1 .. mirror.version

(* Deltas have numbers for versions.                                         *)
LEMMA DeltaVersion ==
    ASSUME NEW q \in Seq(Frames)
    PROVE  /\ Len(q) \in Nat
           /\ \A i \in 1 .. Len(q) :
                 /\ q[i] \in Frames
                 /\ q[i].kind = "delta" => q[i].version \in Nat
                 /\ q[i].kind = "snapshot" => q[i].version \in Nat
<1>1. Len(q) \in Nat /\ \A i \in 1 .. Len(q) : q[i] \in Frames
  BY LenProperties
<1>2. \A f \in Frames : f.kind \in {"delta", "snapshot"} => f.version \in Nat
  BY FrameKinds DEF Deltas, Snapshots
<1> QED
  BY <1>1, <1>2

(* The first frame is taken: a mirror that covers it can take the rest.      *)
LEMMA TailAligned ==
    ASSUME NEW q \in Seq(Frames), q # <<>>, NEW out, NEW un, NEW un2,
           NEW b \in Nat, NEW b2 \in Nat, NEW n \in Nat, b <= b2,
           Aligned(q, out, un, b, n),
           Head(q).kind = "delta" => Head(q).version <= b2,
           \A d \in un2 : d.version <= b2
    PROVE  Aligned(Tail(q), out, un2, b2, n)
<1>1. /\ Len(q) \in Nat \ {0} /\ Head(q) = q[1]
      /\ Len(Tail(q)) = Len(q) - 1
      /\ \A i \in 1 .. Len(q) - 1 : Tail(q)[i] = q[i + 1]
  BY HeadTailProperties, LenProperties, EmptySeq
<1>2. Ascending(Tail(q), b2)
  <2> SUFFICES ASSUME NEW j \in 1 .. Len(q) - 1, NEW i \in 1 .. j - 1,
                      q[i + 1].kind = "delta", q[j + 1].kind = "delta", q[j + 1].version > b2
               PROVE  q[i + 1].version < q[j + 1].version
    BY <1>1 DEF Ascending
  <2>1. j + 1 \in 1 .. Len(q) /\ i + 1 \in 1 .. (j + 1) - 1
    BY <1>1
  <2>2. q[j + 1].version \in Nat
    BY <2>1, DeltaVersion
  <2>3. q[j + 1].version > b
    BY <2>2
  <2> QED
    BY <2>1, <2>3 DEF Aligned, Ascending
<1>3. Complete(Tail(q), out, b2, n)
  <2> SUFFICES ASSUME NEW v \in b2 + 1 .. n, ~ \E d \in out : IsDelta(d, v)
               PROVE  \E i \in 1 .. Len(Tail(q)) : IsDelta(Tail(q)[i], v)
    BY DEF Complete
  <2>1. v \in b + 1 .. n
    OBVIOUS
  <2>2. PICK i \in 1 .. Len(q) : IsDelta(q[i], v)
    BY <2>1 DEF Aligned, Complete
  <2>3. i # 1
    BY <1>1, <2>2 DEF IsDelta
  <2>4. i - 1 \in 1 .. Len(q) - 1 /\ (i - 1) + 1 = i
    BY <1>1, <2>3
  <2> QED
    BY <1>1, <2>2, <2>4
<1> QED
  BY <1>2, <1>3 DEF Aligned

(* A frame is sent, or delivered again: it is covered, or the newest delta.  *)
LEMMA AppendAligned ==
    ASSUME NEW q \in Seq(Frames), NEW e \in Frames, NEW out, NEW out2, NEW un, NEW un2,
           NEW b \in Nat, NEW n \in Nat,
           Aligned(q, out, un, b, n),
           \/ e.kind = "delta" => e.version <= b
           \/ \A i \in 1 .. Len(q) : q[i].kind = "delta" => q[i].version < e.version,
           \A d \in out : d.kind = "delta" => d = e \/ d \in out2,
           un2 \subseteq un
    PROVE  Aligned(Append(q, e), out2, un2, b, n)
<1>1. /\ Len(q) \in Nat /\ Len(Append(q, e)) = Len(q) + 1
      /\ \A i \in 1 .. Len(q) : Append(q, e)[i] = q[i]
      /\ Append(q, e)[Len(q) + 1] = e
  BY AppendProperties, LenProperties
<1>2. e.kind = "delta" => e.version \in Nat
  BY FrameKinds DEF Deltas
<1>3. Ascending(Append(q, e), b)
  <2> SUFFICES ASSUME NEW j \in 1 .. Len(q) + 1, NEW i \in 1 .. j - 1,
                      Append(q, e)[i].kind = "delta", Append(q, e)[j].kind = "delta",
                      Append(q, e)[j].version > b
               PROVE  Append(q, e)[i].version < Append(q, e)[j].version
    BY <1>1 DEF Ascending
  <2>1. i \in 1 .. Len(q) /\ Append(q, e)[i] = q[i]
    BY <1>1
  <2>2. CASE j = Len(q) + 1
    BY <1>1, <1>2, <2>1, <2>2
  <2>3. CASE j # Len(q) + 1
    <3>1. j \in 1 .. Len(q) /\ Append(q, e)[j] = q[j]
      BY <1>1, <2>3
    <3> QED
      BY <2>1, <3>1 DEF Aligned, Ascending
  <2> QED
    BY <2>2, <2>3
<1>4. Complete(Append(q, e), out2, b, n)
  <2> SUFFICES ASSUME NEW v \in b + 1 .. n, ~ \E d \in out2 : IsDelta(d, v)
               PROVE  \E i \in 1 .. Len(Append(q, e)) : IsDelta(Append(q, e)[i], v)
    BY DEF Complete
  <2>1. CASE \E i \in 1 .. Len(q) : IsDelta(q[i], v)
    <3>1. PICK i \in 1 .. Len(q) : IsDelta(q[i], v)
      BY <2>1
    <3>2. i \in 1 .. Len(q) + 1 /\ Append(q, e)[i] = q[i]
      BY <1>1
    <3> QED
      BY <1>1, <3>1, <3>2
  <2>2. CASE \E d \in out : IsDelta(d, v)
    <3>1. IsDelta(e, v)
      BY <2>2 DEF IsDelta
    <3>2. Len(q) + 1 \in 1 .. Len(q) + 1
      BY <1>1
    <3> QED
      BY <1>1, <3>1, <3>2
  <2> QED
    BY <2>1, <2>2 DEF Aligned, Complete
<1> QED
  BY <1>3, <1>4 DEF Aligned

(* A transaction: what it adds has yet to be sent.                           *)
LEMMA CommitAligned ==
    ASSUME NEW q, NEW out, NEW out2, NEW un, NEW b \in Nat, NEW n \in Nat, NEW n2 \in Nat,
           Aligned(q, out, un, b, n), n <= n2,
           \A d \in out : d.kind # "delta",
           \A v \in n + 1 .. n2 : \E d \in out2 : IsDelta(d, v)
    PROVE  Aligned(q, out2, un, b, n2)
<1> SUFFICES ASSUME NEW v \in b + 1 .. n2, ~ \E d \in out2 : IsDelta(d, v)
             PROVE  \E i \in 1 .. Len(q) : IsDelta(q[i], v)
  BY DEF Aligned, Complete
<1>1. v \in b + 1 .. n
  <2>1. ~(v \in n + 1 .. n2)
    OBVIOUS
  <2> QED
    BY <2>1
<1>2. ~ \E d \in out : IsDelta(d, v)
  BY DEF IsDelta
<1> QED
  BY <1>1, <1>2 DEF Aligned, Complete

(* A snapshot of the store as it is covers every delta.                      *)
LEMMA CurrentAligned ==
    ASSUME NEW q \in Seq(Frames), NEW out, NEW un, NEW n \in Nat,
           \A i \in 1 .. Len(q) : q[i].kind = "delta" => q[i].version <= n,
           \A d \in un : d.version <= n
    PROVE  Aligned(q, out, un, n, n)
<1>1. Ascending(q, n)
  <2> SUFFICES ASSUME NEW j \in 1 .. Len(q), q[j].kind = "delta", q[j].version > n
               PROVE  FALSE
    BY DEF Ascending
  <2> QED
    BY DeltaVersion
<1>2. Complete(q, out, n, n)
  BY DEF Complete
<1> QED
  BY <1>1, <1>2 DEF Aligned

(* The ranks of a finite set of numbers are all the numbers up to its size.  *)
LEMMA RankIsOnto ==
    ASSUME TypeOK, NEW S \in SUBSET Keys, NEW i \in 1 .. Cardinality(S)
    PROVE  \E k \in S : Rank(S, k) = i
<1> DEFINE c == Cardinality(S)
           f == [k \in S |-> Rank(S, k)]
<1>1. /\ IsFiniteSet(S) /\ c \in Nat
      /\ \A k \in S : Rank(S, k) \in 1 .. c
      /\ \A j, k \in S : Rank(S, j) <= Rank(S, k) <=> j <= k
  BY PrunedRows
<1>2. S \subseteq Nat
  BY SyncAssumption
<1>3. \A j, k \in S : Rank(S, j) = Rank(S, k) => j = k
  <2> SUFFICES ASSUME NEW j \in S, NEW k \in S, Rank(S, j) = Rank(S, k) PROVE j = k
    OBVIOUS
  <2>1. Rank(S, j) \in 1 .. c /\ Rank(S, k) \in 1 .. c
    BY <1>1
  <2>2. Rank(S, j) <= Rank(S, k) /\ Rank(S, k) <= Rank(S, j)
    BY <1>1, <2>1
  <2>3. j <= k /\ k <= j
    BY <1>1, <2>2
  <2> QED
    BY <1>2, <2>3
<1>4. f \in Injection(S, 1 .. c)
  BY <1>1, <1>3 DEF Injection, IsInjective
<1>5. IsFiniteSet(1 .. c) /\ Cardinality(1 .. c) = c
  <2>1. c \in Int /\ 1 \in Int
    BY <1>1
  <2>2. IsFiniteSet(1 .. c) /\ Cardinality(1 .. c) = IF 1 > c THEN 0 ELSE c - 1 + 1
    BY <2>1, FS_Interval
  <2> QED
    BY <1>1, <2>2
<1>6. f \in Surjection(S, 1 .. c)
  BY <1>4, <1>5, FS_Injection
<1>7. PICK k \in S : f[k] = i
  BY <1>6 DEF Surjection
<1> QED
  BY <1>7

(* The deltas of the rows a transaction prunes: one for each of its versions *)
(* above version, and no other.                                              *)
LEMMA PruneDeltasAreNext ==
    ASSUME TypeOK, NEW S \in SUBSET Keys
    PROVE  /\ Cardinality(S) \in Nat /\ version \in Nat
           /\ \A d \in PruneDeltas(S) :
                 d.kind = "delta" /\ d.version \in version + 1 .. version + Cardinality(S)
           /\ \A d, e \in PruneDeltas(S) : d.version = e.version => d = e
           /\ \A v \in version + 1 .. version + Cardinality(S) :
                 \E d \in PruneDeltas(S) : IsDelta(d, v)
<1> DEFINE c == Cardinality(S)
           D(k) == [kind |-> "delta", op |-> "del", key |-> k, value |-> Absent,
                    version |-> version + Rank(S, k)]
<1>1. /\ c \in Nat
      /\ \A k \in S : Rank(S, k) \in 1 .. c
      /\ \A j, k \in S : Rank(S, j) <= Rank(S, k) <=> j <= k
  BY PrunedRows
<1>2. version \in Nat /\ S \subseteq Nat
  BY SyncAssumption DEF TypeOK
<1>3. PruneDeltas(S) = {D(k) : k \in S}
  BY DEF PruneDeltas
<1>4. \A d \in PruneDeltas(S) : d.kind = "delta" /\ d.version \in version + 1 .. version + c
  <2> SUFFICES ASSUME NEW k \in S
               PROVE  D(k).kind = "delta" /\ D(k).version \in version + 1 .. version + c
    BY <1>3
  <2>1. Rank(S, k) \in 1 .. c
    BY <1>1
  <2> QED
    BY <1>1, <1>2, <2>1
<1>5. \A d, e \in PruneDeltas(S) : d.version = e.version => d = e
  <2> SUFFICES ASSUME NEW j \in S, NEW k \in S, version + Rank(S, j) = version + Rank(S, k)
               PROVE  D(j) = D(k)
    BY <1>3
  <2>1. Rank(S, j) \in 1 .. c /\ Rank(S, k) \in 1 .. c
    BY <1>1
  <2>2. Rank(S, j) <= Rank(S, k) /\ Rank(S, k) <= Rank(S, j)
    BY <1>1, <1>2, <2>1
  <2>3. j <= k /\ k <= j
    BY <1>1, <2>2
  <2>4. j = k
    BY <1>2, <2>3
  <2> QED
    BY <2>4
<1>6. ASSUME NEW v \in version + 1 .. version + c
      PROVE  \E d \in PruneDeltas(S) : IsDelta(d, v)
  <2>1. v - version \in 1 .. c
    BY <1>1, <1>2
  <2>2. PICK k \in S : Rank(S, k) = v - version
    BY <2>1, RankIsOnto
  <2>3. D(k).kind = "delta" /\ D(k).version = v
    BY <1>2, <2>2
  <2> QED
    BY <1>3, <2>3 DEF IsDelta
<1> QED
  BY <1>1, <1>2, <1>4, <1>5, <1>6

(* One task at a time: what is unsent is what that task has to send.         *)
LEMMA OnlyTask ==
    ASSUME TasksAreKnown, OneAtATime, NEW t \in Tasks, NEW x, task' = [task EXCEPT ![t] = x],
           task[t] # Idle \/ \A u \in Tasks : task[u] = Idle
    PROVE  /\ OneAtATime'
           /\ \A u \in Tasks : u # t => task[u] = Idle /\ task'[u] = Idle
           /\ task'[t] = x
           /\ Unsent = Outgoing(t) /\ Unsent' = Outgoing(t)'
<1>1. task'[t] = x /\ \A u \in Tasks : u # t => task'[u] = task[u]
  BY DEF TasksAreKnown
<1>2. \A u \in Tasks : u # t => task[u] = Idle
  BY DEF OneAtATime
<1>3. \A u \in Tasks : u # t => Outgoing(u) = {} /\ Outgoing(u)' = {}
  BY <1>1, <1>2 DEF Outgoing, Idle
<1>4. Unsent = Outgoing(t)
  BY <1>3 DEF Unsent
<1>5. Unsent' = Outgoing(t)'
  BY <1>3 DEF Unsent
<1> QED
  BY <1>1, <1>2, <1>4, <1>5 DEF OneAtATime

(* No delta on its way is of a version to come.                              *)
LEMMA VersionsInTransit ==
    ASSUME MirrorInv
    PROVE  /\ feed \in Seq(Frames) /\ version \in Nat
           /\ \A f \in InTransit : f.kind = "delta" => f \in Deltas /\ f.version \in 1 .. version
           /\ \A i \in 1 .. Len(feed) :
                 /\ feed[i] \in Elems(feed) /\ feed[i] \in InTransit
                 /\ feed[i].kind = "delta" => feed[i].version <= version
           /\ \A d \in unacked : d \in InTransit /\ d.kind = "delta" /\ d.version <= version
<1> USE DEF MirrorInv, SyncInv
<1>1. feed \in Seq(Frames) /\ version \in Nat /\ unacked \subseteq Deltas
  BY DEF TypeOK, Frames
<1>2. \A f \in InTransit : f.kind = "delta" => f \in Deltas /\ f.version \in 1 .. version
  BY InTransitType, FrameKinds DEF FramesAreTrue, TrueFrame, TrueDelta
<1>3. \A i \in 1 .. Len(feed) : feed[i] \in Elems(feed) /\ feed[i] \in InTransit
  BY <1>1, LenProperties DEF Elems, InTransit
<1>4. \A d \in unacked : d \in InTransit /\ d.kind = "delta"
  BY <1>1 DEF InTransit, Deltas
<1>5. \A f \in InTransit : f.kind = "delta" => f.version <= version
  BY <1>1, <1>2
<1> QED
  BY <1>1, <1>2, <1>3, <1>4, <1>5

\* What a transaction of a task leaves to be sent: the deltas of its versions.
NewDeltas(out) ==
    /\ \A d \in out : d.kind = "delta" => d.version \in version + 1 .. version'
    /\ \A d, e \in out : d.kind = "delta" /\ IsDelta(e, d.version) => e = d
    /\ \A v \in version + 1 .. version' : \E d \in out : IsDelta(d, v)

(* A request that is taken, answered by a transaction, or refused.           *)
LEMMA CommitPrefix ==
    ASSUME MirrorInv, PrefixInv, version' \in Nat, version <= version', NEW t \in Tasks, NEW x,
           task' = [task EXCEPT ![t] = x],
           task[t] # Idle \/ \A u \in Tasks : task[u] = Idle,
           task[t].pc \notin {"reply", "publish"},
           NewDeltas(Outgoing(t)'),
           \A f \in Outgoing(t)' : f.kind # "refused",
           x.pc = "reply" => x.reply.kind = "snapshot" /\ x.reply.version = version',
           client'.pc = client.pc, client'.pull = client.pull,
           UNCHANGED <<mirror, feed, unacked, applied>>
    PROVE  PrefixInv'
<1> USE DEF PrefixInv
<1>1. /\ OneAtATime'
      /\ \A u \in Tasks : u # t => task[u] = Idle /\ task'[u] = Idle
      /\ task'[t] = x
      /\ Unsent = {} /\ Unsent' = Outgoing(t)'
  <2>1. TasksAreKnown
    BY DEF MirrorInv
  <2>2. Outgoing(t) = {}
    BY DEF Outgoing
  <2> QED
    BY <2>1, <2>2, OnlyTask
<1>2. /\ feed \in Seq(Frames) /\ version \in Nat /\ Len(feed) \in Nat
      /\ \A f \in Elems(feed) \cup unacked :
            f.kind = "delta" => f.version \in 1 .. version
      /\ mirror.version \in Nat
  BY VersionsInTransit, LenProperties DEF InTransit, MirrorInv, SyncInv, TypeOK
<1>3. Elems(feed)' = Elems(feed) /\ unacked' = unacked
  BY DEF Elems
<1>4. UnsentIsNewer'
  <2> SUFFICES ASSUME NEW d \in Outgoing(t)', d.kind = "delta"
               PROVE  /\ \A f \in Elems(feed) \cup unacked :
                            f.kind = "delta" => f.version < d.version
                      /\ \A e \in Outgoing(t)' : IsDelta(e, d.version) => e = d
    BY <1>1, <1>3 DEF UnsentIsNewer
  <2>1. d.version \in version + 1 .. version'
    BY DEF NewDeltas
  <2>2. \A f \in Elems(feed) \cup unacked : f.kind = "delta" => f.version < d.version
    BY <1>2, <2>1
  <2>3. \A e \in Outgoing(t)' : IsDelta(e, d.version) => e = d
    BY DEF NewDeltas
  <2> QED
    BY <2>2, <2>3
<1>5. RepliesAreCurrent'
  <2>1. \A f \in InTransit' : f.kind # "refused"
    BY <1>1, <1>3 DEF InTransit, RepliesAreCurrent
  <2>2. \A u \in Tasks : task'[u].pc = "reply" =>
           task'[u].reply.kind = "snapshot" /\ task'[u].reply.version = version'
    BY <1>1 DEF Idle
  <2> QED
    BY <2>1, <2>2 DEF RepliesAreCurrent
<1>6. \A b \in Nat : Aligned(feed, Unsent, unacked, b, version) =>
                     Aligned(feed, Outgoing(t)', unacked, b, version')
  <2>1. /\ \A v \in version + 1 .. version' : \E d \in Outgoing(t)' : IsDelta(d, v)
        /\ \A d \in Unsent : d.kind # "delta"
    BY <1>1 DEF NewDeltas
  <2>2. PICK out : out = Outgoing(t)'
    OBVIOUS
  <2>3. PICK n2 \in Nat : n2 = version'
    OBVIOUS
  <2> SUFFICES ASSUME NEW b \in Nat, Aligned(feed, Unsent, unacked, b, version)
               PROVE  Aligned(feed, out, unacked, b, n2)
    BY <2>2, <2>3
  <2>4. \A v \in version + 1 .. n2 : \E d \in out : IsDelta(d, v)
    BY <2>1, <2>2, <2>3
  <2> QED
    BY <1>2, <2>1, <2>3, <2>4, CommitAligned
<1>7. DeviceAligned'
  <2>1. ASSUME client.pc = "live"
        PROVE  Aligned(feed, Outgoing(t)', unacked, mirror.version, version')
    BY <1>2, <1>6, <2>1 DEF DeviceAligned
  <2>2. ASSUME client.pc = "pulling"
        PROVE  SeedAligned(feed, Outgoing(t)', unacked, client.pull, version')
    <3> SUFFICES ASSUME NEW p \in 1 .. Len(feed), Answers(feed[p], client.pull)
                 PROVE  /\ Aligned(feed, Outgoing(t)', unacked, feed[p].version, version')
                        /\ CoveredBefore(feed, p)
      BY DEF SeedAligned
    <3>1. feed[p].version \in Nat
      BY <1>2, DeltaVersion DEF Answers
    <3>2. Aligned(feed, Unsent, unacked, feed[p].version, version) /\ CoveredBefore(feed, p)
      BY <2>2 DEF DeviceAligned, SeedAligned
    <3> QED
      BY <1>6, <3>1, <3>2
  <2> QED
    BY <1>1, <2>1, <2>2 DEF DeviceAligned
<1> QED
  BY <1>1, <1>4, <1>5, <1>7

(* Requests that change nothing in the store: taken, or refused.             *)
LEMMA IdlePrefix ==
    ASSUME MirrorInv, PrefixInv, NEW t \in Tasks, NEW x,
           task' = [task EXCEPT ![t] = x],
           task[t] # Idle \/ \A u \in Tasks : task[u] = Idle,
           task[t].pc \notin {"reply", "publish"}, x.pc \notin {"reply", "publish"},
           client'.pc = client.pc, client'.pull = client.pull,
           UNCHANGED <<version, mirror, feed, unacked, applied>>
    PROVE  PrefixInv'
<1>1. version \in Nat
  BY VersionsInTransit
<1>2. task'[t] = x
  BY DEF MirrorInv, TasksAreKnown
<1>3. Outgoing(t)' = {}
  BY <1>2 DEF Outgoing
<1>4. NewDeltas(Outgoing(t)')
  BY <1>1, <1>3 DEF NewDeltas
<1>5. /\ version' \in Nat /\ version <= version'
      /\ \A f \in Outgoing(t)' : f.kind # "refused"
  BY <1>1, <1>3
<1> QED
  BY <1>4, <1>5, CommitPrefix

(* A request is taken when no other is being handled.                        *)
LEMMA AcceptPrefix ==
    ASSUME OneAtATime', MirrorInv, PrefixInv, NEW t \in Tasks,
           \/ PullBegin(t)
           \/ \E k \in Keys : DelBegin(t, k)
           \/ \E k \in Keys, v \in Values : SetBegin(t, k, v)
           \/ Refuse(t)
    PROVE  PrefixInv'
<1>0. client \in [pc : {"down", "pulling", "live"}, pull : Nat, asked : BOOLEAN]
  BY DEF MirrorInv, SyncInv, TypeOK
<1>1. ASSUME NEW req, Accept(t, req), req.pc \notin {"idle", "reply", "publish"},
             client' = client \/ client' = [client EXCEPT !.asked = TRUE],
             UNCHANGED <<mirror, feed, unacked, applied>>
      PROVE  PrefixInv'
  <2>1. /\ task' = [task EXCEPT ![t] = req] /\ task[t] = Idle
        /\ UNCHANGED version
    BY <1>1 DEF Accept, MayStart
  <2>4. \A u \in Tasks : task[u] = Idle
    <3>1. task'[t] = req /\ \A u \in Tasks : u # t => task'[u] = task[u]
      BY <2>1 DEF MirrorInv, TasksAreKnown
    <3>2. task'[t] # Idle
      BY <1>1, <3>1 DEF Idle
    <3> QED
      BY <2>1, <3>1, <3>2 DEF OneAtATime
  <2>2. task[t].pc \notin {"reply", "publish"}
    BY <2>1 DEF Idle
  <2>3. client'.pc = client.pc /\ client'.pull = client.pull
    BY <1>0, <1>1
  <2> QED
    BY <1>1, <2>1, <2>2, <2>3, <2>4, IdlePrefix
<1>2. CASE PullBegin(t)
  BY <1>1, <1>2 DEF PullBegin
<1>3. CASE \E k \in Keys : DelBegin(t, k)
  BY <1>1, <1>3 DEF DelBegin, device
<1>4. CASE \E k \in Keys, v \in Values : SetBegin(t, k, v)
  BY <1>1, <1>4 DEF SetBegin, device
<1>5. CASE Refuse(t)
  <2>1. /\ task' = [task EXCEPT ![t] = Idle] /\ task[t] # Idle
        /\ task[t].pc \notin {"reply", "publish"}
        /\ UNCHANGED <<version, client, mirror, feed, unacked, applied>>
    BY <1>5 DEF Refuse, Idle, device
  <2>2. Idle.pc \notin {"reply", "publish"}
    BY DEF Idle
  <2> QED
    BY <2>1, <2>2, IdlePrefix
<1> QED
  BY <1>2, <1>3, <1>4, <1>5

(* What a task publishes after its transaction.                              *)
LEMMA PublishPrefix ==
    ASSUME MirrorInv, PrefixInv, version' \in Nat, version <= version', NEW t \in Tasks,
           NEW out, Publish(t, out), NewDeltas(out), \A f \in out : f.kind = "delta",
           task[t].pc \in {"set", "del"},
           UNCHANGED device
    PROVE  PrefixInv'
<1> DEFINE x == IF out = {} THEN Idle ELSE [pc |-> "publish", out |-> out]
<1>1. task' = [task EXCEPT ![t] = x]
  BY DEF Publish
<1>2. task'[t] = x
  BY <1>1 DEF MirrorInv, TasksAreKnown
<1>3. Outgoing(t)' = out
  BY <1>2 DEF Outgoing, Idle
<1>4. task[t] # Idle /\ task[t].pc \notin {"reply", "publish"}
  BY DEF Idle
<1>5. x.pc # "reply"
  BY DEF Idle
<1>6. \A f \in Outgoing(t)' : f.kind # "refused"
  BY <1>3
<1>7. NewDeltas(Outgoing(t)')
  BY <1>3
<1>8. UNCHANGED <<client, mirror, feed, unacked, applied>>
  BY DEF device
<1> HIDE DEF x
<1> QED
  BY <1>1, <1>4, <1>5, <1>6, <1>7, <1>8, CommitPrefix

(* handle_set: the pruned rows have the next versions, the mutation the last.*)
LEMMA SetCommitPrefix ==
    ASSUME MirrorInv, PrefixInv, NEW t \in Tasks, SetCommit(t)
    PROVE  PrefixInv'
<1> DEFINE S == Stale
           c == Cardinality(S)
           n == version + c + 1
           d == [kind |-> "delta", op |-> "set", key |-> task[t].key,
                 value |-> task[t].value, version |-> n]
           out == PruneDeltas(S) \cup {d}
<1>1. TypeOK /\ S \in SUBSET Keys
  BY SyncAssumption DEF MirrorInv, SyncInv, Stale
<1>2. /\ c \in Nat /\ version \in Nat
      /\ \A e \in PruneDeltas(S) : e.kind = "delta" /\ e.version \in version + 1 .. version + c
      /\ \A e, f \in PruneDeltas(S) : e.version = f.version => e = f
      /\ \A v \in version + 1 .. version + c : \E e \in PruneDeltas(S) : IsDelta(e, v)
  BY <1>1, PruneDeltasAreNext
<1>3. /\ task[t].pc = "set" /\ version' = n /\ Publish(t, out) /\ UNCHANGED device
  BY DEF SetCommit
<1>4. d.kind = "delta" /\ d.version = n
  OBVIOUS
<1>5. n \in Nat /\ version <= n
  BY <1>2
<1> HIDE DEF d
<1>6. \A e \in out : e.kind = "delta" /\ e.version \in version + 1 .. n
  <2>1. \A e \in PruneDeltas(S) : e.version \in version + 1 .. n
    BY <1>2
  <2>2. n \in version + 1 .. n
    BY <1>2
  <2> QED
    BY <1>2, <1>4, <2>1, <2>2
<1>7. \A e, f \in out : e.version = f.version => e = f
  <2>1. \A e \in PruneDeltas(S) : e.version # n
    BY <1>2
  <2> QED
    BY <1>2, <1>4, <2>1
<1>8. ASSUME NEW v \in version + 1 .. n PROVE \E e \in out : IsDelta(e, v)
  <2>1. v = n => IsDelta(d, v)
    BY <1>4 DEF IsDelta
  <2>2. v # n => v \in version + 1 .. version + c
    BY <1>2
  <2> QED
    BY <1>2, <2>1, <2>2
<1> HIDE DEF out, n
<1>9. NewDeltas(out)
  BY <1>3, <1>6, <1>7, <1>8 DEF NewDeltas, IsDelta
<1> QED
  BY <1>3, <1>5, <1>6, <1>9, PublishPrefix

(* handle_del: one version for the row, none if there was none.              *)
LEMMA DelCommitPrefix ==
    ASSUME MirrorInv, PrefixInv, NEW t \in Tasks, DelCommit(t)
    PROVE  PrefixInv'
<1>1. version \in Nat
  BY VersionsInTransit
<1>2. CASE state[task[t].key] # Absent
  <2> DEFINE d == [kind |-> "delta", op |-> "del", key |-> task[t].key, value |-> Absent,
                   version |-> version + 1]
  <2>1. task[t].pc = "del" /\ version' = version + 1 /\ Publish(t, {d}) /\ UNCHANGED device
    BY <1>2 DEF DelCommit
  <2>2. d.kind = "delta" /\ d.version = version + 1
    OBVIOUS
  <2> HIDE DEF d
  <2>3. NewDeltas({d})
    BY <1>1, <2>1, <2>2 DEF NewDeltas, IsDelta
  <2> QED
    BY <1>1, <2>1, <2>2, <2>3, PublishPrefix
<1>3. CASE state[task[t].key] = Absent
  <2>1. task[t].pc = "del" /\ version' = version /\ Publish(t, {}) /\ UNCHANGED device
    BY <1>3 DEF DelCommit
  <2>2. NewDeltas({})
    BY <1>1, <2>1 DEF NewDeltas
  <2> QED
    BY <1>1, <2>1, <2>2, PublishPrefix
<1> QED
  BY <1>2, <1>3

(* handle_snapshot: the reply has the version that its prune reached.        *)
LEMMA SnapshotReadPrefix ==
    ASSUME MirrorInv, PrefixInv, NEW t \in Tasks, SnapshotRead(t)
    PROVE  PrefixInv'
<1> DEFINE S == Stale
           c == Cardinality(S)
           n == version + c
           r == [kind |-> "snapshot", pull |-> task[t].pull, version |-> n,
                 state |-> ContentsOf(state')]
           x == [pc |-> "reply", out |-> PruneDeltas(S), reply |-> r]
<1>1. TypeOK /\ S \in SUBSET Keys
  BY SyncAssumption DEF MirrorInv, SyncInv, Stale
<1>2. /\ c \in Nat /\ version \in Nat
      /\ \A e \in PruneDeltas(S) : e.kind = "delta" /\ e.version \in version + 1 .. version + c
      /\ \A e, f \in PruneDeltas(S) : e.version = f.version => e = f
      /\ \A v \in version + 1 .. version + c : \E e \in PruneDeltas(S) : IsDelta(e, v)
  BY <1>1, PruneDeltasAreNext
<1>3. /\ task[t].pc = "snapshot" /\ version' = n
      /\ task' = [task EXCEPT ![t] = x] /\ UNCHANGED device
  BY DEF SnapshotRead
<1>4. r.kind = "snapshot" /\ r.version = n
  OBVIOUS
<1> HIDE DEF r
<1>5. x.pc = "reply" /\ x.reply = r /\ x.out = PruneDeltas(S)
  OBVIOUS
<1> HIDE DEF x
<1>6. task'[t] = x
  BY <1>3 DEF MirrorInv, TasksAreKnown
<1>7. Outgoing(t)' = PruneDeltas(S) \cup {r}
  BY <1>5, <1>6 DEF Outgoing
<1> DEFINE out == PruneDeltas(S) \cup {r}
<1>8. NewDeltas(out)
  <2>1. \A d \in out : d.kind = "delta" => d \in PruneDeltas(S)
    BY <1>4
  <2>2. PruneDeltas(S) \subseteq out
    OBVIOUS
  <2> HIDE DEF out
  <2> QED
    BY <1>2, <1>3, <2>1, <2>2 DEF NewDeltas, IsDelta
<1>9. \A f \in out : f.kind # "refused"
  BY <1>2, <1>4
<1>10. version' \in Nat /\ version <= version'
  BY <1>2, <1>3
<1>11. task[t] # Idle /\ task[t].pc \notin {"reply", "publish"}
  BY <1>3 DEF Idle
<1>12. UNCHANGED <<client, mirror, feed, unacked, applied>>
  BY <1>3 DEF device
<1>13. NewDeltas(Outgoing(t)') /\ \A f \in Outgoing(t)' : f.kind # "refused"
  BY <1>7, <1>8, <1>9
<1>14. x.pc = "reply" => x.reply.kind = "snapshot" /\ x.reply.version = version'
  BY <1>3, <1>4, <1>5
<1> HIDE DEF out, n
<1> QED
  BY <1>3, <1>10, <1>11, <1>12, <1>13, <1>14, CommitPrefix

(* The same while a pull is under way: the snapshots before a new frame stay *)
(* aligned, and a frame that answers the pull has to be.                     *)
LEMMA AppendSeedAligned ==
    ASSUME NEW q \in Seq(Frames), NEW e \in Frames, NEW out, NEW out2, NEW un, NEW un2,
           NEW pull, NEW n \in Nat,
           SeedAligned(q, out, un, pull, n),
           \/ \A i \in 1 .. Len(q) : q[i].kind = "delta" => q[i].version < e.version
           \/ \A p \in 1 .. Len(q) : e.kind = "delta" /\ Answers(q[p], pull) =>
                 e.version <= q[p].version,
           \A d \in out : d.kind = "delta" => d = e \/ d \in out2,
           un2 \subseteq un,
           Answers(e, pull) =>
               /\ Aligned(Append(q, e), out2, un2, e.version, n)
               /\ \A i \in 1 .. Len(q) : q[i].kind = "delta" => q[i].version <= e.version
    PROVE  SeedAligned(Append(q, e), out2, un2, pull, n)
<1>1. /\ Len(q) \in Nat /\ Len(Append(q, e)) = Len(q) + 1
      /\ \A i \in 1 .. Len(q) : Append(q, e)[i] = q[i]
      /\ Append(q, e)[Len(q) + 1] = e
  BY AppendProperties, LenProperties
<1> SUFFICES ASSUME NEW p \in 1 .. Len(q) + 1, Answers(Append(q, e)[p], pull)
             PROVE  /\ Aligned(Append(q, e), out2, un2, Append(q, e)[p].version, n)
                    /\ CoveredBefore(Append(q, e), p)
  BY <1>1 DEF SeedAligned
<1>2. CASE p = Len(q) + 1
  <2>1. Append(q, e)[p] = e
    BY <1>1, <1>2
  <2>2. \A i \in 1 .. p - 1 : i \in 1 .. Len(q) /\ Append(q, e)[i] = q[i]
    BY <1>1, <1>2
  <2>3. CoveredBefore(Append(q, e), p)
    BY <2>1, <2>2 DEF CoveredBefore
  <2> QED
    BY <2>1, <2>3
<1>3. CASE p # Len(q) + 1
  <2>1. p \in 1 .. Len(q) /\ Append(q, e)[p] = q[p]
    BY <1>1, <1>3
  <2>2. Answers(q[p], pull) /\ q[p].version \in Nat
    BY <2>1, DeltaVersion DEF Answers
  <2>3. Aligned(q, out, un, q[p].version, n) /\ CoveredBefore(q, p)
    BY <2>1, <2>2 DEF SeedAligned
  <2>4. Aligned(Append(q, e), out2, un2, q[p].version, n)
    BY <2>1, <2>2, <2>3, AppendAligned
  <2>5. \A i \in 1 .. p - 1 : i \in 1 .. Len(q) /\ Append(q, e)[i] = q[i]
    BY <1>1, <2>1
  <2>6. CoveredBefore(Append(q, e), p)
    BY <2>1, <2>3, <2>5 DEF CoveredBefore
  <2> QED
    BY <2>1, <2>4, <2>6
<1> QED
  BY <1>2, <1>3

(* The first frame is dropped while a pull is under way.                     *)
LEMMA TailSeedAligned ==
    ASSUME NEW q \in Seq(Frames), q # <<>>, NEW out, NEW un, NEW un2, NEW pull, NEW n \in Nat,
           SeedAligned(q, out, un, pull, n),
           un2 = un \/ (Head(q).kind = "delta" /\ un2 = un \cup {Head(q)})
    PROVE  SeedAligned(Tail(q), out, un2, pull, n)
<1>1. /\ Len(q) \in Nat \ {0} /\ Head(q) = q[1]
      /\ Len(Tail(q)) = Len(q) - 1
      /\ \A i \in 1 .. Len(q) - 1 : Tail(q)[i] = q[i + 1]
  BY HeadTailProperties, LenProperties, EmptySeq
<1> SUFFICES ASSUME NEW p \in 1 .. Len(q) - 1, Answers(Tail(q)[p], pull)
             PROVE  /\ Aligned(Tail(q), out, un2, Tail(q)[p].version, n)
                    /\ CoveredBefore(Tail(q), p)
  BY <1>1 DEF SeedAligned
<1> DEFINE b == q[p + 1].version
<1>2. p + 1 \in 1 .. Len(q) /\ Tail(q)[p] = q[p + 1] /\ 1 \in 1 .. (p + 1) - 1
  BY <1>1
<1>3. Answers(q[p + 1], pull) /\ b \in Nat
  BY <1>2, DeltaVersion DEF Answers
<1>4. Aligned(q, out, un, b, n) /\ CoveredBefore(q, p + 1)
  BY <1>2, <1>3 DEF SeedAligned
<1>5. Head(q).kind = "delta" => Head(q).version <= b
  BY <1>1, <1>2, <1>4 DEF CoveredBefore
<1>6. \A d \in un2 : d.version <= b
  BY <1>4, <1>5 DEF Aligned
<1>7. CoveredBefore(Tail(q), p)
  <2>1. \A i \in 1 .. p - 1 :
           i + 1 \in 1 .. (p + 1) - 1 /\ Tail(q)[i] = q[i + 1]
    BY <1>1
  <2> QED
    BY <1>2, <1>4, <2>1 DEF CoveredBefore
<1> HIDE DEF b
<1>8. b <= b
  BY <1>3
<1>9. Aligned(Tail(q), out, un2, b, n)
  BY <1>3, <1>4, <1>5, <1>6, <1>8, TailAligned
<1> QED
  BY <1>2, <1>7, <1>9 DEF b

(* A task sends the oldest of its deltas, or the reply, which is the store   *)
(* as it is.                                                                 *)
LEMMA SendsPrefix ==
    ASSUME MirrorInv, PrefixInv, NEW t \in Tasks, NEW x, NEW e \in Frames,
           task' = [task EXCEPT ![t] = x], x.pc # "reply", task[t] # Idle,
           e \in Outgoing(t), Outgoing(t)' = Outgoing(t) \ {e},
           \/ e.kind = "delta" /\ \A d \in Outgoing(t) \ {e} :
                 d.kind = "delta" => e.version < d.version
           \/ e.kind = "snapshot" /\ e.version = version,
           Emit(e),
           UNCHANGED <<version, client, mirror, unacked, applied>>
    PROVE  PrefixInv'
<1> USE DEF PrefixInv
<1>1. /\ OneAtATime'
      /\ \A u \in Tasks : u # t => task'[u] = Idle
      /\ task'[t] = x
      /\ Unsent = Outgoing(t) /\ Unsent' = Unsent \ {e} /\ e \in Unsent
  <2>1. TasksAreKnown
    BY DEF MirrorInv
  <2> QED
    BY <2>1, OnlyTask
<1>2. /\ feed \in Seq(Frames) /\ version \in Nat /\ mirror.version \in Nat /\ Len(feed) \in Nat
      /\ \A i \in 1 .. Len(feed) :
            /\ feed[i] \in Elems(feed)
            /\ feed[i].kind = "delta" => feed[i].version <= version
      /\ \A d \in unacked : d.version <= version
  BY VersionsInTransit, LenProperties DEF MirrorInv, SyncInv, TypeOK
<1>3. Elems(feed)' \subseteq Elems(feed) \cup {e} /\ unacked' = unacked
  <2>1. Elems(Append(feed, e)) \subseteq Elems(feed) \cup {e}
    BY <1>2, AppendElems
  <2>2. feed' = feed \/ feed' = Append(feed, e)
    BY DEF Emit
  <2> QED
    BY <2>1, <2>2 DEF Elems
<1>4. UnsentIsNewer'
  <2> SUFFICES ASSUME NEW d \in Unsent \ {e}, d.kind = "delta"
               PROVE  /\ \A f \in Elems(feed)' \cup unacked :
                            f.kind = "delta" => f.version < d.version
                      /\ \A g \in Unsent \ {e} : IsDelta(g, d.version) => g = d
    BY <1>1, <1>3 DEF UnsentIsNewer
  <2>1. /\ \A f \in Elems(feed) \cup unacked : f.kind = "delta" => f.version < d.version
        /\ \A g \in Unsent : IsDelta(g, d.version) => g = d
    BY DEF UnsentIsNewer
  <2>2. e.kind = "delta" => e.version < d.version
    BY <1>1
  <2> QED
    BY <1>3, <2>1, <2>2
<1>5. RepliesAreCurrent'
  <2>1. \A f \in InTransit' : f \in InTransit
    BY <1>1, <1>3 DEF InTransit
  <2>2. \A u \in Tasks : task'[u].pc # "reply"
    BY <1>1 DEF Idle
  <2> QED
    BY <2>1, <2>2 DEF RepliesAreCurrent
<1>6. \A d \in Unsent : d.kind = "delta" => d = e \/ d \in Unsent'
  BY <1>1
<1>7. \/ e.kind = "snapshot" /\ e.version = version
      \/ \A i \in 1 .. Len(feed) : feed[i].kind = "delta" => feed[i].version < e.version
  BY <1>1, <1>2 DEF UnsentIsNewer
<1>8. PICK out2 : out2 = Unsent'
  OBVIOUS
<1>9. ASSUME client.pc = "live"
      PROVE  Aligned(Append(feed, e), out2, unacked, mirror.version, version)
  <2>1. Aligned(feed, Unsent, unacked, mirror.version, version)
    BY <1>9 DEF DeviceAligned
  <2>2. \/ e.kind = "delta" => e.version <= mirror.version
        \/ \A i \in 1 .. Len(feed) : feed[i].kind = "delta" => feed[i].version < e.version
    BY <1>7
  <2> QED
    BY <1>2, <1>6, <1>8, <2>1, <2>2, AppendAligned
<1>10. ASSUME client.pc = "pulling"
       PROVE  SeedAligned(Append(feed, e), out2, unacked, client.pull, version)
  <2>1. SeedAligned(feed, Unsent, unacked, client.pull, version)
    BY <1>10 DEF DeviceAligned
  <2>2. \/ \A i \in 1 .. Len(feed) : feed[i].kind = "delta" => feed[i].version < e.version
        \/ \A p \in 1 .. Len(feed) : e.kind = "delta" /\ Answers(feed[p], client.pull) =>
              e.version <= feed[p].version
    BY <1>7
  <2>3. ASSUME Answers(e, client.pull)
        PROVE  /\ Aligned(Append(feed, e), out2, unacked, e.version, version)
               /\ \A i \in 1 .. Len(feed) : feed[i].kind = "delta" => feed[i].version <= e.version
    <3>1. e.kind = "snapshot" /\ e.version = version
      BY <2>3 DEF Answers
    <3>2. Append(feed, e) \in Seq(Frames)
      BY <1>2, AppendProperties
    <3>3. \A i \in 1 .. Len(Append(feed, e)) :
             Append(feed, e)[i].kind = "delta" => Append(feed, e)[i].version <= version
      BY <1>2, <3>1, AppendProperties
    <3> QED
      BY <1>2, <3>1, <3>2, <3>3, CurrentAligned
  <2> QED
    BY <1>2, <1>6, <1>8, <2>1, <2>2, <2>3, AppendSeedAligned
<1>11. DeviceAligned'
  <2>1. client.pc # "down" => feed' = Append(feed, e)
    BY DEF Emit
  <2> QED
    BY <1>8, <1>9, <1>10, <2>1 DEF DeviceAligned
<1> QED
  BY <1>1, <1>4, <1>5, <1>11

(* The reply goes out before the deltas of its transaction, and these in the *)
(* order of their versions.                                                  *)
LEMMA SendPrefix ==
    ASSUME MirrorInv, PrefixInv, NEW t \in Tasks, SendReply(t) \/ SendDelta(t)
    PROVE  PrefixInv'
<1>1. /\ \A f \in InTransit : f \in Frames
      /\ TasksAreKnown /\ TaskOK(task[t])
  BY InTransitType DEF MirrorInv, SyncInv, TypeOK
<1>2. \A f \in Outgoing(t) : f \in InTransit /\ f \in Unsent
  BY DEF InTransit, Unsent
<1>3. ASSUME NEW out, Publish(t, out)
      PROVE  \E x : /\ task' = [task EXCEPT ![t] = x] /\ x.pc # "reply"
                    /\ Outgoing(t)' = out
  <2> DEFINE x == IF out = {} THEN Idle ELSE [pc |-> "publish", out |-> out]
  <2>1. task' = [task EXCEPT ![t] = x]
    BY <1>3 DEF Publish
  <2>2. task'[t] = x
    BY <1>1, <2>1 DEF TasksAreKnown
  <2>3. Outgoing(t)' = out
    BY <2>2 DEF Outgoing, Idle
  <2>4. x.pc # "reply"
    BY DEF Idle
  <2> HIDE DEF x
  <2> QED
    BY <2>1, <2>3, <2>4
<1>4. task[t] # Idle
  BY DEF SendReply, SendDelta, Idle
<1>5. CASE SendReply(t)
  <2> DEFINE e == task[t].reply
  <2>1. /\ task[t].pc = "reply" /\ Emit(e) /\ Publish(t, task[t].out)
        /\ UNCHANGED <<version, client, mirror, unacked, applied>>
    BY <1>5 DEF SendReply
  <2>2. e.kind = "snapshot" /\ e.version = version
    BY <2>1 DEF PrefixInv, RepliesAreCurrent
  <2>3. Outgoing(t) = task[t].out \cup {e}
    BY <2>1 DEF Outgoing
  <2>4. task[t].out \subseteq Deltas
    BY <1>1, <2>1 DEF TaskOK, Idle
  <2>5. task[t].out = Outgoing(t) \ {e}
    BY <2>2, <2>3, <2>4 DEF Deltas
  <2>6. e \in Frames /\ e \in Outgoing(t)
    BY <1>1, <1>2, <2>3
  <2>7. PICK x : /\ task' = [task EXCEPT ![t] = x] /\ x.pc # "reply"
                 /\ Outgoing(t)' = task[t].out
    BY <1>3, <2>1
  <2> HIDE DEF e
  <2> QED
    BY <1>4, <2>1, <2>2, <2>5, <2>6, <2>7, SendsPrefix
<1>6. CASE SendDelta(t)
  <2>1. PICK e \in task[t].out :
           /\ \A d \in task[t].out : e.version <= d.version
           /\ Emit(e) /\ Publish(t, task[t].out \ {e})
    BY <1>6 DEF SendDelta
  <2>2. task[t].pc = "publish" /\ UNCHANGED <<version, client, mirror, unacked, applied>>
    BY <1>6 DEF SendDelta
  <2>3. Outgoing(t) = task[t].out
    BY <2>2 DEF Outgoing
  <2>4. task[t].out \subseteq Deltas
    BY <1>1, <2>2 DEF TaskOK, Idle
  <2>5. \A d \in Outgoing(t) : d \in Frames /\ d.kind = "delta" /\ d.version \in Nat
    BY <2>3, <2>4 DEF Deltas, Frames
  <2>6. \A d \in Outgoing(t) \ {e} : d.kind = "delta" => e.version < d.version
    <3> SUFFICES ASSUME NEW d \in Outgoing(t) \ {e} PROVE e.version < d.version
      OBVIOUS
    <3>1. d.version # e.version
      BY <1>2, <2>1, <2>3, <2>5 DEF PrefixInv, UnsentIsNewer, IsDelta
    <3> QED
      BY <2>1, <2>3, <2>5, <3>1
  <2>7. PICK x : /\ task' = [task EXCEPT ![t] = x] /\ x.pc # "reply"
                 /\ Outgoing(t)' = task[t].out \ {e}
    BY <1>3, <2>1
  <2>8. e \in Frames /\ e \in Outgoing(t) /\ e.kind = "delta" /\ Outgoing(t)' = Outgoing(t) \ {e}
    BY <2>1, <2>3, <2>5, <2>7
  <2> QED
    BY <1>4, <2>1, <2>2, <2>6, <2>7, <2>8, SendsPrefix
<1> QED
  BY <1>5, <1>6

(* What the client does leaves the tasks alone, and puts no new frame on its *)
(* way.                                                                      *)
LEMMA QuietPrefix ==
    ASSUME PrefixInv, UNCHANGED <<version, task>>,
           Elems(feed)' \cup unacked' \subseteq Elems(feed) \cup unacked,
           DeviceAligned', applied' = 1 .. mirror'.version
    PROVE  PrefixInv'
<1> USE DEF PrefixInv
<1>1. Unsent' = Unsent
  BY TasksUntouched
<1>2. OneAtATime'
  BY DEF OneAtATime
<1>3. UnsentIsNewer'
  BY <1>1 DEF UnsentIsNewer
<1>4. RepliesAreCurrent'
  BY <1>1 DEF RepliesAreCurrent, InTransit
<1> QED
  BY <1>2, <1>3, <1>4

(* The frame that is taken, and the rest of the feed.                        *)
LEMMA TakesPrefix ==
    ASSUME MirrorInv, Received
    PROVE  /\ feed \in Seq(Frames) /\ feed # <<>> /\ feed' = Tail(feed)
           /\ Head(feed) \in Frames /\ Head(feed) \in InTransit
           /\ Head(feed) = feed[1] /\ 1 \in 1 .. Len(feed)
           /\ Head(feed) \in Elems(feed) /\ Elems(feed)' \subseteq Elems(feed)
           /\ version \in Nat /\ mirror.version \in Nat
           /\ Unsent \in SUBSET Frames
<1>1. TypeOK
  BY DEF MirrorInv, SyncInv
<1>2. feed \in Seq(Frames) /\ feed # <<>> /\ feed' = Tail(feed)
  BY <1>1 DEF TypeOK, Frames, Received
<1>3. Head(feed) \in Elems(feed) /\ Elems(feed)' \subseteq Elems(feed)
  BY <1>2, TailElems DEF Elems
<1>4. Head(feed) = feed[1] /\ 1 \in 1 .. Len(feed)
  BY <1>2, LenProperties, EmptySeq
<1>5. Unsent \in SUBSET Frames
  BY <1>1, InTransitType DEF InTransit
<1> QED
  BY <1>1, <1>2, <1>3, <1>4, <1>5, Takes DEF TypeOK

(* The snapshot of a pull: with the deltas that follow it nothing is missing.*)
LEMMA SeedPrefix ==
    ASSUME MirrorInv, PrefixInv, Seed
    PROVE  PrefixInv'
<1> DEFINE f == Head(feed)
<1>1. /\ feed \in Seq(Frames) /\ feed # <<>> /\ feed' = Tail(feed)
      /\ f \in Frames /\ f = feed[1] /\ 1 \in 1 .. Len(feed)
      /\ Elems(feed)' \subseteq Elems(feed) /\ version \in Nat
  BY TakesPrefix DEF Seed
<1>2. /\ client.pc = "pulling" /\ Answers(f, client.pull)
      /\ mirror'.version = f.version /\ applied' = 1 .. f.version
      /\ client' = [client EXCEPT !.pc = "live"]
      /\ UNCHANGED <<version, task, unacked>>
  BY DEF Seed, host, Answers
<1>3. f.version \in Nat /\ f.kind = "snapshot"
  BY <1>1, <1>2, FrameKinds DEF Answers, Snapshots
<1>4. Aligned(feed, Unsent, unacked, f.version, version)
  BY <1>1, <1>2 DEF PrefixInv, DeviceAligned, SeedAligned
<1>5. client'.pc = "live"
  BY <1>2 DEF MirrorInv, SyncInv, TypeOK
<1>6. Aligned(Tail(feed), Unsent, unacked, f.version, version)
  <2>1. \A d \in unacked : d.version <= f.version
    BY <1>4 DEF Aligned
  <2>2. f.version <= f.version /\ f.kind # "delta"
    BY <1>3
  <2> QED
    BY <1>1, <1>3, <1>4, <2>1, <2>2, TailAligned
<1>7. DeviceAligned'
  BY <1>1, <1>2, <1>5, <1>6, TasksUntouched DEF DeviceAligned
<1> QED
  BY <1>1, <1>2, <1>7, QuietPrefix

(* The first delta the mirror does not have is the next one.                 *)
LEMMA ApplyDeltaPrefix ==
    ASSUME MirrorInv, PrefixInv, ApplyDelta
    PROVE  PrefixInv'
<1> DEFINE d == Head(feed)
           b == mirror.version
<1>1. /\ feed \in Seq(Frames) /\ feed # <<>> /\ feed' = Tail(feed)
      /\ d \in Frames /\ d \in InTransit /\ d \in Elems(feed) /\ d = feed[1] /\ 1 \in 1 .. Len(feed)
      /\ Elems(feed)' \subseteq Elems(feed) /\ version \in Nat /\ b \in Nat
  BY TakesPrefix DEF ApplyDelta
<1>2. /\ client.pc = "live" /\ d.kind = "delta" /\ ~(d.version <= b)
      /\ mirror'.version = d.version /\ applied' = applied \cup {d.version}
      /\ UNCHANGED <<version, task, client, unacked>>
  BY DEF ApplyDelta, host, Covered
<1>3. d.version \in 1 .. version
  BY <1>1, <1>2, VersionsInTransit
<1>4. Aligned(feed, Unsent, unacked, b, version) /\ applied = 1 .. b
  BY <1>2 DEF PrefixInv, DeviceAligned
<1> HIDE DEF d, b
<1>5. d.version = b + 1
  <2>1. b + 1 \in b + 1 .. version
    BY <1>1, <1>2, <1>3
  <2>2. ASSUME NEW i \in 1 .. Len(feed), IsDelta(feed[i], b + 1)
        PROVE  d.version = b + 1
    <3>1. CASE i = 1
      BY <1>1, <2>2, <3>1 DEF IsDelta
    <3>2. CASE i # 1
      <4>1. 1 \in 1 .. i - 1
        BY <3>2
      <4>2. feed[i].kind = "delta" /\ feed[i].version > b /\ feed[i].version = b + 1
        BY <1>1, <2>2 DEF IsDelta
      <4>3. feed[1].version < feed[i].version
        BY <1>1, <1>2, <1>4, <4>1, <4>2 DEF Aligned, Ascending
      <4> QED
        BY <1>1, <1>2, <1>3, <4>2, <4>3
    <3> QED
      BY <3>1, <3>2
  <2>3. ASSUME NEW e \in Unsent, IsDelta(e, b + 1)
        PROVE  d.version = b + 1
    <3>1. d.version < e.version
      BY <1>1, <1>2, <2>3 DEF PrefixInv, UnsentIsNewer, IsDelta
    <3> QED
      BY <1>1, <1>2, <1>3, <2>3, <3>1 DEF IsDelta
  <2> QED
    BY <1>4, <2>1, <2>2, <2>3 DEF Aligned, Complete
<1>6. Aligned(Tail(feed), Unsent, unacked, b + 1, version)
  <2>1. \A e \in unacked : e.version <= b + 1
    <3> SUFFICES ASSUME NEW e \in unacked PROVE e.version <= b + 1
      OBVIOUS
    <3>1. e.version \in Nat
      BY DEF MirrorInv, SyncInv, TypeOK, Deltas
    <3>2. e.version <= b
      BY <1>4 DEF Aligned
    <3> QED
      BY <1>1, <3>1, <3>2
  <2>2. b + 1 \in Nat /\ b <= b + 1
    BY <1>1
  <2>3. Head(feed).kind = "delta" => Head(feed).version <= b + 1
    BY <1>5, <2>2 DEF d
  <2> QED
    BY <1>1, <1>4, <2>1, <2>2, <2>3, TailAligned
<1>7. DeviceAligned'
  BY <1>1, <1>2, <1>5, <1>6, TasksUntouched DEF DeviceAligned
<1>8. applied' = 1 .. mirror'.version
  BY <1>1, <1>2, <1>4, <1>5
<1> QED
  BY <1>1, <1>2, <1>7, <1>8, QuietPrefix

(* A frame is dropped while the snapshot is not there.                       *)
LEMMA DropPrefix ==
    ASSUME MirrorInv, PrefixInv, Drop
    PROVE  PrefixInv'
<1> DEFINE f == Head(feed)
<1>1. /\ feed \in Seq(Frames) /\ feed # <<>> /\ feed' = Tail(feed)
      /\ f \in Elems(feed) /\ Elems(feed)' \subseteq Elems(feed) /\ version \in Nat
  BY TakesPrefix DEF Drop
<1>2. /\ client.pc = "pulling"
      /\ unacked' = unacked \/ (f.kind = "delta" /\ unacked' = unacked \cup {f})
      /\ UNCHANGED <<version, task, client, mirror, applied>>
  BY DEF Drop, host
<1>3. SeedAligned(feed, Unsent, unacked, client.pull, version)
  BY <1>2 DEF PrefixInv, DeviceAligned
<1>4. PICK un : un = unacked'
  OBVIOUS
<1>5. SeedAligned(Tail(feed), Unsent, un, client.pull, version)
  BY <1>1, <1>2, <1>3, <1>4, TailSeedAligned
<1>6. DeviceAligned'
  BY <1>1, <1>2, <1>4, <1>5, TasksUntouched DEF DeviceAligned
<1>7. Elems(feed)' \cup unacked' \subseteq Elems(feed) \cup unacked
  BY <1>1, <1>2
<1>8. applied' = 1 .. mirror'.version
  BY <1>2 DEF PrefixInv
<1> QED
  BY <1>2, <1>6, <1>7, <1>8, QuietPrefix

(* A covered delta or a late reply is forgotten.                             *)
LEMMA SkipFramePrefix ==
    ASSUME MirrorInv, PrefixInv, SkipFrame
    PROVE  PrefixInv'
<1> DEFINE b == mirror.version
<1>1. /\ feed \in Seq(Frames) /\ feed # <<>> /\ feed' = Tail(feed)
      /\ Elems(feed)' \subseteq Elems(feed) /\ version \in Nat /\ b \in Nat
  BY TakesPrefix DEF SkipFrame
<1>2. /\ client.pc = "live" /\ (Head(feed).kind = "delta" => Head(feed).version <= b)
      /\ UNCHANGED <<version, task, client, mirror, unacked, applied>>
  BY DEF SkipFrame, host, Covered
<1>3. Aligned(feed, Unsent, unacked, b, version)
  BY <1>2 DEF PrefixInv, DeviceAligned
<1>4. Aligned(Tail(feed), Unsent, unacked, b, version)
  <2>1. b <= b /\ \A d \in unacked : d.version <= b
    BY <1>1, <1>3 DEF Aligned
  <2> HIDE DEF b
  <2> QED
    BY <1>1, <1>2, <1>3, <2>1, TailAligned
<1>5. DeviceAligned'
  BY <1>1, <1>2, <1>4, TasksUntouched DEF DeviceAligned
<1>6. applied' = 1 .. mirror'.version
  BY <1>2 DEF PrefixInv
<1> QED
  BY <1>1, <1>2, <1>5, <1>6, QuietPrefix

(* What is delivered again is covered: by the mirror, or by every snapshot   *)
(* that answers the pull.                                                    *)
LEMMA RedeliverPrefix ==
    ASSUME MirrorInv, PrefixInv, Redeliver
    PROVE  PrefixInv'
<1>1. PICK e \in unacked : feed' = Append(feed, e) /\ unacked' = unacked \ {e}
  BY DEF Redeliver
<1>2. UNCHANGED <<version, task, client, mirror, applied>>
  BY DEF Redeliver, host
<1>3. /\ feed \in Seq(Frames) /\ version \in Nat /\ e \in Frames /\ e.kind = "delta"
      /\ mirror.version \in Nat
  <2>1. e \in Deltas /\ mirror.version \in Nat
    BY DEF MirrorInv, SyncInv, TypeOK
  <2> QED
    BY <2>1, VersionsInTransit DEF Frames, Deltas
<1>4. Elems(feed)' \subseteq Elems(feed) \cup {e}
  BY <1>1, <1>3, AppendElems DEF Elems
<1>5. PICK un : un = unacked \ {e}
  OBVIOUS
<1>6. un \subseteq unacked /\ \A d \in Unsent : d.kind = "delta" => d = e \/ d \in Unsent
  BY <1>5
<1>7. ASSUME client.pc = "live"
      PROVE  Aligned(Append(feed, e), Unsent, un, mirror.version, version)
  <2>1. Aligned(feed, Unsent, unacked, mirror.version, version)
    BY <1>7 DEF PrefixInv, DeviceAligned
  <2>2. e.version <= mirror.version
    BY <2>1 DEF Aligned
  <2> QED
    BY <1>3, <1>6, <2>1, <2>2, AppendAligned
<1>8. ASSUME client.pc = "pulling"
      PROVE  SeedAligned(Append(feed, e), Unsent, un, client.pull, version)
  <2>1. SeedAligned(feed, Unsent, unacked, client.pull, version)
    BY <1>8 DEF PrefixInv, DeviceAligned
  <2>2. \A p \in 1 .. Len(feed) : e.kind = "delta" /\ Answers(feed[p], client.pull) =>
           e.version <= feed[p].version
    BY <2>1 DEF SeedAligned, Aligned
  <2>3. ~ Answers(e, client.pull)
    BY <1>3 DEF Answers
  <2> QED
    BY <1>3, <1>6, <2>1, <2>2, <2>3, AppendSeedAligned
<1>9. DeviceAligned'
  BY <1>1, <1>2, <1>5, <1>7, <1>8, TasksUntouched DEF DeviceAligned
<1>10. Elems(feed)' \cup unacked' \subseteq Elems(feed) \cup unacked
  BY <1>1, <1>4
<1>11. applied' = 1 .. mirror'.version
  BY <1>2 DEF PrefixInv
<1> QED
  BY <1>2, <1>9, <1>10, <1>11, QuietPrefix

(* Connecting, where no frame of the new pull is under way, disconnecting,   *)
(* and the clock.                                                            *)
LEMMA ConnectionPrefix ==
    ASSUME MirrorInv, PrefixInv, Connect \/ Disconnect \/ Tick \/ UNCHANGED vars
    PROVE  PrefixInv'
<1>0. client \in [pc : {"down", "pulling", "live"}, pull : Nat, asked : BOOLEAN]
  BY DEF MirrorInv, SyncInv, TypeOK
<1>1. UNCHANGED <<version, task, mirror, applied>>
  BY DEF Connect, Disconnect, Tick, vars, host, device
<1>2. applied' = 1 .. mirror'.version
  BY <1>1 DEF PrefixInv
<1>3. CASE Connect
  <2>1. client'.pc = "pulling" /\ client'.pull = client.pull + 1 /\ UNCHANGED <<feed, unacked>>
    BY <1>3 DEF Connect
  <2>2. SeedAligned(feed, Unsent, unacked, client.pull + 1, version)
    <3> SUFFICES ASSUME NEW p \in 1 .. Len(feed), Answers(feed[p], client.pull + 1)
                 PROVE  FALSE
      BY DEF SeedAligned
    <3>1. feed[p] \in InTransit /\ TrueFrame(feed[p])
      BY VersionsInTransit DEF MirrorInv, FramesAreTrue
    <3>2. feed[p].pull <= client.pull
      BY <3>1 DEF Answers, TrueFrame, TrueSnapshot
    <3> QED
      BY <1>0, <3>2 DEF Answers
  <2>3. DeviceAligned'
    BY <1>1, <2>1, <2>2, TasksUntouched DEF DeviceAligned
  <2>4. Elems(feed)' \cup unacked' \subseteq Elems(feed) \cup unacked
    BY <2>1 DEF Elems
  <2> QED
    BY <1>1, <1>2, <2>3, <2>4, QuietPrefix
<1>4. CASE Disconnect
  <2>1. client'.pc = "down" /\ feed' = <<>> /\ unacked' = {}
    BY <1>0, <1>4 DEF Disconnect
  <2>2. DeviceAligned'
    BY <2>1 DEF DeviceAligned
  <2>3. Elems(feed)' \cup unacked' \subseteq Elems(feed) \cup unacked
    BY <2>1 DEF Elems
  <2> QED
    BY <1>1, <1>2, <2>2, <2>3, QuietPrefix
<1>5. CASE Tick \/ UNCHANGED vars
  <2>1. UNCHANGED <<client, feed, unacked>>
    BY <1>5 DEF Tick, vars, device
  <2>2. DeviceAligned'
    BY <1>1, <2>1, TasksUntouched DEF DeviceAligned, PrefixInv
  <2>3. Elems(feed)' \cup unacked' \subseteq Elems(feed) \cup unacked
    BY <2>1 DEF Elems
  <2> QED
    BY <1>1, <1>2, <2>2, <2>3, QuietPrefix
<1> QED
  BY <1>3, <1>4, <1>5

(* Without faults no request is refused, no pull is given up, and the host   *)
(* is not restarted.                                                         *)
LEMMA NoFault ==
    ASSUME faults = 0, faults' = 0, MirrorInv, PrefixInv
    PROVE  /\ ~PullFails /\ ~HostRestart
           /\ \A t \in Tasks : ~SnapshotTooLarge(t) /\ ~SnapshotFails(t)
<1>1. ~Fault
  BY DEF Fault
<1>2. ASSUME PullFails PROVE FALSE
  <2>1. Received /\ Head(feed).kind = "refused"
    BY <1>1, <1>2 DEF PullFails
  <2> QED
    BY <2>1, TakesPrefix DEF PrefixInv, RepliesAreCurrent
<1> QED
  BY <1>1, <1>2 DEF HostRestart, SnapshotTooLarge, SnapshotFails

-----------------------------------------------------------------------------
(* The theorems.                                                            *)

(* Every step keeps the invariant, and no step takes the mirror back.        *)
LEMMA MirrorStep ==
    ASSUME MirrorInv, [Next]_vars
    PROVE  MirrorInv' /\ mirror'.version >= mirror.version
<1>0. mirror.version \in Nat
  BY DEF MirrorInv, SyncInv, TypeOK
<1>1. ASSUME NEW t \in Tasks,
             SetCommit(t) \/ DelCommit(t) \/ Refuse(t) \/ SnapshotRead(t) \/ SnapshotTooLarge(t)
             \/ SnapshotFails(t) \/ SendReply(t) \/ SendDelta(t) \/ PullBegin(t)
             \/ (\E k \in Keys : DelBegin(t, k))
             \/ (\E k \in Keys, v \in Values : SetBegin(t, k, v))
      PROVE  MirrorInv' /\ mirror' = mirror
  <2>1. mirror' = mirror
    BY <1>1 DEF SetCommit, DelCommit, Refuse, SnapshotRead, SnapshotTooLarge, SnapshotFails,
                SendReply, SendDelta, PullBegin, DelBegin, SetBegin, device
  <2>2. MirrorInv'
    BY <1>1, SetCommitKeeps, DelCommitKeeps, SnapshotKeeps, SnapshotFailsKeeps, SendKeeps,
       RequestsKeep
  <2> QED
    BY <2>1, <2>2
<1>2. ASSUME NEW t \in Tasks, NEW v \in Values, Heartbeat(t, v)
      PROVE  MirrorInv' /\ mirror' = mirror
  <2>1. OwnBeat \in Keys /\ SetBegin(t, OwnBeat, v)
    BY <1>2, SyncAssumption DEF Heartbeat
  <2> QED
    BY <1>1, <2>1
<1>3. CASE Seed \/ ApplyDelta
  BY <1>0, <1>3, SeedKeeps, ApplyDeltaKeeps DEF MirrorInv, SyncInv, TypeOK
<1>4. CASE Drop \/ PullFails \/ SkipFrame \/ Redeliver \/ Connect \/ Disconnect
           \/ Tick \/ UNCHANGED vars
  BY <1>0, <1>4, MirrorUntouched
<1>5. CASE HostRestart
  BY <1>0, <1>5, RestartKeeps
<1> QED
  BY <1>0, <1>1, <1>2, <1>3, <1>4, <1>5 DEF Next, HostStep, ClientStep

(* An empty store, an empty mirror and nobody connected.                     *)
LEMMA MirrorInit ==
    ASSUME Init
    PROVE  MirrorInv
<1> USE DEF Init
<1>1. state \in [Keys -> Rows \cup {Absent}] /\ Empty \in Contents /\ ContentsOf(state) = Empty
  BY DEF Empty, Contents, ContentsOf
<1>2. hist \in [0 .. version -> Contents] /\ hist[0] = Empty /\ mirror.state = hist[mirror.version]
  BY <1>1
<1>3. \A t \in Tasks : task[t] = Idle /\ Outgoing(t) = {} /\ TaskOK(task[t])
  BY DEF Outgoing, Idle, TaskOK
<1>4. InTransit = {}
  BY <1>3 DEF InTransit, Unsent, Elems
<1>5. TypeOK
  BY <1>1, <1>2, <1>3, SyncAssumption DEF TypeOK
<1>6. MirrorIsExact /\ HistoryIsKept /\ MirrorFollows
  BY <1>1, <1>2 DEF MirrorIsExact, HistoryIsKept, MirrorFollows
<1>7. TasksAreKnown
  BY DEF TasksAreKnown, Idle
<1> QED
  BY <1>4, <1>5, <1>6, <1>7 DEF MirrorInv, SyncInv, FramesAreTrue

(* The mirror of a device that missed nothing is the host's store as it was  *)
(* at the mirror's version, whatever concurrent tasks publish in whatever    *)
(* order, and whatever is redelivered or covered by a snapshot.              *)
THEOREM MirrorStaysExact == Spec => []SyncInv
<1>1. MirrorInv => SyncInv
  BY DEF MirrorInv
<1> QED
  BY <1>1, MirrorInit, MirrorStep, PTL DEF Spec

(* Nothing takes the mirror back to an earlier version: neither a redelivered *)
(* delta nor the snapshot of a pull that was given up.                       *)
THEOREM MirrorNeverGoesBack == Spec => MirrorMovesForward
<1>1. MirrorInv /\ [Next]_vars => MirrorInv' /\ [mirror'.version >= mirror.version]_vars
  BY MirrorStep
<1> QED
  BY <1>1, MirrorInit, PTL DEF Spec, MirrorMovesForward

(* A step that neither starts a second request nor is a fault keeps the      *)
(* prefix.                                                                   *)
LEMMA PrefixStep ==
    ASSUME Undisturbed, Undisturbed', MirrorInv, PrefixInv, [Next]_vars
    PROVE  PrefixInv'
<1>0. OneAtATime' /\ faults = 0 /\ faults' = 0
  BY DEF Undisturbed
<1>1. ASSUME NEW t \in Tasks, HostStep(t) \/ PullBegin(t)
      PROVE  PrefixInv'
  BY <1>0, <1>1, NoFault, AcceptPrefix, SetCommitPrefix, DelCommitPrefix, SnapshotReadPrefix,
     SendPrefix DEF HostStep
<1>2. ASSUME NEW t \in Tasks,
             \/ \E k \in Keys : DelBegin(t, k)
             \/ \E k \in Keys, v \in Values : SetBegin(t, k, v)
             \/ \E v \in Values : Heartbeat(t, v)
      PROVE  PrefixInv'
  BY <1>0, <1>2, AcceptPrefix, SyncAssumption DEF Heartbeat
<1>3. CASE ClientStep
  BY <1>0, <1>3, NoFault, SeedPrefix, DropPrefix, ApplyDeltaPrefix, SkipFramePrefix, RedeliverPrefix
     DEF ClientStep
<1>4. CASE Connect \/ Disconnect \/ Tick \/ UNCHANGED vars
  BY <1>4, ConnectionPrefix
<1>5. ~HostRestart
  BY <1>0, NoFault
<1> QED
  BY <1>1, <1>2, <1>3, <1>4, <1>5 DEF Next

(* Nobody is connected and nothing is sent.                                  *)
LEMMA PrefixInit ==
    ASSUME Init
    PROVE  PrefixInv
<1> USE DEF Init
<1>1. \A t \in Tasks : task[t] = Idle /\ Outgoing(t) = {}
  BY DEF Outgoing, Idle
<1>2. Unsent = {} /\ InTransit = {}
  BY <1>1 DEF InTransit, Unsent, Elems
<1>3. applied = 1 .. mirror.version
  OBVIOUS
<1> QED
  BY <1>1, <1>2, <1>3 DEF PrefixInv, OneAtATime, UnsentIsNewer, RepliesAreCurrent, DeviceAligned,
                          Idle

(* In every behaviour in which no request arrives while another is handled,  *)
(* and in which no pull fails and the host does not restart, a device sees a *)
(* prefix of the store's history: every mutation up to the version of its    *)
(* mirror, each by its delta or by a snapshot, whatever the SDK drops and    *)
(* the kernel delivers again, and however often the device disconnects.      *)
(* The condition is one on the behaviour, not on the host, which spawns a    *)
(* task per request: where two requests overlap, a delta that is published   *)
(* late is skipped (on_event) and the prefix has a hole.                     *)
THEOREM MirrorSeesPrefix == Spec /\ []Undisturbed => []SeesPrefix
<1>1. Init => MirrorInv /\ PrefixInv
  BY MirrorInit, PrefixInit
<1>2. MirrorInv /\ PrefixInv /\ Undisturbed /\ Undisturbed' /\ [Next]_vars
        => (MirrorInv /\ PrefixInv)'
  BY MirrorStep, PrefixStep
<1>3. MirrorInv /\ PrefixInv => SeesPrefix
  BY DEF MirrorInv, MirrorFollows, PrefixInv, SeesPrefix
<1> QED
  BY <1>1, <1>2, <1>3, PTL DEF Spec

-----------------------------------------------------------------------------
(***************************************************************************)
(* The other store that devices mirror: the chats, with the lanes that     *)
(* summarize, embed and clean them up, and a client of chat_sync.          *)
(***************************************************************************)
\* Chats counts with the operators that the theorems on finite sets are about.
LEMMA SameFinite == \A S : Ch!IsFiniteSet(S) <=> IsFiniteSet(S)
BY DEF Ch!IsFiniteSet, IsFiniteSet

LEMMA SameCardinality == \A S : Ch!Cardinality(S) = Cardinality(S)
BY DEF Ch!Cardinality, Cardinality

-----------------------------------------------------------------------------
(* The shape of the state.                                                  *)

TurnRows == [of : Sessions \cup {"none", "gone"}, seq : Nat, rev : Nat,
             embedded : {"no", "yes", "never"}, attempts : Nat]
SessRows == [state : {"none", "live", "deleting", "gone"}, rev : Nat, turns : Nat,
             title : {"", "auto", "manual"}, sum : Nat, seen : Nat, summarized : Nat,
             embedded : Nat]
Steps == ({"turns"} \X Turns) \cup ({"sessions", "goal", "fact"} \X Sessions)
JobRows == [queued : BOOLEAN, turns : SUBSET Turns, goals : BOOLEAN, done : SUBSET Steps,
            wait : BOOLEAN, gen : Nat]
SweptRows == [kept : BOOLEAN, turns : SUBSET Turns, stamped : BOOLEAN, wait : BOOLEAN]
TurnDocs == [coll : {"turns"}, id : Turns, of : Sessions, text : Nat]
SessDocs == {d \in [coll : {"sessions"}, id : Sessions, of : Sessions, text : Nat] : d.id = d.of}
Candidate == [id : Sessions, rev : Nat, turns : Nat]
Summary == [doc : SessDocs, rev : Nat]
JobRead == [id : Sessions, job : JobRows]
RowRead == [id : Sessions, turns : SUBSET Turns]
WorkStates ==
  [pc : {"idle", "summary", "turns", "upsert", "probe", "mark", "sessions", "supsert", "smark"},
   cands : SUBSET Candidate, errs : Nat, docs : SUBSET TurnDocs, good : SUBSET TurnDocs,
   sdocs : SUBSET Summary]
CleanStates ==
  [pc : {"idle", "jobs", "save", "sweep", "rows", "stamp"}, jobs : SUBSET JobRead,
   cur : SUBSET JobRead, done : SUBSET Steps, failed : BOOLEAN,
   down : SUBSET {"vector-db", "agent"}, calls : BOOLEAN, rows : SUBSET RowRead,
   swept : SUBSET RowRead]

SearchStates ==
  [pc : {"idle", "filter", "answered"}, dead : SUBSET Sessions, fts : SUBSET Sessions,
   cand : SUBSET Sessions, hits : SUBSET Sessions]
Docs == TurnDocs \cup SessDocs

ShapeInv ==
  /\ inst \in Instances /\ rev \in Nat
  /\ sess \in [Sessions -> SessRows]
  /\ turn \in [Turns -> TurnRows]
  /\ tomb \in [Sessions -> Nat]
  /\ job \in [Sessions -> JobRows]
  /\ swept \in [Sessions -> SweptRows]
  /\ vec \subseteq Docs
  /\ late \subseteq Docs
  /\ facts \subseteq Sessions \X {"running", "goal", "fact", "stray"}
  /\ work \in WorkStates
  /\ clean \in CleanStates
  /\ search \in SearchStates
  /\ cycle \in BOOLEAN

\* Writes are of finitely many documents, and few are outstanding.
FiniteInv ==
  /\ IsFiniteSet(late) /\ Cardinality(late) <= MaxLate
  /\ IsFiniteSet(work.docs) /\ IsFiniteSet(work.sdocs)

\* What a session's row says of its turns, and what no revision exceeds.
SessOk(s) ==
  /\ sess[s].rev <= rev /\ tomb[s] <= rev
  /\ tomb[s] > 0 <=> Ch!Dead(s)
  /\ sess[s].state = "none" => sess[s] = Ch!NewSession
  /\ sess[s].turns <= Cardinality(Turns)
  /\ Ch!Live(s) => sess[s].turns = Cardinality(Ch!TurnsOf(s))
  /\ sess[s].sum <= sess[s].turns /\ sess[s].seen <= sess[s].turns
  /\ sess[s].embedded <= sess[s].summarized /\ sess[s].summarized <= sess[s].rev
TurnOk(t) ==
  /\ turn[t].rev <= rev
  /\ turn[t].of \in Sessions => Ch!Live(turn[t].of)
  /\ turn[t].attempts <= MaxAttempts
  /\ turn[t].embedded = "no" => turn[t].attempts < MaxAttempts
StoreInv ==
  /\ rev <= inst.maxRev
  /\ \A s \in Sessions : SessOk(s)
  /\ \A t \in Turns : TurnOk(t)

\* The work lane keeps nothing it is done with.
IdleInv ==
  /\ work.pc # "summary" => work.cands = {}
  /\ work.pc \notin {"upsert", "probe", "mark"} => work.docs = {}
  /\ work.pc \notin {"supsert", "smark"} => work.sdocs = {}

\* What the summarizer has read, and what waits to be marked.
CandOk(c) ==
  /\ c.rev <= sess[c.id].rev /\ c.turns <= sess[c.id].turns
  /\ c.rev = sess[c.id].rev => c.turns = sess[c.id].turns
  /\ sess[c.id].summarized < c.rev
ChatCovered(s) ==
  Ch!Live(s) /\ sess[s].turns > 0 /\ sess[s].summarized = sess[s].rev
    => sess[s].seen = sess[s].turns
LaneInv ==
  /\ \A c \in work.cands : CandOk(c) /\ \A e \in work.cands : e.id = c.id => e = c
  /\ \A d \in work.sdocs : d.rev <= sess[d.doc.of].summarized
  /\ \A d \in work.docs : turn[d.id].of \in Sessions => turn[d.id].embedded = "no"
  /\ \A s \in Sessions : ChatCovered(s)

\* Every document that is in vector-db, or may yet get there.
Sdocs == {d.doc : d \in work.sdocs}
Known == vec \cup late \cup work.docs \cup Sdocs

\* A document is of a turn that its session has, or somebody will delete it.
TracksInv ==
  \A d \in Known :
    /\ sess[d.of].state # "none"
    /\ d.coll = "turns" /\ Ch!Live(d.of) => turn[d.id].of = d.of
    /\ Ch!Dead(d.of) => <<d.coll, d.id>> \in Ch!Tracked(d.of)

\* A job is of a session that is dead; one the cleanup lane has read is still
\* queued, and unless it was requeued it lists the same turns.
JobsInv ==
  /\ \A s \in Sessions : IF job[s].queued THEN Ch!Dead(s) ELSE job[s].turns = {}
  /\ \A j \in clean.jobs \cup clean.cur :
       /\ job[j.id].queued /\ j.job.gen <= job[j.id].gen
       /\ j.job.gen = job[j.id].gen => j.job.turns = job[j.id].turns
       /\ \A i \in clean.jobs \cup clean.cur : i.id = j.id => i = j
  /\ \A i \in clean.cur : i \notin clean.jobs

\* What chat_delete knew of, and the agent keeps, a job will remove: no step that
\* is done has left anything.
ForgetsInv ==
  /\ \A s \in Sessions, k \in {"goal", "fact"} : <<s, k>> \in facts =>
       (Ch!Dead(s) => /\ job[s].queued /\ <<k, s>> \notin job[s].done
                      /\ k = "goal" => job[s].goals)
  /\ \A j \in clean.jobs \cup clean.cur, k \in {"goal", "fact"} : <<j.id, k>> \in facts =>
       /\ <<k, j.id>> \notin j.job.done
       /\ k = "goal" => j.job.goals
       /\ j \in clean.cur => <<k, j.id>> \notin clean.done

\* A search remembers which sessions were dead when it began.
SearchInv ==
  /\ \A s \in search.dead : Ch!Dead(s)
  /\ search.pc = "filter" => search.fts \cap search.dead = {}
  /\ search.pc = "answered" => search.hits \cap search.dead = {}

\* A copy at cursor c holds what did not change since, and otherwise only what
\* a tombstone will remove.
CopyOf(K, c) ==
  /\ \A s \in DOMAIN K.sess : s \in Sessions /\ (Ch!Live(s) \/ tomb[s] > c)
  /\ \A s \in Sessions : Ch!Live(s) /\ sess[s].rev <= c =>
       s \in DOMAIN K.sess /\ K.sess[s] = Ch!SessionBody(s)
  /\ \A b \in K.turns :
       \/ b.id \in Ch!Rows /\ b = Ch!TurnBody(b.id)
       \/ b.of \in Sessions /\ tomb[b.of] > c
  /\ \A t \in Ch!Rows : turn[t].rev <= c => Ch!TurnBody(t) \in K.turns
CopyInv ==
  /\ reader.cursor \in Nat /\ reader.cursor <= rev
  /\ reader = [cursor |-> reader.cursor, sess |-> reader.sess, turns |-> reader.turns,
               rest |-> reader.rest]
  /\ reader.sess = [s \in DOMAIN reader.sess |-> reader.sess[s]]
  /\ CopyOf(reader, reader.cursor)
  /\ reader.rest => Ch!Fetch(reader.cursor, rev) = {}

ChatsIInv ==
  ShapeInv /\ FiniteInv /\ IdleInv /\ StoreInv /\ LaneInv /\ TracksInv /\ JobsInv /\ ForgetsInv /\ SearchInv /\ CopyInv

-----------------------------------------------------------------------------
(* Rows and what a write makes of them.                                     *)

LEMMA SessRowFields ==
    ASSUME NEW r \in SessRows
    PROVE  /\ r.state \in {"none", "live", "deleting", "gone"} /\ r.rev \in Nat /\ r.turns \in Nat
           /\ r.title \in {"", "auto", "manual"} /\ r.sum \in Nat /\ r.seen \in Nat
           /\ r.summarized \in Nat /\ r.embedded \in Nat
BY DEF SessRows

(* The writes of the store, of the summarizer and of the cascade.            *)
LEMMA RowCreated ==
    ASSUME NEW r \in SessRows, NEW n \in Nat
    PROVE  [r EXCEPT !.state = "live", !.rev = n] \in SessRows
BY DEF SessRows

LEMMA RowAppended ==
    ASSUME NEW r \in SessRows, NEW n \in Nat, NEW m \in Nat
    PROVE  [r EXCEPT !.turns = m, !.rev = n] \in SessRows
BY DEF SessRows

LEMMA RowTitled ==
    ASSUME NEW r \in SessRows, NEW n \in Nat
    PROVE  [r EXCEPT !.title = "manual", !.rev = n] \in SessRows
BY DEF SessRows

LEMMA RowDeleted ==
    ASSUME NEW r \in SessRows, NEW n \in Nat
    PROVE  [r EXCEPT !.state = "deleting", !.title = "", !.sum = 0, !.rev = n] \in SessRows
BY DEF SessRows

LEMMA RowProcessed ==
    ASSUME NEW r \in SessRows, NEW n \in Nat, NEW m \in Nat, NEW k \in Nat
    PROVE  [r EXCEPT !.embedded = n, !.summarized = m, !.seen = k] \in SessRows
BY DEF SessRows

LEMMA RowSummarized ==
    ASSUME NEW r \in SessRows, NEW n \in Nat, NEW m \in Nat, NEW k \in Nat,
           NEW i \in {"", "auto", "manual"}
    PROVE  [r EXCEPT !.sum = k, !.seen = k, !.title = i, !.rev = n, !.summarized = m] \in SessRows
BY DEF SessRows

LEMMA RowEmbedded ==
    ASSUME NEW r \in SessRows, NEW n \in Nat
    PROVE  [r EXCEPT !.embedded = n] \in SessRows
BY DEF SessRows

LEMMA RowGone ==
    ASSUME NEW r \in SessRows
    PROVE  [r EXCEPT !.state = "gone"] \in SessRows
BY DEF SessRows

LEMMA TurnRowFields ==
    ASSUME NEW r \in TurnRows
    PROVE  /\ r.of \in Sessions \cup {"none", "gone"} /\ r.seq \in Nat /\ r.rev \in Nat
           /\ r.embedded \in {"no", "yes", "never"} /\ r.attempts \in Nat
BY DEF TurnRows

(* The writes of an append, a delete and the embedder.                       *)
LEMMA TurnNone ==
    Ch!NoTurn \in TurnRows /\ Ch!GoneTurn \in TurnRows
BY DEF TurnRows, Ch!NoTurn, Ch!GoneTurn

LEMMA TurnAppended ==
    ASSUME NEW s \in Sessions, NEW n \in Nat, NEW m \in Nat
    PROVE  [Ch!NoTurn EXCEPT !.of = s, !.rev = n, !.seq = m] \in TurnRows
BY DEF TurnRows, Ch!NoTurn

LEMMA TurnEmbedded ==
    ASSUME NEW r \in TurnRows, NEW e \in {"no", "yes", "never"}
    PROVE  [r EXCEPT !.embedded = e] \in TurnRows
BY DEF TurnRows

LEMMA TurnRejected ==
    ASSUME NEW r \in TurnRows, NEW n \in Nat, NEW e \in {"no", "yes", "never"}
    PROVE  [r EXCEPT !.attempts = n, !.embedded = e] \in TurnRows
BY DEF TurnRows

LEMMA JobRowFields ==
    ASSUME NEW j \in JobRows
    PROVE  /\ j.queued \in BOOLEAN /\ j.turns \subseteq Turns /\ j.goals \in BOOLEAN
           /\ j.done \subseteq Steps /\ j.wait \in BOOLEAN /\ j.gen \in Nat
BY DEF JobRows

(* The writes of a delete, of a requeue and of the cascade.                  *)
LEMMA JobNone ==
    Ch!NoJob \in JobRows
BY DEF JobRows, Ch!NoJob

LEMMA JobQueued ==
    ASSUME NEW ids \in SUBSET Turns, NEW g \in BOOLEAN
    PROVE  [Ch!NoJob EXCEPT !.queued = TRUE, !.turns = ids, !.goals = g] \in JobRows
BY DEF JobRows, Ch!NoJob

LEMMA JobQueuedAgain ==
    ASSUME NEW ids \in SUBSET Turns
    PROVE  [Ch!NoJob EXCEPT !.queued = TRUE, !.turns = ids] \in JobRows
BY DEF JobRows, Ch!NoJob

LEMMA JobMerged ==
    ASSUME NEW j \in JobRows, NEW ids \in SUBSET Turns, NEW n \in Nat
    PROVE  [j EXCEPT !.turns = ids, !.done = {}, !.wait = FALSE, !.gen = n] \in JobRows
BY DEF JobRows

LEMMA JobSaved ==
    ASSUME NEW j \in JobRows, NEW d \in SUBSET Steps, NEW w \in BOOLEAN
    PROVE  [j EXCEPT !.done = d, !.wait = w] \in JobRows
BY DEF JobRows

-----------------------------------------------------------------------------
(* Every action keeps the shape of the state.                               *)

LEMMA ShapeOf ==
    ASSUME ShapeInv
    PROVE  /\ rev \in Nat /\ inst \in Instances
           /\ \A s \in Sessions : sess[s] \in SessRows /\ job[s] \in JobRows /\ swept[s] \in SweptRows
           /\ \A s \in Sessions : tomb[s] \in Nat
           /\ \A t \in Turns : turn[t] \in TurnRows
BY DEF ShapeInv

LEMMA NextCounts ==
    ASSUME ShapeInv
    PROVE  /\ rev + 1 \in Nat
           /\ \A s \in Sessions : sess[s].turns \in Nat /\ sess[s].turns + 1 \in Nat
<1>1. rev \in Nat
  BY ShapeOf
<1>2. ASSUME NEW s \in Sessions
      PROVE  sess[s].turns \in Nat
  BY ShapeOf, SessRowFields
<1>3. ASSUME NEW s \in Sessions
      PROVE  sess[s].turns + 1 \in Nat
  BY <1>2
<1>4. rev + 1 \in Nat
  BY <1>1
<1> QED
  BY <1>2, <1>3, <1>4

(* chat_session_resolve: a new session with the next revision.               *)
LEMMA ResolveEffect ==
    ASSUME ShapeInv, NEW s \in Sessions, Ch!Resolve(s)
    PROVE  /\ sess'[s] = [sess[s] EXCEPT !.state = "live", !.rev = rev + 1]
           /\ \A x \in Sessions : x # s => sess'[x] = sess[x]
           /\ ShapeInv'
<1>1. /\ sess \in [Sessions -> SessRows] /\ rev \in Nat
      /\ sess' = [sess EXCEPT ![s].state = "live", ![s].rev = rev + 1]
  BY DEF Ch!Resolve, ShapeInv
<1>2. sess'[s] = [sess[s] EXCEPT !.state = "live", !.rev = rev + 1]
  BY <1>1
<1>3. sess'[s] \in SessRows
  <2>1. PICK r \in SessRows : r = sess[s]
    BY ShapeOf
  <2>2. rev + 1 \in Nat
    BY NextCounts
  <2> QED
    BY <1>2, <2>1, <2>2, RowCreated
<1>4. \A x \in Sessions : x # s => sess'[x] = sess[x]
  BY <1>1
<1>5. sess' \in [Sessions -> SessRows]
  BY <1>1, <1>3, <1>4
<1>6. /\ rev' \in Nat
      /\ UNCHANGED <<inst, turn, tomb, job, swept, cycle, vec, late, facts, work, clean, search>>
  BY <1>1 DEF Ch!Resolve, Ch!Bump
<1> QED
  BY <1>2, <1>4, <1>5, <1>6 DEF ShapeInv

(* chat_turn_append: a turn, its session and the goal it names.              *)
LEMMA AppendEffect ==
    ASSUME ShapeInv, NEW s \in Sessions, NEW t \in Turns, Ch!Append(s, t)
    PROVE  /\ sess'[s] = [sess[s] EXCEPT !.turns = sess[s].turns + 1, !.rev = rev + 1]
           /\ \A x \in Sessions : x # s => sess'[x] = sess[x]
           /\ turn'[t] = [Ch!NoTurn EXCEPT !.of = s, !.rev = rev + 1, !.seq = sess[s].turns + 1]
           /\ \A u \in Turns : u # t => turn'[u] = turn[u]
           /\ ShapeInv'
<1>1. /\ sess \in [Sessions -> SessRows] /\ rev \in Nat /\ turn \in [Turns -> TurnRows]
      /\ sess' = [sess EXCEPT ![s].turns = @ + 1, ![s].rev = rev + 1]
      /\ turn' = [turn EXCEPT ![t] = [Ch!NoTurn EXCEPT !.of = s, !.rev = rev + 1,
                                                       !.seq = sess[s].turns + 1]]
  BY DEF Ch!Append, ShapeInv
<1>2. sess'[s] = [sess[s] EXCEPT !.turns = sess[s].turns + 1, !.rev = rev + 1]
  BY <1>1
<1>21. PICK m \in Nat : m = sess[s].turns + 1
  BY NextCounts
<1>22. PICK n \in Nat : n = rev + 1
  BY NextCounts
<1>3. sess'[s] \in SessRows
  <2>1. PICK r \in SessRows : r = sess[s]
    BY ShapeOf
  <2>2. [r EXCEPT !.turns = m, !.rev = n] \in SessRows
    BY RowAppended
  <2> QED
    BY <1>2, <2>1, <2>2, <1>21, <1>22
<1>4. \A x \in Sessions : x # s => sess'[x] = sess[x]
  BY <1>1
<1>5. sess' \in [Sessions -> SessRows]
  BY <1>1, <1>3, <1>4
<1>6. turn'[t] = [Ch!NoTurn EXCEPT !.of = s, !.rev = rev + 1, !.seq = sess[s].turns + 1]
  BY <1>1
<1>7. turn'[t] \in TurnRows
  <2>2. [Ch!NoTurn EXCEPT !.of = s, !.rev = n, !.seq = m] \in TurnRows
    BY TurnAppended
  <2> QED
    BY <1>6, <2>2, <1>21, <1>22
<1>8. turn' \in [Turns -> TurnRows] /\ \A u \in Turns : u # t => turn'[u] = turn[u]
  BY <1>1, <1>7
<1>9. /\ rev' \in Nat
      /\ UNCHANGED <<inst, tomb, job, swept, cycle, vec, late, work, clean, search>>
  BY <1>1 DEF Ch!Append, Ch!Bump
<1>10. facts' \subseteq Sessions \X {"running", "goal", "fact", "stray"}
  BY DEF Ch!Append, ShapeInv
<1> QED
  BY <1>2, <1>4, <1>5, <1>6, <1>8, <1>9, <1>10 DEF ShapeInv

(* chat_session_update: a title set by hand.                                 *)
LEMMA UpdateEffect ==
    ASSUME ShapeInv, NEW s \in Sessions, Ch!Update(s)
    PROVE  /\ sess'[s] = [sess[s] EXCEPT !.title = "manual", !.rev = rev + 1]
           /\ \A x \in Sessions : x # s => sess'[x] = sess[x]
           /\ ShapeInv'
<1>1. /\ sess \in [Sessions -> SessRows] /\ rev \in Nat
      /\ sess' = [sess EXCEPT ![s].title = "manual", ![s].rev = rev + 1]
  BY DEF Ch!Update, ShapeInv
<1>2. sess'[s] = [sess[s] EXCEPT !.title = "manual", !.rev = rev + 1]
  BY <1>1
<1>3. sess'[s] \in SessRows
  <2>1. PICK r \in SessRows : r = sess[s]
    BY ShapeOf
  <2>2. rev + 1 \in Nat
    BY NextCounts
  <2> QED
    BY <1>2, <2>1, <2>2, RowTitled
<1>4. \A x \in Sessions : x # s => sess'[x] = sess[x]
  BY <1>1
<1>5. sess' \in [Sessions -> SessRows]
  BY <1>1, <1>3, <1>4
<1>6. /\ rev' \in Nat
      /\ UNCHANGED <<inst, turn, tomb, job, swept, cycle, vec, late, facts, work, clean, search>>
  BY <1>1 DEF Ch!Update, Ch!Bump
<1> QED
  BY <1>2, <1>4, <1>5, <1>6 DEF ShapeInv

(* chat_delete: the rows go, the tombstone stays, a job is queued.           *)
LEMMA DeleteEffect ==
    ASSUME ShapeInv, NEW s \in Sessions, Ch!Delete(s)
    PROVE  /\ sess'[s] = [sess[s] EXCEPT !.state = "deleting", !.title = "", !.sum = 0,
                                         !.rev = rev + 1]
           /\ \A x \in Sessions : x # s =>
                 sess'[x] = sess[x] /\ tomb'[x] = tomb[x] /\ job'[x] = job[x]
           /\ \A t \in Turns : turn'[t] = IF turn[t].of = s THEN Ch!GoneTurn ELSE turn[t]
           /\ tomb'[s] = rev + 1
           /\ job'[s] = [Ch!NoJob EXCEPT !.queued = TRUE, !.turns = Ch!TurnsOf(s),
                                         !.goals = <<s, "goal">> \in facts]
           /\ ShapeInv'
<1>1. /\ sess \in [Sessions -> SessRows] /\ rev \in Nat /\ turn \in [Turns -> TurnRows]
      /\ tomb \in [Sessions -> Nat] /\ job \in [Sessions -> JobRows]
      /\ sess' = [sess EXCEPT ![s].state = "deleting", ![s].title = "", ![s].sum = 0,
                              ![s].rev = rev + 1]
      /\ turn' = [t \in Turns |-> IF turn[t].of = s THEN Ch!GoneTurn ELSE turn[t]]
      /\ tomb' = [tomb EXCEPT ![s] = rev + 1]
      /\ job' = [job EXCEPT ![s] = Ch!DeleteJob(s)]
  BY DEF Ch!Delete, ShapeInv
<1>2. sess'[s] = [sess[s] EXCEPT !.state = "deleting", !.title = "", !.sum = 0, !.rev = rev + 1]
  BY <1>1
<1>22. PICK n \in Nat : n = rev + 1
  BY NextCounts
<1>3. sess'[s] \in SessRows
  <2>1. PICK r \in SessRows : r = sess[s]
    BY ShapeOf
  <2>2. [r EXCEPT !.state = "deleting", !.title = "", !.sum = 0, !.rev = n] \in SessRows
    BY RowDeleted
  <2> QED
    BY <1>2, <2>1, <2>2, <1>22
<1>4. \A x \in Sessions : x # s => sess'[x] = sess[x]
  BY <1>1
<1>5. sess' \in [Sessions -> SessRows]
  BY <1>1, <1>3, <1>4
<1>6. turn' \in [Turns -> TurnRows]
  <2> SUFFICES ASSUME NEW t \in Turns PROVE turn'[t] \in TurnRows
    BY <1>1
  <2>1. turn[t] \in TurnRows /\ Ch!GoneTurn \in TurnRows
    BY ShapeOf, TurnNone
  <2> QED
    BY <1>1, <2>1
<1>7. Ch!DeleteJob(s) = [Ch!NoJob EXCEPT !.queued = TRUE, !.turns = Ch!TurnsOf(s),
                                         !.goals = <<s, "goal">> \in facts]
  BY DEF Ch!DeleteJob
<1>8. Ch!DeleteJob(s) \in JobRows
  <2>1. PICK T \in SUBSET Turns : T = Ch!TurnsOf(s)
    BY DEF Ch!TurnsOf
  <2>2. \A g \in BOOLEAN : [Ch!NoJob EXCEPT !.queued = TRUE, !.turns = T, !.goals = g] \in JobRows
    BY JobQueued
  <2>3. (<<s, "goal">> \in facts) \in BOOLEAN
    OBVIOUS
  <2> QED
    BY <1>7, <2>1, <2>2, <2>3
<1>9. job' \in [Sessions -> JobRows] /\ job'[s] = Ch!DeleteJob(s)
  BY <1>1, <1>8
<1>11. \A x \in Sessions : x # s => tomb'[x] = tomb[x] /\ job'[x] = job[x]
  BY <1>1
<1>12. tomb' \in [Sessions -> Nat] /\ tomb'[s] = rev + 1
  BY <1>1, NextCounts
<1>13. \A t \in Turns : turn'[t] = IF turn[t].of = s THEN Ch!GoneTurn ELSE turn[t]
  BY <1>1
<1>14. /\ rev' \in Nat
       /\ UNCHANGED <<inst, swept, cycle, vec, late, facts, work, clean, search>>
  BY NextCounts DEF Ch!Delete, Ch!Bump
<1>15. ShapeInv'
  BY <1>5, <1>6, <1>9, <1>12, <1>14 DEF ShapeInv
<1> QED
  BY <1>2, <1>4, <1>7, <1>9, <1>11, <1>12, <1>13, <1>15

(* What the fields of the lanes hold.                                        *)
LEMMA WorkOf ==
    ASSUME ShapeInv
    PROVE  /\ work.pc \in {"idle", "summary", "turns", "upsert", "probe", "mark", "sessions",
                           "supsert", "smark"}
           /\ work.cands \subseteq Candidate /\ work.errs \in Nat /\ work.docs \subseteq TurnDocs
           /\ work.good \subseteq TurnDocs /\ work.sdocs \subseteq Summary
BY DEF ShapeInv, WorkStates

LEMMA WorkIdleFits ==
    /\ Ch!WorkIdle \in WorkStates /\ Ch!WorkIdle.pc = "idle" /\ Ch!WorkIdle.cands = {}
    /\ Ch!WorkIdle.docs = {} /\ Ch!WorkIdle.sdocs = {} /\ Ch!WorkIdle.good = {}
BY DEF Ch!WorkIdle, WorkStates

LEMMA CandidateFields ==
    ASSUME NEW c \in Candidate
    PROVE  c.id \in Sessions /\ c.rev \in Nat /\ c.turns \in Nat
BY DEF Candidate

LEMMA SummaryFields ==
    ASSUME NEW d \in Summary
    PROVE  d.doc \in SessDocs /\ d.rev \in Nat
BY DEF Summary

LEMMA DocFields ==
    ASSUME NEW d \in Docs
    PROVE  /\ d.of \in Sessions /\ d.coll \in {"turns", "sessions"}
           /\ d.coll = "turns" => d.id \in Turns
           /\ d.coll = "sessions" => d.id = d.of
           /\ d \in TurnDocs <=> d.coll = "turns"
BY DEF Docs, TurnDocs, SessDocs

LEMMA SdocsAreDocs ==
    ASSUME ShapeInv
    PROVE  /\ work.docs \subseteq Docs
           /\ {d.doc : d \in work.sdocs} \subseteq Docs
BY WorkOf, SummaryFields DEF Docs

LEMMA LaneShape ==
    ASSUME ShapeInv, work' \in WorkStates,
           UNCHANGED <<Ch!storeVars, job, swept, cycle, vec, late, facts, clean, search>>
    PROVE  ShapeInv'
BY DEF ShapeInv, Ch!storeVars

(* A pass begins with the candidates the clock lets through.                 *)
LEMMA WorkBeginEffect ==
    ASSUME ShapeInv, NEW idle, Ch!WorkBegin(idle)
    PROVE  /\ work'.cands = {[id |-> s, rev |-> sess[s].rev, turns |-> sess[s].turns] : s \in idle}
           /\ work'.pc \in {"turns", "summary"} /\ (work'.pc = "turns" => idle = {})
           /\ work'.docs = {} /\ work'.sdocs = {}
           /\ ShapeInv'
<1> DEFINE C == {[id |-> s, rev |-> sess[s].rev, turns |-> sess[s].turns] : s \in idle}
<1>1. idle \subseteq Sessions
  BY DEF Ch!WorkBegin, Ch!Candidates
<1>2. C \subseteq Candidate
  <2> SUFFICES ASSUME NEW s \in idle
               PROVE  [id |-> s, rev |-> sess[s].rev, turns |-> sess[s].turns] \in Candidate
    OBVIOUS
  <2>1. s \in Sessions /\ sess[s].rev \in Nat /\ sess[s].turns \in Nat
    BY <1>1, ShapeOf, SessRowFields
  <2> QED
    BY <2>1 DEF Candidate
<1>3. work' = [Ch!WorkIdle EXCEPT !.pc = IF idle = {} THEN "turns" ELSE "summary", !.cands = C]
  BY DEF Ch!WorkBegin
<1> HIDE DEF C
<1>4. /\ work' \in WorkStates /\ work'.cands = C /\ work'.docs = {} /\ work'.sdocs = {}
      /\ work'.pc = (IF idle = {} THEN "turns" ELSE "summary")
  BY <1>2, <1>3 DEF Ch!WorkIdle, WorkStates
<1>5. ShapeInv'
  BY <1>4, LaneShape DEF Ch!WorkBegin
<1> QED
  BY <1>4, <1>5 DEF C

(* A candidate is done: its result is applied, or the call has failed.       *)
LEMMA RestFits ==
    ASSUME ShapeInv, NEW c
    PROVE  /\ Ch!Rest(c) \in WorkStates /\ Ch!Rest(c).cands = work.cands \ {c}
           /\ Ch!Rest(c).docs = work.docs /\ Ch!Rest(c).sdocs = work.sdocs /\ Ch!Rest(c).good = work.good
           /\ Ch!Rest(c).pc \in {"turns", "summary"} /\ (Ch!Rest(c).pc = "turns" => Ch!Rest(c).cands = {})
<1>1. work \in WorkStates
  BY DEF ShapeInv
<1>2. work.cands \ {c} \in SUBSET Candidate
  BY WorkOf
<1>3. PICK L \in SUBSET Candidate : L = work.cands \ {c}
  BY <1>2
<1>4. Ch!Rest(c) = [work EXCEPT !.cands = L, !.errs = 0, !.pc = IF L = {} THEN "turns" ELSE "summary"]
  BY <1>3 DEF Ch!Rest
<1>5. 0 \in Nat
  OBVIOUS
<1> QED
  BY <1>1, <1>3, <1>4, <1>5 DEF WorkStates

LEMMA SummaryFailedEffect ==
    ASSUME ShapeInv, NEW c, NEW missing \in BOOLEAN, Ch!SummaryFailed(c, missing)
    PROVE  /\ work'.cands \subseteq work.cands
           /\ work'.pc \in {"turns", "summary"} /\ (work'.pc = "turns" => work'.cands = {})
           /\ work'.docs = work.docs /\ work'.sdocs = work.sdocs
           /\ ShapeInv'
<1> DEFINE left == work.cands \ {c}
           stop == missing \/ work.errs = 1 \/ left = {}
<1>1. work \in WorkStates
  BY DEF ShapeInv
<1>2. PICK L \in SUBSET Candidate : L = (IF stop THEN {} ELSE left)
  BY WorkOf
<1>3. PICK e \in Nat : e = (IF stop THEN 0 ELSE 1)
  OBVIOUS
<1>4. PICK p \in {"turns", "summary"} : p = (IF stop THEN "turns" ELSE "summary")
  OBVIOUS
<1>5. work' = [work EXCEPT !.cands = L, !.errs = e, !.pc = p]
  BY <1>2, <1>3, <1>4 DEF Ch!SummaryFailed
<1>6. /\ work' \in WorkStates /\ work'.cands = L /\ work'.pc = p
      /\ work'.docs = work.docs /\ work'.sdocs = work.sdocs
  BY <1>1, <1>5 DEF WorkStates
<1>7. L \subseteq work.cands /\ (p = "turns" => L = {})
  BY <1>2, <1>4
<1>8. ShapeInv'
  BY <1>6, LaneShape DEF Ch!SummaryFailed
<1> QED
  BY <1>6, <1>7, <1>8

(* The embedder reads the turns, and the sessions, that wait.                *)
LEMMA TurnsReadEffect ==
    ASSUME ShapeInv, Ch!TurnsRead
    PROVE  /\ \A d \in work'.docs : \E t \in Ch!Rows : /\ d = Ch!TurnDoc(t, turn[t].of)
                                                        /\ turn[t].embedded = "no" /\ Ch!Live(turn[t].of)
           /\ work'.pc \in {"sessions", "upsert"} /\ (work'.pc = "sessions" => work'.docs = {})
           /\ work'.cands = work.cands /\ work'.sdocs = work.sdocs
           /\ ShapeInv'
<1> DEFINE pending == {t \in Ch!Rows : turn[t].embedded = "no" /\ Ch!Live(turn[t].of)}
           docs == IF "embed" \in inst.parts
                   THEN {Ch!TurnDoc(t, turn[t].of) : t \in pending} ELSE {}
<1>1. \A d \in docs : \E t \in Ch!Rows : /\ d = Ch!TurnDoc(t, turn[t].of)
                                          /\ turn[t].embedded = "no" /\ Ch!Live(turn[t].of)
  OBVIOUS
<1>2. docs \subseteq TurnDocs
  <2> SUFFICES ASSUME NEW t \in Ch!Rows PROVE Ch!TurnDoc(t, turn[t].of) \in TurnDocs
    BY <1>1
  <2>1. t \in Turns /\ turn[t].of \in Sessions
    BY DEF Ch!Rows
  <2> QED
    BY <2>1 DEF Ch!TurnDoc, TurnDocs
<1>3. work' = [work EXCEPT !.docs = docs, !.pc = IF docs = {} THEN "sessions" ELSE "upsert"]
  BY DEF Ch!TurnsRead
<1> HIDE DEF docs
<1>4. work \in WorkStates
  BY DEF ShapeInv
<1>5. /\ work' \in WorkStates /\ work'.docs = docs
      /\ work'.cands = work.cands /\ work'.sdocs = work.sdocs
      /\ work'.pc = (IF docs = {} THEN "sessions" ELSE "upsert")
  BY <1>2, <1>3, <1>4 DEF WorkStates
<1>6. ShapeInv'
  BY <1>5, LaneShape DEF Ch!TurnsRead
<1> QED
  BY <1>1, <1>5, <1>6

LEMMA SessionsReadEffect ==
    ASSUME ShapeInv, Ch!SessionsRead
    PROVE  /\ \A d \in work'.sdocs : \E s \in Sessions :
                 /\ d = [doc |-> Ch!SessDoc(s, sess[s].sum), rev |-> sess[s].summarized]
                 /\ Ch!Live(s)
           /\ work'.pc \in {"idle", "supsert"} /\ (work'.pc = "idle" => work' = Ch!WorkIdle)
           /\ work'.cands \subseteq work.cands /\ work'.docs \subseteq work.docs
           /\ ShapeInv'
<1> DEFINE pending == {s \in Sessions : /\ Ch!Live(s) /\ sess[s].sum > 0
                                        /\ sess[s].embedded < sess[s].summarized}
           sdocs == IF "embed" \in inst.parts
                    THEN {[doc |-> Ch!SessDoc(s, sess[s].sum),
                           rev |-> sess[s].summarized] : s \in pending} ELSE {}
<1>1. \A d \in sdocs : \E s \in Sessions :
          /\ d = [doc |-> Ch!SessDoc(s, sess[s].sum), rev |-> sess[s].summarized]
          /\ Ch!Live(s)
  OBVIOUS
<1>2. sdocs \subseteq Summary
  <2> SUFFICES ASSUME NEW s \in Sessions
               PROVE  [doc |-> Ch!SessDoc(s, sess[s].sum), rev |-> sess[s].summarized] \in Summary
    BY <1>1
  <2>1. sess[s].sum \in Nat /\ sess[s].summarized \in Nat
    BY ShapeOf, SessRowFields
  <2>2. Ch!SessDoc(s, sess[s].sum) \in SessDocs
    BY <2>1 DEF Ch!SessDoc, SessDocs
  <2> QED
    BY <2>1, <2>2 DEF Summary
<1>3. work' = IF sdocs = {} THEN Ch!WorkIdle ELSE [work EXCEPT !.pc = "supsert", !.sdocs = sdocs]
  BY DEF Ch!SessionsRead
<1> HIDE DEF sdocs
<1>4. work \in WorkStates
  BY DEF ShapeInv
<1>5. /\ work' \in WorkStates /\ work'.sdocs = sdocs
      /\ work'.cands \subseteq work.cands /\ work'.docs \subseteq work.docs
      /\ work'.pc \in {"idle", "supsert"} /\ (work'.pc = "idle" => work' = Ch!WorkIdle)
  <2>1. CASE sdocs = {}
    BY <1>3, <2>1, WorkIdleFits
  <2>2. CASE sdocs # {}
    <3>1. work' = [work EXCEPT !.pc = "supsert", !.sdocs = sdocs]
      BY <1>3, <2>2
    <3> QED
      BY <1>2, <1>4, <3>1 DEF WorkStates
  <2> QED
    BY <2>1, <2>2
<1>6. ShapeInv'
  BY <1>5, LaneShape DEF Ch!SessionsRead
<1> QED
  BY <1>1, <1>5, <1>6

LEMMA MostIsMost ==
    ASSUME NEW a \in Nat, NEW b \in Nat
    PROVE  /\ Ch!Most(a, b) \in Nat /\ Ch!Most(a, b) >= a /\ Ch!Most(a, b) >= b
           /\ Ch!Most(a, b) = a \/ Ch!Most(a, b) = b
BY DEF Ch!Most

(* An unusable reply: the revision counts as processed.                      *)
LEMMA ApplyJunkEffect ==
    ASSUME ShapeInv, NEW c \in Candidate, Ch!ApplyJunk(c)
    PROVE  /\ sess'[c.id] = [sess[c.id] EXCEPT
                !.embedded = IF sess[c.id].embedded >= sess[c.id].summarized
                             THEN Ch!Most(sess[c.id].embedded, c.rev) ELSE sess[c.id].embedded,
                !.summarized = Ch!Most(sess[c.id].summarized, c.rev), !.seen = c.turns]
           /\ \A x \in Sessions : x # c.id => sess'[x] = sess[x]
           /\ sess' \in [Sessions -> SessRows]
<1> DEFINE r == sess[c.id]
           e == IF r.embedded >= r.summarized THEN Ch!Most(r.embedded, c.rev) ELSE r.embedded
           m == Ch!Most(r.summarized, c.rev)
<1>1. c.id \in Sessions /\ c.rev \in Nat /\ c.turns \in Nat
  BY CandidateFields
<1>2. r \in SessRows /\ sess \in [Sessions -> SessRows]
  BY <1>1 DEF ShapeInv
<1>3. r.embedded \in Nat /\ r.summarized \in Nat
  BY <1>2, SessRowFields
<1>4. Ch!Most(r.embedded, c.rev) \in Nat
  BY <1>1, <1>3, MostIsMost
<1>5. m \in Nat
  BY <1>1, <1>3, MostIsMost
<1>6. e \in Nat
  BY <1>3, <1>4
<1>7. sess' = [sess EXCEPT ![c.id] = [r EXCEPT !.embedded = e, !.summarized = m, !.seen = c.turns]]
  BY DEF Ch!ApplyJunk
<1> HIDE DEF e, m
<1>8. [r EXCEPT !.embedded = e, !.summarized = m, !.seen = c.turns] \in SessRows
  <2>1. \A x \in SessRows : [x EXCEPT !.embedded = e, !.summarized = m, !.seen = c.turns] \in SessRows
    BY <1>1, <1>5, <1>6, RowProcessed
  <2> QED
    BY <1>2, <2>1
<1>9. /\ sess'[c.id] = [r EXCEPT !.embedded = e, !.summarized = m, !.seen = c.turns]
      /\ \A x \in Sessions : x # c.id => sess'[x] = sess[x]
      /\ sess' \in [Sessions -> SessRows]
  BY <1>1, <1>2, <1>7, <1>8
<1> QED
  BY <1>9 DEF e, m

(* A summary: a title, and a revision of its own.                            *)
LEMMA ApplySummaryEffect ==
    ASSUME ShapeInv, NEW c \in Candidate, Ch!ApplySummary(c)
    PROVE  /\ sess'[c.id] = [sess[c.id] EXCEPT
                !.sum = c.turns, !.seen = c.turns,
                !.title = IF sess[c.id].title = "manual" THEN "manual" ELSE "auto",
                !.rev = rev + 1, !.summarized = Ch!Marked(c.id, c.rev)]
           /\ \A x \in Sessions : x # c.id => sess'[x] = sess[x]
           /\ sess' \in [Sessions -> SessRows]
<1> DEFINE r == sess[c.id]
           i == IF r.title = "manual" THEN "manual" ELSE "auto"
           m == Ch!Marked(c.id, c.rev)
           n == rev + 1
<1>1. c.id \in Sessions /\ c.rev \in Nat /\ c.turns \in Nat
  BY CandidateFields
<1>2. r \in SessRows /\ sess \in [Sessions -> SessRows]
  BY <1>1 DEF ShapeInv
<1>3. i \in {"", "auto", "manual"}
  OBVIOUS
<1>4. n \in Nat
  BY NextCounts
<1>5. m \in Nat
  BY <1>1, <1>4 DEF Ch!Marked
<1>7. sess' = [sess EXCEPT ![c.id] = [r EXCEPT !.sum = c.turns, !.seen = c.turns, !.title = i,
                                               !.rev = n, !.summarized = m]]
  <2>1. i = IF r.title = "manual" THEN r.title ELSE "auto"
    OBVIOUS
  <2> HIDE DEF i, m
  <2> QED
    BY <1>1, <1>2, <2>1 DEF Ch!ApplySummary, m
<1> HIDE DEF i, m, n
<1>8. [r EXCEPT !.sum = c.turns, !.seen = c.turns, !.title = i, !.rev = n,
                !.summarized = m] \in SessRows
  <2>1. \A x \in SessRows : [x EXCEPT !.sum = c.turns, !.seen = c.turns, !.title = i, !.rev = n,
                                      !.summarized = m] \in SessRows
    BY <1>1, <1>3, <1>4, <1>5, RowSummarized, Zenon
  <2> QED
    BY <1>2, <2>1
<1>9. /\ sess'[c.id] = [r EXCEPT !.sum = c.turns, !.seen = c.turns, !.title = i, !.rev = n,
                                 !.summarized = m]
      /\ \A x \in Sessions : x # c.id => sess'[x] = sess[x]
      /\ sess' \in [Sessions -> SessRows]
  BY <1>1, <1>2, <1>7, <1>8
<1> QED
  BY <1>9 DEF i, m, n

LEMMA SummarizedEffect ==
    ASSUME ShapeInv, NEW c, Ch!Summarized(c)
    PROVE  /\ c \in Candidate /\ c \in work.cands
           /\ \A x \in Sessions : x # c.id => sess'[x] = sess[x]
           /\ \A x \in Sessions : sess'[x].state = sess[x].state /\ sess'[x].turns = sess[x].turns
           /\ ShapeInv'
<1>1. c \in Candidate /\ c \in work.cands /\ c.id \in Sessions
  BY WorkOf, CandidateFields DEF Ch!Summarized
<1>2. /\ \A x \in Sessions : x # c.id => sess'[x] = sess[x]
      /\ sess' \in [Sessions -> SessRows] /\ rev' \in Nat
      /\ sess'[c.id].state = sess[c.id].state /\ sess'[c.id].turns = sess[c.id].turns
  <2>0. sess[c.id] \in SessRows /\ rev \in Nat
    BY <1>1, ShapeOf
  <2>1. CASE Ch!ApplyDead(c)
    BY <2>1 DEF Ch!ApplyDead, ShapeInv
  <2>2. CASE Ch!ApplyJunk(c)
    <3>1. /\ \A x \in Sessions : x # c.id => sess'[x] = sess[x]
          /\ sess' \in [Sessions -> SessRows]
      BY <1>1, <2>2, ApplyJunkEffect
    <3>2. sess'[c.id].state = sess[c.id].state /\ sess'[c.id].turns = sess[c.id].turns
      BY <1>1, <2>0, <2>2, ApplyJunkEffect DEF SessRows
    <3> QED
      BY <2>0, <2>2, <3>1, <3>2 DEF Ch!ApplyJunk
  <2>3. CASE Ch!ApplySummary(c)
    <3>1. /\ \A x \in Sessions : x # c.id => sess'[x] = sess[x]
          /\ sess' \in [Sessions -> SessRows]
      BY <1>1, <2>3, ApplySummaryEffect
    <3>2. sess'[c.id].state = sess[c.id].state /\ sess'[c.id].turns = sess[c.id].turns
      <4>1. sess'[c.id] = [sess[c.id] EXCEPT
                !.sum = c.turns, !.seen = c.turns,
                !.title = IF sess[c.id].title = "manual" THEN "manual" ELSE "auto",
                !.rev = rev + 1, !.summarized = Ch!Marked(c.id, c.rev)]
        BY <1>1, <2>3, ApplySummaryEffect
      <4> QED
        BY <2>0, <4>1 DEF SessRows
    <3>3. rev' = rev + 1
      BY <2>3 DEF Ch!ApplySummary, Ch!Bump
    <3>4. rev' \in Nat
      BY <3>3, NextCounts
    <3> QED
      BY <3>1, <3>2, <3>4
  <2> QED
    BY <2>1, <2>2, <2>3 DEF Ch!Summarized
<1>3. work' \in WorkStates
  BY RestFits DEF Ch!Summarized
<1>4. UNCHANGED <<inst, turn, tomb, job, swept, cycle, vec, late, facts, clean, search>>
  BY DEF Ch!Summarized
<1>5. ShapeInv'
  BY <1>2, <1>3, <1>4 DEF ShapeInv
<1> QED
  BY <1>1, <1>2, <1>5

-----------------------------------------------------------------------------
(* Writes to vector-db.                                                     *)

LEMMA UpsertFits ==
    ASSUME NEW A, NEW D
    PROVE  Ch!Upsert(A, D) \subseteq A \cup D /\ D \subseteq Ch!Upsert(A, D)
BY DEF Ch!Upsert

LEMMA FailedWriteFits ==
    ASSUME NEW D, Ch!FailedWrite(D)
    PROVE  vec' \subseteq vec \cup D /\ late' \subseteq late \cup D
<1>1. Ch!Upsert(vec, D) \subseteq vec \cup D
  BY UpsertFits
<1> QED
  BY <1>1 DEF Ch!FailedWrite

(* A step of the embedder that writes to vector-db.                          *)
LEMMA WriteShape ==
    ASSUME ShapeInv, NEW D \in SUBSET Docs, vec' \subseteq vec \cup late \cup D,
           late' \subseteq late \cup D, work' \in WorkStates, clean' \in CleanStates,
           search' \in SearchStates, UNCHANGED <<Ch!storeVars, job, swept, cycle, facts>>
    PROVE  ShapeInv'
<1>1. vec' \subseteq Docs /\ late' \subseteq Docs
  BY DEF ShapeInv
<1> QED
  BY <1>1 DEF ShapeInv, Ch!storeVars

LEMMA TurnsUpsertOkEffect ==
    ASSUME ShapeInv, Ch!TurnsUpsertOk
    PROVE  /\ vec' \subseteq vec \cup work.docs
           /\ work'.pc = "mark" /\ work'.cands = work.cands /\ work'.docs = work.docs
           /\ work'.sdocs = work.sdocs /\ work'.good = work.docs
           /\ ShapeInv'
<1>1. work \in WorkStates /\ clean \in CleanStates /\ search \in SearchStates
  BY DEF ShapeInv
<1>2. work' = [work EXCEPT !.pc = "mark", !.good = work.docs]
  BY DEF Ch!TurnsUpsertOk
<1>3. /\ work' \in WorkStates /\ work'.pc = "mark" /\ work'.cands = work.cands
      /\ work'.docs = work.docs /\ work'.sdocs = work.sdocs /\ work'.good = work.docs
  BY <1>1, <1>2, WorkOf DEF WorkStates
<1>4. vec' \subseteq vec \cup work.docs
  BY UpsertFits DEF Ch!TurnsUpsertOk
<1>5. ShapeInv'
  BY <1>1, <1>3, <1>4, SdocsAreDocs, WriteShape DEF Ch!TurnsUpsertOk
<1> QED
  BY <1>3, <1>4, <1>5

LEMMA TurnsUpsertMissingEffect ==
    ASSUME ShapeInv, Ch!TurnsUpsertMissing
    PROVE  /\ work'.pc = "sessions" /\ work'.cands = work.cands /\ work'.docs = {}
           /\ work'.sdocs = work.sdocs
           /\ ShapeInv'
<1>1. work \in WorkStates
  BY DEF ShapeInv
<1>2. work' = [work EXCEPT !.pc = "sessions", !.docs = {}]
  BY DEF Ch!TurnsUpsertMissing
<1>3. /\ work' \in WorkStates /\ work'.pc = "sessions" /\ work'.cands = work.cands
      /\ work'.docs = {} /\ work'.sdocs = work.sdocs
  BY <1>1, <1>2 DEF WorkStates
<1>4. ShapeInv'
  BY <1>3, LaneShape DEF Ch!TurnsUpsertMissing
<1> QED
  BY <1>3, <1>4

LEMMA TurnsUpsertFailsEffect ==
    ASSUME ShapeInv, Ch!TurnsUpsertFails
    PROVE  /\ vec' \subseteq vec \cup work.docs /\ late' \subseteq late \cup work.docs
           /\ work'.pc = "probe" /\ work'.cands = work.cands /\ work'.docs = work.docs
           /\ work'.sdocs = work.sdocs
           /\ ShapeInv'
<1>1. work \in WorkStates /\ clean \in CleanStates /\ search \in SearchStates
  BY DEF ShapeInv
<1>2. work' = [work EXCEPT !.pc = "probe"]
  BY DEF Ch!TurnsUpsertFails
<1>3. /\ work' \in WorkStates /\ work'.pc = "probe" /\ work'.cands = work.cands
      /\ work'.docs = work.docs /\ work'.sdocs = work.sdocs
  BY <1>1, <1>2 DEF WorkStates
<1>4. vec' \subseteq vec \cup work.docs /\ late' \subseteq late \cup work.docs
  BY FailedWriteFits DEF Ch!TurnsUpsertFails
<1>5. ShapeInv'
  BY <1>1, <1>3, <1>4, SdocsAreDocs, WriteShape DEF Ch!TurnsUpsertFails
<1> QED
  BY <1>3, <1>4, <1>5

LEMMA DocByDocEffect ==
    ASSUME ShapeInv, NEW good, Ch!DocByDoc(good)
    PROVE  /\ vec' \subseteq vec \cup work.docs /\ late' \subseteq late \cup work.docs
           /\ work'.pc = "mark" /\ work'.cands = work.cands /\ work'.docs = work.docs
           /\ work'.sdocs = work.sdocs /\ work'.good \subseteq work.docs
           /\ ShapeInv'
<1>1. work \in WorkStates /\ clean \in CleanStates /\ search \in SearchStates
  BY DEF ShapeInv
<1>2. work' = [work EXCEPT !.pc = "mark", !.good = good] /\ good \subseteq work.docs
  BY DEF Ch!DocByDoc
<1>3. /\ work' \in WorkStates /\ work'.pc = "mark" /\ work'.cands = work.cands
      /\ work'.docs = work.docs /\ work'.sdocs = work.sdocs /\ work'.good = good
  BY <1>1, <1>2, WorkOf DEF WorkStates
<1>4. vec' \subseteq vec \cup work.docs /\ late' \subseteq late \cup work.docs
  <2>1. PICK landed \in SUBSET (work.docs \ good), slow \in SUBSET (work.docs \ good) :
            vec' = Ch!Upsert(vec, good \cup landed) /\ late' = late \cup slow
    BY DEF Ch!DocByDoc
  <2>2. Ch!Upsert(vec, good \cup landed) \subseteq vec \cup (good \cup landed)
    BY UpsertFits
  <2> QED
    BY <1>2, <2>1, <2>2
<1>5. ShapeInv'
  BY <1>1, <1>3, <1>4, SdocsAreDocs, WriteShape DEF Ch!DocByDoc
<1> QED
  BY <1>2, <1>3, <1>4, <1>5

LEMMA SessionsUpsertOkEffect ==
    ASSUME ShapeInv, Ch!SessionsUpsertOk
    PROVE  /\ vec' \subseteq vec \cup {d.doc : d \in work.sdocs}
           /\ work'.pc = "smark" /\ work'.cands = work.cands /\ work'.docs = work.docs
           /\ work'.sdocs = work.sdocs
           /\ ShapeInv'
<1>1. work \in WorkStates /\ clean \in CleanStates /\ search \in SearchStates
  BY DEF ShapeInv
<1>2. work' = [work EXCEPT !.pc = "smark"]
  BY DEF Ch!SessionsUpsertOk
<1>3. /\ work' \in WorkStates /\ work'.pc = "smark" /\ work'.cands = work.cands
      /\ work'.docs = work.docs /\ work'.sdocs = work.sdocs
  BY <1>1, <1>2 DEF WorkStates
<1>4. vec' \subseteq vec \cup {d.doc : d \in work.sdocs}
  BY UpsertFits DEF Ch!SessionsUpsertOk
<1>5. ShapeInv'
  BY <1>1, <1>3, <1>4, SdocsAreDocs, WriteShape DEF Ch!SessionsUpsertOk
<1> QED
  BY <1>3, <1>4, <1>5

LEMMA SessionsUpsertFailsEffect ==
    ASSUME ShapeInv, Ch!SessionsUpsertFails
    PROVE  /\ vec' \subseteq vec \cup {d.doc : d \in work.sdocs}
           /\ late' \subseteq late \cup {d.doc : d \in work.sdocs}
           /\ work' = Ch!WorkIdle
           /\ ShapeInv'
<1>1. work' \in WorkStates /\ clean \in CleanStates /\ search \in SearchStates
  BY WorkIdleFits DEF ShapeInv, Ch!SessionsUpsertFails
<1>4. /\ vec' \subseteq vec \cup {d.doc : d \in work.sdocs}
      /\ late' \subseteq late \cup {d.doc : d \in work.sdocs}
  BY FailedWriteFits DEF Ch!SessionsUpsertFails
<1>5. ShapeInv'
  BY <1>1, <1>4, SdocsAreDocs, WriteShape DEF Ch!SessionsUpsertFails
<1> QED
  BY <1>4, <1>5 DEF Ch!SessionsUpsertFails

LEMMA LateLandsEffect ==
    ASSUME ShapeInv, NEW d \in late, Ch!LateLands(d)
    PROVE  /\ vec' \subseteq vec \cup late /\ late' = late \ {d}
           /\ ShapeInv'
<1>1. work \in WorkStates /\ clean \in CleanStates /\ search \in SearchStates
  BY DEF ShapeInv
<1>2. vec' \subseteq vec \cup late /\ late' = late \ {d}
  BY UpsertFits DEF Ch!LateLands
<1>3. ShapeInv'
  <2>1. {} \in SUBSET Docs /\ vec' \subseteq vec \cup late \cup {} /\ late' \subseteq late \cup {}
    BY <1>2
  <2> QED
    BY <1>1, <2>1, WriteShape DEF Ch!LateLands
<1> QED
  BY <1>2, <1>3

-----------------------------------------------------------------------------
(* Requeues, and the marks of the embedder.                                 *)

LEMMA RequeueFits ==
    ASSUME ShapeInv, NEW s \in Sessions, NEW ids \in SUBSET Turns
    PROVE  /\ Ch!Requeue(s, ids) \in JobRows /\ Ch!Requeue(s, ids).queued /\ Ch!Requeue(s, ids).done = {}
           /\ job[s].queued => /\ Ch!Requeue(s, ids).turns = job[s].turns \cup ids
                               /\ Ch!Requeue(s, ids).gen = job[s].gen + 1
                               /\ Ch!Requeue(s, ids).goals = job[s].goals
           /\ ~job[s].queued => /\ Ch!Requeue(s, ids).turns = ids
                                /\ Ch!Requeue(s, ids).goals = FALSE
<1> PICK r \in JobRows : r = job[s]
  BY ShapeOf
<1>1. r.turns \cup ids \in SUBSET Turns /\ r.gen \in Nat
  BY JobRowFields
<1>2. r.gen + 1 \in Nat
  BY <1>1
<1>3. CASE r.queued
  <2>1. Ch!Requeue(s, ids) = [r EXCEPT !.turns = r.turns \cup ids, !.done = {}, !.wait = FALSE,
                                       !.gen = r.gen + 1]
    BY <1>3 DEF Ch!Requeue
  <2>2. Ch!Requeue(s, ids) \in JobRows
    <3>1. PICK x \in SUBSET Turns : x = r.turns \cup ids
      BY <1>1
    <3>2. PICK n \in Nat : n = r.gen + 1
      BY <1>2
    <3>3. [r EXCEPT !.turns = x, !.done = {}, !.wait = FALSE, !.gen = n] \in JobRows
      BY JobMerged
    <3> QED
      BY <2>1, <3>1, <3>2, <3>3
  <2>3. /\ Ch!Requeue(s, ids).queued = r.queued /\ Ch!Requeue(s, ids).done = {}
        /\ Ch!Requeue(s, ids).turns = r.turns \cup ids /\ Ch!Requeue(s, ids).gen = r.gen + 1
        /\ Ch!Requeue(s, ids).goals = r.goals
    BY <2>1 DEF JobRows
  <2> QED
    BY <1>3, <2>2, <2>3
<1>4. CASE ~r.queued
  <2>1. Ch!Requeue(s, ids) = [Ch!NoJob EXCEPT !.queued = TRUE, !.turns = ids]
    BY <1>4 DEF Ch!Requeue
  <2>2. Ch!Requeue(s, ids) \in JobRows
    BY <2>1, JobQueuedAgain
  <2>3. /\ Ch!Requeue(s, ids).queued = TRUE /\ Ch!Requeue(s, ids).done = {}
        /\ Ch!Requeue(s, ids).turns = ids /\ Ch!Requeue(s, ids).goals = FALSE
    BY <2>1 DEF Ch!NoJob
  <2> QED
    BY <1>4, <2>2, <2>3
<1> QED
  BY <1>3, <1>4

(* A job is left alone, or its session is dead and it is queued again.       *)
Requeued(s) == ~Ch!Live(s) /\ \E ids \in SUBSET Turns : job'[s] = Ch!Requeue(s, ids)

LEMMA RequeueDeadFits ==
    ASSUME ShapeInv, job' = Ch!RequeueDead(work.docs)
    PROVE  /\ job' \in [Sessions -> JobRows]
           /\ \A s \in Sessions :
                \/ job'[s] = job[s]
                \/ Requeued(s) /\ \E d \in work.docs : d.of = s
<1> SUFFICES ASSUME NEW s \in Sessions
             PROVE  /\ job'[s] \in JobRows
                    /\ \/ job'[s] = job[s]
                       \/ Requeued(s) /\ \E d \in work.docs : d.of = s
  BY DEF Ch!RequeueDead
<1> DEFINE ids == {d.id : d \in {x \in work.docs : x.of = s}}
<1>1. job'[s] = IF ids # {} /\ ~Ch!Live(s) THEN Ch!Requeue(s, ids) ELSE job[s]
  BY DEF Ch!RequeueDead
<1>2. ids \in SUBSET Turns
  BY WorkOf DEF TurnDocs
<1>3. ids # {} => \E d \in work.docs : d.of = s
  OBVIOUS
<1> HIDE DEF ids
<1>4. Ch!Requeue(s, ids) \in JobRows /\ job[s] \in JobRows
  BY <1>2, RequeueFits, ShapeOf
<1> QED
  BY <1>1, <1>2, <1>3, <1>4 DEF Requeued

LEMMA ProbeFailsEffect ==
    ASSUME ShapeInv, Ch!ProbeFails
    PROVE  /\ \A s \in Sessions :
                \/ job'[s] = job[s]
                \/ Requeued(s) /\ \E d \in work.docs : d.of = s
           /\ work'.pc = "sessions" /\ work'.cands = work.cands /\ work'.docs = {}
           /\ work'.sdocs = work.sdocs
           /\ ShapeInv'
<1>1. work \in WorkStates
  BY DEF ShapeInv
<1>2. work' = [work EXCEPT !.pc = "sessions", !.docs = {}]
  BY DEF Ch!ProbeFails
<1>3. /\ work' \in WorkStates /\ work'.pc = "sessions" /\ work'.cands = work.cands
      /\ work'.docs = {} /\ work'.sdocs = work.sdocs
  BY <1>1, <1>2 DEF WorkStates
<1>4. /\ job' \in [Sessions -> JobRows]
      /\ \A s \in Sessions :
            \/ job'[s] = job[s]
            \/ Requeued(s) /\ \E d \in work.docs : d.of = s
  BY RequeueDeadFits DEF Ch!ProbeFails
<1>5. ShapeInv'
  BY <1>3, <1>4 DEF Ch!ProbeFails, ShapeInv, Ch!storeVars
<1> QED
  BY <1>3, <1>4, <1>5

(* A turn is marked embedded, or rejected once more.                         *)
Marks(t) ==
  \/ turn'[t] = turn[t]
  \/ turn'[t] = [turn[t] EXCEPT !.embedded = "yes"]
  \/ /\ t \in Ch!Rows /\ \E d \in work.docs : d.id = t
     /\ turn'[t] = [turn[t] EXCEPT !.attempts = turn[t].attempts + 1,
                      !.embedded = IF turn[t].attempts + 1 >= MaxAttempts
                                   THEN "never" ELSE turn[t].embedded]

LEMMA MarksFit ==
    ASSUME ShapeInv, NEW t \in Turns, Marks(t)
    PROVE  /\ turn'[t] \in TurnRows /\ turn'[t].of = turn[t].of /\ turn'[t].rev = turn[t].rev
           /\ turn'[t].seq = turn[t].seq
<1> PICK r \in TurnRows : r = turn[t]
  BY ShapeOf
<1>1. r.attempts \in Nat /\ r.embedded \in {"no", "yes", "never"}
  BY TurnRowFields
<1>2. r.attempts + 1 \in Nat
  BY <1>1
<1>3. CASE turn'[t] = r
  BY <1>3
<1>4. CASE turn'[t] = [r EXCEPT !.embedded = "yes"]
  BY <1>4 DEF TurnRows
<1>5. CASE turn'[t] = [r EXCEPT !.attempts = r.attempts + 1,
                          !.embedded = IF r.attempts + 1 >= MaxAttempts
                                       THEN "never" ELSE r.embedded]
  <2>1. PICK n \in Nat : n = r.attempts + 1
    BY <1>2
  <2>2. PICK e \in {"no", "yes", "never"} :
            e = IF r.attempts + 1 >= MaxAttempts THEN "never" ELSE r.embedded
    BY <1>1
  <2>3. turn'[t] = [r EXCEPT !.attempts = n, !.embedded = e]
    BY <1>5, <2>1, <2>2
  <2> QED
    BY <2>3 DEF TurnRows
<1> QED
  BY <1>3, <1>4, <1>5 DEF Marks

LEMMA TurnsMarkEffect ==
    ASSUME ShapeInv, Ch!TurnsMark
    PROVE  /\ \A t \in Turns : Marks(t)
           /\ \A s \in Sessions :
                \/ job'[s] = job[s]
                \/ Requeued(s) /\ \E d \in work.docs : d.of = s
           /\ work'.pc = "sessions" /\ work'.cands = work.cands /\ work'.docs = {}
           /\ work'.sdocs = work.sdocs
           /\ ShapeInv'
<1>1. work \in WorkStates
  BY DEF ShapeInv
<1>2. work' = [work EXCEPT !.pc = "sessions", !.docs = {}, !.good = {}]
  BY DEF Ch!TurnsMark
<1>3. /\ work' \in WorkStates /\ work'.pc = "sessions" /\ work'.cands = work.cands
      /\ work'.docs = {} /\ work'.sdocs = work.sdocs
  BY <1>1, <1>2 DEF WorkStates
<1>4. /\ job' \in [Sessions -> JobRows]
      /\ \A s \in Sessions :
            \/ job'[s] = job[s]
            \/ Requeued(s) /\ \E d \in work.docs : d.of = s
  BY RequeueDeadFits DEF Ch!TurnsMark
<1>5. ASSUME NEW t \in Turns
      PROVE  Marks(t)
  <2> DEFINE isGood == \E d \in work.good : d.id = t
             isBad == \E d \in work.docs \ work.good : d.id = t
             yes == [turn[t] EXCEPT !.embedded = "yes"]
             no == [turn[t] EXCEPT !.attempts = turn[t].attempts + 1,
                         !.embedded = IF turn[t].attempts + 1 >= MaxAttempts
                                      THEN "never" ELSE turn[t].embedded]
  <2>1. turn'[t] = CASE t \in Ch!Rows /\ isGood -> yes
                     [] t \in Ch!Rows /\ isBad -> no
                     [] OTHER -> turn[t]
    BY DEF Ch!TurnsMark
  <2>2. isBad => \E d \in work.docs : d.id = t
    OBVIOUS
  <2>3. \/ turn'[t] = turn[t] \/ turn'[t] = yes
        \/ t \in Ch!Rows /\ isBad /\ turn'[t] = no
    <3> HIDE DEF yes, no, isGood, isBad
    <3>1. CASE t \in Ch!Rows /\ isGood
      BY <2>1, <3>1
    <3>2. CASE ~(t \in Ch!Rows /\ isGood) /\ t \in Ch!Rows /\ isBad
      BY <2>1, <3>2
    <3>3. CASE ~(t \in Ch!Rows /\ isGood) /\ ~(t \in Ch!Rows /\ isBad)
      BY <2>1, <3>3
    <3> QED
      BY <3>1, <3>2, <3>3
  <2> QED
    BY <2>2, <2>3 DEF Marks
<1>6. turn' \in [Turns -> TurnRows]
  <2>1. \A t \in Turns : turn'[t] \in TurnRows
    BY <1>5, MarksFit
  <2> DEFINE NewRow(t) ==
        CASE t \in Ch!Rows /\ (\E d \in work.good : d.id = t) -> [turn[t] EXCEPT !.embedded = "yes"]
          [] t \in Ch!Rows /\ (\E d \in work.docs \ work.good : d.id = t) ->
               [turn[t] EXCEPT !.attempts = @ + 1,
                  !.embedded = IF turn[t].attempts + 1 >= MaxAttempts THEN "never" ELSE @]
          [] OTHER -> turn[t]
  <2>2. turn' = [t \in Turns |-> NewRow(t)]
    BY DEF Ch!TurnsMark
  <2> HIDE DEF NewRow
  <2> QED
    BY <2>1, <2>2
<1>7. ShapeInv'
  BY <1>3, <1>4, <1>6, Zenon DEF Ch!TurnsMark, ShapeInv
<1> QED
  BY <1>3, <1>4, <1>5, <1>7

LEMMA SessionsMarkEffect ==
    ASSUME ShapeInv, Ch!SessionsMark
    PROVE  /\ \A s \in Sessions :
                \/ sess'[s] = sess[s]
                \/ /\ Ch!Live(s)
                   /\ \E d \in work.sdocs :
                        /\ d.doc.id = s
                        /\ sess'[s] = [sess[s] EXCEPT !.embedded = Ch!Most(sess[s].embedded, d.rev)]
           /\ \A s \in Sessions :
                \/ job'[s] = job[s]
                \/ Requeued(s) /\ \E d \in work.sdocs : d.doc.id = s
           /\ work' = Ch!WorkIdle
           /\ ShapeInv'
<1> DEFINE docOf(s) == {d \in work.sdocs : d.doc.id = s}
           newSess(s) == IF docOf(s) # {} /\ Ch!Live(s)
                         THEN [sess[s] EXCEPT !.embedded =
                                 Ch!Most(sess[s].embedded, (CHOOSE d \in docOf(s) : TRUE).rev)]
                         ELSE sess[s]
           newJob(s) == IF docOf(s) # {} /\ ~Ch!Live(s) THEN Ch!Requeue(s, {}) ELSE job[s]
<1>1. /\ sess' = [s \in Sessions |-> newSess(s)]
      /\ job' = [s \in Sessions |-> newJob(s)]
  BY DEF Ch!SessionsMark
<1>2. ASSUME NEW s \in Sessions
      PROVE  /\ newSess(s) \in SessRows
             /\ \/ newSess(s) = sess[s]
                \/ /\ Ch!Live(s)
                   /\ \E d \in work.sdocs :
                        /\ d.doc.id = s
                        /\ newSess(s) = [sess[s] EXCEPT !.embedded = Ch!Most(sess[s].embedded, d.rev)]
  <2>1. sess[s] \in SessRows
    BY ShapeOf
  <2>2. CASE ~(docOf(s) # {} /\ Ch!Live(s))
    BY <2>1, <2>2
  <2>3. CASE docOf(s) # {} /\ Ch!Live(s)
    <3>1. PICK d : d = CHOOSE e \in docOf(s) : TRUE
      OBVIOUS
    <3>2. d \in docOf(s)
      BY <2>3, <3>1
    <3>3. newSess(s) = [sess[s] EXCEPT !.embedded = Ch!Most(sess[s].embedded, d.rev)]
      BY <2>3, <3>1
    <3>4. d \in work.sdocs /\ d.doc.id = s
      BY <3>2
    <3>5. d.rev \in Nat /\ sess[s].embedded \in Nat
      BY <2>1, <3>4, WorkOf, SummaryFields, SessRowFields
    <3>6. PICK n \in Nat : n = Ch!Most(sess[s].embedded, d.rev)
      BY <3>5, MostIsMost
    <3> HIDE DEF newSess, docOf
    <3>7. newSess(s) = [sess[s] EXCEPT !.embedded = n]
      BY <3>3, <3>6
    <3>8. newSess(s) \in SessRows
      BY <2>1, <3>7 DEF SessRows
    <3> QED
      BY <2>3, <3>3, <3>4, <3>8
  <2> QED
    BY <2>2, <2>3
<1>3. ASSUME NEW s \in Sessions
      PROVE  /\ newJob(s) \in JobRows
             /\ \/ newJob(s) = job[s]
                \/ /\ ~Ch!Live(s) /\ newJob(s) = Ch!Requeue(s, {})
                   /\ \E d \in work.sdocs : d.doc.id = s
  <2>1. job[s] \in JobRows /\ Ch!Requeue(s, {}) \in JobRows
    BY ShapeOf, RequeueFits
  <2>2. docOf(s) # {} => \E d \in work.sdocs : d.doc.id = s
    OBVIOUS
  <2> QED
    BY <2>1, <2>2
<1> HIDE DEF newSess, newJob
<1>4. /\ sess' \in [Sessions -> SessRows] /\ job' \in [Sessions -> JobRows]
      /\ \A s \in Sessions : sess'[s] = newSess(s) /\ job'[s] = newJob(s)
  BY <1>1, <1>2, <1>3
<1>5. \A s \in Sessions :
          \/ job'[s] = job[s]
          \/ Requeued(s) /\ \E d \in work.sdocs : d.doc.id = s
  BY <1>3, <1>4 DEF Requeued
<1>6. ShapeInv'
  BY <1>4, WorkIdleFits DEF Ch!SessionsMark, ShapeInv
<1>7. work' = Ch!WorkIdle
  BY DEF Ch!SessionsMark
<1> QED
  BY <1>2, <1>4, <1>5, <1>6, <1>7

-----------------------------------------------------------------------------
(* The cleanup lane.                                                        *)

LEMMA CleanOf ==
    ASSUME ShapeInv
    PROVE  /\ clean \in CleanStates
           /\ clean.jobs \subseteq JobRead /\ clean.cur \subseteq JobRead
           /\ clean.done \subseteq Steps
           /\ clean.rows \subseteq RowRead /\ clean.swept \subseteq RowRead
BY DEF ShapeInv, CleanStates

LEMMA CleanIdleFits ==
    /\ Ch!CleanIdle \in CleanStates /\ Ch!CleanIdle.jobs = {} /\ Ch!CleanIdle.cur = {}
    /\ Ch!CleanIdle.rows = {} /\ Ch!CleanIdle.swept = {}
BY DEF Ch!CleanIdle, CleanStates

LEMMA JobReadFields ==
    ASSUME NEW j \in JobRead
    PROVE  j.id \in Sessions /\ j.job \in JobRows
BY DEF JobRead

LEMMA RowReadFields ==
    ASSUME NEW r \in RowRead
    PROVE  r.id \in Sessions /\ r.turns \subseteq Turns
BY DEF RowRead

LEMMA CleanShape ==
    ASSUME ShapeInv, clean' \in CleanStates,
           UNCHANGED <<Ch!storeVars, job, swept, cycle, vec, late, facts, work, search>>
    PROVE  ShapeInv'
BY DEF ShapeInv, Ch!storeVars

LEMMA CleanBeginEffect ==
    ASSUME ShapeInv, NEW over, Ch!CleanBegin(over)
    PROVE  /\ clean'.cur = {}
           /\ \A j \in clean'.jobs : \E s \in Sessions :
                 j = [id |-> s, job |-> job[s]] /\ job[s].queued
           /\ ShapeInv'
<1> DEFINE due == {s \in Sessions : job[s].queued /\ ~job[s].wait} \cup over
           jobs == {[id |-> s, job |-> job[s]] : s \in due}
<1>1. over \subseteq {s \in Sessions : job[s].queued /\ job[s].wait}
  BY DEF Ch!CleanBegin
<1>2. \A j \in jobs : \E s \in Sessions : j = [id |-> s, job |-> job[s]] /\ job[s].queued
  BY <1>1
<1>3. jobs \subseteq JobRead
  <2> SUFFICES ASSUME NEW j \in jobs PROVE j \in JobRead
    OBVIOUS
  <2>1. PICK s \in Sessions : j = [id |-> s, job |-> job[s]]
    BY <1>2
  <2>2. job[s] \in JobRows
    BY ShapeOf
  <2> QED
    BY <2>1, <2>2 DEF JobRead
<1>4. clean' = [Ch!CleanIdle EXCEPT !.pc = IF due = {} THEN "sweep" ELSE "jobs", !.jobs = jobs]
  BY DEF Ch!CleanBegin
<1> HIDE DEF jobs, due
<1>5. clean' \in CleanStates /\ clean'.jobs = jobs /\ clean'.cur = {}
  BY <1>3, <1>4, Zenon DEF Ch!CleanIdle, CleanStates
<1>6. ShapeInv'
  BY <1>5, CleanShape DEF Ch!CleanBegin
<1> QED
  BY <1>2, <1>5, <1>6

LEMMA StepsOfJob ==
    ASSUME NEW j \in JobRead
    PROVE  /\ Ch!VecSteps(j) \subseteq Steps /\ Ch!AgentSteps(j) \subseteq Steps
           /\ j.job.done \subseteq Steps
           /\ Ch!AgentSteps(j) \subseteq {<<"goal", j.id>>, <<"fact", j.id>>}
<1>1. j.id \in Sessions /\ j.job.turns \subseteq Turns /\ j.job.done \subseteq Steps
  BY JobReadFields, JobRowFields
<1> QED
  BY <1>1 DEF Ch!VecSteps, Ch!AgentSteps, Steps

LEMMA JobCallsEffect ==
    ASSUME ShapeInv, NEW j, NEW okV, NEW okA, NEW broke \in SUBSET {"vector-db", "agent"}, NEW cut \in BOOLEAN,
           Ch!JobCalls(j, okV, okA, broke, cut)
    PROVE  /\ j \in clean.jobs /\ j \in JobRead
           /\ clean'.jobs = clean.jobs \ {j} /\ clean'.cur = {j}
           /\ clean'.done = j.job.done \cup okV \cup okA
           /\ okV \subseteq Ch!VecSteps(j) /\ okA \subseteq Ch!AgentSteps(j)
           /\ vec' \subseteq vec
           /\ facts' \subseteq facts \ {<<a[2], a[1]>> : a \in okA}
           /\ ShapeInv'
<1>1. /\ j \in clean.jobs /\ okV \subseteq Ch!VecSteps(j) /\ okA \subseteq Ch!AgentSteps(j)
      /\ facts' \subseteq facts \ {<<a[2], a[1]>> : a \in okA}
  BY DEF Ch!JobCalls
<1>2. j \in JobRead
  BY <1>1, CleanOf
<1>3. vec' \subseteq vec
  BY DEF Ch!JobCalls, Ch!Deleted
<1> DEFINE down == clean.down \cup broke
           called == okV \cup okA # {} \/ broke # {}
<1>4. PICK f \in BOOLEAN : f = (\/ okV # Ch!VecSteps(j) /\ "vector-db" \in down
                                \/ okA # Ch!AgentSteps(j) /\ "agent" \in down)
  BY Zenon
<1>5. PICK k : k = (clean.calls \/ called)
  OBVIOUS
<1>6. k \in BOOLEAN
  BY <1>5, CleanOf DEF CleanStates
<1>7. PICK D \in SUBSET {"vector-db", "agent"} : D = down
  BY CleanOf DEF CleanStates
<1>8. PICK N \in SUBSET Steps : N = j.job.done \cup okV \cup okA
  BY <1>1, <1>2, StepsOfJob
<1>9. PICK J \in SUBSET JobRead : J = clean.jobs \ {j}
  BY CleanOf
<1>10. clean' = [clean EXCEPT !.pc = "save", !.jobs = J, !.cur = {j}, !.done = N, !.down = D,
                              !.calls = k, !.failed = f]
  BY <1>4, <1>5, <1>7, <1>8, <1>9 DEF Ch!JobCalls
<1>11. /\ clean' \in CleanStates /\ clean'.jobs = J /\ clean'.cur = {j} /\ clean'.done = N
  BY <1>2, <1>6, <1>10, CleanOf DEF CleanStates
<1>12. ShapeInv'
  BY <1>1, <1>3, <1>11 DEF Ch!JobCalls, ShapeInv, Ch!storeVars
<1> QED
  BY <1>1, <1>2, <1>3, <1>8, <1>9, <1>11, <1>12

LEMMA JobsCutEffect ==
    ASSUME ShapeInv, Ch!JobsCut
    PROVE  clean'.jobs = {} /\ clean'.cur = clean.cur /\ clean'.done = clean.done /\ ShapeInv'
<1>1. clean \in CleanStates
  BY CleanOf
<1>2. clean' = [clean EXCEPT !.pc = "sweep", !.jobs = {}]
  BY DEF Ch!JobsCut
<1>3. /\ clean' \in CleanStates /\ clean'.jobs = {} /\ clean'.cur = clean.cur
      /\ clean'.done = clean.done
  BY <1>1, <1>2 DEF CleanStates
<1>4. ShapeInv'
  BY <1>3, CleanShape DEF Ch!JobsCut
<1> QED
  BY <1>3, <1>4

LEMMA NextJobFits ==
    ASSUME ShapeInv
    PROVE  Ch!NextJob \in CleanStates /\ Ch!NextJob.jobs = clean.jobs /\ Ch!NextJob.cur = {}
<1>1. clean \in CleanStates
  BY CleanOf
<1>2. PICK p \in {"sweep", "jobs"} : p = IF clean.jobs = {} THEN "sweep" ELSE "jobs"
  OBVIOUS
<1>3. Ch!NextJob = [clean EXCEPT !.pc = p, !.cur = {}, !.done = {}, !.failed = FALSE]
  BY <1>2 DEF Ch!NextJob
<1> QED
  BY <1>1, <1>3 DEF CleanStates

(* save_progress: nothing if the job was requeued since it was read.         *)
LEMMA JobSaveEffect ==
    ASSUME ShapeInv, Ch!JobSave
    PROVE  /\ \E j \in clean.cur :
                IF Ch!SameGen(j)
                THEN /\ job'[j.id] = [job[j.id] EXCEPT !.done = clean.done, !.wait = clean.failed]
                     /\ \A s \in Sessions : s # j.id => job'[s] = job[s]
                ELSE job' = job
           /\ clean'.jobs = clean.jobs /\ clean'.cur = {}
           /\ ShapeInv'
<1>1. PICK j \in clean.cur :
          job' = IF Ch!SameGen(j)
                 THEN [job EXCEPT ![j.id].done = clean.done, ![j.id].wait = clean.failed]
                 ELSE job
  BY DEF Ch!JobSave
<1>2. j.id \in Sessions /\ job \in [Sessions -> JobRows] /\ job[j.id] \in JobRows
  BY CleanOf, JobReadFields DEF ShapeInv
<1>3. clean.done \in SUBSET Steps /\ clean.failed \in BOOLEAN
  BY CleanOf DEF CleanStates
<1>4. CASE Ch!SameGen(j)
  <2>1. job' = [job EXCEPT ![j.id].done = clean.done, ![j.id].wait = clean.failed]
    BY <1>1, <1>4
  <2>2. job'[j.id] = [job[j.id] EXCEPT !.done = clean.done, !.wait = clean.failed]
    BY <1>2, <2>1
  <2>3. job'[j.id] \in JobRows
    BY <1>2, <1>3, <2>2 DEF JobRows
  <2>4. \A s \in Sessions : s # j.id => job'[s] = job[s]
    BY <1>2, <2>1
  <2>5. job' \in [Sessions -> JobRows]
    BY <1>2, <2>1, <2>3, <2>4
  <2>6. clean' \in CleanStates /\ clean'.jobs = clean.jobs /\ clean'.cur = {}
    BY NextJobFits DEF Ch!JobSave
  <2>7. ShapeInv'
    BY <2>5, <2>6 DEF ShapeInv, Ch!JobSave, Ch!storeVars
  <2> QED
    BY <1>4, <2>2, <2>4, <2>6, <2>7
<1>5. CASE ~Ch!SameGen(j)
  <2>1. job' = job
    BY <1>1, <1>5
  <2>6. clean' \in CleanStates /\ clean'.jobs = clean.jobs /\ clean'.cur = {}
    BY NextJobFits DEF Ch!JobSave
  <2>7. ShapeInv'
    BY <2>1, <2>6 DEF ShapeInv, Ch!JobSave, Ch!storeVars
  <2> QED
    BY <1>5, <2>1, <2>6, <2>7
<1> QED
  BY <1>4, <1>5

(* finish: the job and the session row go, the ids are kept for the sweep.   *)
LEMMA JobFinishEffect ==
    ASSUME ShapeInv, Ch!JobFinish
    PROVE  /\ \E j \in clean.cur :
                /\ Ch!VecSteps(j) \cup Ch!AgentSteps(j) \subseteq clean.done
                /\ IF Ch!SameGen(j)
                   THEN /\ job'[j.id] = Ch!NoJob
                        /\ sess'[j.id] = [sess[j.id] EXCEPT !.state = "gone"]
                        /\ swept'[j.id].kept
                        /\ swept'[j.id].turns = swept[j.id].turns \cup j.job.turns
                        /\ \A s \in Sessions : s # j.id =>
                             job'[s] = job[s] /\ sess'[s] = sess[s] /\ swept'[s] = swept[s]
                   ELSE UNCHANGED <<job, sess, swept>>
           /\ clean'.jobs = clean.jobs /\ clean'.cur = {}
           /\ ShapeInv'
<1>1. PICK j \in clean.cur :
          /\ Ch!VecSteps(j) \cup Ch!AgentSteps(j) \subseteq clean.done
          /\ IF Ch!SameGen(j)
             THEN /\ job' = [job EXCEPT ![j.id] = Ch!NoJob]
                  /\ sess' = [sess EXCEPT ![j.id].state = "gone"]
                  /\ swept' = [swept EXCEPT ![j.id] = Ch!SweptRow(j)]
             ELSE UNCHANGED <<job, sess, swept>>
  BY DEF Ch!JobFinish
<1>2. /\ j.id \in Sessions /\ job \in [Sessions -> JobRows] /\ sess \in [Sessions -> SessRows]
      /\ swept \in [Sessions -> SweptRows] /\ j.job.turns \subseteq Turns
  BY CleanOf, JobReadFields, JobRowFields DEF ShapeInv
<1>6. clean' \in CleanStates /\ clean'.jobs = clean.jobs /\ clean'.cur = {}
  BY NextJobFits DEF Ch!JobFinish
<1>4. CASE Ch!SameGen(j)
  <2>1. /\ job' = [job EXCEPT ![j.id] = Ch!NoJob]
        /\ sess' = [sess EXCEPT ![j.id].state = "gone"]
        /\ swept' = [swept EXCEPT ![j.id] = Ch!SweptRow(j)]
    BY <1>1, <1>4
  <2>2. /\ job'[j.id] = Ch!NoJob /\ sess'[j.id] = [sess[j.id] EXCEPT !.state = "gone"]
        /\ swept'[j.id] = Ch!SweptRow(j)
    BY <1>2, <2>1
  <2>3. swept[j.id].turns \subseteq Turns
    BY <1>2 DEF SweptRows
  <2>30. PICK T \in SUBSET Turns : T = swept[j.id].turns \cup j.job.turns
    BY <1>2, <2>3
  <2>31. Ch!SweptRow(j) = [Ch!NoRow EXCEPT !.kept = TRUE, !.turns = T]
    BY <2>30 DEF Ch!SweptRow
  <2>32. /\ Ch!SweptRow(j) \in SweptRows /\ Ch!SweptRow(j).kept
         /\ Ch!SweptRow(j).turns = T
    BY <2>31 DEF Ch!NoRow, SweptRows
  <2>33. sess'[j.id] \in SessRows
    BY <1>2, <2>2 DEF SessRows
  <2>4. \A s \in Sessions : s # j.id =>
          job'[s] = job[s] /\ sess'[s] = sess[s] /\ swept'[s] = swept[s]
    BY <1>2, <2>1
  <2>5. job' \in [Sessions -> JobRows]
    BY <1>2, <2>1, JobNone
  <2>50. swept' \in [Sessions -> SweptRows]
    BY <1>2, <2>1, <2>32
  <2>51. sess' \in [Sessions -> SessRows]
    BY <1>2, <2>1, <2>33, <2>4
  <2>7. ShapeInv'
    BY <2>5, <2>50, <2>51, <1>6 DEF ShapeInv, Ch!JobFinish
  <2> QED
    BY <1>1, <1>4, <1>6, <2>2, <2>30, <2>32, <2>4, <2>7
<1>5. CASE ~Ch!SameGen(j)
  <2>1. UNCHANGED <<job, sess, swept>>
    BY <1>1, <1>5
  <2>7. ShapeInv'
    BY <2>1, <1>6 DEF ShapeInv, Ch!JobFinish
  <2> QED
    BY <1>1, <1>5, <1>6, <2>1, <2>7
<1> QED
  BY <1>4, <1>5

(* What a step of the sweep leaves of a row.                                 *)
RowKept(s) == swept'[s].kept = swept[s].kept /\ swept'[s].turns = swept[s].turns
RowDropped(s) == Ch!Expirable(s) /\ ~swept'[s].kept /\ swept'[s].turns = {}

LEMMA NoRowFits ==
    Ch!NoRow \in SweptRows /\ Ch!NoRow.kept = FALSE /\ Ch!NoRow.turns = {}
BY DEF Ch!NoRow, SweptRows

LEMMA SweepPlanEffect ==
    ASSUME ShapeInv, NEW old, NEW over, NEW due \in BOOLEAN, Ch!SweepPlan(old, over, due)
    PROVE  /\ \A s \in Sessions : RowKept(s) \/ RowDropped(s)
           /\ clean'.jobs = {} /\ clean'.cur = {}
           /\ ShapeInv'
<1> DEFINE rows0 == [s \in Sessions |-> IF s \in old THEN Ch!NoRow ELSE swept[s]]
           opened == [s \in Sessions |-> [rows0[s] EXCEPT !.stamped = FALSE, !.wait = FALSE]]
           rows == IF cycle THEN rows0 ELSE opened
           todo == {s \in Sessions : /\ rows[s].kept /\ ~ rows[s].stamped
                                     /\ ~ rows[s].wait \/ s \in over}
           reads == {[id |-> s, turns |-> rows[s].turns] : s \in todo}
           more == \/ todo # {}
                   \/ \E s \in Sessions : rows[s].kept /\ ~ rows[s].stamped
<1>1. /\ \/ swept' = rows0 /\ cycle' = FALSE /\ clean' = Ch!CleanIdle
         \/ /\ swept' = rows
            /\ cycle' = more
            /\ clean' = IF todo = {} THEN Ch!CleanIdle
                        ELSE [Ch!CleanIdle EXCEPT !.pc = "rows", !.rows = reads]
      /\ old \subseteq {s \in Sessions : Ch!Expirable(s)}
  <2>1. CASE ~due
    BY <2>1, Zenon DEF Ch!SweepPlan
  <2>2. CASE due
    BY <2>2, Zenon DEF Ch!SweepPlan
  <2> QED
    BY <2>1, <2>2, Zenon
<1>2. ASSUME NEW s \in Sessions
      PROVE  /\ rows0[s] \in SweptRows /\ opened[s] \in SweptRows
             /\ opened[s].kept = rows0[s].kept /\ opened[s].turns = rows0[s].turns
             /\ s \notin old => rows0[s] = swept[s]
             /\ s \in old => rows0[s] = Ch!NoRow
  <2>1. rows0[s] \in SweptRows
    BY ShapeOf, NoRowFits
  <2>2. PICK r \in SweptRows : r = rows0[s]
    BY <2>1
  <2>3. opened[s] = [r EXCEPT !.stamped = FALSE, !.wait = FALSE]
    BY <2>2
  <2> HIDE DEF opened
  <2>4. opened[s] \in SweptRows /\ opened[s].kept = r.kept /\ opened[s].turns = r.turns
    BY <2>3 DEF SweptRows
  <2> QED
    BY <2>1, <2>2, <2>4
<1>3. rows0 = [s \in Sessions |-> rows0[s]] /\ opened = [s \in Sessions |-> opened[s]]
  OBVIOUS
<1>4. more \in BOOLEAN
  OBVIOUS
<1> HIDE DEF rows0, opened
<1>5. rows0 \in [Sessions -> SweptRows] /\ opened \in [Sessions -> SweptRows]
  BY <1>2, <1>3
<1>6. rows \in [Sessions -> SweptRows] /\ (rows = rows0 \/ rows = opened)
  BY <1>5
<1>7. reads \subseteq RowRead
  <2> SUFFICES ASSUME NEW s \in Sessions PROVE [id |-> s, turns |-> rows[s].turns] \in RowRead
    OBVIOUS
  <2>1. rows[s] \in SweptRows
    BY <1>6
  <2>2. rows[s].turns \subseteq Turns
    BY <2>1 DEF SweptRows
  <2> QED
    BY <2>2 DEF RowRead
<1>8. ASSUME NEW s \in Sessions
      PROVE  RowKept(s) \/ RowDropped(s)
  <2>1. swept'[s].kept = rows0[s].kept /\ swept'[s].turns = rows0[s].turns
    BY <1>1, <1>2, <1>6
  <2>2. CASE s \in old
    BY <1>1, <1>2, <2>1, <2>2, NoRowFits DEF RowDropped
  <2>3. CASE s \notin old
    BY <1>2, <2>1, <2>3 DEF RowKept
  <2> QED
    BY <2>2, <2>3
<1> HIDE DEF reads, more, todo
<1>9. swept' \in [Sessions -> SweptRows] /\ cycle' \in BOOLEAN
  BY <1>1, <1>4, <1>5, <1>6
<1>10. clean' \in CleanStates /\ clean'.jobs = {} /\ clean'.cur = {}
  <2>1. CASE clean' = Ch!CleanIdle
    BY <2>1, CleanIdleFits
  <2>2. CASE clean' = [Ch!CleanIdle EXCEPT !.pc = "rows", !.rows = reads]
    BY <1>7, <2>2 DEF Ch!CleanIdle, CleanStates
  <2> QED
    BY <1>1, <2>1, <2>2
<1>11. ShapeInv'
  BY <1>9, <1>10, Zenon DEF Ch!SweepPlan, ShapeInv, Ch!storeVars
<1> QED
  BY <1>8, <1>10, <1>11

LEMMA SweepCallsEffect ==
    ASSUME ShapeInv, NEW ok, NEW bad, Ch!SweepCalls(ok, bad)
    PROVE  /\ vec' \subseteq vec /\ clean'.jobs = clean.jobs /\ clean'.cur = clean.cur
           /\ clean'.done = clean.done
           /\ ShapeInv'
<1>1. vec' \subseteq vec
  BY DEF Ch!SweepCalls, Ch!Deleted
<1>2. clean \in CleanStates
  BY CleanOf
<1>3. PICK B \in SUBSET RowRead : B = bad
  BY CleanOf DEF Ch!SweepCalls
<1>4. PICK O \in SUBSET RowRead : O = ok
  BY CleanOf DEF Ch!SweepCalls
<1>5. clean' = [clean EXCEPT !.pc = "stamp", !.rows = B, !.swept = O]
  BY <1>3, <1>4 DEF Ch!SweepCalls
<1>6. /\ clean' \in CleanStates /\ clean'.jobs = clean.jobs /\ clean'.cur = clean.cur
      /\ clean'.done = clean.done
  BY <1>2, <1>5 DEF CleanStates
<1>7. ShapeInv'
  BY <1>1, <1>6 DEF Ch!SweepCalls, ShapeInv, Ch!storeVars
<1> QED
  BY <1>1, <1>6, <1>7

LEMMA SweepSaveEffect ==
    ASSUME ShapeInv, Ch!SweepSave
    PROVE  /\ \A s \in Sessions : RowKept(s)
           /\ clean'.jobs = {} /\ clean'.cur = {}
           /\ ShapeInv'
<1> DEFINE same(r) == swept[r.id].kept /\ swept[r.id].turns = r.turns
           okIds == {r.id : r \in {x \in clean.swept : same(x)}}
           badIds == {r.id : r \in {x \in clean.rows : same(x)}}
           row(s) == CASE s \in okIds -> [swept[s] EXCEPT !.stamped = TRUE]
                       [] s \in badIds -> [swept[s] EXCEPT !.wait = TRUE]
                       [] OTHER -> swept[s]
<1>1. swept' = [s \in Sessions |-> row(s)]
  BY DEF Ch!SweepSave
<1>2. ASSUME NEW s \in Sessions
      PROVE  row(s) \in SweptRows /\ row(s).kept = swept[s].kept /\ row(s).turns = swept[s].turns
  <2>1. \/ row(s) = [swept[s] EXCEPT !.stamped = TRUE]
        \/ row(s) = [swept[s] EXCEPT !.wait = TRUE]
        \/ row(s) = swept[s]
    <3> HIDE DEF okIds, badIds
    <3>1. CASE s \in okIds
      BY <3>1
    <3>2. CASE s \notin okIds /\ s \in badIds
      BY <3>2
    <3>3. CASE s \notin okIds /\ s \notin badIds
      BY <3>3
    <3> QED
      BY <3>1, <3>2, <3>3
  <2>2. swept[s] \in SweptRows
    BY ShapeOf
  <2> HIDE DEF row
  <2> QED
    BY <2>1, <2>2 DEF SweptRows
<1> HIDE DEF row
<1>3. swept' \in [Sessions -> SweptRows] /\ \A s \in Sessions : RowKept(s)
  BY <1>1, <1>2 DEF RowKept
<1>4. clean' = Ch!CleanIdle
  BY DEF Ch!SweepSave
<1>5. ShapeInv'
  BY <1>3, <1>4, CleanIdleFits DEF Ch!SweepSave, ShapeInv, Ch!storeVars
<1> QED
  BY <1>3, <1>4, <1>5, CleanIdleFits

-----------------------------------------------------------------------------
(* Restarts and searches.                                                   *)

LEMMA CrashEffect ==
    ASSUME ShapeInv, Ch!Crash
    PROVE  /\ \E D \in SUBSET (work.docs \cup Sdocs) :
                vec' \subseteq vec \cup D /\ late' \subseteq late \cup D
           /\ work' = Ch!WorkIdle /\ clean' = Ch!CleanIdle /\ search' = Ch!SearchIdle
           /\ ShapeInv'
<1> DEFINE sent == CASE work.pc = "upsert"  -> work.docs
                     [] work.pc = "supsert" -> Sdocs
                     [] OTHER -> {}
<1>1. Ch!FailedWrite(sent)
  BY DEF Ch!Crash, Sdocs
<1>2. sent \subseteq work.docs \cup Sdocs
  <2>1. CASE work.pc = "upsert"
    BY <2>1
  <2>2. CASE work.pc # "upsert" /\ work.pc = "supsert"
    BY <2>2
  <2>3. CASE work.pc # "upsert" /\ work.pc # "supsert"
    BY <2>3
  <2> QED
    BY <2>1, <2>2, <2>3
<1>3. PICK D \in SUBSET (work.docs \cup Sdocs) :
          vec' \subseteq vec \cup D /\ late' \subseteq late \cup D
  <2> HIDE DEF sent
  <2> QED
    BY <1>1, <1>2, FailedWriteFits
<1>4. work' = Ch!WorkIdle /\ clean' = Ch!CleanIdle /\ search' = Ch!SearchIdle
  BY DEF Ch!Crash
<1>5. Ch!SearchIdle \in SearchStates
  BY DEF Ch!SearchIdle, SearchStates
<1>6. D \in SUBSET Docs
  BY SdocsAreDocs DEF Sdocs
<1>7. ShapeInv'
  BY <1>3, <1>4, <1>5, <1>6, WorkIdleFits, CleanIdleFits, WriteShape DEF Ch!Crash
<1> QED
  BY <1>3, <1>4, <1>7

LEMMA SearchShape ==
    ASSUME ShapeInv, search' \in SearchStates,
           UNCHANGED <<Ch!storeVars, job, swept, cycle, vec, late, facts, work, clean>>
    PROVE  ShapeInv'
BY DEF ShapeInv, Ch!storeVars

LEMMA SearchBeginEffect ==
    ASSUME ShapeInv, NEW text, NEW answered, Ch!SearchBegin(text, answered)
    PROVE  /\ search'.pc = "filter" /\ search'.dead = {s \in Sessions : Ch!Dead(s)}
           /\ search'.fts \subseteq {s \in Sessions : Ch!Live(s)}
           /\ ShapeInv'
<1> DEFINE F == IF text THEN {s \in Sessions : Ch!Live(s)} ELSE {}
           C == IF answered THEN {v.of : v \in vec} ELSE {}
<1>1. C \subseteq Sessions
  BY DocFields DEF ShapeInv
<1>2. F \subseteq {s \in Sessions : Ch!Live(s)}
  OBVIOUS
<1>3. search' = [pc |-> "filter", dead |-> {s \in Sessions : Ch!Dead(s)}, fts |-> F, cand |-> C,
                 hits |-> {}]
  BY DEF Ch!SearchBegin
<1> HIDE DEF F, C
<1>4. /\ search' \in SearchStates /\ search'.pc = "filter"
      /\ search'.dead = {s \in Sessions : Ch!Dead(s)} /\ search'.fts = F
  BY <1>1, <1>2, <1>3 DEF SearchStates
<1>5. ShapeInv'
  BY <1>4, SearchShape DEF Ch!SearchBegin
<1> QED
  BY <1>2, <1>4, <1>5

LEMMA SearchAnswerEffect ==
    ASSUME ShapeInv, Ch!SearchAnswer
    PROVE  /\ search'.pc = "answered" /\ search'.dead = search.dead
           /\ search'.hits \subseteq search.fts \cup {s \in Sessions : Ch!Live(s)}
           /\ ShapeInv'
<1>1. search \in SearchStates
  BY DEF ShapeInv
<1>2. search.cand \subseteq Sessions /\ search.fts \subseteq Sessions
  BY <1>1 DEF SearchStates
<1>3. PICK H \in SUBSET Sessions : H = search.fts \cup Ch!LiveHits
  BY <1>2 DEF Ch!LiveHits
<1>4. search' = [search EXCEPT !.pc = "answered", !.fts = {}, !.cand = {}, !.hits = H]
  BY <1>3 DEF Ch!SearchAnswer
<1>5. /\ search' \in SearchStates /\ search'.pc = "answered" /\ search'.dead = search.dead
      /\ search'.hits = H
  BY <1>1, <1>4 DEF SearchStates
<1>6. ShapeInv'
  BY <1>5, SearchShape DEF Ch!SearchAnswer
<1> QED
  BY <1>2, <1>3, <1>5, <1>6 DEF Ch!LiveHits

LEMMA SearchReturnEffect ==
    ASSUME ShapeInv, Ch!SearchReturn
    PROVE  search' = Ch!SearchIdle /\ ShapeInv'
<1>1. Ch!SearchIdle \in SearchStates
  BY DEF Ch!SearchIdle, SearchStates
<1>2. search' = Ch!SearchIdle
  BY DEF Ch!SearchReturn
<1> QED
  BY <1>1, <1>2, SearchShape DEF Ch!SearchReturn

LEMMA SyncPageEffect ==
    ASSUME ShapeInv, NEW limit, Ch!SyncPage(limit)
    PROVE  /\ UNCHANGED <<Ch!storeVars, job, swept, cycle, vec, late, facts, work, clean, search>>
           /\ ShapeInv'
BY DEF Ch!SyncPage, ShapeInv, Ch!storeVars

LEMMA InitShape ==
    ASSUME Ch!Init, Ch!BoundsAssumption
    PROVE  ShapeInv
<1>1. /\ Ch!NewSession \in SessRows /\ Ch!NoTurn \in TurnRows /\ Ch!NoJob \in JobRows
      /\ Ch!NoRow \in SweptRows /\ Ch!WorkIdle \in WorkStates /\ Ch!CleanIdle \in CleanStates
  BY TurnNone, JobNone, NoRowFits, WorkIdleFits, CleanIdleFits DEF Ch!NewSession, SessRows
<1>2. Ch!SearchIdle \in SearchStates
  BY DEF Ch!SearchIdle, SearchStates
<1> QED
  BY <1>1, <1>2 DEF Ch!Init, ShapeInv

-----------------------------------------------------------------------------
(* Positions of the work lane, and the size of its writes.                   *)

LEMMA WorkNextIdle ==
    ASSUME ShapeInv, IdleInv, Ch!WorkNext
    PROVE  IdleInv'
<1>1. ASSUME NEW idle, Ch!WorkBegin(idle) PROVE IdleInv'
  <2>1. (idle = {}) => work'.cands = {}
    BY <1>1, WorkBeginEffect
  <2> QED
    BY <1>1, <2>1, WorkBeginEffect DEF IdleInv
<1>2. ASSUME NEW c, Ch!Summarized(c) PROVE IdleInv'
  BY <1>2, RestFits DEF Ch!Summarized, IdleInv
<1>3. ASSUME NEW c, NEW m \in BOOLEAN, Ch!SummaryFailed(c, m) PROVE IdleInv'
  <2>1. work.pc = "summary"
    BY <1>3 DEF Ch!SummaryFailed
  <2> QED
    BY <1>3, <2>1, SummaryFailedEffect DEF IdleInv
<1>4. CASE Ch!TurnsRead
  <2>1. work.pc = "turns"
    BY <1>4 DEF Ch!TurnsRead
  <2> QED
    BY <1>4, <2>1, TurnsReadEffect DEF IdleInv
<1>5. CASE Ch!TurnsUpsertOk
  <2>1. work.pc = "upsert"
    BY <1>5 DEF Ch!TurnsUpsertOk
  <2> QED
    BY <1>5, <2>1, TurnsUpsertOkEffect DEF IdleInv
<1>6. CASE Ch!TurnsUpsertMissing
  <2>1. work.pc = "upsert"
    BY <1>6 DEF Ch!TurnsUpsertMissing
  <2> QED
    BY <1>6, <2>1, TurnsUpsertMissingEffect DEF IdleInv
<1>7. CASE Ch!TurnsUpsertFails
  <2>1. work.pc = "upsert"
    BY <1>7 DEF Ch!TurnsUpsertFails
  <2> QED
    BY <1>7, <2>1, TurnsUpsertFailsEffect DEF IdleInv
<1>8. CASE Ch!ProbeFails
  <2>1. work.pc = "probe"
    BY <1>8 DEF Ch!ProbeFails
  <2> QED
    BY <1>8, <2>1, ProbeFailsEffect DEF IdleInv
<1>9. ASSUME NEW good, Ch!DocByDoc(good) PROVE IdleInv'
  <2>1. work.pc = "probe"
    BY <1>9 DEF Ch!DocByDoc
  <2> QED
    BY <1>9, <2>1, DocByDocEffect DEF IdleInv
<1>10. CASE Ch!TurnsMark
  <2>1. work.pc = "mark"
    BY <1>10 DEF Ch!TurnsMark
  <2> QED
    BY <1>10, <2>1, TurnsMarkEffect DEF IdleInv
<1>11. CASE Ch!SessionsRead
  <2>1. work.pc = "sessions"
    BY <1>11 DEF Ch!SessionsRead
  <2>2. CASE work'.pc = "idle"
    BY <1>11, <2>2, SessionsReadEffect, WorkIdleFits DEF IdleInv
  <2>3. CASE work'.pc # "idle"
    BY <1>11, <2>1, <2>3, SessionsReadEffect DEF IdleInv
  <2> QED
    BY <2>2, <2>3
<1>12. CASE Ch!SessionsUpsertOk
  <2>1. work.pc = "supsert"
    BY <1>12 DEF Ch!SessionsUpsertOk
  <2> QED
    BY <1>12, <2>1, SessionsUpsertOkEffect DEF IdleInv
<1>13. CASE Ch!SessionsUpsertFails
  BY <1>13, SessionsUpsertFailsEffect, WorkIdleFits DEF IdleInv
<1>14. CASE Ch!SessionsMark
  BY <1>14, SessionsMarkEffect, WorkIdleFits DEF IdleInv
<1> QED
  BY <1>1, <1>2, <1>3, <1>4, <1>5, <1>6, <1>7, <1>8, <1>9, <1>10, <1>11, <1>12, <1>13, <1>14
  DEF Ch!WorkNext

(* Goals and facts concern the agent alone.                                  *)
LEMMA AgentEffect ==
    ASSUME ShapeInv, Ch!AgentNext
    PROVE  /\ UNCHANGED <<Ch!storeVars, job, swept, cycle, vec, late, work, clean, reader, search>>
           /\ ShapeInv'
<1>1. UNCHANGED <<Ch!storeVars, job, swept, cycle, vec, late, work, clean, reader, search>>
  BY DEF Ch!AgentNext, Ch!GoalStarts, Ch!FactsStored
<1>2. facts' \subseteq Sessions \X {"running", "goal", "fact", "stray"}
  BY DEF Ch!AgentNext, Ch!GoalStarts, Ch!FactsStored, ShapeInv
<1> QED
  BY <1>1, <1>2 DEF ShapeInv, Ch!storeVars

(* The steps of everyone else leave the work lane alone.                     *)
LEMMA OthersLeaveWork ==
    ASSUME Ch!StoreNext \/ Ch!AgentNext \/ Ch!SyncNext \/ Ch!CleanNext \/ Ch!SearchNext
    PROVE  work' = work /\ late' = late
<1>1. ASSUME Ch!StoreNext PROVE work' = work /\ late' = late
  BY <1>1, Zenon DEF Ch!StoreNext, Ch!Resolve, Ch!Append, Ch!Update, Ch!Delete
<1>2. ASSUME Ch!SyncNext PROVE work' = work /\ late' = late
  BY <1>2 DEF Ch!SyncNext, Ch!SyncPage
<1>3. ASSUME Ch!CleanNext PROVE work' = work /\ late' = late
  <2>1. ASSUME NEW over, Ch!CleanBegin(over) PROVE work' = work /\ late' = late
    BY <2>1 DEF Ch!CleanBegin
  <2>2. ASSUME NEW j, NEW okV, NEW okA, NEW broke, NEW cut, Ch!JobCalls(j, okV, okA, broke, cut)
        PROVE work' = work /\ late' = late
    BY <2>2 DEF Ch!JobCalls
  <2>3. CASE Ch!JobsCut
    BY <2>3 DEF Ch!JobsCut
  <2>4. CASE Ch!JobSave
    BY <2>4 DEF Ch!JobSave
  <2>5. CASE Ch!JobFinish
    BY <2>5 DEF Ch!JobFinish
  <2>6. ASSUME NEW old, NEW over, NEW due, Ch!SweepPlan(old, over, due) PROVE work' = work /\ late' = late
    BY <2>6, Zenon DEF Ch!SweepPlan
  <2>7. ASSUME NEW ok, NEW bad, Ch!SweepCalls(ok, bad) PROVE work' = work /\ late' = late
    BY <2>7 DEF Ch!SweepCalls
  <2>8. CASE Ch!SweepSave
    BY <2>8 DEF Ch!SweepSave
  <2> QED
    BY <1>3, <2>1, <2>2, <2>3, <2>4, <2>5, <2>6, <2>7, <2>8 DEF Ch!CleanNext
<1>4. ASSUME Ch!SearchNext PROVE work' = work /\ late' = late
  BY <1>4 DEF Ch!SearchNext, Ch!SearchBegin, Ch!SearchAnswer, Ch!SearchReturn
<1>5. ASSUME Ch!AgentNext PROVE work' = work /\ late' = late
  BY <1>5 DEF Ch!AgentNext, Ch!GoalStarts, Ch!FactsStored
<1> QED
  BY <1>1, <1>2, <1>3, <1>4, <1>5

LEMMA NextIdle ==
    ASSUME ShapeInv, IdleInv, Ch!Next
    PROVE  IdleInv'
<1>1. CASE Ch!WorkNext
  BY <1>1, WorkNextIdle
<1>2. CASE Ch!Crash
  BY <1>2, CrashEffect, WorkIdleFits DEF IdleInv
<1>3. CASE Ch!StoreNext \/ Ch!AgentNext \/ Ch!SyncNext \/ Ch!CleanNext \/ Ch!SearchNext
  BY <1>3, OthersLeaveWork DEF IdleInv
<1>4. ASSUME NEW d \in late, Ch!LateLands(d) PROVE IdleInv'
  BY <1>4 DEF Ch!LateLands, IdleInv
<1> QED
  BY <1>1, <1>2, <1>3, <1>4 DEF Ch!Next

LEMMA NextShape ==
    ASSUME ShapeInv, Ch!Next
    PROVE  ShapeInv'
<1>1. ASSUME Ch!StoreNext PROVE ShapeInv'
  BY <1>1, ResolveEffect, AppendEffect, UpdateEffect, DeleteEffect, Zenon DEF Ch!StoreNext
<1>2. ASSUME Ch!SyncNext PROVE ShapeInv'
  BY <1>2, SyncPageEffect DEF Ch!SyncNext
<1>3. ASSUME Ch!WorkNext PROVE ShapeInv'
  BY <1>3, WorkBeginEffect, SummarizedEffect, SummaryFailedEffect, TurnsReadEffect,
     TurnsUpsertOkEffect, TurnsUpsertMissingEffect, TurnsUpsertFailsEffect, ProbeFailsEffect,
     DocByDocEffect, TurnsMarkEffect, SessionsReadEffect, SessionsUpsertOkEffect,
     SessionsUpsertFailsEffect, SessionsMarkEffect DEF Ch!WorkNext
<1>4. ASSUME Ch!CleanNext PROVE ShapeInv'
  BY <1>4, CleanBeginEffect, JobCallsEffect, JobsCutEffect, JobSaveEffect, JobFinishEffect,
     SweepPlanEffect, SweepCallsEffect, SweepSaveEffect DEF Ch!CleanNext
<1>5. ASSUME Ch!SearchNext PROVE ShapeInv'
  BY <1>5, SearchBeginEffect, SearchAnswerEffect, SearchReturnEffect DEF Ch!SearchNext
<1>6. ASSUME NEW d \in late, Ch!LateLands(d) PROVE ShapeInv'
  BY <1>6, LateLandsEffect
<1>7. ASSUME Ch!Crash PROVE ShapeInv'
  BY <1>7, CrashEffect
<1>8. ASSUME Ch!AgentNext PROVE ShapeInv'
  BY <1>8, AgentEffect
<1> QED
  BY <1>1, <1>2, <1>3, <1>4, <1>5, <1>6, <1>7, <1>8 DEF Ch!Next

(* A step that writes nothing new leaves what is outstanding small.          *)
LEMMA FiniteFrame ==
    ASSUME FiniteInv, late' = late, work'.docs \subseteq work.docs,
           work'.sdocs \subseteq work.sdocs
    PROVE  FiniteInv'
BY FS_Subset DEF FiniteInv

LEMMA FailedWriteFinite ==
    ASSUME FiniteInv, NEW D, IsFiniteSet(D), Ch!FailedWrite(D)
    PROVE  IsFiniteSet(late') /\ Cardinality(late') <= MaxLate
<1>1. IsFiniteSet(late \cup D)
  BY FS_Union DEF FiniteInv
<1> QED
  BY <1>1, SameCardinality DEF Ch!FailedWrite, FiniteInv

LEMMA ImageFinite ==
    ASSUME NEW S, IsFiniteSet(S), NEW f, NEW T, T \subseteq {f[x] : x \in S}, DOMAIN f = S,
           f = [x \in S |-> f[x]]
    PROVE  IsFiniteSet(T)
<1> DEFINE V == {f[x] : x \in S}
<1>1. f \in Surjection(S, V)
  BY DEF Surjection
<1>2. IsFiniteSet(V)
  BY <1>1, FS_Surjection
<1> QED
  BY <1>2, FS_Subset

LEMMA SdocsFinite ==
    ASSUME FiniteInv
    PROVE  IsFiniteSet(Sdocs)
<1> DEFINE f == [d \in work.sdocs |-> d.doc]
<1>1. Sdocs \subseteq {f[d] : d \in work.sdocs} /\ DOMAIN f = work.sdocs
  BY DEF Sdocs
<1>2. f = [d \in work.sdocs |-> f[d]]
  OBVIOUS
<1> HIDE DEF f
<1> QED
  BY <1>1, <1>2, ImageFinite DEF FiniteInv

LEMMA NextFinite ==
    ASSUME Ch!BoundsAssumption, ShapeInv, FiniteInv, Ch!Next
    PROVE  FiniteInv'
<1>1. CASE Ch!StoreNext \/ Ch!AgentNext \/ Ch!SyncNext \/ Ch!CleanNext \/ Ch!SearchNext
  BY <1>1, OthersLeaveWork, FiniteFrame
<1>2. ASSUME NEW d \in late, Ch!LateLands(d) PROVE FiniteInv'
  <2>1. late' \subseteq late /\ work' = work
    BY <1>2, LateLandsEffect DEF Ch!LateLands
  <2>2. IsFiniteSet(late') /\ Cardinality(late') <= Cardinality(late)
    BY <2>1, FS_Subset DEF FiniteInv
  <2>3. Cardinality(late) \in Nat /\ Cardinality(late') \in Nat
    BY <2>2, FS_CardinalityType DEF FiniteInv
  <2> QED
    BY <2>1, <2>2, <2>3 DEF FiniteInv, Ch!BoundsAssumption
<1>3. ASSUME Ch!Crash PROVE FiniteInv'
  <2> DEFINE sent == CASE work.pc = "upsert"  -> work.docs
                       [] work.pc = "supsert" -> Sdocs
                       [] OTHER -> {}
  <2>1. Ch!FailedWrite(sent)
    BY <1>3 DEF Ch!Crash, Sdocs
  <2>2. IsFiniteSet(sent)
    <3>1. CASE work.pc = "upsert"
      BY <3>1 DEF FiniteInv
    <3>2. CASE work.pc # "upsert" /\ work.pc = "supsert"
      BY <3>2, SdocsFinite
    <3>3. CASE work.pc # "upsert" /\ work.pc # "supsert"
      BY <3>3, FS_EmptySet
    <3> QED
      BY <3>1, <3>2, <3>3
  <2> HIDE DEF sent
  <2>3. work'.docs = {} /\ work'.sdocs = {}
    BY <1>3, CrashEffect, WorkIdleFits
  <2> QED
    BY <2>1, <2>2, <2>3, FailedWriteFinite, FS_EmptySet DEF FiniteInv
<1>4. ASSUME Ch!WorkNext PROVE FiniteInv'
  <2>1. ASSUME NEW idle, Ch!WorkBegin(idle) PROVE FiniteInv'
    <3>1. work'.docs = {} /\ work'.sdocs = {} /\ late' = late
      BY <2>1, WorkBeginEffect DEF Ch!WorkBegin
    <3> QED
      BY <3>1, FiniteFrame
  <2>2. ASSUME NEW c, Ch!Summarized(c) PROVE FiniteInv'
    BY <2>2, RestFits, FiniteFrame DEF Ch!Summarized
  <2>3. ASSUME NEW c, NEW m \in BOOLEAN, Ch!SummaryFailed(c, m) PROVE FiniteInv'
    <3>1. late' = late
      BY <2>3 DEF Ch!SummaryFailed
    <3> QED
      BY <2>3, <3>1, SummaryFailedEffect, FiniteFrame
  <2>4. CASE Ch!TurnsRead
    <3> DEFINE f == [t \in Turns |-> Ch!TurnDoc(t, turn[t].of)]
    <3>1. work'.docs \subseteq {f[t] : t \in Turns} /\ DOMAIN f = Turns
      BY <2>4, TurnsReadEffect DEF Ch!Rows
    <3>2. f = [t \in Turns |-> f[t]]
      OBVIOUS
    <3>3. PICK D : D = work'.docs
      OBVIOUS
    <3> HIDE DEF f
    <3>4. IsFiniteSet(D)
      BY <3>1, <3>2, <3>3, ImageFinite, SameFinite DEF Ch!BoundsAssumption
    <3>5. work'.sdocs = work.sdocs /\ late' = late
      BY <2>4, TurnsReadEffect DEF Ch!TurnsRead
    <3> QED
      BY <3>3, <3>4, <3>5 DEF FiniteInv
  <2>5. CASE Ch!TurnsUpsertOk
    BY <2>5, TurnsUpsertOkEffect, FiniteFrame DEF Ch!TurnsUpsertOk
  <2>6. CASE Ch!TurnsUpsertMissing
    BY <2>6, TurnsUpsertMissingEffect, FiniteFrame DEF Ch!TurnsUpsertMissing
  <2>7. CASE Ch!TurnsUpsertFails
    <3>1. IsFiniteSet(late') /\ Cardinality(late') <= MaxLate
      BY <2>7, FailedWriteFinite DEF Ch!TurnsUpsertFails, FiniteInv
    <3> QED
      BY <2>7, <3>1, TurnsUpsertFailsEffect DEF FiniteInv
  <2>8. CASE Ch!ProbeFails
    BY <2>8, ProbeFailsEffect, FiniteFrame DEF Ch!ProbeFails
  <2>9. ASSUME NEW good, Ch!DocByDoc(good) PROVE FiniteInv'
    <3>1. PICK slow \in SUBSET (work.docs \ good) :
              late' = late \cup slow /\ Cardinality(late \cup slow) <= MaxLate
      BY <2>9, SameCardinality DEF Ch!DocByDoc
    <3>2. IsFiniteSet(slow)
      BY <3>1, FS_Subset DEF FiniteInv
    <3>3. IsFiniteSet(late \cup slow)
      BY <3>2, FS_Union DEF FiniteInv
    <3> QED
      BY <2>9, <3>1, <3>3, DocByDocEffect DEF FiniteInv
  <2>10. CASE Ch!TurnsMark
    BY <2>10, TurnsMarkEffect, FiniteFrame DEF Ch!TurnsMark
  <2>11. CASE Ch!SessionsRead
    <3> DEFINE f == [s \in Sessions |-> [doc |-> Ch!SessDoc(s, sess[s].sum),
                                         rev |-> sess[s].summarized]]
    <3>1. work'.sdocs \subseteq {f[s] : s \in Sessions} /\ DOMAIN f = Sessions
      BY <2>11, SessionsReadEffect
    <3>2. f = [s \in Sessions |-> f[s]]
      OBVIOUS
    <3>3. PICK D : D = work'.sdocs
      OBVIOUS
    <3> HIDE DEF f
    <3>4. IsFiniteSet(D)
      BY <3>1, <3>2, <3>3, ImageFinite, SameFinite DEF Ch!BoundsAssumption
    <3>5. work'.docs \subseteq work.docs /\ late' = late
      BY <2>11, SessionsReadEffect DEF Ch!SessionsRead
    <3>6. IsFiniteSet(work'.docs)
      BY <3>5, FS_Subset DEF FiniteInv
    <3> QED
      BY <3>3, <3>4, <3>5, <3>6 DEF FiniteInv
  <2>12. CASE Ch!SessionsUpsertOk
    BY <2>12, SessionsUpsertOkEffect, FiniteFrame DEF Ch!SessionsUpsertOk
  <2>13. CASE Ch!SessionsUpsertFails
    <3>1. IsFiniteSet(late') /\ Cardinality(late') <= MaxLate
      BY <2>13, SdocsFinite, FailedWriteFinite DEF Ch!SessionsUpsertFails, Sdocs
    <3> QED
      BY <2>13, <3>1, SessionsUpsertFailsEffect, WorkIdleFits, FS_EmptySet DEF FiniteInv
  <2>14. CASE Ch!SessionsMark
    <3>1. work'.docs = {} /\ work'.sdocs = {} /\ late' = late
      BY <2>14, SessionsMarkEffect, WorkIdleFits DEF Ch!SessionsMark
    <3> QED
      BY <3>1, FiniteFrame
  <2> QED
    BY <1>4, <2>1, <2>2, <2>3, <2>4, <2>5, <2>6, <2>7, <2>8, <2>9, <2>10, <2>11, <2>12, <2>13,
       <2>14 DEF Ch!WorkNext
<1> QED
  BY <1>1, <1>2, <1>3, <1>4 DEF Ch!Next

-----------------------------------------------------------------------------
(* The jobs of the dead, and what the cleanup lane has read of them.         *)

LEMMA SameState ==
    ASSUME NEW s \in Sessions, sess'[s].state = sess[s].state
    PROVE  (Ch!Dead(s)' <=> Ch!Dead(s)) /\ (Ch!Live(s)' <=> Ch!Live(s))
BY DEF Ch!Dead, Ch!Live

LEMMA KnownDocs ==
    ASSUME ShapeInv
    PROVE  Known \subseteq Docs
BY SdocsAreDocs DEF Known, Sdocs, ShapeInv

LEMMA RequeuedJob ==
    ASSUME ShapeInv, NEW s \in Sessions, Requeued(s)
    PROVE  /\ ~Ch!Live(s) /\ job'[s].queued /\ job'[s].done = {}
           /\ job[s].queued => /\ job[s].turns \subseteq job'[s].turns
                               /\ job'[s].gen = job[s].gen + 1
                               /\ job'[s].goals = job[s].goals
           /\ ~job[s].queued => job'[s].goals = FALSE
<1>1. ~Ch!Live(s)
  BY DEF Requeued
<1>2. PICK ids \in SUBSET Turns : job'[s] = Ch!Requeue(s, ids)
  BY DEF Requeued
<1>3. PICK q : q = Ch!Requeue(s, ids)
  OBVIOUS
<1>4. /\ q.queued /\ q.done = {}
      /\ job[s].queued => q.turns = job[s].turns \cup ids
      /\ job[s].queued => q.gen = job[s].gen + 1
      /\ job[s].queued => q.goals = job[s].goals
      /\ ~job[s].queued => q.goals = FALSE
  <2> HIDE DEF Ch!Requeue
  <2> QED
    BY <1>3, RequeueFits
<1>5. job'[s] = q
  BY <1>2, <1>3
<1>6. job[s].queued => job[s].turns \subseteq q.turns
  BY <1>4
<1> QED
  BY <1>1, <1>4, <1>5, <1>6

LEMMA JobsFrame ==
    ASSUME ShapeInv, JobsInv, job' = job,
           \A s \in Sessions : Ch!Dead(s) => Ch!Dead(s)',
           clean'.jobs \subseteq clean.jobs, clean'.cur \subseteq clean.cur
    PROVE  JobsInv'
BY DEF JobsInv

(* A requeue bumps the generation of a job that is queued.                   *)
LEMMA JobsRequeued ==
    ASSUME ShapeInv, JobsInv, UNCHANGED clean,
           \A s \in Sessions : job'[s] = job[s] \/ (Requeued(s) /\ Ch!Dead(s)),
           \A s \in Sessions : sess'[s].state = sess[s].state
    PROVE  JobsInv'
<1>1. ASSUME NEW s \in Sessions
      PROVE  IF job'[s].queued THEN Ch!Dead(s)' ELSE job'[s].turns = {}
  <2>1. CASE job'[s] = job[s]
    BY <2>1, SameState DEF JobsInv
  <2>2. CASE Requeued(s) /\ Ch!Dead(s)
    <3>1. job'[s].queued
      BY <2>2, RequeuedJob
    <3> QED
      BY <2>2, <3>1, SameState
  <2> QED
    BY <2>1, <2>2
<1>2. ASSUME NEW j \in clean.jobs \cup clean.cur
      PROVE  /\ job'[j.id].queued /\ j.job.gen <= job'[j.id].gen
             /\ j.job.gen = job'[j.id].gen => j.job.turns = job'[j.id].turns
  <2>1. j.id \in Sessions /\ j.job.gen \in Nat /\ job[j.id].gen \in Nat
    BY CleanOf, JobReadFields, JobRowFields, ShapeOf
  <2>2. job[j.id].queued /\ j.job.gen <= job[j.id].gen
    BY DEF JobsInv
  <2>3. CASE job'[j.id] = job[j.id]
    BY <2>3 DEF JobsInv
  <2>4. CASE Requeued(j.id)
    <3>1. job'[j.id].queued /\ job'[j.id].gen = job[j.id].gen + 1
      BY <2>1, <2>2, <2>4, RequeuedJob
    <3> QED
      BY <2>1, <2>2, <3>1
  <2> QED
    BY <2>1, <2>3, <2>4
<1> QED
  BY <1>1, <1>2 DEF JobsInv

LEMMA ResolveJobs ==
    ASSUME ShapeInv, JobsInv, NEW s \in Sessions, Ch!Resolve(s)
    PROVE  JobsInv'
<1>1. sess[s].state = "none"
  BY DEF Ch!Resolve
<1>2. \A x \in Sessions : Ch!Dead(x) => Ch!Dead(x)'
  BY <1>1, ResolveEffect DEF Ch!Dead
<1> QED
  BY <1>2, JobsFrame DEF Ch!Resolve

LEMMA AppendJobs ==
    ASSUME ShapeInv, JobsInv, NEW s \in Sessions, NEW t \in Turns, Ch!Append(s, t)
    PROVE  JobsInv'
<1>1. \A x \in Sessions : Ch!Dead(x) => Ch!Dead(x)'
  BY AppendEffect DEF Ch!Dead, Ch!Live, Ch!Append
<1> QED
  BY <1>1, JobsFrame DEF Ch!Append

LEMMA UpdateJobs ==
    ASSUME ShapeInv, JobsInv, NEW s \in Sessions, Ch!Update(s)
    PROVE  JobsInv'
<1>1. \A x \in Sessions : Ch!Dead(x) => Ch!Dead(x)'
  BY UpdateEffect DEF Ch!Dead, Ch!Live, Ch!Update
<1> QED
  BY <1>1, JobsFrame DEF Ch!Update

LEMMA DeleteStates ==
    ASSUME ShapeInv, NEW s \in Sessions, Ch!Delete(s)
    PROVE  /\ Ch!Live(s) /\ ~Ch!Dead(s) /\ Ch!Dead(s)' /\ ~Ch!Live(s)' /\ sess'[s].state = "deleting"
           /\ \A x \in Sessions : x # s => sess'[x].state = sess[x].state
<1>1. sess[s] \in SessRows
  BY ShapeOf
<1>2. sess'[s].state = "deleting"
  BY <1>1, DeleteEffect, Zenon DEF SessRows
<1>3. Ch!Live(s)
  BY DEF Ch!Delete
<1> QED
  BY <1>2, <1>3, DeleteEffect, Zenon DEF Ch!Live, Ch!Dead

LEMMA DeleteJobs ==
    ASSUME ShapeInv, JobsInv, NEW s \in Sessions, Ch!Delete(s)
    PROVE  JobsInv'
<1>1. ~job[s].queued
  BY DeleteStates DEF JobsInv
<1>2. job'[s].queued
  BY DeleteEffect, Zenon DEF Ch!NoJob
<1>3. ASSUME NEW x \in Sessions
      PROVE  IF job'[x].queued THEN Ch!Dead(x)' ELSE job'[x].turns = {}
  <2>1. CASE x = s
    BY <1>2, <2>1, DeleteStates
  <2>2. CASE x # s
    <3>1. job'[x] = job[x]
      BY <2>2, ShapeOf DEF Ch!Delete, ShapeInv
    <3>2. Ch!Dead(x)' <=> Ch!Dead(x)
      BY <2>2, DeleteStates, SameState
    <3> QED
      BY <3>1, <3>2 DEF JobsInv
  <2> QED
    BY <2>1, <2>2
<1>4. clean' = clean
  BY DEF Ch!Delete
<1>5. ASSUME NEW j \in clean.jobs \cup clean.cur
      PROVE  job'[j.id] = job[j.id]
  <2>1. j.id \in Sessions /\ j.id # s
    BY <1>1, CleanOf, JobReadFields DEF JobsInv
  <2> QED
    BY <2>1, DeleteEffect, Zenon
<1> QED
  BY <1>3, <1>4, <1>5 DEF JobsInv

LEMMA StoreJobs ==
    ASSUME ShapeInv, JobsInv, Ch!StoreNext
    PROVE  JobsInv'
BY ResolveJobs, AppendJobs, UpdateJobs, DeleteJobs DEF Ch!StoreNext

LEMMA WorkJobs ==
    ASSUME ShapeInv, JobsInv, TracksInv, Ch!WorkNext
    PROVE  JobsInv'
<1>0. ASSUME UNCHANGED <<sess, job, clean>> PROVE JobsInv'
  <2>1. \A s \in Sessions : Ch!Dead(s) => Ch!Dead(s)'
    BY <1>0 DEF Ch!Dead
  <2> QED
    BY <1>0, <2>1, JobsFrame
<1>1. ASSUME NEW c, Ch!Summarized(c) PROVE JobsInv'
  <2>1. \A s \in Sessions : Ch!Dead(s) => Ch!Dead(s)'
    BY <1>1, SummarizedEffect, SameState
  <2> QED
    BY <1>1, <2>1, JobsFrame DEF Ch!Summarized
<1>2. CASE Ch!ProbeFails \/ Ch!TurnsMark
  <2>1. /\ \A s \in Sessions :
             \/ job'[s] = job[s]
             \/ Requeued(s) /\ \E d \in work.docs : d.of = s
        /\ UNCHANGED <<sess, clean>>
    BY <1>2, ProbeFailsEffect, TurnsMarkEffect, Zenon DEF Ch!ProbeFails, Ch!TurnsMark, Ch!storeVars
  <2>2. ASSUME NEW s \in Sessions, Requeued(s), NEW d \in work.docs, d.of = s
        PROVE  Ch!Dead(s)
    <3>1. sess[s].state # "none"
      BY <2>2 DEF TracksInv, Known
    <3>2. sess[s].state \in {"none", "live", "deleting", "gone"}
      BY ShapeOf, SessRowFields
    <3> QED
      BY <2>2, <3>1, <3>2 DEF Requeued, Ch!Live, Ch!Dead
  <2> QED
    BY <2>1, <2>2, JobsRequeued
<1>3. CASE Ch!SessionsMark
  <2>1. /\ \A s \in Sessions :
             \/ job'[s] = job[s]
             \/ Requeued(s) /\ \E d \in work.sdocs : d.doc.id = s
        /\ UNCHANGED clean
    BY <1>3, SessionsMarkEffect DEF Ch!SessionsMark
  <2>2. ASSUME NEW s \in Sessions, Requeued(s), NEW d \in work.sdocs, d.doc.id = s
        PROVE  Ch!Dead(s)
    <3>0. d.doc \in Known /\ d.doc.of = s
      BY <2>2, WorkOf, SummaryFields DEF Known, Sdocs, SessDocs
    <3>1. sess[s].state # "none"
      BY <3>0 DEF TracksInv
    <3>2. sess[s].state \in {"none", "live", "deleting", "gone"}
      BY ShapeOf, SessRowFields
    <3> QED
      BY <2>2, <3>1, <3>2 DEF Requeued, Ch!Live, Ch!Dead
  <2>3. \A s \in Sessions : sess'[s].state = sess[s].state
    <3> SUFFICES ASSUME NEW s \in Sessions PROVE sess'[s].state = sess[s].state
      OBVIOUS
    <3>1. sess[s] \in SessRows
      BY ShapeOf
    <3>2. sess'[s] = sess[s] \/ \E n : sess'[s] = [sess[s] EXCEPT !.embedded = n]
      BY <1>3, SessionsMarkEffect
    <3> QED
      BY <3>1, <3>2 DEF SessRows
  <2> QED
    BY <2>1, <2>2, <2>3, JobsRequeued
<1>4. ASSUME NEW idle, Ch!WorkBegin(idle) PROVE JobsInv'
  BY <1>0, <1>4 DEF Ch!WorkBegin, Ch!storeVars
<1>5. ASSUME NEW c, NEW m, Ch!SummaryFailed(c, m) PROVE JobsInv'
  BY <1>0, <1>5 DEF Ch!SummaryFailed, Ch!storeVars
<1>6. CASE Ch!TurnsRead \/ Ch!TurnsUpsertOk \/ Ch!TurnsUpsertMissing \/ Ch!TurnsUpsertFails
  BY <1>0, <1>6 DEF Ch!TurnsRead, Ch!TurnsUpsertOk, Ch!TurnsUpsertMissing, Ch!TurnsUpsertFails, Ch!storeVars
<1>7. ASSUME NEW good, Ch!DocByDoc(good) PROVE JobsInv'
  BY <1>0, <1>7 DEF Ch!DocByDoc, Ch!storeVars
<1>8. CASE Ch!SessionsRead \/ Ch!SessionsUpsertOk \/ Ch!SessionsUpsertFails
  BY <1>0, <1>8 DEF Ch!SessionsRead, Ch!SessionsUpsertOk, Ch!SessionsUpsertFails, Ch!storeVars
<1> QED
  BY <1>1, <1>2, <1>3, <1>4, <1>5, <1>6, <1>7, <1>8 DEF Ch!WorkNext

LEMMA CleanBeginJobs ==
    ASSUME ShapeInv, JobsInv, NEW over, Ch!CleanBegin(over)
    PROVE  JobsInv'
<1>1. UNCHANGED <<sess, job>>
  BY DEF Ch!CleanBegin, Ch!storeVars
<1>2. \A s \in Sessions : Ch!Dead(s) => Ch!Dead(s)'
  BY <1>1 DEF Ch!Dead
<1>3. clean'.cur = {}
  BY CleanBeginEffect
<1>4. ASSUME NEW j \in clean'.jobs
      PROVE  /\ j.id \in Sessions /\ j = [id |-> j.id, job |-> job[j.id]] /\ job[j.id].queued
  BY CleanBeginEffect
<1>5. ASSUME NEW s \in Sessions
      PROVE  job[s].gen \in Nat
  BY ShapeOf, JobRowFields
<1> QED
  BY <1>1, <1>2, <1>3, <1>4, <1>5 DEF JobsInv

LEMMA JobCallsJobs ==
    ASSUME ShapeInv, JobsInv, NEW j, NEW okV, NEW okA, NEW broke \in SUBSET {"vector-db", "agent"},
           NEW cut \in BOOLEAN, Ch!JobCalls(j, okV, okA, broke, cut)
    PROVE  JobsInv'
<1>1. UNCHANGED <<sess, job>>
  BY DEF Ch!JobCalls, Ch!storeVars
<1>2. \A s \in Sessions : Ch!Dead(s) => Ch!Dead(s)'
  BY <1>1 DEF Ch!Dead
<1>3. j \in clean.jobs
  BY DEF Ch!JobCalls
<1>4. clean'.jobs = clean.jobs \ {j} /\ clean'.cur = {j}
  BY CleanOf DEF Ch!JobCalls, CleanStates
<1> QED
  BY <1>1, <1>2, <1>3, <1>4 DEF JobsInv

LEMMA JobSaveKeeps ==
    ASSUME ShapeInv, Ch!JobSave, NEW s \in Sessions
    PROVE  /\ job'[s].queued = job[s].queued /\ job'[s].turns = job[s].turns
           /\ job'[s].gen = job[s].gen /\ job'[s].goals = job[s].goals
<1>1. job[s] \in JobRows
  BY ShapeOf
<1>2. \/ job'[s] = job[s]
      \/ job'[s] = [job[s] EXCEPT !.done = clean.done, !.wait = clean.failed]
  BY JobSaveEffect
<1> QED
  BY <1>1, <1>2 DEF JobRows

LEMMA JobSaveJobs ==
    ASSUME ShapeInv, JobsInv, Ch!JobSave
    PROVE  JobsInv'
<1>1. UNCHANGED sess
  BY DEF Ch!JobSave, Ch!storeVars
<1>2. \A s \in Sessions : Ch!Dead(s) => Ch!Dead(s)'
  BY <1>1 DEF Ch!Dead
<1>3. clean'.jobs = clean.jobs /\ clean'.cur = {}
  BY JobSaveEffect
<1>4. \A s \in Sessions : /\ job'[s].queued = job[s].queued /\ job'[s].turns = job[s].turns
                          /\ job'[s].gen = job[s].gen
  BY JobSaveKeeps
<1>5. \A j \in clean.jobs : j.id \in Sessions
  BY CleanOf, JobReadFields
<1> QED
  BY <1>2, <1>3, <1>4, <1>5 DEF JobsInv

(* What a finished cascade leaves: nothing of the job, and a row that sweeps. *)
LEMMA JobFinishSteps ==
    ASSUME ShapeInv, JobsInv, Ch!JobFinish
    PROVE  \/ UNCHANGED <<job, sess, swept>>
           \/ \E s \in Sessions :
                /\ job[s].queued /\ job'[s] = Ch!NoJob /\ sess'[s] = [sess[s] EXCEPT !.state = "gone"]
                /\ swept'[s].kept /\ swept'[s].turns = swept[s].turns \cup job[s].turns
                /\ \A x \in Sessions : x # s =>
                     job'[x] = job[x] /\ sess'[x] = sess[x] /\ swept'[x] = swept[x]
                /\ \A j \in clean.jobs : j.id # s
                /\ \E j \in clean.cur : /\ j.id = s
                                        /\ Ch!VecSteps(j) \cup Ch!AgentSteps(j) \subseteq clean.done
<1>1. PICK j \in clean.cur :
         /\ Ch!VecSteps(j) \cup Ch!AgentSteps(j) \subseteq clean.done
         /\ IF Ch!SameGen(j)
            THEN /\ job'[j.id] = Ch!NoJob
                 /\ sess'[j.id] = [sess[j.id] EXCEPT !.state = "gone"]
                 /\ swept'[j.id].kept
                 /\ swept'[j.id].turns = swept[j.id].turns \cup j.job.turns
                 /\ \A s \in Sessions : s # j.id =>
                      job'[s] = job[s] /\ sess'[s] = sess[s] /\ swept'[s] = swept[s]
            ELSE UNCHANGED <<job, sess, swept>>
  BY JobFinishEffect
<1>2. j.id \in Sessions
  BY CleanOf, JobReadFields
<1>3. CASE Ch!SameGen(j)
  <2>1. job[j.id].queued /\ job[j.id].turns = j.job.turns
    BY <1>3 DEF Ch!SameGen, JobsInv
  <2>2. \A i \in clean.jobs : i.id # j.id
    BY DEF JobsInv
  <2> QED
    BY <1>1, <1>2, <1>3, <2>1, <2>2
<1> QED
  BY <1>1, <1>3

LEMMA JobFinishJobs ==
    ASSUME ShapeInv, JobsInv, Ch!JobFinish
    PROVE  JobsInv'
<1>1. clean'.jobs = clean.jobs /\ clean'.cur = {}
  BY JobFinishEffect
<1>2. CASE UNCHANGED <<job, sess, swept>>
  <2>1. \A s \in Sessions : Ch!Dead(s) => Ch!Dead(s)'
    BY <1>2 DEF Ch!Dead
  <2> QED
    BY <1>1, <1>2, <2>1, JobsFrame
<1>3. ASSUME NEW s \in Sessions, job[s].queued, job'[s] = Ch!NoJob,
             sess'[s] = [sess[s] EXCEPT !.state = "gone"],
             \A x \in Sessions : x # s => job'[x] = job[x] /\ sess'[x] = sess[x],
             \A j \in clean.jobs : j.id # s
      PROVE  JobsInv'
  <2>1. job'[s].queued = FALSE /\ job'[s].turns = {}
    BY <1>3 DEF Ch!NoJob
  <2>2. \A x \in Sessions : x # s => (Ch!Dead(x) => Ch!Dead(x)')
    BY <1>3 DEF Ch!Dead
  <2>3. \A j \in clean.jobs : j.id \in Sessions
    BY CleanOf, JobReadFields
  <2>4. \A x \in Sessions : IF job'[x].queued THEN Ch!Dead(x)' ELSE job'[x].turns = {}
    BY <1>3, <2>1, <2>2 DEF JobsInv
  <2>5. \A j \in clean.jobs : job'[j.id] = job[j.id]
    BY <1>3, <2>3
  <2> QED
    BY <1>1, <2>4, <2>5 DEF JobsInv
<1> QED
  BY <1>2, <1>3, JobFinishSteps, Zenon

LEMMA CleanJobs ==
    ASSUME ShapeInv, JobsInv, Ch!CleanNext
    PROVE  JobsInv'
<1>0. ASSUME UNCHANGED <<sess, job>>, clean'.jobs \subseteq clean.jobs,
             clean'.cur \subseteq clean.cur
      PROVE  JobsInv'
  <2>1. \A s \in Sessions : Ch!Dead(s) => Ch!Dead(s)'
    BY <1>0 DEF Ch!Dead
  <2> QED
    BY <1>0, <2>1, JobsFrame
<1>1. CASE Ch!JobsCut
  BY <1>0, <1>1, JobsCutEffect DEF Ch!JobsCut, Ch!storeVars
<1>2. ASSUME NEW old, NEW over, NEW due \in BOOLEAN, Ch!SweepPlan(old, over, due) PROVE JobsInv'
  BY <1>0, <1>2, SweepPlanEffect, Zenon DEF Ch!SweepPlan, Ch!storeVars
<1>3. ASSUME NEW ok, NEW bad, Ch!SweepCalls(ok, bad) PROVE JobsInv'
  BY <1>0, <1>3, SweepCallsEffect DEF Ch!SweepCalls, Ch!storeVars
<1>4. CASE Ch!SweepSave
  BY <1>0, <1>4, SweepSaveEffect DEF Ch!SweepSave, Ch!storeVars
<1> QED
  BY <1>1, <1>2, <1>3, <1>4, CleanBeginJobs, JobCallsJobs, JobSaveJobs, JobFinishJobs
  DEF Ch!CleanNext

LEMMA NextJobs ==
    ASSUME ShapeInv, JobsInv, TracksInv, Ch!Next
    PROVE  JobsInv'
<1>0. ASSUME UNCHANGED <<sess, job>>, clean'.jobs \subseteq clean.jobs,
             clean'.cur \subseteq clean.cur
      PROVE  JobsInv'
  <2>1. \A s \in Sessions : Ch!Dead(s) => Ch!Dead(s)'
    BY <1>0 DEF Ch!Dead
  <2> QED
    BY <1>0, <2>1, JobsFrame
<1>1. CASE Ch!SyncNext
  BY <1>0, <1>1, SyncPageEffect DEF Ch!SyncNext, Ch!storeVars
<1>2. CASE Ch!SearchNext
  BY <1>0, <1>2 DEF Ch!SearchNext, Ch!SearchBegin, Ch!SearchAnswer, Ch!SearchReturn, Ch!storeVars
<1>3. CASE \E d \in late : Ch!LateLands(d)
  BY <1>0, <1>3 DEF Ch!LateLands, Ch!storeVars
<1>4. CASE Ch!Crash
  BY <1>0, <1>4, CrashEffect, CleanIdleFits DEF Ch!Crash, Ch!storeVars
<1>5. CASE Ch!AgentNext
  BY <1>0, <1>5, AgentEffect DEF Ch!storeVars
<1> QED
  BY <1>1, <1>2, <1>3, <1>4, <1>5, StoreJobs, WorkJobs, CleanJobs DEF Ch!Next

-----------------------------------------------------------------------------
(* No document of a dead session is forgotten.                               *)

LEMMA KnownKept ==
    ASSUME vec' \subseteq Known, late' \subseteq Known, work'.docs \subseteq Known, Sdocs' \subseteq Known
    PROVE  Known' \subseteq Known
BY DEF Known

LEMMA SdocsKept ==
    ASSUME work'.sdocs \subseteq work.sdocs
    PROVE  Sdocs' \subseteq Sdocs
BY DEF Sdocs

LEMMA KnownSame ==
    ASSUME UNCHANGED <<vec, late, work>>
    PROVE  Known' = Known
BY DEF Known, Sdocs

LEMMA KnownParts ==
    /\ vec \subseteq Known /\ late \subseteq Known /\ work.docs \subseteq Known /\ Sdocs \subseteq Known
BY DEF Known

LEMMA TracksFrame ==
    ASSUME ShapeInv, TracksInv, Known' \subseteq Known,
           \A s \in Sessions : \/ sess'[s].state = sess[s].state \/ sess[s].state = "none"
                               \/ Ch!Dead(s) /\ Ch!Dead(s)',
           \A t \in Turns : turn[t].of \in Sessions => turn'[t].of = turn[t].of,
           \A d \in Known' : Ch!Dead(d.of) => Ch!Tracked(d.of) \subseteq Ch!Tracked(d.of)'
    PROVE  TracksInv'
<1> SUFFICES ASSUME NEW d \in Known'
             PROVE  /\ sess'[d.of].state # "none"
                    /\ d.coll = "turns" /\ Ch!Live(d.of)' => turn'[d.id].of = d.of
                    /\ Ch!Dead(d.of)' => <<d.coll, d.id>> \in Ch!Tracked(d.of)'
  BY DEF TracksInv
<1>1. d \in Known /\ d \in Docs
  BY KnownDocs
<1>2. d.of \in Sessions /\ (d.coll = "turns" => d.id \in Turns)
  BY <1>1, DocFields
<1>3. /\ sess[d.of].state # "none"
      /\ d.coll = "turns" /\ Ch!Live(d.of) => turn[d.id].of = d.of
      /\ Ch!Dead(d.of) => <<d.coll, d.id>> \in Ch!Tracked(d.of)
  BY <1>1 DEF TracksInv
<1>4. sess'[d.of].state = sess[d.of].state \/ (Ch!Dead(d.of) /\ Ch!Dead(d.of)')
  BY <1>2, <1>3
<1>5. CASE sess'[d.of].state = sess[d.of].state
  <2>1. (Ch!Dead(d.of)' <=> Ch!Dead(d.of)) /\ (Ch!Live(d.of)' <=> Ch!Live(d.of))
    BY <1>2, <1>5, SameState
  <2> HIDE DEF Ch!Tracked
  <2> QED
    BY <1>2, <1>3, <1>5, <2>1
<1>6. CASE Ch!Dead(d.of) /\ Ch!Dead(d.of)'
  <2>1. ~Ch!Live(d.of)' /\ sess'[d.of].state # "none"
    BY <1>6 DEF Ch!Dead, Ch!Live
  <2> QED
    BY <1>3, <1>6, <2>1
<1> QED
  BY <1>4, <1>5, <1>6

(* What tracks a dead session: its job and its row.                          *)
LEMMA TrackedSame ==
    ASSUME NEW s, job'[s] = job[s], swept'[s].kept = swept[s].kept, swept'[s].turns = swept[s].turns
    PROVE  Ch!Tracked(s)' = Ch!Tracked(s)
BY DEF Ch!Tracked

LEMMA TrackedRequeued ==
    ASSUME ShapeInv, JobsInv, swept' = swept, NEW s \in Sessions, Requeued(s)
    PROVE  Ch!Tracked(s) \subseteq Ch!Tracked(s)'
<1>1. job'[s].queued /\ job[s].turns \subseteq job'[s].turns
  BY RequeuedJob DEF JobsInv
<1> QED
  BY <1>1 DEF Ch!Tracked

LEMMA TracksRequeued ==
    ASSUME ShapeInv, JobsInv, TracksInv, Known' \subseteq Known, swept' = swept,
           \A s \in Sessions : sess'[s].state = sess[s].state,
           \A t \in Turns : turn'[t].of = turn[t].of,
           \A s \in Sessions : job'[s] = job[s] \/ Requeued(s)
    PROVE  TracksInv'
<1>1. ASSUME NEW d \in Known'
      PROVE  Ch!Tracked(d.of) \subseteq Ch!Tracked(d.of)'
  <2>1. d.of \in Sessions
    BY KnownDocs, DocFields
  <2> QED
    BY <2>1, TrackedSame, TrackedRequeued
<1> QED
  BY <1>1, TracksFrame

LEMMA TracksStill ==
    ASSUME ShapeInv, TracksInv, Known' \subseteq Known, UNCHANGED <<sess, turn, job, swept>>
    PROVE  TracksInv'
<1>1. \A d \in Known' : Ch!Tracked(d.of) \subseteq Ch!Tracked(d.of)'
  BY DEF Ch!Tracked
<1> QED
  BY <1>1, TracksFrame

LEMMA ResolveTracks ==
    ASSUME ShapeInv, TracksInv, NEW s \in Sessions, Ch!Resolve(s)
    PROVE  TracksInv'
<1>1. UNCHANGED <<turn, job, swept, vec, late, work>> /\ sess[s].state = "none"
  BY DEF Ch!Resolve
<1>2. \A x \in Sessions : sess'[x].state = sess[x].state \/ sess[x].state = "none"
  BY <1>1, ResolveEffect
<1>3. \A d \in Known' : Ch!Tracked(d.of) \subseteq Ch!Tracked(d.of)'
  BY <1>1 DEF Ch!Tracked
<1>4. Known' \subseteq Known
  BY <1>1, KnownSame
<1> QED
  BY <1>1, <1>2, <1>3, <1>4, TracksFrame

LEMMA AppendTracks ==
    ASSUME Ch!BoundsAssumption, ShapeInv, TracksInv, NEW s \in Sessions, NEW t \in Turns, Ch!Append(s, t)
    PROVE  TracksInv'
<1>1. UNCHANGED <<job, swept, vec, late, work>> /\ turn[t] = Ch!NoTurn
  BY DEF Ch!Append
<1>2. \A x \in Sessions : sess'[x].state = sess[x].state
  <2>1. sess[s] \in SessRows /\ sess'[s] = [sess[s] EXCEPT !.turns = sess[s].turns + 1, !.rev = rev + 1]
    BY ShapeOf, AppendEffect, Zenon
  <2>2. sess'[s].state = sess[s].state
    BY <2>1 DEF SessRows
  <2> QED
    BY <2>2, AppendEffect, Zenon
<1>3. turn[t].of \notin Sessions
  BY <1>1 DEF Ch!NoTurn, Ch!BoundsAssumption
<1>4. \A u \in Turns : turn[u].of \in Sessions => turn'[u].of = turn[u].of
  <2>1. ASSUME NEW u \in Turns, u # t PROVE turn'[u] = turn[u]
    BY <2>1, ShapeOf DEF Ch!Append, ShapeInv
  <2> QED
    BY <1>3, <2>1
<1>5. \A d \in Known' : Ch!Tracked(d.of) \subseteq Ch!Tracked(d.of)'
  BY <1>1 DEF Ch!Tracked
<1>6. Known' \subseteq Known
  BY <1>1, KnownSame
<1> QED
  BY <1>2, <1>4, <1>5, <1>6, TracksFrame

LEMMA UpdateTracks ==
    ASSUME ShapeInv, TracksInv, NEW s \in Sessions, Ch!Update(s)
    PROVE  TracksInv'
<1>1. UNCHANGED <<turn, job, swept, vec, late, work>>
  BY DEF Ch!Update
<1>2. \A x \in Sessions : sess'[x].state = sess[x].state
  <2>1. sess[s] \in SessRows /\ sess'[s] = [sess[s] EXCEPT !.title = "manual", !.rev = rev + 1]
    BY ShapeOf, UpdateEffect
  <2>2. sess'[s].state = sess[s].state
    BY <2>1 DEF SessRows
  <2> QED
    BY <2>2, UpdateEffect
<1>3. \A d \in Known' : Ch!Tracked(d.of) \subseteq Ch!Tracked(d.of)'
  BY <1>1 DEF Ch!Tracked
<1>4. Known' \subseteq Known
  BY <1>1, KnownSame
<1> QED
  BY <1>1, <1>2, <1>3, <1>4, TracksFrame

(* The job a delete queues lists every turn that may have a document.        *)
LEMMA DeleteTracks ==
    ASSUME ShapeInv, TracksInv, NEW s \in Sessions, Ch!Delete(s)
    PROVE  TracksInv'
<1>1. UNCHANGED <<swept, vec, late, work>>
  BY DEF Ch!Delete
<1>2. Known' = Known
  BY <1>1, KnownSame
<1> SUFFICES ASSUME NEW d \in Known
             PROVE  /\ sess'[d.of].state # "none"
                    /\ d.coll = "turns" /\ Ch!Live(d.of)' => turn'[d.id].of = d.of
                    /\ Ch!Dead(d.of)' => <<d.coll, d.id>> \in Ch!Tracked(d.of)'
  BY <1>2 DEF TracksInv
<1>3. d \in Docs
  BY KnownDocs
<1>4. d.of \in Sessions /\ (d.coll = "turns" => d.id \in Turns) /\ d.coll \in {"turns", "sessions"}
      /\ (d.coll = "sessions" => d.id = d.of)
  BY <1>3, DocFields
<1>5. /\ sess[d.of].state # "none"
      /\ d.coll = "turns" /\ Ch!Live(d.of) => turn[d.id].of = d.of
      /\ Ch!Dead(d.of) => <<d.coll, d.id>> \in Ch!Tracked(d.of)
  BY DEF TracksInv
<1>6. CASE d.of = s
  <2>1. Ch!Live(s) /\ ~Ch!Live(s)' /\ sess'[s].state = "deleting"
    BY DeleteStates
  <2>2. job'[s].queued /\ job'[s].turns = Ch!TurnsOf(s)
    <3>1. job'[s] = Ch!DeleteJob(s)
      BY ShapeOf DEF Ch!Delete, ShapeInv
    <3> QED
      BY <3>1 DEF Ch!DeleteJob, Ch!NoJob
  <2>3. d.coll = "turns" => d.id \in Ch!TurnsOf(s)
    BY <1>4, <1>5, <1>6, <2>1 DEF Ch!TurnsOf
  <2>4. <<d.coll, d.id>> \in Ch!Tracked(s)'
    BY <1>4, <1>6, <2>2, <2>3 DEF Ch!Tracked
  <2> QED
    BY <1>6, <2>1, <2>4
<1>7. CASE d.of # s
  <2>1. sess'[d.of].state = sess[d.of].state
    BY <1>4, <1>7, DeleteStates
  <2>2. (Ch!Dead(d.of)' <=> Ch!Dead(d.of)) /\ (Ch!Live(d.of)' <=> Ch!Live(d.of))
    BY <1>4, <2>1, SameState
  <2>3. job'[d.of] = job[d.of]
    BY <1>4, <1>7, ShapeOf DEF Ch!Delete, ShapeInv
  <2>4. Ch!Tracked(d.of)' = Ch!Tracked(d.of)
    BY <1>1, <2>3, TrackedSame
  <2>5. d.coll = "turns" /\ turn[d.id].of = d.of => turn'[d.id].of = d.of
    BY <1>4, <1>7 DEF Ch!Delete
  <2> QED
    BY <1>5, <2>1, <2>2, <2>4, <2>5
<1> QED
  BY <1>6, <1>7

LEMMA MarksKeepOf ==
    ASSUME ShapeInv, NEW t \in Turns, Marks(t)
    PROVE  turn'[t].of = turn[t].of
<1>1. turn[t] \in TurnRows
  BY ShapeOf
<1> QED
  BY <1>1 DEF Marks, TurnRows

LEMMA WorkTracks ==
    ASSUME ShapeInv, TracksInv, JobsInv, Ch!WorkNext
    PROVE  TracksInv'
<1>1. ASSUME NEW idle, Ch!WorkBegin(idle) PROVE TracksInv'
  <2>1. UNCHANGED <<sess, turn, job, swept, vec, late>> /\ work'.docs = {} /\ work'.sdocs = {}
    BY <1>1, WorkBeginEffect DEF Ch!WorkBegin, Ch!storeVars
  <2>2. Known' \subseteq Known
    BY <2>1, SdocsKept, KnownKept, KnownParts
  <2> QED
    BY <2>1, <2>2, TracksStill
<1>2. ASSUME NEW c, Ch!Summarized(c) PROVE TracksInv'
  <2>1. UNCHANGED <<turn, job, swept, vec, late>> /\ work' = Ch!Rest(c)
    BY <1>2 DEF Ch!Summarized
  <2>2. work'.docs = work.docs /\ work'.sdocs = work.sdocs
    BY <2>1, RestFits
  <2>3. Known' \subseteq Known
    BY <2>1, <2>2 DEF Known, Sdocs
  <2>4. \A x \in Sessions : sess'[x].state = sess[x].state
    BY <1>2, SummarizedEffect
  <2>5. \A d \in Known' : Ch!Tracked(d.of) \subseteq Ch!Tracked(d.of)'
    BY <2>1 DEF Ch!Tracked
  <2> QED
    BY <2>1, <2>3, <2>4, <2>5, TracksFrame
<1>3. ASSUME NEW c, NEW m \in BOOLEAN, Ch!SummaryFailed(c, m) PROVE TracksInv'
  <2>1. UNCHANGED <<sess, turn, job, swept, vec, late>>
        /\ work'.docs = work.docs /\ work'.sdocs = work.sdocs
    BY <1>3, SummaryFailedEffect, Zenon DEF Ch!SummaryFailed, Ch!storeVars
  <2>2. Known' \subseteq Known
    BY <2>1 DEF Known, Sdocs
  <2> QED
    BY <2>1, <2>2, TracksStill
<1>4. CASE Ch!TurnsRead
  <2>1. UNCHANGED <<sess, turn, job, swept, vec, late>> /\ work'.sdocs = work.sdocs
    BY <1>4, TurnsReadEffect DEF Ch!TurnsRead, Ch!storeVars
  <2>2. ASSUME NEW d \in work'.docs
        PROVE  /\ sess[d.of].state # "none"
               /\ d.coll = "turns" /\ Ch!Live(d.of) => turn[d.id].of = d.of
               /\ ~Ch!Dead(d.of)
    BY <1>4, TurnsReadEffect DEF Ch!TurnDoc, Ch!Live, Ch!Dead
  <2>3. Known' \subseteq Known \cup work'.docs
    BY <2>1 DEF Known, Sdocs
  <2>4. ASSUME NEW d \in Known'
        PROVE  /\ sess[d.of].state # "none"
               /\ d.coll = "turns" /\ Ch!Live(d.of) => turn[d.id].of = d.of
               /\ Ch!Dead(d.of) => <<d.coll, d.id>> \in Ch!Tracked(d.of)
    BY <2>2, <2>3 DEF TracksInv
  <2> QED
    BY <2>1, <2>4 DEF TracksInv, Ch!Live, Ch!Dead, Ch!Tracked
<1>5. CASE Ch!TurnsUpsertOk
  <2>1. UNCHANGED <<sess, turn, job, swept, late>> /\ vec' \subseteq vec \cup work.docs
        /\ work'.docs = work.docs /\ work'.sdocs = work.sdocs
    BY <1>5, TurnsUpsertOkEffect DEF Ch!TurnsUpsertOk, Ch!storeVars
  <2>2. Known' \subseteq Known
    BY <2>1 DEF Known, Sdocs
  <2> QED
    BY <2>1, <2>2, TracksStill
<1>6. CASE Ch!TurnsUpsertMissing
  <2>1. UNCHANGED <<sess, turn, job, swept, vec, late>>
        /\ work'.docs = {} /\ work'.sdocs = work.sdocs
    BY <1>6, TurnsUpsertMissingEffect DEF Ch!TurnsUpsertMissing, Ch!storeVars
  <2>2. Known' \subseteq Known
    BY <2>1 DEF Known, Sdocs
  <2> QED
    BY <2>1, <2>2, TracksStill
<1>7. ASSUME \/ Ch!TurnsUpsertFails
             \/ \E good \in SUBSET work.docs : Ch!DocByDoc(good)
      PROVE  TracksInv'
  <2>1. UNCHANGED <<sess, turn, job, swept>>
        /\ vec' \subseteq vec \cup work.docs /\ late' \subseteq late \cup work.docs
        /\ work'.docs = work.docs /\ work'.sdocs = work.sdocs
    BY <1>7, TurnsUpsertFailsEffect, DocByDocEffect DEF Ch!TurnsUpsertFails, Ch!DocByDoc, Ch!storeVars
  <2>2. Known' \subseteq Known
    BY <2>1 DEF Known, Sdocs
  <2> QED
    BY <2>1, <2>2, TracksStill
<1>8. CASE Ch!ProbeFails \/ Ch!TurnsMark
  <2>1. /\ \A s \in Sessions : job'[s] = job[s] \/ Requeued(s)
        /\ work'.docs = {} /\ work'.sdocs = work.sdocs
    BY <1>8, ProbeFailsEffect, TurnsMarkEffect
  <2>2. UNCHANGED <<sess, swept, vec, late>>
    BY <1>8 DEF Ch!ProbeFails, Ch!TurnsMark, Ch!storeVars
  <2>3. \A t \in Turns : turn'[t].of = turn[t].of
    <3>1. CASE Ch!ProbeFails
      BY <3>1 DEF Ch!ProbeFails, Ch!storeVars
    <3>2. CASE Ch!TurnsMark
      BY <3>2, TurnsMarkEffect, MarksKeepOf
    <3> QED
      BY <1>8, <3>1, <3>2
  <2>4. Known' \subseteq Known
    BY <2>1, <2>2 DEF Known, Sdocs
  <2> QED
    BY <2>1, <2>2, <2>3, <2>4, TracksRequeued
<1>9. CASE Ch!SessionsRead
  <2>1. UNCHANGED <<sess, turn, job, swept, vec, late>> /\ work'.docs \subseteq work.docs
    BY <1>9, SessionsReadEffect DEF Ch!SessionsRead, Ch!storeVars
  <2>2. ASSUME NEW d \in Sdocs'
        PROVE  sess[d.of].state # "none" /\ d.coll # "turns" /\ ~Ch!Dead(d.of)
    <3>1. PICK e \in work'.sdocs : e.doc = d
      BY DEF Sdocs
    <3>2. PICK s \in Sessions : e.doc = Ch!SessDoc(s, sess[s].sum) /\ Ch!Live(s)
      BY <1>9, SessionsReadEffect
    <3> QED
      BY <3>1, <3>2 DEF Ch!SessDoc, Ch!Live, Ch!Dead
  <2>3. Known' \subseteq Known \cup Sdocs'
    BY <2>1 DEF Known
  <2>4. ASSUME NEW d \in Known'
        PROVE  /\ sess[d.of].state # "none"
               /\ d.coll = "turns" /\ Ch!Live(d.of) => turn[d.id].of = d.of
               /\ Ch!Dead(d.of) => <<d.coll, d.id>> \in Ch!Tracked(d.of)
    BY <2>2, <2>3 DEF TracksInv
  <2> QED
    BY <2>1, <2>4 DEF TracksInv, Ch!Live, Ch!Dead, Ch!Tracked
<1>10. CASE Ch!SessionsUpsertOk
  <2>1. UNCHANGED <<sess, turn, job, swept, late>> /\ vec' \subseteq vec \cup Sdocs
        /\ work'.docs = work.docs /\ work'.sdocs = work.sdocs
    BY <1>10, SessionsUpsertOkEffect DEF Ch!SessionsUpsertOk, Ch!storeVars, Sdocs
  <2>2. Known' \subseteq Known
    BY <2>1 DEF Known, Sdocs
  <2> QED
    BY <2>1, <2>2, TracksStill
<1>11. CASE Ch!SessionsUpsertFails
  <2>1. UNCHANGED <<sess, turn, job, swept>> /\ vec' \subseteq vec \cup Sdocs
        /\ late' \subseteq late \cup Sdocs /\ work'.docs = {} /\ work'.sdocs = {}
    BY <1>11, SessionsUpsertFailsEffect, WorkIdleFits DEF Ch!SessionsUpsertFails, Ch!storeVars, Sdocs
  <2>2. Known' \subseteq Known
    BY <2>1 DEF Known, Sdocs
  <2> QED
    BY <2>1, <2>2, TracksStill
<1>12. CASE Ch!SessionsMark
  <2>1. \A s \in Sessions : job'[s] = job[s] \/ Requeued(s)
    BY <1>12, SessionsMarkEffect
  <2>2. UNCHANGED <<turn, swept, vec, late>> /\ work'.docs = {} /\ work'.sdocs = {}
    BY <1>12, WorkIdleFits DEF Ch!SessionsMark
  <2>3. \A s \in Sessions : sess'[s].state = sess[s].state
    <3> SUFFICES ASSUME NEW s \in Sessions PROVE sess'[s].state = sess[s].state
      OBVIOUS
    <3>1. sess[s] \in SessRows
      BY ShapeOf
    <3>2. sess'[s] = sess[s] \/ \E n : sess'[s] = [sess[s] EXCEPT !.embedded = n]
      BY <1>12, SessionsMarkEffect
    <3> QED
      BY <3>1, <3>2 DEF SessRows
  <2>4. Known' \subseteq Known
    BY <2>2 DEF Known, Sdocs
  <2> QED
    BY <2>1, <2>2, <2>3, <2>4, TracksRequeued
<1> QED
  BY <1>1, <1>2, <1>3, <1>4, <1>5, <1>6, <1>7, <1>8, <1>9, <1>10, <1>11, <1>12 DEF Ch!WorkNext

(* A row is dropped only when no document of its session is left.            *)
LEMMA DroppedIsDone ==
    ASSUME ShapeInv, IdleInv, NEW d \in Known, Ch!Expirable(d.of)
    PROVE  FALSE
<1>1. work.docs = {} /\ work.pc \notin {"supsert", "smark"}
  BY DEF IdleInv, Ch!Expirable
<1>2. work.sdocs = {}
  BY <1>1 DEF IdleInv
<1>3. d \in vec \cup late
  BY <1>1, <1>2 DEF Known, Sdocs
<1> QED
  BY <1>3 DEF Ch!Expirable

LEMMA SweepPlanTracks ==
    ASSUME ShapeInv, IdleInv, TracksInv, NEW old, NEW over, NEW due \in BOOLEAN,
           Ch!SweepPlan(old, over, due)
    PROVE  TracksInv'
<1>1. UNCHANGED <<sess, turn, job, vec, late, work>>
  BY Zenon DEF Ch!SweepPlan, Ch!storeVars
<1>2. Known' = Known
  BY <1>1, KnownSame
<1>3. ASSUME NEW d \in Known
      PROVE  Ch!Tracked(d.of)' = Ch!Tracked(d.of)
  <2>1. d.of \in Sessions
    BY KnownDocs, DocFields
  <2>2. ~RowDropped(d.of)
    BY DroppedIsDone DEF RowDropped, Ch!Expirable, IdleInv
  <2>3. RowKept(d.of)
    BY <2>1, <2>2, SweepPlanEffect
  <2> QED
    BY <1>1, <2>3, TrackedSame DEF RowKept
<1> QED
  BY <1>1, <1>2, <1>3, TracksFrame

LEMMA JobFinishTracks ==
    ASSUME ShapeInv, JobsInv, TracksInv, Ch!JobFinish
    PROVE  TracksInv'
<1>1. UNCHANGED <<turn, vec, late, work>>
  BY DEF Ch!JobFinish
<1>2. Known' = Known
  BY <1>1, KnownSame
<1>3. CASE UNCHANGED <<job, sess, swept>>
  BY <1>1, <1>2, <1>3, TracksStill
<1>4. ASSUME NEW s \in Sessions, job[s].queued, sess'[s] = [sess[s] EXCEPT !.state = "gone"],
             swept'[s].kept, swept'[s].turns = swept[s].turns \cup job[s].turns,
             \A x \in Sessions : x # s =>
                job'[x] = job[x] /\ sess'[x] = sess[x] /\ swept'[x] = swept[x]
      PROVE  TracksInv'
  <2>1. Ch!Dead(s) /\ Ch!Dead(s)'
    <3>1. Ch!Dead(s)
      BY <1>4 DEF JobsInv
    <3>2. sess'[s].state = "gone"
      <4>1. sess[s] \in SessRows
        BY ShapeOf
      <4> QED
        BY <1>4, <4>1 DEF SessRows
    <3> QED
      BY <3>1, <3>2 DEF Ch!Dead
  <2>2. \A x \in Sessions : sess'[x].state = sess[x].state \/ (Ch!Dead(x) /\ Ch!Dead(x)')
    BY <1>4, <2>1
  <2>3. Ch!Tracked(s) \subseteq Ch!Tracked(s)'
    BY <1>4 DEF Ch!Tracked
  <2>4. \A x \in Sessions : Ch!Tracked(x) \subseteq Ch!Tracked(x)'
    BY <1>4, <2>3, TrackedSame
  <2>5. \A d \in Known' : Ch!Tracked(d.of) \subseteq Ch!Tracked(d.of)'
    BY <1>2, <2>4, KnownDocs, DocFields
  <2> QED
    BY <1>1, <1>2, <2>2, <2>5, TracksFrame
<1> QED
  BY <1>3, <1>4, JobFinishSteps

LEMMA CleanTracks ==
    ASSUME ShapeInv, IdleInv, JobsInv, TracksInv, Ch!CleanNext
    PROVE  TracksInv'
<1>0. ASSUME UNCHANGED <<sess, turn, late, work>>, vec' \subseteq vec,
             \A s \in Sessions : Ch!Tracked(s)' = Ch!Tracked(s)
      PROVE  TracksInv'
  <2>1. Known' \subseteq Known
    BY <1>0 DEF Known, Sdocs
  <2>2. \A d \in Known' : Ch!Tracked(d.of) \subseteq Ch!Tracked(d.of)'
    BY <1>0, <2>1, KnownDocs, DocFields
  <2> QED
    BY <1>0, <2>1, <2>2, TracksFrame
<1>1. ASSUME NEW over, Ch!CleanBegin(over) PROVE TracksInv'
  BY <1>0, <1>1 DEF Ch!CleanBegin, Ch!storeVars, Ch!Tracked
<1>2. ASSUME NEW j, NEW okV, NEW okA, NEW broke \in SUBSET {"vector-db", "agent"},
             NEW cut \in BOOLEAN, Ch!JobCalls(j, okV, okA, broke, cut)
      PROVE  TracksInv'
  <2>1. vec' \subseteq vec
    BY <1>2, JobCallsEffect
  <2>2. UNCHANGED <<sess, turn, late, work, job, swept>>
    BY <1>2 DEF Ch!JobCalls, Ch!storeVars
  <2> QED
    BY <1>0, <2>1, <2>2 DEF Ch!Tracked
<1>3. CASE Ch!JobsCut
  BY <1>0, <1>3 DEF Ch!JobsCut, Ch!storeVars, Ch!Tracked
<1>4. CASE Ch!JobSave
  <2>1. UNCHANGED <<sess, turn, late, work, vec, swept>>
    BY <1>4 DEF Ch!JobSave, Ch!storeVars
  <2>2. \A s \in Sessions : job'[s].queued = job[s].queued /\ job'[s].turns = job[s].turns
    BY <1>4, JobSaveKeeps
  <2>3. \A s \in Sessions : Ch!Tracked(s)' = Ch!Tracked(s)
    BY <2>1, <2>2 DEF Ch!Tracked
  <2> QED
    BY <1>0, <2>1, <2>3
<1>5. ASSUME NEW ok, NEW bad, Ch!SweepCalls(ok, bad) PROVE TracksInv'
  <2>1. vec' \subseteq vec
    BY <1>5, SweepCallsEffect
  <2>2. UNCHANGED <<sess, turn, late, work, job, swept>>
    BY <1>5 DEF Ch!SweepCalls, Ch!storeVars
  <2> QED
    BY <1>0, <2>1, <2>2 DEF Ch!Tracked
<1>6. CASE Ch!SweepSave
  <2>1. UNCHANGED <<sess, turn, late, work, vec, job>>
    BY <1>6 DEF Ch!SweepSave, Ch!storeVars
  <2>2. \A s \in Sessions : Ch!Tracked(s)' = Ch!Tracked(s)
    BY <1>6, <2>1, SweepSaveEffect, TrackedSame DEF RowKept
  <2> QED
    BY <1>0, <2>1, <2>2
<1> QED
  BY <1>1, <1>2, <1>3, <1>4, <1>5, <1>6, SweepPlanTracks, JobFinishTracks DEF Ch!CleanNext

LEMMA NextTracks ==
    ASSUME Ch!BoundsAssumption, ShapeInv, IdleInv, JobsInv, TracksInv, Ch!Next
    PROVE  TracksInv'
<1>1. CASE Ch!StoreNext
  BY <1>1, ResolveTracks, AppendTracks, UpdateTracks, DeleteTracks DEF Ch!StoreNext
<1>2. CASE Ch!SyncNext \/ Ch!SearchNext
  <2>1. UNCHANGED <<sess, turn, job, swept, vec, late, work>>
    BY <1>2, SyncPageEffect
    DEF Ch!SyncNext, Ch!SearchNext, Ch!SearchBegin, Ch!SearchAnswer, Ch!SearchReturn, Ch!storeVars
  <2> QED
    BY <2>1, KnownSame, TracksStill
<1>3. ASSUME NEW d \in late, Ch!LateLands(d) PROVE TracksInv'
  <2>1. /\ UNCHANGED <<sess, turn, job, swept, work>>
        /\ vec' \subseteq vec \cup late /\ late' \subseteq late
    BY <1>3, LateLandsEffect DEF Ch!LateLands, Ch!storeVars
  <2>2. Known' \subseteq Known
    BY <2>1 DEF Known, Sdocs
  <2> QED
    BY <2>1, <2>2, TracksStill
<1>4. CASE Ch!Crash
  <2>1. UNCHANGED <<sess, turn, job, swept>>
    BY <1>4 DEF Ch!Crash, Ch!storeVars
  <2>2. /\ vec' \subseteq Known /\ late' \subseteq Known
        /\ work'.docs = {} /\ work'.sdocs = {}
    BY <1>4, CrashEffect, WorkIdleFits DEF Known
  <2>3. Known' \subseteq Known
    BY <2>2 DEF Known, Sdocs
  <2> QED
    BY <2>1, <2>3, TracksStill
<1>5. CASE Ch!AgentNext
  <2>1. UNCHANGED <<sess, turn, job, swept, vec, late, work>>
    BY <1>5, AgentEffect DEF Ch!storeVars
  <2> QED
    BY <2>1, KnownSame, TracksStill
<1> QED
  BY <1>1, <1>2, <1>3, <1>4, <1>5, WorkTracks, CleanTracks DEF Ch!Next

-----------------------------------------------------------------------------
(* Forgotten by nobody.                                                      *)

DeadInv == ShapeInv /\ IdleInv /\ JobsInv /\ TracksInv

LEMMA InitDead ==
    ASSUME Ch!BoundsAssumption, Ch!Init
    PROVE  DeadInv
<1>1. ShapeInv
  BY InitShape
<1>2. /\ work = Ch!WorkIdle /\ clean = Ch!CleanIdle /\ vec = {} /\ late = {}
      /\ job = [s \in Sessions |-> Ch!NoJob]
  BY DEF Ch!Init
<1>3. IdleInv
  BY <1>2, WorkIdleFits DEF IdleInv
<1>4. JobsInv
  <2>1. \A s \in Sessions : job[s].queued = FALSE /\ job[s].turns = {}
    BY <1>2 DEF Ch!NoJob
  <2> QED
    BY <1>2, <2>1, CleanIdleFits DEF JobsInv
<1>5. TracksInv
  <2>1. Known = {}
    BY <1>2, WorkIdleFits DEF Known, Sdocs
  <2> QED
    BY <2>1 DEF TracksInv
<1> QED
  BY <1>1, <1>3, <1>4, <1>5 DEF DeadInv

LEMMA SameForDead ==
    ASSUME DeadInv, UNCHANGED Ch!vars
    PROVE  DeadInv'
BY DEF DeadInv, ShapeInv, IdleInv, JobsInv, TracksInv, Ch!vars, Known, Sdocs, Ch!Tracked, Ch!Live, Ch!Dead

LEMMA NextDead ==
    ASSUME Ch!BoundsAssumption, DeadInv, [Ch!Next]_Ch!vars
    PROVE  DeadInv'
<1>1. CASE Ch!Next
  <2>1. ShapeInv' /\ IdleInv'
    BY <1>1, NextShape, NextIdle DEF DeadInv
  <2>2. JobsInv' /\ TracksInv'
    BY <1>1, NextJobs, NextTracks DEF DeadInv
  <2> QED
    BY <2>1, <2>2 DEF DeadInv
<1>2. CASE UNCHANGED Ch!vars
  BY <1>2, SameForDead
<1> QED
  BY <1>1, <1>2

LEMMA DeadGivesNothingLeaks ==
    ASSUME DeadInv
    PROVE  Ch!NothingLeaks
<1> SUFFICES ASSUME NEW v \in vec, Ch!Dead(v.of)
             PROVE  <<v.coll, v.id>> \in Ch!Tracked(v.of)
  BY DEF Ch!NothingLeaks
<1> QED
  BY DEF DeadInv, TracksInv, Known

(* However deletes, failed and late writes, requeues, cascades, sweeps and    *)
(* crashes interleave, every vector of a deleted session is listed by its     *)
(* cascade job or its sweep row, or the work lane is about to requeue it      *)
(* (cascade.rs, embed.rs requeue_dead).                                      *)
THEOREM NothingLeaksAlways == MCSpec => []NothingLeaks
<1> DEFINE I == part = "chats" => DeadInv
<1>1. MCInit => I
  BY InitDead, ChatBounds DEF MCInit
<1>2. I /\ [syncNext \/ chatsNext]_mcVars => I'
  <2> SUFFICES ASSUME I, [syncNext \/ chatsNext]_mcVars, part' = "chats"
               PROVE  DeadInv'
    OBVIOUS
  <2>1. part = "chats" /\ [Ch!Next]_Ch!vars
    BY DEF syncNext, chatsNext, mcVars, chatsVars, Ch!vars
  <2>2. DeadInv
    BY <2>1
  <2> QED
    BY <2>1, <2>2, NextDead, ChatBounds
<1>3. I => NothingLeaks
  BY DeadGivesNothingLeaks, ChatBounds DEF NothingLeaks
<1> QED
  BY <1>1, <1>2, <1>3, PTL DEF MCSpec

-----------------------------------------------------------------------------
(* Revisions, counts and marks.                                              *)

LEMMA SessKept ==
    ASSUME ShapeInv, NEW s \in Sessions, SessOk(s), rev' \in Nat, rev <= rev', sess'[s] = sess[s],
           tomb'[s] = tomb[s], Ch!TurnsOf(s)' = Ch!TurnsOf(s)
    PROVE  SessOk(s)'
<1>1. sess[s].rev \in Nat /\ tomb[s] \in Nat /\ rev \in Nat
  BY ShapeOf, SessRowFields
<1>2. (Ch!Dead(s)' <=> Ch!Dead(s)) /\ (Ch!Live(s)' <=> Ch!Live(s))
  BY SameState
<1>3. sess'[s].rev <= rev' /\ tomb'[s] <= rev'
  BY <1>1 DEF SessOk
<1> HIDE DEF Ch!TurnsOf
<1> QED
  BY <1>2, <1>3 DEF SessOk

LEMMA TurnKept ==
    ASSUME ShapeInv, NEW t \in Turns, TurnOk(t), rev' \in Nat, rev <= rev', turn'[t] = turn[t],
           \A s \in Sessions : Ch!Live(s) => Ch!Live(s)'
    PROVE  TurnOk(t)'
<1>1. turn[t].rev \in Nat /\ rev \in Nat
  BY ShapeOf, TurnRowFields
<1>2. turn'[t].rev <= rev'
  BY <1>1 DEF TurnOk
<1> QED
  BY <1>2 DEF TurnOk

LEMMA CandKept ==
    ASSUME ShapeInv, NEW c \in Candidate, CandOk(c), sess'[c.id].rev \in Nat, sess'[c.id].turns \in Nat,
           \/ /\ sess'[c.id].rev = sess[c.id].rev /\ sess'[c.id].turns = sess[c.id].turns
           \/ /\ sess[c.id].rev < sess'[c.id].rev /\ sess[c.id].turns <= sess'[c.id].turns,
           sess'[c.id].summarized = sess[c.id].summarized
    PROVE  CandOk(c)'
<1>1. /\ c.id \in Sessions /\ c.rev \in Nat /\ c.turns \in Nat
      /\ sess[c.id].rev \in Nat /\ sess[c.id].turns \in Nat
  BY CandidateFields, ShapeOf, SessRowFields
<1> QED
  BY <1>1 DEF CandOk

LEMMA CoverKept ==
    ASSUME ShapeInv, NEW s \in Sessions, ChatCovered(s), sess'[s] = sess[s]
    PROVE  ChatCovered(s)'
BY SameState DEF ChatCovered

(* A store action of session s: it moves the revision on, touches no other
   session, and takes no turn of one away.                                   *)
OnlyOf(s) ==
  /\ rev' = rev + 1 /\ rev' <= inst'.maxRev
  /\ \A x \in Sessions : x # s => /\ sess'[x] = sess[x] /\ tomb'[x] = tomb[x]
                                  /\ Ch!TurnsOf(x)' = Ch!TurnsOf(x)
  /\ work' = work
  /\ sess'[s].rev = rev + 1
  /\ sess'[s].turns \in Nat /\ sess[s].turns <= sess'[s].turns
  /\ sess'[s].summarized = sess[s].summarized

LEMMA StoreStep ==
    ASSUME Ch!BoundsAssumption, ShapeInv, StoreInv, LaneInv, NEW s \in Sessions, OnlyOf(s), SessOk(s)',
           \A t \in Turns : TurnOk(t)',
           \A t \in Turns : \/ turn'[t] = turn[t] \/ turn'[t].of \notin Sessions
                            \/ turn'[t].embedded = "no"
    PROVE  StoreInv' /\ LaneInv'
<1>1. rev \in Nat /\ rev + 1 \in Nat /\ rev' \in Nat /\ rev <= rev'
  BY NextCounts, ShapeOf DEF OnlyOf
<1>2. \A x \in Sessions : SessOk(x)'
  <2> SUFFICES ASSUME NEW x \in Sessions, x # s PROVE SessOk(x)'
    OBVIOUS
  <2>1. SessOk(x) /\ sess'[x] = sess[x] /\ tomb'[x] = tomb[x] /\ Ch!TurnsOf(x)' = Ch!TurnsOf(x)
    BY DEF StoreInv, OnlyOf
  <2> QED
    BY <1>1, <2>1, SessKept
<1>3. StoreInv'
  BY <1>2 DEF StoreInv, OnlyOf
<1>4. ASSUME NEW c \in work.cands
      PROVE  CandOk(c)'
  <2>1. c \in Candidate /\ CandOk(c) /\ c.id \in Sessions
    BY WorkOf, CandidateFields DEF LaneInv
  <2>2. sess[c.id].rev \in Nat /\ sess[c.id].turns \in Nat /\ sess[c.id].rev <= rev
    BY <2>1, ShapeOf, SessRowFields DEF StoreInv, SessOk
  <2>3. CASE c.id = s
    <3>1. sess[c.id].rev < sess'[c.id].rev /\ sess[c.id].turns <= sess'[c.id].turns
          /\ sess'[c.id].rev \in Nat /\ sess'[c.id].turns \in Nat
          /\ sess'[c.id].summarized = sess[c.id].summarized
      BY <1>1, <2>2, <2>3 DEF OnlyOf
    <3> QED
      BY <2>1, <3>1, CandKept
  <2>4. CASE c.id # s
    <3>1. sess'[c.id] = sess[c.id]
      BY <2>1, <2>4 DEF OnlyOf
    <3> QED
      BY <2>1, <2>2, <3>1, CandKept
  <2> QED
    BY <2>3, <2>4
<1>5. ASSUME NEW d \in work.sdocs
      PROVE  d.rev <= sess'[d.doc.of].summarized
  <2>1. d.doc.of \in Sessions
    BY WorkOf, SummaryFields DEF SessDocs
  <2>2. sess'[d.doc.of].summarized = sess[d.doc.of].summarized
    BY <2>1 DEF OnlyOf
  <2> QED
    BY <2>2 DEF LaneInv
<1>6. ASSUME NEW d \in work.docs, turn'[d.id].of \in Sessions
      PROVE  turn'[d.id].embedded = "no"
  <2>1. d.id \in Turns
    BY WorkOf DEF TurnDocs
  <2> QED
    BY <1>6, <2>1 DEF LaneInv
<1>7. ASSUME NEW x \in Sessions
      PROVE  ChatCovered(x)'
  <2>1. CASE x = s
    <3>1. sess[s].summarized \in Nat /\ sess[s].rev \in Nat /\ sess[s].summarized <= sess[s].rev
          /\ sess[s].rev <= rev
      BY ShapeOf, SessRowFields DEF StoreInv, SessOk
    <3>2. sess'[s].summarized # sess'[s].rev
      BY <1>1, <3>1 DEF OnlyOf
    <3> QED
      BY <2>1, <3>2 DEF ChatCovered
  <2>2. CASE x # s
    BY <2>2, CoverKept DEF LaneInv, OnlyOf
  <2> QED
    BY <2>1, <2>2
<1>8. LaneInv'
  BY <1>4, <1>5, <1>6, <1>7 DEF LaneInv, OnlyOf
<1> QED
  BY <1>3, <1>8

LEMMA BumpFits ==
    ASSUME Ch!BoundsAssumption, ShapeInv, StoreInv, Ch!Bump, inst' = inst
    PROVE  rev' = rev + 1 /\ rev' <= inst'.maxRev /\ rev' \in Nat /\ rev <= rev' /\ rev < rev'
<1>1. rev \in Nat /\ rev + 1 \in Nat /\ rev' = rev + 1 /\ rev < inst.maxRev
  BY NextCounts, ShapeOf DEF Ch!Bump
<1>2. inst.maxRev \in Nat
  BY ShapeOf DEF Ch!BoundsAssumption
<1> QED
  BY <1>1, <1>2

LEMMA TurnsOfFinite ==
    ASSUME Ch!BoundsAssumption, NEW s
    PROVE  /\ IsFiniteSet(Ch!TurnsOf(s)) /\ Cardinality(Ch!TurnsOf(s)) \in Nat
           /\ Cardinality(Ch!TurnsOf(s)) <= Cardinality(Turns) /\ Cardinality(Turns) \in Nat
<1>1. Ch!TurnsOf(s) \subseteq Turns /\ IsFiniteSet(Turns)
  BY SameFinite DEF Ch!TurnsOf, Ch!BoundsAssumption
<1> QED
  BY <1>1, FS_Subset, FS_CardinalityType

LEMMA NewSessionFields ==
    /\ Ch!NewSession.turns = 0 /\ Ch!NewSession.sum = 0 /\ Ch!NewSession.seen = 0 /\ Ch!NewSession.rev = 0
    /\ Ch!NewSession.embedded = 0 /\ Ch!NewSession.summarized = 0 /\ Ch!NewSession.state = "none"
BY DEF Ch!NewSession

LEMMA ResolveFields ==
    ASSUME ShapeInv, NEW s \in Sessions, Ch!Resolve(s)
    PROVE  /\ sess'[s].state = "live" /\ sess'[s].rev = rev + 1 /\ sess'[s].turns = sess[s].turns
           /\ sess'[s].sum = sess[s].sum /\ sess'[s].seen = sess[s].seen
           /\ sess'[s].embedded = sess[s].embedded /\ sess'[s].summarized = sess[s].summarized
<1>1. sess[s] \in SessRows /\ sess'[s] = [sess[s] EXCEPT !.state = "live", !.rev = rev + 1]
  BY ShapeOf, ResolveEffect
<1> QED
  BY <1>1 DEF SessRows

LEMMA ResolveStore ==
    ASSUME Ch!BoundsAssumption, ShapeInv, StoreInv, LaneInv, NEW s \in Sessions, Ch!Resolve(s)
    PROVE  StoreInv' /\ LaneInv'
<1>1. UNCHANGED <<inst, turn, tomb, work>> /\ sess[s].state = "none" /\ Ch!Bump
  BY DEF Ch!Resolve
<1>2. rev' = rev + 1 /\ rev' <= inst'.maxRev /\ rev' \in Nat /\ rev <= rev'
  BY <1>1, BumpFits
<1>3. sess[s] = Ch!NewSession /\ ~Ch!Dead(s) /\ ~Ch!Live(s) /\ tomb[s] = 0
  BY <1>1, ShapeOf DEF StoreInv, SessOk, Ch!Dead, Ch!Live
<1>4. /\ sess'[s].turns = 0 /\ sess'[s].sum = 0 /\ sess'[s].seen = 0 /\ sess'[s].embedded = 0
      /\ sess'[s].summarized = 0 /\ sess'[s].rev = rev + 1 /\ sess'[s].state = "live"
      /\ sess[s].turns = 0 /\ sess[s].summarized = 0
  <2>1. /\ sess[s].turns = 0 /\ sess[s].sum = 0 /\ sess[s].seen = 0 /\ sess[s].embedded = 0
        /\ sess[s].summarized = 0
    BY <1>3, NewSessionFields
  <2> QED
    BY <2>1, ResolveFields
<1>5. Ch!TurnsOf(s) = {}
  BY <1>3 DEF Ch!TurnsOf, StoreInv, TurnOk
<1>6. \A x : Ch!TurnsOf(x)' = Ch!TurnsOf(x)
  BY <1>1 DEF Ch!TurnsOf
<1>7. Cardinality(Ch!TurnsOf(s)') = 0 /\ Cardinality(Turns) \in Nat
  BY <1>5, <1>6, FS_EmptySet, TurnsOfFinite
<1>8. SessOk(s)'
  <2>1. Ch!Live(s)' /\ ~Ch!Dead(s)'
    BY <1>4 DEF Ch!Live, Ch!Dead
  <2>2. tomb'[s] = 0
    BY <1>1, <1>3
  <2> HIDE DEF Ch!TurnsOf
  <2> QED
    BY <1>2, <1>4, <1>7, <2>1, <2>2 DEF SessOk
<1>9. \A x \in Sessions : x # s => sess'[x] = sess[x]
  BY ShapeOf DEF Ch!Resolve, ShapeInv
<1>10. OnlyOf(s)
  <2> HIDE DEF Ch!TurnsOf
  <2> QED
    BY <1>1, <1>2, <1>4, <1>6, <1>9 DEF OnlyOf
<1>11. \A x \in Sessions : Ch!Live(x) => Ch!Live(x)'
  BY <1>3, <1>9 DEF Ch!Live
<1>12. \A t \in Turns : TurnOk(t)'
  BY <1>1, <1>2, <1>11, TurnKept DEF StoreInv
<1> QED
  BY <1>1, <1>8, <1>10, <1>12, StoreStep

LEMMA AppendFields ==
    ASSUME ShapeInv, NEW s \in Sessions, NEW t \in Turns, Ch!Append(s, t)
    PROVE  /\ sess'[s].state = sess[s].state /\ sess'[s].rev = rev + 1
           /\ sess'[s].turns = sess[s].turns + 1
           /\ sess'[s].sum = sess[s].sum /\ sess'[s].seen = sess[s].seen
           /\ sess'[s].embedded = sess[s].embedded /\ sess'[s].summarized = sess[s].summarized
           /\ turn'[t].of = s /\ turn'[t].rev = rev + 1 /\ turn'[t].embedded = "no"
           /\ turn'[t].attempts = 0
           /\ \A u \in Turns : u # t => turn'[u] = turn[u]
           /\ \A x \in Sessions : x # s => sess'[x] = sess[x]
<1>1. sess[s] \in SessRows
      /\ sess'[s] = [sess[s] EXCEPT !.turns = sess[s].turns + 1, !.rev = rev + 1]
  BY ShapeOf, AppendEffect, Zenon
<1>2. turn'[t] = [Ch!NoTurn EXCEPT !.of = s, !.rev = rev + 1, !.seq = sess[s].turns + 1]
  BY ShapeOf DEF Ch!Append, ShapeInv
<1>3. \A u \in Turns : u # t => turn'[u] = turn[u]
  BY ShapeOf DEF Ch!Append, ShapeInv
<1>4. \A x \in Sessions : x # s => sess'[x] = sess[x]
  BY ShapeOf DEF Ch!Append, ShapeInv
<1>5. /\ sess'[s].state = sess[s].state /\ sess'[s].rev = rev + 1
      /\ sess'[s].turns = sess[s].turns + 1
      /\ sess'[s].sum = sess[s].sum /\ sess'[s].seen = sess[s].seen
      /\ sess'[s].embedded = sess[s].embedded /\ sess'[s].summarized = sess[s].summarized
  BY <1>1 DEF SessRows
<1>6. /\ turn'[t].of = s /\ turn'[t].rev = rev + 1 /\ turn'[t].embedded = "no"
      /\ turn'[t].attempts = 0
  BY <1>2 DEF Ch!NoTurn
<1> QED
  BY <1>3, <1>4, <1>5, <1>6

LEMMA AppendStore ==
    ASSUME Ch!BoundsAssumption, ShapeInv, StoreInv, LaneInv, NEW s \in Sessions, NEW t \in Turns,
           Ch!Append(s, t)
    PROVE  StoreInv' /\ LaneInv'
<1>1. UNCHANGED <<inst, tomb, work>> /\ Ch!Live(s) /\ turn[t] = Ch!NoTurn /\ Ch!Bump
  BY DEF Ch!Append
<1>2. rev' = rev + 1 /\ rev' <= inst'.maxRev /\ rev' \in Nat /\ rev <= rev' /\ rev \in Nat
  BY <1>1, BumpFits, ShapeOf
<1>3. SessOk(s) /\ \A x \in Turns : TurnOk(x)
  BY DEF StoreInv
<1>4. turn[t].of \notin Sessions
  BY <1>1 DEF Ch!NoTurn, Ch!BoundsAssumption
<1>5. Ch!TurnsOf(s)' = Ch!TurnsOf(s) \cup {t} /\ t \notin Ch!TurnsOf(s)
  BY <1>4, AppendFields DEF Ch!TurnsOf
<1>6. \A x \in Sessions : x # s => Ch!TurnsOf(x)' = Ch!TurnsOf(x)
  BY <1>4, AppendFields DEF Ch!TurnsOf
<1> HIDE DEF Ch!TurnsOf
<1>7. Cardinality(Ch!TurnsOf(s)') = Cardinality(Ch!TurnsOf(s)) + 1
  BY <1>5, TurnsOfFinite, FS_AddElement
<1>8. Cardinality(Ch!TurnsOf(s)') <= Cardinality(Turns)
  <2>1. Ch!TurnsOf(s) \cup {t} \subseteq Turns
    BY DEF Ch!TurnsOf
  <2> QED
    BY <1>5, <2>1, FS_Subset, FS_CardinalityType, SameFinite DEF Ch!BoundsAssumption
<1>9. SessOk(s)'
  <2>1. /\ sess[s].rev \in Nat /\ sess[s].turns \in Nat /\ sess[s].sum \in Nat /\ sess[s].seen \in Nat
        /\ sess[s].summarized \in Nat /\ sess[s].embedded \in Nat /\ tomb[s] \in Nat
    BY ShapeOf, SessRowFields
  <2>2. (Ch!Dead(s)' <=> Ch!Dead(s)) /\ (Ch!Live(s)' <=> Ch!Live(s))
    BY AppendFields, SameState
  <2>3. sess'[s].state # "none"
    BY <1>1, AppendFields DEF Ch!Live
  <2>4. sess'[s].rev <= rev' /\ tomb'[s] <= rev' /\ (tomb'[s] > 0 <=> Ch!Dead(s)')
    BY <1>1, <1>2, <1>3, <2>1, <2>2, AppendFields DEF SessOk
  <2>5. sess'[s].turns = Cardinality(Ch!TurnsOf(s)') /\ sess'[s].turns <= Cardinality(Turns)
    BY <1>1, <1>3, <1>7, <1>8, AppendFields DEF SessOk
  <2>6. /\ sess'[s].sum <= sess'[s].turns /\ sess'[s].seen <= sess'[s].turns
        /\ sess'[s].embedded <= sess'[s].summarized
    BY <1>3, <2>1, AppendFields DEF SessOk
  <2>7. sess'[s].summarized <= sess'[s].rev
    BY <1>2, <1>3, <2>1, AppendFields DEF SessOk
  <2> QED
    BY <2>3, <2>4, <2>5, <2>6, <2>7 DEF SessOk
<1>10. \A u \in Turns : TurnOk(u)'
  <2>1. \A x \in Sessions : Ch!Live(x) => Ch!Live(x)'
    BY AppendFields DEF Ch!Live
  <2>2. ASSUME NEW u \in Turns, u # t PROVE TurnOk(u)'
    BY <1>2, <1>3, <2>1, <2>2, AppendFields, TurnKept
  <2>3. TurnOk(t)'
    BY <1>1, <1>2, <2>1, AppendFields DEF TurnOk, Ch!BoundsAssumption
  <2> QED
    BY <2>2, <2>3
<1>11. OnlyOf(s)
  <2>1. sess[s].turns \in Nat
    BY ShapeOf, SessRowFields
  <2> QED
    BY <1>1, <1>2, <1>6, <2>1, AppendFields DEF OnlyOf
<1>12. \A u \in Turns : turn'[u] = turn[u] \/ turn'[u].embedded = "no"
  BY AppendFields
<1> QED
  BY <1>9, <1>10, <1>11, <1>12, StoreStep

LEMMA UpdateFields ==
    ASSUME ShapeInv, NEW s \in Sessions, Ch!Update(s)
    PROVE  /\ sess'[s].state = sess[s].state /\ sess'[s].rev = rev + 1
           /\ sess'[s].turns = sess[s].turns
           /\ sess'[s].sum = sess[s].sum /\ sess'[s].seen = sess[s].seen
           /\ sess'[s].embedded = sess[s].embedded /\ sess'[s].summarized = sess[s].summarized
           /\ \A x \in Sessions : x # s => sess'[x] = sess[x]
<1>1. sess[s] \in SessRows /\ sess'[s] = [sess[s] EXCEPT !.title = "manual", !.rev = rev + 1]
  BY ShapeOf, UpdateEffect
<1>2. \A x \in Sessions : x # s => sess'[x] = sess[x]
  BY ShapeOf DEF Ch!Update, ShapeInv
<1>3. /\ sess'[s].state = sess[s].state /\ sess'[s].rev = rev + 1
      /\ sess'[s].turns = sess[s].turns
      /\ sess'[s].sum = sess[s].sum /\ sess'[s].seen = sess[s].seen
      /\ sess'[s].embedded = sess[s].embedded /\ sess'[s].summarized = sess[s].summarized
  BY <1>1 DEF SessRows
<1> QED
  BY <1>2, <1>3

LEMMA UpdateStore ==
    ASSUME Ch!BoundsAssumption, ShapeInv, StoreInv, LaneInv, NEW s \in Sessions, Ch!Update(s)
    PROVE  StoreInv' /\ LaneInv'
<1>1. UNCHANGED <<inst, turn, tomb, work>> /\ Ch!Live(s) /\ Ch!Bump
  BY DEF Ch!Update
<1>2. rev' = rev + 1 /\ rev' <= inst'.maxRev /\ rev' \in Nat /\ rev <= rev' /\ rev \in Nat
  BY <1>1, BumpFits, ShapeOf
<1>3. SessOk(s) /\ \A x \in Turns : TurnOk(x)
  BY DEF StoreInv
<1>4. \A x : Ch!TurnsOf(x)' = Ch!TurnsOf(x)
  BY <1>1 DEF Ch!TurnsOf
<1> HIDE DEF Ch!TurnsOf
<1>5. SessOk(s)'
  <2>1. /\ sess[s].rev \in Nat /\ sess[s].turns \in Nat /\ sess[s].sum \in Nat /\ sess[s].seen \in Nat
        /\ sess[s].summarized \in Nat /\ sess[s].embedded \in Nat /\ tomb[s] \in Nat
    BY ShapeOf, SessRowFields
  <2>2. (Ch!Dead(s)' <=> Ch!Dead(s)) /\ (Ch!Live(s)' <=> Ch!Live(s))
    BY UpdateFields, SameState
  <2>3. sess'[s].state # "none"
    BY <1>1, UpdateFields DEF Ch!Live
  <2>4. sess'[s].rev <= rev' /\ tomb'[s] <= rev' /\ (tomb'[s] > 0 <=> Ch!Dead(s)')
    BY <1>1, <1>2, <1>3, <2>1, <2>2, UpdateFields DEF SessOk
  <2>5. sess'[s].turns = Cardinality(Ch!TurnsOf(s)') /\ sess'[s].turns <= Cardinality(Turns)
    BY <1>1, <1>3, <1>4, UpdateFields DEF SessOk
  <2>6. /\ sess'[s].sum <= sess'[s].turns /\ sess'[s].seen <= sess'[s].turns
        /\ sess'[s].embedded <= sess'[s].summarized
    BY <1>3, <2>1, UpdateFields DEF SessOk
  <2>7. sess'[s].summarized <= sess'[s].rev
    BY <1>2, <1>3, <2>1, UpdateFields DEF SessOk
  <2> QED
    BY <2>3, <2>4, <2>5, <2>6, <2>7 DEF SessOk
<1>6. \A u \in Turns : TurnOk(u)'
  <2>1. \A x \in Sessions : Ch!Live(x) => Ch!Live(x)'
    BY UpdateFields DEF Ch!Live
  <2> QED
    BY <1>1, <1>2, <1>3, <2>1, TurnKept
<1>7. OnlyOf(s)
  <2>1. sess[s].turns \in Nat
    BY ShapeOf, SessRowFields
  <2> QED
    BY <1>1, <1>2, <1>4, <2>1, UpdateFields DEF OnlyOf
<1> QED
  BY <1>1, <1>5, <1>6, <1>7, StoreStep

LEMMA DeleteFields ==
    ASSUME ShapeInv, NEW s \in Sessions, Ch!Delete(s)
    PROVE  /\ sess'[s].state = "deleting" /\ sess'[s].rev = rev + 1
           /\ sess'[s].turns = sess[s].turns
           /\ sess'[s].sum = 0 /\ sess'[s].seen = sess[s].seen
           /\ sess'[s].embedded = sess[s].embedded /\ sess'[s].summarized = sess[s].summarized
           /\ tomb'[s] = rev + 1
           /\ \A x \in Sessions : x # s => sess'[x] = sess[x] /\ tomb'[x] = tomb[x]
           /\ \A t \in Turns : turn'[t] = IF turn[t].of = s THEN Ch!GoneTurn ELSE turn[t]
<1>1. sess[s] \in SessRows
      /\ sess'[s] = [sess[s] EXCEPT !.state = "deleting", !.title = "", !.sum = 0, !.rev = rev + 1]
  BY ShapeOf, DeleteEffect, Zenon
<1>2. \A x \in Sessions : x # s => sess'[x] = sess[x] /\ tomb'[x] = tomb[x]
  BY ShapeOf DEF Ch!Delete, ShapeInv
<1>3. tomb'[s] = rev + 1
  BY ShapeOf DEF Ch!Delete, ShapeInv
<1>4. \A t \in Turns : turn'[t] = IF turn[t].of = s THEN Ch!GoneTurn ELSE turn[t]
  BY DEF Ch!Delete
<1>5. /\ sess'[s].state = "deleting" /\ sess'[s].rev = rev + 1
      /\ sess'[s].turns = sess[s].turns
      /\ sess'[s].sum = 0 /\ sess'[s].seen = sess[s].seen
      /\ sess'[s].embedded = sess[s].embedded /\ sess'[s].summarized = sess[s].summarized
  BY <1>1 DEF SessRows
<1> HIDE DEF Ch!GoneTurn
<1> QED
  BY <1>2, <1>3, <1>4, <1>5

LEMMA DeleteStore ==
    ASSUME Ch!BoundsAssumption, ShapeInv, StoreInv, LaneInv, NEW s \in Sessions, Ch!Delete(s)
    PROVE  StoreInv' /\ LaneInv'
<1>1. UNCHANGED <<inst, work>> /\ Ch!Live(s) /\ Ch!Bump
  BY DEF Ch!Delete
<1>2. rev' = rev + 1 /\ rev' <= inst'.maxRev /\ rev' \in Nat /\ rev <= rev' /\ rev \in Nat
  BY <1>1, BumpFits, ShapeOf
<1>3. SessOk(s) /\ \A x \in Turns : TurnOk(x)
  BY DEF StoreInv
<1>4. Ch!GoneTurn.of = "gone" /\ Ch!GoneTurn.rev = 0 /\ Ch!GoneTurn.attempts = 0 /\ Ch!GoneTurn.of \notin Sessions
  BY DEF Ch!GoneTurn, Ch!NoTurn, Ch!BoundsAssumption
<1>5. \A x \in Sessions : x # s => Ch!TurnsOf(x)' = Ch!TurnsOf(x)
  BY <1>4, DeleteFields DEF Ch!TurnsOf
<1> HIDE DEF Ch!TurnsOf
<1>6. SessOk(s)'
  <2>1. /\ sess[s].rev \in Nat /\ sess[s].turns \in Nat /\ sess[s].sum \in Nat /\ sess[s].seen \in Nat
        /\ sess[s].summarized \in Nat /\ sess[s].embedded \in Nat
    BY ShapeOf, SessRowFields
  <2>2. Ch!Dead(s)' /\ ~Ch!Live(s)' /\ sess'[s].state # "none"
    BY DeleteFields DEF Ch!Live, Ch!Dead
  <2>3. sess'[s].rev <= rev' /\ tomb'[s] <= rev' /\ tomb'[s] > 0
    BY <1>2, DeleteFields
  <2>4. sess'[s].turns <= Cardinality(Turns)
    BY <1>3, DeleteFields DEF SessOk
  <2>5. /\ sess'[s].sum <= sess'[s].turns /\ sess'[s].seen <= sess'[s].turns
        /\ sess'[s].embedded <= sess'[s].summarized
    BY <1>3, <2>1, DeleteFields DEF SessOk
  <2>6. sess'[s].summarized <= sess'[s].rev
    BY <1>2, <1>3, <2>1, DeleteFields DEF SessOk
  <2> QED
    BY <2>2, <2>3, <2>4, <2>5, <2>6 DEF SessOk
<1>7. \A u \in Turns : TurnOk(u)'
  <2> SUFFICES ASSUME NEW u \in Turns PROVE TurnOk(u)'
    OBVIOUS
  <2>1. CASE turn[u].of = s
    <3>1. turn'[u] = Ch!GoneTurn
      BY <2>1, DeleteFields
    <3>2. Ch!GoneTurn.embedded = "no"
      BY DEF Ch!GoneTurn, Ch!NoTurn
    <3> QED
      BY <1>2, <1>4, <3>1, <3>2 DEF TurnOk, Ch!BoundsAssumption
  <2>2. CASE turn[u].of # s
    <3>1. turn'[u] = turn[u]
      BY <2>2, DeleteFields
    <3>2. turn[u].rev \in Nat
      BY ShapeOf, TurnRowFields
    <3>3. turn[u].of \in Sessions => sess'[turn[u].of].state = "live"
      <4> SUFFICES ASSUME NEW x \in Sessions, x = turn[u].of PROVE sess'[x].state = "live"
        OBVIOUS
      <4>1. Ch!Live(x)
        BY <1>3 DEF TurnOk
      <4>2. sess'[x] = sess[x]
        BY <2>2, DeleteFields
      <4> QED
        BY <4>1, <4>2 DEF Ch!Live
    <3>4. turn'[u].rev <= rev'
      BY <1>2, <1>3, <3>1, <3>2 DEF TurnOk
    <3>5. /\ turn[u].attempts <= MaxAttempts
          /\ turn[u].embedded = "no" => turn[u].attempts < MaxAttempts
      BY <1>3 DEF TurnOk
    <3> QED
      BY <3>1, <3>3, <3>4, <3>5 DEF TurnOk, Ch!Live
  <2> QED
    BY <2>1, <2>2
<1>8. OnlyOf(s)
  <2>1. sess[s].turns \in Nat
    BY ShapeOf, SessRowFields
  <2> QED
    BY <1>1, <1>2, <1>5, <2>1, DeleteFields DEF OnlyOf
<1>9. \A u \in Turns : turn'[u] = turn[u] \/ turn'[u].of \notin Sessions
  BY <1>4, DeleteFields
<1> QED
  BY <1>6, <1>7, <1>8, <1>9, StoreStep

(* The work lane and the cascade.                                            *)
LEMMA StoreStill ==
    ASSUME UNCHANGED Ch!storeVars, StoreInv
    PROVE  StoreInv'
BY DEF Ch!storeVars, StoreInv, SessOk, TurnOk, Ch!Live, Ch!Dead, Ch!TurnsOf

LEMMA LaneStill ==
    ASSUME UNCHANGED Ch!storeVars, LaneInv,
           work'.cands \subseteq work.cands, work'.docs \subseteq work.docs,
           work'.sdocs \subseteq work.sdocs
    PROVE  LaneInv'
BY DEF Ch!storeVars, LaneInv, CandOk, ChatCovered, Ch!Live

LEMMA JunkFields ==
    ASSUME ShapeInv, NEW c \in Candidate, Ch!ApplyJunk(c)
    PROVE  /\ sess'[c.id].state = sess[c.id].state /\ sess'[c.id].rev = sess[c.id].rev
           /\ sess'[c.id].turns = sess[c.id].turns /\ sess'[c.id].sum = sess[c.id].sum
           /\ sess'[c.id].seen = c.turns /\ sess'[c.id].title = sess[c.id].title
           /\ sess'[c.id].summarized = Ch!Most(sess[c.id].summarized, c.rev)
           /\ \/ sess'[c.id].embedded = Ch!Most(sess[c.id].embedded, c.rev)
              \/ sess'[c.id].embedded = sess[c.id].embedded
<1> PICK r \in SessRows : r = sess[c.id]
  BY CandidateFields, ShapeOf
<1>1. PICK e : e = IF r.embedded >= r.summarized THEN Ch!Most(r.embedded, c.rev) ELSE r.embedded
  OBVIOUS
<1>2. PICK m : m = Ch!Most(r.summarized, c.rev)
  OBVIOUS
<1>3. sess'[c.id] = [r EXCEPT !.embedded = e, !.summarized = m, !.seen = c.turns]
  BY <1>1, <1>2, ApplyJunkEffect
<1>4. /\ sess'[c.id].state = r.state /\ sess'[c.id].rev = r.rev
      /\ sess'[c.id].turns = r.turns /\ sess'[c.id].sum = r.sum
      /\ sess'[c.id].seen = c.turns /\ sess'[c.id].summarized = m /\ sess'[c.id].embedded = e
      /\ sess'[c.id].title = r.title
  BY <1>3 DEF SessRows
<1> QED
  BY <1>1, <1>2, <1>4

LEMMA SummaryRow ==
    ASSUME ShapeInv, NEW c \in Candidate, Ch!ApplySummary(c)
    PROVE  /\ sess'[c.id].state = sess[c.id].state /\ sess'[c.id].rev = rev + 1
           /\ sess'[c.id].turns = sess[c.id].turns /\ sess'[c.id].sum = c.turns
           /\ sess'[c.id].seen = c.turns /\ sess'[c.id].embedded = sess[c.id].embedded
           /\ sess'[c.id].summarized = Ch!Marked(c.id, c.rev)
<1> PICK r \in SessRows : r = sess[c.id]
  BY CandidateFields, ShapeOf
<1>1. PICK i : i = IF r.title = "manual" THEN "manual" ELSE "auto"
  OBVIOUS
<1>2. PICK m : m = Ch!Marked(c.id, c.rev)
  OBVIOUS
<1>3. PICK n : n = rev + 1
  OBVIOUS
<1>4. sess'[c.id] = [r EXCEPT !.sum = c.turns, !.seen = c.turns, !.title = i, !.rev = n,
                              !.summarized = m]
  BY <1>1, <1>2, <1>3, ApplySummaryEffect
<1>5. /\ sess'[c.id].state = r.state /\ sess'[c.id].rev = n
      /\ sess'[c.id].turns = r.turns /\ sess'[c.id].sum = c.turns
      /\ sess'[c.id].seen = c.turns /\ sess'[c.id].summarized = m
      /\ sess'[c.id].embedded = r.embedded
  BY <1>4 DEF SessRows
<1> QED
  BY <1>2, <1>3, <1>5

(* What the reply makes of the row: no turn is left out of it.               *)
LEMMA SummarizedOk ==
    ASSUME Ch!BoundsAssumption, ShapeInv, StoreInv, LaneInv, NEW c, Ch!Summarized(c)
    PROVE  /\ rev' \in Nat /\ rev <= rev' /\ rev' <= inst'.maxRev
           /\ SessOk(c.id)' /\ ChatCovered(c.id)'
<1>1. c \in Candidate /\ c \in work.cands /\ c.id \in Sessions /\ c.rev \in Nat /\ c.turns \in Nat
  BY SummarizedEffect, CandidateFields
<1>2. UNCHANGED <<inst, turn, tomb>>
  BY DEF Ch!Summarized
<1> DEFINE s == c.id
           r == sess[c.id]
<1>3. /\ r.rev \in Nat /\ r.turns \in Nat /\ r.sum \in Nat /\ r.seen \in Nat
      /\ r.summarized \in Nat /\ r.embedded \in Nat /\ tomb[s] \in Nat /\ rev \in Nat
  BY <1>1, ShapeOf, SessRowFields
<1>4. SessOk(s) /\ CandOk(c) /\ ChatCovered(s) /\ rev <= inst.maxRev
  BY <1>1 DEF StoreInv, LaneInv
<1>5. Ch!TurnsOf(s)' = Ch!TurnsOf(s)
  BY <1>2 DEF Ch!TurnsOf
<1>6. CASE Ch!ApplyDead(c)
  <2>1. UNCHANGED <<rev, sess>>
    BY <1>6 DEF Ch!ApplyDead
  <2>2. rev' \in Nat /\ rev <= rev' /\ rev' <= inst'.maxRev
    BY <1>2, <1>3, <1>4, <2>1
  <2>3. SessOk(s)' /\ ChatCovered(s)'
    BY <1>1, <1>2, <1>4, <1>5, <2>1, <2>2, SessKept, CoverKept
  <2> QED
    BY <2>2, <2>3
<1>7. CASE Ch!ApplyJunk(c)
  <2>1. rev' = rev /\ Ch!Live(s)
    BY <1>7 DEF Ch!ApplyJunk
  <2>2. rev' \in Nat /\ rev <= rev' /\ rev' <= inst'.maxRev
    BY <1>2, <1>3, <1>4, <2>1
  <2>3. /\ r.summarized < c.rev /\ c.rev <= r.rev /\ c.turns <= r.turns
        /\ c.rev = r.rev => c.turns = r.turns
    BY <1>4 DEF CandOk
  <2>4. /\ sess'[s].state = r.state /\ sess'[s].rev = r.rev /\ sess'[s].turns = r.turns
        /\ sess'[s].sum = r.sum /\ sess'[s].seen = c.turns /\ sess'[s].summarized = c.rev
        /\ sess'[s].embedded <= c.rev
    <3>1. Ch!Most(r.summarized, c.rev) = c.rev
      BY <1>1, <1>3, <2>3 DEF Ch!Most
    <3>2. r.embedded <= c.rev
      BY <1>1, <1>3, <1>4, <2>3 DEF SessOk
    <3>3. Ch!Most(r.embedded, c.rev) <= c.rev
      BY <1>1, <1>3, <3>2 DEF Ch!Most
    <3> QED
      BY <1>1, <1>7, <3>1, <3>2, <3>3, JunkFields
  <2>5. (Ch!Dead(s)' <=> Ch!Dead(s)) /\ (Ch!Live(s)' <=> Ch!Live(s)) /\ sess'[s].state # "none"
    BY <1>1, <2>1, <2>4, SameState DEF Ch!Live
  <2>6. SessOk(s)'
    <3> HIDE DEF r, Ch!TurnsOf
    <3>1. sess'[s].rev <= rev' /\ tomb'[s] <= rev' /\ (tomb'[s] > 0 <=> Ch!Dead(s)')
      BY <1>2, <1>4, <2>1, <2>4, <2>5 DEF SessOk, r
    <3>2. sess'[s].turns <= Cardinality(Turns) /\ (Ch!Live(s)' => sess'[s].turns = Cardinality(Ch!TurnsOf(s)'))
      BY <1>4, <1>5, <2>4, <2>5 DEF SessOk, r
    <3>3. sess'[s].sum <= sess'[s].turns /\ sess'[s].seen <= sess'[s].turns
      BY <1>4, <2>3, <2>4 DEF SessOk, r
    <3>4. sess'[s].embedded <= sess'[s].summarized /\ sess'[s].summarized <= sess'[s].rev
      BY <2>3, <2>4
    <3> QED
      BY <2>5, <3>1, <3>2, <3>3, <3>4 DEF SessOk
  <2>7. ChatCovered(s)'
    BY <2>3, <2>4 DEF ChatCovered
  <2> QED
    BY <2>2, <2>6, <2>7
<1>8. CASE Ch!ApplySummary(c)
  <2>1. Ch!Live(s) /\ Ch!Bump
    BY <1>8 DEF Ch!ApplySummary
  <2>2. rev' = rev + 1 /\ rev' \in Nat /\ rev <= rev' /\ rev' <= inst'.maxRev
    BY <1>2, <2>1, BumpFits
  <2>3. /\ r.summarized < c.rev /\ c.rev <= r.rev /\ c.turns <= r.turns /\ r.rev <= rev
        /\ c.rev = r.rev => c.turns = r.turns
    BY <1>4 DEF CandOk, SessOk
  <2>4. /\ sess'[s].state = r.state /\ sess'[s].rev = rev + 1 /\ sess'[s].turns = r.turns
        /\ sess'[s].sum = c.turns /\ sess'[s].seen = c.turns /\ sess'[s].embedded = r.embedded
        /\ sess'[s].summarized = IF r.rev = c.rev THEN rev + 1 ELSE c.rev
    BY <1>1, <1>8, SummaryRow DEF Ch!Marked
  <2>5. (Ch!Dead(s)' <=> Ch!Dead(s)) /\ (Ch!Live(s)' <=> Ch!Live(s)) /\ sess'[s].state # "none"
    BY <1>1, <2>1, <2>4, SameState DEF Ch!Live
  <2>6. SessOk(s)'
    <3> HIDE DEF r, Ch!TurnsOf
    <3>1. sess'[s].rev <= rev' /\ tomb'[s] <= rev' /\ (tomb'[s] > 0 <=> Ch!Dead(s)')
      BY <1>2, <1>3, <1>4, <2>2, <2>4, <2>5 DEF SessOk, r
    <3>2. sess'[s].turns <= Cardinality(Turns) /\ (Ch!Live(s)' => sess'[s].turns = Cardinality(Ch!TurnsOf(s)'))
      BY <1>4, <1>5, <2>4, <2>5 DEF SessOk, r
    <3>3. sess'[s].sum <= sess'[s].turns /\ sess'[s].seen <= sess'[s].turns
      BY <2>3, <2>4
    <3>4. r.embedded <= r.summarized
      BY <1>4 DEF SessOk, r
    <3>5. sess'[s].embedded <= sess'[s].summarized /\ sess'[s].summarized <= sess'[s].rev
      BY <1>1, <1>3, <2>3, <2>4, <3>4
    <3> QED
      BY <2>5, <3>1, <3>2, <3>3, <3>5 DEF SessOk
  <2>7. ChatCovered(s)'
    <3> HIDE DEF r
    <3> QED
      BY <1>1, <1>3, <2>3, <2>4 DEF ChatCovered
  <2> QED
    BY <2>2, <2>6, <2>7
<1> QED
  BY <1>6, <1>7, <1>8 DEF Ch!Summarized

LEMMA SummarizedStore ==
    ASSUME Ch!BoundsAssumption, ShapeInv, IdleInv, StoreInv, LaneInv, NEW c, Ch!Summarized(c)
    PROVE  StoreInv' /\ LaneInv'
<1>1. /\ c \in Candidate /\ c \in work.cands /\ c.id \in Sessions
      /\ \A x \in Sessions : x # c.id => sess'[x] = sess[x]
      /\ \A x \in Sessions : sess'[x].state = sess[x].state
  BY SummarizedEffect, CandidateFields
<1>2. UNCHANGED <<inst, turn, tomb>> /\ work' = Ch!Rest(c) /\ work.pc = "summary"
  BY DEF Ch!Summarized
<1>3. /\ rev' \in Nat /\ rev <= rev' /\ rev' <= inst'.maxRev
      /\ SessOk(c.id)' /\ ChatCovered(c.id)'
  BY SummarizedOk
<1>4. ASSUME NEW x \in Sessions
      PROVE  SessOk(x)' /\ ChatCovered(x)'
  <2>1. Ch!TurnsOf(x)' = Ch!TurnsOf(x)
    BY <1>2 DEF Ch!TurnsOf
  <2>2. SessOk(x) /\ ChatCovered(x)
    BY DEF StoreInv, LaneInv
  <2>3. CASE x # c.id
    BY <1>1, <1>2, <1>3, <2>1, <2>2, <2>3, SessKept, CoverKept
  <2> QED
    BY <1>3, <2>3
<1>5. ASSUME NEW t \in Turns
      PROVE  TurnOk(t)'
  <2>1. TurnOk(t)
    BY DEF StoreInv
  <2>2. \A x \in Sessions : Ch!Live(x) => Ch!Live(x)'
    BY <1>1 DEF Ch!Live
  <2> QED
    BY <1>2, <1>3, <2>1, <2>2, TurnKept
<1>6. work'.cands = work.cands \ {c} /\ work'.docs = {} /\ work'.sdocs = {}
  BY <1>2, RestFits DEF IdleInv
<1>7. ASSUME NEW e \in work'.cands
      PROVE  CandOk(e)' /\ \A f \in work'.cands : f.id = e.id => f = e
  <2>1. e \in work.cands /\ e.id # c.id /\ e \in Candidate /\ CandOk(e)
        /\ \A f \in work.cands : f.id = e.id => f = e
    BY <1>1, <1>6, WorkOf DEF LaneInv
  <2>2. sess'[e.id] = sess[e.id]
    BY <1>1, <2>1, CandidateFields
  <2>3. sess[e.id].rev \in Nat /\ sess[e.id].turns \in Nat
    BY <2>1, CandidateFields, ShapeOf, SessRowFields
  <2>4. CandOk(e)'
    BY <2>1, <2>2, <2>3, CandKept
  <2> QED
    BY <1>6, <2>1, <2>4
<1>8. StoreInv'
  BY <1>3, <1>4, <1>5 DEF StoreInv
<1>9. LaneInv'
  BY <1>4, <1>6, <1>7 DEF LaneInv
<1> QED
  BY <1>8, <1>9

(* Marks: a turn that is a candidate to embed has an attempt left.           *)
LEMMA TurnsMarkStore ==
    ASSUME Ch!BoundsAssumption, ShapeInv, StoreInv, LaneInv, Ch!TurnsMark
    PROVE  StoreInv' /\ LaneInv'
<1>1. UNCHANGED <<inst, rev, sess, tomb>> /\ work'.docs = {}
      /\ work'.cands = work.cands /\ work'.sdocs = work.sdocs
  BY TurnsMarkEffect DEF Ch!TurnsMark
<1>2. \A t \in Turns : turn'[t].of = turn[t].of
  BY TurnsMarkEffect, MarksKeepOf
<1>3. \A s : Ch!TurnsOf(s)' = Ch!TurnsOf(s)
  BY <1>2 DEF Ch!TurnsOf
<1>4. rev \in Nat /\ rev' \in Nat /\ rev <= rev'
  BY <1>1, ShapeOf
<1>5. ASSUME NEW s \in Sessions
      PROVE  SessOk(s)'
  <2>1. SessOk(s)
    BY DEF StoreInv
  <2> QED
    BY <1>1, <1>3, <1>4, <2>1, SessKept
<1>6. ASSUME NEW t \in Turns
      PROVE  TurnOk(t)'
  <2>1. TurnOk(t) /\ Marks(t)
    BY TurnsMarkEffect DEF StoreInv
  <2> PICK r \in TurnRows : r = turn[t]
    BY ShapeOf
  <2>2. r.rev \in Nat /\ r.attempts \in Nat /\ r.attempts + 1 \in Nat
    BY TurnRowFields
  <2>3. r.rev <= rev /\ r.attempts <= MaxAttempts /\ MaxAttempts \in Nat
        /\ (r.of \in Sessions => sess[r.of].state = "live")
        /\ (r.embedded = "no" => r.attempts < MaxAttempts)
    BY <2>1 DEF TurnOk, Ch!BoundsAssumption, Ch!Live
  <2>4. turn'[t].rev = r.rev /\ turn'[t].of = r.of
    BY <2>1 DEF Marks, TurnRows
  <2>5. turn'[t].attempts <= MaxAttempts
        /\ (turn'[t].embedded = "no" => turn'[t].attempts < MaxAttempts)
    <3>1. CASE turn'[t] = r
      BY <2>3, <3>1
    <3>2. CASE turn'[t] = [r EXCEPT !.embedded = "yes"]
      <4>1. turn'[t].attempts = r.attempts /\ turn'[t].embedded = "yes"
        BY <3>2 DEF TurnRows
      <4> QED
        BY <2>3, <4>1
    <3>3. CASE /\ t \in Ch!Rows /\ \E d \in work.docs : d.id = t
               /\ turn'[t] = [r EXCEPT !.attempts = r.attempts + 1,
                                !.embedded = IF r.attempts + 1 >= MaxAttempts
                                             THEN "never" ELSE r.embedded]
      <4>1. r.embedded = "no"
        BY <3>3 DEF LaneInv, Ch!Rows
      <4>2. turn'[t].attempts = r.attempts + 1
            /\ turn'[t].embedded = IF r.attempts + 1 >= MaxAttempts THEN "never" ELSE r.embedded
        BY <3>3 DEF TurnRows
      <4> QED
        BY <2>2, <2>3, <4>1, <4>2
    <3> QED
      BY <2>1, <3>1, <3>2, <3>3 DEF Marks
  <2> QED
    BY <1>1, <2>3, <2>4, <2>5 DEF TurnOk, Ch!Live
<1>7. StoreInv'
  BY <1>1, <1>5, <1>6 DEF StoreInv
<1>8. LaneInv'
  BY <1>1 DEF LaneInv, CandOk, ChatCovered, Ch!Live
<1> QED
  BY <1>7, <1>8

(* Only `embedded` of a row moves, and not past what is summarized.          *)
LEMMA SessionsMarkStore ==
    ASSUME Ch!BoundsAssumption, ShapeInv, StoreInv, LaneInv, Ch!SessionsMark
    PROVE  StoreInv' /\ LaneInv'
<1>1. UNCHANGED <<inst, rev, turn, tomb>> /\ work' = Ch!WorkIdle
  BY DEF Ch!SessionsMark
<1>2. \A s : Ch!TurnsOf(s)' = Ch!TurnsOf(s)
  BY <1>1 DEF Ch!TurnsOf
<1>3. rev \in Nat /\ rev' \in Nat /\ rev <= rev'
  BY <1>1, ShapeOf
<1>4. ASSUME NEW s \in Sessions
      PROVE  SessOk(s)' /\ ChatCovered(s)' /\ sess'[s].state = sess[s].state
  <2>1. SessOk(s) /\ ChatCovered(s)
    BY DEF StoreInv, LaneInv
  <2>2. CASE sess'[s] = sess[s]
    BY <1>1, <1>2, <1>3, <2>1, <2>2, SessKept, CoverKept
  <2>3. CASE /\ Ch!Live(s)
             /\ \E d \in work.sdocs :
                  /\ d.doc.id = s
                  /\ sess'[s] = [sess[s] EXCEPT !.embedded = Ch!Most(sess[s].embedded, d.rev)]
    <3> PICK d \in work.sdocs : /\ d.doc.id = s
                                /\ sess'[s] = [sess[s] EXCEPT !.embedded = Ch!Most(sess[s].embedded, d.rev)]
      BY <2>3
    <3>1. d.rev \in Nat /\ d.doc.of = s
      BY WorkOf, SummaryFields DEF SessDocs
    <3>2. sess[s] \in SessRows /\ sess[s].embedded \in Nat /\ sess[s].summarized \in Nat
      BY ShapeOf, SessRowFields
    <3>3. d.rev <= sess[s].summarized /\ sess[s].embedded <= sess[s].summarized
      BY <2>1, <3>1 DEF LaneInv, SessOk
    <3>4. Ch!Most(sess[s].embedded, d.rev) <= sess[s].summarized
      BY <3>1, <3>2, <3>3 DEF Ch!Most
    <3>5. PICK m : m = Ch!Most(sess[s].embedded, d.rev)
      OBVIOUS
    <3>6. /\ sess'[s].state = sess[s].state /\ sess'[s].rev = sess[s].rev
          /\ sess'[s].turns = sess[s].turns /\ sess'[s].sum = sess[s].sum
          /\ sess'[s].seen = sess[s].seen /\ sess'[s].summarized = sess[s].summarized
          /\ sess'[s].embedded = m
      BY <3>2, <3>5 DEF SessRows
    <3>7. (Ch!Dead(s)' <=> Ch!Dead(s)) /\ (Ch!Live(s)' <=> Ch!Live(s))
      BY <3>6, SameState
    <3>8. sess'[s].state # "none"
      BY <2>3, <3>6 DEF Ch!Live
    <3> HIDE DEF Ch!TurnsOf
    <3>9. SessOk(s)'
      BY <1>1, <1>2, <2>1, <3>4, <3>5, <3>6, <3>7, <3>8 DEF SessOk
    <3>10. ChatCovered(s)'
      BY <2>1, <3>6, <3>7 DEF ChatCovered
    <3> QED
      BY <3>6, <3>9, <3>10
  <2> QED
    BY <2>2, <2>3, SessionsMarkEffect
<1>5. \A t \in Turns : TurnOk(t)'
  <2>1. \A x \in Sessions : Ch!Live(x) => Ch!Live(x)'
    BY <1>4 DEF Ch!Live
  <2> QED
    BY <1>1, <1>3, <2>1, TurnKept DEF StoreInv
<1>6. StoreInv'
  BY <1>1, <1>4, <1>5 DEF StoreInv
<1>7. LaneInv'
  BY <1>1, <1>4, WorkIdleFits DEF LaneInv
<1> QED
  BY <1>6, <1>7

(* A finished cascade changes nothing of the row but its state.              *)
LEMMA JobFinishStore ==
    ASSUME Ch!BoundsAssumption, ShapeInv, StoreInv, LaneInv, JobsInv, Ch!JobFinish
    PROVE  StoreInv' /\ LaneInv'
<1>1. UNCHANGED <<inst, rev, turn, tomb, work>>
  BY DEF Ch!JobFinish
<1>2. \A s : Ch!TurnsOf(s)' = Ch!TurnsOf(s)
  BY <1>1 DEF Ch!TurnsOf
<1>3. CASE UNCHANGED sess
  <2>1. UNCHANGED Ch!storeVars
    BY <1>1, <1>3 DEF Ch!storeVars
  <2> QED
    BY <1>1, <2>1, StoreStill, LaneStill
<1>4. ASSUME NEW s \in Sessions, job[s].queued, sess'[s] = [sess[s] EXCEPT !.state = "gone"],
             \A x \in Sessions : x # s => sess'[x] = sess[x]
      PROVE  StoreInv' /\ LaneInv'
  <2>1. Ch!Dead(s) /\ ~Ch!Live(s)
    BY <1>4 DEF JobsInv, Ch!Dead, Ch!Live
  <2>2. sess[s] \in SessRows /\ rev \in Nat
    BY ShapeOf
  <2>3. /\ sess'[s].state = "gone" /\ sess'[s].rev = sess[s].rev
        /\ sess'[s].turns = sess[s].turns /\ sess'[s].sum = sess[s].sum
        /\ sess'[s].seen = sess[s].seen /\ sess'[s].summarized = sess[s].summarized
        /\ sess'[s].embedded = sess[s].embedded
    BY <1>4, <2>2 DEF SessRows
  <2>4. Ch!Dead(s)' /\ ~Ch!Live(s)' /\ sess'[s].state # "none"
    BY <2>3 DEF Ch!Dead, Ch!Live
  <2>5. SessOk(s)'
    <3>1. SessOk(s)
      BY DEF StoreInv
    <3> HIDE DEF Ch!TurnsOf
    <3> QED
      BY <1>1, <2>1, <2>3, <2>4, <3>1 DEF SessOk
  <2>6. ASSUME NEW x \in Sessions
        PROVE  SessOk(x)' /\ ChatCovered(x)'
    <3>1. SessOk(x) /\ ChatCovered(x)
      BY DEF StoreInv, LaneInv
    <3>2. CASE x = s
      BY <2>4, <2>5, <3>2 DEF ChatCovered
    <3>3. CASE x # s
      BY <1>1, <1>2, <1>4, <2>2, <3>1, <3>3, SessKept, CoverKept
    <3> QED
      BY <3>2, <3>3
  <2>7. \A x \in Sessions : Ch!Live(x) => Ch!Live(x)'
    BY <1>4, <2>1 DEF Ch!Live
  <2>8. \A t \in Turns : TurnOk(t)'
    BY <1>1, <2>2, <2>7, TurnKept DEF StoreInv
  <2>9. StoreInv'
    BY <1>1, <2>6, <2>8 DEF StoreInv
  <2>10. \A x \in Sessions : /\ sess'[x].rev = sess[x].rev /\ sess'[x].turns = sess[x].turns
                             /\ sess'[x].summarized = sess[x].summarized
    BY <1>4, <2>3
  <2>11. ASSUME NEW c \in work.cands PROVE CandOk(c)'
    <3>1. c.id \in Sessions /\ CandOk(c)
      BY WorkOf, CandidateFields DEF LaneInv
    <3> QED
      BY <2>10, <3>1 DEF CandOk
  <2>12. ASSUME NEW d \in work.sdocs PROVE d.rev <= sess'[d.doc.of].summarized
    <3>1. d.doc.of \in Sessions
      BY WorkOf, SummaryFields DEF SessDocs
    <3> QED
      BY <2>10, <3>1 DEF LaneInv
  <2>13. LaneInv'
    BY <1>1, <2>6, <2>11, <2>12 DEF LaneInv
  <2> QED
    BY <2>9, <2>13
<1> QED
  BY <1>3, <1>4, JobFinishSteps

LEMMA WorkBeginLane ==
    ASSUME ShapeInv, LaneInv, NEW idle, Ch!WorkBegin(idle)
    PROVE  LaneInv'
<1>1. UNCHANGED Ch!storeVars /\ idle \subseteq Ch!Candidates
  BY DEF Ch!WorkBegin
<1>2. work'.docs = {} /\ work'.sdocs = {}
  BY WorkBeginEffect
<1>3. \A c \in work'.cands : \E s \in idle :
         c = [id |-> s, rev |-> sess[s].rev, turns |-> sess[s].turns]
  BY WorkBeginEffect
<1>4. ASSUME NEW c \in work'.cands
      PROVE  /\ c.id \in Sessions /\ c.rev = sess[c.id].rev /\ c.turns = sess[c.id].turns
             /\ sess[c.id].summarized < c.rev /\ sess[c.id].rev \in Nat /\ sess[c.id].turns \in Nat
             /\ c = [id |-> c.id, rev |-> sess[c.id].rev, turns |-> sess[c.id].turns]
  <2>1. PICK s \in idle : c = [id |-> s, rev |-> sess[s].rev, turns |-> sess[s].turns]
    BY <1>3
  <2>2. s \in Sessions /\ sess[s].summarized < sess[s].rev
    BY <1>1 DEF Ch!Candidates
  <2> QED
    BY <2>1, <2>2, ShapeOf, SessRowFields
<1>5. \A c \in work'.cands : \A e \in work'.cands : e.id = c.id => e = c
  BY <1>4
<1>6. \A c \in work'.cands : CandOk(c)'
  BY <1>1, <1>4 DEF CandOk, Ch!storeVars
<1>7. \A s \in Sessions : ChatCovered(s)'
  BY <1>1 DEF LaneInv, ChatCovered, Ch!storeVars, Ch!Live
<1> QED
  BY <1>2, <1>5, <1>6, <1>7 DEF LaneInv

LEMMA TurnsReadLane ==
    ASSUME ShapeInv, LaneInv, Ch!TurnsRead
    PROVE  LaneInv'
<1>1. UNCHANGED Ch!storeVars
  BY DEF Ch!TurnsRead
<1>2. work'.cands = work.cands /\ work'.sdocs = work.sdocs
  BY TurnsReadEffect
<1>3. ASSUME NEW d \in work'.docs
      PROVE  turn[d.id].embedded = "no"
  <2>1. PICK t \in Ch!Rows : d = Ch!TurnDoc(t, turn[t].of) /\ turn[t].embedded = "no"
    BY TurnsReadEffect
  <2> QED
    BY <2>1 DEF Ch!TurnDoc
<1> QED
  BY <1>1, <1>2, <1>3 DEF LaneInv, CandOk, ChatCovered, Ch!storeVars, Ch!Live

LEMMA SessionsReadLane ==
    ASSUME ShapeInv, LaneInv, Ch!SessionsRead
    PROVE  LaneInv'
<1>1. UNCHANGED Ch!storeVars
  BY DEF Ch!SessionsRead
<1>2. work'.cands \subseteq work.cands /\ work'.docs \subseteq work.docs
  BY SessionsReadEffect
<1>3. ASSUME NEW d \in work'.sdocs
      PROVE  d.rev <= sess[d.doc.of].summarized
  <2>1. PICK s \in Sessions : d = [doc |-> Ch!SessDoc(s, sess[s].sum), rev |-> sess[s].summarized]
    BY SessionsReadEffect
  <2>2. d.doc.of = s /\ d.rev = sess[s].summarized
    BY <2>1 DEF Ch!SessDoc
  <2>3. sess[s].summarized \in Nat
    BY ShapeOf, SessRowFields
  <2> QED
    BY <2>2, <2>3
<1> QED
  BY <1>1, <1>2, <1>3 DEF LaneInv, CandOk, ChatCovered, Ch!storeVars, Ch!Live

LEMMA NextStore ==
    ASSUME Ch!BoundsAssumption, ShapeInv, IdleInv, StoreInv, LaneInv, JobsInv, Ch!Next
    PROVE  StoreInv' /\ LaneInv'
<1>0. ASSUME UNCHANGED Ch!storeVars, work'.cands \subseteq work.cands, work'.docs \subseteq work.docs,
             work'.sdocs \subseteq work.sdocs
      PROVE  StoreInv' /\ LaneInv'
  BY <1>0, StoreStill, LaneStill
<1>1. ASSUME Ch!StoreNext PROVE StoreInv' /\ LaneInv'
  BY <1>1, ResolveStore, AppendStore, UpdateStore, DeleteStore DEF Ch!StoreNext
<1>2. ASSUME Ch!SyncNext \/ Ch!SearchNext PROVE StoreInv' /\ LaneInv'
  <2>1. UNCHANGED Ch!storeVars /\ work' = work
    BY <1>2, SyncPageEffect DEF Ch!SyncNext, Ch!SearchNext, Ch!SearchBegin, Ch!SearchAnswer, Ch!SearchReturn
  <2> QED
    BY <1>0, <2>1
<1>3. ASSUME NEW d, Ch!LateLands(d) PROVE StoreInv' /\ LaneInv'
  BY <1>0, <1>3 DEF Ch!LateLands
<1>4. ASSUME Ch!Crash PROVE StoreInv' /\ LaneInv'
  BY <1>0, <1>4, WorkIdleFits DEF Ch!Crash
<1>5. ASSUME Ch!CleanNext PROVE StoreInv' /\ LaneInv'
  <2>1. ASSUME UNCHANGED Ch!storeVars, work' = work PROVE StoreInv' /\ LaneInv'
    BY <1>0, <2>1
  <2>2. ASSUME NEW over, Ch!CleanBegin(over) PROVE StoreInv' /\ LaneInv'
    BY <2>1, <2>2 DEF Ch!CleanBegin
  <2>3. ASSUME NEW j, NEW okV, NEW okA, NEW broke, NEW cut, Ch!JobCalls(j, okV, okA, broke, cut)
        PROVE  StoreInv' /\ LaneInv'
    BY <2>1, <2>3 DEF Ch!JobCalls
  <2>4. CASE Ch!JobsCut \/ Ch!JobSave \/ Ch!SweepSave
    BY <2>1, <2>4 DEF Ch!JobsCut, Ch!JobSave, Ch!SweepSave
  <2>5. ASSUME NEW old, NEW over, NEW due, Ch!SweepPlan(old, over, due) PROVE StoreInv' /\ LaneInv'
    BY <2>1, <2>5, Zenon DEF Ch!SweepPlan
  <2>6. ASSUME NEW ok, NEW bad, Ch!SweepCalls(ok, bad) PROVE StoreInv' /\ LaneInv'
    BY <2>1, <2>6 DEF Ch!SweepCalls
  <2> QED
    BY <1>5, <2>2, <2>3, <2>4, <2>5, <2>6, JobFinishStore DEF Ch!CleanNext
<1>6. ASSUME Ch!WorkNext PROVE StoreInv' /\ LaneInv'
  <2>1. ASSUME NEW idle, Ch!WorkBegin(idle) PROVE StoreInv' /\ LaneInv'
    BY <2>1, StoreStill, WorkBeginLane, Zenon DEF Ch!WorkBegin
  <2>2. ASSUME NEW c, NEW m \in BOOLEAN, Ch!SummaryFailed(c, m) PROVE StoreInv' /\ LaneInv'
    BY <1>0, <2>2, SummaryFailedEffect, Zenon DEF Ch!SummaryFailed
  <2>3. CASE Ch!TurnsRead
    BY <2>3, StoreStill, TurnsReadLane DEF Ch!TurnsRead
  <2>4. CASE Ch!TurnsUpsertOk
    BY <1>0, <2>4, TurnsUpsertOkEffect DEF Ch!TurnsUpsertOk
  <2>5. CASE Ch!TurnsUpsertMissing
    BY <1>0, <2>5, TurnsUpsertMissingEffect DEF Ch!TurnsUpsertMissing
  <2>6. CASE Ch!TurnsUpsertFails
    BY <1>0, <2>6, TurnsUpsertFailsEffect DEF Ch!TurnsUpsertFails
  <2>7. CASE Ch!ProbeFails
    BY <1>0, <2>7, ProbeFailsEffect DEF Ch!ProbeFails
  <2>8. ASSUME NEW good, Ch!DocByDoc(good) PROVE StoreInv' /\ LaneInv'
    BY <1>0, <2>8, DocByDocEffect DEF Ch!DocByDoc
  <2>9. CASE Ch!SessionsRead
    BY <2>9, StoreStill, SessionsReadLane DEF Ch!SessionsRead
  <2>10. CASE Ch!SessionsUpsertOk
    BY <1>0, <2>10, SessionsUpsertOkEffect DEF Ch!SessionsUpsertOk
  <2>11. CASE Ch!SessionsUpsertFails
    BY <1>0, <2>11, WorkIdleFits DEF Ch!SessionsUpsertFails
  <2> QED
    BY <1>6, <2>1, <2>2, <2>3, <2>4, <2>5, <2>6, <2>7, <2>8, <2>9, <2>10, <2>11,
       SummarizedStore, TurnsMarkStore, SessionsMarkStore DEF Ch!WorkNext
<1>7. ASSUME Ch!AgentNext PROVE StoreInv' /\ LaneInv'
  BY <1>0, <1>7, AgentEffect
<1> QED
  BY <1>1, <1>2, <1>3, <1>4, <1>5, <1>6, <1>7 DEF Ch!Next

-----------------------------------------------------------------------------
(* What the agent keeps of a dead session has a job to remove it.            *)

Kinds == {"goal", "fact"}

LEMMA ForgetsFrame ==
    ASSUME ShapeInv, ForgetsInv,
           \A x \in facts' : x \in facts \/ x[2] \notin Kinds \/ (~Ch!Dead(x[1])' /\ ~Ch!Dead(x[1])),
           \A s \in Sessions : Ch!Dead(s)' => Ch!Dead(s),
           \A s \in Sessions : job'[s] = job[s] \/ Requeued(s),
           clean'.jobs \subseteq clean.jobs, clean'.cur \subseteq clean.cur,
           clean'.cur = {} \/ clean'.done = clean.done,
           \A j \in clean.jobs \cup clean.cur : Ch!Dead(j.id)
    PROVE  ForgetsInv'
<1>1. ASSUME NEW s \in Sessions, NEW k \in Kinds, <<s, k>> \in facts', Ch!Dead(s)'
      PROVE  /\ job'[s].queued /\ <<k, s>> \notin job'[s].done
             /\ k = "goal" => job'[s].goals
  <2>0. <<s, k>> \in facts
    BY <1>1
  <2>1. /\ job[s].queued /\ <<k, s>> \notin job[s].done
        /\ k = "goal" => job[s].goals
    BY <1>1, <2>0 DEF ForgetsInv, Kinds
  <2>3. CASE job'[s] = job[s]
    BY <2>1, <2>3
  <2>4. CASE Requeued(s)
    BY <2>1, <2>4, RequeuedJob
  <2> QED
    BY <2>3, <2>4
<1>2. ASSUME NEW j \in clean'.jobs \cup clean'.cur, NEW k \in Kinds, <<j.id, k>> \in facts'
      PROVE  /\ <<k, j.id>> \notin j.job.done
             /\ k = "goal" => j.job.goals
             /\ j \in clean'.cur => <<k, j.id>> \notin clean'.done
  <2>1. <<j.id, k>> \in facts
    BY <1>2
  <2> QED
    BY <1>2, <2>1 DEF ForgetsInv, Kinds
<1> QED
  BY <1>1, <1>2 DEF ForgetsInv, Kinds

\* What the cleanup lane has read is of dead sessions.
LEMMA ReadIsDead ==
    ASSUME ShapeInv, JobsInv
    PROVE  \A j \in clean.jobs \cup clean.cur : Ch!Dead(j.id)
BY CleanOf, JobReadFields DEF JobsInv

LEMMA AppendForgets ==
    ASSUME ShapeInv, JobsInv, ForgetsInv, NEW s \in Sessions, NEW t \in Turns, Ch!Append(s, t)
    PROVE  ForgetsInv'
<1>1. /\ UNCHANGED <<job, clean>> /\ ~Ch!Dead(s)
      /\ facts' \subseteq facts \cup {<<s, "goal">>}
  BY DEF Ch!Append, Ch!Live, Ch!Dead
<1>2. \A x \in Sessions : Ch!Dead(x)' <=> Ch!Dead(x)
  <2>1. /\ sess'[s].state = sess[s].state
        /\ \A x \in Sessions : x # s => sess'[x] = sess[x]
    BY AppendFields
  <2> QED
    BY <2>1, SameState
<1>3. \A x \in facts' : x \in facts \/ x[2] \notin Kinds \/ (~Ch!Dead(x[1])' /\ ~Ch!Dead(x[1]))
  BY <1>1, <1>2
<1> QED
  BY <1>1, <1>2, <1>3, ReadIsDead, ForgetsFrame

(* A running goal, and facts stored while the session is there, or out of    *)
(* the index's sight.                                                        *)
LEMMA AgentForgets ==
    ASSUME ShapeInv, JobsInv, ForgetsInv, Ch!AgentNext
    PROVE  ForgetsInv'
<1>1. UNCHANGED <<sess, job, clean>>
  BY DEF Ch!AgentNext, Ch!GoalStarts, Ch!FactsStored, Ch!storeVars
<1>2. \A x \in facts' : x \in facts \/ x[2] \notin Kinds \/ ~Ch!Dead(x[1])
  BY DEF Ch!AgentNext, Ch!GoalStarts, Ch!FactsStored, Ch!Live, Ch!Dead, Kinds
<1>3. \A x : Ch!Dead(x)' <=> Ch!Dead(x)
  BY <1>1 DEF Ch!Dead
<1> QED
  BY <1>1, <1>2, <1>3, ReadIsDead, ForgetsFrame

LEMMA DeleteForgets ==
    ASSUME ShapeInv, JobsInv, ForgetsInv, NEW s \in Sessions, Ch!Delete(s)
    PROVE  ForgetsInv'
<1>1. UNCHANGED <<facts, clean>> /\ Ch!Live(s) /\ ~Ch!Dead(s)
  BY DeleteStates, Zenon DEF Ch!Delete
<1>2. \A x \in Sessions : x # s => sess'[x] = sess[x]
  BY DeleteFields
<1>3. \A x \in Sessions : x # s => job'[x] = job[x]
  BY ShapeOf DEF Ch!Delete, ShapeInv
<1>4. job'[s].queued /\ job'[s].done = {} /\ (<<s, "goal">> \in facts => job'[s].goals)
  <2>1. job'[s] = Ch!DeleteJob(s)
    BY ShapeOf DEF Ch!Delete, ShapeInv
  <2>2. /\ Ch!DeleteJob(s).queued = TRUE /\ Ch!DeleteJob(s).done = {}
        /\ Ch!DeleteJob(s).goals = (<<s, "goal">> \in facts)
    BY DEF Ch!DeleteJob, Ch!NoJob
  <2> QED
    BY <2>1, <2>2
<1>5. ASSUME NEW x \in Sessions, NEW k \in Kinds, <<x, k>> \in facts, Ch!Dead(x)'
      PROVE  /\ job'[x].queued /\ <<k, x>> \notin job'[x].done
             /\ k = "goal" => job'[x].goals
  <2>1. CASE x = s
    BY <1>4, <1>5, <2>1
  <2>2. CASE x # s
    <3>1. sess'[x] = sess[x] /\ (Ch!Dead(x)' <=> Ch!Dead(x)) /\ job'[x] = job[x]
      BY <1>2, <1>3, <2>2, SameState
    <3> QED
      BY <1>5, <3>1 DEF ForgetsInv, Kinds
  <2> QED
    BY <2>1, <2>2
<1> QED
  BY <1>1, <1>5 DEF ForgetsInv, Kinds

LEMMA CleanBeginForgets ==
    ASSUME ShapeInv, JobsInv, ForgetsInv, NEW over, Ch!CleanBegin(over)
    PROVE  ForgetsInv'
<1>1. UNCHANGED <<sess, job, facts>>
  BY DEF Ch!CleanBegin, Ch!storeVars
<1>2. clean'.cur = {}
  BY CleanBeginEffect
<1>3. ASSUME NEW j \in clean'.jobs, NEW k \in Kinds, <<j.id, k>> \in facts
      PROVE  /\ <<k, j.id>> \notin j.job.done /\ (k = "goal" => j.job.goals)
  <2>1. PICK s \in Sessions : j = [id |-> s, job |-> job[s]] /\ job[s].queued
    BY CleanBeginEffect
  <2>2. Ch!Dead(s) /\ j.id = s /\ j.job = job[s]
    BY <2>1 DEF JobsInv
  <2> QED
    BY <1>3, <2>2 DEF ForgetsInv, Kinds
<1> QED
  BY <1>1, <1>2, <1>3 DEF ForgetsInv, Kinds, Ch!Dead

(* The plugins' answers: what was not forgotten is not marked as done.       *)
LEMMA JobCallsForgets ==
    ASSUME ShapeInv, JobsInv, ForgetsInv, NEW j, NEW okV, NEW okA,
           NEW broke \in SUBSET {"vector-db", "agent"}, NEW cut \in BOOLEAN,
           Ch!JobCalls(j, okV, okA, broke, cut)
    PROVE  ForgetsInv'
<1>1. UNCHANGED <<sess, job>>
  BY DEF Ch!JobCalls, Ch!storeVars
<1>2. /\ j \in clean.jobs /\ okV \subseteq Ch!VecSteps(j) /\ okA \subseteq Ch!AgentSteps(j)
      /\ facts' \subseteq facts \ {<<a[2], a[1]>> : a \in okA}
  BY DEF Ch!JobCalls
<1>3. /\ clean'.jobs = clean.jobs \ {j} /\ clean'.cur = {j}
      /\ clean'.done = j.job.done \cup okV \cup okA
  BY CleanOf DEF Ch!JobCalls, CleanStates
<1>4. ASSUME NEW k \in Kinds, <<j.id, k>> \in facts'
      PROVE  <<k, j.id>> \notin clean'.done
  <2>1. <<k, j.id>> \notin j.job.done
    BY <1>2, <1>4 DEF ForgetsInv, Kinds
  <2>2. <<k, j.id>> \notin okV
    BY <1>2 DEF Ch!VecSteps, Kinds
  <2>3. <<k, j.id>> \notin okA
    BY <1>2, <1>4
  <2> QED
    BY <1>3, <2>1, <2>2, <2>3
<1> QED
  BY <1>1, <1>2, <1>3, <1>4 DEF ForgetsInv, Kinds, Ch!Dead

LEMMA JobSaveForgets ==
    ASSUME ShapeInv, JobsInv, ForgetsInv, Ch!JobSave
    PROVE  ForgetsInv'
<1>1. UNCHANGED <<sess, facts>> /\ clean'.jobs = clean.jobs /\ clean'.cur = {}
  BY JobSaveEffect DEF Ch!JobSave, Ch!storeVars
<1>2. PICK j \in clean.cur :
        IF Ch!SameGen(j)
        THEN /\ job'[j.id] = [job[j.id] EXCEPT !.done = clean.done, !.wait = clean.failed]
             /\ \A s \in Sessions : s # j.id => job'[s] = job[s]
        ELSE job' = job
  BY JobSaveEffect
<1>3. j.id \in Sessions /\ job[j.id] \in JobRows
  BY CleanOf, JobReadFields, ShapeOf
<1>4. ASSUME NEW s \in Sessions, NEW k \in Kinds, <<s, k>> \in facts, Ch!Dead(s)
      PROVE  <<k, s>> \notin job'[s].done
  <2>1. <<k, s>> \notin job[s].done
    BY <1>4 DEF ForgetsInv, Kinds
  <2>2. s = j.id => <<k, s>> \notin clean.done
    BY <1>4 DEF ForgetsInv, Kinds
  <2>3. CASE s = j.id /\ Ch!SameGen(j)
    <3>1. job'[s].done = clean.done
      BY <1>2, <1>3, <2>3 DEF JobRows
    <3> QED
      BY <2>2, <2>3, <3>1
  <2>4. CASE ~(s = j.id /\ Ch!SameGen(j))
    BY <1>2, <2>1, <2>4
  <2> QED
    BY <2>3, <2>4
<1>5. \A s \in Sessions : job'[s].queued = job[s].queued /\ job'[s].goals = job[s].goals
  BY JobSaveKeeps
<1> QED
  BY <1>1, <1>4, <1>5 DEF ForgetsInv, Kinds, Ch!Dead

(* A job that finishes has been told of everything to be forgotten.          *)
LEMMA JobFinishForgets ==
    ASSUME ShapeInv, JobsInv, ForgetsInv, Ch!JobFinish
    PROVE  ForgetsInv'
<1>1. UNCHANGED facts /\ clean'.jobs = clean.jobs /\ clean'.cur = {}
  BY JobFinishEffect DEF Ch!JobFinish
<1>2. CASE UNCHANGED <<job, sess, swept>>
  BY <1>1, <1>2 DEF ForgetsInv, Ch!Dead
<1>3. ASSUME NEW s \in Sessions, job[s].queued,
             \A x \in Sessions : x # s => job'[x] = job[x] /\ sess'[x] = sess[x],
             NEW j \in clean.cur, j.id = s, Ch!VecSteps(j) \cup Ch!AgentSteps(j) \subseteq clean.done
      PROVE  ForgetsInv'
  <2>1. ASSUME NEW k \in Kinds, <<s, k>> \in facts
        PROVE  FALSE
    <3>1. <<k, s>> \notin j.job.done /\ (k = "goal" => j.job.goals) /\ <<k, s>> \notin clean.done
      BY <1>3, <2>1 DEF ForgetsInv, Kinds
    <3>2. <<k, s>> \in Ch!AgentSteps(j)
      BY <1>3, <3>1 DEF Ch!AgentSteps, Kinds
    <3> QED
      BY <1>3, <3>1, <3>2
  <2>2. ASSUME NEW x \in Sessions, NEW k \in Kinds, <<x, k>> \in facts
        PROVE  x # s
    BY <2>1, <2>2
  <2>3. \A x \in Sessions : x # s => (Ch!Dead(x)' <=> Ch!Dead(x))
    BY <1>3, SameState
  <2> QED
    BY <1>1, <1>3, <2>2, <2>3 DEF ForgetsInv, Kinds
<1>4. CASE ~UNCHANGED <<job, sess, swept>>
  <2>1. PICK s \in Sessions :
          /\ job[s].queued
          /\ \A x \in Sessions : x # s => job'[x] = job[x] /\ sess'[x] = sess[x]
          /\ \E j \in clean.cur : j.id = s /\ Ch!VecSteps(j) \cup Ch!AgentSteps(j) \subseteq clean.done
    BY <1>4, JobFinishSteps
  <2>2. PICK j \in clean.cur : j.id = s /\ Ch!VecSteps(j) \cup Ch!AgentSteps(j) \subseteq clean.done
    BY <2>1
  <2> QED
    BY <1>3, <2>1, <2>2
<1> QED
  BY <1>2, <1>4

LEMMA NextForgets ==
    ASSUME ShapeInv, JobsInv, TracksInv, ForgetsInv, Ch!Next
    PROVE  ForgetsInv'
<1>0. ASSUME UNCHANGED <<sess, job, facts>>, clean'.jobs \subseteq clean.jobs,
             clean'.cur \subseteq clean.cur, clean'.cur = {} \/ clean'.done = clean.done
      PROVE  ForgetsInv'
  <2>1. \A s \in Sessions : Ch!Dead(s)' => Ch!Dead(s)
    BY <1>0 DEF Ch!Dead
  <2> QED
    BY <1>0, <2>1, ReadIsDead, ForgetsFrame
<1>1. ASSUME Ch!StoreNext PROVE ForgetsInv'
  <2>1. ASSUME NEW s \in Sessions, Ch!Resolve(s) PROVE ForgetsInv'
    <3>1. UNCHANGED <<job, facts, clean>>
      BY <2>1 DEF Ch!Resolve
    <3>2. \A x \in Sessions : x # s => sess'[x] = sess[x]
      BY <2>1, ShapeOf DEF Ch!Resolve, ShapeInv
    <3>3. sess'[s].turns = sess[s].turns /\ ~Ch!Dead(s)'
      BY <2>1, ResolveFields DEF Ch!Dead
    <3>4. \A x \in Sessions : Ch!Dead(x)' => Ch!Dead(x)
      BY <3>2, <3>3 DEF Ch!Dead
    <3> QED
      BY <3>1, <3>4, ReadIsDead, ForgetsFrame
  <2>2. ASSUME NEW s \in Sessions, Ch!Update(s) PROVE ForgetsInv'
    <3>1. UNCHANGED <<job, facts, clean>>
      BY <2>2 DEF Ch!Update
    <3>2. \A x \in Sessions : sess'[x].turns = sess[x].turns /\ sess'[x].state = sess[x].state
      BY <2>2, UpdateFields
    <3>3. \A x \in Sessions : Ch!Dead(x)' => Ch!Dead(x)
      BY <3>2, SameState
    <3> QED
      BY <3>1, <3>2, <3>3, ReadIsDead, ForgetsFrame
  <2> QED
    BY <1>1, <2>1, <2>2, AppendForgets, DeleteForgets DEF Ch!StoreNext
<1>2. ASSUME Ch!SyncNext \/ Ch!SearchNext PROVE ForgetsInv'
  <2>1. UNCHANGED <<sess, job, facts, clean>>
    BY <1>2, SyncPageEffect DEF Ch!SyncNext, Ch!SearchNext, Ch!SearchBegin, Ch!SearchAnswer, Ch!SearchReturn, Ch!storeVars
  <2> QED
    BY <1>0, <2>1
<1>3. ASSUME NEW d, Ch!LateLands(d) PROVE ForgetsInv'
  BY <1>0, <1>3 DEF Ch!LateLands, Ch!storeVars
<1>4. ASSUME Ch!Crash PROVE ForgetsInv'
  BY <1>0, <1>4, CleanIdleFits DEF Ch!Crash, Ch!storeVars
<1>5. ASSUME Ch!CleanNext PROVE ForgetsInv'
  <2>1. ASSUME NEW old, NEW over, NEW due \in BOOLEAN, Ch!SweepPlan(old, over, due) PROVE ForgetsInv'
    BY <1>0, <2>1, SweepPlanEffect, Zenon DEF Ch!SweepPlan, Ch!storeVars
  <2>2. ASSUME NEW ok, NEW bad, Ch!SweepCalls(ok, bad) PROVE ForgetsInv'
    BY <1>0, <2>2, SweepCallsEffect DEF Ch!SweepCalls, Ch!storeVars
  <2>3. CASE Ch!JobsCut
    BY <1>0, <2>3, JobsCutEffect DEF Ch!JobsCut, Ch!storeVars
  <2>4. CASE Ch!SweepSave
    BY <1>0, <2>4, SweepSaveEffect DEF Ch!SweepSave, Ch!storeVars
  <2> QED
    BY <1>5, <2>1, <2>2, <2>3, <2>4, CleanBeginForgets, JobCallsForgets, JobSaveForgets,
       JobFinishForgets DEF Ch!CleanNext
<1>6. ASSUME Ch!WorkNext PROVE ForgetsInv'
  <2>0. ASSUME UNCHANGED <<sess, job, facts, clean>> PROVE ForgetsInv'
    BY <1>0, <2>0
  <2>1. ASSUME NEW idle, Ch!WorkBegin(idle) PROVE ForgetsInv'
    BY <2>0, <2>1 DEF Ch!WorkBegin, Ch!storeVars
  <2>2. ASSUME NEW c, NEW m, Ch!SummaryFailed(c, m) PROVE ForgetsInv'
    BY <2>0, <2>2 DEF Ch!SummaryFailed, Ch!storeVars
  <2>3. CASE Ch!TurnsRead \/ Ch!TurnsUpsertOk \/ Ch!TurnsUpsertMissing \/ Ch!TurnsUpsertFails
    BY <2>0, <2>3 DEF Ch!TurnsRead, Ch!TurnsUpsertOk, Ch!TurnsUpsertMissing, Ch!TurnsUpsertFails, Ch!storeVars
  <2>4. ASSUME NEW good, Ch!DocByDoc(good) PROVE ForgetsInv'
    BY <2>0, <2>4 DEF Ch!DocByDoc, Ch!storeVars
  <2>5. CASE Ch!SessionsRead \/ Ch!SessionsUpsertOk \/ Ch!SessionsUpsertFails
    BY <2>0, <2>5 DEF Ch!SessionsRead, Ch!SessionsUpsertOk, Ch!SessionsUpsertFails, Ch!storeVars
  <2>6. ASSUME NEW c, Ch!Summarized(c) PROVE ForgetsInv'
    <3>1. UNCHANGED <<job, facts, clean>>
      BY <2>6 DEF Ch!Summarized
    <3>2. \A x \in Sessions : sess'[x].turns = sess[x].turns /\ sess'[x].state = sess[x].state
      BY <2>6, SummarizedEffect
    <3>3. \A x \in Sessions : Ch!Dead(x)' => Ch!Dead(x)
      BY <3>2, SameState
    <3> QED
      BY <3>1, <3>2, <3>3, ReadIsDead, ForgetsFrame
  <2>7. CASE Ch!ProbeFails \/ Ch!TurnsMark
    <3>1. \A s \in Sessions : job'[s] = job[s] \/ Requeued(s)
      BY <2>7, ProbeFailsEffect, TurnsMarkEffect
    <3>2. UNCHANGED <<sess, facts, clean>>
      BY <2>7 DEF Ch!ProbeFails, Ch!TurnsMark, Ch!storeVars
    <3>3. \A x \in Sessions : Ch!Dead(x)' => Ch!Dead(x)
      BY <3>2 DEF Ch!Dead
    <3> QED
      BY <3>1, <3>2, <3>3, ReadIsDead, ForgetsFrame
  <2>8. CASE Ch!SessionsMark
    <3>1. \A s \in Sessions : job'[s] = job[s] \/ Requeued(s)
      BY <2>8, SessionsMarkEffect
    <3>2. UNCHANGED <<facts, clean>>
      BY <2>8 DEF Ch!SessionsMark
    <3>3. \A s \in Sessions : sess'[s].state = sess[s].state /\ sess'[s].turns = sess[s].turns
      <4> SUFFICES ASSUME NEW s \in Sessions
                   PROVE  sess'[s].state = sess[s].state /\ sess'[s].turns = sess[s].turns
        OBVIOUS
      <4>1. sess[s] \in SessRows
        BY ShapeOf
      <4>2. sess'[s] = sess[s] \/ \E n : sess'[s] = [sess[s] EXCEPT !.embedded = n]
        BY <2>8, SessionsMarkEffect
      <4> QED
        BY <4>1, <4>2 DEF SessRows
    <3>4. \A x \in Sessions : Ch!Dead(x)' => Ch!Dead(x)
      BY <3>3, SameState
    <3> QED
      BY <3>1, <3>2, <3>3, <3>4, ReadIsDead, ForgetsFrame
  <2> QED
    BY <1>6, <2>1, <2>2, <2>3, <2>4, <2>5, <2>6, <2>7, <2>8 DEF Ch!WorkNext
<1> QED
  BY <1>1, <1>2, <1>3, <1>4, <1>5, <1>6, AgentForgets DEF Ch!Next

-----------------------------------------------------------------------------
(* The dead stay dead, and no search shows one.                              *)

LEMMA SessionsMarkStates ==
    ASSUME ShapeInv, Ch!SessionsMark, NEW s \in Sessions
    PROVE  /\ sess'[s].state = sess[s].state /\ sess'[s].rev = sess[s].rev
           /\ sess'[s].turns = sess[s].turns /\ sess'[s].title = sess[s].title
           /\ sess'[s].sum = sess[s].sum
<1>1. sess[s] \in SessRows
  BY ShapeOf
<1>2. sess'[s] = sess[s] \/ \E n : sess'[s] = [sess[s] EXCEPT !.embedded = n]
  BY SessionsMarkEffect
<1> QED
  BY <1>1, <1>2 DEF SessRows

LEMMA JobFinishStates ==
    ASSUME ShapeInv, JobsInv, Ch!JobFinish, NEW s \in Sessions
    PROVE  \/ sess'[s] = sess[s]
           \/ Ch!Dead(s) /\ Ch!Dead(s)' /\ sess'[s].state = "gone"
<1>1. CASE UNCHANGED <<job, sess, swept>>
  BY <1>1
<1>2. CASE ~UNCHANGED <<job, sess, swept>>
  <2>1. PICK x \in Sessions :
          /\ job[x].queued /\ sess'[x] = [sess[x] EXCEPT !.state = "gone"]
          /\ \A y \in Sessions : y # x => sess'[y] = sess[y]
    BY <1>2, JobFinishSteps
  <2>2. CASE s # x
    BY <2>1, <2>2
  <2>3. CASE s = x
    <3>1. sess[x] \in SessRows /\ Ch!Dead(x)
      BY <2>1, ShapeOf DEF JobsInv
    <3>2. sess'[x].state = "gone"
      BY <2>1, <3>1 DEF SessRows
    <3> QED
      BY <2>3, <3>1, <3>2 DEF Ch!Dead
  <2> QED
    BY <2>2, <2>3
<1> QED
  BY <1>1, <1>2

LEMMA CleanKeepsSess ==
    ASSUME Ch!CleanNext
    PROVE  Ch!JobFinish \/ UNCHANGED <<inst, rev, sess, turn, tomb, reader, search>>
<1>1. ASSUME NEW over, Ch!CleanBegin(over) PROVE UNCHANGED <<inst, rev, sess, turn, tomb, reader, search>>
  BY <1>1 DEF Ch!CleanBegin, Ch!storeVars
<1>2. ASSUME NEW j, NEW okV, NEW okA, NEW broke, NEW cut, Ch!JobCalls(j, okV, okA, broke, cut)
      PROVE  UNCHANGED <<inst, rev, sess, turn, tomb, reader, search>>
  BY <1>2 DEF Ch!JobCalls, Ch!storeVars
<1>3. ASSUME Ch!JobsCut \/ Ch!JobSave \/ Ch!SweepSave
      PROVE  UNCHANGED <<inst, rev, sess, turn, tomb, reader, search>>
  BY <1>3 DEF Ch!JobsCut, Ch!JobSave, Ch!SweepSave, Ch!storeVars
<1>4. ASSUME NEW old, NEW over, NEW due, Ch!SweepPlan(old, over, due)
      PROVE  UNCHANGED <<inst, rev, sess, turn, tomb, reader, search>>
  BY <1>4, Zenon DEF Ch!SweepPlan, Ch!storeVars
<1>5. ASSUME NEW ok, NEW bad, Ch!SweepCalls(ok, bad)
      PROVE  UNCHANGED <<inst, rev, sess, turn, tomb, reader, search>>
  BY <1>5 DEF Ch!SweepCalls, Ch!storeVars
<1> QED
  BY <1>1, <1>2, <1>3, <1>4, <1>5 DEF Ch!CleanNext

LEMMA DeadStays ==
    ASSUME ShapeInv, JobsInv, Ch!Next, NEW s \in Sessions, Ch!Dead(s)
    PROVE  Ch!Dead(s)'
<1>0. ASSUME sess'[s] = sess[s] PROVE Ch!Dead(s)'
  BY <1>0 DEF Ch!Dead
<1>1. CASE Ch!StoreNext
  <2>1. ASSUME NEW x \in Sessions, Ch!Resolve(x) PROVE Ch!Dead(s)'
    <3>1. sess[x].state = "none" /\ (x # s => sess'[s] = sess[s])
      BY <2>1, ShapeOf DEF Ch!Resolve, ShapeInv
    <3> QED
      BY <1>0, <3>1 DEF Ch!Dead
  <2>2. ASSUME NEW x \in Sessions, Ch!Update(x) PROVE Ch!Dead(s)'
    <3>1. sess'[s].state = sess[s].state
      BY <2>2, UpdateFields
    <3> QED
      BY <3>1, SameState
  <2>3. ASSUME NEW x \in Sessions, Ch!Delete(x) PROVE Ch!Dead(s)'
    <3>1. x # s /\ sess'[s] = sess[s]
      BY <2>3, DeleteStates, DeleteFields
    <3> QED
      BY <1>0, <3>1
  <2>4. ASSUME NEW x \in Sessions, NEW t \in Turns, Ch!Append(x, t) PROVE Ch!Dead(s)'
    <3>1. sess'[s].state = sess[s].state
      BY <2>4, AppendFields
    <3> QED
      BY <3>1, SameState
  <2> QED
    BY <1>1, <2>1, <2>2, <2>3, <2>4 DEF Ch!StoreNext
<1>2. CASE Ch!SyncNext \/ Ch!SearchNext
  <2>1. UNCHANGED sess
    BY <1>2, SyncPageEffect DEF Ch!SyncNext, Ch!SearchNext, Ch!SearchBegin, Ch!SearchAnswer, Ch!SearchReturn, Ch!storeVars
  <2> QED
    BY <1>0, <2>1
<1>3. ASSUME NEW d, Ch!LateLands(d) PROVE Ch!Dead(s)'
  BY <1>0, <1>3 DEF Ch!LateLands, Ch!storeVars
<1>4. CASE Ch!Crash
  BY <1>0, <1>4 DEF Ch!Crash, Ch!storeVars
<1>5. CASE Ch!CleanNext
  <2>1. CASE Ch!JobFinish
    BY <1>0, <2>1, JobFinishStates
  <2>2. CASE UNCHANGED sess
    BY <1>0, <2>2
  <2>3. Ch!JobFinish \/ UNCHANGED sess
    BY <1>5, CleanKeepsSess
  <2> QED
    BY <2>1, <2>2, <2>3
<1>6. CASE Ch!WorkNext
  <2>1. ASSUME NEW c, Ch!Summarized(c) PROVE Ch!Dead(s)'
    <3>1. sess'[s].state = sess[s].state
      BY <2>1, SummarizedEffect
    <3> QED
      BY <3>1, SameState
  <2>2. CASE Ch!SessionsMark
    BY <2>2, SessionsMarkStates, SameState
  <2>3. (\E c \in work.cands : Ch!Summarized(c)) \/ Ch!SessionsMark \/ UNCHANGED sess
    BY <1>6, Zenon DEF Ch!WorkNext, Ch!WorkBegin, Ch!SummaryFailed, Ch!TurnsRead, Ch!TurnsUpsertOk, Ch!TurnsUpsertMissing,
                Ch!TurnsUpsertFails, Ch!ProbeFails, Ch!DocByDoc, Ch!TurnsMark, Ch!SessionsRead, Ch!SessionsUpsertOk,
                Ch!SessionsUpsertFails, Ch!storeVars
  <2> QED
    BY <1>0, <2>1, <2>2, <2>3
<1>7. CASE Ch!AgentNext
  BY <1>0, <1>7, AgentEffect DEF Ch!storeVars
<1> QED
  BY <1>1, <1>2, <1>3, <1>4, <1>5, <1>6, <1>7 DEF Ch!Next

LEMMA SearchOf ==
    ASSUME ShapeInv
    PROVE  /\ search.pc \in {"idle", "filter", "answered"} /\ search.dead \subseteq Sessions
           /\ search.fts \subseteq Sessions /\ search.hits \subseteq Sessions
BY DEF ShapeInv, SearchStates

LEMMA NextSearch ==
    ASSUME ShapeInv, JobsInv, SearchInv, Ch!Next
    PROVE  SearchInv'
<1>1. \A s \in Sessions : Ch!Dead(s) => Ch!Dead(s)'
  BY DeadStays
<1>2. search.dead \subseteq Sessions
  BY SearchOf
<1>3. CASE search' = search
  BY <1>1, <1>2, <1>3 DEF SearchInv
<1>4. ASSUME NEW text, NEW answered, Ch!SearchBegin(text, answered) PROVE SearchInv'
  <2>1. search'.pc = "filter" /\ search'.dead = {s \in Sessions : Ch!Dead(s)}
        /\ search'.fts \subseteq {s \in Sessions : Ch!Live(s)}
    BY <1>4, SearchBeginEffect
  <2>2. \A s : ~(Ch!Live(s) /\ Ch!Dead(s))
    BY DEF Ch!Live, Ch!Dead
  <2> QED
    BY <1>1, <2>1, <2>2 DEF SearchInv
<1>5. CASE Ch!SearchAnswer
  <2>1. search'.pc = "answered" /\ search'.dead = search.dead
        /\ search'.hits \subseteq search.fts \cup {s \in Sessions : Ch!Live(s)} /\ search.pc = "filter"
    BY <1>5, SearchAnswerEffect DEF Ch!SearchAnswer
  <2>2. \A s : ~(Ch!Live(s) /\ Ch!Dead(s))
    BY DEF Ch!Live, Ch!Dead
  <2> QED
    BY <1>1, <1>2, <2>1, <2>2 DEF SearchInv
<1>6. CASE Ch!SearchReturn \/ Ch!Crash
  <2>1. search' = Ch!SearchIdle
    BY <1>6 DEF Ch!SearchReturn, Ch!Crash
  <2>2. Ch!SearchIdle.pc = "idle" /\ Ch!SearchIdle.dead = {}
    BY DEF Ch!SearchIdle
  <2> QED
    BY <2>1, <2>2 DEF SearchInv
<1>7. \/ search' = search \/ Ch!SearchAnswer \/ Ch!SearchReturn \/ Ch!Crash
      \/ \E text, answered \in BOOLEAN : Ch!SearchBegin(text, answered)
  <2>1. CASE Ch!StoreNext
    BY <2>1, Zenon DEF Ch!StoreNext, Ch!Resolve, Ch!Append, Ch!Update, Ch!Delete
  <2>2. CASE Ch!CleanNext
    BY <2>2, CleanKeepsSess DEF Ch!JobFinish
  <2>3. CASE Ch!WorkNext
    BY <2>3, Zenon DEF Ch!WorkNext, Ch!WorkBegin, Ch!Summarized, Ch!SummaryFailed, Ch!TurnsRead, Ch!TurnsUpsertOk,
                Ch!TurnsUpsertMissing, Ch!TurnsUpsertFails, Ch!ProbeFails, Ch!DocByDoc, Ch!TurnsMark,
                Ch!SessionsRead, Ch!SessionsUpsertOk, Ch!SessionsUpsertFails, Ch!SessionsMark
  <2>4. CASE Ch!SyncNext
    BY <2>4, SyncPageEffect DEF Ch!SyncNext
  <2>5. CASE \E d \in late : Ch!LateLands(d)
    BY <2>5 DEF Ch!LateLands
  <2>6. CASE Ch!SearchNext
    BY <2>6 DEF Ch!SearchNext
  <2>7. CASE Ch!AgentNext
    BY <2>7, AgentEffect
  <2> QED
    BY <2>1, <2>2, <2>3, <2>4, <2>5, <2>6, <2>7 DEF Ch!Next
<1> QED
  BY <1>3, <1>4, <1>5, <1>6, <1>7

-----------------------------------------------------------------------------
(* The least and the greatest of a set of revisions.                         *)

LEMMA LeastExists ==
    ASSUME NEW X, X \subseteq Nat, X # {}
    PROVE  \E x \in X : \A y \in X : x <= y
<1> DEFINE R == {p \in Nat \X Nat : p[1] < p[2]}
<1>1. IsWellFoundedOn(R, Nat)
  BY NatLessThanWellFounded DEF OpToRel
<1> HIDE DEF R
<1>2. PICK x \in X : \A y \in X : <<y, x>> \notin R
  BY <1>1, WFMin
<1> SUFFICES ASSUME NEW y \in X PROVE x <= y
  OBVIOUS
<1>3. x \in Nat /\ y \in Nat
  OBVIOUS
<1>4. y < x => <<y, x>> \in R
  BY <1>3 DEF R
<1>5. ~(y < x)
  BY <1>2, <1>4
<1> QED
  BY <1>3, <1>5

LEMMA GreatestExists ==
    ASSUME NEW X, X \subseteq Nat, X # {}, NEW n \in Nat, \A x \in X : x <= n
    PROVE  \E x \in X : \A y \in X : x >= y
<1> DEFINE Y == {n - x : x \in X}
<1>1. Y \subseteq Nat /\ Y # {}
  <2>1. \A x \in X : x \in Nat /\ n - x \in Nat
    OBVIOUS
  <2>2. PICK w : w \in X
    OBVIOUS
  <2>3. n - w \in Y
    BY <2>2
  <2> QED
    BY <2>1, <2>3
<1>2. PICK z \in Y : \A y \in Y : z <= y
  <2> HIDE DEF Y
  <2> QED
    BY <1>1, LeastExists
<1>3. PICK x \in X : z = n - x
  BY <1>2
<1>4. \A y \in X : n - y \in Y
  OBVIOUS
<1>5. \A y \in X : n - x <= n - y
  <2> HIDE DEF Y
  <2> QED
    BY <1>2, <1>3, <1>4
<1>6. \A y \in X : x >= y
  BY <1>5
<1> QED
  BY <1>6

LEMMA MinOf ==
    ASSUME NEW X, X \subseteq Nat, X # {}
    PROVE  Ch!Min(X) \in X /\ \A y \in X : Ch!Min(X) <= y
BY LeastExists DEF Ch!Min

LEMMA MaxOf ==
    ASSUME NEW X, X \subseteq Nat, X # {}, NEW n \in Nat, \A x \in X : x <= n
    PROVE  Ch!Max(X) \in X /\ \A y \in X : Ch!Max(X) >= y
BY GreatestExists DEF Ch!Max

-----------------------------------------------------------------------------
(* The copy of a client.                                                     *)

\* Two states agree on what is synced of a session, and of a turn.
SameBody(s) == /\ sess'[s].rev = sess[s].rev /\ sess'[s].turns = sess[s].turns
               /\ sess'[s].title = sess[s].title /\ sess'[s].sum = sess[s].sum
SameTurn(t) == /\ turn'[t].of = turn[t].of /\ turn'[t].seq = turn[t].seq
               /\ turn'[t].rev = turn[t].rev

LEMMA BodyKept ==
    ASSUME NEW s, SameBody(s)
    PROVE  Ch!SessionBody(s)' = Ch!SessionBody(s)
BY DEF SameBody, Ch!SessionBody

LEMMA TurnBodyKept ==
    ASSUME NEW t, SameTurn(t)
    PROVE  Ch!TurnBody(t)' = Ch!TurnBody(t)
BY DEF SameTurn, Ch!TurnBody

(* What is fetched: changes the client has not seen.                         *)
LEMMA FetchOf ==
    ASSUME ShapeInv, NEW lo \in Nat, NEW hi \in Nat, NEW c \in Ch!Fetch(lo, hi)
    PROVE  /\ c.rev \in Nat /\ lo < c.rev /\ c.rev <= hi
           /\ c.op \in {"session", "turn", "delete"}
           /\ c.op = "session" => c.id \in Sessions /\ Ch!Live(c.id) /\ c.rev = sess[c.id].rev
           /\ c.op = "turn" => c.id \in Ch!Rows /\ c.rev = turn[c.id].rev
           /\ c.op = "delete" => c.id \in Sessions /\ tomb[c.id] > 0 /\ c.rev = tomb[c.id]
<1>1. CASE \E s \in Sessions : /\ Ch!Live(s) /\ lo < sess[s].rev /\ sess[s].rev <= hi
                               /\ c = [rev |-> sess[s].rev, op |-> "session", id |-> s]
  <2>1. PICK s \in Sessions : /\ Ch!Live(s) /\ lo < sess[s].rev /\ sess[s].rev <= hi
                             /\ c = [rev |-> sess[s].rev, op |-> "session", id |-> s]
    BY <1>1
  <2>2. sess[s].rev \in Nat
    BY ShapeOf, SessRowFields
  <2>3. c.rev = sess[s].rev /\ c.op = "session" /\ c.id = s
    BY <2>1
  <2> QED
    BY <2>1, <2>2, <2>3
<1>2. CASE \E t \in Ch!Rows : /\ lo < turn[t].rev /\ turn[t].rev <= hi
                              /\ c = [rev |-> turn[t].rev, op |-> "turn", id |-> t]
  <2>1. \A t \in Ch!Rows : turn[t].rev \in Nat
    BY ShapeOf, TurnRowFields DEF Ch!Rows
  <2> QED
    BY <1>2, <2>1
<1>3. CASE \E s \in Sessions : /\ tomb[s] > 0 /\ lo < tomb[s] /\ tomb[s] <= hi
                               /\ c = [rev |-> tomb[s], op |-> "delete", id |-> s]
  BY <1>3, ShapeOf
<1>4. \/ \E s \in Sessions : /\ Ch!Live(s) /\ lo < sess[s].rev /\ sess[s].rev <= hi
                             /\ c = [rev |-> sess[s].rev, op |-> "session", id |-> s]
      \/ \E t \in Ch!Rows : /\ lo < turn[t].rev /\ turn[t].rev <= hi
                            /\ c = [rev |-> turn[t].rev, op |-> "turn", id |-> t]
      \/ \E s \in Sessions : /\ tomb[s] > 0 /\ lo < tomb[s] /\ tomb[s] <= hi
                             /\ c = [rev |-> tomb[s], op |-> "delete", id |-> s]
  <2> HIDE DEF Ch!Rows, Ch!Live
  <2> QED
    BY DEF Ch!Fetch
<1> QED
  BY <1>1, <1>2, <1>3, <1>4

LEMMA FetchHas ==
    ASSUME NEW lo, NEW hi
    PROVE  /\ \A s \in Sessions : Ch!Live(s) /\ lo < sess[s].rev /\ sess[s].rev <= hi =>
                [rev |-> sess[s].rev, op |-> "session", id |-> s] \in Ch!Fetch(lo, hi)
           /\ \A t \in Ch!Rows : lo < turn[t].rev /\ turn[t].rev <= hi =>
                [rev |-> turn[t].rev, op |-> "turn", id |-> t] \in Ch!Fetch(lo, hi)
           /\ \A s \in Sessions : tomb[s] > 0 /\ lo < tomb[s] /\ tomb[s] <= hi =>
                [rev |-> tomb[s], op |-> "delete", id |-> s] \in Ch!Fetch(lo, hi)
BY DEF Ch!Fetch

(* A page ends at the revision of one of its changes.                        *)
LEMMA LastRevOf ==
    ASSUME NEW all, all # {}, NEW n \in Nat, \A c \in all : c.rev \in Nat /\ c.rev <= n, NEW limit
    PROVE  \E c \in all : Ch!LastRev(all, limit) = c.rev
<1> DEFINE X == {e.rev : e \in all}
           far(d) == \/ Ch!Cardinality({e \in all : e.rev <= d.rev}) >= limit
                     \/ d.rev = Ch!Max(X)
           E == {d \in all : far(d)}
           Z == {c.rev : c \in E}
<1>1. X \subseteq Nat /\ X # {} /\ \A x \in X : x <= n
  OBVIOUS
<1>2. Ch!Max(X) \in X
  <2> HIDE DEF X
  <2> QED
    BY <1>1, MaxOf
<1>3. PICK d \in all : d.rev = Ch!Max(X)
  BY <1>2
<1>4. d \in E
  <2> HIDE DEF X
  <2> QED
    BY <1>3
<1>5. Z \subseteq Nat /\ Z # {}
  <2>1. E \subseteq all
    OBVIOUS
  <2> HIDE DEF E
  <2> QED
    BY <1>4, <2>1
<1>6. Ch!Min(Z) \in Z
  <2> HIDE DEF Z
  <2> QED
    BY <1>5, MinOf
<1>7. Ch!LastRev(all, limit) = Ch!Min(Z)
  BY DEF Ch!LastRev
<1>8. \E c \in E : Ch!Min(Z) = c.rev
  <2> HIDE DEF E, Ch!Min
  <2> QED
    BY <1>6
<1>9. E \subseteq all
  OBVIOUS
<1> HIDE DEF E, Z
<1> QED
  BY <1>7, <1>8, <1>9

(* A page of changes brings the copy from `since` to `last`.                 *)
\* What a client does with a page: sessions, then turns, then deletes.
PageStep(K, N, page, gone, upd, new) ==
  /\ gone = {d.id : d \in {x \in page : x.op = "delete"}}
  /\ upd = {d.id : d \in {x \in page : x.op = "session"}}
  /\ new = {Ch!TurnBody(d.id) : d \in {x \in page : x.op = "turn"}}
  /\ N.sess = [s \in (DOMAIN K.sess \cup upd) \ gone |->
                 IF s \in upd THEN Ch!SessionBody(s) ELSE K.sess[s]]
  /\ N.turns = {b \in K.turns \cup new : b.of \notin gone}

LEMMA PageApplied ==
    ASSUME ShapeInv, StoreInv, NEW K, NEW since \in Nat, NEW last \in Nat, since < last, last <= rev,
           CopyOf(K, since),
           NEW page, page = {c \in Ch!Fetch(since, rev) : c.rev <= last},
           NEW N, NEW gone, NEW upd, NEW new, PageStep(K, N, page, gone, upd, new)
    PROVE  CopyOf(N, last)
<1> USE DEF PageStep
<1>1. \A s \in Sessions : s \in gone <=> tomb[s] > since /\ tomb[s] <= last
  <2> SUFFICES ASSUME NEW s \in Sessions PROVE s \in gone <=> tomb[s] > since /\ tomb[s] <= last
    OBVIOUS
  <2>0. tomb[s] \in Nat /\ rev \in Nat
    BY ShapeOf
  <2>1. ASSUME s \in gone PROVE tomb[s] > since /\ tomb[s] <= last
    <3>1. PICK d \in page : d.op = "delete" /\ d.id = s
      BY <2>1
    <3>2. d \in Ch!Fetch(since, rev) /\ d.rev <= last
      OBVIOUS
    <3>3. d.rev = tomb[s] /\ since < d.rev
      BY <2>0, <3>1, <3>2, FetchOf
    <3> QED
      BY <2>0, <3>2, <3>3
  <2>2. ASSUME tomb[s] > since, tomb[s] <= last PROVE s \in gone
    <3> PICK d : d = [rev |-> tomb[s], op |-> "delete", id |-> s]
      OBVIOUS
    <3>1. tomb[s] > 0 /\ since < tomb[s] /\ tomb[s] <= rev
      BY <2>0, <2>2
    <3>2. d \in Ch!Fetch(since, rev)
      BY <3>1, FetchHas
    <3>3. d.rev <= last /\ d.op = "delete" /\ d.id = s
      BY <2>2
    <3> QED
      BY <3>2, <3>3
  <2> QED
    BY <2>1, <2>2
<1>2. \A s \in Sessions : s \in upd <=> Ch!Live(s) /\ sess[s].rev > since /\ sess[s].rev <= last
  <2> SUFFICES ASSUME NEW s \in Sessions
               PROVE  s \in upd <=> Ch!Live(s) /\ sess[s].rev > since /\ sess[s].rev <= last
    OBVIOUS
  <2>0. sess[s].rev \in Nat /\ rev \in Nat
    BY ShapeOf, SessRowFields
  <2>1. ASSUME s \in upd PROVE Ch!Live(s) /\ sess[s].rev > since /\ sess[s].rev <= last
    <3>1. PICK d \in page : d.op = "session" /\ d.id = s
      BY <2>1
    <3>2. d \in Ch!Fetch(since, rev) /\ d.rev <= last
      OBVIOUS
    <3>3. d.rev = sess[s].rev /\ since < d.rev /\ Ch!Live(s)
      BY <2>0, <3>1, <3>2, FetchOf
    <3> QED
      BY <2>0, <3>2, <3>3
  <2>2. ASSUME Ch!Live(s), sess[s].rev > since, sess[s].rev <= last PROVE s \in upd
    <3> PICK d : d = [rev |-> sess[s].rev, op |-> "session", id |-> s]
      OBVIOUS
    <3>1. since < sess[s].rev /\ sess[s].rev <= rev
      BY <2>0, <2>2
    <3>2. d \in Ch!Fetch(since, rev)
      BY <2>2, <3>1, FetchHas
    <3>3. d.rev <= last /\ d.op = "session" /\ d.id = s
      BY <2>2
    <3> QED
      BY <3>2, <3>3
  <2> QED
    BY <2>1, <2>2
<1>3. \A b \in new : b.id \in Ch!Rows /\ b = Ch!TurnBody(b.id)
  <2> SUFFICES ASSUME NEW d \in page, d.op = "turn" PROVE d.id \in Ch!Rows /\ Ch!TurnBody(d.id).id = d.id
    OBVIOUS
  <2>1. d.id \in Ch!Rows
    BY ShapeOf, FetchOf
  <2> QED
    BY <2>1 DEF Ch!TurnBody
<1>4. \A t \in Ch!Rows : turn[t].rev > since /\ turn[t].rev <= last => Ch!TurnBody(t) \in new
  <2> SUFFICES ASSUME NEW t \in Ch!Rows, turn[t].rev > since, turn[t].rev <= last
               PROVE  Ch!TurnBody(t) \in new
    OBVIOUS
  <2>0. turn[t].rev \in Nat /\ rev \in Nat
    BY ShapeOf, TurnRowFields DEF Ch!Rows
  <2> PICK d : d = [rev |-> turn[t].rev, op |-> "turn", id |-> t]
    OBVIOUS
  <2>1. since < turn[t].rev /\ turn[t].rev <= rev
    BY <2>0
  <2>2. d \in Ch!Fetch(since, rev)
    BY <2>1, FetchHas
  <2>3. d.rev <= last /\ d.op = "turn" /\ d.id = t
    OBVIOUS
  <2> QED
    BY <2>2, <2>3
<1>5. DOMAIN N.sess = (DOMAIN K.sess \cup upd) \ gone
  OBVIOUS
<1>6. upd \subseteq Sessions
  <2> SUFFICES ASSUME NEW d \in page, d.op = "session" PROVE d.id \in Sessions
    OBVIOUS
  <2> QED
    BY ShapeOf, FetchOf
<1>7. \A s \in Sessions : tomb[s] \in Nat /\ sess[s].rev \in Nat /\ (tomb[s] > 0 <=> Ch!Dead(s))
  BY ShapeOf, SessRowFields DEF StoreInv, SessOk
<1>8. \A s \in Sessions : Ch!Live(s) => s \notin gone
  BY <1>1, <1>7 DEF Ch!Live, Ch!Dead
<1>9. \A s \in Sessions, x \in Nat : ~(tomb[s] > x) => tomb[s] <= x
  BY <1>7
<1>10. ASSUME NEW s \in DOMAIN N.sess
       PROVE  s \in Sessions /\ (Ch!Live(s) \/ tomb[s] > last)
  <2>1. s \in Sessions /\ (Ch!Live(s) \/ tomb[s] > since) /\ s \notin gone
    BY <1>2, <1>5, <1>6 DEF CopyOf
  <2> QED
    BY <1>1, <1>9, <2>1
<1>11. ASSUME NEW s \in Sessions, Ch!Live(s), sess[s].rev <= last
       PROVE  s \in DOMAIN N.sess /\ N.sess[s] = Ch!SessionBody(s)
  <2>1. CASE sess[s].rev <= since
    <3>1. s \in DOMAIN K.sess /\ K.sess[s] = Ch!SessionBody(s) /\ s \notin gone
      BY <1>8, <1>11, <2>1 DEF CopyOf
    <3> QED
      BY <1>5, <3>1
  <2>2. CASE sess[s].rev > since
    <3>1. s \in upd /\ s \notin gone
      BY <1>2, <1>8, <1>11, <2>2
    <3> QED
      BY <1>5, <3>1
  <2> QED
    BY <1>7, <2>1, <2>2
<1>12. ASSUME NEW b \in N.turns
       PROVE  \/ b.id \in Ch!Rows /\ b = Ch!TurnBody(b.id)
              \/ b.of \in Sessions /\ tomb[b.of] > last
  <2>1. (b \in K.turns \/ b \in new) /\ b.of \notin gone
    OBVIOUS
  <2>2. CASE b \in new
    BY <1>3, <2>2
  <2>3. CASE b \in K.turns
    BY <1>1, <1>9, <2>1, <2>3 DEF CopyOf
  <2> QED
    BY <2>1, <2>2, <2>3
<1>13. ASSUME NEW t \in Ch!Rows, turn[t].rev <= last
       PROVE  Ch!TurnBody(t) \in N.turns
  <2>1. Ch!TurnBody(t).of = turn[t].of /\ turn[t].of \in Sessions /\ Ch!Live(turn[t].of)
    BY DEF Ch!TurnBody, Ch!Rows, StoreInv, TurnOk
  <2>2. Ch!TurnBody(t).of \notin gone
    BY <1>8, <2>1
  <2>3. turn[t].rev \in Nat
    BY ShapeOf, TurnRowFields DEF Ch!Rows
  <2>4. Ch!TurnBody(t) \in K.turns \cup new
    BY <1>4, <1>13, <2>3 DEF CopyOf
  <2> QED
    BY <2>2, <2>4
<1> QED
  BY <1>10, <1>11, <1>12, <1>13 DEF CopyOf

LEMMA ClientOf ==
    ASSUME CopyInv
    PROVE  /\ reader.cursor \in Nat /\ reader.cursor <= rev
           /\ reader = [cursor |-> reader.cursor, sess |-> reader.sess, turns |-> reader.turns,
                        rest |-> reader.rest]
           /\ reader.sess = [s \in DOMAIN reader.sess |-> reader.sess[s]]
           /\ CopyOf(reader, reader.cursor)
BY DEF CopyInv

LEMMA RowsKept ==
    ASSUME \A t \in Turns : SameTurn(t)
    PROVE  Ch!Rows' = Ch!Rows /\ \A t \in Turns : Ch!TurnBody(t)' = Ch!TurnBody(t)
BY DEF SameTurn, Ch!Rows, Ch!TurnBody

(* Steps that move nothing that is synced.                                   *)
LEMMA CopyQuiet ==
    ASSUME CopyInv, UNCHANGED <<reader, rev, tomb>>,
           \A s \in Sessions : Ch!Live(s)' <=> Ch!Live(s),
           \A s \in Sessions : Ch!Live(s) => SameBody(s),
           \A t \in Turns : SameTurn(t)
    PROVE  CopyInv'
<1>1. /\ reader.cursor \in Nat /\ reader.cursor <= rev
      /\ reader = [cursor |-> reader.cursor, sess |-> reader.sess, turns |-> reader.turns,
                   rest |-> reader.rest]
      /\ reader.sess = [s \in DOMAIN reader.sess |-> reader.sess[s]]
      /\ CopyOf(reader, reader.cursor) /\ (reader.rest => Ch!Fetch(reader.cursor, rev) = {})
  BY DEF CopyInv
<1> PICK K : K = reader
  OBVIOUS
<1> PICK c : c = reader.cursor
  OBVIOUS
<1>2. \A s \in Sessions : Ch!Live(s) => Ch!SessionBody(s)' = Ch!SessionBody(s)
  BY BodyKept
<1>3. Ch!Rows' = Ch!Rows /\ \A t \in Ch!Rows : Ch!TurnBody(t)' = Ch!TurnBody(t) /\ turn'[t].rev = turn[t].rev
  BY RowsKept DEF SameTurn, Ch!Rows
<1>4. \A s \in Sessions : Ch!Live(s) => sess'[s].rev = sess[s].rev
  BY DEF SameBody
<1>5. /\ \A s \in DOMAIN K.sess : s \in Sessions /\ (Ch!Live(s)' \/ tomb'[s] > c)
      /\ \A s \in Sessions : Ch!Live(s)' /\ sess'[s].rev <= c =>
           s \in DOMAIN K.sess /\ K.sess[s] = Ch!SessionBody(s)'
      /\ \A b \in K.turns :
           \/ b.id \in Ch!Rows' /\ b = Ch!TurnBody(b.id)'
           \/ b.of \in Sessions /\ tomb'[b.of] > c
      /\ \A t \in Ch!Rows' : turn'[t].rev <= c => Ch!TurnBody(t)' \in K.turns
  <2> HIDE DEF Ch!Live, Ch!SessionBody, Ch!Rows, Ch!TurnBody
  <2>1. CopyOf(K, c)
    BY <1>1
  <2> QED
    BY <1>2, <1>3, <1>4, <2>1 DEF CopyOf
<1>6. Ch!Fetch(reader.cursor, rev)' = Ch!Fetch(reader.cursor, rev)
  <2>1. {x \in Sessions : Ch!Live(x)' /\ c < sess'[x].rev /\ sess'[x].rev <= rev} =
        {x \in Sessions : Ch!Live(x) /\ c < sess[x].rev /\ sess[x].rev <= rev}
    BY <1>4
  <2>2. {x \in Ch!Rows' : c < turn'[x].rev /\ turn'[x].rev <= rev} =
        {x \in Ch!Rows : c < turn[x].rev /\ turn[x].rev <= rev}
    BY <1>3
  <2>3. ASSUME NEW x, Ch!Live(x), x \in Sessions
        PROVE  [rev |-> sess'[x].rev, op |-> "session", id |-> x] =
               [rev |-> sess[x].rev, op |-> "session", id |-> x]
    BY <1>4, <2>3
  <2>4. ASSUME NEW x \in Ch!Rows
        PROVE  [rev |-> turn'[x].rev, op |-> "turn", id |-> x] =
               [rev |-> turn[x].rev, op |-> "turn", id |-> x]
    BY <1>3
  <2>5. \A y : y \in Ch!Fetch(reader.cursor, rev)' <=> y \in Ch!Fetch(reader.cursor, rev)
    <3> HIDE DEF Ch!Live, Ch!Rows
    <3> QED
      BY <1>3, <1>4 DEF Ch!Fetch
  <2> QED
    BY <2>5
<1>7. CopyOf(reader, reader.cursor)'
  <2> HIDE DEF Ch!Live, Ch!SessionBody, Ch!Rows, Ch!TurnBody
  <2> QED
    BY <1>5 DEF CopyOf
<1> QED
  BY <1>1, <1>6, <1>7 DEF CopyInv

(* Steps of session s that take a revision: all they change is above it.     *)
LEMMA CopyMoved ==
    ASSUME Ch!BoundsAssumption, ShapeInv, StoreInv, CopyInv, NEW s \in Sessions,
           reader' = [reader EXCEPT !.rest = FALSE], rev' = rev + 1,
           \A x \in Sessions : x # s => /\ (Ch!Live(x)' <=> Ch!Live(x)) /\ SameBody(x)
                                        /\ tomb'[x] = tomb[x],
           sess'[s].rev = rev + 1,
           (Ch!Live(s)' /\ tomb'[s] = tomb[s]) \/ tomb'[s] = rev + 1,
           \A t \in Turns : \/ SameTurn(t)
                            \/ turn[t].of \notin Sessions /\ turn'[t].rev = rev + 1
                            \/ /\ turn[t].of = s /\ turn'[t].of \notin Sessions
                               /\ tomb'[s] = rev + 1
    PROVE  CopyInv'
<1>1. /\ reader.cursor \in Nat /\ reader.cursor <= rev
      /\ reader = [cursor |-> reader.cursor, sess |-> reader.sess, turns |-> reader.turns,
                   rest |-> reader.rest]
      /\ reader.sess = [x \in DOMAIN reader.sess |-> reader.sess[x]]
      /\ CopyOf(reader, reader.cursor)
  BY DEF CopyInv
<1> PICK K : K = reader
  OBVIOUS
<1> PICK c \in Nat : c = reader.cursor
  BY <1>1
<1>2. rev \in Nat /\ rev + 1 > c /\ rev + 1 \in Nat
  BY <1>1, NextCounts, ShapeOf
<1>3. CopyOf(K, c)
  BY <1>1
<1>4. /\ reader'.cursor = c /\ reader'.sess = K.sess /\ reader'.turns = K.turns
      /\ reader'.rest = FALSE
      /\ reader' = [cursor |-> reader'.cursor, sess |-> reader'.sess, turns |-> reader'.turns,
                    rest |-> reader'.rest]
  BY <1>1
<1>5. \A x \in Sessions : x # s => Ch!SessionBody(x)' = Ch!SessionBody(x) /\ sess'[x].rev = sess[x].rev
  BY BodyKept DEF SameBody
<1>6. \A x \in Sessions : tomb[x] \in Nat /\ (tomb[x] > c => tomb'[x] > c)
  BY <1>2, ShapeOf
<1>7. ASSUME NEW x \in DOMAIN K.sess
      PROVE  x \in Sessions /\ (Ch!Live(x)' \/ tomb'[x] > c)
  BY <1>2, <1>3, <1>6 DEF CopyOf
<1>8. ASSUME NEW x \in Sessions, Ch!Live(x)', sess'[x].rev <= c
      PROVE  x \in DOMAIN K.sess /\ K.sess[x] = Ch!SessionBody(x)'
  <2>1. x # s
    BY <1>2, <1>8
  <2>2. Ch!Live(x) /\ sess[x].rev <= c /\ Ch!SessionBody(x)' = Ch!SessionBody(x)
    BY <1>5, <1>8, <2>1
  <2> QED
    BY <1>3, <2>2 DEF CopyOf
<1>9. ASSUME NEW b \in K.turns
      PROVE  \/ b.id \in Ch!Rows' /\ b = Ch!TurnBody(b.id)'
             \/ b.of \in Sessions /\ tomb'[b.of] > c
  <2>1. CASE b.of \in Sessions /\ tomb[b.of] > c
    BY <1>6, <2>1
  <2>2. CASE b.id \in Ch!Rows /\ b = Ch!TurnBody(b.id)
    <3>1. b.id \in Turns /\ turn[b.id].of \in Sessions /\ b.of = turn[b.id].of
      BY <2>2 DEF Ch!Rows, Ch!TurnBody
    <3>2. CASE SameTurn(b.id)
      <4>1. turn'[b.id].of \in Sessions
        BY <3>1, <3>2 DEF SameTurn
      <4>2. Ch!TurnBody(b.id)' = Ch!TurnBody(b.id)
        BY <3>2 DEF SameTurn, Ch!TurnBody
      <4>3. b.id \in Ch!Rows'
        BY <3>1, <4>1 DEF Ch!Rows
      <4> QED
        BY <2>2, <4>2, <4>3
    <3>3. CASE turn[b.id].of = s /\ tomb'[s] = rev + 1
      BY <1>2, <3>1, <3>3
    <3> QED
      BY <3>1, <3>2, <3>3
  <2> QED
    BY <1>3, <2>1, <2>2 DEF CopyOf
<1>10. ASSUME NEW t \in Ch!Rows', turn'[t].rev <= c
       PROVE  Ch!TurnBody(t)' \in K.turns
  <2>1. t \in Turns /\ turn'[t].of \in Sessions
    BY DEF Ch!Rows
  <2>2. SameTurn(t)
    BY <1>2, <1>10, <2>1
  <2>3. t \in Ch!Rows /\ turn[t].rev <= c /\ Ch!TurnBody(t)' = Ch!TurnBody(t)
    BY <1>10, <2>1, <2>2 DEF SameTurn, Ch!Rows, Ch!TurnBody
  <2> QED
    BY <1>3, <2>3 DEF CopyOf
<1>11. CopyOf(reader, reader.cursor)'
  <2> HIDE DEF Ch!Live, Ch!SessionBody, Ch!Rows, Ch!TurnBody
  <2> QED
    BY <1>4, <1>7, <1>8, <1>9, <1>10 DEF CopyOf
<1>12. reader'.cursor \in Nat /\ reader'.cursor <= rev'
  BY <1>1, <1>2, <1>4
<1>13. reader'.sess = [x \in DOMAIN reader'.sess |-> reader'.sess[x]]
  BY <1>1, <1>4
<1> QED
  BY <1>4, <1>11, <1>12, <1>13 DEF CopyInv

(* A copy is what it holds, wherever its cursor is kept.                     *)
LEMMA CopySame ==
    ASSUME NEW K, NEW N, NEW c, CopyOf(K, c), N.sess = K.sess, N.turns = K.turns
    PROVE  CopyOf(N, c)
<1> HIDE DEF Ch!Live, Ch!SessionBody, Ch!TurnBody, Ch!Rows
<1> QED
  BY DEF CopyOf

LEMMA CopyWritten ==
    ASSUME NEW r, r = [cursor |-> r.cursor, sess |-> r.sess, turns |-> r.turns, rest |-> r.rest],
           NEW S, NEW T
    PROVE  [r EXCEPT !.sess = S, !.turns = T] =
             [cursor |-> r.cursor, sess |-> S, turns |-> T, rest |-> r.rest]
<1> PICK x : x = [r EXCEPT !.sess = S, !.turns = T]
  OBVIOUS
<1>1. x.cursor = r.cursor /\ x.sess = S /\ x.turns = T /\ x.rest = r.rest
  OBVIOUS
<1>2. x = [cursor |-> x.cursor, sess |-> x.sess, turns |-> x.turns, rest |-> x.rest]
  OBVIOUS
<1> QED
  BY <1>1, <1>2

LEMMA CopyAdvanced ==
    ASSUME NEW r, r = [cursor |-> r.cursor, sess |-> r.sess, turns |-> r.turns, rest |-> r.rest],
           NEW n, NEW q
    PROVE  [r EXCEPT !.cursor = n, !.rest = q] =
             [cursor |-> n, sess |-> r.sess, turns |-> r.turns, rest |-> q]
<1> PICK x : x = [r EXCEPT !.cursor = n, !.rest = q]
  OBVIOUS
<1>1. x.cursor = n /\ x.sess = r.sess /\ x.turns = r.turns /\ x.rest = q
  OBVIOUS
<1>2. x = [cursor |-> x.cursor, sess |-> x.sess, turns |-> x.turns, rest |-> x.rest]
  OBVIOUS
<1> QED
  BY <1>1, <1>2

LEMMA CopyRests ==
    ASSUME NEW r, r = [cursor |-> r.cursor, sess |-> r.sess, turns |-> r.turns, rest |-> r.rest]
    PROVE  [r EXCEPT !.rest = TRUE] =
             [cursor |-> r.cursor, sess |-> r.sess, turns |-> r.turns, rest |-> TRUE]
<1> PICK x : x = [r EXCEPT !.rest = TRUE]
  OBVIOUS
<1>1. x.cursor = r.cursor /\ x.sess = r.sess /\ x.turns = r.turns /\ x.rest = TRUE
  OBVIOUS
<1>2. x = [cursor |-> x.cursor, sess |-> x.sess, turns |-> x.turns, rest |-> x.rest]
  OBVIOUS
<1> QED
  BY <1>1, <1>2

LEMMA AppliedOf ==
    ASSUME CopyInv, NEW page, NEW N, N = Ch!Applied(reader, page)
    PROVE  \E gone, upd, new :
             /\ PageStep(reader, N, page, gone, upd, new)
             /\ N = [cursor |-> reader.cursor, sess |-> N.sess, turns |-> N.turns,
                     rest |-> reader.rest]
<1> PICK c : c = reader
  OBVIOUS
<1> PICK gone : gone = {d.id : d \in {x \in page : x.op = "delete"}}
  OBVIOUS
<1> PICK upd : upd = {d.id : d \in {x \in page : x.op = "session"}}
  OBVIOUS
<1> PICK new : new = {Ch!TurnBody(d.id) : d \in {x \in page : x.op = "turn"}}
  OBVIOUS
<1>1. c = [cursor |-> c.cursor, sess |-> c.sess, turns |-> c.turns, rest |-> c.rest]
  BY DEF CopyInv
<1>2. Ch!Applied(c, page) =
        [c EXCEPT !.sess = [s \in (DOMAIN c.sess \cup upd) \ gone |->
                              IF s \in upd THEN Ch!SessionBody(s) ELSE c.sess[s]],
                  !.turns = {b \in c.turns \cup new : b.of \notin gone}]
  BY DEF Ch!Applied
<1>3. PICK S : S = [s \in (DOMAIN c.sess \cup upd) \ gone |->
                      IF s \in upd THEN Ch!SessionBody(s) ELSE c.sess[s]]
  OBVIOUS
<1>4. PICK T : T = {b \in c.turns \cup new : b.of \notin gone}
  OBVIOUS
<1>5. N = [c EXCEPT !.sess = S, !.turns = T]
  BY <1>2, <1>3, <1>4
<1>6. N = [cursor |-> c.cursor, sess |-> S, turns |-> T, rest |-> c.rest]
  BY <1>1, <1>5, CopyWritten
<1>7. N.sess = S /\ N.turns = T
  BY <1>6
<1>8. PageStep(c, N, page, gone, upd, new)
  BY <1>3, <1>4, <1>7 DEF PageStep
<1> QED
  BY <1>6, <1>7, <1>8

(* A round trip: the page holds every change of each revision it reaches.    *)
LEMMA SyncPageCopy ==
    ASSUME ShapeInv, StoreInv, CopyInv, NEW limit, Ch!SyncPage(limit)
    PROVE  CopyInv'
<1>1. UNCHANGED <<rev, sess, turn, tomb>>
  BY DEF Ch!SyncPage, Ch!storeVars
<1>2. /\ reader.cursor \in Nat /\ reader.cursor <= rev /\ rev \in Nat
      /\ reader = [cursor |-> reader.cursor, sess |-> reader.sess, turns |-> reader.turns,
                   rest |-> reader.rest]
      /\ reader.sess = [x \in DOMAIN reader.sess |-> reader.sess[x]]
      /\ CopyOf(reader, reader.cursor)
  BY ShapeOf DEF CopyInv
<1> PICK since \in Nat : since = reader.cursor
  BY <1>2
<1> PICK all : all = Ch!Fetch(since, rev)
  OBVIOUS
<1>3. \A s : (Ch!Live(s)' <=> Ch!Live(s)) /\ Ch!SessionBody(s)' = Ch!SessionBody(s) /\ Ch!TurnBody(s)' = Ch!TurnBody(s)
  BY <1>1 DEF Ch!Live, Ch!SessionBody, Ch!TurnBody
<1>4. Ch!Rows' = Ch!Rows
  BY <1>1 DEF Ch!Rows
<1>5. ASSUME NEW N, NEW c, reader' = N, c = N.cursor, CopyOf(N, c)
      PROVE  CopyOf(reader, reader.cursor)'
  <2> HIDE DEF Ch!Live, Ch!SessionBody, Ch!TurnBody, Ch!Rows
  <2> QED
    BY <1>1, <1>3, <1>4, <1>5 DEF CopyOf
<1>6. CASE all = {}
  <2>1. reader' = [reader EXCEPT !.rest = TRUE]
    BY <1>6 DEF Ch!SyncPage
  <2>2. PICK N : N = [cursor |-> since, sess |-> reader.sess, turns |-> reader.turns, rest |-> TRUE]
    OBVIOUS
  <2>3. reader' = N
    BY <1>2, <2>1, <2>2, CopyRests
  <2>4. CopyOf(N, since)
    BY <1>2, <2>2, CopySame
  <2>5. CopyOf(reader, reader.cursor)'
    BY <1>5, <2>2, <2>3, <2>4
  <2>6. Ch!Fetch(reader.cursor, rev)' = {}
    <3>1. reader'.cursor = since /\ rev' = rev
      BY <1>1, <2>2, <2>3
    <3>2. Ch!Fetch(reader.cursor, rev)' = Ch!Fetch(since, rev)
      <4> HIDE DEF Ch!Live, Ch!Rows
      <4> QED
        BY <1>1, <1>3, <1>4, <3>1 DEF Ch!Fetch
    <3> QED
      BY <1>6, <3>2
  <2>7. /\ reader'.cursor = since
        /\ reader' = [cursor |-> reader'.cursor, sess |-> reader'.sess, turns |-> reader'.turns,
                      rest |-> reader'.rest]
        /\ reader'.sess = [x \in DOMAIN reader'.sess |-> reader'.sess[x]]
    BY <1>2, <2>2, <2>3
  <2> HIDE DEF CopyOf, Ch!Fetch
  <2> QED
    BY <1>1, <1>2, <2>5, <2>6, <2>7 DEF CopyInv
<1>7. CASE all # {}
  <2>1. PICK last : last = Ch!LastRev(all, limit)
    OBVIOUS
  <2>2. \A c \in all : c.rev \in Nat /\ since < c.rev /\ c.rev <= rev
    BY <1>2, FetchOf
  <2>3. last \in Nat /\ since < last /\ last <= rev
    BY <1>2, <1>7, <2>1, <2>2, LastRevOf
  <2>4. PICK page : page = {c \in Ch!Fetch(since, rev) : c.rev <= last}
    OBVIOUS
  <2>5. Ch!PageOf(reader.cursor, limit) = page
    BY <2>1, <2>4 DEF Ch!PageOf
  <2>6. PICK q : q = (Ch!Fetch(last, rev) = {})
    OBVIOUS
  <2>7. reader' = [Ch!Applied(reader, page) EXCEPT !.cursor = last, !.rest = q]
    BY <1>7, <2>1, <2>5, <2>6 DEF Ch!SyncPage
  <2>8. PICK A : A = Ch!Applied(reader, page)
    OBVIOUS
  <2>9. PICK gone, upd, new :
          /\ PageStep(reader, A, page, gone, upd, new)
          /\ A = [cursor |-> reader.cursor, sess |-> A.sess, turns |-> A.turns,
                  rest |-> reader.rest]
    BY <2>8, AppliedOf
  <2>10. PICK N : N = [cursor |-> last, sess |-> A.sess, turns |-> A.turns, rest |-> q]
    OBVIOUS
  <2>15. reader' = N
    <3>1. reader' = [A EXCEPT !.cursor = last, !.rest = q]
      BY <2>7, <2>8
    <3>2. A = [cursor |-> A.cursor, sess |-> A.sess, turns |-> A.turns, rest |-> A.rest]
      BY <2>9
    <3>3. [A EXCEPT !.cursor = last, !.rest = q] =
            [cursor |-> last, sess |-> A.sess, turns |-> A.turns, rest |-> q]
      BY <3>2, CopyAdvanced
    <3> QED
      BY <2>10, <3>1, <3>3
  <2>16. N.cursor = last /\ N.sess = A.sess /\ N.turns = A.turns /\ N.rest = q
    BY <2>10
  <2>17. CopyOf(N, last)
    <3>1. PICK K : K = reader
      OBVIOUS
    <3>2. CopyOf(K, since)
      BY <1>2, <3>1
    <3>3. PageStep(K, A, page, gone, upd, new)
      BY <2>9, <3>1
    <3>4. CopyOf(A, last)
      BY <2>3, <2>4, <3>2, <3>3, PageApplied
    <3> QED
      BY <2>16, <3>4, CopySame
  <2>18. CopyOf(reader, reader.cursor)'
    BY <1>5, <2>15, <2>16, <2>17
  <2>19. reader'.rest => Ch!Fetch(reader.cursor, rev)' = {}
    <3>1. reader'.cursor = last /\ rev' = rev /\ reader'.rest = q
      BY <1>1, <2>15, <2>16
    <3>2. Ch!Fetch(reader.cursor, rev)' = Ch!Fetch(last, rev)
      <4> HIDE DEF Ch!Live, Ch!Rows
      <4> QED
        BY <1>1, <1>3, <1>4, <3>1 DEF Ch!Fetch
    <3> QED
      BY <2>6, <3>1, <3>2
  <2>20. /\ reader'.cursor = last
         /\ reader' = [cursor |-> reader'.cursor, sess |-> reader'.sess, turns |-> reader'.turns,
                       rest |-> reader'.rest]
    BY <2>10, <2>15
  <2>21. reader'.sess = [x \in DOMAIN reader'.sess |-> reader'.sess[x]]
    <3>1. A.sess = [x \in DOMAIN A.sess |-> A.sess[x]]
      BY <2>9 DEF PageStep
    <3> QED
      BY <2>15, <2>16, <3>1
  <2> HIDE DEF CopyOf, Ch!Fetch
  <2> QED
    BY <1>1, <2>3, <2>18, <2>19, <2>20, <2>21 DEF CopyInv
<1> QED
  BY <1>6, <1>7

(* The steps that take a revision, and those that change nothing synced.     *)
LEMMA SameRow ==
    ASSUME NEW x, sess'[x] = sess[x]
    PROVE  (Ch!Live(x)' <=> Ch!Live(x)) /\ SameBody(x)
BY DEF Ch!Live, SameBody

LEMMA ResolveCopy ==
    ASSUME Ch!BoundsAssumption, ShapeInv, StoreInv, CopyInv, NEW s \in Sessions, Ch!Resolve(s)
    PROVE  CopyInv'
<1>1. reader' = [reader EXCEPT !.rest = FALSE] /\ rev' = rev + 1 /\ UNCHANGED <<turn, tomb>>
  BY DEF Ch!Resolve, Ch!Bump
<1>2. \A x \in Sessions : x # s => sess'[x] = sess[x]
  BY ResolveEffect
<1>3. sess'[s].rev = rev + 1 /\ Ch!Live(s)'
  BY ResolveFields DEF Ch!Live
<1>4. \A t \in Turns : SameTurn(t)
  BY <1>1 DEF SameTurn
<1>5. \A x \in Sessions : x # s => (Ch!Live(x)' <=> Ch!Live(x)) /\ SameBody(x) /\ tomb'[x] = tomb[x]
  BY <1>1, <1>2, SameRow
<1> HIDE DEF Ch!Live, Ch!Resolve
<1> QED
  BY <1>1, <1>3, <1>4, <1>5, CopyMoved

LEMMA AppendCopy ==
    ASSUME Ch!BoundsAssumption, ShapeInv, StoreInv, CopyInv, NEW s \in Sessions, NEW u \in Turns,
           Ch!Append(s, u)
    PROVE  CopyInv'
<1>1. /\ reader' = [reader EXCEPT !.rest = FALSE] /\ rev' = rev + 1 /\ tomb' = tomb
      /\ Ch!Live(s) /\ turn[u] = Ch!NoTurn
  BY DEF Ch!Append, Ch!Bump
<1>2. /\ \A x \in Sessions : x # s => sess'[x] = sess[x]
      /\ sess'[s].rev = rev + 1 /\ sess'[s].state = sess[s].state
      /\ turn'[u].rev = rev + 1 /\ \A t \in Turns : t # u => turn'[t] = turn[t]
  BY AppendFields
<1>3. Ch!Live(s)'
  BY <1>1, <1>2 DEF Ch!Live
<1>4. turn[u].of \notin Sessions
  BY <1>1 DEF Ch!NoTurn, Ch!BoundsAssumption
<1>5. \A t \in Turns : SameTurn(t) \/ (turn[t].of \notin Sessions /\ turn'[t].rev = rev + 1)
  BY <1>2, <1>4 DEF SameTurn
<1>6. \A x \in Sessions : x # s => (Ch!Live(x)' <=> Ch!Live(x)) /\ SameBody(x) /\ tomb'[x] = tomb[x]
  BY <1>1, <1>2, SameRow
<1> QED
  BY <1>1, <1>2, <1>3, <1>5, <1>6, CopyMoved

LEMMA UpdateCopy ==
    ASSUME Ch!BoundsAssumption, ShapeInv, StoreInv, CopyInv, NEW s \in Sessions, Ch!Update(s)
    PROVE  CopyInv'
<1>1. /\ reader' = [reader EXCEPT !.rest = FALSE] /\ rev' = rev + 1 /\ UNCHANGED <<turn, tomb>>
      /\ Ch!Live(s)
  BY DEF Ch!Update, Ch!Bump
<1>2. /\ \A x \in Sessions : x # s => sess'[x] = sess[x]
      /\ sess'[s].rev = rev + 1 /\ sess'[s].state = sess[s].state
  BY UpdateFields
<1>3. Ch!Live(s)'
  BY <1>1, <1>2 DEF Ch!Live
<1>4. \A t \in Turns : SameTurn(t)
  BY <1>1 DEF SameTurn
<1>5. \A x \in Sessions : x # s => (Ch!Live(x)' <=> Ch!Live(x)) /\ SameBody(x) /\ tomb'[x] = tomb[x]
  BY <1>1, <1>2, SameRow
<1> QED
  BY <1>1, <1>2, <1>3, <1>4, <1>5, CopyMoved

LEMMA DeleteCopy ==
    ASSUME Ch!BoundsAssumption, ShapeInv, StoreInv, CopyInv, NEW s \in Sessions, Ch!Delete(s)
    PROVE  CopyInv'
<1>1. reader' = [reader EXCEPT !.rest = FALSE] /\ rev' = rev + 1
  BY DEF Ch!Delete, Ch!Bump
<1>2. /\ \A x \in Sessions : x # s => sess'[x] = sess[x] /\ tomb'[x] = tomb[x]
      /\ sess'[s].rev = rev + 1 /\ tomb'[s] = rev + 1
      /\ \A t \in Turns : turn'[t] = IF turn[t].of = s THEN Ch!GoneTurn ELSE turn[t]
  BY DeleteFields
<1>3. Ch!GoneTurn.of \notin Sessions
  BY DEF Ch!GoneTurn, Ch!NoTurn, Ch!BoundsAssumption
<1>4. \A t \in Turns : \/ SameTurn(t)
                       \/ turn[t].of = s /\ turn'[t].of \notin Sessions /\ tomb'[s] = rev + 1
  <2> SUFFICES ASSUME NEW t \in Turns
               PROVE  \/ SameTurn(t)
                      \/ turn[t].of = s /\ turn'[t].of \notin Sessions /\ tomb'[s] = rev + 1
    OBVIOUS
  <2>1. CASE turn[t].of = s
    BY <1>2, <1>3, <2>1
  <2>2. CASE turn[t].of # s
    BY <1>2, <2>2 DEF SameTurn
  <2> QED
    BY <2>1, <2>2
<1>5. \A x \in Sessions : x # s => (Ch!Live(x)' <=> Ch!Live(x)) /\ SameBody(x) /\ tomb'[x] = tomb[x]
  BY <1>2, SameRow
<1> QED
  BY <1>1, <1>2, <1>4, <1>5, CopyMoved

LEMMA SummarizedCopy ==
    ASSUME Ch!BoundsAssumption, ShapeInv, StoreInv, CopyInv, NEW c, Ch!Summarized(c)
    PROVE  CopyInv'
<1>1. /\ c \in Candidate /\ c.id \in Sessions
      /\ \A x \in Sessions : x # c.id => sess'[x] = sess[x]
      /\ \A x \in Sessions : sess'[x].state = sess[x].state
  BY SummarizedEffect, CandidateFields
<1>2. UNCHANGED <<turn, tomb>>
  BY DEF Ch!Summarized
<1>3. \A t \in Turns : SameTurn(t)
  BY <1>2 DEF SameTurn
<1>4. \A x \in Sessions : Ch!Live(x)' <=> Ch!Live(x)
  BY <1>1 DEF Ch!Live
<1>5. \A x \in Sessions : x # c.id => SameBody(x)
  BY <1>1, SameRow
<1>6. CASE Ch!ApplyDead(c)
  <2>1. UNCHANGED <<reader, rev>> /\ sess' = sess
    BY <1>6 DEF Ch!ApplyDead
  <2>2. \A x \in Sessions : SameBody(x)
    BY <2>1 DEF SameBody
  <2> QED
    BY <1>2, <1>3, <1>4, <2>1, <2>2, CopyQuiet
<1>7. CASE Ch!ApplyJunk(c)
  <2>1. UNCHANGED <<reader, rev>>
    BY <1>7 DEF Ch!ApplyJunk
  <2>2. SameBody(c.id)
    BY <1>1, <1>7, JunkFields DEF SameBody
  <2>3. \A x \in Sessions : SameBody(x)
    BY <1>5, <2>2
  <2> QED
    BY <1>2, <1>3, <1>4, <2>1, <2>3, CopyQuiet
<1>8. CASE Ch!ApplySummary(c)
  <2>1. reader' = [reader EXCEPT !.rest = FALSE] /\ rev' = rev + 1 /\ Ch!Live(c.id)
    BY <1>8 DEF Ch!ApplySummary, Ch!Bump
  <2>2. sess'[c.id].rev = rev + 1
    BY <1>1, <1>8, SummaryRow
  <2>3. PICK s \in Sessions : s = c.id
    BY <1>1
  <2>4. Ch!Live(s)'
    BY <1>1, <2>1, <2>3 DEF Ch!Live
  <2>5. \A x \in Sessions : x # s => (Ch!Live(x)' <=> Ch!Live(x)) /\ SameBody(x) /\ tomb'[x] = tomb[x]
    BY <1>2, <1>4, <1>5, <2>3
  <2> QED
    BY <1>2, <1>3, <2>1, <2>2, <2>3, <2>4, <2>5, CopyMoved
<1> QED
  BY <1>6, <1>7, <1>8 DEF Ch!Summarized

LEMMA CopyStill ==
    ASSUME CopyInv, UNCHANGED <<reader, rev, sess, turn, tomb>>
    PROVE  CopyInv'
<1>1. \A s \in Sessions : (Ch!Live(s)' <=> Ch!Live(s)) /\ SameBody(s)
  BY SameRow
<1>2. \A t \in Turns : SameTurn(t)
  BY DEF SameTurn
<1> QED
  BY <1>1, <1>2, CopyQuiet

LEMMA TurnsMarkCopy ==
    ASSUME ShapeInv, CopyInv, Ch!TurnsMark
    PROVE  CopyInv'
<1>1. UNCHANGED <<reader, rev, sess, tomb>>
  BY DEF Ch!TurnsMark
<1>2. \A t \in Turns : SameTurn(t)
  BY TurnsMarkEffect, MarksFit DEF SameTurn
<1>3. \A s \in Sessions : (Ch!Live(s)' <=> Ch!Live(s)) /\ SameBody(s)
  BY <1>1, SameRow
<1> QED
  BY <1>1, <1>2, <1>3, CopyQuiet

LEMMA SessionsMarkCopy ==
    ASSUME ShapeInv, CopyInv, Ch!SessionsMark
    PROVE  CopyInv'
<1>1. UNCHANGED <<reader, rev, turn, tomb>>
  BY DEF Ch!SessionsMark
<1>2. \A t \in Turns : SameTurn(t)
  BY <1>1 DEF SameTurn
<1>3. \A s \in Sessions : SameBody(s)
  BY SessionsMarkStates DEF SameBody
<1>4. \A s \in Sessions : Ch!Live(s)' <=> Ch!Live(s)
  BY SessionsMarkStates DEF Ch!Live
<1> QED
  BY <1>1, <1>2, <1>3, <1>4, CopyQuiet

LEMMA JobFinishCopy ==
    ASSUME ShapeInv, JobsInv, CopyInv, Ch!JobFinish
    PROVE  CopyInv'
<1>1. UNCHANGED <<reader, rev, turn, tomb>>
  BY DEF Ch!JobFinish
<1>2. \A t \in Turns : SameTurn(t)
  BY <1>1 DEF SameTurn
<1>3. \A s \in Sessions : sess'[s] = sess[s] \/ (Ch!Dead(s) /\ sess'[s].state = "gone")
  BY JobFinishStates
<1>4. \A s \in Sessions : (Ch!Live(s)' <=> Ch!Live(s)) /\ (Ch!Live(s) => SameBody(s))
  BY <1>3 DEF Ch!Live, Ch!Dead, SameBody
<1> QED
  BY <1>1, <1>2, <1>4, CopyQuiet

LEMMA NextCopy ==
    ASSUME Ch!BoundsAssumption, ShapeInv, StoreInv, JobsInv, CopyInv, Ch!Next
    PROVE  CopyInv'
<1>1. CASE Ch!StoreNext
  BY <1>1, ResolveCopy, AppendCopy, UpdateCopy, DeleteCopy DEF Ch!StoreNext
<1>2. CASE Ch!SyncNext
  BY <1>2, SyncPageCopy DEF Ch!SyncNext
<1>3. CASE Ch!WorkNext
  <2>1. ASSUME UNCHANGED Ch!storeVars, reader' = reader PROVE CopyInv'
    BY <2>1, CopyStill DEF Ch!storeVars
  <2>2. ASSUME NEW idle, Ch!WorkBegin(idle) PROVE CopyInv'
    BY <2>1, <2>2 DEF Ch!WorkBegin
  <2>3. ASSUME NEW c, NEW m, Ch!SummaryFailed(c, m) PROVE CopyInv'
    BY <2>1, <2>3 DEF Ch!SummaryFailed
  <2>4. CASE Ch!TurnsRead \/ Ch!TurnsUpsertOk \/ Ch!TurnsUpsertMissing \/ Ch!TurnsUpsertFails
    BY <2>1, <2>4 DEF Ch!TurnsRead, Ch!TurnsUpsertOk, Ch!TurnsUpsertMissing, Ch!TurnsUpsertFails
  <2>5. CASE Ch!ProbeFails \/ Ch!SessionsRead \/ Ch!SessionsUpsertOk \/ Ch!SessionsUpsertFails
    BY <2>1, <2>5 DEF Ch!ProbeFails, Ch!SessionsRead, Ch!SessionsUpsertOk, Ch!SessionsUpsertFails
  <2>6. ASSUME NEW good, Ch!DocByDoc(good) PROVE CopyInv'
    BY <2>1, <2>6 DEF Ch!DocByDoc
  <2> QED
    BY <1>3, <2>2, <2>3, <2>4, <2>5, <2>6, SummarizedCopy, TurnsMarkCopy, SessionsMarkCopy
       DEF Ch!WorkNext
<1>4. CASE Ch!CleanNext
  BY <1>4, CleanKeepsSess, JobFinishCopy, CopyStill
<1>5. CASE Ch!SearchNext
  BY <1>5, CopyStill DEF Ch!SearchNext, Ch!SearchBegin, Ch!SearchAnswer, Ch!SearchReturn, Ch!storeVars
<1>6. CASE \E d \in late : Ch!LateLands(d)
  BY <1>6, CopyStill DEF Ch!LateLands, Ch!storeVars
<1>7. CASE Ch!Crash
  BY <1>7, CopyStill DEF Ch!Crash, Ch!storeVars
<1>8. CASE Ch!AgentNext
  BY <1>8, AgentEffect, CopyStill DEF Ch!storeVars
<1> QED
  BY <1>1, <1>2, <1>3, <1>4, <1>5, <1>6, <1>7, <1>8 DEF Ch!Next

-----------------------------------------------------------------------------
(* The invariant of the module.                                              *)

LEMMA InitStore ==
    ASSUME Ch!BoundsAssumption, Ch!Init
    PROVE  StoreInv
<1>1. /\ rev = 0 /\ inst \in Instances /\ sess = [s \in Sessions |-> Ch!NewSession]
      /\ turn = [t \in Turns |-> Ch!NoTurn] /\ tomb = [s \in Sessions |-> 0]
  BY DEF Ch!Init
<1>2. inst.maxRev \in Nat /\ MaxAttempts \in Nat /\ MaxAttempts # 0
  BY <1>1 DEF Ch!BoundsAssumption
<1>3. Cardinality(Turns) \in Nat
  BY FS_CardinalityType, SameFinite DEF Ch!BoundsAssumption
<1>4. ASSUME NEW s \in Sessions PROVE SessOk(s)
  <2>1. sess[s] = Ch!NewSession /\ tomb[s] = 0
    BY <1>1
  <2>2. ~Ch!Live(s) /\ ~Ch!Dead(s)
    BY <2>1, NewSessionFields DEF Ch!Live, Ch!Dead
  <2>3. /\ sess[s].turns = 0 /\ sess[s].sum = 0 /\ sess[s].seen = 0 /\ sess[s].rev = 0
        /\ sess[s].embedded = 0 /\ sess[s].summarized = 0
    BY <2>1, NewSessionFields
  <2> QED
    BY <1>1, <1>3, <2>1, <2>2, <2>3 DEF SessOk
<1>5. ASSUME NEW t \in Turns PROVE TurnOk(t)
  <2>1. turn[t].rev = 0 /\ turn[t].of = "none" /\ turn[t].attempts = 0
    BY <1>1 DEF Ch!NoTurn
  <2>2. "none" \notin Sessions
    BY DEF Ch!BoundsAssumption
  <2> QED
    BY <1>1, <1>2, <2>1, <2>2 DEF TurnOk
<1> QED
  BY <1>1, <1>2, <1>4, <1>5 DEF StoreInv

LEMMA InitLane ==
    ASSUME Ch!BoundsAssumption, Ch!Init
    PROVE  LaneInv
<1>1. work = Ch!WorkIdle /\ sess = [s \in Sessions |-> Ch!NewSession]
  BY DEF Ch!Init
<1>2. \A s \in Sessions : ~Ch!Live(s)
  BY <1>1, NewSessionFields DEF Ch!Live
<1> QED
  BY <1>1, <1>2, WorkIdleFits DEF LaneInv, ChatCovered

LEMMA InitCopy ==
    ASSUME Ch!BoundsAssumption, Ch!Init
    PROVE  CopyInv
<1>1. /\ rev = 0 /\ sess = [s \in Sessions |-> Ch!NewSession] /\ turn = [t \in Turns |-> Ch!NoTurn]
      /\ reader = [cursor |-> 0, sess |-> [s \in {} |-> 0], turns |-> {}, rest |-> FALSE]
  BY DEF Ch!Init
<1>2. reader.cursor = 0 /\ reader.sess = [s \in {} |-> 0] /\ reader.turns = {} /\ ~reader.rest
  BY <1>1
<1>3. \A s \in Sessions : ~Ch!Live(s)
  BY <1>1, NewSessionFields DEF Ch!Live
<1>4. Ch!Rows = {}
  BY <1>1 DEF Ch!Rows, Ch!NoTurn, Ch!BoundsAssumption
<1>5. DOMAIN reader.sess = {}
  BY <1>2
<1>6. CopyOf(reader, reader.cursor)
  BY <1>2, <1>3, <1>4, <1>5 DEF CopyOf
<1>7. reader = [cursor |-> reader.cursor, sess |-> reader.sess, turns |-> reader.turns,
                rest |-> reader.rest]
  BY <1>1
<1>8. reader.sess = [s \in DOMAIN reader.sess |-> reader.sess[s]]
  BY <1>2
<1> QED
  BY <1>1, <1>2, <1>6, <1>7, <1>8 DEF CopyInv

LEMMA InitRest ==
    ASSUME Ch!BoundsAssumption, Ch!Init
    PROVE  FiniteInv /\ ForgetsInv /\ SearchInv
<1>1. /\ work = Ch!WorkIdle /\ clean = Ch!CleanIdle /\ search = Ch!SearchIdle /\ late = {} /\ facts = {}
  BY DEF Ch!Init
<1>2. IsFiniteSet({}) /\ Cardinality({}) = 0 /\ MaxLate \in Nat
  BY FS_EmptySet DEF Ch!BoundsAssumption
<1>3. FiniteInv
  BY <1>1, <1>2, WorkIdleFits DEF FiniteInv
<1>4. ForgetsInv
  BY <1>1, CleanIdleFits DEF ForgetsInv
<1>5. SearchInv
  BY <1>1 DEF SearchInv, Ch!SearchIdle
<1> QED
  BY <1>3, <1>4, <1>5

LEMMA InitChats ==
    ASSUME Ch!BoundsAssumption, Ch!Init
    PROVE  ChatsIInv
<1>1. DeadInv
  BY InitDead
<1> QED
  BY <1>1, InitStore, InitLane, InitCopy, InitRest DEF ChatsIInv, DeadInv

LEMMA SameForChats ==
    ASSUME ChatsIInv, UNCHANGED Ch!vars
    PROVE  ChatsIInv'
<1>1. DeadInv'
  BY SameForDead DEF ChatsIInv, DeadInv
<1>2. UNCHANGED Ch!storeVars /\ UNCHANGED <<job, late, facts, work, clean, reader, search>>
  BY DEF Ch!vars, Ch!storeVars
<1>3. StoreInv' /\ LaneInv'
  BY <1>2, StoreStill, LaneStill DEF ChatsIInv
<1>4. CopyInv'
  BY <1>2, CopyStill DEF ChatsIInv, Ch!storeVars
<1>5. FiniteInv'
  BY <1>2 DEF ChatsIInv, FiniteInv
<1>6. ForgetsInv'
  BY <1>2 DEF ChatsIInv, ForgetsInv, Ch!Dead, Ch!storeVars
<1>7. SearchInv'
  BY <1>2 DEF ChatsIInv, SearchInv, Ch!Dead, Ch!storeVars
<1> QED
  BY <1>1, <1>3, <1>4, <1>5, <1>6, <1>7 DEF ChatsIInv, DeadInv

LEMMA NextChats ==
    ASSUME Ch!BoundsAssumption, ChatsIInv, [Ch!Next]_Ch!vars
    PROVE  ChatsIInv'
<1>1. CASE Ch!Next
  <2>1. ShapeInv' /\ IdleInv' /\ FiniteInv'
    BY <1>1, NextShape, NextIdle, NextFinite DEF ChatsIInv
  <2>2. StoreInv' /\ LaneInv'
    BY <1>1, NextStore DEF ChatsIInv
  <2>3. JobsInv' /\ TracksInv' /\ ForgetsInv'
    BY <1>1, NextJobs, NextTracks, NextForgets DEF ChatsIInv
  <2>4. SearchInv' /\ CopyInv'
    BY <1>1, NextSearch, NextCopy DEF ChatsIInv
  <2> QED
    BY <2>1, <2>2, <2>3, <2>4 DEF ChatsIInv
<1>2. CASE UNCHANGED Ch!vars
  BY <1>2, SameForChats
<1> QED
  BY <1>1, <1>2

LEMMA Within ==
    ASSUME NEW a \in Nat, NEW b \in Nat, NEW n \in Nat, a <= b, b <= n
    PROVE  a <= n /\ a \in 0..n
OBVIOUS

LEMMA UpTo ==
    ASSUME NEW a \in Nat, NEW n \in Nat, a <= n
    PROVE  a \in 0..n
OBVIOUS

LEMMA Beyond ==
    ASSUME NEW a \in Nat, NEW c \in Nat
    PROVE  a <= c \/ (c < a /\ a > c /\ a > 0)
OBVIOUS

LEMMA InvTypes ==
    ASSUME Ch!BoundsAssumption, ChatsIInv
    PROVE  Ch!TypeOK
<1>0. ShapeInv /\ FiniteInv /\ StoreInv /\ JobsInv
  BY DEF ChatsIInv
<1>1. rev \in Nat /\ inst.maxRev \in Nat /\ rev <= inst.maxRev /\ Cardinality(Turns) \in Nat
  BY <1>0, ShapeOf, FS_CardinalityType, SameFinite DEF StoreInv, Ch!BoundsAssumption
<1> DEFINE Row == [state : {"none", "live", "deleting", "gone"}, rev : 0..inst.maxRev,
        turns : 0..Cardinality(Turns), title : {"", "auto", "manual"},
        sum : 0..Cardinality(Turns), seen : 0..Cardinality(Turns),
        summarized : 0..inst.maxRev, embedded : 0..inst.maxRev]
<1>2. ASSUME NEW s \in Sessions PROVE sess[s] \in Row
  <2>1. sess[s] \in SessRows /\ SessOk(s)
    BY <1>0, ShapeOf DEF StoreInv
  <2> PICK r \in SessRows : r = sess[s]
    BY <2>1
  <2> PICK n \in Nat : n = inst.maxRev
    BY <1>1
  <2> PICK m \in Nat : m = Cardinality(Turns)
    BY <1>1
  <2>2. /\ r.state \in {"none", "live", "deleting", "gone"} /\ r.title \in {"", "auto", "manual"}
        /\ r.rev \in Nat /\ r.turns \in Nat /\ r.sum \in Nat /\ r.seen \in Nat
        /\ r.summarized \in Nat /\ r.embedded \in Nat
    BY SessRowFields
  <2>3. /\ r.rev <= rev /\ r.turns <= m /\ r.sum <= r.turns /\ r.seen <= r.turns
        /\ r.embedded <= r.summarized /\ r.summarized <= r.rev
    BY <2>1 DEF SessOk
  <2>4. rev \in Nat /\ rev <= n /\ r.turns <= m
    BY <1>1, <2>3
  <2>5. r.rev \in 0..n /\ r.rev <= n
    BY <2>2, <2>3, <2>4, Within
  <2>6. r.summarized \in 0..n /\ r.summarized <= n
    BY <2>2, <2>3, <2>5, Within
  <2>8. r.embedded \in 0..n
    BY <2>2, <2>3, <2>6, Within
  <2>9. r.sum \in 0..m /\ r.seen \in 0..m
    BY <2>2, <2>3, <2>4, Within
  <2>10. r.turns \in 0..m
    BY <2>2, <2>4, UpTo
  <2>7. r = [state |-> r.state, rev |-> r.rev, turns |-> r.turns, title |-> r.title, sum |-> r.sum,
             seen |-> r.seen, summarized |-> r.summarized, embedded |-> r.embedded]
    BY DEF SessRows
  <2> QED
    BY <2>2, <2>5, <2>6, <2>7, <2>8, <2>9, <2>10
<1>3. sess \in [Sessions -> Row]
  <2>1. sess = [s \in Sessions |-> sess[s]]
    BY <1>0 DEF ShapeInv
  <2> HIDE DEF Row
  <2> QED
    BY <1>2, <2>1
<1>4. \A t \in Turns : /\ turn[t].of \in Sessions \cup {"none", "gone"}
                       /\ turn[t].embedded \in {"no", "yes", "never"}
                       /\ turn[t].attempts <= MaxAttempts
  BY <1>0, ShapeOf, TurnRowFields DEF StoreInv, TurnOk
<1>5. \A s \in Sessions : /\ tomb[s] > 0 <=> Ch!Dead(s)
                          /\ sess[s].embedded <= sess[s].summarized
                          /\ sess[s].summarized <= sess[s].rev
  BY <1>0 DEF StoreInv, SessOk
<1>6. \A s \in Sessions : job[s].queued => Ch!Dead(s)
  BY <1>0 DEF JobsInv
<1>7. Cardinality(late) <= MaxLate
  BY <1>0 DEF FiniteInv
<1>8. rev \in 0..inst.maxRev
  BY <1>1
<1> QED
  BY <1>3, <1>4, <1>5, <1>6, <1>7, <1>8, SameCardinality DEF Ch!TypeOK

(* Nothing left to fetch: the copy is the live state.                        *)
LEMMA InvClient ==
    ASSUME ChatsIInv
    PROVE  Ch!ClientIsExact
<1>0. ShapeInv /\ StoreInv /\ CopyInv
  BY DEF ChatsIInv
<1> SUFFICES ASSUME reader.rest
             PROVE  /\ reader.sess = [s \in {x \in Sessions : Ch!Live(x)} |-> Ch!SessionBody(s)]
                    /\ reader.turns = {Ch!TurnBody(t) : t \in Ch!Rows}
  BY DEF Ch!ClientIsExact
<1> PICK K : K = reader
  OBVIOUS
<1> PICK c \in Nat : c = reader.cursor
  BY <1>0 DEF CopyInv
<1>1. CopyOf(K, c) /\ Ch!Fetch(c, rev) = {} /\ K.sess = [s \in DOMAIN K.sess |-> K.sess[s]]
  BY <1>0 DEF CopyInv
<1>2. \A s \in Sessions : Ch!Live(s) => sess[s].rev <= c
  <2> SUFFICES ASSUME NEW s \in Sessions, Ch!Live(s) PROVE sess[s].rev <= c
    OBVIOUS
  <2>1. sess[s].rev \in Nat /\ sess[s].rev <= rev
    BY <1>0, ShapeOf, SessRowFields DEF StoreInv, SessOk
  <2>2. ~(c < sess[s].rev)
    BY <1>1, <2>1, FetchHas
  <2> QED
    BY <2>1, <2>2, Beyond
<1>3. \A t \in Ch!Rows : turn[t].rev <= c
  <2> SUFFICES ASSUME NEW t \in Ch!Rows PROVE turn[t].rev <= c
    OBVIOUS
  <2>1. turn[t].rev \in Nat /\ turn[t].rev <= rev
    BY <1>0, ShapeOf, TurnRowFields DEF StoreInv, TurnOk, Ch!Rows
  <2>2. ~(c < turn[t].rev)
    BY <1>1, <2>1, FetchHas
  <2> QED
    BY <2>1, <2>2, Beyond
<1>4. \A s \in Sessions : ~(tomb[s] > c)
  <2> SUFFICES ASSUME NEW s \in Sessions, tomb[s] > c PROVE FALSE
    OBVIOUS
  <2>1. tomb[s] \in Nat /\ tomb[s] <= rev
    BY <1>0, ShapeOf DEF StoreInv, SessOk
  <2>2. c < tomb[s] /\ tomb[s] > 0
    BY <2>1
  <2> PICK d : d = [rev |-> tomb[s], op |-> "delete", id |-> s]
    OBVIOUS
  <2>3. d \in Ch!Fetch(c, rev)
    BY <2>1, <2>2, FetchHas
  <2> QED
    BY <1>1, <2>3
<1>5. \A s : s \in DOMAIN K.sess <=> s \in Sessions /\ Ch!Live(s)
  BY <1>1, <1>2, <1>4 DEF CopyOf
<1>6. \A s \in DOMAIN K.sess : K.sess[s] = Ch!SessionBody(s)
  BY <1>1, <1>2, <1>5 DEF CopyOf
<1>7. K.sess = [s \in {x \in Sessions : Ch!Live(x)} |-> Ch!SessionBody(s)]
  <2>1. DOMAIN K.sess = {x \in Sessions : Ch!Live(x)}
    BY <1>5
  <2> HIDE DEF Ch!SessionBody, Ch!Live
  <2> QED
    BY <1>1, <1>6, <2>1
<1>8. \A b : b \in K.turns <=> \E t \in Ch!Rows : b = Ch!TurnBody(t)
  <2>1. \A b \in K.turns : b.id \in Ch!Rows /\ b = Ch!TurnBody(b.id)
    BY <1>1, <1>4 DEF CopyOf
  <2>2. \A t \in Ch!Rows : Ch!TurnBody(t) \in K.turns
    BY <1>1, <1>3 DEF CopyOf
  <2> QED
    BY <2>1, <2>2
<1>9. K.turns = {Ch!TurnBody(t) : t \in Ch!Rows}
  BY <1>8
<1> QED
  BY <1>7, <1>9

LEMMA InvChats ==
    ASSUME Ch!BoundsAssumption, ChatsIInv
    PROVE  Ch!ChatsInv
<1>1. Ch!SummaryCoversTurns
  BY DEF ChatsIInv, LaneInv, ChatCovered, Ch!SummaryCoversTurns
<1>2. Ch!FactsHaveJob
  BY DEF ChatsIInv, ForgetsInv, Ch!FactsHaveJob
<1>3. Ch!SearchHidesDeleted
  BY DEF ChatsIInv, SearchInv, Ch!SearchHidesDeleted
<1> QED
  BY <1>1, <1>2, <1>3, InvTypes, InvClient DEF Ch!ChatsInv

(* The rows are well formed, no turn is left out of a summary that counts as *)
(* done, a job is queued while the agent keeps a goal that a turn of a dead  *)
(* session named, or facts stored before its delete, a search shows no       *)
(* session that was dead when it began, and a client at rest holds exactly   *)
(* the live state (store.rs, summary.rs, cascade.rs, service.rs, sync.rs).   *)
THEOREM ChatsInvAlways == MCSpec => []ChatsInv
<1> DEFINE I == part = "chats" => ChatsIInv
<1>1. MCInit => I
  BY InitChats, ChatBounds DEF MCInit
<1>2. I /\ [syncNext \/ chatsNext]_mcVars => I'
  <2> SUFFICES ASSUME I, [syncNext \/ chatsNext]_mcVars, part' = "chats"
               PROVE  ChatsIInv'
    OBVIOUS
  <2>1. part = "chats" /\ [Ch!Next]_Ch!vars
    BY DEF syncNext, chatsNext, mcVars, chatsVars, Ch!vars
  <2>2. ChatsIInv
    BY <2>1
  <2> QED
    BY <2>1, <2>2, NextChats, ChatBounds
<1>3. I => ChatsInv
  BY InvChats, ChatBounds DEF ChatsInv
<1> QED
  BY <1>1, <1>2, <1>3, PTL DEF MCSpec
==============================================================================
