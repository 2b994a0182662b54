-------------------------- MODULE Automations_proofs --------------------------
(***************************************************************************)
(* For every number of rules, events, requests, tasks, database failures   *)
(* and restarts: rules are well formed, take no other rule's place and are *)
(* not too many; the confirmation gate and stored cooldowns are kept but   *)
(* by copies older than what was stored; and answers are crossed only      *)
(* within a millisecond.                                                   *)
(*                                                                         *)
(* And what the agent knows, in the parts of MCDecide about it: facts are  *)
(* named by the index or gone, and no layer of the tool catalogue takes a  *)
(* confirmation away that another one asks for.                            *)
(***************************************************************************)
EXTENDS MCDecide, SequenceTheorems, FiniteSetTheorems, TLAPS

(***************************************************************************)
(* What a task may be doing, and the rules it is about.                    *)
(***************************************************************************)
Counting == [pc : {"id"}, form : Forms]
Putting == [pc : {"create", "update"}, rule : Rules]
Listing == [pc : {"list"}, ev : Events, keys : SUBSET Ids]
Matching == [pc : {"rules"}, rest : (SUBSET Rules) \ {{}}]
Storing == [pc : {"store"}, rest : SUBSET Rules, rule : Rules]

KnownTask(x) == x = Idle \/ x \in Counting \cup Putting \cup Listing \cup Matching \cup Storing

StoreOK ==
    /\ clock \in Epoch .. MaxTime
    /\ db \in [Ids -> Rules \cup {NoRule}]
    /\ \A i \in Present : db[i].id = i
    /\ nextId \in Nat
    /\ gated \subseteq Ids
    /\ mark \in [Ids -> Nat]
    /\ revived \subseteq Ids

TasksOK ==
    /\ task = [t \in Tasks |-> task[t]]
    /\ \A t \in Tasks : KnownTask(task[t])
    /\ overtaken \in [Tasks -> SUBSET Ids]

ShapeInv == StoreOK /\ TasksOK

\* Ids are drawn in order, and that of a rule about to be created is nobody's.
NewInv ==
    /\ Present \subseteq 1 .. nextId
    /\ \A t \in Tasks : Copies(task[t]) \subseteq 1 .. nextId
    /\ \A t \in Tasks : task[t].pc = "create" =>
          /\ task[t].rule.id \notin Present
          /\ \A u \in Tasks \ {t} : task[t].rule.id \notin Copies(task[u])

(***************************************************************************)
(* Copies that nobody has overtaken are what is stored, but for what their *)
(* task changes itself: task x with the documents d at the time now, of    *)
(* whose copies those in O are overtaken.                                  *)
(***************************************************************************)
Rest(x) == IF x.pc \in {"rules", "store"} THEN x.rest ELSE {}

CopiesOK(x, d, now, O) ==
    /\ \A r \in Rest(x) : r.id \in O \/ d[r.id] = r
    /\ \A r, s \in Rest(x) : r.id = s.id => r = s
    /\ x.pc = "store" => x.rule.id \notin IdsOf(x.rest)
    /\ x.pc = "create" => x.rule.last_fired = 0
    /\ x.pc \in {"create", "update", "store"} => x.rule.last_fired <= now
    /\ x.pc = "update" /\ x.rule.id \notin O =>
          d[x.rule.id] # NoRule /\ d[x.rule.id].last_fired = x.rule.last_fired
    /\ x.pc = "store" /\ x.rule.id \notin O =>
          d[x.rule.id] # NoRule /\ d[x.rule.id].confirm = x.rule.confirm

HeldInv == \A t \in Tasks : CopiesOK(task[t], db, clock, overtaken[t])

\* A stored rule keeps the gate the operator set, and is no older than its mark.
DocOK(i) ==
    IF db[i] = NoRule THEN mark[i] = 0
    ELSE /\ mark[i] <= db[i].last_fired /\ db[i].last_fired <= clock
         /\ i \in gated => db[i].confirm

DocsInv == \A i \in Ids : DocOK(i)

FiresInv == (\A f \in fired : f.gated => f.old) /\ StoredCooldownKept

\* Every task that creates a rule has counted less than MaxRules, before.
Creating(x) == x.pc \in {"id", "create"}
Creators == {t \in Tasks : Creating(task[t])}
CapInv == Cardinality(Present \ revived) + Cardinality(Creators)
              < MaxRules + Cardinality(Tasks)

RulesIInv == ShapeInv /\ NewInv /\ HeldInv /\ DocsInv /\ FiresInv /\ CapInv

(***************************************************************************)
(* The serve loop.                                                         *)
(***************************************************************************)
Outcomes == [kind : {"nothing", "answer", "aborted", "timed_out"}, of : Nat]

Queued == MaxMs + 1

ClockShape ==
    /\ got \in Seq(Outcomes) /\ stamp \in Seq(Nat) /\ Len(stamp) = Len(got)
    /\ instant \in 0 .. MaxMs
    /\ running \in BOOLEAN
    /\ rpcq \in Seq(Calls)
    /\ waits \in [Callers -> Calls \cup {0}]

\* A call is forwarded once, and what is said of it is about its instant.
ClockIInv ==
    /\ ClockShape
    /\ \A a, b \in DOMAIN rpcq : a # b => rpcq[a] # rpcq[b]
    /\ \A a \in DOMAIN rpcq : stamp[rpcq[a]] = Queued
    /\ \A i \in DOMAIN pend : i \in 0 .. MaxMs /\ pend[i] \in Calls /\ stamp[pend[i]] = i
    /\ \A m \in wired : m.id \in 0 .. MaxMs /\ m.of \in Calls /\ stamp[m.of] = m.id
    /\ \A c \in Calls :
          /\ got[c].kind = "answer" =>
                got[c].of \in Calls /\ stamp[c] # Queued /\ stamp[got[c].of] = stamp[c]
          /\ got[c].kind = "aborted" /\ running =>
                stamp[c] # Queued /\ \E d \in Calls \ {c} : stamp[d] = stamp[c]


LEMMA AnsweredShape ==
  ASSUME got \in Seq(Outcomes), NEW c \in Calls, NEW k \in {"answer", "aborted", "timed_out"},
         NEW o \in Nat
  PROVE  /\ Answered(c, k, o) \in Seq(Outcomes)
         /\ Len(Answered(c, k, o)) = Len(got)
         /\ \A d \in Calls : Answered(c, k, o)[d] =
               IF d = c /\ Waiting(c) THEN [kind |-> k, of |-> o] ELSE got[d]
<1>1. [kind |-> k, of |-> o] \in Outcomes
  BY DEF Outcomes
<1> QED
  BY <1>1 DEF Answered, Calls, Waiting

LEMMA Appended ==
  ASSUME NEW S, NEW s \in Seq(S), NEW e \in S
  PROVE  /\ Append(s, e) \in Seq(S) /\ Len(Append(s, e)) = Len(s) + 1
         /\ DOMAIN Append(s, e) = DOMAIN s \cup {Len(s) + 1} /\ Len(s) + 1 \notin DOMAIN s
         /\ DOMAIN s = 1 .. Len(s)
         /\ \A i \in DOMAIN s : Append(s, e)[i] = s[i] /\ s[i] \in S
         /\ Append(s, e)[Len(s) + 1] = e
  BY AppendProperties

LEMMA SeqFacts ==
  ASSUME NEW S, NEW s \in Seq(S)
  PROVE  /\ DOMAIN s = 1 .. Len(s) /\ Len(s) \in Nat
         /\ \A i \in DOMAIN s : s[i] \in S
         /\ s # <<>> => 1 \in DOMAIN s /\ Head(s) = s[1]
  OBVIOUS

LEMMA NoCalls == ASSUME NEW S PROVE <<>> \in Seq(S) /\ DOMAIN <<>> = {}
  OBVIOUS

LEMMA ClockInitially == ClockInit => ClockIInv
<1> SUFFICES ASSUME ClockInit PROVE ClockIInv
  OBVIOUS
<1>1. ClockShape
  BY ClockAssumption DEF ClockInit, ClockShape, Outcomes, Calls
<1>2. /\ DOMAIN rpcq = {} /\ DOMAIN pend = {} /\ wired = {} /\ Calls = {}
  BY DEF ClockInit, Calls
<1> QED
  BY <1>1, <1>2 DEF ClockIInv

LEMMA ClockIInvImplies == ClockIInv => MixedWithinInstant
<1> SUFFICES ASSUME ClockIInv, NEW c \in Calls
             PROVE /\ got[c].kind = "answer" => stamp[got[c].of] = stamp[c]
                   /\ got[c].kind = "aborted" /\ running =>
                        \E d \in Calls \ {c} : stamp[d] = stamp[c]
                   /\ got[c].kind = "answer" /\ (\A d \in Calls \ {c} : stamp[d] # stamp[c])
                        => got[c].of = c
  BY DEF MixedWithinInstant
<1>1. /\ got[c].kind = "answer" =>
            got[c].of \in Calls /\ stamp[c] # Queued /\ stamp[got[c].of] = stamp[c]
      /\ got[c].kind = "aborted" /\ running =>
            stamp[c] # Queued /\ \E d \in Calls \ {c} : stamp[d] = stamp[c]
  BY DEF ClockIInv
<1> QED
  BY <1>1

LEMMA PostKeeps == ASSUME ClockIInv, NEW t \in Callers, Post(t) PROVE ClockIInv'
<1> DEFINE n == Len(got) + 1
<1>1. /\ got \in Seq(Outcomes) /\ stamp \in Seq(Nat) /\ Len(stamp) = Len(got)
      /\ rpcq \in Seq(Calls) /\ Calls = 1 .. Len(got) /\ MaxMs \in Nat /\ Queued \in Nat
  BY ClockAssumption DEF ClockIInv, ClockShape, Calls, Queued
<1>2. Nothing \in Outcomes
  BY DEF Nothing, Outcomes
<1>3. /\ got' \in Seq(Outcomes) /\ Calls' = 1 .. n /\ Len(got') = n /\ got'[n] = Nothing
      /\ \A c \in Calls : got'[c] = got[c]
  BY <1>1, <1>2 DEF Post, Calls
<1>4. /\ stamp' \in Seq(Nat) /\ Len(stamp') = n /\ stamp'[n] = Queued
      /\ \A c \in Calls : stamp'[c] = stamp[c]
  BY <1>1, Appended DEF Post, Queued
<1>5. /\ rpcq' \in Seq(Calls') /\ Len(rpcq') = Len(rpcq) + 1 /\ rpcq'[Len(rpcq) + 1] = n
      /\ \A a \in DOMAIN rpcq : rpcq'[a] = rpcq[a] /\ rpcq[a] \in Calls
      /\ DOMAIN rpcq' = DOMAIN rpcq \cup {Len(rpcq) + 1} /\ DOMAIN rpcq = 1 .. Len(rpcq)
  <2>1. rpcq \in Seq(Calls') /\ n \in Calls'
    BY <1>1, <1>3
  <2>2. rpcq' = Append(rpcq, n) /\ DOMAIN rpcq = 1 .. Len(rpcq)
    BY <1>1 DEF Post
  <2>3. \A a \in DOMAIN rpcq : rpcq[a] \in Calls
    <3>1. rpcq \in Seq(Calls)
      BY <1>1
    <3> QED
      BY <3>1, SeqFacts
  <2> HIDE DEF n
  <2>4. /\ Append(rpcq, n) \in Seq(Calls') /\ Len(Append(rpcq, n)) = Len(rpcq) + 1
        /\ DOMAIN Append(rpcq, n) = DOMAIN rpcq \cup {Len(rpcq) + 1}
        /\ \A a \in DOMAIN rpcq : Append(rpcq, n)[a] = rpcq[a]
        /\ Append(rpcq, n)[Len(rpcq) + 1] = n
    BY <2>1, Appended
  <2> QED
    BY <2>2, <2>3, <2>4
<1>6. /\ waits' \in [Callers -> Calls' \cup {0}] /\ pend' = pend /\ wired' = wired
      /\ running' = running /\ instant' = instant
  BY <1>1, <1>3 DEF Post, ClockIInv, ClockShape
<1>7. Calls \subseteq Calls' /\ n \notin Calls /\ Calls' = Calls \cup {n}
  BY <1>1, <1>3
<1> HIDE DEF n
<1>8. ClockShape'
  BY <1>3, <1>4, <1>5, <1>6 DEF ClockShape, ClockIInv
<1>9. \A a, b \in DOMAIN rpcq' : a # b => rpcq'[a] # rpcq'[b]
  BY <1>5, <1>7 DEF ClockIInv
<1>10. \A a \in DOMAIN rpcq' : stamp'[rpcq'[a]] = Queued
  BY <1>4, <1>5 DEF ClockIInv
<1>11. \A i \in DOMAIN pend' : i \in 0 .. MaxMs /\ pend'[i] \in Calls' /\ stamp'[pend'[i]] = i
  BY <1>4, <1>6, <1>7 DEF ClockIInv
<1>12. \A m \in wired' : m.id \in 0 .. MaxMs /\ m.of \in Calls' /\ stamp'[m.of] = m.id
  BY <1>4, <1>6, <1>7 DEF ClockIInv
<1>13. ASSUME NEW c \in Calls'
       PROVE  /\ got'[c].kind = "answer" =>
                    got'[c].of \in Calls' /\ stamp'[c] # Queued /\ stamp'[got'[c].of] = stamp'[c]
              /\ got'[c].kind = "aborted" /\ running' =>
                    stamp'[c] # Queued /\ \E d \in Calls' \ {c} : stamp'[d] = stamp'[c]
  <2>1. CASE c = n
    BY <2>1, <1>3 DEF Nothing
  <2>2. CASE c \in Calls
    BY <2>2, <1>3, <1>4, <1>6, <1>7 DEF ClockIInv
  <2> QED
    BY <2>1, <2>2, <1>7
<1> QED
  BY <1>8, <1>9, <1>10, <1>11, <1>12, <1>13 DEF ClockIInv, Queued


LEMMA ForwardKeeps == ASSUME ClockIInv, Forward PROVE ClockIInv'
<1> DEFINE c == Head(rpcq)
<1>1. /\ got \in Seq(Outcomes) /\ stamp \in Seq(Nat) /\ Len(stamp) = Len(got)
      /\ rpcq \in Seq(Calls) /\ Calls = 1 .. Len(got) /\ DOMAIN got = 1 .. Len(got)
      /\ DOMAIN stamp = 1 .. Len(got)
      /\ MaxMs \in Nat /\ instant \in 0 .. MaxMs /\ Queued = MaxMs + 1 /\ running
  BY ClockAssumption DEF ClockIInv, ClockShape, Calls, Queued, Forward
<1>2. /\ rpcq # <<>> /\ rpcq' = Tail(rpcq) /\ waits' = waits /\ running' = running
      /\ instant' = instant
      /\ stamp' = [stamp EXCEPT ![c] = instant]
      /\ wired' = wired \cup {[id |-> instant, of |-> c]}
      /\ pend' = [i \in DOMAIN pend \cup {instant} |-> IF i = instant THEN c ELSE pend[i]]
      /\ got' = IF instant \in DOMAIN pend THEN Answered(pend[instant], "aborted", 0) ELSE got
  BY DEF Forward, ActionId
<1>3. /\ 1 \in DOMAIN rpcq /\ c = rpcq[1] /\ c \in Calls /\ stamp[c] = Queued
      /\ rpcq' \in Seq(Calls) /\ DOMAIN rpcq' = 1 .. Len(rpcq) - 1
      /\ DOMAIN rpcq = 1 .. Len(rpcq) /\ Len(rpcq) \in Nat
      /\ \A a \in DOMAIN rpcq' : rpcq'[a] = rpcq[a + 1]
  <2>1. 1 \in DOMAIN rpcq /\ c = rpcq[1] /\ c \in Calls
    <3>1. rpcq \in Seq(Calls) /\ rpcq # <<>>
      BY <1>1, <1>2
    <3> QED
      BY <3>1, SeqFacts
  <2>2. stamp[c] = Queued
    BY <2>1 DEF ClockIInv
  <2>3. /\ rpcq' \in Seq(Calls) /\ DOMAIN rpcq' = 1 .. Len(rpcq) - 1
        /\ DOMAIN rpcq = 1 .. Len(rpcq) /\ Len(rpcq) \in Nat
        /\ \A a \in DOMAIN rpcq' : rpcq'[a] = rpcq[a + 1]
    BY <1>1, <1>2, HeadTailProperties
  <2> QED
    BY <2>1, <2>2, <2>3
<1> HIDE DEF c
<1>4. /\ got' \in Seq(Outcomes) /\ Len(got') = Len(got) /\ Calls' = Calls
      /\ \A d \in Calls : \/ got'[d] = got[d]
                          \/ instant \in DOMAIN pend /\ d = pend[instant]
                             /\ got'[d] = [kind |-> "aborted", of |-> 0]
  <2>1. CASE instant \in DOMAIN pend
    <3>1. pend[instant] \in Calls
      BY <2>1 DEF ClockIInv
    <3> QED
      BY <1>1, <1>2, <2>1, <3>1, AnsweredShape DEF Calls
  <2>2. CASE instant \notin DOMAIN pend
    BY <1>1, <1>2, <2>2 DEF Calls
  <2> QED
    BY <2>1, <2>2
<1>5. /\ stamp' \in Seq(Nat) /\ Len(stamp') = Len(got) /\ stamp'[c] = instant
      /\ \A d \in Calls : d # c => stamp'[d] = stamp[d]
      /\ \A d \in Calls : stamp[d] # Queued => stamp'[d] = stamp[d]
  BY <1>1, <1>2, <1>3
<1>6. /\ DOMAIN pend' = DOMAIN pend \cup {instant} /\ pend'[instant] = c
      /\ \A i \in DOMAIN pend : i # instant => pend'[i] = pend[i]
  BY <1>2
<1>7. instant # Queued /\ \A i \in 0 .. MaxMs : i # Queued
  BY <1>1
<1>8. ClockShape'
  BY <1>1, <1>2, <1>3, <1>4, <1>5 DEF ClockShape, ClockIInv
<1>9. \A a, b \in DOMAIN rpcq' : a # b => rpcq'[a] # rpcq'[b]
  <2>1. \A a \in DOMAIN rpcq' : a \in Int /\ a + 1 \in DOMAIN rpcq
    BY <1>3
  <2>2. \A a, b \in DOMAIN rpcq' : a # b => a + 1 # b + 1
    BY <2>1
  <2> QED
    BY <1>3, <2>1, <2>2 DEF ClockIInv
<1>10. ASSUME NEW a \in DOMAIN rpcq' PROVE stamp'[rpcq'[a]] = Queued
  <2>1. a + 1 \in DOMAIN rpcq /\ a + 1 # 1 /\ rpcq'[a] = rpcq[a + 1]
    BY <1>3
  <2>2. rpcq[a + 1] # c /\ rpcq[a + 1] \in Calls /\ stamp[rpcq[a + 1]] = Queued
    <3>1. rpcq[a + 1] \in Calls
      BY <2>1, SeqFacts DEF ClockIInv, ClockShape
    <3>2. rpcq[a + 1] # c
      BY <2>1, <1>3 DEF ClockIInv
    <3>3. stamp[rpcq[a + 1]] = Queued
      BY <2>1 DEF ClockIInv
    <3> QED
      BY <3>1, <3>2, <3>3
  <2> QED
    BY <2>1, <2>2, <1>5
<1>11. \A i \in DOMAIN pend' : i \in 0 .. MaxMs /\ pend'[i] \in Calls' /\ stamp'[pend'[i]] = i
  <2> SUFFICES ASSUME NEW i \in DOMAIN pend'
               PROVE  i \in 0 .. MaxMs /\ pend'[i] \in Calls /\ stamp'[pend'[i]] = i
    BY <1>4
  <2>1. CASE i = instant
    BY <1>1, <1>3, <1>5, <1>6, <2>1
  <2>2. CASE i # instant
    <3>1. i \in DOMAIN pend /\ pend'[i] = pend[i]
      BY <1>6, <2>2
    <3>2. i \in 0 .. MaxMs /\ pend[i] \in Calls /\ stamp[pend[i]] = i
      BY <3>1 DEF ClockIInv
    <3> QED
      BY <1>1, <1>3, <1>5, <1>7, <3>1, <3>2
  <2> QED
    BY <2>1, <2>2
<1>12. \A m \in wired' : m.id \in 0 .. MaxMs /\ m.of \in Calls' /\ stamp'[m.of] = m.id
  BY <1>1, <1>2, <1>3, <1>4, <1>5, <1>7 DEF ClockIInv
<1>13. ASSUME NEW d \in Calls'
       PROVE  /\ got'[d].kind = "answer" =>
                    got'[d].of \in Calls' /\ stamp'[d] # Queued /\ stamp'[got'[d].of] = stamp'[d]
              /\ got'[d].kind = "aborted" /\ running' =>
                    stamp'[d] # Queued /\ \E e \in Calls' \ {d} : stamp'[e] = stamp'[d]
  <2>1. d \in Calls
    BY <1>4
  <2>2. CASE got'[d] = got[d]
    <3>1. got[d].kind = "answer" =>
             got[d].of \in Calls /\ stamp[d] # Queued /\ stamp[got[d].of] = stamp[d]
      BY <2>1 DEF ClockIInv
    <3>2. got[d].kind = "aborted" =>
             stamp[d] # Queued /\ \E e \in Calls \ {d} : stamp[e] = stamp[d]
      BY <1>1, <2>1 DEF ClockIInv
    <3> QED
      BY <2>1, <2>2, <3>1, <3>2, <1>4, <1>5
  <2>3. CASE instant \in DOMAIN pend /\ d = pend[instant] /\ got'[d] = [kind |-> "aborted", of |-> 0]
    <3>1. stamp[d] = instant /\ d # c
      BY <2>3, <1>3, <1>7 DEF ClockIInv
    <3>2. stamp'[d] = instant /\ stamp'[c] = instant /\ c \in Calls' \ {d}
      BY <3>1, <2>1, <1>3, <1>4, <1>5
    <3> QED
      BY <2>3, <3>2, <1>7
  <2> QED
    BY <2>1, <2>2, <2>3, <1>4
<1> QED
  BY <1>8, <1>9, <1>10, <1>11, <1>12, <1>13 DEF ClockIInv, Queued

LEMMA RecvResponseKeeps == ASSUME ClockIInv, NEW m \in wired, RecvResponse(m) PROVE ClockIInv'
<1>1. /\ got \in Seq(Outcomes) /\ Calls = 1 .. Len(got) /\ DOMAIN got = 1 .. Len(got)
      /\ running /\ MaxMs \in Nat
  BY ClockAssumption DEF ClockIInv, ClockShape, Calls, RecvResponse
<1>2. /\ wired' \subseteq wired /\ waits' = waits /\ rpcq' = rpcq /\ stamp' = stamp
      /\ running' = running /\ instant' = instant
  BY DEF RecvResponse
<1>3. /\ m.of \in Calls /\ stamp[m.of] = m.id /\ m.id \in 0 .. MaxMs
  BY DEF ClockIInv
<1>4. CASE m.id \in DOMAIN pend
  <2> DEFINE c == pend[m.id]
  <2>1. c \in Calls /\ stamp[c] = m.id
    BY <1>4 DEF ClockIInv
  <2>2. /\ got' = Answered(c, "answer", m.of)
        /\ pend' = [i \in DOMAIN pend \ {m.id} |-> pend[i]]
    BY <1>4 DEF RecvResponse
  <2>3. DOMAIN pend' \subseteq DOMAIN pend /\ \A i \in DOMAIN pend' : pend'[i] = pend[i]
    BY <2>2
  <2> HIDE DEF c
  <2>4. /\ got' \in Seq(Outcomes) /\ Len(got') = Len(got) /\ Calls' = Calls
        /\ \A d \in Calls : \/ got'[d] = got[d]
                            \/ d = c /\ got'[d] = [kind |-> "answer", of |-> m.of]
    BY <1>1, <1>3, <2>1, <2>2, AnsweredShape DEF Calls
  <2>5. ClockShape'
    BY <1>2, <2>4 DEF ClockShape, ClockIInv
  <2>6. ASSUME NEW d \in Calls'
        PROVE  /\ got'[d].kind = "answer" =>
                     got'[d].of \in Calls' /\ stamp'[d] # Queued /\ stamp'[got'[d].of] = stamp'[d]
               /\ got'[d].kind = "aborted" /\ running' =>
                     stamp'[d] # Queued /\ \E e \in Calls' \ {d} : stamp'[e] = stamp'[d]
    <3>1. CASE got'[d] = got[d]
      BY <3>1, <2>4, <1>1, <1>2 DEF ClockIInv
    <3>2. CASE d = c /\ got'[d] = [kind |-> "answer", of |-> m.of]
      <4>1. stamp[c] # Queued
        BY <2>1, <1>3, <1>1 DEF Queued
      <4> QED
        BY <3>2, <4>1, <2>1, <2>4, <1>2, <1>3
    <3> QED
      BY <3>1, <3>2, <2>4
  <2> QED
    BY <2>3, <2>4, <2>5, <2>6, <1>2 DEF ClockIInv, Queued
<1>5. CASE m.id \notin DOMAIN pend
  <2>1. got' = got /\ pend' = pend /\ Calls' = Calls
    BY <1>5 DEF RecvResponse, Calls
  <2> QED
    BY <2>1, <1>2 DEF ClockIInv, ClockShape, Queued
<1> QED
  BY <1>4, <1>5

LEMMA TimeOutKeeps == ASSUME ClockIInv, NEW t \in Callers, TimeOut(t) PROVE ClockIInv'
<1> DEFINE c == waits[t]
<1>1. /\ got \in Seq(Outcomes) /\ c \in Calls
      /\ got' = Answered(c, "timed_out", 0)
      /\ UNCHANGED <<waits, rpcq, pend, wired, stamp, running, instant>>
  BY DEF ClockIInv, ClockShape, TimeOut
<1> HIDE DEF c
<1>2. /\ got' \in Seq(Outcomes) /\ Len(got') = Len(got) /\ Calls' = Calls
      /\ \A d \in Calls : \/ got'[d] = got[d]
                          \/ d = c /\ got'[d] = [kind |-> "timed_out", of |-> 0]
  BY <1>1, AnsweredShape DEF Calls
<1>3. ClockShape'
  BY <1>1, <1>2 DEF ClockShape, ClockIInv
<1>4. ASSUME NEW d \in Calls'
      PROVE  /\ got'[d].kind = "answer" =>
                   got'[d].of \in Calls' /\ stamp'[d] # Queued /\ stamp'[got'[d].of] = stamp'[d]
             /\ got'[d].kind = "aborted" /\ running' =>
                   stamp'[d] # Queued /\ \E e \in Calls' \ {d} : stamp'[e] = stamp'[d]
  <2>1. CASE got'[d] = got[d]
    BY <2>1, <1>1, <1>2 DEF ClockIInv
  <2>2. CASE got'[d] = [kind |-> "timed_out", of |-> 0]
    BY <2>2
  <2> QED
    BY <2>1, <2>2, <1>2
<1> QED
  BY <1>1, <1>2, <1>3, <1>4 DEF ClockIInv, Queued

LEMMA StopKeeps == ASSUME ClockIInv, Stop PROVE ClockIInv'
<1>1. /\ got \in Seq(Outcomes) /\ Calls = 1 .. Len(got) /\ DOMAIN got = 1 .. Len(got)
      /\ UNCHANGED <<waits, wired, stamp, instant>> /\ running' = FALSE
      /\ rpcq' = <<>> /\ pend' = <<>>
      /\ got' = [c \in Calls |-> IF Waiting(c) THEN [kind |-> "aborted", of |-> 0] ELSE got[c]]
  BY DEF ClockIInv, ClockShape, Stop, Calls
<1>2. /\ got' \in Seq(Outcomes) /\ Len(got') = Len(got) /\ Calls' = Calls
      /\ \A d \in Calls : \/ got'[d] = got[d]
                          \/ got'[d] = [kind |-> "aborted", of |-> 0]
  <2>1. [kind |-> "aborted", of |-> 0] \in Outcomes
    BY DEF Outcomes
  <2> QED
    BY <1>1, <2>1 DEF Calls
<1>3. ClockShape' /\ DOMAIN rpcq' = {} /\ DOMAIN pend' = {}
  <2>1. rpcq' \in Seq(Calls') /\ DOMAIN rpcq' = {} /\ DOMAIN pend' = {}
    BY <1>1, NoCalls
  <2> QED
    BY <1>1, <1>2, <2>1 DEF ClockShape, ClockIInv
<1>4. ASSUME NEW d \in Calls'
      PROVE  got'[d].kind = "answer" =>
               got'[d].of \in Calls' /\ stamp'[d] # Queued /\ stamp'[got'[d].of] = stamp'[d]
  <2>1. CASE got'[d] = got[d]
    BY <2>1, <1>1, <1>2 DEF ClockIInv
  <2>2. CASE got'[d] = [kind |-> "aborted", of |-> 0]
    BY <2>2
  <2> QED
    BY <2>1, <2>2, <1>2
<1> QED
  BY <1>1, <1>2, <1>3, <1>4 DEF ClockIInv, Queued

\* The invariant of the serve loop is kept by every step of it.
LEMMA ClockStepKeeps == ClockIInv /\ [ClockNext]_clockVars => ClockIInv'
<1> SUFFICES ASSUME ClockIInv, [ClockNext]_clockVars PROVE ClockIInv'
  OBVIOUS
<1>1. CASE Forward
  BY <1>1, ForwardKeeps
<1>2. CASE Stop
  BY <1>2, StopKeeps
<1>3. CASE ClockTick
  <2>1. instant' \in 0 .. MaxMs
    BY <1>3, ClockAssumption DEF ClockTick, ClockIInv, ClockShape
  <2> QED
    BY <1>3, <2>1 DEF ClockTick, ClockIInv, ClockShape, Calls, Queued
<1>4. ASSUME NEW t \in Callers, Post(t) PROVE ClockIInv'
  BY <1>4, PostKeeps
<1>5. ASSUME NEW t \in Callers, TimeOut(t) PROVE ClockIInv'
  BY <1>5, TimeOutKeeps
<1>6. ASSUME NEW t \in Callers, Return(t) PROVE ClockIInv'
  <2>1. waits' \in [Callers -> Calls \cup {0}]
    BY <1>6 DEF Return, ClockIInv, ClockShape
  <2> QED
    BY <1>6, <2>1 DEF Return, ClockIInv, ClockShape, Calls, Queued
<1>7. ASSUME NEW m \in wired, RecvResponse(m) PROVE ClockIInv'
  BY <1>7, RecvResponseKeeps
<1>8. CASE UNCHANGED clockVars
  BY <1>8 DEF clockVars, ClockIInv, ClockShape, Calls, Queued
<1> QED
  BY <1>1, <1>2, <1>3, <1>4, <1>5, <1>6, <1>7, <1>8 DEF ClockNext

\* However many calls are forwarded in a millisecond, an answer is crossed, and
\* a call is told of a shutdown that did not happen, only among the calls of one
\* millisecond (run, PendingCalls and action_id of automations).
THEOREM AnswersMixOnlyWithinInstant == ClockSpec => []MixedWithinInstant
<1>1. ClockInit => ClockIInv
  BY ClockInitially
<1>2. ClockIInv /\ [ClockNext]_clockVars => ClockIInv'
  BY ClockStepKeeps
<1>3. ClockIInv => MixedWithinInstant
  BY ClockIInvImplies
<1> QED
  BY <1>1, <1>2, <1>3, PTL DEF ClockSpec


(***************************************************************************)
(* The rules.  What the helpers return.                                    *)
(***************************************************************************)
LEMMA KnownParts ==
  ASSUME NEW x, KnownTask(x)
  PROVE  /\ x.pc \in {"idle", "id", "create", "update", "list", "rules", "store"}
         /\ x.pc = "idle" <=> x = Idle
         /\ x.pc = "id" => x.form \in Forms
         /\ x.pc \in {"create", "update"} => x.rule \in Rules
         /\ x.pc = "list" => x.keys \subseteq Ids
         /\ x.pc = "rules" => x.rest \in SUBSET Rules
         /\ x.pc = "store" => x.rest \in SUBSET Rules /\ x.rule \in Rules
  BY DEF KnownTask, Idle, Counting, Putting, Listing, Matching, Storing

LEMMA IdsAreNumbers == \A i \in Ids : i \in Nat /\ i \in Int /\ i >= 1
  BY AutomationsAssumption, FS_CardinalityType

LEMMA RuleParts ==
  ASSUME NEW r \in Rules
  PROVE  /\ r.id \in Ids /\ r.enabled \in BOOLEAN /\ r.confirm \in BOOLEAN
         /\ r.cooldown \in Nat /\ r.last_fired \in Nat /\ r # NoRule
  BY AutomationsAssumption, NoRuleAssumption DEF Rules

LEMMA NewRuleIs ==
  ASSUME NEW i \in Ids, NEW f \in Forms
  PROVE  /\ NewRule(i, f) \in Rules /\ NewRule(i, f).id = i /\ NewRule(i, f).last_fired = 0
         /\ NewRule(i, f).confirm = f.confirm
  BY AutomationsAssumption DEF NewRule, Rules

LEMMA MergedIs ==
  ASSUME NEW old \in Rules, NEW f \in Forms
  PROVE  /\ Merged(f, old) \in Rules /\ Merged(f, old).id = old.id
         /\ Merged(f, old).last_fired = old.last_fired
<1> DEFINE e == f.enabled \/ old.enabled
           n == NewRule(old.id, f)
<1>1. old.id \in Ids /\ old.last_fired \in Nat
  BY DEF Rules
<1>2. n \in Rules /\ n.id = old.id
  BY <1>1, NewRuleIs
<1>3. e \in BOOLEAN
  OBVIOUS
<1>4. Merged(f, old) = [n EXCEPT !.last_fired = old.last_fired, !.enabled = e]
  BY DEF Merged
<1> HIDE DEF e, n
<1> QED
  BY <1>1, <1>2, <1>3, <1>4 DEF Rules

LEMMA MarkedIs ==
  ASSUME NEW r \in Rules, clock \in Nat
  PROVE  /\ Marked(r) \in Rules /\ Marked(r).id = r.id /\ Marked(r).confirm = r.confirm
         /\ Marked(r).last_fired = clock
  BY DEF Rules, Marked

LEMMA ClockIs == ASSUME StoreOK PROVE clock \in Nat /\ clock \in Int
  BY AutomationsAssumption DEF StoreOK, Epoch

LEMMA CopiesAreIds == ASSUME NEW x, KnownTask(x) PROVE Copies(x) \subseteq Ids
<1>1. \A S \in SUBSET Rules : IdsOf(S) \subseteq Ids
  BY RuleParts DEF IdsOf
<1> QED
  BY <1>1, KnownParts, RuleParts DEF Copies

LEMMA IdleIs == /\ KnownTask(Idle) /\ Copies(Idle) = {} /\ Rest(Idle) = {} /\ Idle.pc = "idle"
                /\ ~Creating(Idle)
                /\ \A d, now, O : CopiesOK(Idle, d, now, O)
  BY DEF KnownTask, Copies, Rest, Idle, Creating, CopiesOK

LEMMA OnwardIs ==
  ASSUME NEW rest \in SUBSET Rules
  PROVE  /\ KnownTask(Onward(rest)) /\ Onward(rest).pc \in {"idle", "rules"}
         /\ Copies(Onward(rest)) = IdsOf(rest) /\ Rest(Onward(rest)) = rest
         /\ ~Creating(Onward(rest))
<1>1. CASE rest = {}
  BY <1>1, IdleIs DEF Onward, IdsOf
<1>2. CASE rest # {}
  <2>1. Onward(rest) = [pc |-> "rules", rest |-> rest]
    BY <1>2 DEF Onward
  <2>2. Onward(rest) \in Matching
    BY <1>2, <2>1 DEF Matching
  <2> QED
    BY <2>1, <2>2 DEF KnownTask, Copies, Rest, Creating
<1> QED
  BY <1>1, <1>2

\* A task that goes on with some of the copies it had: they are as good as they were.
LEMMA OnwardCopies ==
  ASSUME NEW rest \in SUBSET Rules, NEW d, NEW now, NEW O,
         \A r \in rest : r.id \in O \/ d[r.id] = r,
         \A r, s \in rest : r.id = s.id => r = s
  PROVE  CopiesOK(Onward(rest), d, now, O)
  BY OnwardIs DEF CopiesOK

LEMMA CopiesKept ==
  ASSUME NEW x, KnownTask(x), NEW d, NEW e, NEW now \in Nat, NEW later \in Nat, now <= later,
         NEW O, NEW W, CopiesOK(x, d, now, O), \A i \in Ids : i \notin W => e[i] = d[i]
  PROVE  CopiesOK(x, e, later, (O \cup W) \cap Copies(x))
<1> DEFINE P == (O \cup W) \cap Copies(x)
<1>1. \A i \in Copies(x) : i \notin P => i \notin O /\ e[i] = d[i]
  BY CopiesAreIds
<1>2. \A r \in Rest(x) : r.id \in Copies(x)
  BY DEF Rest, Copies, IdsOf
<1>3. x.pc \in {"create", "update", "store"} =>
         x.rule.id \in Copies(x) /\ x.rule.last_fired \in Nat
  BY KnownParts, RuleParts DEF Copies
<1> HIDE DEF P
<1>4. \A r \in Rest(x) : r.id \in P \/ e[r.id] = r
  BY <1>1, <1>2 DEF CopiesOK
<1>5. x.pc \in {"create", "update", "store"} => x.rule.last_fired <= later
  BY <1>3 DEF CopiesOK
<1>6. /\ x.pc = "update" /\ x.rule.id \notin P =>
            e[x.rule.id] # NoRule /\ e[x.rule.id].last_fired = x.rule.last_fired
      /\ x.pc = "store" /\ x.rule.id \notin P =>
            e[x.rule.id] # NoRule /\ e[x.rule.id].confirm = x.rule.confirm
  BY <1>1, <1>3 DEF CopiesOK
<1>7. CopiesOK(x, e, later, P)
  BY <1>4, <1>5, <1>6 DEF CopiesOK
<1> QED
  BY <1>7 DEF P

LEMMA IdsAreFinite ==
  ASSUME NEW S \in SUBSET Ids
  PROVE  IsFiniteSet(S) /\ Cardinality(S) \in Nat
<1>1. IsFiniteSet(S)
  BY AutomationsAssumption, FS_Subset
<1> QED
  BY <1>1, FS_CardinalityType

(***************************************************************************)
(* A step of one task.  Task t goes on to x, the rules in W were written.  *)
(***************************************************************************)
Steps(t, x, W) ==
    /\ Goto(t, x, W) /\ KnownTask(x) /\ W \subseteq Ids
    /\ StoreOK' /\ clock' = clock /\ nextId <= nextId'
    /\ \A i \in Ids : i \notin W => /\ db'[i] = db[i] /\ mark'[i] = mark[i]
                                    /\ i \in gated' <=> i \in gated
    /\ W \subseteq Copies(task[t]) \cup Present
    /\ Copies(x) \subseteq Copies(task[t]) \cup Present \cup ((nextId + 1) .. nextId')
    /\ x.pc = "create" => x.rule.id > nextId

LEMMA Went ==
  ASSUME TasksOK, NEW t \in Tasks, NEW x, NEW W, Goto(t, x, W)
  PROVE  /\ task' = [u \in Tasks |-> task'[u]]
         /\ task'[t] = x /\ \A u \in Tasks : u # t => task'[u] = task[u]
         /\ overtaken'[t] = overtaken[t] \cap Copies(x)
         /\ \A u \in Tasks : u # t => overtaken'[u] = (overtaken[u] \cup W) \cap Copies(task[u])
         /\ overtaken' = [u \in Tasks |-> overtaken'[u]]
<1>1. task' = [task EXCEPT ![t] = x] /\ task = [u \in Tasks |-> task[u]]
  BY DEF Goto, TasksOK
<1>2. /\ task' = [u \in Tasks |-> task'[u]]
      /\ task'[t] = x /\ \A u \in Tasks : u # t => task'[u] = task[u]
  BY <1>1
<1>3. overtaken' = [u \in Tasks |->
          (overtaken[u] \cup (IF u = t THEN {} ELSE W)) \cap Copies(task'[u])]
  BY DEF Goto
<1> QED
  BY <1>2, <1>3

LEMMA StepShape ==
  ASSUME ShapeInv, NEW t \in Tasks, NEW x, NEW W, Steps(t, x, W)
  PROVE  ShapeInv'
<1>1. /\ task' = [u \in Tasks |-> task'[u]]
      /\ task'[t] = x /\ \A u \in Tasks : u # t => task'[u] = task[u]
      /\ overtaken'[t] = overtaken[t] \cap Copies(x)
      /\ \A u \in Tasks : u # t => overtaken'[u] = (overtaken[u] \cup W) \cap Copies(task[u])
      /\ overtaken' = [u \in Tasks |-> overtaken'[u]]
  BY Went DEF ShapeInv, Steps
<1>2. \A u \in Tasks : KnownTask(task'[u])
  BY <1>1 DEF ShapeInv, TasksOK, Steps
<1>3. \A u \in Tasks : overtaken'[u] \in SUBSET Ids
  BY <1>1, CopiesAreIds DEF ShapeInv, TasksOK, Steps
<1>4. overtaken' \in [Tasks -> SUBSET Ids]
  BY <1>1, <1>3
<1> QED
  BY <1>1, <1>2, <1>4 DEF ShapeInv, TasksOK, Steps

LEMMA StepNew ==
  ASSUME ShapeInv, NewInv, NEW t \in Tasks, NEW x, NEW W, Steps(t, x, W)
  PROVE  NewInv'
<1>1. /\ nextId \in Nat /\ nextId' \in Nat /\ nextId <= nextId'
      /\ \A n \in 1 .. nextId : n \in 1 .. nextId' /\ n <= nextId
  BY DEF Steps, ShapeInv, StoreOK
<1>2. Present \subseteq 1 .. nextId /\ \A u \in Tasks : Copies(task[u]) \subseteq 1 .. nextId
  BY DEF NewInv
<1>3. /\ task'[t] = x /\ \A u \in Tasks : u # t => task'[u] = task[u]
  BY Went DEF ShapeInv, Steps
<1>4. Present' \subseteq Present \cup Copies(task[t])
  BY DEF Steps, Present
<1>5. Copies(x) \subseteq 1 .. nextId'
  <2>1. Copies(x) \subseteq (1 .. nextId) \cup ((nextId + 1) .. nextId')
    BY <1>2 DEF Steps
  <2>2. (1 .. nextId) \cup ((nextId + 1) .. nextId') \subseteq 1 .. nextId'
    BY <1>1
  <2> QED
    BY <2>1, <2>2
<1>6. \A u \in Tasks : Copies(task'[u]) \subseteq 1 .. nextId'
  BY <1>1, <1>2, <1>3, <1>5
<1>7. Present' \subseteq 1 .. nextId
  BY <1>2, <1>4
<1>8. ASSUME NEW u \in Tasks, task'[u].pc = "create"
      PROVE  /\ task'[u].rule.id \notin Present'
             /\ \A v \in Tasks \ {u} : task'[u].rule.id \notin Copies(task'[v])
  <2> DEFINE j == task'[u].rule.id
  <2>1. CASE u = t
    <3>1. j > nextId /\ j \in Int
      <4>1. x.rule \in Rules
        BY <1>3, <1>8, <2>1, KnownParts DEF Steps
      <4> QED
        BY <1>3, <1>8, <2>1, <4>1, RuleParts, IdsAreNumbers DEF Steps
    <3>2. j \notin 1 .. nextId
      BY <1>1, <3>1
    <3>3. \A v \in Tasks \ {u} : Copies(task'[v]) \subseteq 1 .. nextId
      BY <1>2, <1>3, <2>1
    <3> QED
      BY <1>7, <3>2, <3>3
  <2>2. CASE u # t
    <3>1. task'[u] = task[u] /\ j = task[u].rule.id /\ task[u].pc = "create"
      BY <1>3, <1>8, <2>2
    <3> HIDE DEF j
    <3>2. j \notin Present /\ \A v \in Tasks \ {u} : j \notin Copies(task[v])
      BY <3>1 DEF NewInv
    <3>3. j \in 1 .. nextId
      BY <3>1, <1>2 DEF Copies
    <3>4. j \notin Copies(task[t]) /\ j \notin (nextId + 1) .. nextId'
      BY <1>1, <2>2, <3>2, <3>3
    <3>5. j \notin Present' /\ j \notin Copies(x)
      BY <3>2, <3>4, <1>4 DEF Steps
    <3>6. \A v \in Tasks \ {u} : j \notin Copies(task'[v])
      BY <3>2, <3>5, <1>3
    <3> QED
      BY <3>5, <3>6 DEF j
  <2> QED
    BY <2>1, <2>2
<1>9. Present' \subseteq 1 .. nextId'
  BY <1>1, <1>7
<1> QED
  BY <1>6, <1>8, <1>9 DEF NewInv

LEMMA StepHeld ==
  ASSUME ShapeInv, HeldInv, NEW t \in Tasks, NEW x, NEW W, Steps(t, x, W),
         CopiesOK(x, db', clock, overtaken[t])
  PROVE  HeldInv'
<1>1. /\ task'[t] = x /\ \A u \in Tasks : u # t => task'[u] = task[u]
      /\ overtaken'[t] = overtaken[t] \cap Copies(x)
      /\ \A u \in Tasks : u # t => overtaken'[u] = (overtaken[u] \cup W) \cap Copies(task[u])
  BY Went DEF ShapeInv, Steps
<1>2. clock \in Nat /\ clock' = clock
  BY ClockIs DEF Steps, ShapeInv
<1>3. clock <= clock
  BY <1>2
<1>7. CopiesOK(x, db', clock, (overtaken[t] \cup {}) \cap Copies(x))
  <2>1. KnownTask(x) /\ \A i \in Ids : i \notin {} => db'[i] = db'[i]
    BY DEF Steps
  <2> QED
    BY <1>2, <1>3, <2>1, CopiesKept, Zenon
<1>4. ASSUME NEW u \in Tasks, u # t
      PROVE  CopiesOK(task[u], db', clock, (overtaken[u] \cup W) \cap Copies(task[u]))
  <2>1. KnownTask(task[u]) /\ CopiesOK(task[u], db, clock, overtaken[u])
    BY DEF ShapeInv, TasksOK, HeldInv
  <2>2. \A i \in Ids : i \notin W => db'[i] = db[i]
    BY DEF Steps
  <2> QED
    BY <1>2, <1>3, <2>1, <2>2, CopiesKept, Zenon
<1>5. overtaken'[t] = (overtaken[t] \cup {}) \cap Copies(x)
  BY <1>1
<1>6. \A u \in Tasks : CopiesOK(task'[u], db', clock', overtaken'[u])
  BY <1>1, <1>2, <1>4, <1>5, <1>7
<1> QED
  BY <1>6 DEF HeldInv

LEMMA StepDocs ==
  ASSUME ShapeInv, DocsInv, NEW t \in Tasks, NEW x, NEW W, Steps(t, x, W),
         \A i \in W : DocOK(i)'
  PROVE  DocsInv'
<1>1. ASSUME NEW i \in Ids, i \notin W PROVE DocOK(i)'
  BY <1>1 DEF Steps, DocsInv, DocOK
<1> QED
  BY <1>1 DEF DocsInv

LEMMA StepCap ==
  ASSUME ShapeInv, CapInv, NEW t \in Tasks, NEW x, NEW W, Steps(t, x, W),
         Present' \ revived' \subseteq Present \ revived, Creating(x) => Creating(task[t])
  PROVE  CapInv'
<1>1. /\ task'[t] = x /\ \A u \in Tasks : u # t => task'[u] = task[u]
  BY Went DEF ShapeInv, Steps
<1>2. Creators' \subseteq Creators
  BY <1>1 DEF Creators
<1>3. IsFiniteSet(Creators) /\ IsFiniteSet(Tasks) /\ Cardinality(Tasks) \in Nat
  BY AutomationsAssumption, FS_Subset, FS_CardinalityType DEF Creators
<1>4. /\ Cardinality(Creators') <= Cardinality(Creators)
      /\ Cardinality(Creators') \in Nat /\ Cardinality(Creators) \in Nat
  BY <1>2, <1>3, FS_Subset, FS_CardinalityType
<1>5. Present \ revived \in SUBSET Ids
  BY DEF Present
<1>6. /\ Cardinality(Present' \ revived') <= Cardinality(Present \ revived)
      /\ Cardinality(Present' \ revived') \in Nat /\ Cardinality(Present \ revived) \in Nat
  <2>1. PICK S : S = Present' \ revived'
    OBVIOUS
  <2>2. PICK R : R = Present \ revived
    OBVIOUS
  <2>3. IsFiniteSet(R) /\ S \subseteq R
    BY <1>5, <2>1, <2>2, IdsAreFinite
  <2>4. Cardinality(S) <= Cardinality(R) /\ Cardinality(S) \in Nat /\ Cardinality(R) \in Nat
    BY <2>3, FS_Subset, FS_CardinalityType
  <2> QED
    BY <2>1, <2>2, <2>4
<1>7. MaxRules \in Nat
  BY AutomationsAssumption
<1> QED
  BY <1>3, <1>4, <1>6, <1>7 DEF CapInv

LEMMA StepKeeps ==
  ASSUME RulesIInv, NEW t \in Tasks, NEW x, NEW W, Steps(t, x, W),
         CopiesOK(x, db', clock, overtaken[t]), \A i \in W : DocOK(i)', FiresInv', CapInv'
  PROVE  RulesIInv'
<1>1. ShapeInv /\ NewInv /\ HeldInv /\ DocsInv
  BY DEF RulesIInv
<1>2. ShapeInv' /\ NewInv' /\ HeldInv'
  BY <1>1, StepShape, StepNew, StepHeld
<1>3. DocsInv'
  BY <1>1, StepDocs
<1> QED
  BY <1>2, <1>3 DEF RulesIInv

LEMMA SameFires == ASSUME FiresInv, UNCHANGED fired PROVE FiresInv'
  BY DEF FiresInv, StoredCooldownKept

\* A step of t that leaves the store alone.
LEMMA QuietKeeps ==
  ASSUME RulesIInv, NEW t \in Tasks, NEW x, KnownTask(x), Goto(t, x, {}),
         UNCHANGED <<clock, ruleVars>>, nextId' \in Nat, nextId <= nextId',
         Copies(x) \subseteq Copies(task[t]) \cup Present \cup ((nextId + 1) .. nextId'),
         x.pc = "create" => x.rule.id > nextId,
         CopiesOK(x, db, clock, overtaken[t]), FiresInv',
         (Creating(x) => Creating(task[t])) \/ CapInv'
  PROVE  RulesIInv'
<1>1. UNCHANGED <<clock, db, gated, mark, revived>> /\ Present' = Present
  BY DEF ruleVars, Present
<1>2. StoreOK'
  BY <1>1 DEF RulesIInv, ShapeInv, StoreOK
<1>3. Steps(t, x, {})
  BY <1>1, <1>2 DEF Steps
<1>4. CopiesOK(x, db', clock, overtaken[t])
  BY <1>1
<1>5. CapInv'
  BY <1>1, <1>3, StepCap DEF RulesIInv
<1> QED
  BY <1>3, <1>4, <1>5, StepKeeps

\* A task that ends without having written.
LEMMA EndKeeps ==
  ASSUME RulesIInv, NEW t \in Tasks, Goto(t, Idle, {}), UNCHANGED <<clock, nextId, ruleVars, fired>>
  PROVE  RulesIInv'
<1>1. nextId \in Nat /\ nextId' = nextId
  BY DEF RulesIInv, ShapeInv, StoreOK
<1>2. nextId <= nextId' /\ FiresInv'
  BY <1>1, SameFires DEF RulesIInv
<1>3. CopiesOK(Idle, db, clock, overtaken[t])
  BY IdleIs
<1> QED
  BY <1>1, <1>2, <1>3, IdleIs, QuietKeeps

\* A task that goes on with some of the copies it has left.
LEMMA OnwardKeeps ==
  ASSUME RulesIInv, NEW t \in Tasks, NEW rest, rest \in SUBSET Rest(task[t]),
         Goto(t, Onward(rest), {}), UNCHANGED <<clock, nextId, ruleVars, fired>>
  PROVE  RulesIInv'
<1>1. nextId \in Nat /\ nextId' = nextId
  BY DEF RulesIInv, ShapeInv, StoreOK
<1>2. nextId <= nextId' /\ FiresInv'
  BY <1>1, SameFires DEF RulesIInv
<1>3. /\ rest \in SUBSET Rules /\ IdsOf(rest) \subseteq Copies(task[t])
      /\ CopiesOK(task[t], db, clock, overtaken[t])
  <2>1. KnownTask(task[t]) /\ CopiesOK(task[t], db, clock, overtaken[t])
    BY DEF RulesIInv, ShapeInv, TasksOK, HeldInv
  <2>2. Rest(task[t]) \in SUBSET Rules /\ IdsOf(Rest(task[t])) \subseteq Copies(task[t])
    BY <2>1, KnownParts DEF Rest, Copies, IdsOf
  <2> QED
    BY <2>1, <2>2 DEF IdsOf
<1>4. CopiesOK(Onward(rest), db, clock, overtaken[t])
  BY <1>3, OnwardCopies DEF CopiesOK
<1> QED
  BY <1>1, <1>2, <1>3, <1>4, OnwardIs, QuietKeeps

LEMMA PutIs ==
  ASSUME StoreOK, NEW t \in Tasks, NEW r \in Rules, Put(t, r)
  PROVE  /\ db' \in [Ids -> Rules \cup {NoRule}] /\ \A i \in Present' : db'[i].id = i
         /\ db'[r.id] = r /\ \A i \in Ids : i # r.id => db'[i] = db[i]
         /\ revived' \subseteq Ids
         /\ Present' \ revived' \subseteq (Present \ revived) \cup {r.id}
         /\ task[t].pc # "create" => Present' \ revived' \subseteq Present \ revived
<1>1. r.id \in Ids /\ r # NoRule
  BY RuleParts
<1>2. db \in [Ids -> Rules \cup {NoRule}] /\ \A i \in Ids : db[i] # NoRule => db[i].id = i
  BY DEF StoreOK, Present
<1>3. db' = [db EXCEPT ![r.id] = r]
  BY DEF Put
<1>4. /\ db' \in [Ids -> Rules \cup {NoRule}] /\ db'[r.id] = r
      /\ \A i \in Ids : i # r.id => db'[i] = db[i]
  BY <1>1, <1>2, <1>3
<1>5. \A i \in Present' : db'[i].id = i
  BY <1>1, <1>2, <1>4 DEF Present
<1>6. revived \subseteq revived' /\ revived' \subseteq Ids
  BY <1>1 DEF Put, StoreOK
<1>7. \A i \in Present' : i # r.id => i \in Present
  BY <1>4 DEF Present
<1>8. ASSUME task[t].pc # "create", r.id \notin revived' PROVE r.id \in Present
  BY <1>1, <1>8 DEF Put, Present
<1> QED
  BY <1>4, <1>5, <1>6, <1>7, <1>8

LEMMA PutSteps ==
  ASSUME ShapeInv, NEW t \in Tasks, NEW r \in Rules, Put(t, r), r.id \in Copies(task[t]),
         gated' \subseteq Ids, \A i \in Ids : i # r.id => (i \in gated' <=> i \in gated),
         mark' \in [Ids -> Nat], \A i \in Ids : i # r.id => mark'[i] = mark[i],
         NEW x, KnownTask(x), Goto(t, x, {r.id}), Copies(x) \subseteq Copies(task[t]),
         x.pc # "create", UNCHANGED <<clock, nextId>>
  PROVE  Steps(t, x, {r.id})
<1>1. /\ db' \in [Ids -> Rules \cup {NoRule}] /\ \A i \in Present' : db'[i].id = i
      /\ \A i \in Ids : i # r.id => db'[i] = db[i]
      /\ revived' \subseteq Ids
  BY PutIs DEF ShapeInv
<1>2. StoreOK' /\ nextId <= nextId'
  BY <1>1 DEF ShapeInv, StoreOK
<1>3. r.id \in Ids
  BY RuleParts
<1> QED
  BY <1>1, <1>2, <1>3 DEF Steps

\* An event task stores the rule it has marked and goes on.
LEMMA PutMarkedKeeps ==
  ASSUME RulesIInv, NEW t \in Tasks, NEW r \in Rules, task[t].pc \in {"rules", "store"},
         r.id \in Copies(task[t]), NEW rest, rest \in SUBSET Rest(task[t]),
         r.id \notin IdsOf(rest), r.last_fired <= clock,
         r.id \notin overtaken[t] => db[r.id] # NoRule /\ db[r.id].confirm = r.confirm,
         PutMarked(t, r), Goto(t, Onward(rest), {r.id}), UNCHANGED <<clock, nextId, fired>>
  PROVE  RulesIInv'
<1> DEFINE x == Onward(rest)
<1>1. ShapeInv /\ DocsInv /\ CapInv /\ FiresInv /\ r.id \in Ids
  BY RuleParts DEF RulesIInv
<1>2. /\ rest \in SUBSET Rules /\ IdsOf(rest) \subseteq Copies(task[t])
      /\ CopiesOK(task[t], db, clock, overtaken[t])
  <2>1. KnownTask(task[t]) /\ CopiesOK(task[t], db, clock, overtaken[t])
    BY DEF RulesIInv, ShapeInv, TasksOK, HeldInv
  <2>2. Rest(task[t]) \in SUBSET Rules /\ IdsOf(Rest(task[t])) \subseteq Copies(task[t])
    BY <2>1, KnownParts DEF Rest, Copies, IdsOf
  <2> QED
    BY <2>1, <2>2 DEF IdsOf
<1>3. KnownTask(x) /\ Copies(x) = IdsOf(rest) /\ ~Creating(x) /\ x.pc # "create"
  BY <1>2, OnwardIs
<1>4. /\ gated' = IF r.id \in overtaken[t] /\ ~r.confirm THEN gated \ {r.id} ELSE gated
      /\ mark' = [mark EXCEPT ![r.id] = r.last_fired]
      /\ Put(t, r)
  BY DEF PutMarked
<1>5. /\ gated' \subseteq Ids /\ \A i \in Ids : i # r.id => (i \in gated' <=> i \in gated)
      /\ mark' \in [Ids -> Nat] /\ \A i \in Ids : i # r.id => mark'[i] = mark[i]
      /\ mark'[r.id] = r.last_fired
  <2>1. r.last_fired \in Nat
    BY RuleParts
  <2> QED
    BY <1>1, <1>4, <2>1 DEF ShapeInv, StoreOK
<1>6. /\ db'[r.id] = r /\ \A i \in Ids : i # r.id => db'[i] = db[i]
      /\ Present' \ revived' \subseteq Present \ revived
  BY <1>1, <1>4, PutIs DEF ShapeInv
<1>7. Steps(t, x, {r.id})
  <2>1. Copies(x) \subseteq Copies(task[t]) /\ Goto(t, x, {r.id})
    BY <1>2, <1>3
  <2> HIDE DEF x
  <2> QED
    BY <1>1, <1>3, <1>4, <1>5, <2>1, PutSteps
<1>8. CopiesOK(x, db', clock, overtaken[t])
  <2>1. \A s \in rest : s.id \in Ids /\ s.id # r.id
    BY <1>2, RuleParts DEF IdsOf
  <2>2. \A s \in rest : s.id \in overtaken[t] \/ db'[s.id] = s
    BY <1>2, <1>6, <2>1 DEF CopiesOK
  <2>3. \A s, u \in rest : s.id = u.id => s = u
    BY <1>2 DEF CopiesOK
  <2> QED
    BY <1>2, <2>2, <2>3, OnwardCopies
<1>9. DocOK(r.id)'
  <2>1. r.last_fired \in Nat /\ r # NoRule
    BY RuleParts
  <2>2. ASSUME r.id \in gated' PROVE r.confirm
    <3>1. r.id \in gated /\ (r.id \in overtaken[t] => r.confirm)
      BY <1>4, <2>2
    <3>2. CASE r.id \notin overtaken[t]
      BY <1>1, <3>1, <3>2 DEF DocsInv, DocOK
    <3> QED
      BY <3>1, <3>2
  <2>3. mark'[r.id] <= r.last_fired /\ r.last_fired <= clock'
    BY <1>5, <2>1
  <2> QED
    BY <1>6, <2>1, <2>2, <2>3 DEF DocOK
<1>10. CapInv' /\ FiresInv'
  BY <1>1, <1>3, <1>6, <1>7, StepCap, SameFires
<1> HIDE DEF x
<1> QED
  BY <1>7, <1>8, <1>9, <1>10, StepKeeps

(***************************************************************************)
(* One lemma for every action.                                             *)
(***************************************************************************)
LEMMA CreateBeginKeeps ==
  ASSUME RulesIInv, NEW t \in Tasks, NEW f \in Forms, CreateBegin(t, f)
  PROVE  RulesIInv'
<1> DEFINE x == [pc |-> "id", form |-> f]
<1>1. KnownTask(x) /\ Copies(x) = {} /\ x.pc = "id"
  BY DEF KnownTask, Counting, Copies
<1>2. CopiesOK(x, db, clock, overtaken[t])
  BY DEF CopiesOK, Rest
<1>3. /\ Goto(t, x, {}) /\ UNCHANGED <<clock, nextId, ruleVars, fired>>
      /\ task[t] = Idle /\ Cardinality(Present) < MaxRules
  BY DEF CreateBegin
<1>4. nextId \in Nat /\ nextId' = nextId /\ nextId <= nextId' /\ FiresInv'
  BY <1>3, SameFires DEF RulesIInv, ShapeInv, StoreOK
<1>5. CapInv'
  <2>1. Present' = Present /\ revived' = revived
    BY <1>3 DEF Present, ruleVars
  <2>2. Cardinality(Present \ revived) <= Cardinality(Present)
    BY IdsAreFinite, FS_Subset DEF Present
  <2>3. Cardinality(Creators') <= Cardinality(Tasks)
    BY AutomationsAssumption, FS_Subset DEF Creators
  <2>4. /\ Cardinality(Present) \in Nat /\ Cardinality(Present \ revived) \in Nat
        /\ Cardinality(Creators') \in Nat /\ Cardinality(Tasks) \in Nat /\ MaxRules \in Nat
    <3>1. Present \in SUBSET Ids /\ Present \ revived \in SUBSET Ids
      BY DEF Present
    <3>2. IsFiniteSet(Creators') /\ IsFiniteSet(Tasks)
      BY AutomationsAssumption, FS_Subset DEF Creators
    <3> QED
      BY <3>1, <3>2, IdsAreFinite, FS_CardinalityType, AutomationsAssumption
  <2>5. Cardinality(Present' \ revived') = Cardinality(Present \ revived)
    BY <2>1
  <2> QED
    BY <1>3, <2>2, <2>3, <2>4, <2>5 DEF CapInv
<1> HIDE DEF x
<1> QED
  BY <1>1, <1>2, <1>3, <1>4, <1>5, QuietKeeps

LEMMA DrawIdKeeps ==
  ASSUME RulesIInv, NEW t \in Tasks, DrawId(t)
  PROVE  RulesIInv'
<1> DEFINE r == NewRule(nextId + 1, task[t].form)
           x == [pc |-> "create", rule |-> r]
<1>1. /\ Goto(t, x, {}) /\ UNCHANGED <<clock, ruleVars, fired>> /\ nextId' = nextId + 1
      /\ task[t].pc = "id" /\ nextId + 1 \in Ids
  BY DEF DrawId
<1>2. nextId \in Nat /\ nextId' \in Nat /\ nextId <= nextId' /\ clock \in Nat /\ FiresInv'
  BY <1>1, ClockIs, SameFires DEF RulesIInv, ShapeInv, StoreOK
<1>3. r \in Rules /\ r.id = nextId + 1 /\ r.last_fired = 0
  <2>1. task[t].form \in Forms
    BY <1>1, KnownParts DEF RulesIInv, ShapeInv, TasksOK
  <2> QED
    BY <1>1, <2>1, NewRuleIs
<1> HIDE DEF r
<1>4. KnownTask(x) /\ Copies(x) = {nextId + 1} /\ x.pc = "create" /\ x.rule.id > nextId
  BY <1>2, <1>3 DEF KnownTask, Putting, Copies
<1>5. CopiesOK(x, db, clock, overtaken[t])
  BY <1>2, <1>3 DEF CopiesOK, Rest
<1>6. Creating(task[t]) /\ Copies(x) \subseteq (nextId + 1) .. nextId'
  BY <1>1, <1>2, <1>4 DEF Creating
<1> HIDE DEF x
<1> QED
  BY <1>1, <1>2, <1>4, <1>5, <1>6, QuietKeeps

LEMMA UpdateBeginKeeps ==
  ASSUME RulesIInv, NEW t \in Tasks, NEW i \in Ids, NEW f \in Forms, UpdateBegin(t, i, f)
  PROVE  RulesIInv'
<1> DEFINE r == Merged(f, db[i])
           x == [pc |-> "update", rule |-> r]
<1>1. Goto(t, x, {}) /\ UNCHANGED <<clock, nextId, ruleVars, fired>> /\ db[i] # NoRule
  BY DEF UpdateBegin
<1>2. nextId \in Nat /\ nextId' = nextId /\ nextId <= nextId' /\ FiresInv'
  BY <1>1, SameFires DEF RulesIInv, ShapeInv, StoreOK
<1>3. db[i] \in Rules /\ db[i].id = i /\ i \in Present
  BY <1>1 DEF RulesIInv, ShapeInv, StoreOK, Present
<1>4. r \in Rules /\ r.id = i /\ r.last_fired = db[i].last_fired
  BY <1>3, MergedIs
<1>5. r.last_fired <= clock
  BY <1>1, <1>4 DEF RulesIInv, DocsInv, DocOK
<1> HIDE DEF r
<1>6. KnownTask(x) /\ Copies(x) = {i} /\ x.pc = "update" /\ ~Creating(x)
  BY <1>4 DEF KnownTask, Putting, Copies, Creating
<1>7. CopiesOK(x, db, clock, overtaken[t])
  BY <1>1, <1>4, <1>5 DEF CopiesOK, Rest
<1>8. Copies(x) \subseteq Present
  BY <1>3, <1>6
<1> HIDE DEF x
<1> QED
  BY <1>1, <1>2, <1>6, <1>7, <1>8, QuietKeeps

LEMMA PutRuleCap ==
  ASSUME RulesIInv, NEW t \in Tasks, NEW W, task[t].pc = "create", Steps(t, Idle, W),
         Present' \ revived' \subseteq (Present \ revived) \cup {task[t].rule.id}
  PROVE  CapInv'
<1> DEFINE j == task[t].rule.id
           R == Present \ revived
<1>1. task'[t] = Idle /\ \A u \in Tasks : u # t => task'[u] = task[u]
  BY Went DEF RulesIInv, ShapeInv, Steps
<1>2. Creators' = Creators \ {t} /\ t \in Creators
  BY <1>1, IdleIs DEF Creators, Creating
<1>3. IsFiniteSet(Creators) /\ Cardinality(Tasks) \in Nat /\ MaxRules \in Nat
  BY AutomationsAssumption, FS_Subset, FS_CardinalityType DEF Creators
<1>4. /\ Cardinality(Creators') = Cardinality(Creators) - 1
      /\ Cardinality(Creators) \in Nat /\ Cardinality(Creators') \in Nat
  <2>1. Cardinality(Creators \ {t}) = Cardinality(Creators) - 1
    BY <1>2, <1>3, FS_RemoveElement
  <2>2. IsFiniteSet(Creators')
    BY <1>2, <1>3, FS_Subset
  <2> QED
    BY <1>2, <1>3, <2>1, <2>2, FS_CardinalityType
<1>5. R \in SUBSET Ids /\ IsFiniteSet(R) /\ Cardinality(R) \in Nat
  BY IdsAreFinite DEF Present
<1>6. /\ Cardinality(Present' \ revived') <= Cardinality(R) + 1
      /\ Cardinality(Present' \ revived') \in Nat
  <2>1. PICK S : S = Present' \ revived'
    OBVIOUS
  <2> HIDE DEF R, j
  <2>2. IsFiniteSet(R \cup {j}) /\ Cardinality(R \cup {j}) <= Cardinality(R) + 1
    <3>1. IsFiniteSet(R \cup {j})
      BY <1>5, FS_AddElement
    <3>2. Cardinality(R \cup {j}) = IF j \in R THEN Cardinality(R) ELSE Cardinality(R) + 1
      BY <1>5, FS_AddElement
    <3> QED
      BY <1>5, <3>1, <3>2
  <2>3. S \subseteq R \cup {j}
    BY <2>1 DEF R, j
  <2>4. Cardinality(S) <= Cardinality(R \cup {j}) /\ IsFiniteSet(S)
    BY <2>2, <2>3, FS_Subset
  <2>5. Cardinality(S) \in Nat /\ Cardinality(R \cup {j}) \in Nat
    BY <2>2, <2>4, FS_CardinalityType
  <2> QED
    BY <1>5, <2>1, <2>2, <2>4, <2>5
<1>7. Cardinality(R) + Cardinality(Creators) < MaxRules + Cardinality(Tasks)
  BY DEF RulesIInv, CapInv
<1> HIDE DEF R
<1> QED
  BY <1>3, <1>4, <1>5, <1>6, <1>7 DEF CapInv

LEMMA PutRuleKeeps ==
  ASSUME RulesIInv, NEW t \in Tasks, PutRule(t)
  PROVE  RulesIInv'
<1> PICK r : r = task[t].rule
  OBVIOUS
<1>1. /\ task[t].pc \in {"create", "update"} /\ Put(t, r)
      /\ gated' = IF r.confirm THEN gated \cup {r.id} ELSE gated \ {r.id}
      /\ mark' = IF r.id \in overtaken[t] THEN [mark EXCEPT ![r.id] = r.last_fired] ELSE mark
      /\ Goto(t, Idle, {r.id}) /\ UNCHANGED <<clock, nextId, fired>>
  BY DEF PutRule
<1>2. ShapeInv /\ DocsInv /\ CapInv /\ FiresInv /\ KnownTask(task[t])
  BY DEF RulesIInv, ShapeInv, TasksOK
<1>3. r \in Rules /\ r.id \in Copies(task[t]) /\ r.id \in Ids /\ r.last_fired \in Nat /\ r # NoRule
  <2>1. r \in Rules
    BY <1>1, <1>2, KnownParts
  <2> QED
    BY <1>1, <2>1, RuleParts DEF Copies
<1>4. CopiesOK(task[t], db, clock, overtaken[t])
  BY DEF RulesIInv, HeldInv
<1>5. /\ gated' \subseteq Ids /\ \A i \in Ids : i # r.id => (i \in gated' <=> i \in gated)
      /\ mark' \in [Ids -> Nat] /\ \A i \in Ids : i # r.id => mark'[i] = mark[i]
  BY <1>1, <1>2, <1>3 DEF ShapeInv, StoreOK
<1>6. /\ db'[r.id] = r
      /\ Present' \ revived' \subseteq (Present \ revived) \cup {r.id}
      /\ task[t].pc # "create" => Present' \ revived' \subseteq Present \ revived
  BY <1>1, <1>2, <1>3, PutIs DEF ShapeInv
<1>7. Steps(t, Idle, {r.id})
  BY <1>1, <1>2, <1>3, <1>5, IdleIs, PutSteps
<1>8. DocOK(r.id)'
  <2>1. r.last_fired <= clock
    BY <1>1, <1>4 DEF CopiesOK
  <2>2. mark'[r.id] <= r.last_fired
    <3>1. CASE r.id \in overtaken[t]
      BY <1>1, <1>2, <1>3, <3>1 DEF ShapeInv, StoreOK
    <3>2. CASE r.id \notin overtaken[t] /\ task[t].pc = "update"
      <4>1. db[r.id] # NoRule /\ db[r.id].last_fired = r.last_fired
        BY <1>4, <3>2 DEF CopiesOK
      <4>2. mark[r.id] <= db[r.id].last_fired
        BY <1>2, <1>3, <4>1 DEF DocsInv, DocOK
      <4> QED
        BY <1>1, <3>2, <4>1, <4>2
    <3>3. CASE r.id \notin overtaken[t] /\ task[t].pc = "create"
      <4>1. r.id \notin Present /\ r.last_fired = 0
        BY <1>4, <3>3 DEF CopiesOK, RulesIInv, NewInv
      <4>2. mark[r.id] = 0
        BY <1>2, <1>3, <4>1 DEF DocsInv, DocOK, Present
      <4> QED
        BY <1>1, <3>3, <4>1, <4>2
    <3> QED
      BY <1>1, <3>1, <3>2, <3>3
  <2>3. r.id \in gated' => r.confirm
    BY <1>1
  <2> QED
    BY <1>1, <1>3, <1>6, <2>1, <2>2, <2>3 DEF DocOK
<1>9. CapInv'
  <2>1. CASE task[t].pc = "create"
    BY <1>6, <1>7, <2>1, PutRuleCap
  <2>2. CASE task[t].pc # "create"
    BY <1>2, <1>6, <1>7, <2>2, IdleIs, StepCap
  <2> QED
    BY <2>1, <2>2
<1>10. FiresInv' /\ CopiesOK(Idle, db', clock, overtaken[t])
  BY <1>1, <1>2, SameFires, IdleIs
<1>11. \A i \in {r.id} : DocOK(i)'
  BY <1>8
<1> QED
  BY <1>7, <1>9, <1>10, <1>11, StepKeeps

LEMMA RuleDeleteKeeps ==
  ASSUME RulesIInv, NEW t \in Tasks, NEW i \in Ids, RuleDelete(t, i)
  PROVE  RulesIInv'
<1>1. /\ db' = [db EXCEPT ![i] = NoRule] /\ db[i] # NoRule /\ gated' = gated \ {i}
      /\ mark' = [mark EXCEPT ![i] = 0] /\ revived' = revived \ {i}
      /\ Goto(t, Idle, {i}) /\ UNCHANGED <<clock, nextId, fired>>
  BY DEF RuleDelete
<1>2. ShapeInv /\ StoreOK /\ CapInv /\ FiresInv
  BY DEF RulesIInv, ShapeInv
<1>3. /\ db' \in [Ids -> Rules \cup {NoRule}] /\ db'[i] = NoRule
      /\ mark' \in [Ids -> Nat] /\ mark'[i] = 0
      /\ \A j \in Ids : j # i => db'[j] = db[j] /\ mark'[j] = mark[j]
  BY <1>1, <1>2 DEF StoreOK
<1>4. Present' = Present \ {i} /\ i \in Present
  BY <1>1, <1>3 DEF Present
<1>5. StoreOK'
  <2>1. \A j \in Present' : db'[j].id = j
    BY <1>2, <1>3, <1>4 DEF StoreOK, Present
  <2> QED
    BY <1>1, <1>2, <1>3, <2>1 DEF StoreOK
<1>6. Steps(t, Idle, {i})
  <2>1. nextId <= nextId'
    BY <1>1, <1>2 DEF StoreOK
  <2>2. \A j \in Ids : j \notin {i} => /\ db'[j] = db[j] /\ mark'[j] = mark[j]
                                       /\ j \in gated' <=> j \in gated
    BY <1>1, <1>3
  <2> QED
    BY <1>1, <1>4, <1>5, <2>1, <2>2, IdleIs DEF Steps
<1>7. DocOK(i)'
  BY <1>3 DEF DocOK
<1>8. Present' \ revived' \subseteq Present \ revived
  BY <1>1, <1>4
<1>9. CapInv' /\ FiresInv' /\ CopiesOK(Idle, db', clock, overtaken[t])
  BY <1>1, <1>2, <1>6, <1>8, StepCap, SameFires, IdleIs
<1> QED
  BY <1>6, <1>7, <1>9, StepKeeps

LEMMA OnEventKeeps ==
  ASSUME RulesIInv, NEW t \in Tasks, NEW ev \in Events, OnEvent(t, ev)
  PROVE  RulesIInv'
<1> DEFINE x == [pc |-> "list", ev |-> ev, keys |-> Present]
<1>1. KnownTask(x) /\ Copies(x) = {} /\ x.pc = "list" /\ ~Creating(x)
  BY DEF KnownTask, Listing, Copies, Present, Creating
<1>2. CopiesOK(x, db, clock, overtaken[t])
  BY DEF CopiesOK, Rest
<1>3. Goto(t, x, {}) /\ UNCHANGED <<clock, nextId, ruleVars, fired>>
  BY DEF OnEvent
<1>4. nextId \in Nat /\ nextId' = nextId /\ nextId <= nextId' /\ FiresInv'
  BY <1>3, SameFires DEF RulesIInv, ShapeInv, StoreOK
<1> HIDE DEF x
<1> QED
  BY <1>1, <1>2, <1>3, <1>4, QuietKeeps

LEMMA ListRulesKeeps ==
  ASSUME RulesIInv, NEW t \in Tasks, ListRules(t)
  PROVE  RulesIInv'
<1> DEFINE rest == {db[i] : i \in {j \in task[t].keys \cap Present : Matches(db[j], task[t].ev)}}
<1>1. Goto(t, Onward(rest), {}) /\ UNCHANGED <<clock, nextId, ruleVars, fired>>
  BY DEF ListRules
<1>2. nextId \in Nat /\ nextId' = nextId /\ nextId <= nextId' /\ FiresInv'
  BY <1>1, SameFires DEF RulesIInv, ShapeInv, StoreOK
<1>3. \A r \in rest : r \in Rules /\ r.id \in Present /\ db[r.id] = r
  BY DEF RulesIInv, ShapeInv, StoreOK, Present
<1> HIDE DEF rest
<1>4. rest \in SUBSET Rules /\ IdsOf(rest) \subseteq Present
  BY <1>3 DEF IdsOf
<1>5. CopiesOK(Onward(rest), db, clock, overtaken[t])
  BY <1>3, <1>4, OnwardCopies
<1> QED
  BY <1>1, <1>2, <1>4, <1>5, OnwardIs, QuietKeeps

LEMMA CallFailsKeeps ==
  ASSUME RulesIInv, NEW t \in Tasks, CallFails(t)
  PROVE  RulesIInv'
  BY EndKeeps DEF CallFails

\* The rule a task is at, and what it has left after it.
LEMMA AtRule ==
  ASSUME RulesIInv, NEW t \in Tasks, task[t].pc = "rules", NEW r \in task[t].rest
  PROVE  /\ r \in Rules /\ r.id \in Copies(task[t]) /\ Rest(task[t]) = task[t].rest
         /\ task[t].rest \in SUBSET Rules /\ r.id \notin IdsOf(task[t].rest \ {r})
         /\ r.id \in overtaken[t] \/ db[r.id] = r
         /\ clock \in Nat
<1>1. KnownTask(task[t]) /\ CopiesOK(task[t], db, clock, overtaken[t]) /\ StoreOK
  BY DEF RulesIInv, ShapeInv, TasksOK, HeldInv
<1>2. Rest(task[t]) = task[t].rest /\ task[t].rest \in SUBSET Rules
  BY <1>1, KnownParts DEF Rest
<1>3. r.id \notin IdsOf(task[t].rest \ {r})
  BY <1>1, <1>2 DEF CopiesOK, IdsOf
<1> QED
  BY <1>1, <1>2, <1>3, ClockIs DEF CopiesOK, Copies, IdsOf

LEMMA CoolingDownKeeps ==
  ASSUME RulesIInv, NEW t \in Tasks, NEW r, CoolingDown(t, r)
  PROVE  RulesIInv'
<1>1. /\ Goto(t, Onward(task[t].rest \ {r}), {}) /\ UNCHANGED <<clock, nextId, ruleVars, fired>>
      /\ task[t].pc = "rules" /\ r \in task[t].rest
  BY DEF CoolingDown
<1>2. task[t].rest \ {r} \in SUBSET Rest(task[t])
  BY <1>1, AtRule
<1> QED
  BY <1>1, <1>2, OnwardKeeps

LEMMA HoldKeeps ==
  ASSUME RulesIInv, NEW t \in Tasks, NEW r, Hold(t, r)
  PROVE  RulesIInv'
<1> PICK s : s = Marked(r)
  OBVIOUS
<1> PICK rest : rest = task[t].rest \ {r}
  OBVIOUS
<1>1. /\ task[t].pc = "rules" /\ r \in task[t].rest /\ r.confirm
      /\ UNCHANGED <<clock, nextId, fired>>
      /\ \/ PutMarked(t, s) /\ Goto(t, Onward(rest), {r.id})
         \/ UNCHANGED ruleVars /\ Goto(t, Onward(rest), {})
  BY DEF Hold, Due
<1>2. /\ r \in Rules /\ r.id \in Copies(task[t]) /\ rest \in SUBSET Rest(task[t])
      /\ r.id \notin IdsOf(rest) /\ (r.id \in overtaken[t] \/ db[r.id] = r)
      /\ clock \in Nat /\ r # NoRule
  BY <1>1, AtRule, RuleParts
<1>3. s \in Rules /\ s.id = r.id /\ s.confirm = r.confirm /\ s.last_fired = clock
  BY <1>2, MarkedIs
<1>4. CASE UNCHANGED ruleVars /\ Goto(t, Onward(rest), {})
  BY <1>1, <1>2, <1>4, OnwardKeeps
<1>5. CASE PutMarked(t, s) /\ Goto(t, Onward(rest), {s.id})
  <2>1. s.last_fired <= clock
    BY <1>2, <1>3
  <2>2. s.id \notin overtaken[t] => db[s.id] # NoRule /\ db[s.id].confirm = s.confirm
    BY <1>2, <1>3
  <2>3. s.id \in Copies(task[t]) /\ s.id \notin IdsOf(rest)
    <3>1. r.id \in Copies(task[t]) /\ r.id \notin IdsOf(rest) /\ s.id = r.id
      BY <1>2, <1>3
    <3> QED
      BY <3>1, Zenon
  <2> QED
    BY <1>1, <1>2, <1>3, <1>5, <2>1, <2>2, <2>3, PutMarkedKeeps
<1> QED
  BY <1>1, <1>3, <1>4, <1>5

\* A task is left with a rule it has marked.
LEMMA ToStoreKeeps ==
  ASSUME RulesIInv, NEW t \in Tasks, NEW r, Due(t, r), ToStore(t, r),
         UNCHANGED <<clock, nextId, ruleVars>>, FiresInv'
  PROVE  RulesIInv'
<1> DEFINE s == Marked(r)
           rest == task[t].rest \ {r}
           x == [pc |-> "store", rest |-> rest, rule |-> s]
<1>1. task[t].pc = "rules" /\ r \in task[t].rest /\ Goto(t, x, {})
  BY DEF Due, ToStore
<1>2. /\ r \in Rules /\ r.id \in Copies(task[t]) /\ rest \in SUBSET Rest(task[t])
      /\ r.id \notin IdsOf(rest) /\ (r.id \in overtaken[t] \/ db[r.id] = r)
      /\ clock \in Nat /\ r # NoRule /\ rest \in SUBSET Rules
  BY <1>1, AtRule, RuleParts
<1>3. s \in Rules /\ s.id = r.id /\ s.confirm = r.confirm /\ s.last_fired = clock
  BY <1>2, MarkedIs
<1>4. IdsOf(rest) \subseteq Copies(task[t])
  BY <1>1 DEF Copies, IdsOf
<1>5. CopiesOK(task[t], db, clock, overtaken[t]) /\ nextId \in Nat
  BY DEF RulesIInv, HeldInv, ShapeInv, StoreOK
<1> HIDE DEF s, rest
<1>6. KnownTask(x) /\ x.pc = "store" /\ ~Creating(x) /\ Copies(x) = {r.id} \cup IdsOf(rest)
  BY <1>2, <1>3 DEF KnownTask, Storing, Copies, Creating
<1>7. CopiesOK(x, db, clock, overtaken[t])
  <2>1. \A u \in rest : u.id \in overtaken[t] \/ db[u.id] = u
    BY <1>2, <1>5 DEF CopiesOK
  <2>2. \A u, v \in rest : u.id = v.id => u = v
    BY <1>2, <1>5 DEF CopiesOK
  <2>3. Rest(x) = rest /\ x.rest = rest /\ x.rule = s
    BY DEF Rest
  <2>4. s.id \notin overtaken[t] => db[s.id] # NoRule /\ db[s.id].confirm = s.confirm
    BY <1>2, <1>3
  <2>5. s.last_fired <= clock
    BY <1>2, <1>3
  <2> HIDE DEF x
  <2>6. x.pc = "store" => x.rule.id \notin IdsOf(x.rest)
    <3>1. r.id \notin IdsOf(rest) /\ s.id = r.id /\ x.rest = rest /\ x.rule = s
      BY <1>2, <1>3, <2>3
    <3> QED
      BY <3>1, Zenon
  <2>7. x.pc # "create" /\ x.pc # "update"
    BY <1>6
  <2>8. x.pc = "store" /\ x.rule.id \notin overtaken[t] =>
          db[x.rule.id] # NoRule /\ db[x.rule.id].confirm = x.rule.confirm
    BY <2>3, <2>4
  <2>9. x.rule.last_fired <= clock
    BY <2>3, <2>5
  <2> QED
    BY <2>1, <2>2, <2>3, <2>6, <2>7, <2>8, <2>9 DEF CopiesOK
<1>8. Copies(x) \subseteq Copies(task[t]) /\ nextId' \in Nat /\ nextId <= nextId'
  BY <1>2, <1>4, <1>5, <1>6
<1> HIDE DEF x
<1> QED
  BY <1>1, <1>6, <1>7, <1>8, QuietKeeps

LEMMA CallTargetKeeps ==
  ASSUME RulesIInv, NEW t \in Tasks, NEW r, CallTarget(t, r)
  PROVE  RulesIInv'
<1> DEFINE c == CallOf(t, r)
<1>1. /\ Due(t, r) /\ ~r.confirm /\ fired' = {c} /\ ToStore(t, r)
      /\ UNCHANGED <<clock, nextId, ruleVars>>
      /\ task[t].pc = "rules" /\ r \in task[t].rest /\ CooldownOk(r, clock)
  BY DEF CallTarget, Due
<1>2. /\ r \in Rules /\ clock \in Nat
      /\ r.id \in overtaken[t] \/ db[r.id] = r
  BY <1>1, AtRule
<1>3. c.at = clock /\ c.cooldown = r.cooldown /\ c.mark = mark[r.id]
  BY DEF CallOf
<1>6. c.gated = (r.id \in gated) /\ c.old = (r.id \in overtaken[t])
  BY Zenon DEF CallOf
<1>7. (c.gated => r.id \in gated) /\ (r.id \in overtaken[t] => c.old)
  BY <1>6, Zenon
<1> HIDE DEF c
<1>4. ASSUME r.id \in overtaken[t] PROVE FiresInv'
  <2>1. c.old
    BY <1>4, <1>7, Zenon
  <2>2. \A f \in fired' : f.old
    BY <1>1, <2>1, Zenon
  <2> QED
    BY <2>2, Zenon DEF FiresInv, StoredCooldownKept
<1>5. ASSUME db[r.id] = r PROVE FiresInv'
  <2>1. r.id \in Ids /\ r # NoRule /\ r.last_fired \in Nat /\ r.cooldown \in Nat /\ clock \in Nat
    BY <1>1, <1>2, RuleParts, AtRule
  <2>2. mark[r.id] <= r.last_fired /\ r.last_fired <= clock /\ (r.id \in gated => r.confirm)
    BY <1>5, <2>1 DEF RulesIInv, DocsInv, DocOK
  <2>3. mark[r.id] \in Nat
    BY <2>1 DEF RulesIInv, ShapeInv, StoreOK
  <2>4. c.at - c.mark >= c.cooldown
    BY <1>1, <1>3, <2>1, <2>2, <2>3 DEF CooldownOk
  <2>5. ~c.gated
    BY <1>1, <1>7, <2>2, Zenon
  <2>6. \A f \in fired' : ~f.gated /\ f.at - f.mark >= f.cooldown
    BY <1>1, <2>4, <2>5, Zenon
  <2> QED
    BY <2>6, Zenon DEF FiresInv, StoredCooldownKept
<1> QED
  BY <1>1, <1>2, <1>4, <1>5, ToStoreKeeps

LEMMA TooLargeKeeps ==
  ASSUME RulesIInv, NEW t \in Tasks, NEW r, TooLarge(t, r)
  PROVE  RulesIInv'
<1>1. Due(t, r) /\ ToStore(t, r) /\ UNCHANGED <<clock, nextId, ruleVars, fired>>
  BY DEF TooLarge
<1>2. FiresInv'
  BY <1>1, SameFires DEF RulesIInv
<1> QED
  BY <1>1, <1>2, ToStoreKeeps

LEMMA StoreFiredKeeps ==
  ASSUME RulesIInv, NEW t \in Tasks, StoreFired(t)
  PROVE  RulesIInv'
<1> PICK r : r = task[t].rule
  OBVIOUS
<1> PICK rest : rest = task[t].rest
  OBVIOUS
<1>1. /\ task[t].pc = "store" /\ UNCHANGED <<clock, nextId, fired>>
      /\ \/ PutMarked(t, r) /\ Goto(t, Onward(rest), {r.id})
         \/ UNCHANGED ruleVars /\ Goto(t, Onward(rest), {})
  BY DEF StoreFired
<1>2. KnownTask(task[t]) /\ CopiesOK(task[t], db, clock, overtaken[t])
  BY DEF RulesIInv, ShapeInv, TasksOK, HeldInv
<1>3. r \in Rules /\ r.id \in Copies(task[t]) /\ rest \in SUBSET Rest(task[t])
  BY <1>1, <1>2, KnownParts DEF Rest, Copies
<1>4. /\ r.id \notin IdsOf(rest) /\ r.last_fired <= clock
      /\ r.id \notin overtaken[t] => db[r.id] # NoRule /\ db[r.id].confirm = r.confirm
  BY <1>1, <1>2 DEF CopiesOK
<1>5. CASE UNCHANGED ruleVars /\ Goto(t, Onward(rest), {})
  BY <1>1, <1>3, <1>5, OnwardKeeps
<1>6. CASE PutMarked(t, r) /\ Goto(t, Onward(rest), {r.id})
  BY <1>1, <1>3, <1>4, <1>6, PutMarkedKeeps
<1> QED
  BY <1>1, <1>5, <1>6

\* A second passes; no copy and no mark is from the future.
LEMMA TickKeeps == ASSUME RulesIInv, Tick PROVE RulesIInv'
<1>1. /\ clock' = clock + 1 /\ clock < MaxTime
      /\ UNCHANGED <<nextId, task, overtaken, db, gated, mark, revived, fired>>
  BY DEF Tick, ruleVars
<1>2. clock \in Nat /\ clock' \in Nat /\ clock <= clock' /\ StoreOK' /\ Present' = Present
  <2>1. clock \in Epoch .. MaxTime /\ Epoch \in Nat /\ MaxTime \in Nat
    BY AutomationsAssumption DEF RulesIInv, ShapeInv, StoreOK, Epoch
  <2>2. clock' \in Epoch .. MaxTime /\ clock \in Nat /\ clock' \in Nat /\ clock <= clock'
    BY <1>1, <2>1
  <2> QED
    BY <1>1, <2>2 DEF RulesIInv, ShapeInv, StoreOK, Present
<1>3. HeldInv'
  <2>1. ASSUME NEW t \in Tasks PROVE CopiesOK(task[t], db, clock', overtaken[t])
    <3>1. KnownTask(task[t]) /\ CopiesOK(task[t], db, clock, overtaken[t])
      BY DEF RulesIInv, ShapeInv, TasksOK, HeldInv
    <3>2. task[t].pc \in {"create", "update", "store"} => task[t].rule.last_fired \in Nat
      BY <3>1, KnownParts, RuleParts
    <3> QED
      BY <1>2, <3>1, <3>2 DEF CopiesOK
  <2> QED
    BY <1>1, <2>1 DEF HeldInv
<1>4. DocsInv'
  <2>1. ASSUME NEW i \in Ids PROVE DocOK(i)'
    <3>1. db[i] # NoRule => db[i] \in Rules
      BY DEF RulesIInv, ShapeInv, StoreOK
    <3>2. db[i] # NoRule => db[i].last_fired \in Nat
      BY <3>1, RuleParts
    <3> QED
      BY <1>1, <1>2, <3>2 DEF RulesIInv, DocsInv, DocOK
  <2> QED
    BY <2>1 DEF DocsInv
<1>5. NewInv' /\ CapInv' /\ FiresInv'
  BY <1>1, <1>2, SameFires DEF RulesIInv, NewInv, CapInv, Creators
<1> QED
  BY <1>1, <1>2, <1>3, <1>4, <1>5 DEF RulesIInv, ShapeInv, TasksOK

LEMMA CrashKeeps == ASSUME RulesIInv, Crash PROVE RulesIInv'
<1>1. /\ task' = [t \in Tasks |-> Idle] /\ overtaken' = [t \in Tasks |-> {}]
      /\ UNCHANGED <<clock, nextId, db, gated, mark, revived, fired>>
  BY DEF Crash, ruleVars
<1>2. Present' = Present /\ StoreOK'
  BY <1>1 DEF RulesIInv, ShapeInv, StoreOK, Present
<1>3. TasksOK' /\ HeldInv'
  BY <1>1, IdleIs DEF TasksOK, HeldInv
<1>4. NewInv'
  BY <1>1, <1>2, IdleIs DEF RulesIInv, NewInv
<1>5. DocsInv' /\ FiresInv'
  BY <1>1, SameFires DEF RulesIInv, DocsInv, DocOK
<1>6. CapInv'
  <2>1. Creators' = {}
    BY <1>1, IdleIs DEF Creators
  <2>2. Cardinality(Creators') = 0
    BY <2>1, FS_EmptySet
  <2>3. Cardinality(Creators) \in Nat /\ Cardinality(Tasks) \in Nat
    BY AutomationsAssumption, FS_Subset, FS_CardinalityType DEF Creators
  <2>4. Cardinality(Present \ revived) \in Nat /\ MaxRules \in Nat
    BY IdsAreFinite, AutomationsAssumption DEF Present
  <2>5. Cardinality(Present' \ revived') = Cardinality(Present \ revived)
    BY <1>1, <1>2
  <2> QED
    BY <2>2, <2>3, <2>4, <2>5 DEF RulesIInv, CapInv
<1> QED
  BY <1>2, <1>3, <1>4, <1>5, <1>6 DEF RulesIInv, ShapeInv

LEMMA RulesInitially == Init => RulesIInv
<1> SUFFICES ASSUME Init PROVE RulesIInv
  OBVIOUS
<1>1. Present = {} /\ \A t \in Tasks : task[t] = Idle
  BY DEF Init, Present
<1>2. StoreOK
  BY <1>1, AutomationsAssumption DEF Init, StoreOK, Epoch
<1>3. TasksOK /\ HeldInv /\ NewInv
  BY <1>1, IdleIs DEF Init, TasksOK, HeldInv, NewInv
<1>4. DocsInv /\ FiresInv
  BY DEF Init, DocsInv, DocOK, FiresInv, StoredCooldownKept
<1>5. CapInv
  <2>1. Creators = {} /\ Present \ revived = {}
    BY <1>1, IdleIs DEF Creators
  <2>2. Cardinality(Creators) = 0 /\ Cardinality(Present \ revived) = 0
    BY <2>1, FS_EmptySet
  <2>3. Cardinality(Tasks) \in Nat /\ Cardinality(Tasks) # 0 /\ MaxRules \in Nat
    BY AutomationsAssumption, FS_CardinalityType, FS_EmptySet
  <2> QED
    BY <2>2, <2>3 DEF CapInv
<1> QED
  BY <1>2, <1>3, <1>4, <1>5 DEF RulesIInv, ShapeInv

LEMMA RulesKept == RulesIInv /\ [Next]_vars => RulesIInv'
<1> SUFFICES ASSUME RulesIInv, [Next]_vars PROVE RulesIInv'
  OBVIOUS
<1>1. CASE UNCHANGED vars
  BY <1>1 DEF vars, RulesIInv, ShapeInv, StoreOK, TasksOK, NewInv, HeldInv, DocsInv, DocOK,
              FiresInv, StoredCooldownKept, CapInv, Creators, Present
<1>2. ASSUME NEW t \in Tasks,
             DrawId(t) \/ PutRule(t) \/ CallFails(t) \/ ListRules(t) \/ StoreFired(t)
      PROVE  RulesIInv'
  BY <1>2, DrawIdKeeps, PutRuleKeeps, CallFailsKeeps, ListRulesKeeps, StoreFiredKeeps
<1>3. ASSUME NEW t \in Tasks, NEW f \in Forms,
             CreateBegin(t, f) \/ \E i \in Ids : UpdateBegin(t, i, f)
      PROVE  RulesIInv'
  BY <1>3, CreateBeginKeeps, UpdateBeginKeeps
<1>4. ASSUME NEW t \in Tasks, \/ \E i \in Ids : RuleDelete(t, i)
                              \/ \E ev \in Events : OnEvent(t, ev)
      PROVE  RulesIInv'
  BY <1>4, RuleDeleteKeeps, OnEventKeeps
<1>5. ASSUME NEW t \in Tasks, NEW r,
             CoolingDown(t, r) \/ Hold(t, r) \/ CallTarget(t, r) \/ TooLarge(t, r)
      PROVE  RulesIInv'
  BY <1>5, CoolingDownKeeps, HoldKeeps, CallTargetKeeps, TooLargeKeeps
<1>6. CASE Next
  BY <1>2, <1>3, <1>4, <1>5, <1>6, TickKeeps, CrashKeeps DEF Next
<1> QED
  BY <1>1, <1>6

LEMMA RulesGiveTypes == RulesIInv => TypeOK
<1> SUFFICES ASSUME RulesIInv PROVE TypeOK
  OBVIOUS
<1>1. ASSUME NEW t \in Tasks
      PROVE  \/ task[t] = Idle
             \/ task[t].pc = "id" /\ task[t].form \in Forms
             \/ task[t].pc \in {"create", "update"} /\ task[t].rule \in Rules
             \/ task[t].pc = "list" /\ task[t].keys \subseteq Ids
             \/ task[t].pc = "rules" /\ task[t].rest \in (SUBSET Rules) \ {{}}
             \/ task[t].pc = "store" /\ task[t].rest \subseteq Rules /\ task[t].rule \in Rules
  BY DEF RulesIInv, ShapeInv, TasksOK, KnownTask, Counting, Putting, Listing, Matching, Storing
<1> QED
  BY <1>1 DEF TypeOK, RulesIInv, ShapeInv, StoreOK, TasksOK

LEMMA RulesGiveCreated == RulesIInv => CreatedIsNew
<1> SUFFICES ASSUME RulesIInv, NEW t \in Tasks, task[t].pc = "create"
             PROVE  /\ db[task[t].rule.id] = NoRule
                    /\ \A u \in Tasks \ {t} : task[t].rule.id \notin Copies(task[u])
  BY DEF CreatedIsNew
<1>1. task[t].rule.id \in Ids
  BY KnownParts, RuleParts DEF RulesIInv, ShapeInv, TasksOK
<1> QED
  BY <1>1 DEF RulesIInv, NewInv, Present

LEMMA RulesGiveCap == RulesIInv => CapKept
<1> SUFFICES ASSUME RulesIInv PROVE CapKept
  OBVIOUS
<1>1. Cardinality(Creators) \in Nat /\ Cardinality(Tasks) \in Nat
  BY AutomationsAssumption, FS_Subset, FS_CardinalityType DEF Creators
<1>2. Cardinality(Present \ revived) \in Nat /\ MaxRules \in Nat
  BY IdsAreFinite, AutomationsAssumption DEF Present
<1> QED
  BY <1>1, <1>2 DEF RulesIInv, CapInv, CapKept

\* The invariant of the rules is kept by every step of the plugin.
THEOREM RulesStayInvariant == Spec => []RulesIInv
  BY RulesInitially, RulesKept, PTL DEF Spec

\* Whatever tasks overlap, and whatever fails, tasks hold well-formed copies of
\* the rules, and a rule that is created takes no other rule's place
\* (rule_set, next_id).
THEOREM CreatedRulesAreNew == Spec => [](TypeOK /\ CreatedIsNew)
<1>1. RulesIInv => TypeOK /\ CreatedIsNew
  BY RulesGiveTypes, RulesGiveCreated
<1> QED
  BY <1>1, RulesStayInvariant, PTL

\* Once rule_set has stored requires_confirmation it stays stored, and no event
\* whose task listed the rule after that calls the rule's action until rule_set
\* clears it, however tasks overlap, whatever fails and however often the plugin is
\* restarted (on_event, apply).
THEOREM GateIsKept == Spec => []GateKept
<1>1. RulesIInv => GateKept
  BY DEF RulesIInv, DocsInv, DocOK, FiresInv, GateKept, Present
<1> QED
  BY <1>1, RulesStayInvariant, PTL

\* What the runs check of the rules and of the plugin's serve loop, for every
\* number of rules, tasks, calls, failures and restarts, however the tasks overlap
\* (rule_set, on_event, run).
THEOREM RulesAreKept == Spec /\ ClockSpec => []AutomationsInv
<1>1. RulesIInv => RuleInv /\ StoredCooldownKept
  BY RulesGiveTypes, RulesGiveCreated, RulesGiveCap DEF RulesIInv, FiresInv, RuleInv
<1>2. RuleInv /\ StoredCooldownKept /\ MixedWithinInstant => AutomationsInv
  BY DEF AutomationsInv
<1> QED
  BY <1>1, <1>2, RulesStayInvariant, AnswersMixOnlyWithinInstant, PTL

-----------------------------------------------------------------------------
(***************************************************************************)
(* The agent's memory (MCDecide's part "memory").                          *)
(***************************************************************************)
People == Goals \cup Mm!Requests
Stamps == Nat \X Nat
Entries == [id : Stamps, session : {SessionOf[g] : g \in Goals}]
Minds == [pc : {"idle", "stamped", "store", "done", "delete", "lock", "write", "wipe"},
          at : Nat, n : Nat, i : Nat, snap : SUBSET Entries, id : Stamps \cup {None},
          todo : SUBSET Stamps, gone : SUBSET Stamps, failed : BOOLEAN,
          of : Sessions \cup {None}]
HoldsLock(p) == mem[p].pc \in {"store", "write", "wipe"}

\* The lock has one holder, and each task keeps to its own states.
MindsInv ==
  /\ mem \in [People -> Minds]
  /\ index \subseteq Entries /\ DOMAIN vectors \subseteq Stamps
  /\ ms \in 0 .. MaxStamp
  /\ indexLock \in People \cup {None}
  /\ \A p \in People : HoldsLock(p) <=> indexLock = p
  /\ \A g \in Goals : mem[g].pc \in {"idle", "stamped", "store", "done"}
  /\ mem["forget"].pc \in {"idle", "delete", "lock", "write"}
  /\ \A p \in {"clear", "session"} : mem[p].pc \in {"idle", "lock", "wipe"}

\* A goal whose task is m has used this id for a fact.
Used(m, id) == m.pc # "idle" /\ m.at = id[1] /\ id[2] < m.i
UsedFor(M, id, s) == \E g \in Goals : Used(M[g], id) /\ s = SessionOf[g]

\* An id that is stored, in the index or about to be forgotten is one that a
\* goal of that session used.
UsedInv ==
  /\ \A g \in Goals :
       /\ mem[g].i <= mem[g].n /\ mem[g].n <= MaxFacts
       /\ mem[g].pc \in {"idle", "stamped"} => mem[g].i = 0
       /\ mem[g].n > 0 => mem[g].at <= MaxStamp
  /\ \A id \in DOMAIN vectors :
       /\ vectors[id].goal \in Goals /\ Used(mem[vectors[id].goal], id)
       /\ vectors[id].session = SessionOf[vectors[id].goal]
  /\ \A e \in index : UsedFor(mem, e.id, e.session)
  /\ \A g \in Goals : HoldsLock(g) => \A e \in mem[g].snap : UsedFor(mem, e.id, e.session)
  /\ mem["forget"].pc # "idle" =>
       mem["forget"].id \in Stamps /\ \E g \in Goals : Used(mem[g], mem["forget"].id)

\* The index, or the copy of it that a goal adds to.
InSight == IF indexLock \in Goals THEN mem[indexLock].snap ELSE index
Named == DOMAIN vectors \subseteq Mm!FactIds(InSight) \cup excused \cup Mm!Collided
Asked(p) == IF p = "session" THEN {e \in index : e.session = mem[p].of} ELSE index

\* Facts are named, and a request that holds the lock has done this of its work.
NamedInv ==
  /\ Named
  /\ \A p \in Mm!Requests : HoldsLock(p) => mem[p].snap = index
  /\ mem["forget"].pc \in {"lock", "write"} =>
       mem["forget"].id \notin DOMAIN vectors \/ mem["forget"].id \in Mm!Collided
  /\ \A p \in {"clear", "session"} :
       /\ mem[p].pc # "wipe" => mem[p].gone = {}
       /\ mem[p].gone \cap DOMAIN vectors = {}
       /\ mem[p].pc = "wipe" => Mm!FactIds(Asked(p)) \subseteq mem[p].todo \cup mem[p].gone
  /\ mem["clear"].failed = FALSE /\ left = {}

MemoryIInv == MindsInv /\ UsedInv /\ NamedInv

-----------------------------------------------------------------------------
(* Rows, and what a step of one task leaves of the others.                  *)

LEMMA MindFields ==
    ASSUME NEW m \in Minds
    PROVE  /\ m.pc \in {"idle", "stamped", "store", "done", "delete", "lock", "write", "wipe"}
           /\ m.at \in Nat /\ m.n \in Nat /\ m.i \in Nat /\ m.snap \subseteq Entries
           /\ m.id \in Stamps \cup {None} /\ m.todo \subseteq Stamps /\ m.gone \subseteq Stamps
           /\ m.failed \in BOOLEAN /\ m.of \in Sessions \cup {None}
BY DEF Minds

LEMMA MindsOf ==
    ASSUME MindsInv, NEW p \in People
    PROVE  mem[p] \in Minds
BY DEF MindsInv

LEMMA IdleIsMind == Mm!Idle \in Minds
BY DEF Mm!Idle, Minds

\* What goals may become for what they used to stay used.
Grows ==
  \A g \in Goals : mem[g].pc # "idle" =>
    /\ mem'[g].pc # "idle" /\ mem'[g].at = mem[g].at
    /\ mem[g].i <= mem'[g].i /\ mem'[g].n = mem[g].n

LEMMA UsedKept ==
    ASSUME MindsInv, MindsInv', Grows
    PROVE  /\ \A g \in Goals, id \in Stamps : Used(mem[g], id) => Used(mem'[g], id)
           /\ \A id \in Stamps : \A s : UsedFor(mem, id, s) => UsedFor(mem', id, s)
           /\ Mm!Collided \subseteq Mm!Collided'
<1>1. \A g \in Goals : mem[g].i \in Nat /\ mem'[g].i \in Nat
  BY MindsOf, MindFields DEF MindsInv, People
<1>2. \A g \in Goals, id \in Stamps : Used(mem[g], id) => Used(mem'[g], id)
  BY <1>1 DEF Used, Grows, Stamps
<1>3. Mm!Collided \subseteq Mm!Collided'
  BY DEF Mm!Collided, Mm!Stamped, Grows
<1> QED
  BY <1>2, <1>3 DEF UsedFor

\* An id of one goal that has the time of another is one that collided.
LEMMA TwoGoals ==
    ASSUME MindsInv, UsedInv, NEW g \in Goals, NEW h \in Goals, g # h, NEW id \in Stamps,
           Used(mem[g], id), mem[h].pc # "idle", mem[h].at = id[1]
    PROVE  id \in Mm!Collided
<1>1. mem[g].i \in Nat /\ mem[g].n \in Nat /\ mem[g].at \in Nat
  BY MindsOf, MindFields DEF People
<1>2. mem[g].i <= mem[g].n /\ mem[g].n <= MaxFacts /\ (mem[g].n > 0 => mem[g].at <= MaxStamp)
  BY DEF UsedInv
<1>3. id[1] \in Nat /\ id[2] \in Nat /\ id = <<id[1], id[2]>>
  BY DEF Stamps
<1>4. mem[g].at = id[1] /\ id[2] < mem[g].i
  BY DEF Used
<1>5. MaxStamp \in Nat /\ MaxFacts \in Nat
  BY KnowledgeBounds DEF Mm!KnowledgeAssumption, Mm!MemoryAssumption
<1>6. id \in (0 .. MaxStamp) \X (0 .. MaxFacts)
  BY <1>1, <1>2, <1>3, <1>4, <1>5
<1>7. g \in Mm!Stamped /\ h \in Mm!Stamped
  BY DEF Mm!Stamped, Used
<1> QED
  BY <1>4, <1>6, <1>7 DEF Mm!Collided

\* Task p becomes r, and takes the lock, keeps it or gives it back.
LEMMA MindsMove ==
    ASSUME MindsInv, NEW p \in People, NEW r \in Minds, mem' = [mem EXCEPT ![p] = r],
           index' \subseteq Entries, DOMAIN vectors' \subseteq Stamps, ms' = ms,
           IF r.pc \in {"store", "write", "wipe"} THEN indexLock \in {p, None} /\ indexLock' = p
           ELSE indexLock' = IF HoldsLock(p) THEN None ELSE indexLock,
           p \in Goals => r.pc \in {"idle", "stamped", "store", "done"},
           p = "forget" => r.pc \in {"idle", "delete", "lock", "write"},
           p \in {"clear", "session"} => r.pc \in {"idle", "lock", "wipe"}
    PROVE  MindsInv'
<1>1. None \notin People
  BY KnowledgeBounds DEF Mm!KnowledgeAssumption, Mm!MemoryAssumption, People
<1>2. mem' \in [People -> Minds] /\ mem'[p] = r /\ \A q \in People \ {p} : mem'[q] = mem[q]
  BY DEF MindsInv
<1>3. \A q \in People : HoldsLock(q) <=> indexLock = q
  BY DEF MindsInv
<1>4. \A q \in People \ {p} : HoldsLock(q)' <=> HoldsLock(q)
  BY <1>2 DEF HoldsLock
<1>5. HoldsLock(p)' <=> r.pc \in {"store", "write", "wipe"}
  BY <1>2 DEF HoldsLock
<1>6. indexLock \in People \cup {None}
  BY DEF MindsInv
<1>7. indexLock' \in People \cup {None} /\ \A q \in People : HoldsLock(q)' <=> indexLock' = q
  BY <1>1, <1>3, <1>4, <1>5, <1>6
<1>8. "forget" \in People /\ "clear" \in People /\ "session" \in People /\ Goals \subseteq People
  BY DEF People, Mm!Requests
<1>9. \A g \in Goals : mem'[g].pc \in {"idle", "stamped", "store", "done"}
  BY <1>2, <1>8 DEF MindsInv
<1>10. mem'["forget"].pc \in {"idle", "delete", "lock", "write"}
  BY <1>2, <1>8 DEF MindsInv
<1>11. \A q \in {"clear", "session"} : mem'[q].pc \in {"idle", "lock", "wipe"}
  BY <1>2, <1>8 DEF MindsInv
<1>12. ms' \in 0 .. MaxStamp
  BY DEF MindsInv
<1> QED
  BY <1>2, <1>7, <1>9, <1>10, <1>11, <1>12 DEF MindsInv

\* What a goal's numbers say: it has used no more ids than it has facts.
Counts(m) ==
  /\ m.i <= m.n /\ m.n <= MaxFacts
  /\ m.pc \in {"idle", "stamped"} => m.i = 0
  /\ m.n > 0 => m.at <= MaxStamp
\* Only used ids are added, to the store, the index and a goal's copy of it.
OnlyUsed ==
  /\ \A id \in DOMAIN vectors' :
       \/ id \in DOMAIN vectors /\ vectors'[id] = vectors[id]
       \/ \E g \in Goals : Used(mem'[g], id) /\ vectors'[id] = [session |-> SessionOf[g], goal |-> g]
  /\ \A e \in index' : e \in index \/ UsedFor(mem', e.id, e.session)
  /\ \A g \in Goals : HoldsLock(g)' => \A e \in mem'[g].snap :
       e \in index \/ (HoldsLock(g) /\ e \in mem[g].snap) \/ UsedFor(mem', e.id, e.session)
  /\ mem'["forget"].pc # "idle" =>
       \/ mem["forget"].pc # "idle" /\ mem'["forget"].id = mem["forget"].id
       \/ mem'["forget"].id \in DOMAIN vectors

LEMMA UsedMove ==
    ASSUME MindsInv, MindsInv', UsedInv, Grows, \A g \in Goals : Counts(mem'[g]), OnlyUsed
    PROVE  UsedInv'
<1>1. /\ \A g \in Goals, id \in Stamps : Used(mem[g], id) => Used(mem'[g], id)
      /\ \A id \in Stamps : \A s : UsedFor(mem, id, s) => UsedFor(mem', id, s)
  BY UsedKept
<1>2. DOMAIN vectors \subseteq Stamps /\ DOMAIN vectors' \subseteq Stamps
  BY DEF MindsInv
<1>3. \A id \in DOMAIN vectors' :
        /\ vectors'[id].goal \in Goals /\ Used(mem'[vectors'[id].goal], id)
        /\ vectors'[id].session = SessionOf[vectors'[id].goal]
  <2> SUFFICES ASSUME NEW id \in DOMAIN vectors'
               PROVE  /\ vectors'[id].goal \in Goals /\ Used(mem'[vectors'[id].goal], id)
                      /\ vectors'[id].session = SessionOf[vectors'[id].goal]
    OBVIOUS
  <2>1. CASE id \in DOMAIN vectors /\ vectors'[id] = vectors[id]
    <3>1. /\ vectors[id].goal \in Goals /\ Used(mem[vectors[id].goal], id)
          /\ vectors[id].session = SessionOf[vectors[id].goal]
      BY <2>1 DEF UsedInv
    <3>2. Used(mem'[vectors[id].goal], id)
      BY <1>1, <1>2, <2>1, <3>1
    <3> QED
      BY <2>1, <3>1, <3>2
  <2>2. ASSUME NEW g \in Goals, Used(mem'[g], id), vectors'[id] = [session |-> SessionOf[g], goal |-> g]
        PROVE  /\ vectors'[id].goal \in Goals /\ Used(mem'[vectors'[id].goal], id)
               /\ vectors'[id].session = SessionOf[vectors'[id].goal]
    BY <2>2 DEF Used
  <2> QED
    BY <2>1, <2>2 DEF OnlyUsed
<1>4. \A e \in index : e.id \in Stamps /\ UsedFor(mem, e.id, e.session)
  BY DEF UsedInv, MindsInv, Entries
<1>5. \A e \in index' : UsedFor(mem', e.id, e.session)
  BY <1>1, <1>4 DEF OnlyUsed
<1>6. \A g \in Goals : HoldsLock(g) => \A e \in mem[g].snap : e.id \in Stamps /\ UsedFor(mem, e.id, e.session)
  BY MindsOf, MindFields DEF UsedInv, Entries, People
<1>7. \A g \in Goals : HoldsLock(g)' => \A e \in mem'[g].snap : UsedFor(mem', e.id, e.session)
  BY <1>1, <1>4, <1>6 DEF OnlyUsed
<1>8. mem'["forget"].pc # "idle" =>
        mem'["forget"].id \in Stamps /\ \E g \in Goals : Used(mem'[g], mem'["forget"].id)
  <2> SUFFICES ASSUME mem'["forget"].pc # "idle"
               PROVE  mem'["forget"].id \in Stamps /\ \E g \in Goals : Used(mem'[g], mem'["forget"].id)
    OBVIOUS
  <2>1. PICK x : x = mem'["forget"].id
    OBVIOUS
  <2>2. x \in Stamps /\ \E g \in Goals : Used(mem[g], x)
    BY <1>2, <2>1 DEF UsedInv, OnlyUsed
  <2>3. \E g \in Goals : Used(mem'[g], x)
    BY <1>1, <2>2
  <2> QED
    BY <2>1, <2>2, <2>3 DEF Used
<1>9. \A g \in Goals : /\ mem'[g].i <= mem'[g].n /\ mem'[g].n <= MaxFacts
                       /\ mem'[g].pc \in {"idle", "stamped"} => mem'[g].i = 0
                       /\ mem'[g].n > 0 => mem'[g].at <= MaxStamp
  BY DEF Counts
<1> QED
  BY <1>3, <1>5, <1>7, <1>8, <1>9 DEF UsedInv

LEMMA ForgetIsNoGoal == "forget" \in People \ Goals /\ {"clear", "session"} \subseteq People \ Goals
BY KnowledgeBounds DEF Mm!KnowledgeAssumption, Mm!MemoryAssumption, Mm!Requests, People

LEMMA NoneIsNobody == None \notin People /\ None \notin Goals
BY KnowledgeBounds DEF Mm!KnowledgeAssumption, Mm!MemoryAssumption, People

\* A step of p that neither has nor gets the lock, and stores nothing.
Aside(p, r) ==
  /\ mem' = [mem EXCEPT ![p] = r] /\ ~HoldsLock(p) /\ r.pc \notin {"store", "write", "wipe"}
  /\ DOMAIN vectors' \subseteq DOMAIN vectors /\ \A id \in DOMAIN vectors' : vectors'[id] = vectors[id]
  /\ UNCHANGED <<ms, index, excused, indexLock>> /\ left' = {}
  /\ p \in Goals => r.pc \in {"idle", "stamped", "done"}
  /\ p = "forget" =>
       /\ r.pc \in {"idle", "delete", "lock"}
       /\ r.pc # "idle" => \/ r.id = mem["forget"].id /\ mem["forget"].pc # "idle"
                           \/ r.id \in DOMAIN vectors
       /\ r.pc = "lock" => r.id \notin DOMAIN vectors'
  /\ p \in {"clear", "session"} => r.pc \in {"idle", "lock"} /\ r.gone = {} /\ r.failed = FALSE
\* What goal g may become.
MayBecome(g, r) ==
  /\ Counts(r)
  /\ mem[g].pc # "idle" =>
       r.pc # "idle" /\ r.at = mem[g].at /\ mem[g].i <= r.i /\ r.n = mem[g].n

LEMMA OthersStay ==
    ASSUME MindsInv, NEW p \in People, NEW r \in Minds, mem' = [mem EXCEPT ![p] = r]
    PROVE  /\ mem'[p] = r /\ \A q \in People \ {p} : mem'[q] = mem[q]
           /\ \A q \in People \ {p} : HoldsLock(q)' = HoldsLock(q)
           /\ HoldsLock(p)' = (r.pc \in {"store", "write", "wipe"})
BY DEF MindsInv, HoldsLock

LEMMA GrowsBy ==
    ASSUME MindsInv, UsedInv, NEW p \in People, NEW r \in Minds, mem' = [mem EXCEPT ![p] = r],
           p \in Goals => MayBecome(p, r)
    PROVE  Grows /\ \A g \in Goals : Counts(mem'[g])
<1>1. mem'[p] = r /\ \A q \in People \ {p} : mem'[q] = mem[q]
  BY OthersStay
<1>2. \A g \in Goals : g \in People /\ mem[g].i \in Nat
  BY MindsOf, MindFields DEF People
<1>3. \A g \in Goals : Counts(mem[g])
  BY DEF UsedInv, Counts
<1>4. \A g \in Goals : Counts(mem'[g])
  BY <1>1, <1>2, <1>3 DEF MayBecome
<1>5. Grows
  BY <1>1, <1>2 DEF Grows, MayBecome
<1> QED
  BY <1>4, <1>5

LEMMA AsideKeeps ==
    ASSUME MemoryIInv, NEW p \in People, NEW r \in Minds, Aside(p, r), p \in Goals => MayBecome(p, r)
    PROVE  MemoryIInv'
<1> USE DEF MemoryIInv
<1>1. MindsInv'
  BY MindsMove, ForgetIsNoGoal DEF Aside, MindsInv
<1>2. mem'[p] = r /\ (\A q \in People \ {p} : mem'[q] = mem[q])
      /\ (\A q \in People \ {p} : HoldsLock(q)' = HoldsLock(q)) /\ ~HoldsLock(p)'
  BY OthersStay DEF Aside
<1>3. Grows /\ \A g \in Goals : Counts(mem'[g])
  BY GrowsBy DEF Aside
<1>4. OnlyUsed
  <2>1. \A g \in Goals : HoldsLock(g)' => HoldsLock(g) /\ mem'[g] = mem[g]
    BY <1>2 DEF People
  <2>2. mem'["forget"].pc # "idle" =>
          \/ mem["forget"].pc # "idle" /\ mem'["forget"].id = mem["forget"].id
          \/ mem'["forget"].id \in DOMAIN vectors
    BY <1>2, ForgetIsNoGoal DEF Aside
  <2>3. index' = index /\ \A id \in DOMAIN vectors' : id \in DOMAIN vectors /\ vectors'[id] = vectors[id]
    BY DEF Aside
  <2> QED
    BY <2>1, <2>2, <2>3 DEF OnlyUsed
<1>5. UsedInv'
  BY <1>1, <1>3, <1>4, UsedMove
<1>6. Mm!Collided \subseteq Mm!Collided'
  BY <1>1, <1>3, UsedKept
<1>7. Named'
  <2>1. indexLock \in Goals => mem'[indexLock] = mem[indexLock]
    BY <1>2 DEF MindsInv, Aside, People
  <2>2. InSight' = InSight
    BY <2>1 DEF InSight, Aside
  <2> QED
    BY <2>2, <1>6 DEF Named, NamedInv, Mm!FactIds, Aside
<1>8. \A q \in Mm!Requests : HoldsLock(q)' => mem'[q].snap = index'
  BY <1>2 DEF NamedInv, Aside, People
<1>9. mem'["forget"].pc \in {"lock", "write"} =>
        mem'["forget"].id \notin DOMAIN vectors' \/ mem'["forget"].id \in Mm!Collided'
  BY <1>2, <1>6, ForgetIsNoGoal DEF NamedInv, Aside
<1>10. \A q \in {"clear", "session"} :
        /\ mem'[q].pc # "wipe" => mem'[q].gone = {}
        /\ mem'[q].gone \cap DOMAIN vectors' = {}
        /\ mem'[q].pc = "wipe" => Mm!FactIds(Asked(q)') \subseteq mem'[q].todo \cup mem'[q].gone
  <2> SUFFICES ASSUME NEW q \in {"clear", "session"}
               PROVE  /\ mem'[q].pc # "wipe" => mem'[q].gone = {}
                      /\ mem'[q].gone \cap DOMAIN vectors' = {}
                      /\ mem'[q].pc = "wipe" => Mm!FactIds(Asked(q)') \subseteq mem'[q].todo \cup mem'[q].gone
    OBVIOUS
  <2>1. CASE q = p
    BY <1>2, <2>1 DEF Aside
  <2>2. CASE q # p
    <3>1. mem'[q] = mem[q]
      BY <1>2, <2>2, ForgetIsNoGoal
    <3> QED
      BY <3>1 DEF NamedInv, Asked, Aside
  <2> QED
    BY <2>1, <2>2
<1>11. mem'["clear"].failed = FALSE /\ left' = {}
  BY <1>2, ForgetIsNoGoal DEF Aside, NamedInv
<1>12. NamedInv'
  BY <1>7, <1>8, <1>9, <1>10, <1>11 DEF NamedInv, Mm!FactIds
<1> QED
  BY <1>1, <1>5, <1>12

-----------------------------------------------------------------------------
(* The steps that touch neither the index nor the lock.                     *)

LEMMA MindExcept ==
    ASSUME NEW m \in Minds
    PROVE  /\ [m EXCEPT !.pc = "done"] \in Minds
           /\ \A S \in SUBSET Entries, T \in SUBSET Stamps :
                \A pc \in {"store", "write", "wipe"} :
                  [m EXCEPT !.pc = pc, !.snap = S, !.todo = T] \in Minds
BY DEF Minds

LEMMA DoneIsMind ==
    ASSUME MindsInv, NEW p \in People
    PROVE  Mm!Done(p) \in Minds
BY MindsOf, MindExcept, IdleIsMind DEF Mm!Done

LEMMA KeepsExtract ==
    ASSUME MemoryIInv, NEW g \in Goals, Mm!Extract(g)
    PROVE  MemoryIInv'
<1> USE DEF MemoryIInv
<1>1. g \in People /\ mem[g] \in Minds /\ mem[g].pc = "idle"
  BY MindsOf DEF People, Mm!Extract, Mm!Is
<1>2. PICK n \in 0 .. MaxFacts :
        mem' = [mem EXCEPT ![g] = [mem[g] EXCEPT !.pc = IF n = 0 THEN "done" ELSE "stamped",
                                                !.at = IF n = 0 THEN MaxStamp + 1 ELSE ms, !.n = n]]
  BY DEF Mm!Extract, Mm!Set
<1> DEFINE r == [mem[g] EXCEPT !.pc = IF n = 0 THEN "done" ELSE "stamped",
                               !.at = IF n = 0 THEN MaxStamp + 1 ELSE ms, !.n = n]
<1>3. ms \in Nat /\ ms <= MaxStamp /\ MaxStamp \in Nat /\ MaxFacts \in Nat
  BY KnowledgeBounds DEF MindsInv, Mm!KnowledgeAssumption, Mm!MemoryAssumption
<1>4. r \in Minds /\ r.pc \in {"done", "stamped"} /\ r.n = n /\ r.i = mem[g].i
      /\ (n > 0 => r.at = ms)
  <2>1. PICK x, y : x = (IF n = 0 THEN "done" ELSE "stamped")
                    /\ y = (IF n = 0 THEN MaxStamp + 1 ELSE ms)
    OBVIOUS
  <2>2. r = [mem[g] EXCEPT !.pc = x, !.at = y, !.n = n]
    BY <2>1
  <2>3. x \in {"done", "stamped"} /\ y \in Nat /\ n \in Nat /\ (n > 0 => y = ms)
    BY <1>3, <2>1
  <2> HIDE DEF r
  <2> QED
    BY <1>1, <2>2, <2>3 DEF Minds
<1>5. mem[g].i = 0
  BY <1>1 DEF UsedInv
<1>6. MayBecome(g, r)
  BY <1>1, <1>3, <1>4, <1>5 DEF MayBecome, Counts
<1>7. ~HoldsLock(g)
  BY <1>1 DEF HoldsLock
<1>8. Aside(g, r)
  <2> HIDE DEF r
  <2> QED
    BY <1>2, <1>4, <1>7, ForgetIsNoGoal DEF Aside, Mm!Extract, NamedInv, r
<1> QED
  BY <1>1, <1>4, <1>6, <1>8, AsideKeeps

LEMMA KeepsForgetQuery ==
    ASSUME MemoryIInv, Mm!ForgetQuery
    PROVE  MemoryIInv'
<1> USE DEF MemoryIInv
<1>1. PICK id \in DOMAIN vectors : Mm!Begin("forget", [Mm!Idle EXCEPT !.pc = "delete", !.id = id])
  BY DEF Mm!ForgetQuery
<1>2. PICK r : r = [Mm!Idle EXCEPT !.pc = "delete", !.id = id]
  OBVIOUS
<1>3. r \in Minds /\ r.pc = "delete" /\ r.id = id
  BY <1>2 DEF Mm!Idle, Minds, MindsInv
<1>4. "forget" \in People /\ "forget" \notin Goals /\ ~HoldsLock("forget")
  BY <1>1, ForgetIsNoGoal DEF Mm!Begin, Mm!Is, HoldsLock
<1>5. Aside("forget", r)
  BY <1>1, <1>2, <1>3, <1>4 DEF Aside, Mm!Begin, Mm!Set
<1> QED
  BY <1>3, <1>4, <1>5, AsideKeeps

LEMMA KeepsWipeBegin ==
    ASSUME MemoryIInv, Mm!ClearBegin \/ Mm!SessionBegin
    PROVE  MemoryIInv'
<1> USE DEF MemoryIInv
<1>1. PICK p \in {"clear", "session"}, r \in Minds : Mm!Begin(p, r) /\ r.pc = "lock" /\ r.gone = {} /\ r.failed = FALSE
  <2>1. CASE Mm!ClearBegin
    <3>1. [Mm!Idle EXCEPT !.pc = "lock"] \in Minds
      BY DEF Mm!Idle, Minds
    <3> QED
      BY <2>1, <3>1 DEF Mm!ClearBegin, Mm!Idle
  <2>2. ASSUME NEW s \in Sessions, Mm!Begin("session", [Mm!Idle EXCEPT !.pc = "lock", !.of = s])
        PROVE  \E r \in Minds : Mm!Begin("session", r) /\ r.pc = "lock" /\ r.gone = {} /\ r.failed = FALSE
    <3>1. PICK r : r = [Mm!Idle EXCEPT !.pc = "lock", !.of = s]
      OBVIOUS
    <3>2. r \in Minds /\ r.pc = "lock" /\ r.gone = {} /\ r.failed = FALSE
      BY <3>1 DEF Mm!Idle, Minds
    <3> QED
      BY <2>2, <3>1, <3>2
  <2> QED
    BY <2>1, <2>2 DEF Mm!SessionBegin
<1>4. p \in People /\ p \notin Goals /\ p # "forget" /\ ~HoldsLock(p)
  BY <1>1, ForgetIsNoGoal DEF Mm!Begin, Mm!Is, HoldsLock
<1>5. Aside(p, r)
  BY <1>1, <1>4 DEF Aside, Mm!Begin, Mm!Set
<1> QED
  BY <1>4, <1>5, AsideKeeps

LEMMA KeepsForgetDelete ==
    ASSUME MemoryIInv, Mm!ForgetDelete
    PROVE  MemoryIInv'
<1> USE DEF MemoryIInv
<1>1. "forget" \in People /\ "forget" \notin Goals /\ mem["forget"] \in Minds
      /\ mem["forget"].pc = "delete"
  BY ForgetIsNoGoal, MindsOf DEF Mm!ForgetDelete, Mm!Is
<1>2. PICK r : r \in {Mm!Idle, [mem["forget"] EXCEPT !.pc = "lock"]}
               /\ mem' = [mem EXCEPT !["forget"] = r]
               /\ (r.pc = "lock" => vectors' = Mm!Drop(mem["forget"].id))
  <2>1. [mem["forget"] EXCEPT !.pc = "lock"].pc = "lock" /\ Mm!Idle.pc = "idle"
    BY <1>1 DEF Mm!Idle, Minds
  <2>2. \/ /\ vectors' = Mm!Drop(mem["forget"].id)
           /\ \/ mem' = [mem EXCEPT !["forget"] = [mem["forget"] EXCEPT !.pc = "lock"]]
              \/ mem' = [mem EXCEPT !["forget"] = Mm!Idle]
        \/ mem' = [mem EXCEPT !["forget"] = Mm!Idle]
    BY DEF Mm!ForgetDelete, Mm!Set
  <2> QED
    BY <2>1, <2>2
<1>3. r \in Minds /\ r.pc \in {"idle", "lock"} /\ (r.pc # "idle" => r.id = mem["forget"].id)
  BY <1>1, <1>2, IdleIsMind DEF Minds, Mm!Idle
<1>4. vectors' = vectors \/ vectors' = Mm!Drop(mem["forget"].id)
  BY DEF Mm!ForgetDelete
<1>5. /\ DOMAIN vectors' \subseteq DOMAIN vectors
      /\ \A id \in DOMAIN vectors' : vectors'[id] = vectors[id]
      /\ vectors' = Mm!Drop(mem["forget"].id) => mem["forget"].id \notin DOMAIN vectors'
  BY <1>4 DEF Mm!Drop
<1>6. ~HoldsLock("forget")
  BY <1>1 DEF HoldsLock
<1>7. Aside("forget", r)
  BY <1>1, <1>2, <1>3, <1>5, <1>6 DEF Aside, Mm!ForgetDelete, NamedInv
<1> QED
  BY <1>1, <1>3, <1>7, AsideKeeps

LEMMA KeepsTick ==
    ASSUME MemoryIInv, Mm!Tick
    PROVE  MemoryIInv'
<1> USE DEF MemoryIInv
<1>1. MindsInv'
  BY KnowledgeBounds DEF Mm!Tick, MindsInv, HoldsLock, Mm!KnowledgeAssumption, Mm!MemoryAssumption
<1>2. UsedInv'
  BY DEF Mm!Tick, UsedInv, HoldsLock
<1>3. NamedInv'
  BY DEF Mm!Tick, NamedInv, Named, InSight, HoldsLock, Mm!Collided, Mm!Stamped, Asked, Mm!FactIds
<1> QED
  BY <1>1, <1>2, <1>3

-----------------------------------------------------------------------------
(* The steps under the lock.                                                *)

LEMMA FreeLock ==
    ASSUME MindsInv, indexLock = None, NEW p \in People
    PROVE  ~HoldsLock(p)
BY NoneIsNobody DEF MindsInv

\* A step of the task that takes the lock: it copies the index.
LEMMA TakenKeeps ==
    ASSUME MemoryIInv, indexLock = None, NEW p \in People, NEW to \in {"store", "write", "wipe"},
           NEW T \in SUBSET Stamps,
           mem' = [mem EXCEPT ![p] = [mem[p] EXCEPT !.pc = to, !.snap = index, !.todo = T]],
           indexLock' = p, UNCHANGED <<ms, index, vectors, excused, left>>,
           p \in Goals => to = "store" /\ mem[p].pc = "stamped",
           p = "forget" => to = "write" /\ mem[p].pc = "lock",
           p \in {"clear", "session"} => to = "wipe" /\ mem[p].pc = "lock"
                                         /\ T = Mm!FactIds(Asked(p))
    PROVE  MemoryIInv'
<1> USE DEF MemoryIInv
<1> DEFINE r == [mem[p] EXCEPT !.pc = to, !.snap = index, !.todo = T]
<1>1. r \in Minds
  BY MindsOf, MindExcept DEF MindsInv
<1>2. /\ r.pc = to /\ r.snap = index /\ r.todo = T /\ r.id = mem[p].id /\ r.of = mem[p].of
      /\ r.gone = mem[p].gone /\ r.failed = mem[p].failed /\ r.at = mem[p].at /\ r.n = mem[p].n /\ r.i = mem[p].i
  BY MindsOf DEF Minds
<1> HIDE DEF r
<1>3. mem' = [mem EXCEPT ![p] = r]
  BY DEF r
<1>4. MindsInv'
  <2>1. index' \subseteq Entries /\ DOMAIN vectors' \subseteq Stamps
    BY DEF MindsInv
  <2>2. to \in {"store", "write", "wipe"} /\ indexLock \in {p, None} /\ indexLock' = p
    OBVIOUS
  <2> QED
    BY <1>1, <1>2, <1>3, <2>1, <2>2, MindsMove, ForgetIsNoGoal
<1>5. mem'[p] = r /\ (\A q \in People \ {p} : mem'[q] = mem[q])
      /\ (\A q \in People \ {p} : HoldsLock(q)' = HoldsLock(q)) /\ HoldsLock(p)'
  BY <1>1, <1>2, <1>3, OthersStay
<1>6. Grows /\ \A g \in Goals : Counts(mem'[g])
  <2>1. p \in Goals => MayBecome(p, r)
    BY <1>2, MindsOf, MindFields DEF MayBecome, Counts, UsedInv
  <2> QED
    BY <1>1, <1>3, <2>1, GrowsBy
<1>7. OnlyUsed
  <2>1. \A g \in Goals : HoldsLock(g)' =>
          \/ HoldsLock(g) /\ mem'[g] = mem[g]
          \/ mem'[g].snap = index
    BY <1>2, <1>5 DEF People
  <2>2. mem'["forget"].pc # "idle" =>
          mem["forget"].pc # "idle" /\ mem'["forget"].id = mem["forget"].id
    BY <1>2, <1>5, ForgetIsNoGoal
  <2> QED
    BY <2>1, <2>2 DEF OnlyUsed
<1>8. UsedInv'
  BY <1>4, <1>6, <1>7, UsedMove
<1>9. Mm!Collided \subseteq Mm!Collided'
  BY <1>4, <1>6, UsedKept
<1>10. Named'
  <2>1. InSight' = InSight
    BY <1>2, <1>5, NoneIsNobody DEF InSight
  <2> QED
    BY <2>1, <1>9 DEF Named, NamedInv, Mm!FactIds
<1>11. \A q \in Mm!Requests : HoldsLock(q)' => mem'[q].snap = index'
  BY <1>2, <1>5, FreeLock DEF People
<1>12. mem'["forget"].pc \in {"lock", "write"} =>
         mem'["forget"].id \notin DOMAIN vectors' \/ mem'["forget"].id \in Mm!Collided'
  BY <1>2, <1>5, <1>9, ForgetIsNoGoal DEF NamedInv
<1>13. \A q \in {"clear", "session"} :
        /\ mem'[q].pc # "wipe" => mem'[q].gone = {}
        /\ mem'[q].gone \cap DOMAIN vectors' = {}
        /\ mem'[q].pc = "wipe" => Mm!FactIds(Asked(q)') \subseteq mem'[q].todo \cup mem'[q].gone
  <2> SUFFICES ASSUME NEW q \in {"clear", "session"}
               PROVE  /\ mem'[q].pc # "wipe" => mem'[q].gone = {}
                      /\ mem'[q].gone \cap DOMAIN vectors' = {}
                      /\ mem'[q].pc = "wipe" => Mm!FactIds(Asked(q)') \subseteq mem'[q].todo \cup mem'[q].gone
    OBVIOUS
  <2>1. mem'[q].of = mem[q].of
    BY <1>2, <1>5, ForgetIsNoGoal
  <2>2. Asked(q)' = Asked(q)
    BY <2>1 DEF Asked
  <2>3. CASE q = p
    BY <1>2, <1>5, <2>2, <2>3 DEF NamedInv
  <2>4. CASE q # p
    <3>1. mem'[q] = mem[q]
      BY <1>5, <2>4, ForgetIsNoGoal
    <3> QED
      BY <2>2, <3>1 DEF NamedInv
  <2> QED
    BY <2>3, <2>4
<1>14. mem'["clear"].failed = FALSE
  BY <1>2, <1>5, ForgetIsNoGoal DEF NamedInv
<1>15. NamedInv'
  BY <1>10, <1>11, <1>12, <1>13, <1>14 DEF NamedInv, Mm!FactIds
<1> QED
  BY <1>4, <1>8, <1>15

LEMMA KeepsLock ==
    ASSUME MemoryIInv, NEW p \in People, NEW from, NEW to \in {"store", "write", "wipe"},
           Mm!Lock(p, from, to),
           \/ p \in Goals /\ from = "stamped" /\ to = "store"
           \/ p = "forget" /\ from = "lock" /\ to = "write"
           \/ p \in {"clear", "session"} /\ from = "lock" /\ to = "wipe"
    PROVE  MemoryIInv'
<1> USE DEF MemoryIInv
<1>1. /\ mem[p] \in Minds /\ mem[p].pc = from /\ indexLock = None
      /\ UNCHANGED <<ms, index, vectors, excused, left>>
  BY MindsOf DEF Mm!Lock, Mm!Is
<1>2. CASE Mm!Set(p, Mm!Done(p)) /\ UNCHANGED indexLock
  <2>1. PICK r : r = Mm!Done(p)
    OBVIOUS
  <2>2. r \in Minds /\ r.pc = (IF p \in Goals THEN "done" ELSE "idle")
    BY <2>1, <1>1, DoneIsMind DEF Mm!Done, Mm!Idle, Minds
  <2>3. p \notin Goals => r.gone = {} /\ r.failed = FALSE
    BY <2>1 DEF Mm!Done, Mm!Idle
  <2>4. p \in Goals => MayBecome(p, r)
    <3>1. p \in Goals => r.at = mem[p].at /\ r.n = mem[p].n /\ r.i = mem[p].i
      BY <2>1, <1>1 DEF Mm!Done, Minds
    <3> QED
      BY <2>2, <3>1, <1>1, MindFields DEF MayBecome, Counts, UsedInv
  <2>5. Aside(p, r)
    BY <1>1, <1>2, <2>1, <2>2, <2>3, FreeLock, ForgetIsNoGoal DEF Aside, Mm!Set, NamedInv
  <2> QED
    BY <2>2, <2>4, <2>5, AsideKeeps
<1>3. CASE ~(Mm!Set(p, Mm!Done(p)) /\ UNCHANGED indexLock)
  <2>1. PICK T : /\ T = IF p = "session" THEN Mm!FactIds({e \in index : e.session = mem[p].of})
                        ELSE Mm!FactIds(index)
                 /\ mem' = [mem EXCEPT ![p] = [mem[p] EXCEPT !.pc = to, !.snap = index, !.todo = T]]
                 /\ indexLock' = p
    BY <1>3 DEF Mm!Lock, Mm!Set
  <2>2. T \in SUBSET Stamps
    BY <2>1 DEF Mm!FactIds, MindsInv, Entries
  <2>3. p \in {"clear", "session"} => T = Mm!FactIds(Asked(p))
    BY <2>1 DEF Asked
  <2> QED
    BY <1>1, <2>1, <2>2, <2>3, TakenKeeps, ForgetIsNoGoal
<1> QED
  BY <1>2, <1>3

\* A step that gives the lock back, with what the index then names.
LEMMA ReleasedKeeps ==
    ASSUME MemoryIInv, NEW p \in People, HoldsLock(p), mem' = [mem EXCEPT ![p] = Mm!Done(p)],
           indexLock' = None, ms' = ms, index' \subseteq index \cup InSight, DOMAIN vectors' \subseteq DOMAIN vectors,
           \A id \in DOMAIN vectors' : vectors'[id] = vectors[id],
           DOMAIN vectors' \subseteq Mm!FactIds(index') \cup excused' \cup Mm!Collided, left' = {}
    PROVE  MemoryIInv'
<1> USE DEF MemoryIInv
<1>1. PICK r : r = Mm!Done(p)
  OBVIOUS
<1>2. r \in Minds /\ r.pc = (IF p \in Goals THEN "done" ELSE "idle") /\ mem' = [mem EXCEPT ![p] = r]
  BY <1>1, MindsOf, DoneIsMind DEF Mm!Done, Mm!Idle, Minds
<1>3. /\ p \notin Goals => r.gone = {} /\ r.failed = FALSE
      /\ p \in Goals => r.at = mem[p].at /\ r.n = mem[p].n /\ r.i = mem[p].i
  BY <1>1, MindsOf DEF Mm!Done, Mm!Idle, Minds
<1>4. indexLock = p /\ p # None
  BY NoneIsNobody DEF MindsInv
<1>5. InSight \subseteq Entries /\ (p \notin Goals => InSight = index)
      /\ (p \in Goals => InSight = mem[p].snap)
  BY <1>4, MindsOf, MindFields DEF InSight, MindsInv
<1>6. MindsInv'
  <2>1. index' \subseteq Entries /\ DOMAIN vectors' \subseteq Stamps
    BY <1>5 DEF MindsInv
  <2>2. r.pc \in {"done", "idle"} /\ (p \in Goals => r.pc = "done") /\ (p \notin Goals => r.pc = "idle")
    BY <1>2
  <2> QED
    BY <1>2, <2>1, <2>2, MindsMove, ForgetIsNoGoal
<1>7. mem'[p] = r /\ (\A q \in People \ {p} : mem'[q] = mem[q])
      /\ \A q \in People : ~HoldsLock(q)'
  BY <1>6, <1>2, OthersStay, NoneIsNobody DEF MindsInv
<1>8. Grows /\ \A g \in Goals : Counts(mem'[g])
  <2>1. p \in Goals => MayBecome(p, r)
    BY <1>2, <1>3, MindsOf, MindFields DEF MayBecome, Counts, UsedInv, HoldsLock
  <2> QED
    BY <1>2, <2>1, GrowsBy
<1>9. OnlyUsed
  <2>1. \A e \in index' : e \in index \/ UsedFor(mem', e.id, e.session)
    <3>1. \A e \in InSight : e.id \in Stamps /\ (e \in index \/ UsedFor(mem, e.id, e.session))
      BY <1>5 DEF UsedInv, Entries
    <3>2. \A e \in InSight : e \in index \/ UsedFor(mem', e.id, e.session)
      BY <3>1, <1>6, <1>8, UsedKept
    <3> QED
      BY <3>2
  <2>2. mem'["forget"].pc # "idle" =>
          mem["forget"].pc # "idle" /\ mem'["forget"].id = mem["forget"].id
    BY <1>2, <1>7, ForgetIsNoGoal
  <2>3. Goals \subseteq People
    BY DEF People
  <2> QED
    BY <1>7, <2>1, <2>2, <2>3 DEF OnlyUsed
<1>10. UsedInv'
  BY <1>6, <1>8, <1>9, UsedMove
<1>11. Mm!Collided \subseteq Mm!Collided'
  BY <1>6, <1>8, UsedKept
<1>12. Named'
  BY <1>11, NoneIsNobody DEF Named, InSight, Mm!FactIds
<1>13. \A q \in Mm!Requests : HoldsLock(q)' => mem'[q].snap = index'
  BY <1>7 DEF People
<1>14. mem'["forget"].pc \in {"lock", "write"} =>
         mem'["forget"].id \notin DOMAIN vectors' \/ mem'["forget"].id \in Mm!Collided'
  BY <1>2, <1>7, <1>11, ForgetIsNoGoal DEF NamedInv
<1>15. \A q \in {"clear", "session"} : mem'[q].pc # "wipe" /\ mem'[q].gone = {}
  BY <1>2, <1>3, <1>7, ForgetIsNoGoal DEF NamedInv, HoldsLock
<1>16. mem'["clear"].failed = FALSE
  BY <1>3, <1>7, ForgetIsNoGoal DEF NamedInv
<1>17. NamedInv'
  BY <1>12, <1>13, <1>14, <1>15, <1>16 DEF NamedInv
<1> QED
  BY <1>6, <1>10, <1>17

LEMMA KeepsRemembered ==
    ASSUME MemoryIInv, NEW g \in Goals, Mm!Remembered(g)
    PROVE  MemoryIInv'
<1> USE DEF MemoryIInv
<1>1. g \in People /\ HoldsLock(g) /\ indexLock = g /\ mem[g].snap = InSight
  BY DEF People, Mm!Remembered, Mm!Is, HoldsLock, MindsInv, InSight
<1>2. /\ mem' = [mem EXCEPT ![g] = Mm!Done(g)] /\ indexLock' = None
      /\ UNCHANGED <<ms, vectors, left>>
  BY DEF Mm!Remembered, Mm!Set
<1>3. \/ index' = InSight /\ excused' = excused
      \/ index' = index /\ excused' = excused \cup (Mm!FactIds(InSight) \ Mm!FactIds(index))
  BY <1>1 DEF Mm!Remembered
<1>4. DOMAIN vectors \subseteq Mm!FactIds(InSight) \cup excused \cup Mm!Collided /\ left = {}
  BY DEF NamedInv, Named
<1>5. DOMAIN vectors' \subseteq Mm!FactIds(index') \cup excused' \cup Mm!Collided
  BY <1>2, <1>3, <1>4
<1> QED
  BY <1>1, <1>2, <1>3, <1>4, <1>5, ReleasedKeeps

LEMMA KeepsForgetIndex ==
    ASSUME MemoryIInv, Mm!ForgetIndex
    PROVE  MemoryIInv'
<1> USE DEF MemoryIInv
<1>1. /\ "forget" \in People \ Goals /\ HoldsLock("forget") /\ indexLock = "forget"
      /\ InSight = index /\ mem["forget"].snap = index /\ mem["forget"].pc = "write"
  BY ForgetIsNoGoal DEF Mm!Requests, Mm!ForgetIndex, Mm!Is, HoldsLock, MindsInv, InSight, NamedInv
<1>2. /\ mem' = [mem EXCEPT !["forget"] = Mm!Done("forget")] /\ indexLock' = None
      /\ UNCHANGED <<ms, vectors, excused, left>>
  BY <1>1 DEF Mm!ForgetIndex, Mm!Set, Mm!Done
<1>3. index' = index \/ index' = {e \in index : e.id # mem["forget"].id}
  BY <1>1 DEF Mm!ForgetIndex
<1>4. DOMAIN vectors \subseteq Mm!FactIds(index) \cup excused \cup Mm!Collided /\ left = {}
  BY <1>1 DEF NamedInv, Named
<1>5. mem["forget"].id \notin DOMAIN vectors \/ mem["forget"].id \in Mm!Collided
  BY <1>1 DEF NamedInv
<1>6. DOMAIN vectors' \subseteq Mm!FactIds(index') \cup excused' \cup Mm!Collided
  BY <1>2, <1>3, <1>4, <1>5 DEF Mm!FactIds
<1> QED
  BY <1>1, <1>2, <1>3, <1>4, <1>6, ReleasedKeeps

LEMMA KeepsUpsert ==
    ASSUME MemoryIInv, NEW g \in Goals, Mm!Upsert(g)
    PROVE  MemoryIInv'
<1> USE DEF MemoryIInv
<1> DEFINE m == mem[g]  id == <<m.at, m.i>>
           e == [id |-> id, session |-> SessionOf[g]]
           v == [session |-> SessionOf[g], goal |-> g]
<1>1. /\ g \in People /\ m \in Minds /\ m.pc = "store" /\ m.i < m.n
      /\ HoldsLock(g) /\ indexLock = g /\ InSight = m.snap
      /\ UNCHANGED <<ms, index, indexLock, left>>
  BY MindsOf DEF People, Mm!Upsert, Mm!Is, HoldsLock, MindsInv, InSight
<1>2. m.at \in Nat /\ m.i \in Nat /\ m.n \in Nat /\ m.snap \subseteq Entries
  BY <1>1, MindFields
<1>3. id \in Stamps /\ e \in Entries /\ e.id = id /\ id[1] = m.at /\ id[2] = m.i
  BY <1>2 DEF Stamps, Entries
<1>4. PICK S \in SUBSET Entries :
        /\ mem' = [mem EXCEPT ![g] = [m EXCEPT !.i = m.i + 1, !.snap = S]]
        /\ \/ S = m.snap \cup {e} /\ vectors' = Mm!Put(id, v) /\ excused' = excused
           \/ S = m.snap /\ vectors' = Mm!Put(id, v) /\ excused' = excused \cup {id}
           \/ S = m.snap /\ vectors' = vectors /\ excused' = excused
  <2>1. [m EXCEPT !.i = m.i + 1] = [m EXCEPT !.i = m.i + 1, !.snap = m.snap]
    BY <1>1 DEF Minds
  <2>2. m.snap \cup {e} \in SUBSET Entries
    BY <1>2, <1>3
  <2> QED
    BY <1>2, <2>1, <2>2 DEF Mm!Upsert, Mm!Set
<1>5. PICK r : r = [m EXCEPT !.i = m.i + 1, !.snap = S]
  OBVIOUS
<1>6. /\ r \in Minds /\ r.pc = "store" /\ r.at = m.at /\ r.n = m.n /\ r.i = m.i + 1 /\ r.snap = S
      /\ mem' = [mem EXCEPT ![g] = r]
  <2>1. mem' = [mem EXCEPT ![g] = r]
    BY <1>4, <1>5
  <2> HIDE DEF m
  <2>2. PICK k \in Nat : k = m.i + 1
    BY <1>2
  <2>3. r = [m EXCEPT !.i = k, !.snap = S]
    BY <1>5, <2>2
  <2>4. /\ r \in Minds /\ r.pc = "store" /\ r.at = m.at /\ r.n = m.n /\ r.i = k /\ r.snap = S
    BY <1>1, <2>3 DEF Minds
  <2> QED
    BY <2>1, <2>2, <2>4
<1>7. /\ DOMAIN vectors' \subseteq DOMAIN vectors \cup {id}
      /\ \A d \in DOMAIN vectors' :
           \/ d = id /\ vectors'[d] = v
           \/ d \in DOMAIN vectors /\ vectors'[d] = vectors[d]
      /\ id \in DOMAIN vectors' => id \in DOMAIN vectors \/ id \in excused' \/ e \in S
      /\ excused \subseteq excused' /\ m.snap \subseteq S /\ S \subseteq m.snap \cup {e}
  <2> HIDE DEF m, id, e, v
  <2>1. /\ DOMAIN Mm!Put(id, v) = DOMAIN vectors \cup {id}
        /\ \A d \in DOMAIN vectors \cup {id} : Mm!Put(id, v)[d] = IF d = id THEN v ELSE vectors[d]
    BY DEF Mm!Put
  <2> QED
    BY <1>4, <2>1
<1> HIDE DEF m, id, e, v
<1>8. MindsInv'
  <2>1. index' \subseteq Entries /\ DOMAIN vectors' \subseteq Stamps
    BY <1>1, <1>3, <1>7 DEF MindsInv
  <2> QED
    BY <1>1, <1>6, <2>1, MindsMove, ForgetIsNoGoal
<1>9. /\ mem'[g] = r /\ HoldsLock(g)'
      /\ \A q \in People \ {g} : mem'[q] = mem[q] /\ HoldsLock(q)' = HoldsLock(q) /\ ~HoldsLock(q)
  <2>1. \A q \in People \ {g} : ~HoldsLock(q)
    BY <1>1 DEF MindsInv
  <2> QED
    BY <1>1, <1>6, <2>1, OthersStay
<1>10. Grows /\ \A h \in Goals : Counts(mem'[h])
  <2>1. MayBecome(g, r)
    BY <1>1, <1>2, <1>6 DEF MayBecome, Counts, UsedInv, m
  <2> QED
    BY <1>1, <1>6, <2>1, GrowsBy
<1>11. Used(mem'[g], id)
  BY <1>2, <1>3, <1>6, <1>9 DEF Used
<1>12. OnlyUsed
  <2>1. UsedFor(mem', e.id, e.session)
    BY <1>3, <1>11 DEF UsedFor, e
  <2>2. \A h \in Goals : HoldsLock(h)' => \A x \in mem'[h].snap :
          x \in index \/ (HoldsLock(h) /\ x \in mem[h].snap) \/ UsedFor(mem', x.id, x.session)
    BY <1>1, <1>6, <1>7, <1>9, <2>1 DEF People, m
  <2>3. \A d \in DOMAIN vectors' :
          \/ d \in DOMAIN vectors /\ vectors'[d] = vectors[d]
          \/ \E h \in Goals : Used(mem'[h], d) /\ vectors'[d] = [session |-> SessionOf[h], goal |-> h]
    BY <1>7, <1>11 DEF v
  <2>4. mem'["forget"] = mem["forget"]
    BY <1>9, ForgetIsNoGoal
  <2> QED
    BY <1>1, <2>2, <2>3, <2>4 DEF OnlyUsed
<1>13. UsedInv'
  BY <1>8, <1>10, <1>12, UsedMove
<1>14. Mm!Collided \subseteq Mm!Collided'
  BY <1>8, <1>10, UsedKept
<1>15. Named'
  <2>1. DOMAIN vectors \subseteq Mm!FactIds(m.snap) \cup excused \cup Mm!Collided
    BY <1>1 DEF NamedInv, Named
  <2>2. InSight' = S
    BY <1>1, <1>6, <1>9 DEF InSight
  <2>3. DOMAIN vectors' \subseteq Mm!FactIds(S) \cup excused' \cup Mm!Collided'
    <3>1. Mm!FactIds(m.snap) \subseteq Mm!FactIds(S) /\ (e \in S => id \in Mm!FactIds(S))
      BY <1>3, <1>7 DEF Mm!FactIds
    <3> HIDE DEF Mm!FactIds
    <3> QED
      BY <1>7, <1>14, <2>1, <3>1
  <2> QED
    BY <2>2, <2>3 DEF Named, Mm!FactIds
<1>16. \A q \in Mm!Requests : ~HoldsLock(q)' /\ mem'[q] = mem[q]
  BY <1>9, KnowledgeBounds DEF People, Mm!KnowledgeAssumption, Mm!MemoryAssumption
<1>17. mem'["forget"].pc \in {"lock", "write"} =>
         mem'["forget"].id \notin DOMAIN vectors' \/ mem'["forget"].id \in Mm!Collided'
  <2> SUFFICES ASSUME mem["forget"].pc \in {"lock", "write"}, mem["forget"].id = id
               PROVE  id \in Mm!Collided \/ id \notin DOMAIN vectors'
    BY <1>7, <1>14, <1>16 DEF NamedInv, Mm!Requests
  <2>1. PICK h \in Goals : Used(mem[h], id)
    BY DEF UsedInv
  <2>2. h # g
    BY <1>2, <1>3, <2>1 DEF Used, m
  <2>3. mem[g].pc # "idle" /\ mem[g].at = id[1]
    BY <1>1, <1>3 DEF m
  <2> QED
    BY <1>3, <2>1, <2>2, <2>3, TwoGoals
<1>18. \A q \in {"clear", "session"} : mem'[q].pc # "wipe" /\ mem'[q].gone = {}
  BY <1>16 DEF NamedInv, HoldsLock, Mm!Requests
<1>19. mem'["clear"].failed = FALSE
  BY <1>16 DEF NamedInv, Mm!Requests
<1>20. NamedInv'
  BY <1>19, <1>1, <1>15, <1>16, <1>17, <1>18 DEF NamedInv
<1> QED
  BY <1>8, <1>13, <1>20

LEMMA KeepsWipeOne ==
    ASSUME MemoryIInv, NEW p \in {"clear", "session"}, Mm!WipeOne(p)
    PROVE  MemoryIInv'
<1> USE DEF MemoryIInv
<1> DEFINE m == mem[p]
<1>1. /\ p \in People \ Goals /\ p \in Mm!Requests /\ p # "forget" /\ m \in Minds /\ m.pc = "wipe"
      /\ HoldsLock(p) /\ indexLock = p /\ InSight = index
      /\ UNCHANGED <<ms, index, excused, left>>
  BY ForgetIsNoGoal, MindsOf DEF Mm!WipeOne, Mm!Is, HoldsLock, MindsInv, InSight, Mm!Requests
<1>2. PICK id \in m.todo :
        \/ /\ vectors' = Mm!Drop(id) /\ indexLock' = indexLock
           /\ mem' = [mem EXCEPT ![p] = [m EXCEPT !.todo = m.todo \ {id}, !.gone = m.gone \cup {id}]]
        \/ /\ vectors' = Mm!Drop(id) \/ vectors' = vectors
           /\ \/ indexLock' = None /\ mem' = [mem EXCEPT ![p] = Mm!Done(p)]
              \/ /\ p = "session" /\ indexLock' = indexLock
                 /\ mem' = [mem EXCEPT ![p] = [m EXCEPT !.failed = TRUE]]
  BY <1>1 DEF Mm!WipeOne, Mm!Set, Mm!Done
<1>3. m.todo \subseteq Stamps /\ m.gone \subseteq Stamps /\ m.snap \subseteq Entries /\ id \in Stamps
  BY <1>1, MindFields
<1>4. /\ DOMAIN vectors' \subseteq DOMAIN vectors
      /\ \A d \in DOMAIN vectors' : vectors'[d] = vectors[d]
      /\ vectors' = Mm!Drop(id) => id \notin DOMAIN vectors'
  BY <1>2 DEF Mm!Drop
<1>5. DOMAIN vectors \subseteq Mm!FactIds(index) \cup excused \cup Mm!Collided /\ left = {}
  BY <1>1 DEF NamedInv, Named
<1>6. CASE indexLock' = None /\ mem' = [mem EXCEPT ![p] = Mm!Done(p)]
  <2>1. DOMAIN vectors' \subseteq Mm!FactIds(index') \cup excused' \cup Mm!Collided
    BY <1>1, <1>4, <1>5
  <2> QED
    BY <1>1, <1>4, <1>5, <1>6, <2>1, ReleasedKeeps
<1>7. ASSUME NEW r, indexLock' = indexLock, mem' = [mem EXCEPT ![p] = r],
             \/ r = [m EXCEPT !.todo = m.todo \ {id}, !.gone = m.gone \cup {id}] /\ vectors' = Mm!Drop(id)
             \/ p = "session" /\ r = [m EXCEPT !.failed = TRUE]
      PROVE  MemoryIInv'
  <2> HIDE DEF m
  <2>1. /\ r \in Minds /\ r.pc = "wipe" /\ r.snap = m.snap /\ r.of = m.of
        /\ p = "clear" => r.failed = m.failed
        /\ m.todo \cup m.gone \subseteq r.todo \cup r.gone
        /\ r.gone \subseteq m.gone \cup {id} /\ (vectors' # Mm!Drop(id) => r.gone \subseteq m.gone)
    <3>1. CASE p = "session" /\ r = [m EXCEPT !.failed = TRUE]
      BY <1>1, <3>1 DEF Minds
    <3>2. CASE r = [m EXCEPT !.todo = m.todo \ {id}, !.gone = m.gone \cup {id}] /\ vectors' = Mm!Drop(id)
      <4>1. PICK T \in SUBSET Stamps, G \in SUBSET Stamps : T = m.todo \ {id} /\ G = m.gone \cup {id}
        BY <1>3
      <4>2. r = [m EXCEPT !.todo = T, !.gone = G]
        BY <3>2, <4>1
      <4>3. /\ r \in Minds /\ r.pc = "wipe" /\ r.snap = m.snap /\ r.of = m.of /\ r.todo = T /\ r.gone = G
              /\ r.failed = m.failed
        BY <1>1, <4>2 DEF Minds
      <4> QED
        BY <3>2, <4>1, <4>3
    <3> QED
      BY <1>7, <3>1, <3>2
  <2>2. r.gone \cap DOMAIN vectors' = {}
    <3>1. m.gone \cap DOMAIN vectors = {}
      BY <1>1 DEF NamedInv, m
    <3> QED
      BY <1>4, <2>1, <3>1
  <2>3. MindsInv'
    <3>1. index' \subseteq Entries /\ DOMAIN vectors' \subseteq Stamps
      BY <1>1, <1>4 DEF MindsInv
    <3> QED
      BY <1>1, <1>7, <2>1, <3>1, MindsMove
  <2>4. /\ mem'[p] = r
        /\ \A q \in People \ {p} : mem'[q] = mem[q] /\ HoldsLock(q)' = HoldsLock(q) /\ ~HoldsLock(q)
    <3>1. \A q \in People \ {p} : ~HoldsLock(q)
      BY <1>1 DEF MindsInv
    <3> QED
      BY <1>1, <1>7, <2>1, <3>1, OthersStay
  <2>5. Grows /\ \A g \in Goals : Counts(mem'[g])
    BY <1>1, <1>7, <2>1, GrowsBy
  <2>6. OnlyUsed
    <3>1. \A g \in Goals : ~HoldsLock(g)'
      BY <1>1, <2>4 DEF People
    <3>2. mem'["forget"] = mem["forget"]
      BY <1>1, <2>4, ForgetIsNoGoal
    <3> QED
      BY <1>1, <1>4, <3>1, <3>2 DEF OnlyUsed
  <2>7. UsedInv'
    BY <2>3, <2>5, <2>6, UsedMove
  <2>8. Mm!Collided \subseteq Mm!Collided'
    BY <2>3, <2>5, UsedKept
  <2>9. Named'
    <3>1. InSight' = index
      BY <1>1, <1>7 DEF InSight
    <3>2. Mm!FactIds(index)' = Mm!FactIds(index)
      BY <1>1 DEF Mm!FactIds
    <3> QED
      BY <1>1, <1>4, <1>5, <2>8, <3>1, <3>2 DEF Named, Mm!FactIds
  <2>10. \A q \in Mm!Requests : HoldsLock(q)' => mem'[q].snap = index'
    BY <1>1, <2>1, <2>4 DEF NamedInv, People, m
  <2>11. mem'["forget"].pc \in {"lock", "write"} =>
           mem'["forget"].id \notin DOMAIN vectors' \/ mem'["forget"].id \in Mm!Collided'
    BY <1>1, <1>4, <2>4, <2>8, ForgetIsNoGoal DEF NamedInv
  <2>12. \A q \in {"clear", "session"} :
          /\ mem'[q].pc # "wipe" => mem'[q].gone = {}
          /\ mem'[q].gone \cap DOMAIN vectors' = {}
          /\ mem'[q].pc = "wipe" => Mm!FactIds(Asked(q)') \subseteq mem'[q].todo \cup mem'[q].gone
    <3> SUFFICES ASSUME NEW q \in {"clear", "session"}
                 PROVE  /\ mem'[q].pc # "wipe" => mem'[q].gone = {}
                        /\ mem'[q].gone \cap DOMAIN vectors' = {}
                        /\ mem'[q].pc = "wipe" => Mm!FactIds(Asked(q)') \subseteq mem'[q].todo \cup mem'[q].gone
      OBVIOUS
    <3>1. mem'[q].of = mem[q].of /\ Asked(q)' = Asked(q)
      BY <1>1, <2>1, <2>4, ForgetIsNoGoal DEF Asked, m
    <3>2. CASE q = p
      <4>1. Mm!FactIds(Asked(q)) \subseteq m.todo \cup m.gone
        BY <1>1, <3>2 DEF NamedInv, m
      <4> QED
        BY <2>1, <2>2, <2>4, <3>1, <3>2, <4>1
    <3>3. CASE q # p
      <4>1. mem'[q] = mem[q]
        BY <2>4, <3>3, ForgetIsNoGoal
      <4> QED
        BY <1>4, <3>1, <4>1 DEF NamedInv
    <3> QED
      BY <3>2, <3>3
  <2>13. mem'["clear"].failed = FALSE
    BY <2>1, <2>4, ForgetIsNoGoal DEF NamedInv, m
  <2>14. NamedInv'
    BY <2>13, <1>1, <1>5, <2>9, <2>10, <2>11, <2>12 DEF NamedInv, Mm!FactIds
  <2> QED
    BY <2>3, <2>7, <2>14
<1> QED
  BY <1>2, <1>6, <1>7

LEMMA KeepsWipeIndex ==
    ASSUME MemoryIInv, NEW p \in {"clear", "session"}, Mm!WipeIndex(p)
    PROVE  MemoryIInv'
<1> USE DEF MemoryIInv
<1> DEFINE m == mem[p]
<1>1. /\ p \in People \ Goals /\ p \in Mm!Requests /\ m \in Minds /\ m.pc = "wipe"
      /\ HoldsLock(p) /\ indexLock = p /\ InSight = index /\ m.snap = index
      /\ m.todo = {} \/ m.failed
      /\ UNCHANGED <<ms, vectors, excused>>
  BY ForgetIsNoGoal, MindsOf DEF Mm!WipeIndex, Mm!Is, HoldsLock, MindsInv, InSight, Mm!Requests, NamedInv
<1>2. /\ mem' = [mem EXCEPT ![p] = Mm!Done(p)] /\ indexLock' = None
      /\ index' = index \/ index' = Mm!Kept(p)
  BY <1>1 DEF Mm!WipeIndex, Mm!Set, Mm!Done
<1>3. DOMAIN vectors \subseteq Mm!FactIds(index) \cup excused \cup Mm!Collided /\ left = {}
  BY <1>1 DEF NamedInv, Named
<1>4. /\ m.gone \cap DOMAIN vectors = {}
      /\ Mm!FactIds(Asked(p)) \subseteq m.todo \cup m.gone
  BY <1>1 DEF NamedInv
<1>5. p = "clear" => ~m.failed /\ Mm!Kept(p) = {}
  <2>1. p = "clear" => ~m.failed
    BY DEF NamedInv
  <2> QED
    BY <2>1 DEF Mm!Kept
<1>6. p = "session" /\ m.failed => Mm!Kept(p) = {e \in index : e.id \notin m.gone}
  BY <1>1 DEF Mm!Kept
<1>7. p = "session" /\ ~m.failed => Mm!Kept(p) = {e \in index : e.session # m.of}
  BY <1>1 DEF Mm!Kept
<1>8. Mm!Kept(p) \subseteq index
  BY <1>5, <1>6, <1>7, <1>1 DEF Mm!Kept
<1>9. left' = {}
  <2> SUFFICES ASSUME ~m.failed, left' = {id \in DOMAIN vectors \ (excused \cup Mm!Collided) :
                                            p = "clear" \/ vectors[id].session = m.of}
               PROVE  left' = {}
    BY <1>3 DEF Mm!WipeIndex
  <2> SUFFICES ASSUME NEW id \in DOMAIN vectors, id \notin excused \cup Mm!Collided,
                      p = "clear" \/ vectors[id].session = m.of
               PROVE  FALSE
    OBVIOUS
  <2>1. PICK e \in index : e.id = id
    BY <1>3 DEF Mm!FactIds
  <2>2. id \in Stamps
    BY DEF MindsInv
  <2>3. PICK h \in Goals : h = vectors[id].goal /\ Used(mem[h], id) /\ vectors[id].session = SessionOf[h]
    BY DEF UsedInv
  <2>4. PICK g \in Goals : Used(mem[g], id) /\ e.session = SessionOf[g]
    BY <2>1 DEF UsedInv, UsedFor
  <2>5. g = h
    BY <2>2, <2>3, <2>4, TwoGoals DEF Used
  <2>6. e \in Asked(p)
    BY <2>1, <2>3, <2>4, <2>5 DEF Asked
  <2>7. id \in m.gone
    BY <1>1, <1>4, <2>1, <2>6 DEF Mm!FactIds
  <2> QED
    BY <1>4, <2>7
<1>10. DOMAIN vectors' \subseteq Mm!FactIds(index') \cup excused' \cup Mm!Collided
  <2> SUFFICES ASSUME index' = Mm!Kept(p), NEW id \in DOMAIN vectors, id \notin excused \cup Mm!Collided
               PROVE  \E e \in index' : e.id = id
    BY <1>1, <1>2, <1>3 DEF Mm!FactIds
  <2>1. PICK e \in index : e.id = id
    BY <1>3 DEF Mm!FactIds
  <2>2. id \notin m.gone
    BY <1>4
  <2>3. m.failed \/ e \notin Asked(p)
    BY <1>1, <1>4, <2>1, <2>2 DEF Mm!FactIds
  <2>4. p = "clear" => e \in Asked(p)
    BY DEF Asked
  <2>5. p = "session" /\ e \notin Asked(p) => e.session # m.of
    BY DEF Asked
  <2> QED
    BY <1>5, <1>6, <1>7, <2>1, <2>2, <2>3, <2>4, <2>5
<1> QED
  BY <1>1, <1>2, <1>8, <1>9, <1>10, ReleasedKeeps

-----------------------------------------------------------------------------
LEMMA MemoryInitially ==
    ASSUME Mm!MemoryInit
    PROVE  MemoryIInv
<1>1. \A p \in People : mem[p] = Mm!Idle
  BY DEF Mm!MemoryInit, People
<1>2. Mm!Idle.pc = "idle" /\ Mm!Idle.i = 0 /\ Mm!Idle.n = 0 /\ Mm!Idle.gone = {}
      /\ Mm!Idle.failed = FALSE
  BY DEF Mm!Idle
<1>3. index = {} /\ DOMAIN vectors = {} /\ ms = 0 /\ indexLock = None /\ left = {}
  BY DEF Mm!MemoryInit
<1>4. "forget" \in People /\ "clear" \in People /\ "session" \in People
  BY ForgetIsNoGoal
<1>5. MaxStamp \in Nat /\ MaxFacts \in Nat /\ Goals \subseteq People
  BY KnowledgeBounds DEF Mm!KnowledgeAssumption, Mm!MemoryAssumption, People
<1>6. MindsInv
  <2>1. mem \in [People -> Minds]
    BY IdleIsMind DEF Mm!MemoryInit, People
  <2> QED
    BY <1>1, <1>2, <1>3, <1>4, <1>5, <2>1, NoneIsNobody DEF MindsInv, HoldsLock
<1>7. UsedInv
  BY <1>1, <1>2, <1>3, <1>4, <1>5 DEF UsedInv, HoldsLock
<1>8. NamedInv
  BY <1>1, <1>2, <1>3, <1>4 DEF NamedInv, Named, HoldsLock, Mm!Requests
<1> QED
  BY <1>6, <1>7, <1>8 DEF MemoryIInv

LEMMA MemoryStep ==
    ASSUME MemoryIInv, Mm!MemoryNext
    PROVE  MemoryIInv'
<1>1. ASSUME NEW g \in Goals, Mm!Remember(g) PROVE MemoryIInv'
  <2>1. g \in People
    BY DEF People
  <2> QED
    BY <1>1, <2>1, KeepsExtract, KeepsLock, KeepsUpsert, KeepsRemembered DEF Mm!Remember
<1>2. ASSUME Mm!Forget PROVE MemoryIInv'
  BY <1>2, ForgetIsNoGoal, KeepsForgetQuery, KeepsForgetDelete, KeepsLock, KeepsForgetIndex DEF Mm!Forget
<1>3. ASSUME Mm!Wipe PROVE MemoryIInv'
  <2>1. ASSUME NEW p \in {"clear", "session"},
               Mm!Lock(p, "lock", "wipe") \/ Mm!WipeOne(p) \/ Mm!WipeIndex(p)
        PROVE  MemoryIInv'
    BY <2>1, ForgetIsNoGoal, KeepsLock, KeepsWipeOne, KeepsWipeIndex
  <2> QED
    BY <1>3, <2>1, KeepsWipeBegin DEF Mm!Wipe
<1> QED
  BY <1>1, <1>2, <1>3, KeepsTick DEF Mm!MemoryNext

LEMMA MemoryRests ==
    ASSUME MemoryIInv, UNCHANGED memoryVars
    PROVE  MemoryIInv'
<1>1. MindsInv'
  BY DEF memoryVars, MemoryIInv, MindsInv, HoldsLock
<1>2. UsedInv'
  BY DEF memoryVars, MemoryIInv, UsedInv, HoldsLock
<1>3. NamedInv'
  BY DEF memoryVars, MemoryIInv, NamedInv, Named, InSight, HoldsLock, Mm!Collided, Mm!Stamped,
         Asked, Mm!FactIds
<1> QED
  BY <1>1, <1>2, <1>3 DEF MemoryIInv

(* Whatever the order of remember's tasks, forget, clear and forget_session,  *)
(* and whichever calls fail, a stored fact is named by the index once the     *)
(* lock is free, unless a call of its own failed or two goals ended in one    *)
(* millisecond; a wipe that succeeds leaves nothing (memory.rs).              *)
THEOREM FactsStayNamed == MCSpec => []MemoryNamed
<1> DEFINE I == part = "memory" => MemoryIInv
<1>1. MCInit => I
  BY MemoryInitially
     DEF MCInit, rulesInit, clockInit, memoryInit, toolsInit, turnInit, wireInit
<1>2. I /\ [MCNext]_mcVars => I'
  <2> SUFFICES ASSUME I, [MCNext]_mcVars, part' = "memory" PROVE MemoryIInv'
    OBVIOUS
  <2>1. part = "memory" /\ (Mm!MemoryNext \/ UNCHANGED memoryVars)
    BY DEF MCNext, rulesNext, clockNext, memoryNext, toolsNext, turnNext, wireNext, mcVars
  <2> QED
    BY <2>1, MemoryStep, MemoryRests
<1>3. I => MemoryNamed
  BY NoneIsNobody DEF MemoryNamed, Mm!MemoryNamed, MemoryIInv, NamedInv, Named, InSight
<1> QED
  BY <1>1, <1>2, <1>3, PTL DEF MCSpec

-----------------------------------------------------------------------------
(***************************************************************************)
(* The agent's tool catalogue (MCDecide's part "tools"): what it says of a *)
(* tool at each stage, in terms of the layers it is read from.             *)
(***************************************************************************)
FileSpecs == Mm!Specs("file", {"", "low"})
PluginSpecs == Mm!Specs("kernel", Mm!Risks)

LayersInv ==
  /\ file \in [Names -> FileSpecs \cup {None}]
  /\ approvals \in [Names -> BOOLEAN \cup {None}]
  /\ manifest \in [Names -> PluginSpecs \cup {None}]
  /\ allow \subseteq Names
  /\ found \subseteq {n \in Names : manifest[n] # None}

\* A tool after discovery.
Discovered(n) ==
  CASE ~Mm!Reached(n) -> Mm!Approved(n)
    [] Mm!Reached(n) /\ file[n] = None -> manifest[n]
    [] OTHER -> Mm!Merge(Mm!Approved(n), manifest[n])

CatalogInv ==
  /\ step \in {"build", "discover", "infer", "ready"}
  /\ step = "build" => DOMAIN catalog = {} /\ found = {}
  /\ DOMAIN catalog \subseteq allow \ Denied
  /\ \A n \in DOMAIN catalog :
       /\ step = "discover" => catalog[n] = Mm!Approved(n)
       /\ step = "infer" => catalog[n] = Discovered(n)
       /\ step = "ready" => catalog[n] = Mm!Inferred(Discovered(n), n)

ToolsIInv == LayersInv /\ CatalogInv

LEMMA Layers ==
    ASSUME LayersInv, NEW n \in Names
    PROVE  /\ file[n] \in FileSpecs \/ file[n] = None
           /\ approvals[n] \in BOOLEAN \/ approvals[n] = None
           /\ manifest[n] \in PluginSpecs \/ manifest[n] = None
           /\ None \notin BOOLEAN \cup FileSpecs \cup PluginSpecs
BY KnowledgeBounds DEF LayersInv, Mm!KnowledgeAssumption, Mm!ToolsAssumption, FileSpecs, PluginSpecs

\* A tool as the file and the approvals file have it.
LEMMA ApprovedIs ==
    ASSUME LayersInv, NEW n \in Names
    PROVE  LET s == Mm!Approved(n) IN
           /\ s \in [risk : {"", "low"}, confirm : BOOLEAN, doc : BOOLEAN, src : {"file", "minimal"}]
           /\ s.src = "minimal" <=> file[n] = None
           /\ s.risk = Mm!Base(n).risk
           /\ s.confirm = (IF approvals[n] = None THEN Mm!Base(n).confirm ELSE approvals[n])
<1>1. Mm!Base(n) \in [risk : {"", "low"}, confirm : BOOLEAN, doc : BOOLEAN, src : {"file", "minimal"}]
      /\ (Mm!Base(n).src = "minimal" <=> file[n] = None)
  BY Layers DEF Mm!Base, Mm!Minimal, FileSpecs, Mm!Specs
<1> QED
  BY <1>1, Layers DEF Mm!Approved

LEMMA ToolsInitially ==
    ASSUME Mm!ToolsInit
    PROVE  ToolsIInv
<1>1. LayersInv
  <2>1. PICK n \in Names :
          /\ allow \in {{n}, {}}
          /\ \E f \in FileSpecs \cup {None} : file = [m \in Names |-> IF m = n THEN f ELSE None]
          /\ \E a \in BOOLEAN \cup {None} : approvals = [m \in Names |-> IF m = n THEN a ELSE None]
          /\ \E k \in PluginSpecs \cup {None} : manifest = [m \in Names |-> IF m = n THEN k ELSE None]
    BY DEF Mm!ToolsInit, FileSpecs, PluginSpecs
  <2>2. file \in [Names -> FileSpecs \cup {None}]
    BY <2>1
  <2>3. approvals \in [Names -> BOOLEAN \cup {None}]
    BY <2>1
  <2>4. manifest \in [Names -> PluginSpecs \cup {None}]
    BY <2>1
  <2> QED
    BY <2>1, <2>2, <2>3, <2>4 DEF LayersInv, Mm!ToolsInit
<1>2. CatalogInv
  <2>1. catalog = <<>> /\ found = {} /\ step = "build"
    BY Zenon DEF Mm!ToolsInit
  <2>2. DOMAIN catalog = {}
    BY <2>1
  <2> QED
    BY <2>1, <2>2 DEF CatalogInv
<1> QED
  BY <1>1, <1>2 DEF ToolsIInv

LEMMA ToolsStep ==
    ASSUME ToolsIInv, Mm!ToolsNext
    PROVE  ToolsIInv'
<1> USE DEF ToolsIInv
<1>1. UNCHANGED <<allow, file, approvals, manifest>>
  BY DEF Mm!ToolsNext, Mm!Build, Mm!Discover, Mm!Complete, Mm!Infer
<1>2. \A n : Mm!Approved(n)' = Mm!Approved(n) /\ Mm!Base(n)' = Mm!Base(n)
  BY <1>1 DEF Mm!Approved, Mm!Base
<1>3. LayersInv'
  <2>1. found' \subseteq {n \in Names : manifest[n] # None}
    BY DEF Mm!ToolsNext, Mm!Build, Mm!Discover, Mm!Complete, Mm!Infer, LayersInv
  <2> QED
    BY <1>1, <2>1 DEF LayersInv
<1>4. CASE Mm!Build
  <2>1. /\ DOMAIN catalog' = allow \ Denied /\ \A n \in allow \ Denied : catalog'[n] = Mm!Approved(n)
        /\ step' \in {"discover", "infer"} /\ found' = {}
    BY <1>4 DEF Mm!Build, CatalogInv
  <2>2. \A n : Discovered(n)' = Mm!Approved(n)
    BY <1>2, <2>1 DEF Discovered, Mm!Reached
  <2> QED
    BY <1>1, <1>2, <1>3, <2>1, <2>2 DEF CatalogInv
<1>5. CASE Mm!Discover
  <2>1. /\ step = "discover" /\ catalog' = catalog
        /\ \/ step' = "discover"
           \/ step' = "infer" /\ asked' # Plugins
    BY <1>5 DEF Mm!Discover
  <2>2. step' = "infer" => \A n : Discovered(n)' = Mm!Approved(n)
    BY <1>2, <2>1 DEF Discovered, Mm!Reached
  <2> QED
    BY <1>1, <1>2, <1>3, <2>1, <2>2 DEF CatalogInv
<1>6. CASE Mm!Complete
  <2>1. /\ step = "discover" /\ asked = Plugins /\ step' = "infer" /\ asked' = asked /\ found' = found
        /\ catalog' = [n \in DOMAIN catalog |-> Mm!Completed(n)]
    BY <1>6 DEF Mm!Complete
  <2>2. \A n \in DOMAIN catalog : catalog'[n] = Discovered(n)
    <3> SUFFICES ASSUME NEW n \in DOMAIN catalog PROVE Mm!Completed(n) = Discovered(n)
      BY <2>1
    <3>1. catalog[n] = Mm!Approved(n) /\ n \in Names
      BY <2>1 DEF CatalogInv, LayersInv
    <3>2. Mm!Approved(n).src = "minimal" <=> file[n] = None
      BY <3>1, ApprovedIs
    <3> QED
      BY <2>1, <3>1, <3>2 DEF Mm!Completed, Discovered, Mm!Reached
  <2>3. \A n : Discovered(n)' = Discovered(n)
    BY <1>1, <1>2, <2>1 DEF Discovered, Mm!Reached, Mm!Merge
  <2> QED
    BY <1>1, <1>3, <2>1, <2>2, <2>3 DEF CatalogInv
<1>7. CASE Mm!Infer
  <2>1. /\ step = "infer" /\ step' = "ready" /\ asked' = asked /\ found' = found
        /\ catalog' = [n \in DOMAIN catalog |-> Mm!Inferred(catalog[n], n)]
    BY <1>7 DEF Mm!Infer
  <2>2. \A n : Discovered(n)' = Discovered(n)
    BY <1>1, <1>2, <2>1 DEF Discovered, Mm!Reached, Mm!Merge
  <2>3. \A n : Mm!Inferred(Discovered(n), n)' = Mm!Inferred(Discovered(n), n)
    BY <2>2 DEF Mm!Inferred
  <2> QED
    BY <1>1, <1>3, <2>1, <2>3 DEF CatalogInv
<1> QED
  BY <1>4, <1>5, <1>6, <1>7 DEF Mm!ToolsNext

\* A tool after discovery has the confirmation any layer that was read asks for.
LEMMA DiscoveredIs ==
    ASSUME LayersInv, NEW n \in Names
    PROVE  LET s == Discovered(n) IN
           /\ s \in [risk : Mm!Risks, confirm : BOOLEAN, doc : BOOLEAN,
                     src : {"file", "minimal", "kernel", "merged"}]
           /\ Mm!Reached(n) /\ manifest[n].confirm => s.confirm
           /\ file[n] # None /\ Mm!Approved(n).confirm => s.confirm
           /\ /\ file[n] = None \/ Mm!Undeclared(file[n].risk)
              /\ ~Mm!Reached(n) \/ Mm!Undeclared(manifest[n].risk)
              => Mm!Undeclared(s.risk)
<1> DEFINE A == Mm!Approved(n)  k == manifest[n]
<1>1. /\ A \in [risk : {"", "low"}, confirm : BOOLEAN, doc : BOOLEAN, src : {"file", "minimal"}]
      /\ A.src = "minimal" <=> file[n] = None
      /\ A.risk = Mm!Base(n).risk
  BY ApprovedIs
<1>2. A.risk = IF file[n] = None THEN "" ELSE file[n].risk
  BY <1>1 DEF Mm!Base, Mm!Minimal
<1>3. Mm!Reached(n) => k \in [risk : Mm!Risks, confirm : BOOLEAN, doc : BOOLEAN, src : {"kernel"}]
  BY Layers DEF Mm!Reached, LayersInv, PluginSpecs, Mm!Specs
<1> HIDE DEF A, k
<1>4. CASE ~Mm!Reached(n)
  <2>1. Discovered(n) = A
    BY <1>4 DEF Discovered, A
  <2> QED
    BY <1>1, <1>2, <1>4, <2>1 DEF Mm!Risks, Mm!Undeclared, A
<1>5. CASE Mm!Reached(n) /\ file[n] = None
  <2>1. Discovered(n) = k
    BY <1>5 DEF Discovered, k
  <2> QED
    BY <1>3, <1>5, <2>1 DEF k
<1>6. CASE Mm!Reached(n) /\ file[n] # None
  <2>1. Discovered(n) = Mm!Merge(A, k)
    BY <1>6 DEF Discovered, A, k
  <2>2. PICK d \in BOOLEAN, c \in BOOLEAN, r \in Mm!Risks :
          d = (A.doc \/ k.doc) /\ c = (A.confirm \/ k.confirm) /\ r = (IF A.risk = "" THEN k.risk ELSE A.risk)
    BY <1>1, <1>3, <1>6 DEF Mm!Risks
  <2>3. PICK m : m = [A EXCEPT !.doc = d, !.risk = r, !.confirm = c]
    OBVIOUS
  <2>4. Mm!Merge(A, k) = IF m = A THEN A ELSE [m EXCEPT !.src = "merged"]
    BY <2>2, <2>3 DEF Mm!Merge
  <2>5. PICK s : s = Mm!Merge(A, k)
    OBVIOUS
  <2>6. s \in [risk : Mm!Risks, confirm : BOOLEAN, doc : BOOLEAN, src : {"file", "minimal", "merged"}]
        /\ s.risk = r /\ s.confirm = c
    <3>1. CASE m = A
      <4>1. s = A
        BY <2>4, <2>5, <3>1
      <4>2. A.risk = r /\ A.confirm = c
        BY <1>1, <2>2, <2>3, <3>1
      <4> QED
        BY <1>1, <4>1, <4>2 DEF Mm!Risks
    <3>2. CASE m # A
      <4>1. s = [m EXCEPT !.src = "merged"]
        BY <2>4, <2>5, <3>2
      <4>2. m \in [risk : Mm!Risks, confirm : BOOLEAN, doc : BOOLEAN, src : {"file", "minimal"}]
            /\ m.risk = r /\ m.confirm = c
        BY <1>1, <2>2, <2>3
      <4> QED
        BY <4>1, <4>2
    <3> QED
      BY <3>1, <3>2
  <2>7. /\ k.confirm => s.confirm
        /\ A.confirm => s.confirm
    BY <2>2, <2>6
  <2>8. Mm!Undeclared(file[n].risk) /\ Mm!Undeclared(k.risk) => Mm!Undeclared(s.risk)
    BY <1>2, <1>6, <2>2, <2>6 DEF Mm!Undeclared
  <2> QED
    BY <1>6, <2>1, <2>5, <2>6, <2>7, <2>8 DEF A, k
<1> QED
  BY <1>4, <1>5, <1>6

LEMMA InferredIs ==
    ASSUME NEW n, NEW s \in [risk : Mm!Risks, confirm : BOOLEAN, doc : BOOLEAN,
                             src : {"file", "minimal", "kernel", "merged"}]
    PROVE  LET i == Mm!Inferred(s, n) IN
           /\ ~Mm!Undeclared(i.risk)
           /\ s.confirm => i.confirm
           /\ Mm!Undeclared(s.risk) /\ Mm!InferRisk(n) \in {"high", "critical"} => i.confirm
<1>1. PICK r : r = Mm!InferRisk(n) /\ r \in {"critical", "high", "medium", "low"}
  BY DEF Mm!InferRisk
<1>2. PICK c \in BOOLEAN : c = (s.confirm \/ r \in {"high", "critical"})
  OBVIOUS
<1>3. CASE Mm!Undeclared(s.risk)
  <2>1. Mm!Inferred(s, n) = [s EXCEPT !.risk = r, !.confirm = c]
    BY <1>1, <1>2, <1>3 DEF Mm!Inferred
  <2>2. Mm!Inferred(s, n).risk = r /\ Mm!Inferred(s, n).confirm = c
    BY <2>1
  <2> QED
    BY <1>1, <1>2, <2>2 DEF Mm!Undeclared
<1>4. CASE ~Mm!Undeclared(s.risk)
  BY <1>4 DEF Mm!Inferred
<1> QED
  BY <1>3, <1>4

(* Whatever the file, the approvals file and the manifests say, and wherever  *)
(* discovery breaks off: no denied action is offered, and a confirmation that *)
(* a layer asks for, or that is inferred, is asked for (tools.rs, discovery). *)
THEOREM CautionIsKept == MCSpec => []ConfirmationKept
<1> DEFINE I == part = "tools" => ToolsIInv
<1>1. MCInit => I
  BY ToolsInitially
     DEF MCInit, rulesInit, clockInit, memoryInit, toolsInit, turnInit, wireInit
<1>2. I /\ [MCNext]_mcVars => I'
  <2> SUFFICES ASSUME I, [MCNext]_mcVars, part' = "tools" PROVE ToolsIInv'
    OBVIOUS
  <2>1. part = "tools" /\ (Mm!ToolsNext \/ UNCHANGED toolsVars)
    BY DEF MCNext, rulesNext, clockNext, memoryNext, toolsNext, turnNext, wireNext, mcVars
  <2>2. CASE UNCHANGED toolsVars
    <3>1. ToolsIInv /\ UNCHANGED <<allow, file, approvals, manifest, found, asked, catalog, step>>
      BY <2>1, <2>2 DEF toolsVars
    <3>2. \A n : Mm!Approved(n)' = Mm!Approved(n) /\ Discovered(n)' = Discovered(n)
      BY <3>1 DEF Mm!Approved, Mm!Base, Discovered, Mm!Reached, Mm!Merge
    <3>3. \A n : Mm!Inferred(Discovered(n), n)' = Mm!Inferred(Discovered(n), n)
      BY <3>2 DEF Mm!Inferred
    <3>4. LayersInv'
      BY <3>1 DEF ToolsIInv, LayersInv
    <3>5. CatalogInv'
      BY <3>1, <3>2, <3>3 DEF ToolsIInv, CatalogInv
    <3> QED
      BY <3>4, <3>5 DEF ToolsIInv
  <2> QED
    BY <2>1, <2>2, ToolsStep
<1>3. I => ConfirmationKept
  <2> SUFFICES ASSUME ToolsIInv, step = "ready"
               PROVE  Mm!ConfirmationKept
    BY DEF ConfirmationKept, Mm!ConfirmationKept
  <2>1. LayersInv /\ DOMAIN catalog \cap Denied = {} /\ DOMAIN catalog \subseteq Names
    BY DEF ToolsIInv, CatalogInv, LayersInv
  <2> SUFFICES ASSUME NEW n \in DOMAIN catalog
               PROVE  LET s == catalog[n] IN
                      /\ Mm!Reached(n) /\ Mm!Said(n, manifest) => s.confirm
                      /\ Mm!Said(n, file) /\ approvals[n] # FALSE => s.confirm
                      /\ file[n] # None /\ approvals[n] = TRUE => s.confirm
                      /\ ~Mm!Undeclared(s.risk)
                      /\ /\ file[n] = None \/ Mm!Undeclared(file[n].risk)
                         /\ ~Mm!Reached(n) \/ Mm!Undeclared(manifest[n].risk)
                         /\ Mm!InferRisk(n) \in {"high", "critical"}
                         => s.confirm
    BY <2>1 DEF Mm!ConfirmationKept
  <2>2. catalog[n] = Mm!Inferred(Discovered(n), n) /\ n \in Names
    BY <2>1 DEF ToolsIInv, CatalogInv
  <2>3. Mm!Said(n, file) /\ approvals[n] # FALSE => file[n] # None /\ Mm!Approved(n).confirm
    <3>1. file[n] # None => Mm!Base(n) = file[n]
      BY DEF Mm!Base
    <3> QED
      BY <2>1, <2>2, <3>1, ApprovedIs, Layers DEF Mm!Said
  <2>4. file[n] # None /\ approvals[n] = TRUE => Mm!Approved(n).confirm
    BY <2>1, <2>2, ApprovedIs, Layers
  <2>5. PICK s : s = Discovered(n)
    OBVIOUS
  <2>6. /\ s \in [risk : Mm!Risks, confirm : BOOLEAN, doc : BOOLEAN,
                  src : {"file", "minimal", "kernel", "merged"}]
        /\ Mm!Reached(n) /\ manifest[n].confirm => s.confirm
        /\ file[n] # None /\ Mm!Approved(n).confirm => s.confirm
        /\ /\ file[n] = None \/ Mm!Undeclared(file[n].risk)
           /\ ~Mm!Reached(n) \/ Mm!Undeclared(manifest[n].risk)
           => Mm!Undeclared(s.risk)
    BY <2>1, <2>2, <2>5, DiscoveredIs
  <2>7. /\ ~Mm!Undeclared(catalog[n].risk)
        /\ s.confirm => catalog[n].confirm
        /\ Mm!Undeclared(s.risk) /\ Mm!InferRisk(n) \in {"high", "critical"} => catalog[n].confirm
    BY <2>2, <2>5, <2>6, InferredIs
  <2> QED
    BY <2>3, <2>4, <2>6, <2>7 DEF Mm!Said
<1> QED
  BY <1>1, <1>2, <1>3, PTL DEF MCSpec
=============================================================================
