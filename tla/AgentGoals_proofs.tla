-------------------------- MODULE AgentGoals_proofs --------------------------
(***************************************************************************)
(* For any number of tasks, tools and goals, whatever the instance allows: *)
(* no call that needs the operator runs without the operator's word, and   *)
(* in orderly use goals keep the promises made of them.                    *)
(***************************************************************************)
EXTENDS AgentGoals, TLAPS

\* The engine works on the goal, on a copy the store does not know.
Live == {"seed", "think", "dispatch", "again", "persist", "save", "fail"}
Working == Live \cup {"declining"}

\* A document of g: one that waits says for which call of g it waits.
NamedDoc(g, d, h) ==
    d.status = "needs_confirmation" =>
        d.pending \in Tokens /\ d.pending.goal = g /\ d.pending.n \in 1 .. h

\* A call about to be dispatched: a plain one, or one the operator approved.
GrantedCall(g, c, h, ok) ==
    \/ \E t \in Tools \ Gated : c = Plain(t)
    \/ c \in ok /\ c.goal = g /\ c.n \in 1 .. h

\* A goal that was never started.
Unborn(g) ==
    /\ db[g] = Missing
    /\ ncalls[g].all = 0 /\ \A t \in Tools : ncalls[g].of[t] = 0
    /\ turns[g] = 0
    /\ \A w \in Workers : g \notin victims[w] /\ (pc[w] # "idle" => on[w] # g)

TaskInv(w) ==
    /\ pc[w] # "idle" => on[w] \in Goals
    /\ pc[w] \in Working => NamedDoc(on[w], doc[w], halts)
    /\ pc[w] \in {"dispatch", "again"} => GrantedCall(on[w], call[w], halts, approved)
    /\ pc[w] = "seed" => /\ db[on[w]] = Missing
                         /\ \A v \in Workers \ {w} : pc[v] # "idle" => on[v] # on[w]

\* What holds whatever crashes, fails or interleaves.
EngineInv ==
    /\ TypeOK
    /\ \A g \in Goals : NamedDoc(g, db[g], halts)
    /\ \A g \in Goals : g >= nextId => Unborn(g)
    /\ \A w \in Workers : TaskInv(w)
    /\ executed \subseteq approved
    /\ \A x \in executed : x.n <= halts

\* Dispatches n are on the books of the document d.
Booked(d, n) ==
    /\ n.all <= d.steps
    /\ \A t \in Tools : n.of[t] <= d.counts[t]

WithinQuota(d, i) == i.quota > 0 => \A t \in Tools : d.counts[t] <= i.quota

\* A halted goal has a step to spare for the call it waits for; n counts its
\* dispatches and u its turns, x are the calls made and i the situation.
Waiting(d, n, u, x, i) ==
    /\ Booked(d, n) /\ WithinQuota(d, i)
    /\ n.all < d.steps /\ d.steps <= i.maxSteps
    /\ d.pending \notin x
    /\ u = 0

\* A call that is not on the books of d yet fits the bounds.
Affordable(d, c, n, x, i) ==
    /\ Booked(d, n) /\ n.all < i.maxSteps
    /\ c.tool \in Tools /\ n.of[c.tool] < d.counts[c.tool]
    /\ c.n > 0 => c \notin x

\* What orderly use promises of a task at p with the copy d of its goal and the
\* call c, when the stored document is s.
Going(p, d, c, s, n, u, x, i) ==
    /\ p # "again"
    /\ p \in Working => u = 0
    /\ p \in Live => WithinQuota(d, i)
    /\ p \in {"seed", "think", "dispatch", "persist"} => d.status = "running"
    /\ p \in {"think", "dispatch", "persist", "save"} => s.status \in {"running", "needs_confirmation"}
    /\ p \in {"seed", "think", "persist"} => Booked(d, n)
    /\ p = "dispatch" => Affordable(d, c, n, x, i)
    /\ p = "save" /\ d.status = "needs_confirmation" => Waiting(d, n, u, x, i)
    /\ p = "fail" => s.status \notin Terminal
    /\ p = "declining" => s.status = "needs_confirmation" /\ d.status = "declined"
    /\ p \in {"record", "recordFailed"} =>
          /\ s.status \in {d.status, "missing"}
          /\ d.status \in Terminal => u = 0

\* What orderly use promises of the dispatches and turns of a goal.
Kept(n, u, i) ==
    /\ n.all <= i.maxSteps
    /\ i.quota > 0 => \A t \in Tools : n.of[t] <= i.quota
    /\ u <= 1

\* A goal a sweep may take.
Spared(g) ==
    /\ db[g].status \in Terminal \cup {"missing"}
    /\ \A v \in Workers : pc[v] \in Working => on[v] # g

OneEach == \A w, v \in Workers : w # v /\ pc[w] # "idle" /\ pc[v] # "idle" => on[w] # on[v]

TasksCalm ==
    \A w \in Workers :
        pc[w] # "idle" => Going(pc[w], doc[w], call[w], db[on[w]], ncalls[on[w]], turns[on[w]],
                                executed, inst)

GoalsCalm ==
    \A g \in Goals :
        /\ Kept(ncalls[g], turns[g], inst)
        /\ db[g].status = "needs_confirmation" =>
              \/ Waiting(db[g], ncalls[g], turns[g], executed, inst)
              \/ \E w \in Workers : pc[w] \in Live /\ on[w] = g

CalmInv ==
    /\ OneEach /\ TasksCalm /\ GoalsCalm
    /\ \A w \in Workers : \A g \in victims[w] : Spared(g)
    /\ twice = {}

GoalsIInv == EngineInv /\ (Orderly => CalmInv)

-----------------------------------------------------------------------------
(* Documents and calls.                                                     *)

LEMMA Bounds ==
    ASSUME NEW i \in Instances
    PROVE  /\ i.maxGoals \in Nat /\ i.maxHalts \in Nat /\ i.quota \in Nat
           /\ i.maxSteps \in Nat /\ i.maxSteps > 0
           /\ i.tools \subseteq Tools /\ i.devices \subseteq i.tools
           /\ 1 .. i.maxGoals \subseteq Goals
  BY GoalsAssumption DEF Goals

LEMMA GoalsArePositive == \A g \in Goals : g \in Nat /\ g >= 1
  BY GoalsAssumption DEF Goals

(* A call that waits for the operator is none of the others.                 *)
LEMMA CallKinds ==
    /\ \A t : Plain(t).tool = t /\ Plain(t).n = 0 /\ Plain(t).goal = 0
    /\ NoCall \notin Tokens /\ NoCall.n = 0
    /\ \A t : Plain(t) \notin Tokens
    /\ \A x \in Tokens : x.goal \in Goals /\ x.tool \in Tools /\ x.n \in Nat
<1>1. 0 \notin Goals
  BY GoalsArePositive
<1> QED
  BY <1>1 DEF Plain, NoCall, Tokens

LEMMA StatusNames ==
    /\ Missing.status = "missing" /\ Missing \notin Docs
    /\ "missing" \notin Statuses /\ Terminal \subseteq Statuses
    /\ "running" \in Statuses /\ "needs_confirmation" \in Statuses
    /\ "running" \notin Terminal /\ "needs_confirmation" \notin Terminal
    /\ \A d \in Docs : /\ d.status \in Statuses /\ d.steps \in Nat
                       /\ d.counts \in [Tools -> Nat] /\ d.pending \in Tokens \cup {NoCall}
    /\ NewDoc \in Docs /\ NewDoc.status = "running" /\ NewDoc.steps = 0
    /\ \A t \in Tools : NewDoc.counts[t] = 0
<1>1. Missing.status = "missing" /\ "missing" \notin Statuses
  BY DEF Missing, Statuses, Terminal
<1>2. \A d \in Docs : /\ d.status \in Statuses /\ d.steps \in Nat
                      /\ d.counts \in [Tools -> Nat] /\ d.pending \in Tokens \cup {NoCall}
  BY DEF Docs
<1>3. Missing \notin Docs
  BY <1>1, <1>2
<1>4. "running" \in Statuses /\ Terminal \subseteq Statuses /\ "needs_confirmation" \in Statuses
      /\ "running" \notin Terminal /\ "needs_confirmation" \notin Terminal
  BY DEF Statuses, Terminal
<1>5. NewDoc \in Docs /\ NewDoc.status = "running" /\ NewDoc.steps = 0 /\ \A t \in Tools : NewDoc.counts[t] = 0
  BY <1>4 DEF NewDoc, Docs
<1> QED
  BY <1>1, <1>2, <1>3, <1>4, <1>5

(* What the engine does to its copy.                                         *)
LEMMA Edits ==
    ASSUME NEW d \in Docs
    PROVE  /\ /\ Step(d) \in Docs /\ Step(d).status = d.status /\ Step(d).steps = d.steps + 1
              /\ Step(d).counts = d.counts /\ Step(d).pending = d.pending
           /\ \A t \in Tools :
                 /\ Counted(d, t) \in Docs /\ Counted(d, t).status = d.status
                 /\ Counted(d, t).steps = d.steps /\ Counted(d, t).pending = d.pending
                 /\ Counted(d, t).counts[t] = d.counts[t] + 1
                 /\ \A u \in Tools : u # t => Counted(d, t).counts[u] = d.counts[u]
           /\ \A s \in Statuses :
                 /\ EndWith(d, s) \in Docs /\ EndWith(d, s).status = s /\ EndWith(d, s).steps = d.steps + 1
                 /\ EndWith(d, s).counts = d.counts /\ EndWith(d, s).pending = d.pending
<1>1. /\ Step(d) \in Docs /\ Step(d).status = d.status /\ Step(d).steps = d.steps + 1
      /\ Step(d).counts = d.counts /\ Step(d).pending = d.pending
  BY DEF Step, Docs
<1>2. ASSUME NEW t \in Tools
      PROVE  /\ Counted(d, t) \in Docs /\ Counted(d, t).status = d.status
             /\ Counted(d, t).steps = d.steps /\ Counted(d, t).pending = d.pending
             /\ Counted(d, t).counts[t] = d.counts[t] + 1
             /\ \A u \in Tools : u # t => Counted(d, t).counts[u] = d.counts[u]
  <2>1. PICK k : k = [d.counts EXCEPT ![t] = d.counts[t] + 1]
    OBVIOUS
  <2>2. k \in [Tools -> Nat] /\ k[t] = d.counts[t] + 1 /\ \A u \in Tools : u # t => k[u] = d.counts[u]
    BY <2>1, StatusNames
  <2>3. Counted(d, t) = [d EXCEPT !.counts = k]
    BY <2>1 DEF Counted
  <2> QED
    BY <2>2, <2>3 DEF Docs
<1>3. ASSUME NEW s \in Statuses
      PROVE  /\ EndWith(d, s) \in Docs /\ EndWith(d, s).status = s /\ EndWith(d, s).steps = d.steps + 1
             /\ EndWith(d, s).counts = d.counts /\ EndWith(d, s).pending = d.pending
  <2>1. PICK e : e = [d EXCEPT !.status = s]
    OBVIOUS
  <2>2. e \in Docs /\ e.status = s /\ e.steps = d.steps /\ e.counts = d.counts /\ e.pending = d.pending
    BY <2>1 DEF Docs
  <2>3. EndWith(d, s) = [e EXCEPT !.steps = e.steps + 1]
    BY <2>1 DEF EndWith, Step
  <2> QED
    BY <2>2, <2>3 DEF Docs
<1> QED
  BY <1>1, <1>2, <1>3

\* The other edits: an approved, a declined, a halted and a finished goal.
Taken(d) == [d EXCEPT !.status = "running", !.pending = NoCall]
Declined(d) == [d EXCEPT !.status = "declined", !.pending = NoCall, !.steps = @ + 1]
Asking(d, x) == [EndWith(d, "needs_confirmation") EXCEPT !.pending = x]
Completed(d) == [d EXCEPT !.status = "completed"]

LEMMA MoreEdits ==
    ASSUME NEW d \in Docs
    PROVE  /\ /\ Taken(d) \in Docs /\ Taken(d).status = "running"
              /\ Taken(d).steps = d.steps /\ Taken(d).counts = d.counts
           /\ Declined(d) \in Docs /\ Declined(d).status = "declined"
           /\ \A x \in Tokens :
                 /\ Asking(d, x) \in Docs /\ Asking(d, x).status = "needs_confirmation" /\ Asking(d, x).pending = x
                 /\ Asking(d, x).steps = d.steps + 1 /\ Asking(d, x).counts = d.counts
           /\ Completed(d) \in Docs /\ Completed(d).status = "completed"
<1> USE StatusNames
<1>1. /\ Taken(d) \in Docs /\ Taken(d).status = "running"
      /\ Taken(d).steps = d.steps /\ Taken(d).counts = d.counts
  BY DEF Taken, Docs
<1>2. Declined(d) \in Docs /\ Declined(d).status = "declined"
  <2>1. "declined" \in Statuses /\ d.steps + 1 \in Nat
    BY DEF Statuses, Terminal
  <2> QED
    BY <2>1 DEF Declined, Docs
<1>3. ASSUME NEW x \in Tokens
      PROVE  /\ Asking(d, x) \in Docs /\ Asking(d, x).status = "needs_confirmation" /\ Asking(d, x).pending = x
             /\ Asking(d, x).steps = d.steps + 1 /\ Asking(d, x).counts = d.counts
  <2>1. PICK e : e = EndWith(d, "needs_confirmation")
    OBVIOUS
  <2>2. e \in Docs /\ e.status = "needs_confirmation" /\ e.steps = d.steps + 1 /\ e.counts = d.counts
    BY <2>1, Edits
  <2> QED
    BY <2>1, <2>2 DEF Asking, Docs
<1>4. Completed(d) \in Docs /\ Completed(d).status = "completed"
  <2>1. "completed" \in Statuses
    BY DEF Statuses, Terminal
  <2> QED
    BY <2>1 DEF Completed, Docs
<1> QED
  BY <1>1, <1>2, <1>3, <1>4

-----------------------------------------------------------------------------
(* Steps of one task.                                                       *)

Kinds == {"none", "start", "resume", "delete"}
Calls == Tokens \cup {Plain(t) : t \in Tools} \cup {NoCall}

\* The types of the store and of the histories.
StoreType ==
    /\ db \in [Goals -> Docs \cup {Missing}]
    /\ newer \in [Goals -> SUBSET Goals]
    /\ nextId \in Nat \ {0}

HistoryType ==
    /\ inst \in Instances
    /\ halts \in Nat
    /\ session \subseteq Goals
    /\ {approved, executed, twice} \subseteq SUBSET Tokens
    /\ ncalls \in [Goals -> [all : Nat, of : [Tools -> Nat]]]
    /\ turns \in [Goals -> Nat]

TaskType ==
    /\ pc \in [Workers -> Pcs]
    /\ kind \in [Workers -> Kinds]
    /\ on \in [Workers -> Goals \cup {0}]
    /\ doc \in [Workers -> Docs]
    /\ call \in [Workers -> Calls]
    /\ victims \in [Workers -> SUBSET Goals]

LEMMA Types == TypeOK <=> StoreType /\ HistoryType /\ TaskType
  BY DEF TypeOK, StoreType, HistoryType, TaskType, Kinds, Calls

\* Only w moves: to p, for a request of the kind k on the goal o, with the copy d,
\* the call c and the victims V.
Moves(w, p, k, o, d, c, V) ==
    /\ pc' = [pc EXCEPT ![w] = p]
    /\ kind' = [kind EXCEPT ![w] = k]
    /\ on' = [on EXCEPT ![w] = o]
    /\ doc' = [doc EXCEPT ![w] = d]
    /\ call' = [call EXCEPT ![w] = c]
    /\ victims' = [victims EXCEPT ![w] = V]

TypedMove(p, k, o, d, c, V) ==
    /\ p \in Pcs /\ k \in Kinds /\ o \in Goals \cup {0} /\ d \in Docs /\ c \in Calls
    /\ V \in SUBSET Goals

LEMMA Moved ==
    ASSUME TypeOK, NEW w \in Workers, NEW p, NEW k, NEW o, NEW d, NEW c, NEW V,
           Moves(w, p, k, o, d, c, V)
    PROVE  /\ pc'[w] = p /\ kind'[w] = k /\ on'[w] = o /\ doc'[w] = d /\ call'[w] = c /\ victims'[w] = V
           /\ \A v \in Workers : v # w =>
                 /\ pc'[v] = pc[v] /\ kind'[v] = kind[v] /\ on'[v] = on[v] /\ doc'[v] = doc[v]
                 /\ call'[v] = call[v] /\ victims'[v] = victims[v]
           /\ TypedMove(p, k, o, d, c, V) => TaskType'
<1>1. TaskType
  BY Types
<1> QED
  BY <1>1 DEF TaskType, Moves, TypedMove

\* What a task at rest in its variables does.
LEMMA StaysPut ==
    ASSUME TypeOK, NEW w \in Workers
    PROVE  /\ pc = [pc EXCEPT ![w] = pc[w]] /\ kind = [kind EXCEPT ![w] = kind[w]]
           /\ on = [on EXCEPT ![w] = on[w]] /\ doc = [doc EXCEPT ![w] = doc[w]]
           /\ call = [call EXCEPT ![w] = call[w]] /\ victims = [victims EXCEPT ![w] = victims[w]]
           /\ TypedMove(pc[w], kind[w], on[w], doc[w], call[w], victims[w])
           /\ NoCall \in Calls /\ Tokens \subseteq Calls /\ \A t \in Tools : Plain(t) \in Calls
<1>1. TaskType
  BY Types
<1> QED
  BY <1>1 DEF TaskType, TypedMove, Calls

LEMMA PutType ==
    ASSUME StoreType, NEW g \in Goals, NEW d \in Docs, Put(g, d), nextId' = nextId
    PROVE  /\ StoreType' /\ db'[g] = d /\ db'[g] # Missing
           /\ \A h \in Goals : h # g => db'[h] = db[h]
<1>1. db' \in [Goals -> Docs \cup {Missing}] /\ db'[g] = d /\ \A h \in Goals : h # g => db'[h] = db[h]
  BY DEF StoreType, Put
<1>2. newer' \in [Goals -> SUBSET Goals]
  BY DEF StoreType, Put, Touch
<1> QED
  BY <1>1, <1>2, StatusNames DEF StoreType

LEMMA EraseType ==
    ASSUME StoreType, NEW g \in Goals, Erase(g), nextId' = nextId
    PROVE  /\ StoreType' /\ db'[g] = Missing
           /\ \A h \in Goals : h # g => db'[h] = db[h]
<1>1. db' \in [Goals -> Docs \cup {Missing}] /\ db'[g] = Missing /\ \A h \in Goals : h # g => db'[h] = db[h]
  BY DEF StoreType, Erase
<1>2. newer' \in [Goals -> SUBSET Goals]
  BY DEF StoreType, Erase
<1> QED
  BY <1>1, <1>2 DEF StoreType

(* What any step of one task must show.                                      *)
LEMMA EngineFrame ==
    ASSUME EngineInv, NEW w \in Workers, NEW p, NEW k, NEW o, NEW d, NEW c, NEW V,
           Moves(w, p, k, o, d, c, V), TypedMove(p, k, o, d, c, V), StoreType', HistoryType',
           halts' >= halts, approved \subseteq approved', nextId' >= nextId,
           p # "idle" => /\ o \in Goals
                         /\ \/ pc[w] # "idle" /\ o = on[w]
                            \/ db[o] # Missing
                            \/ o = nextId /\ nextId' = nextId + 1,
           p = "seed" => o = nextId /\ nextId' = nextId + 1,
           p \in Working => NamedDoc(o, d, halts'),
           p \in {"dispatch", "again"} => GrantedCall(o, c, halts', approved'),
           \A g \in Goals : \/ db'[g] \in {db[g], Missing}
                            \/ pc[w] # "idle" /\ g = on[w] /\ NamedDoc(g, db'[g], halts'),
           \A g \in Goals : \/ pc[w] # "idle" /\ g = on[w]
                            \/ ncalls'[g] = ncalls[g] /\ turns'[g] = turns[g],
           \A g \in V : g \in victims[w] \/ db[g] # Missing,
           executed' \subseteq approved', \A x \in executed' : x.n <= halts'
    PROVE  EngineInv'
<1>1. TypeOK /\ StoreType /\ HistoryType /\ TaskType
  BY Types DEF EngineInv
<1>2. /\ pc'[w] = p /\ on'[w] = o /\ doc'[w] = d /\ call'[w] = c /\ victims'[w] = V
      /\ \A v \in Workers : v # w =>
            /\ pc'[v] = pc[v] /\ on'[v] = on[v] /\ doc'[v] = doc[v]
            /\ call'[v] = call[v] /\ victims'[v] = victims[v]
      /\ TaskType'
  BY <1>1, Moved
<1>3. TypeOK'
  BY <1>2 DEF TypeOK, StoreType, HistoryType, TaskType, Kinds, Calls
<1>4. halts \in Nat /\ halts' \in Nat /\ nextId \in Nat /\ nextId' \in Nat
  BY <1>1 DEF HistoryType, StoreType
<1>5. \A g, e : NamedDoc(g, e, halts) => NamedDoc(g, e, halts')
  BY <1>4 DEF NamedDoc
<1>6. \A g, x : GrantedCall(g, x, halts, approved) => GrantedCall(g, x, halts', approved')
  BY <1>4 DEF GrantedCall
<1>7. \A g \in Goals : NamedDoc(g, db'[g], halts')
  <2> SUFFICES ASSUME NEW g \in Goals PROVE NamedDoc(g, db'[g], halts')
    OBVIOUS
  <2>1. NamedDoc(g, db[g], halts')
    BY <1>5 DEF EngineInv
  <2>2. NamedDoc(g, Missing, halts')
    BY StatusNames DEF NamedDoc, Statuses
  <2> QED
    BY <2>1, <2>2
<1>8. ASSUME NEW g \in Goals, g >= nextId' PROVE Unborn(g)'
  <2>1. g >= nextId /\ g \in Nat
    BY <1>4, <1>8, GoalsArePositive
  <2>2. Unborn(g)
    BY <2>1 DEF EngineInv
  <2>3. ~(pc[w] # "idle" /\ g = on[w])
    BY <2>2 DEF Unborn
  <2>4. db'[g] = Missing /\ ncalls'[g] = ncalls[g] /\ turns'[g] = turns[g]
    BY <2>2, <2>3 DEF Unborn
  <2>5. g \notin V
    BY <2>2 DEF Unborn
  <2>6. p # "idle" => o # g
    BY <1>4, <1>8, <2>1, <2>2, <2>3 DEF Unborn
  <2> QED
    BY <1>2, <2>2, <2>4, <2>5, <2>6 DEF Unborn
<1>9. ASSUME NEW v \in Workers PROVE TaskInv(v)'
  <2>1. CASE v = w
    <3>1. ASSUME p = "seed" PROVE db'[o] = Missing /\ \A u \in Workers \ {w} : pc'[u] # "idle" => on'[u] # o
      <4>1. o \in Goals /\ o = nextId /\ o >= nextId
        BY <1>4, <3>1
      <4>2. Unborn(o)
        BY <4>1 DEF EngineInv
      <4>3. db'[o] = Missing
        BY <4>1, <4>2 DEF Unborn
      <4> QED
        BY <1>2, <4>2, <4>3 DEF Unborn
    <3> QED
      BY <1>2, <2>1, <3>1 DEF TaskInv
  <2>2. CASE v # w
    <3>1. TaskInv(v)
      BY DEF EngineInv
    <3>2. /\ pc'[v] = pc[v] /\ on'[v] = on[v] /\ doc'[v] = doc[v] /\ call'[v] = call[v]
      BY <1>2, <2>2
    <3>3. pc[v] # "idle" => on[v] \in Goals
      BY <3>1 DEF TaskInv
    <3>4. pc[v] \in Working => NamedDoc(on[v], doc[v], halts')
      BY <1>5, <3>1 DEF TaskInv
    <3>5. pc[v] \in {"dispatch", "again"} => GrantedCall(on[v], call[v], halts', approved')
      BY <1>6, <3>1 DEF TaskInv
    <3>6. ASSUME pc[v] = "seed"
          PROVE  db'[on[v]] = Missing /\ \A u \in Workers \ {v} : pc'[u] # "idle" => on'[u] # on[v]
      <4>1. /\ db[on[v]] = Missing /\ on[v] \in Goals
            /\ \A u \in Workers \ {v} : pc[u] # "idle" => on[u] # on[v]
        BY <3>1, <3>6 DEF TaskInv
      <4>2. ~(pc[w] # "idle" /\ on[v] = on[w])
        BY <2>2, <4>1
      <4>3. db'[on[v]] = Missing
        BY <4>1, <4>2
      <4>4. on[v] # nextId
        <5>1. nextId \in Goals => Unborn(nextId)
          BY <1>4 DEF EngineInv
        <5> QED
          BY <3>6, <4>1, <5>1 DEF Unborn
      <4>5. p # "idle" => o # on[v]
        BY <4>1, <4>2, <4>4
      <4> QED
        BY <1>2, <4>1, <4>3, <4>5
    <3>7. pc'[v] \in Working => NamedDoc(on'[v], doc'[v], halts')
      BY <3>2, <3>4
    <3>8. pc'[v] \in {"dispatch", "again"} => GrantedCall(on'[v], call'[v], halts', approved')
      BY <3>2, <3>5
    <3> QED
      BY <3>2, <3>3, <3>6, <3>7, <3>8 DEF TaskInv
  <2> QED
    BY <2>1, <2>2
<1> QED
  BY <1>3, <1>7, <1>8, <1>9 DEF EngineInv

(* The steps a task takes, as moves.                                         *)
LEMMA Becoming ==
    ASSUME TypeOK, NEW w \in Workers, NEW d, NEW p, NEW c, Become(w, d, p),
           call' = [call EXCEPT ![w] = c]
    PROVE  Moves(w, p, kind[w], on[w], d, c, victims[w]) /\ UNCHANGED store
  BY StaysPut DEF Become, Goto, Moves

LEMMA GoingOn ==
    ASSUME TypeOK, NEW w \in Workers, NEW p, Goto(w, p), UNCHANGED <<doc, call, victims>>
    PROVE  Moves(w, p, kind[w], on[w], doc[w], call[w], victims[w])
  BY StaysPut DEF Goto, Moves

LEMMA Ending ==
    ASSUME TypeOK, NEW w \in Workers, End(w), UNCHANGED call
    PROVE  /\ Moves(w, "idle", "none", 0, NewDoc, call[w], {})
           /\ TypedMove("idle", "none", 0, NewDoc, call[w], {})
<1>1. TaskType
  BY Types
<1>2. "idle" \in Pcs /\ "none" \in Kinds
  BY DEF Pcs, Kinds
<1> QED
  BY <1>1, <1>2, StaysPut, StatusNames DEF End, Moves, TypedMove

LEMMA Taking ==
    ASSUME TypeOK, NEW w \in Workers, NEW k, NEW g, NEW p, Take(w, k, g, p), UNCHANGED victims,
           NEW d, NEW c, doc' = [doc EXCEPT ![w] = d], call' = [call EXCEPT ![w] = c]
    PROVE  Moves(w, p, k, g, d, c, victims[w])
  BY StaysPut DEF Take, Moves

LEMMA HistoryStays == ASSUME HistoryType, UNCHANGED history PROVE HistoryType'
  BY DEF HistoryType, history

LEMMA StoreStays == ASSUME StoreType, UNCHANGED store PROVE StoreType'
  BY DEF StoreType, store

(* A task goes on with its goal.                                             *)
LEMMA ContinueFrame ==
    ASSUME EngineInv, NEW w \in Workers, NEW p \in Pcs \ {"idle", "seed"}, NEW d \in Docs,
           NEW c \in Calls, pc[w] # "idle",
           Moves(w, p, kind[w], on[w], d, c, victims[w]), StoreType', HistoryType',
           halts' >= halts, approved' = approved, nextId' = nextId,
           p \in Working => NamedDoc(on[w], d, halts'),
           p \in {"dispatch", "again"} => GrantedCall(on[w], c, halts', approved),
           \A g \in Goals : db'[g] = db[g] \/ (g = on[w] /\ NamedDoc(g, db'[g], halts')),
           \A g \in Goals : g # on[w] => ncalls'[g] = ncalls[g] /\ turns'[g] = turns[g],
           executed' \subseteq approved, \A x \in executed' : x.n <= halts'
    PROVE  EngineInv'
<1>1. TypeOK /\ TaskType /\ StoreType
  BY Types DEF EngineInv
<1>2. TypedMove(p, kind[w], on[w], d, c, victims[w])
  BY <1>1 DEF TaskType, TypedMove
<1>3. on[w] \in Goals
  BY DEF EngineInv, TaskInv
<1>4. nextId' >= nextId
  BY <1>1 DEF StoreType
<1>5. \A g \in Goals : \/ db'[g] \in {db[g], Missing}
                       \/ pc[w] # "idle" /\ g = on[w] /\ NamedDoc(g, db'[g], halts')
  OBVIOUS
<1>6. \A g \in Goals : \/ pc[w] # "idle" /\ g = on[w]
                       \/ ncalls'[g] = ncalls[g] /\ turns'[g] = turns[g]
  OBVIOUS
<1> QED
  BY <1>2, <1>3, <1>4, <1>5, <1>6, EngineFrame

(* A task ends.                                                              *)
LEMMA EndFrame ==
    ASSUME EngineInv, NEW w \in Workers, pc[w] # "idle", End(w), UNCHANGED <<call, nextId>>,
           StoreType', HistoryType', halts' = halts, approved' = approved, executed' = executed,
           ncalls' = ncalls,
           \A g \in Goals : \/ db'[g] \in {db[g], Missing}
                            \/ g = on[w] /\ NamedDoc(g, db'[g], halts),
           \A g \in Goals : g # on[w] => turns'[g] = turns[g]
    PROVE  EngineInv'
<1>1. TypeOK /\ StoreType /\ HistoryType
  BY Types DEF EngineInv
<1>2. Moves(w, "idle", "none", 0, NewDoc, call[w], {}) /\ TypedMove("idle", "none", 0, NewDoc, call[w], {})
  BY <1>1, Ending
<1>3. nextId' >= nextId /\ halts' >= halts
  BY <1>1 DEF StoreType, HistoryType
<1>4. executed' \subseteq approved' /\ \A x \in executed' : x.n <= halts'
  BY DEF EngineInv
<1>5. "idle" \notin Working /\ "idle" \notin {"dispatch", "again"}
  BY DEF Working, Live
<1> QED
  BY <1>2, <1>3, <1>4, <1>5, EngineFrame

-----------------------------------------------------------------------------
(* Every step keeps the engine's promises.                                   *)

LEMMA Asked ==
    ASSUME EngineInv, NEW w \in Workers, pc[w] # "idle"
    PROVE  /\ TypeOK /\ StoreType /\ HistoryType /\ on[w] \in Goals
           /\ pc[w] \in Working => NamedDoc(on[w], doc[w], halts)
           /\ pc[w] \in {"dispatch", "again"} => GrantedCall(on[w], call[w], halts, approved)
           /\ doc[w] \in Docs /\ call[w] \in Calls /\ halts \in Nat
<1>1. TypeOK /\ StoreType /\ HistoryType /\ TaskType
  BY Types DEF EngineInv
<1>2. TaskInv(w)
  BY DEF EngineInv
<1> QED
  BY <1>1, <1>2 DEF TaskInv, TaskType, HistoryType

LEMMA BecomeSafe ==
    ASSUME EngineInv, NEW w \in Workers, NEW d \in Docs, NEW p \in {"save", "fail", "persist"},
           pc[w] # "idle", Become(w, d, p), NamedDoc(on[w], d, halts), UNCHANGED <<call, history>>
    PROVE  EngineInv'
<1>1. TypeOK /\ StoreType /\ HistoryType /\ on[w] \in Goals /\ call[w] \in Calls /\ halts \in Nat
  BY Asked
<1>2. call' = [call EXCEPT ![w] = call[w]]
  BY <1>1, StaysPut
<1>3. Moves(w, p, kind[w], on[w], d, call[w], victims[w]) /\ UNCHANGED store
  BY <1>1, <1>2, Becoming
<1>4. StoreType' /\ HistoryType'
  BY <1>1, <1>3, StoreStays, HistoryStays
<1>5. p \in Pcs \ {"idle", "seed"} /\ p \notin {"dispatch", "again"}
  BY DEF Pcs
<1>6. /\ halts' = halts /\ halts' >= halts /\ approved' = approved /\ nextId' = nextId /\ db' = db
      /\ ncalls' = ncalls /\ turns' = turns /\ executed' = executed
  BY <1>1, <1>3 DEF history, store
<1>7. executed' \subseteq approved /\ \A x \in executed' : x.n <= halts'
  BY <1>6 DEF EngineInv
<1> QED
  BY <1>1, <1>3, <1>4, <1>5, <1>6, <1>7, ContinueFrame

(* A turn of the loop that only changes the task's copy.                     *)
Turn(w) == \/ OutOfSteps(w) \/ ModelFails(w) \/ TranscriptFull(w) \/ FinalAnswer(w) \/ UnknownTool(w)
           \/ \E t \in Tools : QuotaRefused(w, t)

LEMMA TurnBecomes ==
    ASSUME TypeOK, NEW w \in Workers, Turn(w)
    PROVE  /\ pc[w] = "think" /\ UNCHANGED <<call, history>>
           /\ \/ Become(w, EndWith(doc[w], "max_steps_reached"), "save")
              \/ Become(w, EndWith(doc[w], "error"), "save")
              \/ Become(w, doc[w], "fail")
              \/ Become(w, Completed(doc[w]), "save")
              \/ Become(w, Step(doc[w]), "persist")
  BY DEF Turn, OutOfSteps, ModelFails, TranscriptFull, FinalAnswer, UnknownTool, QuotaRefused,
         Thinking, Completed

LEMMA TurnSafe ==
    ASSUME EngineInv, NEW w \in Workers, Turn(w)
    PROVE  EngineInv'
<1>1. TypeOK
  BY DEF EngineInv
<1>2. pc[w] = "think" /\ UNCHANGED <<call, history>>
  BY <1>1, TurnBecomes
<1>3. NamedDoc(on[w], doc[w], halts) /\ doc[w] \in Docs
  BY <1>2, Asked DEF Working, Live
<1>4. PICK p \in {"save", "fail", "persist"}, d \in Docs :
        Become(w, d, p) /\ (d.status = "needs_confirmation" => d = doc[w] \/ d = Step(doc[w]))
  <2>1. /\ EndWith(doc[w], "max_steps_reached") \in Docs
        /\ EndWith(doc[w], "max_steps_reached").status # "needs_confirmation"
        /\ EndWith(doc[w], "error") \in Docs /\ EndWith(doc[w], "error").status # "needs_confirmation"
        /\ Step(doc[w]) \in Docs
    <3>1. "max_steps_reached" \in Statuses /\ "error" \in Statuses
      BY DEF Statuses, Terminal
    <3>2. \A s \in Statuses : EndWith(doc[w], s) \in Docs /\ EndWith(doc[w], s).status = s
      BY <1>3, Edits
    <3>3. Step(doc[w]) \in Docs
      BY <1>3, Edits
    <3> QED
      BY <3>1, <3>2, <3>3
  <2>2. Completed(doc[w]) \in Docs /\ Completed(doc[w]).status # "needs_confirmation"
    BY <1>3, MoreEdits
  <2> QED
    BY <1>1, <1>3, <2>1, <2>2, TurnBecomes
<1>5. NamedDoc(on[w], d, halts)
  BY <1>3, <1>4, Edits DEF NamedDoc
<1> QED
  BY <1>2, <1>4, <1>5, BecomeSafe

LEMMA HaltSafe ==
    ASSUME EngineInv, NEW w \in Workers, NEW t \in Tools, Halt(w, t)
    PROVE  EngineInv'
<1>0. pc[w] = "think"
  BY DEF Halt, Thinking
<1>1. /\ TypeOK /\ StoreType /\ HistoryType /\ on[w] \in Goals /\ call[w] \in Calls /\ halts \in Nat
      /\ doc[w] \in Docs
  BY <1>0, Asked
<1>2. PICK x : x = [goal |-> on[w], tool |-> t, n |-> halts + 1]
  OBVIOUS
<1>3. x \in Tokens /\ x.goal = on[w] /\ x.n = halts + 1
  BY <1>1, <1>2 DEF Tokens
<1>4. PICK d : d = Asking(doc[w], x)
  OBVIOUS
<1>5. d \in Docs /\ d.pending = x
  BY <1>1, <1>3, <1>4, MoreEdits
<1>6. Become(w, d, "save") /\ halts' = halts + 1
  BY <1>2, <1>4 DEF Halt, Asking
<1>7. UNCHANGED <<inst, call, session, approved, executed, twice, ncalls, turns>>
  BY DEF Halt
<1>8. call' = [call EXCEPT ![w] = call[w]]
  BY <1>1, <1>7, StaysPut
<1>9. Moves(w, "save", kind[w], on[w], d, call[w], victims[w]) /\ UNCHANGED store
  BY <1>1, <1>6, <1>8, Becoming
<1>10. StoreType'
  BY <1>1, <1>9, StoreStays
<1>11. HistoryType'
  BY <1>1, <1>6, <1>7 DEF HistoryType
<1>12. NamedDoc(on[w], d, halts')
  BY <1>1, <1>3, <1>5, <1>6 DEF NamedDoc
<1>13. halts' >= halts /\ db' = db /\ nextId' = nextId
  BY <1>1, <1>6, <1>9 DEF store
<1>14. executed' \subseteq approved /\ \A y \in executed' : y.n <= halts'
  <2>1. \A y \in executed : y.n \in Nat /\ y.n <= halts
    BY <1>1, CallKinds DEF EngineInv, HistoryType
  <2> QED
    BY <1>1, <1>6, <1>7, <2>1 DEF EngineInv
<1>15. "save" \in Pcs \ {"idle", "seed"} /\ "save" \notin {"dispatch", "again"}
  BY DEF Pcs
<1> QED
  BY <1>0, <1>1, <1>5, <1>7, <1>9, <1>10, <1>11, <1>12, <1>13, <1>14, <1>15, ContinueFrame

LEMMA CallToolSafe ==
    ASSUME EngineInv, NEW w \in Workers, NEW t \in Tools, CallTool(w, t)
    PROVE  EngineInv'
<1>0. pc[w] = "think" /\ t \notin Gated
  BY DEF CallTool, Thinking
<1>1. /\ TypeOK /\ StoreType /\ HistoryType /\ on[w] \in Goals /\ Plain(t) \in Calls /\ halts \in Nat
      /\ doc[w] \in Docs
  BY <1>0, Asked, StaysPut
<1>2. PICK d : d = Counted(doc[w], t)
  OBVIOUS
<1>3. d \in Docs /\ d.status = doc[w].status /\ d.pending = doc[w].pending
  BY <1>1, <1>2, Edits
<1>4. /\ Become(w, d, "dispatch") /\ call' = [call EXCEPT ![w] = Plain(t)] /\ UNCHANGED history
  BY <1>2 DEF CallTool
<1>5. Moves(w, "dispatch", kind[w], on[w], d, Plain(t), victims[w]) /\ UNCHANGED store
  BY <1>1, <1>4, Becoming
<1>6. StoreType' /\ HistoryType'
  BY <1>1, <1>4, <1>5, StoreStays, HistoryStays
<1>7. NamedDoc(on[w], d, halts)
  <2>1. NamedDoc(on[w], doc[w], halts)
    BY <1>0, Asked DEF Working, Live
  <2> QED
    BY <1>3, <2>1 DEF NamedDoc
<1>8. GrantedCall(on[w], Plain(t), halts, approved)
  BY <1>0 DEF GrantedCall
<1>9. /\ halts' = halts /\ halts' >= halts /\ approved' = approved /\ nextId' = nextId /\ db' = db
      /\ ncalls' = ncalls /\ turns' = turns /\ executed' = executed
  BY <1>1, <1>4, <1>5 DEF history, store
<1>10. executed' \subseteq approved /\ \A y \in executed' : y.n <= halts'
  BY <1>9 DEF EngineInv
<1>11. "dispatch" \in Pcs \ {"idle", "seed"}
  BY DEF Pcs
<1> QED
  BY <1>0, <1>1, <1>3, <1>5, <1>6, <1>7, <1>8, <1>9, <1>10, <1>11, ContinueFrame

LEMMA Saturated ==
    ASSUME NEW n \in Nat, NEW m \in Nat
    PROVE  Saturate(n, m) \in Nat /\ Saturate(n, m) <= n + 1
  BY DEF Saturate

(* The tool runs: what is recorded of it.                                    *)
LEMMA Executes ==
    ASSUME HistoryType, NEW w \in Workers, on[w] \in Goals, Execute(w), call[w] \in Calls,
           call[w].tool \in Tools
    PROVE  /\ ncalls' \in [Goals -> [all : Nat, of : [Tools -> Nat]]]
           /\ \A g \in Goals : g # on[w] => ncalls'[g] = ncalls[g]
           /\ ncalls'[on[w]].all <= ncalls[on[w]].all + 1
           /\ ncalls'[on[w]].of[call[w].tool] <= ncalls[on[w]].of[call[w].tool] + 1
           /\ \A t \in Tools : t # call[w].tool => ncalls'[on[w]].of[t] = ncalls[on[w]].of[t]
           /\ executed' \in {executed, executed \cup {call[w]}}
           /\ call[w].n = 0 => executed' = executed
           /\ twice' = twice \cup (executed \cap {call[w]})
<1>1. PICK g : g = on[w]
  OBVIOUS
<1>2. PICK t : t = call[w].tool
  OBVIOUS
<1>3. g \in Goals /\ t \in Tools /\ ncalls[g] \in [all : Nat, of : [Tools -> Nat]]
  BY <1>1, <1>2 DEF HistoryType
<1>4. PICK n : n = ncalls[g]
  OBVIOUS
<1>5. n.all \in Nat /\ n.of \in [Tools -> Nat] /\ n.of[t] \in Nat
  BY <1>3, <1>4
<1>6. inst.maxSteps + 1 \in Nat
  BY Bounds DEF HistoryType
<1>7. PICK a : a = Saturate(n.all, inst.maxSteps + 1)
  OBVIOUS
<1>8. PICK b : b = Saturate(n.of[t], inst.maxSteps + 1)
  OBVIOUS
<1>9. a \in Nat /\ a <= n.all + 1 /\ b \in Nat /\ b <= n.of[t] + 1
  BY <1>5, <1>6, <1>7, <1>8, Saturated
<1>10. PICK o : o = [n.of EXCEPT ![t] = b]
  OBVIOUS
<1>11. o \in [Tools -> Nat] /\ o[t] = b /\ \A u \in Tools : u # t => o[u] = n.of[u]
  BY <1>3, <1>5, <1>9, <1>10
<1>12. PICK m : m = [n EXCEPT !.all = a, !.of = o]
  OBVIOUS
<1>13. m \in [all : Nat, of : [Tools -> Nat]] /\ m.all = a /\ m.of = o
  BY <1>3, <1>4, <1>9, <1>11, <1>12
<1>14. ncalls' = [ncalls EXCEPT ![g] = m]
  <2>1. ncalls' = [ncalls EXCEPT ![g].all = Saturate(@, inst.maxSteps + 1),
                                 ![g].of[t] = Saturate(@, inst.maxSteps + 1)]
    BY <1>1, <1>2 DEF Execute
  <2> QED
    BY <1>3, <1>4, <1>7, <1>8, <1>10, <1>12, <2>1 DEF HistoryType
<1>15. /\ ncalls' \in [Goals -> [all : Nat, of : [Tools -> Nat]]] /\ ncalls'[g] = m
       /\ \A h \in Goals : h # g => ncalls'[h] = ncalls[h]
  BY <1>3, <1>13, <1>14 DEF HistoryType
<1>16. /\ executed' \in {executed, executed \cup {call[w]}}
       /\ call[w].n = 0 => executed' = executed
       /\ twice' = twice \cup (executed \cap {call[w]})
  BY DEF Execute
<1> QED
  BY <1>1, <1>2, <1>4, <1>9, <1>11, <1>13, <1>15, <1>16

(* What a granted call is.                                                   *)
LEMMA Granted ==
    ASSUME EngineInv, NEW w \in Workers, pc[w] \in {"dispatch", "again"}
    PROVE  /\ call[w].tool \in Tools /\ call[w].n \in Nat
           /\ call[w].n # 0 => call[w] \in approved /\ call[w].goal = on[w] /\ call[w].n <= halts
           /\ call[w].n = 0 => call[w] \notin executed
           /\ GrantedCall(on[w], call[w], halts, approved)
<1>1. HistoryType /\ GrantedCall(on[w], call[w], halts, approved) /\ halts \in Nat
  BY Asked
<1>2. approved \subseteq Tokens /\ executed \subseteq Tokens
  BY <1>1 DEF HistoryType
<1>3. CASE \E t \in Tools \ Gated : call[w] = Plain(t)
  BY <1>1, <1>2, <1>3, CallKinds
<1>4. CASE call[w] \in approved /\ call[w].goal = on[w] /\ call[w].n \in 1 .. halts
  BY <1>1, <1>2, <1>4, CallKinds
<1> QED
  BY <1>1, <1>3, <1>4 DEF GrantedCall

(* What is known after a task, which stays on its goal, has run its call.    *)
LEMMA Ran ==
    ASSUME EngineInv, NEW w \in Workers, pc[w] \in {"dispatch", "again"},
           UNCHANGED <<inst, halts, session, approved, turns>>,
           Execute(w) \/ UNCHANGED <<ncalls, executed, twice>>
    PROVE  /\ HistoryType'
           /\ \A g \in Goals : g # on[w] => ncalls'[g] = ncalls[g] /\ turns'[g] = turns[g]
           /\ executed' \subseteq approved /\ \A x \in executed' : x.n <= halts'
<1>1. HistoryType /\ on[w] \in Goals /\ call[w] \in Calls
  BY Asked
<1>2. call[w].tool \in Tools /\ (call[w].n # 0 => call[w] \in approved /\ call[w].n <= halts)
  BY Granted
<1>3. executed \subseteq approved /\ \A x \in executed : x.n <= halts
  BY DEF EngineInv
<1>4. CASE Execute(w)
  <2>1. /\ ncalls' \in [Goals -> [all : Nat, of : [Tools -> Nat]]]
        /\ \A g \in Goals : g # on[w] => ncalls'[g] = ncalls[g]
        /\ executed' \in {executed, executed \cup {call[w]}}
        /\ call[w].n = 0 => executed' = executed
        /\ twice' = twice \cup (executed \cap {call[w]})
    BY <1>1, <1>2, <1>4, Executes
  <2>2. executed' \subseteq approved /\ \A x \in executed' : x.n <= halts'
    BY <1>2, <1>3, <2>1
  <2> QED
    BY <1>1, <2>1, <2>2 DEF HistoryType
<1>5. CASE UNCHANGED <<ncalls, executed, twice>>
  BY <1>1, <1>3, <1>5 DEF HistoryType
<1> QED
  BY <1>4, <1>5

LEMMA DispatchSafe ==
    ASSUME EngineInv, NEW w \in Workers, Dispatch(w)
    PROVE  EngineInv'
<1>0. pc[w] \in {"dispatch", "again"} /\ pc[w] # "idle"
  BY DEF Dispatch
<1>1. /\ TypeOK /\ StoreType /\ HistoryType /\ on[w] \in Goals /\ doc[w] \in Docs /\ halts \in Nat
      /\ NamedDoc(on[w], doc[w], halts) /\ NoCall \in Calls
  BY <1>0, Asked, StaysPut DEF Working, Live
<1>2. Execute(w) /\ UNCHANGED <<inst, halts, session, approved, turns>>
      /\ call' = [call EXCEPT ![w] = NoCall]
  BY DEF Dispatch
<1>3. PICK p \in {"persist", "fail"}, d \in Docs :
         Become(w, d, p) /\ (d = doc[w] \/ d = Step(doc[w]))
  <2>1. Step(doc[w]) \in Docs
    BY <1>1, Edits
  <2> QED
    BY <1>1, <2>1 DEF Dispatch
<1>4. Moves(w, p, kind[w], on[w], d, NoCall, victims[w]) /\ UNCHANGED store
  BY <1>1, <1>2, <1>3, Becoming
<1>5. /\ HistoryType'
      /\ \A g \in Goals : g # on[w] => ncalls'[g] = ncalls[g] /\ turns'[g] = turns[g]
      /\ executed' \subseteq approved /\ \A x \in executed' : x.n <= halts'
  BY <1>0, <1>2, Ran
<1>6. StoreType' /\ db' = db /\ nextId' = nextId
  BY <1>1, <1>4, StoreStays DEF store
<1>7. NamedDoc(on[w], d, halts')
  BY <1>1, <1>2, <1>3, Edits DEF NamedDoc
<1>8. p \in Pcs \ {"idle", "seed"} /\ p \notin {"dispatch", "again"}
  BY DEF Pcs
<1>9. halts' >= halts
  BY <1>1, <1>2
<1> QED
  BY <1>0, <1>1, <1>2, <1>3, <1>4, <1>5, <1>6, <1>7, <1>8, <1>9, ContinueFrame

LEMMA TimeoutSafe ==
    ASSUME EngineInv, NEW w \in Workers, DeviceTimesOut(w)
    PROVE  EngineInv'
<1>0. pc[w] = "dispatch"
  BY DEF DeviceTimesOut
<1>1. /\ TypeOK /\ StoreType /\ HistoryType /\ on[w] \in Goals /\ doc[w] \in Docs /\ halts \in Nat
      /\ NamedDoc(on[w], doc[w], halts) /\ call[w] \in Calls
      /\ GrantedCall(on[w], call[w], halts, approved)
  BY <1>0, Asked DEF Working, Live
<1>2. /\ Execute(w) \/ UNCHANGED <<ncalls, executed, twice>>
      /\ UNCHANGED <<inst, call, halts, session, approved, turns>>
      /\ Become(w, doc[w], "again")
  BY DEF DeviceTimesOut
<1>3. call' = [call EXCEPT ![w] = call[w]]
  BY <1>1, <1>2, StaysPut
<1>4. Moves(w, "again", kind[w], on[w], doc[w], call[w], victims[w]) /\ UNCHANGED store
  BY <1>1, <1>2, <1>3, Becoming
<1>5. /\ HistoryType'
      /\ \A g \in Goals : g # on[w] => ncalls'[g] = ncalls[g] /\ turns'[g] = turns[g]
      /\ executed' \subseteq approved /\ \A x \in executed' : x.n <= halts'
  BY <1>0, <1>2, Ran
<1>6. StoreType' /\ db' = db /\ nextId' = nextId
  BY <1>1, <1>4, StoreStays DEF store
<1>7. "again" \in Pcs \ {"idle", "seed"}
  BY DEF Pcs
<1>8. halts' >= halts /\ halts' = halts /\ approved' = approved
  BY <1>1, <1>2
<1> QED
  BY <1>0, <1>1, <1>4, <1>5, <1>6, <1>7, <1>8, ContinueFrame

(* The task writes its copy, or loses the call.                              *)
Writes(w, d) == PutOk(on[w], d) \/ PutFails(on[w], d)

LEMMA Written ==
    ASSUME EngineInv, NEW w \in Workers, pc[w] # "idle", NEW d \in Docs, Writes(w, d),
           NamedDoc(on[w], d, halts)
    PROVE  /\ StoreType' /\ nextId' = nextId
           /\ \A g \in Goals : db'[g] = db[g] \/ (g = on[w] /\ NamedDoc(g, db'[g], halts))
           /\ PutOk(on[w], d) => db'[on[w]] = d
<1>1. StoreType /\ on[w] \in Goals
  BY Asked
<1>2. nextId' = nextId
  BY DEF Writes, PutOk, PutFails
<1>3. CASE Put(on[w], d)
  BY <1>1, <1>2, <1>3, PutType
<1>4. CASE UNCHANGED <<db, newer>> /\ ~PutOk(on[w], d)
  BY <1>1, <1>2, <1>4 DEF StoreType
<1> QED
  BY <1>2, <1>3, <1>4 DEF Writes, PutOk, PutFails

LEMMA WriteSafe ==
    ASSUME EngineInv, NEW w \in Workers, pc[w] \in {"seed", "persist", "save", "declining"},
           Writes(w, doc[w]) \/ UNCHANGED store,
           NEW p \in {"think", "fail", "record"}, Goto(w, p), UNCHANGED <<doc, call, victims, history>>
    PROVE  EngineInv'
<1>0. pc[w] # "idle"
  OBVIOUS
<1>1. /\ TypeOK /\ StoreType /\ HistoryType /\ on[w] \in Goals /\ doc[w] \in Docs /\ halts \in Nat
      /\ NamedDoc(on[w], doc[w], halts) /\ call[w] \in Calls
  BY Asked DEF Working, Live
<1>2. Moves(w, p, kind[w], on[w], doc[w], call[w], victims[w])
  BY <1>1, GoingOn
<1>3. HistoryType'
  BY <1>1, HistoryStays
<1>4. /\ StoreType' /\ nextId' = nextId
      /\ \A g \in Goals : db'[g] = db[g] \/ (g = on[w] /\ NamedDoc(g, db'[g], halts))
  <2>1. CASE Writes(w, doc[w])
    BY <1>1, <2>1, Written
  <2>2. CASE UNCHANGED store
    BY <1>1, <2>2, StoreStays DEF store
  <2> QED
    BY <2>1, <2>2
<1>5. /\ halts' = halts /\ halts' >= halts /\ approved' = approved
      /\ ncalls' = ncalls /\ turns' = turns /\ executed' = executed
  BY <1>1 DEF history
<1>6. executed' \subseteq approved /\ \A y \in executed' : y.n <= halts'
  BY <1>5 DEF EngineInv
<1>7. p \in Pcs \ {"idle", "seed"} /\ p \notin {"dispatch", "again"}
  BY DEF Pcs
<1> QED
  BY <1>0, <1>1, <1>2, <1>3, <1>4, <1>5, <1>6, <1>7, ContinueFrame

LEMMA WritersSafe ==
    ASSUME EngineInv, NEW w \in Workers, Seed(w) \/ Persist(w) \/ Save(w)
    PROVE  EngineInv'
<1>1. /\ pc[w] \in {"seed", "persist", "save", "declining"}
      /\ Writes(w, doc[w]) \/ UNCHANGED store
      /\ UNCHANGED <<doc, call, victims, history>>
      /\ \E p \in {"think", "fail", "record"} : Goto(w, p)
  BY DEF Seed, Persist, Save, Writes
<1> QED
  BY <1>1, WriteSafe

LEMMA SaveDeclineSafe ==
    ASSUME EngineInv, NEW w \in Workers, SaveDecline(w)
    PROVE  EngineInv'
<1>0. pc[w] = "declining" /\ UNCHANGED <<call, history>>
  BY DEF SaveDecline
<1>1. CASE PutOk(on[w], doc[w]) /\ Goto(w, "record") /\ UNCHANGED <<doc, victims>>
  BY <1>0, <1>1, WriteSafe DEF Writes
<1>2. CASE PutFails(on[w], doc[w]) /\ End(w)
  <2>1. /\ TypeOK /\ StoreType /\ HistoryType /\ doc[w] \in Docs
        /\ NamedDoc(on[w], doc[w], halts)
    BY <1>0, Asked DEF Working
  <2>2. /\ StoreType' /\ nextId' = nextId
        /\ \A g \in Goals : db'[g] = db[g] \/ (g = on[w] /\ NamedDoc(g, db'[g], halts))
    BY <1>0, <1>2, <2>1, Written DEF Writes
  <2>3. /\ HistoryType' /\ halts' = halts /\ approved' = approved /\ executed' = executed
        /\ ncalls' = ncalls /\ turns' = turns
    BY <1>0, <2>1, HistoryStays DEF history
  <2> QED
    BY <1>0, <1>2, <2>2, <2>3, EndFrame
<1> QED
  BY <1>1, <1>2 DEF SaveDecline

LEMMA FailSafe ==
    ASSUME EngineInv, NEW w \in Workers, Fail(w)
    PROVE  EngineInv'
<1>0. pc[w] = "fail" /\ pc[w] # "idle"
  BY DEF Fail
<1>1. /\ TypeOK /\ StoreType /\ HistoryType /\ on[w] \in Goals /\ doc[w] \in Docs /\ call[w] \in Calls
      /\ halts \in Nat
  BY <1>0, Asked
<1>2. PICK d : d = EndWith(doc[w], "error")
  OBVIOUS
<1>3. d \in Docs /\ d.status = "error"
  <2>1. "error" \in Statuses
    BY DEF Statuses, Terminal
  <2> QED
    BY <1>1, <1>2, <2>1, Edits
<1>4. NamedDoc(on[w], d, halts)
  BY <1>3 DEF NamedDoc
<1>5. /\ Writes(w, d) /\ doc' = [doc EXCEPT ![w] = d] /\ Goto(w, "recordFailed")
      /\ UNCHANGED <<call, victims, history>>
  BY <1>2 DEF Fail, Writes
<1>6. Moves(w, "recordFailed", kind[w], on[w], d, call[w], victims[w])
  BY <1>1, <1>5, StaysPut DEF Goto, Moves
<1>7. HistoryType'
  BY <1>1, <1>5, HistoryStays
<1>8. /\ StoreType' /\ nextId' = nextId
      /\ \A g \in Goals : db'[g] = db[g] \/ (g = on[w] /\ NamedDoc(g, db'[g], halts))
  BY <1>0, <1>3, <1>4, <1>5, Written
<1>9. /\ halts' = halts /\ halts' >= halts /\ approved' = approved
      /\ ncalls' = ncalls /\ turns' = turns /\ executed' = executed
  BY <1>1, <1>5 DEF history
<1>10. executed' \subseteq approved /\ \A y \in executed' : y.n <= halts'
  BY <1>9 DEF EngineInv
<1>11. "recordFailed" \in Pcs \ {"idle", "seed"} /\ "recordFailed" \notin Working
       /\ "recordFailed" \notin {"dispatch", "again"}
  BY DEF Pcs, Working, Live
<1> QED
  BY <1>0, <1>1, <1>3, <1>6, <1>7, <1>8, <1>9, <1>10, <1>11, ContinueFrame

LEMMA RecordSafe ==
    ASSUME EngineInv, NEW w \in Workers, Record(w)
    PROVE  EngineInv'
<1>0. /\ pc[w] \in {"record", "recordFailed"} /\ pc[w] # "idle"
      /\ UNCHANGED <<inst, store, call, halts, session, approved, executed, twice, ncalls>>
  BY DEF Record
<1>1. /\ TypeOK /\ StoreType /\ HistoryType /\ on[w] \in Goals /\ doc[w] \in Docs /\ call[w] \in Calls
      /\ halts \in Nat
  BY <1>0, Asked
<1>2. turns' \in [Goals -> Nat] /\ \A g \in Goals : g # on[w] => turns'[g] = turns[g]
  <2>1. PICK n : n = Saturate(turns[on[w]], 2)
    OBVIOUS
  <2>2. n \in Nat
    BY <1>1, <2>1, Saturated DEF HistoryType
  <2>3. turns' = turns \/ turns' = [turns EXCEPT ![on[w]] = n]
    BY <2>1 DEF Record
  <2> QED
    BY <1>1, <2>2, <2>3 DEF HistoryType
<1>3. StoreType' /\ HistoryType' /\ db' = db /\ nextId' = nextId
  BY <1>0, <1>1, <1>2, StoreStays DEF HistoryType, store
<1>4. executed' \subseteq approved /\ \A y \in executed' : y.n <= halts'
  BY <1>0 DEF EngineInv
<1>5. "sweep" \in Pcs \ {"idle", "seed"} /\ "sweep" \notin Working /\ "sweep" \notin {"dispatch", "again"}
  BY DEF Pcs, Working, Live
<1>6. CASE Goto(w, "sweep") /\ UNCHANGED <<doc, victims>>
  <2>1. Moves(w, "sweep", kind[w], on[w], doc[w], call[w], victims[w])
    BY <1>0, <1>1, <1>6, GoingOn
  <2>2. halts' >= halts /\ approved' = approved /\ ncalls' = ncalls
    BY <1>0, <1>1
  <2> QED
    BY <1>0, <1>1, <1>2, <1>3, <1>4, <1>5, <2>1, <2>2, ContinueFrame
<1>7. CASE End(w)
  BY <1>0, <1>2, <1>3, <1>7, EndFrame
<1> QED
  BY <1>6, <1>7 DEF Record

LEMMA SweepSafe ==
    ASSUME EngineInv, NEW w \in Workers, Sweep(w)
    PROVE  EngineInv'
<1>0. pc[w] = "sweep" /\ pc[w] # "idle" /\ UNCHANGED <<store, call, history>>
  BY DEF Sweep
<1>1. /\ TypeOK /\ StoreType /\ HistoryType /\ on[w] \in Goals /\ doc[w] \in Docs /\ call[w] \in Calls
      /\ halts \in Nat
  BY <1>0, Asked
<1>2. /\ StoreType' /\ HistoryType' /\ db' = db /\ nextId' = nextId /\ halts' = halts /\ approved' = approved
      /\ executed' = executed /\ ncalls' = ncalls /\ turns' = turns
  BY <1>0, <1>1, StoreStays, HistoryStays DEF store, history
<1>3. CASE victims' = [victims EXCEPT ![w] = PruneIds] /\ Goto(w, "pruning") /\ UNCHANGED doc
  <2>1. PICK V : V = PruneIds
    OBVIOUS
  <2>2. V \subseteq Goals /\ \A g \in V : db[g] # Missing
    BY <2>1, StatusNames DEF PruneIds
  <2>3. Moves(w, "pruning", kind[w], on[w], doc[w], call[w], V)
    BY <1>0, <1>1, <1>3, <2>1, StaysPut DEF Goto, Moves
  <2>4. TypedMove("pruning", kind[w], on[w], doc[w], call[w], V)
    BY <1>1, <2>2, StaysPut DEF TypedMove, Pcs
  <2>5. halts' >= halts /\ nextId' >= nextId /\ approved \subseteq approved'
    BY <1>1, <1>2 DEF StoreType
  <2>6. "pruning" \notin Working /\ "pruning" \notin {"dispatch", "again"} /\ "pruning" # "seed"
    BY DEF Working, Live
  <2>7. executed' \subseteq approved' /\ \A y \in executed' : y.n <= halts'
    BY <1>2 DEF EngineInv
  <2> QED
    BY <1>0, <1>1, <1>2, <2>2, <2>3, <2>4, <2>5, <2>6, <2>7, EngineFrame
<1>4. CASE End(w)
  BY <1>0, <1>2, <1>4, EndFrame
<1> QED
  BY <1>3, <1>4 DEF Sweep

(* Documents go away, one or none.                                           *)
LEMMA Erased ==
    ASSUME StoreType, NEW g \in Goals, Erase(g) \/ UNCHANGED <<db, newer>>, nextId' = nextId
    PROVE  StoreType' /\ \A h \in Goals : db'[h] \in {db[h], Missing}
<1>1. CASE Erase(g)
  <2>1. StoreType' /\ db'[g] = Missing /\ \A h \in Goals : h # g => db'[h] = db[h]
    BY <1>1, EraseType
  <2> QED
    BY <2>1
<1>2. CASE UNCHANGED <<db, newer>>
  BY <1>2 DEF StoreType
<1> QED
  BY <1>1, <1>2

LEMMA FinishDeleteSafe ==
    ASSUME EngineInv, NEW w \in Workers, FinishDelete(w)
    PROVE  EngineInv'
<1>0. /\ pc[w] = "deleting" /\ pc[w] # "idle" /\ UNCHANGED <<nextId, call, history>> /\ End(w)
      /\ Erase(on[w]) \/ UNCHANGED <<db, newer>>
  BY DEF FinishDelete
<1>1. /\ StoreType /\ HistoryType /\ on[w] \in Goals
  BY <1>0, Asked
<1>2. StoreType' /\ \A h \in Goals : db'[h] \in {db[h], Missing}
  BY <1>0, <1>1, Erased
<1>3. /\ HistoryType' /\ halts' = halts /\ approved' = approved
      /\ executed' = executed /\ ncalls' = ncalls /\ turns' = turns
  BY <1>0, <1>1, HistoryStays DEF history
<1> QED
  BY <1>0, <1>2, <1>3, EndFrame

LEMMA PruneOneSafe ==
    ASSUME EngineInv, NEW w \in Workers, NEW g \in Goals, PruneOne(w, g)
    PROVE  EngineInv'
<1>0. /\ pc[w] = "pruning" /\ pc[w] # "idle" /\ UNCHANGED <<nextId, call, history>>
      /\ Erase(g) \/ UNCHANGED <<db, newer>>
  BY DEF PruneOne
<1>1. /\ TypeOK /\ StoreType /\ HistoryType /\ on[w] \in Goals /\ doc[w] \in Docs /\ call[w] \in Calls
      /\ halts \in Nat
  BY <1>0, Asked
<1>2. StoreType' /\ \A h \in Goals : db'[h] \in {db[h], Missing}
  BY <1>0, <1>1, Erased
<1>3. /\ HistoryType' /\ halts' = halts /\ approved' = approved
      /\ executed' = executed /\ ncalls' = ncalls /\ turns' = turns
  BY <1>0, <1>1, HistoryStays DEF history
<1>4. CASE victims' = [victims EXCEPT ![w] = @ \ {g}] /\ Goto(w, "pruning") /\ UNCHANGED doc
  <2>1. PICK V : V = victims[w] \ {g}
    OBVIOUS
  <2>2. V \subseteq Goals /\ \A h \in V : h \in victims[w]
    BY <1>1, <2>1, StaysPut DEF TypedMove
  <2>3. Moves(w, "pruning", kind[w], on[w], doc[w], call[w], V)
    BY <1>0, <1>1, <1>4, <2>1, StaysPut DEF Goto, Moves
  <2>4. TypedMove("pruning", kind[w], on[w], doc[w], call[w], V)
    BY <1>1, <2>2, StaysPut DEF TypedMove, Pcs
  <2>5. halts' >= halts /\ nextId' >= nextId /\ approved \subseteq approved'
    BY <1>0, <1>1, <1>3 DEF StoreType
  <2>6. "pruning" \notin Working /\ "pruning" \notin {"dispatch", "again"} /\ "pruning" # "seed"
    BY DEF Working, Live
  <2>7. executed' \subseteq approved' /\ \A y \in executed' : y.n <= halts'
    BY <1>3 DEF EngineInv
  <2> QED
    BY <1>0, <1>1, <1>2, <1>3, <2>2, <2>3, <2>4, <2>5, <2>6, <2>7, EngineFrame
<1>5. CASE End(w)
  BY <1>0, <1>2, <1>3, <1>5, EndFrame
<1> QED
  BY <1>4, <1>5 DEF PruneOne

(* A request takes a goal: o is stored, or new.                              *)
LEMMA TakeFrame ==
    ASSUME EngineInv, NEW w \in Workers, pc[w] = "idle", NEW k \in Kinds, NEW o \in Goals,
           NEW p \in Pcs \ {"idle"}, NEW d \in Docs, NEW c \in Calls,
           Take(w, k, o, p), UNCHANGED victims,
           doc' = [doc EXCEPT ![w] = d], call' = [call EXCEPT ![w] = c],
           db' = db, newer' = newer, ncalls' = ncalls, turns' = turns, halts' = halts, executed' = executed,
           HistoryType', approved \subseteq approved',
           (db[o] # Missing /\ nextId' = nextId) \/ (o = nextId /\ nextId' = nextId + 1),
           p = "seed" => o = nextId /\ nextId' = nextId + 1,
           p \in Working => NamedDoc(o, d, halts),
           p \in {"dispatch", "again"} => GrantedCall(o, c, halts, approved')
    PROVE  EngineInv'
<1>1. TypeOK /\ StoreType /\ HistoryType /\ TaskType
  BY Types DEF EngineInv
<1>2. Moves(w, p, k, o, d, c, victims[w])
  BY <1>1, Taking
<1>3. TypedMove(p, k, o, d, c, victims[w])
  BY <1>1 DEF TypedMove, TaskType
<1>4. StoreType' /\ nextId' >= nextId /\ halts' >= halts
  BY <1>1 DEF StoreType, HistoryType
<1>5. executed' \subseteq approved' /\ \A y \in executed' : y.n <= halts'
  BY DEF EngineInv
<1> QED
  BY <1>2, <1>3, <1>4, <1>5, EngineFrame

LEMMA StartGoalSafe ==
    ASSUME EngineInv, NEW w \in Workers, StartGoal(w)
    PROVE  EngineInv'
<1>1. TypeOK /\ StoreType /\ HistoryType /\ TaskType
  BY Types DEF EngineInv
<1>2. inst \in Instances /\ nextId \in Nat \ {0} /\ nextId <= inst.maxGoals
  BY <1>1 DEF StartGoal, HistoryType, StoreType
<1>3. nextId \in Goals
  BY <1>2, Bounds
<1>4. /\ pc[w] = "idle" /\ Take(w, "start", nextId, "seed") /\ nextId' = nextId + 1
      /\ doc' = [doc EXCEPT ![w] = NewDoc] /\ session' \in {session, session \cup {nextId}}
      /\ UNCHANGED <<inst, db, newer, call, victims, halts, approved, executed, twice, ncalls, turns>>
  BY DEF StartGoal
<1>5. HistoryType'
  BY <1>1, <1>3, <1>4 DEF HistoryType
<1>6. call' = [call EXCEPT ![w] = call[w]] /\ call[w] \in Calls
  BY <1>1, <1>4, StaysPut DEF TypedMove
<1>7. "start" \in Kinds /\ "seed" \in Pcs \ {"idle"} /\ "seed" \notin {"dispatch", "again"}
  BY DEF Kinds, Pcs
<1>8. NamedDoc(nextId, NewDoc, halts) /\ NewDoc \in Docs
  BY StatusNames DEF NamedDoc
<1>9. approved \subseteq approved'
  BY <1>4
<1> QED
  BY <1>3, <1>4, <1>5, <1>6, <1>7, <1>8, <1>9, TakeFrame

(* A goal that waits, as it is read.                                         *)
LEMMA ReadHalted ==
    ASSUME EngineInv, NEW g \in Goals, db[g].status = "needs_confirmation"
    PROVE  /\ db[g] \in Docs /\ db[g] # Missing
           /\ db[g].pending \in Tokens /\ db[g].pending.goal = g /\ db[g].pending.n \in 1 .. halts
           /\ db[g].pending.tool \in Tools
<1>1. db[g] \in Docs \cup {Missing}
  BY Types DEF EngineInv, StoreType
<1>2. db[g] # Missing
  BY StatusNames
<1>3. db[g].pending \in Tokens /\ db[g].pending.goal = g /\ db[g].pending.n \in 1 .. halts
  BY DEF EngineInv, NamedDoc
<1> QED
  BY <1>1, <1>2, <1>3, CallKinds

LEMMA DeclineSafe ==
    ASSUME EngineInv, NEW w \in Workers, NEW g \in Goals, Decline(w, g)
    PROVE  EngineInv'
<1>1. TypeOK /\ StoreType /\ HistoryType /\ TaskType
  BY Types DEF EngineInv
<1>2. db[g].status = "needs_confirmation"
  BY DEF Decline
<1>3. db[g] \in Docs /\ db[g] # Missing
  BY <1>2, ReadHalted
<1>4. PICK d : d = Declined(db[g])
  OBVIOUS
<1>5. d \in Docs /\ d.status = "declined"
  BY <1>3, <1>4, MoreEdits
<1>6. /\ pc[w] = "idle" /\ Take(w, "resume", g, "declining") /\ doc' = [doc EXCEPT ![w] = d]
      /\ UNCHANGED <<store, call, victims, history>>
  BY <1>4 DEF Decline, Declined
<1>7. /\ HistoryType' /\ db' = db /\ newer' = newer /\ nextId' = nextId /\ halts' = halts
      /\ approved \subseteq approved'
      /\ executed' = executed /\ ncalls' = ncalls /\ turns' = turns
  BY <1>1, <1>6, HistoryStays DEF store, history
<1>8. call' = [call EXCEPT ![w] = call[w]] /\ call[w] \in Calls
  BY <1>1, <1>6, StaysPut DEF TypedMove
<1>9. /\ "resume" \in Kinds /\ "declining" \in Pcs \ {"idle"} /\ "declining" \notin {"dispatch", "again"}
      /\ "declining" # "seed"
  BY DEF Kinds, Pcs
<1>10. NamedDoc(g, d, halts)
  BY <1>5 DEF NamedDoc
<1>11. (db[g] # Missing /\ nextId' = nextId) \/ (g = nextId /\ nextId' = nextId + 1)
  BY <1>3, <1>7
<1>12. UNCHANGED victims
  BY <1>6
<1> QED
  BY <1>5, <1>6, <1>7, <1>8, <1>9, <1>10, <1>11, <1>12, TakeFrame

LEMMA DeleteGoalSafe ==
    ASSUME EngineInv, NEW w \in Workers, NEW g \in Goals, DeleteGoal(w, g)
    PROVE  EngineInv'
<1>1. TypeOK /\ StoreType /\ HistoryType /\ TaskType
  BY Types DEF EngineInv
<1>2. /\ pc[w] = "idle" /\ db[g] # Missing /\ Take(w, "delete", g, "deleting")
      /\ UNCHANGED <<store, doc, call, victims, history>>
  BY DEF DeleteGoal
<1>3. /\ HistoryType' /\ db' = db /\ newer' = newer /\ nextId' = nextId /\ halts' = halts
      /\ approved \subseteq approved'
      /\ executed' = executed /\ ncalls' = ncalls /\ turns' = turns
  BY <1>1, <1>2, HistoryStays DEF store, history
<1>4. /\ call' = [call EXCEPT ![w] = call[w]] /\ call[w] \in Calls
      /\ doc' = [doc EXCEPT ![w] = doc[w]] /\ doc[w] \in Docs
  BY <1>1, <1>2, StaysPut DEF TypedMove
<1>5. /\ "delete" \in Kinds /\ "deleting" \in Pcs \ {"idle"} /\ "deleting" \notin {"dispatch", "again"}
      /\ "deleting" # "seed" /\ "deleting" \notin Working
  BY DEF Kinds, Pcs, Working, Live
<1>6. (db[g] # Missing /\ nextId' = nextId) \/ (g = nextId /\ nextId' = nextId + 1)
  BY <1>2, <1>3
<1>7. UNCHANGED victims
  BY <1>2
<1> QED
  BY <1>2, <1>3, <1>4, <1>5, <1>6, <1>7, TakeFrame

(* What an approval leads to: the call is on the books and about to run, or  *)
(* the quota speaks against it.                                              *)
LEMMA Approves ==
    ASSUME EngineInv, NEW w \in Workers, NEW g \in Goals, Approve(w, g)
    PROVE  \E token, taken, d, c, p :
              /\ token = db[g].pending /\ taken = Taken(db[g]) /\ taken \in Docs /\ d \in Docs
              /\ \/ /\ p = "dispatch" /\ c = token
                    /\ \/ d = Counted(taken, token.tool) /\ ~QuotaSpent(taken, token.tool)
                       \/ d = taken /\ inst.catalogMayShrink
                 \/ p = "save" /\ d = Step(taken) /\ c = call[w]
                 \/ p = "fail" /\ d = taken /\ c = call[w]
              /\ doc' = [doc EXCEPT ![w] = d] /\ call' = [call EXCEPT ![w] = c]
              /\ Take(w, "resume", g, p)
<1>1. db[g].status = "needs_confirmation"
  BY DEF Approve
<1>2. db[g] \in Docs /\ db[g].pending \in Tokens /\ db[g].pending.tool \in Tools
  BY <1>1, ReadHalted
<1>3. PICK token : token = db[g].pending
  OBVIOUS
<1>4. PICK taken : taken = Taken(db[g])
  OBVIOUS
<1>5. taken \in Docs /\ Step(taken) \in Docs /\ Counted(taken, token.tool) \in Docs
  <2>1. taken \in Docs
    BY <1>2, <1>4, MoreEdits
  <2> QED
    BY <1>2, <1>3, <2>1, Edits
<1>6. call = [call EXCEPT ![w] = call[w]]
  BY StaysPut DEF EngineInv
<1>7. \/ /\ \/ /\ ~QuotaSpent(taken, token.tool)
               /\ doc' = [doc EXCEPT ![w] = Counted(taken, token.tool)]
            \/ /\ inst.catalogMayShrink
               /\ doc' = [doc EXCEPT ![w] = taken]
         /\ call' = [call EXCEPT ![w] = token]
         /\ Take(w, "resume", g, "dispatch")
      \/ /\ UNCHANGED call
         /\ \/ doc' = [doc EXCEPT ![w] = Step(taken)] /\ Take(w, "resume", g, "save")
            \/ doc' = [doc EXCEPT ![w] = taken] /\ Take(w, "resume", g, "fail")
  BY <1>3, <1>4 DEF Approve, Taken
<1> QED
  BY <1>3, <1>4, <1>5, <1>6, <1>7

LEMMA ApproveSafe ==
    ASSUME EngineInv, NEW w \in Workers, NEW g \in Goals, Approve(w, g)
    PROVE  EngineInv'
<1>1. TypeOK /\ StoreType /\ HistoryType /\ TaskType
  BY Types DEF EngineInv
<1>2. db[g].status = "needs_confirmation" /\ pc[w] = "idle"
  BY DEF Approve
<1>3. /\ db[g] \in Docs /\ db[g] # Missing
      /\ db[g].pending \in Tokens /\ db[g].pending.goal = g /\ db[g].pending.n \in 1 .. halts
      /\ db[g].pending.tool \in Tools
  BY <1>2, ReadHalted
<1>4. PICK token, taken, d, c, p :
         /\ token = db[g].pending /\ taken = Taken(db[g]) /\ taken \in Docs /\ d \in Docs
         /\ \/ /\ p = "dispatch" /\ c = token
               /\ \/ d = Counted(taken, token.tool) /\ ~QuotaSpent(taken, token.tool)
                  \/ d = taken /\ inst.catalogMayShrink
            \/ p = "save" /\ d = Step(taken) /\ c = call[w]
            \/ p = "fail" /\ d = taken /\ c = call[w]
         /\ doc' = [doc EXCEPT ![w] = d] /\ call' = [call EXCEPT ![w] = c]
         /\ Take(w, "resume", g, p)
  BY Approves
<1>5. taken.status = "running"
  BY <1>3, <1>4, MoreEdits
<1>6. d.status = "running"
  <2>1. PICK t : t = token.tool /\ t \in Tools
    BY <1>3, <1>4
  <2>2. Step(taken).status = "running" /\ Counted(taken, t).status = "running"
    BY <1>4, <1>5, <2>1, Edits
  <2> QED
    BY <1>4, <1>5, <2>1, <2>2
<1>7. c \in Calls /\ p \in Pcs \ {"idle"} /\ p # "seed" /\ p # "again"
  BY <1>1, <1>3, <1>4, StaysPut DEF TypedMove, Pcs
<1>8. /\ approved' = approved \cup {token}
      /\ UNCHANGED <<inst, store, victims, halts, session, executed, twice, ncalls, turns>>
  BY <1>4 DEF Approve
<1>9. HistoryType' /\ db' = db /\ newer' = newer /\ nextId' = nextId /\ approved \subseteq approved'
  BY <1>1, <1>3, <1>4, <1>8 DEF HistoryType, store
<1>10. NamedDoc(g, d, halts)
  BY <1>6 DEF NamedDoc
<1>11. p \in {"dispatch", "again"} => GrantedCall(g, c, halts, approved')
  BY <1>3, <1>4, <1>8 DEF GrantedCall
<1>12. "resume" \in Kinds
  BY DEF Kinds
<1>13. (db[g] # Missing /\ nextId' = nextId) \/ (g = nextId /\ nextId' = nextId + 1)
  BY <1>3, <1>9
<1>14. d \in Docs /\ doc' = [doc EXCEPT ![w] = d] /\ call' = [call EXCEPT ![w] = c] /\ Take(w, "resume", g, p)
  BY <1>4
<1> QED
  BY <1>2, <1>7, <1>8, <1>9, <1>10, <1>11, <1>12, <1>13, <1>14, TakeFrame

LEMMA CrashSafe ==
    ASSUME EngineInv, Crash
    PROVE  EngineInv'
<1>1. TypeOK /\ StoreType /\ HistoryType /\ UNCHANGED <<store, history>>
  BY Types DEF EngineInv, Crash
<1>2. StoreType' /\ HistoryType'
  BY <1>1, StoreStays, HistoryStays
<1>3. TaskType'
  BY StatusNames DEF Crash, TaskType, Pcs, Kinds, Calls
<1>4. TypeOK'
  BY <1>2, <1>3 DEF TypeOK, StoreType, HistoryType, TaskType, Kinds, Calls
<1>5. /\ db' = db /\ halts' = halts /\ executed' = executed /\ approved' = approved /\ nextId' = nextId
      /\ ncalls' = ncalls /\ turns' = turns
  BY <1>1 DEF store, history
<1>6. \A w \in Workers : pc'[w] = "idle" /\ victims'[w] = {}
  BY DEF Crash
<1>7. \A w \in Workers : TaskInv(w)'
  BY <1>6 DEF TaskInv, Working, Live
<1>8. \A g \in Goals : g >= nextId' => Unborn(g)'
  BY <1>5, <1>6 DEF EngineInv, Unborn
<1> QED
  BY <1>4, <1>5, <1>7, <1>8 DEF EngineInv

LEMMA StutterSafe ==
    ASSUME EngineInv, UNCHANGED vars
    PROVE  EngineInv'
<1>1. UNCHANGED <<db, newer, nextId, pc, kind, on, doc, call, victims, inst, halts, session, approved,
                  executed, twice, ncalls, turns>>
  BY DEF vars, store, task, history
<1>2. TypeOK'
  BY <1>1 DEF EngineInv, TypeOK
<1>3. \A w \in Workers : TaskInv(w)'
  BY <1>1 DEF EngineInv, TaskInv
<1>4. \A g \in Goals : g >= nextId' => Unborn(g)'
  BY <1>1 DEF EngineInv, Unborn
<1> QED
  BY <1>1, <1>2, <1>3, <1>4 DEF EngineInv

(* The ways a step of one task is taken.                                     *)
LEMMA StepKinds ==
    ASSUME TypeOK, NEW w \in Workers, Request(w) \/ Proceed(w)
    PROVE  \/ StartGoal(w) \/ \E g \in Goals : Decline(w, g) \/ Approve(w, g) \/ DeleteGoal(w, g)
           \/ Turn(w) \/ \E t \in Tools : Halt(w, t) \/ CallTool(w, t)
           \/ Dispatch(w) \/ DeviceTimesOut(w) \/ Seed(w) \/ Persist(w) \/ Save(w) \/ SaveDecline(w)
           \/ Fail(w) \/ Record(w) \/ FinishDelete(w) \/ Sweep(w) \/ \E g \in Goals : PruneOne(w, g)
<1>1. inst.tools \subseteq Tools
  BY Bounds DEF TypeOK
<1>2. CASE Request(w)
  BY <1>2 DEF Request
<1>3. CASE Proceed(w)
  BY <1>1, <1>3 DEF Proceed, Engine, Turn
<1> QED
  BY <1>2, <1>3

LEMMA EngineStep ==
    ASSUME EngineInv, [Next]_vars
    PROVE  EngineInv'
<1>1. ASSUME NEW w \in Workers, Request(w) \/ Proceed(w) PROVE EngineInv'
  <2>1. CASE StartGoal(w) \/ \E g \in Goals : Decline(w, g) \/ Approve(w, g) \/ DeleteGoal(w, g)
    BY <2>1, StartGoalSafe, DeclineSafe, ApproveSafe, DeleteGoalSafe
  <2>2. CASE Turn(w) \/ \E t \in Tools : Halt(w, t) \/ CallTool(w, t)
    BY <2>2, TurnSafe, HaltSafe, CallToolSafe
  <2>3. CASE Dispatch(w) \/ DeviceTimesOut(w)
    BY <2>3, DispatchSafe, TimeoutSafe
  <2>4. CASE Seed(w) \/ Persist(w) \/ Save(w) \/ SaveDecline(w) \/ Fail(w)
    BY <2>4, WritersSafe, SaveDeclineSafe, FailSafe
  <2>5. CASE Record(w) \/ FinishDelete(w) \/ Sweep(w) \/ \E g \in Goals : PruneOne(w, g)
    BY <2>5, RecordSafe, FinishDeleteSafe, SweepSafe, PruneOneSafe
  <2>6. TypeOK
    BY DEF EngineInv
  <2> QED
    BY <1>1, <2>1, <2>2, <2>3, <2>4, <2>5, <2>6, StepKinds
<1>2. CASE Crash
  BY <1>2, CrashSafe
<1>3. CASE UNCHANGED vars
  BY <1>3, StutterSafe
<1> QED
  BY <1>1, <1>2, <1>3 DEF Next, Quiet

LEMMA EngineStart == ASSUME Init PROVE EngineInv
<1>1. TypeOK
  <2>1. StoreType /\ HistoryType /\ TaskType
    <3>1. StoreType
      BY DEF Init, StoreType
    <3>2. HistoryType
      BY DEF Init, HistoryType
    <3>3. TaskType
      BY StatusNames DEF Init, TaskType, Pcs, Kinds, Calls
    <3> QED
      BY <3>1, <3>2, <3>3
  <2> QED
    BY <2>1, Types
<1>2. \A g \in Goals : NamedDoc(g, db[g], halts)
  BY StatusNames DEF Init, NamedDoc
<1>3. \A g \in Goals : Unborn(g)
  BY DEF Init, Unborn
<1>4. \A w \in Workers : TaskInv(w)
  BY DEF Init, TaskInv, Working, Live
<1> QED
  BY <1>1, <1>2, <1>3, <1>4 DEF Init, EngineInv

-----------------------------------------------------------------------------
(* Orderly use.                                                             *)

(* What is promised of a goal nobody acts on, and of a task on it, stays.    *)
LEMMA GoingStays ==
    ASSUME NEW p, NEW d, NEW c, NEW s, NEW t, NEW n, NEW u, NEW x, NEW y, NEW i,
           Going(p, d, c, s, n, u, x, i),
           t = s \/ (t.status = "missing" /\ p \notin Working),
           p = "dispatch" /\ c.n > 0 => (c \in y => c \in x),
           p = "save" /\ d.status = "needs_confirmation" => (d.pending \in y => d.pending \in x)
    PROVE  Going(p, d, c, t, n, u, y, i)
<1>1. p = "dispatch" => Affordable(d, c, n, y, i)
  BY DEF Going, Affordable
<1>2. p = "save" /\ d.status = "needs_confirmation" => Waiting(d, n, u, y, i)
  BY DEF Going, Waiting
<1>3. CASE t = s
  BY <1>1, <1>2, <1>3 DEF Going
<1>4. CASE t.status = "missing" /\ p \notin Working
  BY <1>1, <1>2, <1>4 DEF Going, Working, Live
<1> QED
  BY <1>3, <1>4

(* What any step of one task on the goal g must show.  Another goal may go   *)
(* away by it, if a sweep may take that.                                     *)
LEMMA CalmFrame ==
    ASSUME EngineInv, CalmInv, EngineInv', NEW w \in Workers, NEW g \in Goals,
           NEW p, NEW k, NEW o, NEW d, NEW c, NEW V,
           Moves(w, p, k, o, d, c, V), inst' = inst,
           \/ pc[w] # "idle" /\ on[w] = g
           \/ pc[w] = "idle" /\ \A v \in Workers : pc[v] # "idle" => on[v] # g,
           p # "idle" => o = g /\ Going(p, d, c, db'[g], ncalls'[g], turns'[g], executed', inst),
           \A h \in Goals : h # g => /\ ncalls'[h] = ncalls[h] /\ turns'[h] = turns[h]
                                     /\ db'[h] = db[h] \/ (db'[h] = Missing /\ Spared(h)),
           \A x \in executed' : x \in executed \/ x.goal = g,
           Kept(ncalls'[g], turns'[g], inst),
           db'[g].status = "needs_confirmation" =>
              \/ Waiting(db'[g], ncalls'[g], turns'[g], executed', inst)
              \/ p \in Live
              \/ \E v \in Workers \ {w} : pc[v] \in Live /\ on[v] = g,
           \/ g \notin V /\ \A v \in Workers : g \notin victims[v]
           \/ p \notin Working /\ db'[g] \in {db[g], Missing},
           \A h \in V : h \in victims[w] \/ Spared(h),
           twice' = {}
    PROVE  CalmInv'
<1>1. TypeOK /\ HistoryType /\ TaskType
  BY Types DEF EngineInv
<1>2. /\ pc'[w] = p /\ on'[w] = o /\ doc'[w] = d /\ call'[w] = c /\ victims'[w] = V
      /\ \A v \in Workers : v # w =>
            /\ pc'[v] = pc[v] /\ on'[v] = on[v] /\ doc'[v] = doc[v]
            /\ call'[v] = call[v] /\ victims'[v] = victims[v]
  BY <1>1, Moved
<1>3. \A v \in Workers : v # w /\ pc[v] # "idle" => on[v] # g /\ on[v] \in Goals
  <2>1. \A v \in Workers : pc[v] # "idle" => on[v] \in Goals
    BY DEF EngineInv, TaskInv
  <2> QED
    BY <2>1 DEF CalmInv, OneEach
<1>4. p # "idle" => o = g
  OBVIOUS
<1>5. OneEach'
  BY <1>2, <1>3, <1>4 DEF CalmInv, OneEach
<1>6. ASSUME NEW v \in Workers, pc'[v] # "idle"
      PROVE  Going(pc'[v], doc'[v], call'[v], db'[on'[v]], ncalls'[on'[v]], turns'[on'[v]], executed', inst)
  <2>1. CASE v = w
    BY <1>2, <1>6, <2>1
  <2>2. CASE v # w
    <3>1. PICK h \in Goals : h = on[v] /\ h # g
      BY <1>2, <1>3, <1>6, <2>2
    <3>2. Going(pc[v], doc[v], call[v], db[h], ncalls[h], turns[h], executed, inst)
      BY <1>2, <1>6, <2>2, <3>1 DEF CalmInv, TasksCalm
    <3>3. db'[h] = db[h] \/ (db'[h].status = "missing" /\ pc[v] \notin Working)
      BY <3>1, StatusNames DEF Spared
    <3>4. TaskInv(v)
      BY DEF EngineInv
    <3>5. pc[v] = "dispatch" /\ call[v].n > 0 => (call[v] \in executed' => call[v] \in executed)
      <4>1. pc[v] = "dispatch" /\ call[v].n > 0 => call[v].goal = h
        BY <3>1, <3>4, CallKinds DEF TaskInv, GrantedCall
      <4> QED
        BY <3>1, <4>1
    <3>6. pc[v] = "save" /\ doc[v].status = "needs_confirmation"
             => (doc[v].pending \in executed' => doc[v].pending \in executed)
      <4>1. pc[v] = "save" /\ doc[v].status = "needs_confirmation" => doc[v].pending.goal = h
        BY <3>1, <3>4 DEF TaskInv, NamedDoc, Working, Live
      <4> QED
        BY <3>1, <4>1
    <3>7. Going(pc[v], doc[v], call[v], db'[h], ncalls[h], turns[h], executed', inst)
      BY <3>2, <3>3, <3>5, <3>6, GoingStays
    <3> QED
      BY <1>2, <2>2, <3>1, <3>7
  <2> QED
    BY <2>1, <2>2
<1>7. TasksCalm'
  BY <1>6 DEF TasksCalm
<1>8. ASSUME NEW h \in Goals
      PROVE  /\ Kept(ncalls'[h], turns'[h], inst)
             /\ db'[h].status = "needs_confirmation" =>
                   \/ Waiting(db'[h], ncalls'[h], turns'[h], executed', inst)
                   \/ \E v \in Workers : pc'[v] \in Live /\ on'[v] = h
  <2>1. CASE h = g
    <3>1. p \in Live => pc'[w] \in Live /\ on'[w] = g
      BY <1>2, <1>4 DEF Live
    <3>2. \A v \in Workers \ {w} : pc[v] \in Live /\ on[v] = g => pc'[v] \in Live /\ on'[v] = g
      BY <1>2
    <3> QED
      BY <2>1, <3>1, <3>2
  <2>2. CASE h # g
    <3>1. /\ Kept(ncalls[h], turns[h], inst)
          /\ db[h].status = "needs_confirmation" =>
                \/ Waiting(db[h], ncalls[h], turns[h], executed, inst)
                \/ \E v \in Workers : pc[v] \in Live /\ on[v] = h
      BY DEF CalmInv, GoalsCalm
    <3>2. CASE db'[h].status = "needs_confirmation"
      <4>1. db'[h] = db[h]
        BY <2>2, <3>2, StatusNames
      <4>2. db[h].pending.goal = h
        BY <3>2, <4>1 DEF EngineInv, NamedDoc
      <4>3. CASE Waiting(db[h], ncalls[h], turns[h], executed, inst)
        <5>1. db[h].pending \notin executed'
          BY <2>2, <4>2, <4>3 DEF Waiting
        <5> QED
          BY <2>2, <3>1, <4>1, <4>3, <5>1 DEF Waiting
      <4>4. CASE \E v \in Workers : pc[v] \in Live /\ on[v] = h
        <5>1. PICK v \in Workers : pc[v] \in Live /\ on[v] = h
          BY <4>4
        <5>2. v # w
          BY <2>2, <5>1 DEF Live
        <5> QED
          BY <1>2, <2>2, <3>1, <5>1, <5>2
      <4> QED
        BY <3>1, <3>2, <4>1, <4>3, <4>4
    <3> QED
      BY <2>2, <3>1, <3>2
  <2> QED
    BY <2>1, <2>2
<1>9. GoalsCalm'
  BY <1>8 DEF GoalsCalm
<1>10. ASSUME NEW h \in Goals, Spared(h), h # g \/ (p \notin Working /\ db'[g] \in {db[g], Missing})
       PROVE  Spared(h)'
  <2>1. db'[h].status \in Terminal \cup {"missing"}
    BY <1>10, StatusNames DEF Spared
  <2>2. ASSUME NEW v \in Workers, pc'[v] \in Working PROVE on'[v] # h
    <3>1. CASE v = w
      <4>1. "idle" \notin Working
        BY DEF Working, Live
      <4> QED
        BY <1>2, <1>4, <1>10, <2>2, <3>1, <4>1
    <3>2. CASE v # w
      BY <1>2, <1>10, <2>2, <3>2 DEF Spared
    <3> QED
      BY <3>1, <3>2
  <2> QED
    BY <2>1, <2>2 DEF Spared
<1>11. ASSUME NEW v \in Workers, NEW h \in victims'[v] PROVE Spared(h)'
  <2>1. Spared(h) /\ (h \in victims[v] \/ h \in V)
    BY <1>2, <1>11 DEF CalmInv
  <2>2. h \in Goals
    BY <1>11, Types DEF EngineInv, TypeOK
  <2> QED
    BY <1>10, <2>1, <2>2
<1> QED
  BY <1>5, <1>7, <1>9, <1>11 DEF CalmInv

LEMMA Own ==
    ASSUME EngineInv, CalmInv, NEW w \in Workers, pc[w] # "idle", NEW g, g = on[w]
    PROVE  /\ g \in Goals
           /\ Going(pc[w], doc[w], call[w], db[g], ncalls[g], turns[g], executed, inst)
           /\ Kept(ncalls[g], turns[g], inst)
           /\ pc[w] \in Working => \A v \in Workers : g \notin victims[v]
           /\ db[g].status = "needs_confirmation" =>
                 Waiting(db[g], ncalls[g], turns[g], executed, inst) \/ pc[w] \in Live
           /\ \A h \in Goals : ncalls[h].all \in Nat /\ ncalls[h].of \in [Tools -> Nat] /\ turns[h] \in Nat
           /\ inst \in Instances /\ inst.maxSteps \in Nat /\ inst.quota \in Nat
<1>1. TypeOK /\ HistoryType /\ g \in Goals
  BY Asked
<1>2. Going(pc[w], doc[w], call[w], db[g], ncalls[g], turns[g], executed, inst)
  BY DEF CalmInv, TasksCalm
<1>3. /\ Kept(ncalls[g], turns[g], inst)
      /\ db[g].status = "needs_confirmation" =>
            \/ Waiting(db[g], ncalls[g], turns[g], executed, inst)
            \/ \E v \in Workers : pc[v] \in Live /\ on[v] = g
  BY <1>1 DEF CalmInv, GoalsCalm
<1>4. \A v \in Workers : pc[v] \in Live /\ on[v] = g => v = w
  BY DEF CalmInv, OneEach, Live
<1>5. pc[w] \in Working => \A v \in Workers : g \notin victims[v]
  BY DEF CalmInv, Spared
<1>6. \A h \in Goals : ncalls[h].all \in Nat /\ ncalls[h].of \in [Tools -> Nat] /\ turns[h] \in Nat
  BY <1>1 DEF HistoryType
<1>7. inst \in Instances /\ inst.maxSteps \in Nat /\ inst.quota \in Nat
  BY <1>1, Bounds DEF HistoryType
<1> QED
  BY <1>1, <1>2, <1>3, <1>4, <1>5, <1>6, <1>7

(* A turn of the loop: nothing but the task's copy and call changes.         *)
LEMMA CalmTurn ==
    ASSUME EngineInv, CalmInv, EngineInv', NEW w \in Workers, pc[w] \in Live, NEW p \in Live,
           NEW d, NEW c, Moves(w, p, kind[w], on[w], d, c, victims[w]), UNCHANGED store,
           UNCHANGED <<inst, executed, twice, ncalls, turns>>, NEW g, g = on[w],
           Going(p, d, c, db[g], ncalls[g], turns[g], executed, inst)
    PROVE  CalmInv'
<1>1. pc[w] # "idle" /\ pc[w] \in Working
  BY DEF Live, Working
<1>2. /\ g \in Goals /\ Kept(ncalls[g], turns[g], inst)
      /\ \A v \in Workers : g \notin victims[v]
  BY <1>1, Own
<1>3. twice' = {} /\ db' = db
  BY DEF CalmInv, store
<1> QED
  BY <1>1, <1>2, <1>3, CalmFrame

LEMMA Thinks ==
    ASSUME EngineInv, CalmInv, NEW w \in Workers, pc[w] = "think", NEW g, g = on[w]
    PROVE  /\ g \in Goals /\ turns[g] = 0 /\ WithinQuota(doc[w], inst) /\ doc[w].status = "running"
           /\ db[g].status \in {"running", "needs_confirmation"} /\ Booked(doc[w], ncalls[g])
           /\ doc[w] \in Docs /\ inst.maxSteps \in Nat /\ inst.quota \in Nat
           /\ ncalls[g].all \in Nat /\ ncalls[g].of \in [Tools -> Nat]
  BY Own, Asked DEF Going, Working, Live

LEMMA TurnCalm ==
    ASSUME EngineInv, CalmInv, EngineInv', NEW w \in Workers, Turn(w)
    PROVE  CalmInv'
<1>1. TypeOK /\ TaskType
  BY Types DEF EngineInv
<1>2. pc[w] = "think" /\ UNCHANGED <<call, history>>
  BY <1>1, TurnBecomes
<1>3. PICK g : g = on[w]
  OBVIOUS
<1>4. /\ g \in Goals /\ turns[g] = 0 /\ WithinQuota(doc[w], inst) /\ doc[w].status = "running"
      /\ db[g].status \in {"running", "needs_confirmation"} /\ Booked(doc[w], ncalls[g])
      /\ doc[w] \in Docs /\ ncalls[g].all \in Nat
  BY <1>2, <1>3, Thinks
<1>5. PICK p, d : /\ Become(w, d, p) /\ p \in {"save", "fail", "persist"}
                  /\ d.steps >= doc[w].steps /\ d.counts = doc[w].counts
                  /\ p = "persist" => d.status = "running"
                  /\ p = "save" => d.status # "needs_confirmation"
  <2>1. "max_steps_reached" \in Statuses /\ "error" \in Statuses
    BY DEF Statuses, Terminal
  <2>2. \A s \in Statuses : /\ EndWith(doc[w], s).status = s /\ EndWith(doc[w], s).steps = doc[w].steps + 1
                            /\ EndWith(doc[w], s).counts = doc[w].counts
    BY <1>4, Edits
  <2>3. /\ Step(doc[w]).status = "running" /\ Step(doc[w]).steps = doc[w].steps + 1
        /\ Step(doc[w]).counts = doc[w].counts
    BY <1>4, Edits
  <2>4. /\ Completed(doc[w]).status = "completed" /\ Completed(doc[w]).steps = doc[w].steps
        /\ Completed(doc[w]).counts = doc[w].counts
    BY <1>4 DEF Completed, Docs
  <2>5. doc[w].steps \in Nat
    BY <1>4, StatusNames
  <2>6. CASE Become(w, EndWith(doc[w], "max_steps_reached"), "save")
    BY <2>1, <2>2, <2>5, <2>6
  <2>7. CASE Become(w, EndWith(doc[w], "error"), "save")
    BY <2>1, <2>2, <2>5, <2>7
  <2>8. CASE Become(w, doc[w], "fail")
    BY <2>5, <2>8
  <2>9. CASE Become(w, Completed(doc[w]), "save")
    BY <2>4, <2>5, <2>9
  <2>10. CASE Become(w, Step(doc[w]), "persist")
    BY <2>3, <2>5, <2>10
  <2> QED
    BY <1>1, <2>6, <2>7, <2>8, <2>9, <2>10, TurnBecomes
<1>6. call' = [call EXCEPT ![w] = call[w]]
  BY <1>1, <1>2, StaysPut
<1>7. Moves(w, p, kind[w], on[w], d, call[w], victims[w]) /\ UNCHANGED store
  BY <1>1, <1>5, <1>6, Becoming
<1>8. d.steps \in Nat /\ WithinQuota(d, inst) /\ Booked(d, ncalls[g])
  <2>1. PICK d1 \in Docs : d1 = doc[w]
    BY <1>4
  <2>2. d1.steps \in Nat
    BY StatusNames
  <2>3. d \in Docs
    BY <1>1, <1>5, <1>7, Moved DEF TaskType, EngineInv, TypeOK
  <2>4. d.steps \in Nat
    BY <2>3, StatusNames
  <2>5. WithinQuota(d, inst)
    BY <1>4, <1>5 DEF WithinQuota
  <2>6. Booked(d, ncalls[g])
    BY <1>4, <1>5, <2>1, <2>2, <2>4 DEF Booked
  <2> QED
    BY <2>4, <2>5, <2>6
<1>9. Going(p, d, call[w], db[g], ncalls[g], turns[g], executed, inst)
  BY <1>4, <1>5, <1>8 DEF Going, Working, Live, Terminal
<1>10. p \in Live /\ pc[w] \in Live /\ UNCHANGED <<inst, executed, twice, ncalls, turns>>
  BY <1>2, <1>5 DEF Live, history
<1> QED
  BY <1>3, <1>7, <1>9, <1>10, CalmTurn

LEMMA HaltCalm ==
    ASSUME EngineInv, CalmInv, EngineInv', NEW w \in Workers, NEW t \in Tools, Halt(w, t)
    PROVE  CalmInv'
<1>1. TypeOK /\ TaskType /\ HistoryType
  BY Types DEF EngineInv
<1>2. pc[w] = "think" /\ doc[w].steps < inst.maxSteps
  BY DEF Halt, Thinking
<1>3. PICK g : g = on[w]
  OBVIOUS
<1>4. /\ g \in Goals /\ turns[g] = 0 /\ WithinQuota(doc[w], inst) /\ doc[w].status = "running"
      /\ db[g].status \in {"running", "needs_confirmation"} /\ Booked(doc[w], ncalls[g])
      /\ doc[w] \in Docs /\ ncalls[g].all \in Nat /\ inst.maxSteps \in Nat
  BY <1>2, <1>3, Thinks
<1>5. PICK x : x = [goal |-> on[w], tool |-> t, n |-> halts + 1]
  OBVIOUS
<1>6. x \in Tokens /\ x.n = halts + 1 /\ halts \in Nat
  BY <1>1, <1>3, <1>4, <1>5 DEF Tokens, HistoryType
<1>7. PICK d : d = Asking(doc[w], x)
  OBVIOUS
<1>8. d \in Docs /\ d.pending = x /\ d.steps = doc[w].steps + 1 /\ d.counts = doc[w].counts
  BY <1>4, <1>6, <1>7, MoreEdits
<1>9. Become(w, d, "save") /\ UNCHANGED <<inst, call, session, approved, executed, twice, ncalls, turns>>
  BY <1>5, <1>7 DEF Halt, Asking
<1>10. call' = [call EXCEPT ![w] = call[w]]
  BY <1>1, <1>9, StaysPut
<1>11. Moves(w, "save", kind[w], on[w], d, call[w], victims[w]) /\ UNCHANGED store
  BY <1>1, <1>9, <1>10, Becoming
<1>12. doc[w].steps \in Nat
  BY <1>4, StatusNames
<1>13. x \notin executed
  BY <1>6 DEF EngineInv
<1>14. Waiting(d, ncalls[g], turns[g], executed, inst)
  BY <1>2, <1>4, <1>8, <1>12, <1>13 DEF Waiting, Booked, WithinQuota
<1>15. WithinQuota(d, inst)
  BY <1>14 DEF Waiting
<1>16. Going("save", d, call[w], db[g], ncalls[g], turns[g], executed, inst)
  BY <1>4, <1>14, <1>15 DEF Going, Working, Live
<1>17. "save" \in Live /\ pc[w] \in Live
  BY <1>2 DEF Live
<1> QED
  BY <1>3, <1>9, <1>11, <1>16, <1>17, CalmTurn

LEMMA CallToolCalm ==
    ASSUME EngineInv, CalmInv, EngineInv', NEW w \in Workers, NEW t \in Tools, CallTool(w, t)
    PROVE  CalmInv'
<1>1. TypeOK /\ TaskType /\ HistoryType
  BY Types DEF EngineInv
<1>2. pc[w] = "think" /\ doc[w].steps < inst.maxSteps /\ ~QuotaSpent(doc[w], t)
  BY DEF CallTool, Thinking
<1>3. PICK g : g = on[w]
  OBVIOUS
<1>4. /\ g \in Goals /\ turns[g] = 0 /\ WithinQuota(doc[w], inst) /\ doc[w].status = "running"
      /\ db[g].status \in {"running", "needs_confirmation"} /\ Booked(doc[w], ncalls[g])
      /\ doc[w] \in Docs /\ ncalls[g].all \in Nat /\ inst.maxSteps \in Nat /\ inst.quota \in Nat
      /\ ncalls[g].of \in [Tools -> Nat]
  BY <1>2, <1>3, Thinks
<1>5. PICK d : d = Counted(doc[w], t)
  OBVIOUS
<1>6. /\ d.status = doc[w].status /\ d.steps = doc[w].steps /\ d.counts[t] = doc[w].counts[t] + 1
      /\ \A u \in Tools : u # t => d.counts[u] = doc[w].counts[u]
  BY <1>4, <1>5, Edits
<1>7. doc[w].steps \in Nat /\ doc[w].counts \in [Tools -> Nat]
  BY <1>4, StatusNames
<1>8. Become(w, d, "dispatch") /\ call' = [call EXCEPT ![w] = Plain(t)] /\ UNCHANGED history
  BY <1>5 DEF CallTool
<1>9. Moves(w, "dispatch", kind[w], on[w], d, Plain(t), victims[w]) /\ UNCHANGED store
  BY <1>1, <1>8, Becoming
<1>10. WithinQuota(d, inst)
  BY <1>2, <1>4, <1>6, <1>7 DEF WithinQuota, QuotaSpent
<1>11. Affordable(d, Plain(t), ncalls[g], executed, inst)
  BY <1>2, <1>4, <1>6, <1>7, CallKinds DEF Affordable, Booked
<1>12. Going("dispatch", d, Plain(t), db[g], ncalls[g], turns[g], executed, inst)
  BY <1>4, <1>6, <1>10, <1>11 DEF Going, Working, Live
<1>13. "dispatch" \in Live /\ pc[w] \in Live /\ UNCHANGED <<inst, executed, twice, ncalls, turns>>
  BY <1>2, <1>8 DEF Live, history
<1> QED
  BY <1>3, <1>9, <1>12, <1>13, CalmTurn

LEMMA DispatchCalm ==
    ASSUME EngineInv, CalmInv, EngineInv', NEW w \in Workers, Dispatch(w)
    PROVE  CalmInv'
<1>0. pc[w] \in {"dispatch", "again"} /\ pc[w] # "idle"
  BY DEF Dispatch
<1>1. TypeOK /\ TaskType /\ HistoryType /\ on[w] \in Goals /\ doc[w] \in Docs /\ call[w] \in Calls
  BY <1>0, Asked, Types
<1>2. PICK g : g = on[w]
  OBVIOUS
<1>3. /\ g \in Goals /\ Kept(ncalls[g], turns[g], inst)
      /\ Going(pc[w], doc[w], call[w], db[g], ncalls[g], turns[g], executed, inst)
      /\ \A v \in Workers : g \notin victims[v]
      /\ \A h \in Goals : ncalls[h].all \in Nat /\ ncalls[h].of \in [Tools -> Nat]
      /\ inst.maxSteps \in Nat /\ inst.quota \in Nat
  BY <1>0, <1>2, Own DEF Working, Live
<1>4. pc[w] = "dispatch"
  BY <1>0, <1>3 DEF Going
<1>5. /\ turns[g] = 0 /\ WithinQuota(doc[w], inst) /\ doc[w].status = "running"
      /\ db[g].status \in {"running", "needs_confirmation"}
      /\ Affordable(doc[w], call[w], ncalls[g], executed, inst)
  BY <1>3, <1>4 DEF Going, Working, Live
<1>6. /\ call[w].tool \in Tools /\ call[w].n \in Nat
      /\ call[w].n # 0 => call[w].goal = g
      /\ call[w].n = 0 => call[w] \notin executed
  BY <1>0, <1>2, Granted
<1>7. PICK t \in Tools : t = call[w].tool
  BY <1>6
<1>8. Execute(w)
  BY DEF Dispatch
<1>9. /\ ncalls' \in [Goals -> [all : Nat, of : [Tools -> Nat]]]
      /\ \A h \in Goals : h # g => ncalls'[h] = ncalls[h]
      /\ ncalls'[g].all <= ncalls[g].all + 1 /\ ncalls'[g].of[t] <= ncalls[g].of[t] + 1
      /\ \A u \in Tools : u # t => ncalls'[g].of[u] = ncalls[g].of[u]
      /\ executed' \in {executed, executed \cup {call[w]}} /\ (call[w].n = 0 => executed' = executed)
      /\ twice' = twice \cup (executed \cap {call[w]})
  BY <1>1, <1>2, <1>6, <1>7, <1>8, Executes
<1>10. call[w] \notin executed
  BY <1>5, <1>6 DEF Affordable
<1>11. twice' = {}
  BY <1>9, <1>10 DEF CalmInv
<1>12. \A x \in executed' : x \in executed \/ x.goal = g
  BY <1>6, <1>9
<1>13. PICK m : m = ncalls'[g]
  OBVIOUS
<1>14. PICK n : n = ncalls[g]
  OBVIOUS
<1>15. /\ m.all \in Nat /\ m.of \in [Tools -> Nat] /\ n.all \in Nat /\ n.of \in [Tools -> Nat]
       /\ m.all <= n.all + 1 /\ m.of[t] <= n.of[t] + 1 /\ \A u \in Tools : u # t => m.of[u] = n.of[u]
  BY <1>3, <1>9, <1>13, <1>14
<1>16. doc[w].counts \in [Tools -> Nat] /\ doc[w].steps \in Nat
  BY <1>1, StatusNames
<1>17. /\ n.all <= doc[w].steps /\ n.all < inst.maxSteps /\ n.of[t] < doc[w].counts[t]
       /\ \A u \in Tools : n.of[u] <= doc[w].counts[u]
  BY <1>5, <1>7, <1>14 DEF Affordable, Booked
<1>18. \A u \in Tools : m.of[u] <= doc[w].counts[u]
  <2> SUFFICES ASSUME NEW u \in Tools PROVE m.of[u] <= doc[w].counts[u]
    OBVIOUS
  <2>1. CASE u = t
    BY <1>15, <1>16, <1>17, <2>1
  <2>2. CASE u # t
    BY <1>15, <1>17, <2>2
  <2> QED
    BY <2>1, <2>2
<1>19. Kept(m, turns[g], inst)
  <2>1. m.all <= inst.maxSteps
    BY <1>3, <1>15, <1>17
  <2>2. inst.quota > 0 => \A u \in Tools : m.of[u] <= inst.quota
    BY <1>3, <1>5, <1>15, <1>16, <1>18 DEF WithinQuota
  <2> QED
    BY <1>5, <2>1, <2>2 DEF Kept
<1>20. UNCHANGED <<inst, turns>> /\ call' = [call EXCEPT ![w] = NoCall]
  BY DEF Dispatch
<1>21. CASE Become(w, Step(doc[w]), "persist")
  <2>1. PICK d : d = Step(doc[w])
    OBVIOUS
  <2>2. d.status = "running" /\ d.steps = doc[w].steps + 1 /\ d.counts = doc[w].counts
    BY <1>1, <1>5, <2>1, Edits
  <2>3. Moves(w, "persist", kind[w], on[w], d, NoCall, victims[w]) /\ UNCHANGED store
    BY <1>1, <1>20, <1>21, <2>1, Becoming
  <2>4. Booked(d, m)
    BY <1>15, <1>16, <1>17, <1>18, <2>2 DEF Booked
  <2>5. WithinQuota(d, inst)
    BY <1>5, <2>2 DEF WithinQuota
  <2>6. Going("persist", d, NoCall, db'[g], ncalls'[g], turns'[g], executed', inst)
    BY <1>5, <1>13, <1>20, <2>2, <2>3, <2>4, <2>5 DEF Going, Working, Live, store
  <2>7. db' = db /\ "persist" \in Live
    BY <2>3 DEF store, Live
  <2> QED
    BY <1>0, <1>2, <1>3, <1>9, <1>11, <1>12, <1>13, <1>19, <1>20, <2>3, <2>6, <2>7, CalmFrame
<1>22. CASE Become(w, doc[w], "fail")
  <2>1. PICK d : d = doc[w]
    OBVIOUS
  <2>2. Moves(w, "fail", kind[w], on[w], d, NoCall, victims[w]) /\ UNCHANGED store
    BY <1>1, <1>20, <1>22, <2>1, Becoming
  <2>3. db[g].status \notin Terminal
    BY <1>5 DEF Terminal
  <2>4. Going("fail", d, NoCall, db'[g], ncalls'[g], turns'[g], executed', inst)
    BY <1>5, <1>13, <1>20, <2>1, <2>2, <2>3 DEF Going, Working, Live, store
  <2>5. db' = db /\ "fail" \in Live
    BY <2>2 DEF store, Live
  <2> QED
    BY <1>0, <1>2, <1>3, <1>9, <1>11, <1>12, <1>13, <1>19, <1>20, <2>2, <2>4, <2>5, CalmFrame
<1> QED
  BY <1>21, <1>22 DEF Dispatch

(* A task writes its copy, or fails to seed it, and goes on.                 *)
LEMMA WriteCalm ==
    ASSUME EngineInv, CalmInv, EngineInv', NEW w \in Workers,
           pc[w] \in {"seed", "persist", "save", "declining", "fail"}, NEW d \in Docs,
           \/ PutOk(on[w], d)
           \/ UNCHANGED store,
           NEW p, NEW g, g = on[w], UNCHANGED history,
           Moves(w, p, kind[w], on[w], d, call[w], victims[w]),
           Going(p, d, call[w], db'[g], ncalls[g], turns[g], executed, inst),
           db'[g].status = "needs_confirmation" =>
              Waiting(db'[g], ncalls[g], turns[g], executed, inst) \/ p \in Live
    PROVE  CalmInv'
<1>1. pc[w] # "idle" /\ pc[w] \in Working
  BY DEF Working, Live
<1>2. /\ g \in Goals /\ Kept(ncalls[g], turns[g], inst) /\ \A v \in Workers : g \notin victims[v]
  BY <1>1, Own
<1>3. \A h \in Goals : h # g => db'[h] = db[h]
  <2>1. StoreType
    BY <1>1, Asked
  <2>2. CASE PutOk(on[w], d)
    BY <1>2, <2>1, <2>2, PutType DEF PutOk
  <2>3. CASE UNCHANGED store
    BY <2>3 DEF store
  <2> QED
    BY <2>2, <2>3
<1>4. inst' = inst /\ executed' = executed /\ ncalls' = ncalls /\ turns' = turns /\ twice' = {}
  BY DEF history, CalmInv
<1> QED
  BY <1>1, <1>2, <1>3, <1>4, CalmFrame

LEMMA WritersCalm ==
    ASSUME EngineInv, CalmInv, EngineInv', Orderly, NEW w \in Workers,
           Seed(w) \/ Persist(w) \/ Save(w) \/ SaveDecline(w)
    PROVE  CalmInv'
<1>0. pc[w] \in {"seed", "persist", "save", "declining"} /\ pc[w] # "idle" /\ UNCHANGED <<call, history>>
  BY DEF Seed, Persist, Save, SaveDecline
<1>1. TypeOK /\ StoreType /\ doc[w] \in Docs /\ on[w] \in Goals
  BY <1>0, Asked
<1>2. PICK g : g = on[w]
  OBVIOUS
<1>3. PICK d : d = doc[w]
  OBVIOUS
<1>4. Going(pc[w], d, call[w], db[g], ncalls[g], turns[g], executed, inst)
  BY <1>0, <1>2, <1>3, Own
<1>5. turns[g] = 0 /\ (pc[w] # "declining" => WithinQuota(d, inst))
  BY <1>0, <1>4 DEF Going, Working, Live
<1>6. \/ /\ PutOk(on[w], doc[w]) /\ UNCHANGED <<doc, victims>>
         /\ \/ pc[w] \in {"seed", "persist"} /\ Goto(w, "think")
            \/ pc[w] \in {"save", "declining"} /\ Goto(w, "record")
      \/ UNCHANGED store /\ pc[w] = "seed" /\ Goto(w, "fail") /\ UNCHANGED <<doc, victims>>
  BY DEF Orderly, Seed, Persist, Save, SaveDecline, PutFails
<1>7. CASE /\ PutOk(on[w], doc[w]) /\ UNCHANGED <<doc, victims>>
           /\ pc[w] \in {"seed", "persist"} /\ Goto(w, "think")
  <2>1. Moves(w, "think", kind[w], on[w], d, call[w], victims[w])
    BY <1>0, <1>1, <1>3, <1>7, GoingOn
  <2>2. db'[g] = d
    BY <1>1, <1>2, <1>3, <1>7, PutType DEF PutOk
  <2>3. d.status = "running" /\ Booked(d, ncalls[g])
    BY <1>4, <1>7 DEF Going
  <2>4. Going("think", d, call[w], db'[g], ncalls[g], turns[g], executed, inst)
    BY <1>5, <1>7, <2>2, <2>3 DEF Going, Working, Live
  <2>5. "think" \in Live
    BY DEF Live
  <2> QED
    BY <1>0, <1>1, <1>2, <1>3, <1>7, <2>1, <2>4, <2>5, WriteCalm
<1>8. CASE /\ PutOk(on[w], doc[w]) /\ UNCHANGED <<doc, victims>>
           /\ pc[w] \in {"save", "declining"} /\ Goto(w, "record")
  <2>1. Moves(w, "record", kind[w], on[w], d, call[w], victims[w])
    BY <1>0, <1>1, <1>3, <1>8, GoingOn
  <2>2. db'[g] = d
    BY <1>1, <1>2, <1>3, <1>8, PutType DEF PutOk
  <2>3. d.status = "needs_confirmation" => Waiting(d, ncalls[g], turns[g], executed, inst)
    BY <1>4, <1>8 DEF Going
  <2>4. Going("record", d, call[w], db'[g], ncalls[g], turns[g], executed, inst)
    BY <1>5, <2>2 DEF Going, Working, Live
  <2> QED
    BY <1>0, <1>1, <1>2, <1>3, <1>8, <2>1, <2>2, <2>3, <2>4, WriteCalm
<1>9. CASE UNCHANGED store /\ pc[w] = "seed" /\ Goto(w, "fail") /\ UNCHANGED <<doc, victims>>
  <2>1. Moves(w, "fail", kind[w], on[w], d, call[w], victims[w])
    BY <1>0, <1>1, <1>3, <1>9, GoingOn
  <2>2. db'[g] = Missing
    BY <1>2, <1>9 DEF EngineInv, TaskInv, store
  <2>3. Going("fail", d, call[w], db'[g], ncalls[g], turns[g], executed, inst)
    BY <1>5, <1>9, <2>2, StatusNames DEF Going, Working, Live
  <2>4. "fail" \in Live
    BY DEF Live
  <2> QED
    BY <1>0, <1>1, <1>2, <1>3, <1>9, <2>1, <2>3, <2>4, WriteCalm
<1> QED
  BY <1>6, <1>7, <1>8, <1>9

LEMMA FailCalm ==
    ASSUME EngineInv, CalmInv, EngineInv', Orderly, NEW w \in Workers, Fail(w)
    PROVE  CalmInv'
<1>0. pc[w] = "fail" /\ pc[w] # "idle"
  BY DEF Fail
<1>1. TypeOK /\ StoreType /\ doc[w] \in Docs /\ on[w] \in Goals
  BY <1>0, Asked
<1>2. PICK g : g = on[w]
  OBVIOUS
<1>3. PICK d : d = EndWith(doc[w], "error")
  OBVIOUS
<1>4. d \in Docs /\ d.status = "error"
  <2>1. "error" \in Statuses
    BY DEF Statuses, Terminal
  <2> QED
    BY <1>1, <1>3, <2>1, Edits
<1>5. turns[g] = 0
  BY <1>0, <1>2, Own DEF Going, Working, Live
<1>6. /\ PutOk(on[w], d) /\ doc' = [doc EXCEPT ![w] = d] /\ Goto(w, "recordFailed")
      /\ UNCHANGED <<call, victims, history>>
  BY <1>3 DEF Fail, PutFails, Orderly
<1>7. Moves(w, "recordFailed", kind[w], on[w], d, call[w], victims[w])
  BY <1>1, <1>6, StaysPut DEF Goto, Moves
<1>8. db'[g] = d
  BY <1>1, <1>2, <1>4, <1>6, PutType DEF PutOk
<1>9. Going("recordFailed", d, call[w], db'[g], ncalls[g], turns[g], executed, inst)
  BY <1>5, <1>8 DEF Going, Working, Live
<1> QED
  BY <1>0, <1>2, <1>4, <1>6, <1>7, <1>8, <1>9, WriteCalm

(* A task past its engine goes on or ends; of its own goal only the turns    *)
(* may change, or all of it goes away.                                       *)
LEMMA PastCalm ==
    ASSUME EngineInv, CalmInv, EngineInv', NEW w \in Workers, pc[w] # "idle", pc[w] \notin Working,
           NEW p \in {"idle", "sweep", "pruning"}, NEW k, NEW o, NEW d, NEW c, NEW V, NEW g,
           Moves(w, p, k, o, d, c, V), g = on[w], p # "idle" => o = g,
           UNCHANGED <<inst, executed, twice, ncalls>>,
           \A h \in Goals : db'[h] = db[h] \/ (db'[h] = Missing /\ (h = g \/ Spared(h))),
           \A h \in Goals : h # g => turns'[h] = turns[h],
           turns'[g] = turns[g] \/ (turns'[g] <= 1 /\ db[g].status # "needs_confirmation"),
           \A h \in V : h \in victims[w] \/ Spared(h)
    PROVE  CalmInv'
<1>1. /\ g \in Goals /\ Kept(ncalls[g], turns[g], inst)
      /\ db[g].status = "needs_confirmation" =>
            Waiting(db[g], ncalls[g], turns[g], executed, inst) \/ pc[w] \in Live
  BY Own
<1>2. pc[w] \notin Live /\ p \notin Working
  BY DEF Working, Live
<1>3. Kept(ncalls'[g], turns'[g], inst)
  BY <1>1 DEF Kept
<1>4. Going(p, d, c, db'[g], ncalls'[g], turns'[g], executed', inst)
  BY <1>2 DEF Going, Working, Live
<1>5. db'[g] \in {db[g], Missing}
  BY <1>1
<1>6. db'[g].status = "needs_confirmation" => Waiting(db'[g], ncalls'[g], turns'[g], executed', inst)
  BY <1>1, <1>2, <1>5, StatusNames
<1>7. twice' = {} /\ \A x \in executed' : x \in executed
  BY DEF CalmInv
<1>8. \A h \in Goals : h # g => /\ ncalls'[h] = ncalls[h] /\ turns'[h] = turns[h]
                                /\ db'[h] = db[h] \/ (db'[h] = Missing /\ Spared(h))
  OBVIOUS
<1> QED
  BY <1>1, <1>2, <1>3, <1>4, <1>5, <1>6, <1>7, <1>8, CalmFrame

LEMMA RecordCalm ==
    ASSUME EngineInv, CalmInv, EngineInv', NEW w \in Workers, Record(w)
    PROVE  CalmInv'
<1>0. /\ pc[w] \in {"record", "recordFailed"} /\ pc[w] # "idle" /\ pc[w] \notin Working
      /\ UNCHANGED <<inst, store, call, halts, session, approved, executed, twice, ncalls>>
  BY DEF Record, Working, Live
<1>1. TypeOK /\ HistoryType /\ doc[w] \in Docs /\ on[w] \in Goals
  BY <1>0, Asked
<1>2. PICK g : g = on[w]
  OBVIOUS
<1>3. /\ Going(pc[w], doc[w], call[w], db[g], ncalls[g], turns[g], executed, inst)
      /\ turns[g] \in Nat
  BY <1>0, <1>1, <1>2, Own
<1>4. /\ \A h \in Goals : h # g => turns'[h] = turns[h]
      /\ turns'[g] = turns[g] \/ (turns'[g] <= 1 /\ db[g].status # "needs_confirmation")
  <2>1. CASE doc[w].status \in Terminal /\ turns' = [turns EXCEPT ![g] = Saturate(@, 2)]
    <3>1. db[g].status \in {doc[w].status, "missing"} /\ turns[g] = 0
      BY <1>0, <1>3, <2>1 DEF Going
    <3>2. db[g].status # "needs_confirmation"
      BY <2>1, <3>1 DEF Terminal
    <3>3. Saturate(0, 2) = 1
      BY DEF Saturate
    <3>4. turns'[g] = 1 /\ \A h \in Goals : h # g => turns'[h] = turns[h]
      BY <1>1, <1>2, <2>1, <3>1, <3>3 DEF HistoryType
    <3> QED
      BY <3>2, <3>4
  <2>2. CASE turns' = turns
    BY <2>2
  <2> QED
    BY <1>2, <2>1, <2>2 DEF Record
<1>5. db' = db
  BY <1>0 DEF store
<1>6. CASE Goto(w, "sweep") /\ UNCHANGED <<doc, victims>>
  <2>1. Moves(w, "sweep", kind[w], on[w], doc[w], call[w], victims[w])
    BY <1>0, <1>1, <1>6, GoingOn
  <2> QED
    BY <1>0, <1>2, <1>4, <1>5, <2>1, PastCalm
<1>7. CASE End(w)
  <2>1. Moves(w, "idle", "none", 0, NewDoc, call[w], {})
    BY <1>0, <1>1, <1>7, Ending
  <2> QED
    BY <1>0, <1>2, <1>4, <1>5, <2>1, PastCalm
<1> QED
  BY <1>6, <1>7 DEF Record

(* Nobody works on a finished goal.                                          *)
LEMMA NotFinished ==
    ASSUME EngineInv, CalmInv, NEW w \in Workers, pc[w] \in Working
    PROVE  /\ on[w] \in Goals /\ db[on[w]].status \notin Terminal
           /\ pc[w] \notin {"seed", "fail"} => db[on[w]] # Missing
<1>0. pc[w] # "idle"
  BY DEF Working, Live
<1>1. PICK g : g = on[w]
  OBVIOUS
<1>2. g \in Goals /\ Going(pc[w], doc[w], call[w], db[g], ncalls[g], turns[g], executed, inst)
  BY <1>0, <1>1, Own
<1>3. pc[w] = "seed" => db[g] = Missing
  BY <1>1 DEF EngineInv, TaskInv
<1>4. Missing.status \notin Terminal \cup {"running", "needs_confirmation"}
  BY DEF Missing, Terminal
<1>5. db[g].status \notin Terminal
  BY <1>2, <1>3, <1>4 DEF Going, Working, Live, Terminal
<1>6. pc[w] \notin {"seed", "fail"} => db[g] # Missing
  BY <1>2, <1>4 DEF Going, Working, Live
<1> QED
  BY <1>1, <1>2, <1>5, <1>6

LEMMA SweepCalm ==
    ASSUME EngineInv, CalmInv, EngineInv', NEW w \in Workers, Sweep(w)
    PROVE  CalmInv'
<1>0. /\ pc[w] = "sweep" /\ pc[w] # "idle" /\ pc[w] \notin Working /\ UNCHANGED <<store, call, history>>
  BY DEF Sweep, Working, Live
<1>1. TypeOK /\ HistoryType /\ doc[w] \in Docs /\ on[w] \in Goals
  BY <1>0, Asked
<1>2. PICK g : g = on[w]
  OBVIOUS
<1>3. UNCHANGED <<inst, executed, twice, ncalls>> /\ db' = db /\ turns' = turns
  BY <1>0 DEF store, history
<1>4. CASE victims' = [victims EXCEPT ![w] = PruneIds] /\ Goto(w, "pruning") /\ UNCHANGED doc
  <2>1. PICK V : V = PruneIds
    OBVIOUS
  <2>2. \A h \in V : Spared(h)
    BY <2>1, NotFinished DEF PruneIds, Spared
  <2>3. Moves(w, "pruning", kind[w], on[w], doc[w], call[w], V)
    BY <1>0, <1>1, <1>4, <2>1, StaysPut DEF Goto, Moves
  <2> QED
    BY <1>0, <1>2, <1>3, <2>2, <2>3, PastCalm
<1>5. CASE End(w)
  <2>1. Moves(w, "idle", "none", 0, NewDoc, call[w], {})
    BY <1>0, <1>1, <1>5, Ending
  <2> QED
    BY <1>0, <1>2, <1>3, <2>1, PastCalm
<1> QED
  BY <1>4, <1>5 DEF Sweep

LEMMA PruneOneCalm ==
    ASSUME EngineInv, CalmInv, EngineInv', NEW w \in Workers, NEW h \in Goals, PruneOne(w, h)
    PROVE  CalmInv'
<1>0. /\ pc[w] = "pruning" /\ pc[w] # "idle" /\ pc[w] \notin Working /\ UNCHANGED <<call, history>>
      /\ h \in victims[w] /\ (Erase(h) \/ UNCHANGED <<db, newer>>)
  BY DEF PruneOne, Working, Live
<1>1. TypeOK /\ StoreType /\ HistoryType /\ doc[w] \in Docs /\ on[w] \in Goals
  BY <1>0, Asked
<1>2. PICK g : g = on[w]
  OBVIOUS
<1>3. UNCHANGED <<inst, executed, twice, ncalls>> /\ turns' = turns
  BY <1>0 DEF history
<1>4. Spared(h)
  BY <1>0 DEF CalmInv, PruneOne
<1>5. \A i \in Goals : db'[i] = db[i] \/ (db'[i] = Missing /\ Spared(i))
  <2>1. CASE Erase(h)
    BY <1>1, <1>4, <2>1 DEF Erase, StoreType
  <2>2. CASE UNCHANGED <<db, newer>>
    BY <2>2
  <2> QED
    BY <2>1, <2>2 DEF PruneOne
<1>6. CASE victims' = [victims EXCEPT ![w] = @ \ {h}] /\ Goto(w, "pruning") /\ UNCHANGED doc
  <2>1. PICK V : V = victims[w] \ {h}
    OBVIOUS
  <2>2. \A i \in V : i \in victims[w]
    BY <2>1
  <2>3. Moves(w, "pruning", kind[w], on[w], doc[w], call[w], V)
    BY <1>0, <1>1, <1>6, <2>1, StaysPut DEF Goto, Moves
  <2> QED
    BY <1>0, <1>2, <1>3, <1>5, <2>2, <2>3, PastCalm
<1>7. CASE End(w)
  <2>1. Moves(w, "idle", "none", 0, NewDoc, call[w], {})
    BY <1>0, <1>1, <1>7, Ending
  <2> QED
    BY <1>0, <1>2, <1>3, <1>5, <2>1, PastCalm
<1> QED
  BY <1>6, <1>7 DEF PruneOne

LEMMA FinishDeleteCalm ==
    ASSUME EngineInv, CalmInv, EngineInv', NEW w \in Workers, FinishDelete(w)
    PROVE  CalmInv'
<1>0. /\ pc[w] = "deleting" /\ pc[w] # "idle" /\ pc[w] \notin Working /\ UNCHANGED <<call, history>> /\ End(w)
  BY DEF FinishDelete, Working, Live
<1>1. TypeOK /\ StoreType /\ on[w] \in Goals
  BY <1>0, Asked
<1>2. PICK g : g = on[w]
  OBVIOUS
<1>3. UNCHANGED <<inst, executed, twice, ncalls>> /\ turns' = turns
  BY <1>0 DEF history
<1>4. \A i \in Goals : db'[i] = db[i] \/ (db'[i] = Missing /\ i = g)
  BY <1>1, <1>2 DEF FinishDelete, Erase, StoreType
<1>5. Moves(w, "idle", "none", 0, NewDoc, call[w], {})
  BY <1>0, <1>1, Ending
<1> QED
  BY <1>0, <1>2, <1>3, <1>4, <1>5, PastCalm

(* A request takes a goal nobody acts on.                                    *)
LEMMA TakeCalm ==
    ASSUME EngineInv, CalmInv, EngineInv', NEW w \in Workers, pc[w] = "idle", NEW k, NEW g \in Goals,
           NEW p, p # "idle", NEW d, NEW c, Take(w, k, g, p), UNCHANGED victims,
           doc' = [doc EXCEPT ![w] = d], call' = [call EXCEPT ![w] = c],
           ~Busy(g), UNCHANGED <<inst, db, executed, twice, ncalls, turns>>,
           Going(p, d, c, db[g], ncalls[g], turns[g], executed, inst),
           p \in Working => \A v \in Workers : g \notin victims[v]
    PROVE  CalmInv'
<1>1. TypeOK /\ HistoryType /\ TaskType
  BY Types DEF EngineInv
<1>2. Moves(w, p, k, g, d, c, victims[w])
  BY <1>1, Taking
<1>3. \A v \in Workers : pc[v] # "idle" => on[v] # g
  BY DEF Busy
<1>4. /\ Kept(ncalls[g], turns[g], inst)
      /\ db[g].status = "needs_confirmation" => Waiting(db[g], ncalls[g], turns[g], executed, inst)
  BY <1>3 DEF CalmInv, GoalsCalm, Live
<1>5. twice' = {}
  BY DEF CalmInv
<1> QED
  BY <1>2, <1>3, <1>4, <1>5, CalmFrame

(* A goal that waits, in orderly use.                                        *)
LEMMA WaitsCalmly ==
    ASSUME EngineInv, CalmInv, Orderly, NEW g \in Goals, MayRequest(g),
           db[g].status = "needs_confirmation"
    PROVE  /\ ~Busy(g) /\ Waiting(db[g], ncalls[g], turns[g], executed, inst)
           /\ \A v \in Workers : g \notin victims[v]
<1>1. ~Busy(g)
  BY DEF MayRequest, Orderly
<1>2. Waiting(db[g], ncalls[g], turns[g], executed, inst)
  BY <1>1 DEF Busy, CalmInv, GoalsCalm, Live
<1>3. \A v \in Workers : g \notin victims[v]
  BY DEF CalmInv, Spared, Terminal
<1> QED
  BY <1>1, <1>2, <1>3

LEMMA StartGoalCalm ==
    ASSUME EngineInv, CalmInv, EngineInv', NEW w \in Workers, StartGoal(w)
    PROVE  CalmInv'
<1>1. TypeOK /\ StoreType /\ HistoryType /\ TaskType
  BY Types DEF EngineInv
<1>2. PICK g : g = nextId
  OBVIOUS
<1>3. g \in Goals /\ inst.quota \in Nat
  BY <1>1, <1>2, Bounds DEF StartGoal, HistoryType, StoreType
<1>4. Unborn(g)
  BY <1>1, <1>2, <1>3 DEF EngineInv, StoreType
<1>5. /\ pc[w] = "idle" /\ Take(w, "start", g, "seed") /\ doc' = [doc EXCEPT ![w] = NewDoc]
      /\ UNCHANGED <<inst, db, newer, call, victims, halts, approved, executed, twice, ncalls, turns>>
  BY <1>2 DEF StartGoal
<1>6. call' = [call EXCEPT ![w] = call[w]]
  BY <1>1, <1>5, StaysPut
<1>7. ~Busy(g) /\ \A v \in Workers : g \notin victims[v]
  BY <1>4 DEF Busy, Unborn
<1>8. Booked(NewDoc, ncalls[g])
  BY <1>4, StatusNames DEF Booked, Unborn
<1>9. WithinQuota(NewDoc, inst)
  BY <1>3, StatusNames DEF WithinQuota
<1>10. Going("seed", NewDoc, call[w], db[g], ncalls[g], turns[g], executed, inst)
  BY <1>4, <1>8, <1>9, StatusNames DEF Going, Unborn, Working, Live
<1> QED
  BY <1>3, <1>5, <1>6, <1>7, <1>10, TakeCalm

LEMMA DeclineCalm ==
    ASSUME EngineInv, CalmInv, EngineInv', Orderly, NEW w \in Workers, NEW g \in Goals, Decline(w, g)
    PROVE  CalmInv'
<1>1. TypeOK
  BY DEF EngineInv
<1>2. db[g].status = "needs_confirmation" /\ MayRequest(g)
  BY DEF Decline
<1>3. /\ ~Busy(g) /\ Waiting(db[g], ncalls[g], turns[g], executed, inst)
      /\ \A v \in Workers : g \notin victims[v]
  BY <1>2, WaitsCalmly
<1>4. PICK d : d = Declined(db[g])
  OBVIOUS
<1>5. d.status = "declined"
  BY <1>2, <1>4, ReadHalted, MoreEdits
<1>6. /\ pc[w] = "idle" /\ Take(w, "resume", g, "declining") /\ doc' = [doc EXCEPT ![w] = d]
      /\ UNCHANGED <<store, call, victims, history>>
  BY <1>4 DEF Decline, Declined
<1>7. call' = [call EXCEPT ![w] = call[w]] /\ UNCHANGED <<inst, db, executed, twice, ncalls, turns>>
  BY <1>1, <1>6, StaysPut DEF store, history
<1>8. Going("declining", d, call[w], db[g], ncalls[g], turns[g], executed, inst)
  BY <1>2, <1>3, <1>5 DEF Going, Waiting, Working, Live
<1> QED
  BY <1>3, <1>6, <1>7, <1>8, TakeCalm

LEMMA DeleteGoalCalm ==
    ASSUME EngineInv, CalmInv, EngineInv', Orderly, NEW w \in Workers, NEW g \in Goals, DeleteGoal(w, g)
    PROVE  CalmInv'
<1>1. TypeOK
  BY DEF EngineInv
<1>2. ~Busy(g)
  BY DEF DeleteGoal, MayRequest, Orderly
<1>3. /\ pc[w] = "idle" /\ Take(w, "delete", g, "deleting")
      /\ UNCHANGED <<store, doc, call, victims, history>>
  BY DEF DeleteGoal
<1>4. /\ call' = [call EXCEPT ![w] = call[w]] /\ doc' = [doc EXCEPT ![w] = doc[w]]
      /\ UNCHANGED <<inst, db, executed, twice, ncalls, turns>>
  BY <1>1, <1>3, StaysPut DEF store, history
<1>5. Going("deleting", doc[w], call[w], db[g], ncalls[g], turns[g], executed, inst)
  BY DEF Going, Working, Live
<1>6. "deleting" \notin Working
  BY DEF Working, Live
<1> QED
  BY <1>2, <1>3, <1>4, <1>5, <1>6, TakeCalm

LEMMA ApproveCalm ==
    ASSUME EngineInv, CalmInv, EngineInv', Orderly, NEW w \in Workers, NEW g \in Goals, Approve(w, g)
    PROVE  CalmInv'
<1>1. TypeOK /\ HistoryType
  BY Types DEF EngineInv
<1>2. db[g].status = "needs_confirmation" /\ MayRequest(g) /\ pc[w] = "idle"
  BY DEF Approve
<1>3. /\ ~Busy(g) /\ Waiting(db[g], ncalls[g], turns[g], executed, inst)
      /\ \A v \in Workers : g \notin victims[v]
  BY <1>2, WaitsCalmly
<1>4. db[g] \in Docs /\ db[g].pending \in Tokens /\ db[g].pending.tool \in Tools
  BY <1>2, ReadHalted
<1>5. PICK token, taken, d, c, p :
         /\ token = db[g].pending /\ taken = Taken(db[g]) /\ taken \in Docs /\ d \in Docs
         /\ \/ /\ p = "dispatch" /\ c = token
               /\ \/ d = Counted(taken, token.tool) /\ ~QuotaSpent(taken, token.tool)
                  \/ d = taken /\ inst.catalogMayShrink
            \/ p = "save" /\ d = Step(taken) /\ c = call[w]
            \/ p = "fail" /\ d = taken /\ c = call[w]
         /\ doc' = [doc EXCEPT ![w] = d] /\ call' = [call EXCEPT ![w] = c]
         /\ Take(w, "resume", g, p)
  BY Approves
<1>6. PICK s \in Docs : s = db[g]
  BY <1>4
<1>7. PICK n : n = ncalls[g]
  OBVIOUS
<1>8. /\ n.all \in Nat /\ n.of \in [Tools -> Nat] /\ s.steps \in Nat /\ s.counts \in [Tools -> Nat]
      /\ inst.maxSteps \in Nat /\ inst.quota \in Nat
  BY <1>1, <1>7, StatusNames, Bounds DEF HistoryType
<1>9. /\ n.all < s.steps /\ s.steps <= inst.maxSteps /\ \A t \in Tools : n.of[t] <= s.counts[t]
      /\ WithinQuota(s, inst) /\ token \notin executed /\ turns[g] = 0
  BY <1>3, <1>5, <1>6, <1>7 DEF Waiting, Booked
<1>10. taken.status = "running" /\ taken.steps = s.steps /\ taken.counts = s.counts
  BY <1>5, <1>6, MoreEdits
<1>11. PICK t \in Tools : t = token.tool
  BY <1>4, <1>5
<1>12. db[g].status \notin Terminal /\ db[g].status \in {"running", "needs_confirmation"}
  BY <1>2 DEF Terminal
<1>13. Going(p, d, c, db[g], ncalls[g], turns[g], executed, inst)
  <2>1. CASE p = "dispatch" /\ c = token /\ d = Counted(taken, t) /\ ~QuotaSpent(taken, t)
    <3>1. /\ d.status = "running" /\ d.steps = s.steps /\ d.counts[t] = s.counts[t] + 1
          /\ \A u \in Tools : u # t => d.counts[u] = s.counts[u]
      BY <1>5, <1>10, <2>1, Edits
    <3>2. WithinQuota(d, inst)
      BY <1>8, <1>9, <1>10, <2>1, <3>1 DEF WithinQuota, QuotaSpent
    <3>3. Affordable(d, c, n, executed, inst)
      BY <1>8, <1>9, <1>11, <2>1, <3>1 DEF Affordable, Booked
    <3> QED
      BY <1>7, <1>9, <1>12, <2>1, <3>1, <3>2, <3>3 DEF Going, Working, Live
  <2>2. CASE p = "save" /\ d = Step(taken)
    <3>1. d.status = "running" /\ d.counts = s.counts
      BY <1>5, <1>10, <2>2, Edits
    <3>2. WithinQuota(d, inst)
      BY <1>9, <3>1 DEF WithinQuota
    <3> QED
      BY <1>9, <1>12, <2>2, <3>1, <3>2 DEF Going, Working, Live
  <2>3. CASE p = "fail" /\ d = taken
    <3>1. WithinQuota(d, inst)
      BY <1>9, <1>10, <2>3 DEF WithinQuota
    <3> QED
      BY <1>9, <1>12, <2>3, <3>1 DEF Going, Working, Live
  <2> QED
    BY <1>5, <1>11, <2>1, <2>2, <2>3 DEF Orderly
<1>14. UNCHANGED <<inst, db, executed, twice, ncalls, turns>> /\ UNCHANGED victims
  BY DEF Approve, store
<1>15. p # "idle"
  BY <1>5
<1>16. doc' = [doc EXCEPT ![w] = d] /\ call' = [call EXCEPT ![w] = c] /\ Take(w, "resume", g, p)
  BY <1>5
<1> QED
  BY <1>2, <1>3, <1>13, <1>14, <1>15, <1>16, TakeCalm

LEMMA StutterCalm ==
    ASSUME CalmInv, UNCHANGED vars
    PROVE  CalmInv'
<1>1. UNCHANGED <<db, newer, nextId, pc, kind, on, doc, call, victims, inst, halts, session, approved,
                  executed, twice, ncalls, turns>>
  BY DEF vars, store, task, history
<1>2. OneEach' /\ TasksCalm' /\ GoalsCalm'
  BY <1>1 DEF CalmInv, OneEach, TasksCalm, GoalsCalm
<1>3. \A w \in Workers : \A g \in victims'[w] : Spared(g)'
  BY <1>1 DEF CalmInv, Spared
<1> QED
  BY <1>1, <1>2, <1>3 DEF CalmInv

LEMMA CalmStep ==
    ASSUME EngineInv, CalmInv, EngineInv', Orderly, [Next]_vars
    PROVE  CalmInv'
<1>1. ASSUME NEW w \in Workers, Request(w) \/ Proceed(w) PROVE CalmInv'
  <2>1. CASE StartGoal(w) \/ \E g \in Goals : Decline(w, g) \/ Approve(w, g) \/ DeleteGoal(w, g)
    BY <2>1, StartGoalCalm, DeclineCalm, ApproveCalm, DeleteGoalCalm
  <2>2. CASE Turn(w) \/ \E t \in Tools : Halt(w, t) \/ CallTool(w, t)
    BY <2>2, TurnCalm, HaltCalm, CallToolCalm
  <2>3. CASE Dispatch(w)
    BY <2>3, DispatchCalm
  <2>4. CASE DeviceTimesOut(w)
    BY <2>4 DEF DeviceTimesOut, Orderly
  <2>5. CASE Seed(w) \/ Persist(w) \/ Save(w) \/ SaveDecline(w) \/ Fail(w)
    BY <2>5, WritersCalm, FailCalm
  <2>6. CASE Record(w) \/ FinishDelete(w) \/ Sweep(w) \/ \E g \in Goals : PruneOne(w, g)
    BY <2>6, RecordCalm, FinishDeleteCalm, SweepCalm, PruneOneCalm
  <2>7. TypeOK
    BY DEF EngineInv
  <2> QED
    BY <1>1, <2>1, <2>2, <2>3, <2>4, <2>5, <2>6, <2>7, StepKinds
<1>2. ~Crash
  BY DEF Crash, Orderly
<1>3. CASE UNCHANGED vars
  BY <1>3, StutterCalm
<1> QED
  BY <1>1, <1>2, <1>3 DEF Next, Quiet

LEMMA CalmStart == ASSUME Init PROVE CalmInv
<1>1. HistoryType
  BY EngineStart, Types DEF EngineInv
<1>2. inst.maxSteps \in Nat /\ inst.quota \in Nat
  BY <1>1, Bounds DEF HistoryType
<1>3. GoalsCalm
  BY <1>2, StatusNames DEF Init, GoalsCalm, Kept
<1>4. OneEach /\ TasksCalm
  BY DEF Init, OneEach, TasksCalm
<1> QED
  BY <1>3, <1>4 DEF Init, CalmInv

LEMMA RequestsRead ==
    ASSUME NEW w \in Workers
    PROVE  /\ StartGoal(w) => inst' = inst /\ db' = db
           /\ \A g \in Goals : Decline(w, g) \/ Approve(w, g) \/ DeleteGoal(w, g) => inst' = inst /\ db' = db
<1>1. StartGoal(w) => inst' = inst /\ db' = db
  BY DEF StartGoal
<1> SUFFICES ASSUME NEW g \in Goals
             PROVE  Decline(w, g) \/ Approve(w, g) \/ DeleteGoal(w, g) => inst' = inst /\ db' = db
  BY <1>1
<1>2. Decline(w, g) => inst' = inst /\ db' = db
  BY DEF Decline, store, history
<1>3. Approve(w, g) => inst' = inst /\ db' = db
  BY DEF Approve, store
<1>4. DeleteGoal(w, g) => inst' = inst /\ db' = db
  BY DEF DeleteGoal, store, history
<1> QED
  BY <1>2, <1>3, <1>4

LEMMA SituationStays == ASSUME TypeOK, [Next]_vars PROVE inst' = inst
<1>1. ASSUME NEW w \in Workers, Request(w) \/ Proceed(w) PROVE inst' = inst
  <2>1. CASE StartGoal(w) \/ \E g \in Goals : Decline(w, g) \/ Approve(w, g) \/ DeleteGoal(w, g)
    BY <2>1, RequestsRead
  <2>2. CASE Turn(w) \/ \E t \in Tools : Halt(w, t) \/ CallTool(w, t)
    BY <2>2, TurnBecomes DEF Halt, CallTool, history
  <2>3. CASE Dispatch(w) \/ DeviceTimesOut(w)
    BY <2>3 DEF Dispatch, DeviceTimesOut
  <2>4. CASE Seed(w) \/ Persist(w) \/ Save(w) \/ SaveDecline(w) \/ Fail(w)
    BY <2>4 DEF Seed, Persist, Save, SaveDecline, Fail, history
  <2>5. CASE Record(w) \/ FinishDelete(w) \/ Sweep(w) \/ \E g \in Goals : PruneOne(w, g)
    BY <2>5 DEF Record, FinishDelete, Sweep, PruneOne, history
  <2> QED
    BY <1>1, <2>1, <2>2, <2>3, <2>4, <2>5, StepKinds
<1>2. CASE Crash
  BY <1>2 DEF Crash, history
<1>3. CASE UNCHANGED vars
  BY <1>3 DEF vars, history
<1> QED
  BY <1>1, <1>2, <1>3 DEF Next, Quiet

LEMMA GoalsStep == GoalsIInv /\ [Next]_vars => GoalsIInv'
<1> SUFFICES ASSUME GoalsIInv, [Next]_vars PROVE GoalsIInv'
  OBVIOUS
<1>1. EngineInv /\ EngineInv'
  BY EngineStep DEF GoalsIInv
<1>2. inst' = inst
  BY <1>1, SituationStays DEF EngineInv
<1>3. Orderly' => CalmInv'
  BY <1>1, <1>2, CalmStep DEF GoalsIInv, Orderly
<1> QED
  BY <1>1, <1>3 DEF GoalsIInv

THEOREM GoalsHold == Spec => []GoalsIInv
<1>1. Init => GoalsIInv
  BY EngineStart, CalmStart DEF GoalsIInv
<1> QED
  BY <1>1, GoalsStep, PTL DEF Spec

-----------------------------------------------------------------------------
(* What follows.                                                            *)

LEMMA ApprovalFollows == ASSUME EngineInv PROVE GatedNeedsApproval
<1>1. ASSUME NEW w \in Workers, pc[w] \in {"dispatch", "again"}, call[w].tool \in Gated
      PROVE  call[w] \in approved
  <2>1. GrantedCall(on[w], call[w], halts, approved)
    BY <1>1, Granted
  <2> QED
    BY <1>1, <2>1, CallKinds DEF GrantedCall
<1> QED
  BY <1>1 DEF GatedNeedsApproval, EngineInv

(* "The engine never self-confirms" (README): whatever crashes, fails or     *)
(* interleaves, a call that was halted for confirmation is dispatched only   *)
(* after an operator's approval read that very call from the store.          *)
THEOREM NothingUnapproved == Spec => []GatedNeedsApproval
  BY GoalsHold, ApprovalFollows, PTL DEF GoalsIInv

LEMMA GoalFollows == ASSUME EngineInv PROVE GoalInv
<1>1. HaltedHasPending
  BY ReadHalted, CallKinds DEF HaltedHasPending
<1>2. FreshIds
  BY DEF EngineInv, TaskInv, FreshIds
<1> QED
  BY <1>1, <1>2 DEF GoalInv, EngineInv

LEMMA CalmFollows ==
    ASSUME CalmInv
    PROVE  twice = {} /\ BoundedDispatches /\ OneTurnPerGoal /\ PruneSparesLiveGoals
<1>1. BoundedDispatches /\ OneTurnPerGoal
  BY DEF CalmInv, GoalsCalm, Kept, BoundedDispatches, OneTurnPerGoal
<1>2. PruneSparesLiveGoals
  BY DEF CalmInv, Spared, PruneSparesLiveGoals, Working, Live
<1> QED
  BY <1>1, <1>2 DEF CalmInv

(* The stored goals are well formed, and in orderly use a halted call is     *)
(* dispatched once, tool calls are bounded across halts and resumes          *)
(* (engine::run, check_quota), a chat hears of a goal once (record_turn),    *)
(* and a sweep never takes a live goal (Db::prune).                          *)
THEOREM OrderlyUse == Spec => []OrderlyInv
<1>1. GoalsIInv => OrderlyInv
  BY GoalFollows, CalmFollows DEF GoalsIInv, OrderlyInv, GatedOnce
<1> QED
  BY <1>1, GoalsHold, PTL

(* Who stores a document, and who removes one.                               *)
LEMMA WhoWrites ==
    ASSUME EngineInv, Orderly, [Next]_vars, NEW g \in Goals
    PROVE  \/ db'[g] \in {db[g], Missing}
           \/ \E w \in Workers : on[w] = g /\ pc[w] \in Working
<1>1. TypeOK /\ StoreType
  BY Types DEF EngineInv
<1>2. ASSUME NEW w \in Workers, Request(w) \/ Proceed(w)
      PROVE  db'[g] \in {db[g], Missing} \/ (on[w] = g /\ pc[w] \in Working)
  <2>1. CASE \/ StartGoal(w) \/ \E h \in Goals : Decline(w, h) \/ Approve(w, h) \/ DeleteGoal(w, h)
             \/ Turn(w) \/ \E t \in Tools : Halt(w, t) \/ CallTool(w, t)
             \/ Dispatch(w) \/ DeviceTimesOut(w) \/ Record(w) \/ Sweep(w)
    <3>1. db' = db
      <4>1. CASE StartGoal(w) \/ \E h \in Goals : Decline(w, h) \/ Approve(w, h) \/ DeleteGoal(w, h)
        BY <4>1, RequestsRead
      <4>2. CASE Turn(w) \/ \E t \in Tools : Halt(w, t) \/ CallTool(w, t)
        BY <1>1, <4>2, TurnBecomes DEF Halt, CallTool, Become, store
      <4>3. CASE Dispatch(w) \/ DeviceTimesOut(w) \/ Record(w) \/ Sweep(w)
        BY <4>3 DEF Dispatch, DeviceTimesOut, Become, Record, Sweep, store
      <4> QED
        BY <2>1, <4>1, <4>2, <4>3
    <3> QED
      BY <3>1
  <2>2. CASE Seed(w) \/ Persist(w) \/ Save(w) \/ SaveDecline(w) \/ Fail(w)
    <3>1. pc[w] \in Working
      BY <2>2 DEF Seed, Persist, Save, SaveDecline, Fail, Working, Live
    <3>2. CASE UNCHANGED db
      BY <3>2
    <3>3. CASE \E d : db' = [db EXCEPT ![on[w]] = d]
      BY <1>1, <3>1, <3>3 DEF StoreType
    <3> QED
      BY <2>2, <3>2, <3>3
         DEF Seed, Persist, Save, SaveDecline, Fail, PutOk, PutFails, Put, store
  <2>3. CASE FinishDelete(w) \/ \E h \in Goals : PruneOne(w, h)
    <3>1. CASE UNCHANGED db
      BY <3>1
    <3>2. CASE \E h \in Goals : Erase(h)
      BY <1>1, <3>2 DEF StoreType, Erase
    <3>3. FinishDelete(w) => on[w] \in Goals
      BY Asked DEF FinishDelete
    <3> QED
      BY <2>3, <3>1, <3>2, <3>3 DEF FinishDelete, PruneOne
  <2> QED
    BY <1>1, <1>2, <2>1, <2>2, <2>3, StepKinds
<1>3. CASE Crash \/ UNCHANGED vars
  BY <1>3 DEF Crash, vars, store
<1> QED
  BY <1>2, <1>3 DEF Next, Quiet

(* In orderly use a finished goal stays as it is until it is deleted, and a  *)
(* deleted one does not come back (resume_goal's status check, Db::delete).  *)
THEOREM FinishedStays == Spec => FinishedIsFinal
<1> DEFINE Final ==
      Orderly =>
        \A g \in Goals :
          /\ db[g].status \in Terminal => db'[g] \in {db[g], Missing}
          /\ g < nextId /\ db[g] = Missing /\ db'[g] # Missing
                => \E w \in Workers : on[w] = g /\ pc[w] \in {"seed", "fail"}
<1>1. ASSUME GoalsIInv, [Next]_vars PROVE Final
  <2> SUFFICES ASSUME Orderly, NEW g \in Goals
               PROVE  /\ db[g].status \in Terminal => db'[g] \in {db[g], Missing}
                      /\ g < nextId /\ db[g] = Missing /\ db'[g] # Missing
                            => \E w \in Workers : on[w] = g /\ pc[w] \in {"seed", "fail"}
    OBVIOUS
  <2>1. EngineInv /\ CalmInv
    BY <1>1 DEF GoalsIInv
  <2>2. CASE db'[g] \in {db[g], Missing}
    BY <2>2
  <2>3. CASE \E w \in Workers : on[w] = g /\ pc[w] \in Working
    BY <2>1, <2>3, NotFinished
  <2> QED
    BY <1>1, <2>1, <2>2, <2>3, WhoWrites
<1>2. GoalsIInv /\ [Next]_vars => [Final]_vars
  BY <1>1
<1> QED
  BY <1>2, GoalsHold, PTL DEF Spec, FinishedIsFinal
=============================================================================
