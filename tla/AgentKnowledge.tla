---------------------------- MODULE AgentKnowledge ----------------------------
(* What the agent knows: the facts it remembers and the tools it has.       *)
(* The parts share no state; each has its own initial states and steps.     *)
EXTENDS Naturals, FiniteSets

-----------------------------------------------------------------------------
(* The agent's long-term memory: facts live in vector-db, their ids in an   *)
(* index document of the database.  remember runs detached, one task per    *)
(* finished goal; forget, clear and forget_session are requests.  A lock    *)
(* serializes the changes of the index; a call may fail with or without its *)
(* effect.  A fact's id is the time taken before the lock, and its number.  *)

CONSTANTS Goals, SessionOf,     \* remember tasks; the session of each
          Sessions, MaxFacts,   \* MAX_FACTS_PER_GOAL
          MaxTime, MaxFaults, MaxOps, None

VARIABLES ms,       \* the clock
          index,    \* entries [id, session] of memory:index
          vectors,  \* vector-db: id -> [session, goal]
          indexLock, mem,    \* holder of INDEX_LOCK; what each task does
          excused,  \* ids whose upsert or index write failed
          left,     \* facts a successful wipe left behind
          faults, ops

memoryVars == <<ms, index, vectors, indexLock, mem, excused, left, faults, ops>>

Requests == {"forget", "clear", "session"}
MemoryAssumption ==
  /\ Goals \cap Requests = {} /\ None \notin Goals \cup Requests
  /\ MaxFacts \in Nat /\ MaxTime \in Nat /\ MaxFaults \in Nat /\ MaxOps \in Nat
Idle == [pc |-> "idle", at |-> 0, n |-> 0, i |-> 0, snap |-> {}, id |-> None,
         todo |-> {}, gone |-> {}, failed |-> FALSE, of |-> None]
FactIds(S) == {e.id : e \in S}
Stamped == {g \in Goals : mem[g].pc # "idle"}
\* two goals that finished in the same millisecond name their facts alike
Collided == {id \in (0..MaxTime) \X (0..MaxFacts) :
               \E g, h \in Stamped : g # h /\ mem[g].at = id[1]
                                          /\ mem[h].at = id[1]}
Put(id, v) == [k \in DOMAIN vectors \cup {id} |-> IF k = id THEN v ELSE vectors[k]]
Drop(id) == [k \in DOMAIN vectors \ {id} |-> vectors[k]]

MemoryInit == /\ ms = 0 /\ index = {} /\ vectors = <<>> /\ indexLock = None
              /\ mem = [p \in Goals \cup Requests |-> Idle]
              /\ excused = {} /\ left = {} /\ faults = 0 /\ ops = 0

Is(p, pc) == mem[p].pc = pc
Set(p, r) == mem' = [mem EXCEPT ![p] = r]
Fault == faults < MaxFaults /\ faults' = faults + 1
NoFault == UNCHANGED faults
Done(p) == IF p \in Goals THEN [mem[p] EXCEPT !.pc = "done"] ELSE Idle

\* extraction: nothing to keep, or facts stamped with the time
Extract(g) ==
  /\ Is(g, "idle")
  /\ \E n \in 0..MaxFacts :
       Set(g, [mem[g] EXCEPT !.pc = IF n = 0 THEN "done" ELSE "stamped",
                             !.at = IF n = 0 THEN MaxTime + 1 ELSE ms, !.n = n])
  /\ UNCHANGED <<ms, index, vectors, indexLock, excused, left, faults, ops>>

\* mistake: no lock
LockNone(p, from, to) ==
  /\ Is(p, from)
  /\ \/ /\ NoFault /\ indexLock' = p
        /\ Set(p, [mem[p] EXCEPT !.pc = to, !.snap = index, !.todo = FactIds(index)])
     \/ Fault /\ Set(p, Done(p)) /\ UNCHANGED indexLock
  /\ UNCHANGED <<ms, index, vectors, excused, left, ops>>
\* take the lock and read the index
Lock(p, from, to) ==
  /\ Is(p, from) /\ indexLock = None
  /\ \/ /\ NoFault /\ indexLock' = p
        /\ Set(p, [mem[p] EXCEPT !.pc = to, !.snap = index,
             !.todo = IF p = "session"
                      THEN FactIds({e \in index : e.session = mem[p].of})
                      ELSE FactIds(index)])
     \/ Fault /\ Set(p, Done(p)) /\ UNCHANGED indexLock
  /\ UNCHANGED <<ms, index, vectors, excused, left, ops>>

\* remember: one vec_upsert; an entry is noted only when the call succeeded
Upsert(g) ==
  /\ Is(g, "store") /\ mem[g].i < mem[g].n
  /\ LET m == mem[g]  id == <<m.at, m.i>>
         v == [session |-> SessionOf[g], goal |-> g] IN
     \/ /\ NoFault /\ vectors' = Put(id, v)
        /\ Set(g, [m EXCEPT !.i = @ + 1,
                            !.snap = @ \cup {[id |-> id, session |-> SessionOf[g]]}])
        /\ UNCHANGED excused
     \/ /\ Fault /\ Set(g, [m EXCEPT !.i = @ + 1])
        /\ \/ vectors' = Put(id, v) /\ excused' = excused \cup {id}
           \/ UNCHANGED <<vectors, excused>>
  /\ UNCHANGED <<ms, index, indexLock, left, ops>>

\* remember's write_index: a failure is only logged
Remembered(g) ==
  /\ Is(g, "store") /\ mem[g].i = mem[g].n
  /\ \/ NoFault /\ index' = mem[g].snap /\ UNCHANGED excused
     \/ /\ Fault
        /\ \/ index' = mem[g].snap /\ UNCHANGED excused
           \/ /\ UNCHANGED index
              /\ excused' = excused \cup (FactIds(mem[g].snap) \ FactIds(index))
  /\ indexLock' = None /\ Set(g, Done(g))
  /\ UNCHANGED <<ms, vectors, left, ops>>

Begin(p, r) == /\ ops < MaxOps /\ ops' = ops + 1 /\ Is(p, "idle") /\ Set(p, r)
               /\ left' = {}
               /\ UNCHANGED <<ms, index, vectors, indexLock, excused, faults>>
\* forget: the best hit of vec_query, if one clears the floor
ForgetQuery == \E id \in DOMAIN vectors :
  Begin("forget", [Idle EXCEPT !.pc = "delete", !.id = id])
ForgetDelete ==
  /\ Is("forget", "delete")
  /\ LET id == mem["forget"].id IN
     \/ /\ NoFault /\ vectors' = Drop(id)
        /\ Set("forget", IF id \in DOMAIN vectors
                         THEN [mem["forget"] EXCEPT !.pc = "lock"] ELSE Idle)
     \/ /\ Fault /\ Set("forget", Idle)
        /\ vectors' = Drop(id) \/ UNCHANGED vectors
  /\ UNCHANGED <<ms, index, indexLock, excused, left, ops>>
ForgetIndex ==
  /\ Is("forget", "write")
  /\ LET kept == {e \in mem["forget"].snap : e.id # mem["forget"].id} IN
     \/ NoFault /\ index' = kept
     \/ Fault /\ (index' = kept \/ UNCHANGED index)
  /\ indexLock' = None /\ Set("forget", Idle)
  /\ UNCHANGED <<ms, vectors, excused, left, ops>>

ClearBegin == Begin("clear", [Idle EXCEPT !.pc = "lock"])
SessionBegin == \E s \in Sessions :
  Begin("session", [Idle EXCEPT !.pc = "lock", !.of = s])

\* one vec_delete of clear or forget_session: clear gives up at a failure,
\* forget_session stops and goes on to write what it removed
WipeOne(p) ==
  /\ Is(p, "wipe") /\ mem[p].todo # {} /\ ~mem[p].failed
  /\ \E id \in mem[p].todo :
     \/ /\ NoFault /\ vectors' = Drop(id) /\ UNCHANGED indexLock
        /\ Set(p, [mem[p] EXCEPT !.todo = @ \ {id}, !.gone = @ \cup {id}])
     \/ /\ Fault /\ (vectors' = Drop(id) \/ UNCHANGED vectors)
        /\ IF p = "clear" THEN Set(p, Idle) /\ indexLock' = None
           ELSE Set(p, [mem[p] EXCEPT !.failed = TRUE]) /\ UNCHANGED indexLock
  /\ UNCHANGED <<ms, index, excused, left, ops>>

Kept(p) == LET m == mem[p] IN
  CASE p = "clear" -> {}
    [] p # "clear" /\ m.failed -> {e \in m.snap : e.id \notin m.gone}
    [] OTHER -> {e \in m.snap : e.session # m.of}
WipeIndex(p) ==
  /\ Is(p, "wipe") /\ (mem[p].todo = {} \/ mem[p].failed)
  /\ \/ /\ NoFault /\ index' = Kept(p)
        /\ left' = IF mem[p].failed THEN {}
                   ELSE {id \in DOMAIN vectors \ (excused \cup Collided) :
                           p = "clear" \/ vectors[id].session = mem[p].of}
     \/ Fault /\ (index' = Kept(p) \/ UNCHANGED index) /\ UNCHANGED left
  /\ indexLock' = None /\ Set(p, Idle)
  /\ UNCHANGED <<ms, vectors, excused, ops>>

Tick == /\ ms < MaxTime /\ ms' = ms + 1
        /\ UNCHANGED <<index, vectors, indexLock, mem, excused, left, faults, ops>>

Remember(g) == \/ Extract(g) \/ Lock(g, "stamped", "store") \/ Upsert(g)
               \/ Remembered(g)
Forget == \/ ForgetQuery \/ ForgetDelete \/ Lock("forget", "lock", "write")
          \/ ForgetIndex
Wipe == \/ ClearBegin \/ SessionBegin
        \/ \E p \in {"clear", "session"} :
             Lock(p, "lock", "wipe") \/ WipeOne(p) \/ WipeIndex(p)
MemoryNext == (\E g \in Goals : Remember(g)) \/ Forget \/ Wipe \/ Tick
MemorySpec == MemoryInit /\ [][MemoryNext]_memoryVars

-----------------------------------------------------------------------------
TypeOK == /\ indexLock \in Goals \cup Requests \cup {None}
          /\ DOMAIN vectors \subseteq (0..MaxTime) \X (0..MaxFacts)
          /\ faults \in 0..MaxFaults /\ ops \in 0..MaxOps

\* Whatever the tasks' order, every stored fact is named by the index (so
\* that clear, forget_session and list know of it), unless one of its own
\* calls failed or two goals ended in one millisecond; and a wipe that
\* reports success leaves nothing of what it was asked to delete.
MemoryNamed ==
  /\ indexLock = None =>
       DOMAIN vectors \subseteq FactIds(index) \cup excused \cup Collided
  /\ left = {}

-----------------------------------------------------------------------------
(* The tool catalogue a goal is given: the operator's allowlist, tools file *)
(* and approvals file, completed from the plugins' manifests (one kernel    *)
(* call per plugin, any of which may fail), and then a risk inferred for    *)
(* what nobody labelled.  The layers are read again for every goal.         *)

CONSTANTS Names,        \* action names
          Denied,       \* CHATS_INTERNAL_ACTIONS, AGENT_MANAGEMENT_ACTIONS
          SecretNames, LaunchNames, PowerfulNames, SendNames, DeleteNames,
          MutatingNames,   \* the rules of infer_risk, in order
          Plugins, Owner   \* which plugin declares an action

VARIABLES allow,     \* the allowlist
          file,      \* tools file: name -> spec or None
          approvals, \* approvals file: name -> BOOLEAN or None
          manifest,  \* what plugins declare: name -> spec or None
          found,     \* discovery so far: names whose manifest was read
          asked,     \* plugins whose manifest was read
          catalog,   \* name -> spec, for the tools offered
          step

toolsVars == <<allow, file, approvals, manifest, found, asked, catalog, step>>

Risks == {"", "unknown", "low", "high"}
Specs(src, R) == [risk : R, confirm : BOOLEAN, doc : BOOLEAN, src : {src}]
ToolsAssumption ==
  None \notin BOOLEAN \cup Specs("file", {"", "low"}) \cup Specs("kernel", Risks)
KnowledgeAssumption == MemoryAssumption /\ ToolsAssumption
Minimal == [risk |-> "", confirm |-> FALSE, doc |-> FALSE, src |-> "minimal"]

\* infer_risk: the first rule that matches
InferRisk(n) ==
  IF n \in SecretNames \cup LaunchNames THEN "critical"
  ELSE IF n \in PowerfulNames \cup SendNames \cup DeleteNames THEN "high"
  ELSE IF n \in MutatingNames THEN "medium" ELSE "low"
Undeclared(r) == r \in {"", "unknown"}

ToolsInit == /\ \E n \in Names :        \* one tool of interest, in every layer
                  /\ allow \in {{n}, {}}
                  /\ \E f \in Specs("file", {"", "low"}) \cup {None} :
                       file = [m \in Names |-> IF m = n THEN f ELSE None]
                  /\ \E a \in BOOLEAN \cup {None} :
                       approvals = [m \in Names |-> IF m = n THEN a ELSE None]
                  /\ \E k \in Specs("kernel", Risks) \cup {None} :
                       manifest = [m \in Names |-> IF m = n THEN k ELSE None]
             /\ found = {} /\ asked = {} /\ catalog = <<>> /\ step = "build"

\* Catalog::build: the denied names go, file entry or a minimal one, approvals
Base(n) == IF file[n] = None THEN Minimal ELSE file[n]
Approved(n) == IF approvals[n] = None THEN Base(n)
               ELSE [Base(n) EXCEPT !.confirm = approvals[n]]
Build == /\ step = "build"
         /\ catalog' = [n \in allow \ Denied |-> Approved(n)]
         /\ step' \in {"discover", "infer"}    \* AGENT_PLUGIN_DISCOVERY=off
         /\ UNCHANGED <<allow, file, approvals, manifest, found, asked>>

\* discover: one manifest after the other; a failure gives up the whole pass
Discover ==
  /\ step = "discover" /\ asked # Plugins
  /\ \E p \in Plugins \ asked :
     \/ /\ asked' = asked \cup {p}
        /\ found' = found \cup {n \in Names : manifest[n] # None /\ Owner[n] = p}
        /\ UNCHANGED step
     \/ step' = "infer" /\ UNCHANGED <<asked, found>>
  /\ UNCHANGED <<allow, file, approvals, manifest, catalog>>

\* mistake: the manifest's word is final
MergeAssign(s, k) ==
  [s EXCEPT !.doc = @ \/ k.doc, !.risk = IF @ = "" THEN k.risk ELSE @,
            !.confirm = k.confirm, !.src = "merged"]
\* merge_from_kernel: fill gaps; confirmation may only be added
Merge(s, k) ==
  LET m == [s EXCEPT !.doc = @ \/ k.doc,
                     !.risk = IF @ = "" THEN k.risk ELSE @,
                     !.confirm = @ \/ k.confirm]
  IN IF m = s THEN s ELSE [m EXCEPT !.src = "merged"]
Completed(n) == LET s == catalog[n] IN
  CASE n \notin found -> s
    [] n \in found /\ s.src = "minimal" -> manifest[n]
    [] OTHER -> Merge(s, manifest[n])
Complete == /\ step = "discover" /\ asked = Plugins
            /\ catalog' = [n \in DOMAIN catalog |-> Completed(n)]
            /\ step' = "infer"
            /\ UNCHANGED <<allow, file, approvals, manifest, found, asked>>

\* infer_missing_risk
Inferred(s, n) == IF ~Undeclared(s.risk) THEN s
                  ELSE [s EXCEPT !.risk = InferRisk(n),
                          !.confirm = @ \/ InferRisk(n) \in {"high", "critical"}]
Infer == /\ step = "infer"
         /\ catalog' = [n \in DOMAIN catalog |-> Inferred(catalog[n], n)]
         /\ step' = "ready"
         /\ UNCHANGED <<allow, file, approvals, manifest, found, asked>>

ToolsNext == Build \/ Discover \/ Complete \/ Infer
ToolsSpec == ToolsInit /\ [][ToolsNext]_toolsVars

-----------------------------------------------------------------------------
Reached(n) == n \in found /\ asked = Plugins
Said(n, layer) == layer[n] # None /\ layer[n].confirm
\* The catalogue never holds a denied action, and whoever demanded a
\* confirmation gets it: the plugin once its manifest was read, the file
\* unless the approvals file says otherwise, the approvals file beside a file
\* entry, and the inference where no layer gave a risk.
ConfirmationKept == step = "ready" =>
  /\ DOMAIN catalog \cap Denied = {}
  /\ \A n \in DOMAIN catalog : LET s == catalog[n] IN
       /\ Reached(n) /\ Said(n, manifest) => s.confirm
       /\ Said(n, file) /\ approvals[n] # FALSE => s.confirm
       /\ file[n] # None /\ approvals[n] = TRUE => s.confirm
       /\ ~Undeclared(s.risk)
       /\ /\ file[n] = None \/ Undeclared(file[n].risk)
          /\ ~Reached(n) \/ Undeclared(manifest[n].risk)
          /\ InferRisk(n) \in {"high", "critical"}
          => s.confirm
=============================================================================
