----------------------------- MODULE AgentGoals -----------------------------
(***************************************************************************)
(* The goal engine of plugins/agent.  A goal is a document in the database *)
(* plugin.  goal_start and goal_resume each run, in a task of their own,   *)
(* the loop  ask the model -> call a tool -> persist  on a private copy of *)
(* the document, until the goal ends or a tool that needs the operator's   *)
(* confirmation halts it.  Nothing is locked: every task reads a document, *)
(* works on its copy, and writes the whole copy back, while goal_delete,   *)
(* the retention sweep and other resumes do the same.                      *)
(*                                                                         *)
(* Each database call is one step, so the tasks interleave at every await. *)
(***************************************************************************)
EXTENDS Integers, FiniteSets

CONSTANTS
    Workers,        \* request-handling tasks
    Tools,          \* tools of the catalog
    Gated,          \* the tools marked requires_confirmation
    NoLimit,        \* no retention limit is set
    Instances       \* the situations considered, records of
                    \*   tools, devices: the tools the model may propose, and those of
                    \*     them that belong to a device plugin, "dev-..."
                    \*   maxGoals, maxHalts: bounds on goals and confirmations
                    \*   maxSteps: max_steps of a goal
                    \*   quota: max_per_goal of every tool; 0 is unlimited
                    \*   cooldown: tools also have a cooldown
                    \*   retention: the retention limit, or NoLimit
                    \*   serial: at most one request per goal at a time
                    \*   catalogMayShrink: a tool may leave the catalog while a goal
                    \*     is halted
                    \*   dbMayFail: database calls may fail or time out
                    \*   mayCrash: the plugin process may be killed and restarted

ASSUME GoalsAssumption ==
    /\ Gated \subseteq Tools
    /\ NoLimit \notin Nat
    /\ \A i \in Instances :
          /\ i.tools \subseteq Tools /\ i.devices \subseteq i.tools
          /\ {i.maxGoals, i.maxHalts, i.quota} \subseteq Nat
          /\ i.maxSteps \in Nat \ {0}
          /\ i.retention \in Nat \cup {NoLimit}
          /\ {i.cooldown, i.serial, i.catalogMayShrink, i.dbMayFail, i.mayCrash} \subseteq BOOLEAN

Goals == UNION {1 .. i.maxGoals : i \in Instances}

Terminal == {"completed", "declined", "max_steps_reached", "error"}
Statuses == {"running", "needs_confirmation"} \cup Terminal

\* A call the model proposed for a goal and the operator must confirm, told
\* apart from every other such call.
Tokens == [goal : Goals, tool : Tools, n : Nat]
NoCall == [goal |-> 0, tool |-> "", n |-> 0]

\* A call that needs no confirmation.
Plain(t) == [goal |-> 0, tool |-> t, n |-> 0]

\* GoalDoc: the fields the control flow depends on.
Docs == [status  : Statuses,
         steps   : Nat,               \* steps other than "final"
         counts  : [Tools -> Nat],    \* tool_counts
         pending : Tokens \cup {NoCall}]
Missing == [status |-> "missing"]

NewDoc == [status |-> "running", steps |-> 0,
           counts |-> [t \in Tools |-> 0], pending |-> NoCall]

VARIABLES
    inst,      \* the situation, chosen once
    db,        \* goal documents of the database plugin
    newer,     \* stored goal -> those whose last write is after its own
    nextId,    \* meta:next_id of the database plugin
    pc,        \* what each task is doing
    kind,      \* the request it handles: "start", "resume" or "delete"
    on,        \* the goal each task works on
    doc,       \* its private copy of the document
    call,      \* the call it is about to dispatch
    victims,   \* the goals its retention sweep has chosen
    halts,     \* confirmations ever asked for, numbering the tokens
    session,   \* goals that belong to a chat session
    approved,  \* history: tokens the operator approved
    executed,  \* history: tokens dispatched
    twice,     \* history: tokens dispatched more than once
    ncalls,    \* history: dispatches of each goal, all and of each tool, saturating
    turns      \* history: turns appended to the chat per goal, saturating

task == <<pc, kind, on, doc, call, victims>>
store == <<db, newer, nextId>>
history == <<inst, halts, session, approved, executed, twice, ncalls, turns>>
vars == <<store, task, history>>

Init ==
    /\ inst \in Instances
    /\ db = [g \in Goals |-> Missing]
    /\ newer = [g \in Goals |-> {}]
    /\ nextId = 1
    /\ pc = [w \in Workers |-> "idle"]
    /\ kind = [w \in Workers |-> "none"]
    /\ on = [w \in Workers |-> 0]
    /\ doc = [w \in Workers |-> NewDoc]
    /\ call = [w \in Workers |-> NoCall]
    /\ victims = [w \in Workers |-> {}]
    /\ halts = 0
    /\ session = {}
    /\ approved = {} /\ executed = {} /\ twice = {}
    /\ ncalls = [g \in Goals |-> [all |-> 0, of |-> [t \in Tools |-> 0]]]
    /\ turns = [g \in Goals |-> 0]

Busy(g) == \E w \in Workers : pc[w] # "idle" /\ on[w] = g

\* A request for g may be handled: always, or only alone.
MayRequest(g) == inst.serial => ~Busy(g)

Take(w, k, g, label) ==
    /\ kind' = [kind EXCEPT ![w] = k]
    /\ on' = [on EXCEPT ![w] = g]
    /\ pc' = [pc EXCEPT ![w] = label]

Goto(w, label) ==
    /\ pc' = [pc EXCEPT ![w] = label]
    /\ UNCHANGED <<kind, on>>

\* The task replies and ends; what it held is dropped.
End(w) ==
    /\ pc' = [pc EXCEPT ![w] = "idle"]
    /\ kind' = [kind EXCEPT ![w] = "none"]
    /\ on' = [on EXCEPT ![w] = 0]
    /\ doc' = [doc EXCEPT ![w] = NewDoc]
    /\ victims' = [victims EXCEPT ![w] = {}]

----------------------------------------------------------------------------
(* Db::put through the Rpc handle.  A call that returns an error may have   *)
(* been lost, or have been executed after the caller gave up.               *)

Touch(g) == [h \in Goals |-> IF h = g \/ db[h] = Missing THEN {} ELSE newer[h] \cup {g}]

Put(g, d) == db' = [db EXCEPT ![g] = d] /\ newer' = Touch(g)

PutOk(g, d) == Put(g, d) /\ UNCHANGED nextId

PutFails(g, d) ==
    /\ inst.dbMayFail
    /\ Put(g, d) \/ UNCHANGED <<db, newer>>
    /\ UNCHANGED nextId

----------------------------------------------------------------------------
(* goal_start, goal_resume and goal_delete up to the engine.                *)

\* start_goal: the catalog, an id from the database's counter, the session if
\* chats answers; the document exists only in the task until the engine
\* persists it.
StartGoal(w) ==
    /\ pc[w] = "idle"
    /\ nextId <= inst.maxGoals
    /\ nextId' = nextId + 1
    /\ Take(w, "start", nextId, "seed")
    /\ doc' = [doc EXCEPT ![w] = NewDoc]
    /\ session' \in {session, session \cup {nextId}}
    /\ UNCHANGED <<inst, db, newer, call, victims, halts, approved, executed,
                   twice, ncalls, turns>>

\* Mutant of Decline: any stored goal may be declined.
DeclineAny(w, g) ==
    /\ pc[w] = "idle"
    /\ MayRequest(g)
    /\ db[g] # Missing
    /\ Take(w, "resume", g, "declining")
    /\ doc' = [doc EXCEPT ![w] = [db[g] EXCEPT !.status = "declined",
                                               !.pending = NoCall,
                                               !.steps = @ + 1]]
    /\ UNCHANGED <<store, call, victims, history>>

\* resume_goal, approve = false.
Decline(w, g) ==
    /\ pc[w] = "idle"
    /\ MayRequest(g)
    /\ db[g].status = "needs_confirmation"
    /\ Take(w, "resume", g, "declining")
    /\ doc' = [doc EXCEPT ![w] = [db[g] EXCEPT !.status = "declined",
                                               !.pending = NoCall,
                                               !.steps = @ + 1]]
    /\ UNCHANGED <<store, call, victims, history>>

SaveDecline(w) ==
    /\ pc[w] = "declining"
    /\ \/ PutOk(on[w], doc[w]) /\ Goto(w, "record") /\ UNCHANGED <<doc, victims>>
       \/ PutFails(on[w], doc[w]) /\ End(w)
    /\ UNCHANGED <<call, history>>

\* check_quota: the count is what the document says; a cooldown may refuse any
\* tool that was used before.
QuotaSpent(d, t) == inst.quota > 0 /\ d.counts[t] >= inst.quota
MayCool(d, t) == inst.cooldown /\ d.counts[t] > 0

Counted(d, t) == [d EXCEPT !.counts[t] = @ + 1]
Step(d) == [d EXCEPT !.steps = @ + 1]

\* resume_goal, approve = true, and the engine's ApprovedResume entry: the
\* status is checked on the copy just read, and the pending call is taken
\* from that copy only.  A tool that left the catalog is dispatched uncounted.
Approve(w, g) ==
    LET token == db[g].pending
        taken == [db[g] EXCEPT !.status = "running", !.pending = NoCall]
    IN
    /\ pc[w] = "idle"
    /\ MayRequest(g)
    /\ db[g].status = "needs_confirmation"
    /\ approved' = approved \cup {token}
    /\ \/ /\ \/ /\ ~QuotaSpent(taken, token.tool)
                /\ doc' = [doc EXCEPT ![w] = Counted(taken, token.tool)]
             \/ /\ inst.catalogMayShrink
                /\ doc' = [doc EXCEPT ![w] = taken]
          /\ call' = [call EXCEPT ![w] = token]
          /\ Take(w, "resume", g, "dispatch")
       \/ /\ QuotaSpent(taken, token.tool) \/ MayCool(taken, token.tool)
          /\ UNCHANGED call
          /\ \/ doc' = [doc EXCEPT ![w] = Step(taken)] /\ Take(w, "resume", g, "save")
             \/ doc' = [doc EXCEPT ![w] = taken] /\ Take(w, "resume", g, "fail")
    /\ UNCHANGED <<inst, store, victims, halts, session, executed, twice, ncalls,
                   turns>>

\* Db::delete reads first and deletes in a second call.
DeleteGoal(w, g) ==
    /\ pc[w] = "idle"
    /\ MayRequest(g)
    /\ db[g] # Missing
    /\ Take(w, "delete", g, "deleting")
    /\ UNCHANGED <<store, doc, call, victims, history>>

Erase(g) ==
    /\ db' = [db EXCEPT ![g] = Missing]
    /\ newer' = [h \in Goals |-> IF h = g THEN {} ELSE newer[h] \ {g}]

FinishDelete(w) ==
    /\ pc[w] = "deleting"
    /\ Erase(on[w]) \/ (inst.dbMayFail /\ UNCHANGED <<db, newer>>)
    /\ End(w)
    /\ UNCHANGED <<nextId, call, history>>

----------------------------------------------------------------------------
(* engine::run.                                                             *)

\* Entry::Fresh: the seeded transcript is persisted before the first question.
\* A recalled memory block may already exceed the transcript budget.
Seed(w) ==
    /\ pc[w] = "seed"
    /\ \/ PutOk(on[w], doc[w]) /\ Goto(w, "think")
       \/ PutFails(on[w], doc[w]) /\ Goto(w, "fail")
       \/ UNCHANGED store /\ Goto(w, "fail")
    /\ UNCHANGED <<doc, call, victims, history>>

Become(w, d, step) ==
    /\ doc' = [doc EXCEPT ![w] = d]
    /\ Goto(w, step)
    /\ UNCHANGED <<store, victims>>

EndWith(d, status) == Step([d EXCEPT !.status = status])

OutOfSteps(w) ==
    /\ pc[w] = "think"
    /\ doc[w].steps >= inst.maxSteps
    /\ Become(w, EndWith(doc[w], "max_steps_reached"), "save")
    /\ UNCHANGED <<call, history>>

Thinking(w) ==
    /\ pc[w] = "think"
    /\ doc[w].steps < inst.maxSteps

\* Both chat_with_fallback attempts failed.
ModelFails(w) ==
    /\ Thinking(w)
    /\ Become(w, EndWith(doc[w], "error"), "save")
    /\ UNCHANGED <<call, history>>

\* push_turn: the transcript budget is spent; the engine returns Err.
TranscriptFull(w) ==
    /\ Thinking(w)
    /\ Become(w, doc[w], "fail")
    /\ UNCHANGED <<call, history>>

FinalAnswer(w) ==
    /\ Thinking(w)
    /\ Become(w, [doc[w] EXCEPT !.status = "completed"], "save")
    /\ UNCHANGED <<call, history>>

\* Mutant of UnknownTool: the refusal is not logged as a step.
UnknownToolUnlogged(w) ==
    /\ Thinking(w)
    /\ Become(w, doc[w], "persist")
    /\ UNCHANGED <<call, history>>

UnknownTool(w) ==
    /\ Thinking(w)
    /\ Become(w, Step(doc[w]), "persist")
    /\ UNCHANGED <<call, history>>

\* Mutant of Halt: the pending call is not stored.
HaltForgetful(w, t) ==
    /\ Thinking(w)
    /\ t \in Gated
    /\ halts < inst.maxHalts
    /\ halts' = halts + 1
    /\ Become(w, EndWith(doc[w], "needs_confirmation"), "save")
    /\ UNCHANGED <<inst, call, session, approved, executed, twice, ncalls, turns>>

\* A tool that needs confirmation halts the goal.
Halt(w, t) ==
    /\ Thinking(w)
    /\ t \in Gated
    /\ halts < inst.maxHalts
    /\ halts' = halts + 1
    /\ Become(w,
              [EndWith(doc[w], "needs_confirmation") EXCEPT
                  !.pending = [goal |-> on[w], tool |-> t, n |-> halts + 1]],
              "save")
    /\ UNCHANGED <<inst, call, session, approved, executed, twice, ncalls, turns>>

QuotaRefused(w, t) ==
    /\ Thinking(w)
    /\ t \notin Gated
    /\ QuotaSpent(doc[w], t) \/ MayCool(doc[w], t)
    /\ Become(w, Step(doc[w]), "persist")
    /\ UNCHANGED <<call, history>>

\* Mutant of CallTool: requires_confirmation is not looked at.
CallToolUngated(w, t) ==
    /\ Thinking(w)
    /\ ~QuotaSpent(doc[w], t)
    /\ call' = [call EXCEPT ![w] = Plain(t)]
    /\ Become(w, Counted(doc[w], t), "dispatch")
    /\ UNCHANGED history

CallTool(w, t) ==
    /\ Thinking(w)
    /\ t \notin Gated
    /\ ~QuotaSpent(doc[w], t)
    /\ call' = [call EXCEPT ![w] = Plain(t)]
    /\ Become(w, Counted(doc[w], t), "dispatch")
    /\ UNCHANGED history

Saturate(n, max) == IF n < max THEN n + 1 ELSE n

\* The tool runs.
Execute(w) ==
    LET c == call[w] IN
    /\ ncalls' = [ncalls EXCEPT ![on[w]].all = Saturate(@, inst.maxSteps + 1),
                                ![on[w]].of[c.tool] = Saturate(@, inst.maxSteps + 1)]
    /\ executed' = IF c.n = 0 THEN executed ELSE executed \cup {c}
    /\ twice' = twice \cup (executed \cap {c})

\* dispatch_and_observe: the last attempt; its observation may exceed the
\* transcript budget.
Dispatch(w) ==
    /\ pc[w] \in {"dispatch", "again"}
    /\ Execute(w)
    /\ call' = [call EXCEPT ![w] = NoCall]
    /\ \/ Become(w, Step(doc[w]), "persist")
       \/ Become(w, doc[w], "fail")
    /\ UNCHANGED <<inst, halts, session, approved, turns>>

\* Mutant of DeviceTimesOut: an approved call is tried again.
ApprovedTimesOut(w) ==
    /\ pc[w] = "dispatch"
    /\ call[w].n > 0
    /\ Execute(w)
    /\ Become(w, doc[w], "again")
    /\ UNCHANGED <<inst, call, halts, session, approved, turns>>

\* A call to a device that seemed to fail is tried once more; one that timed
\* out may have run.
DeviceTimesOut(w) ==
    /\ pc[w] = "dispatch"
    /\ call[w].tool \in inst.devices
    /\ Execute(w) \/ UNCHANGED <<ncalls, executed, twice>>
    /\ Become(w, doc[w], "again")
    /\ UNCHANGED <<inst, call, halts, session, approved, turns>>

\* persist inside the loop, and before a return.
Persist(w) ==
    /\ pc[w] = "persist"
    /\ \/ PutOk(on[w], doc[w]) /\ Goto(w, "think")
       \/ PutFails(on[w], doc[w]) /\ Goto(w, "fail")
    /\ UNCHANGED <<doc, call, victims, history>>

Save(w) ==
    /\ pc[w] = "save"
    /\ \/ PutOk(on[w], doc[w]) /\ Goto(w, "record")
       \/ PutFails(on[w], doc[w]) /\ Goto(w, "fail")
    /\ UNCHANGED <<doc, call, victims, history>>

\* run_and_record after an engine error: the goal is ended as "error", best
\* effort.  The Err also skips the retention sweep.
Fail(w) ==
    LET d == EndWith(doc[w], "error") IN
    /\ pc[w] = "fail"
    /\ PutOk(on[w], d) \/ PutFails(on[w], d)
    /\ doc' = [doc EXCEPT ![w] = d]
    /\ Goto(w, "recordFailed")
    /\ UNCHANGED <<call, victims, history>>

----------------------------------------------------------------------------
(* After the engine: the chat turn, the retention sweep, the reply.         *)

\* record_turn: nothing for a goal without a session, or not finished.
Record(w) ==
    /\ pc[w] \in {"record", "recordFailed"}
    /\ turns' = IF on[w] \in session /\ doc[w].status \in Terminal
                  THEN [turns EXCEPT ![on[w]] = Saturate(@, 2)]
                  ELSE turns
    /\ IF pc[w] = "record" /\ kind[w] = "start" /\ inst.retention # NoLimit
         THEN Goto(w, "sweep") /\ UNCHANGED <<doc, victims>>
         ELSE End(w)
    /\ UNCHANGED <<inst, store, call, halts, session, approved, executed, twice, ncalls>>

\* Mutant of PruneIds: the status is not looked at.
PruneIdsAny == {g \in Goals : db[g] # Missing /\ Cardinality(newer[g]) >= inst.retention}

\* prune_ids_at: all but the most recently updated, if terminal.
PruneIds == {g \in Goals : db[g].status \in Terminal /\ Cardinality(newer[g]) >= inst.retention}

\* Db::prune: one read of all documents chooses the victims ...
Sweep(w) ==
    /\ pc[w] = "sweep"
    /\ \/ /\ PruneIds # {}
          /\ victims' = [victims EXCEPT ![w] = PruneIds]
          /\ Goto(w, "pruning") /\ UNCHANGED doc
       \/ (PruneIds = {} \/ inst.dbMayFail) /\ End(w)
    /\ UNCHANGED <<store, call, history>>

\* ... and one call each deletes them; an error ends the sweep.
PruneOne(w, g) ==
    /\ pc[w] = "pruning"
    /\ g \in victims[w]
    /\ \/ /\ Erase(g)
          /\ victims[w] # {g}
          /\ victims' = [victims EXCEPT ![w] = @ \ {g}]
          /\ Goto(w, "pruning") /\ UNCHANGED doc
       \/ Erase(g) /\ victims[w] = {g} /\ End(w)
       \/ inst.dbMayFail /\ UNCHANGED <<db, newer>> /\ End(w)
    /\ UNCHANGED <<nextId, call, history>>

\* The process is killed and started again: the tasks are gone, the database
\* is not.
Crash ==
    /\ inst.mayCrash
    /\ \E w \in Workers : pc[w] # "idle"
    /\ pc' = [w \in Workers |-> "idle"]
    /\ kind' = [w \in Workers |-> "none"]
    /\ on' = [w \in Workers |-> 0]
    /\ doc' = [w \in Workers |-> NewDoc]
    /\ call' = [w \in Workers |-> NoCall]
    /\ victims' = [w \in Workers |-> {}]
    /\ UNCHANGED <<store, history>>

----------------------------------------------------------------------------
Engine(w) ==
    \/ OutOfSteps(w) \/ ModelFails(w) \/ TranscriptFull(w)
    \/ FinalAnswer(w) \/ UnknownTool(w)
    \/ \E t \in inst.tools : Halt(w, t) \/ QuotaRefused(w, t)
                          \/ CallTool(w, t)
    \/ Dispatch(w) \/ DeviceTimesOut(w) \/ Persist(w) \/ Save(w)
    \/ Fail(w) \/ Record(w)

Proceed(w) ==
    \/ SaveDecline(w) \/ FinishDelete(w) \/ Seed(w)
    \/ Engine(w)
    \/ Sweep(w) \/ \E g \in Goals : PruneOne(w, g)

Request(w) ==
    \/ StartGoal(w)
    \/ \E g \in Goals : Decline(w, g) \/ Approve(w, g) \/ DeleteGoal(w, g)

\* Nothing is asked of the agent any more.
Quiet ==
    /\ \A w \in Workers : pc[w] = "idle"
    /\ UNCHANGED vars

Next == (\E w \in Workers : Request(w) \/ Proceed(w)) \/ Crash \/ Quiet

\* A task that can go on does; nobody has to ask anything.
Spec == Init /\ [][Next]_vars /\ \A w \in Workers : WF_vars(Proceed(w))

----------------------------------------------------------------------------
(* Properties.                                                              *)

Pcs == {"idle", "seed", "think", "dispatch", "again", "persist", "save", "fail",
        "record", "recordFailed", "sweep", "pruning", "declining", "deleting"}

TypeOK ==
    /\ inst \in Instances
    /\ db \in [Goals -> Docs \cup {Missing}]
    /\ newer \in [Goals -> SUBSET Goals]
    /\ nextId \in Nat \ {0}
    /\ pc \in [Workers -> Pcs]
    /\ kind \in [Workers -> {"none", "start", "resume", "delete"}]
    /\ on \in [Workers -> Goals \cup {0}]
    /\ doc \in [Workers -> Docs]
    /\ call \in [Workers -> Tokens \cup {Plain(t) : t \in Tools} \cup {NoCall}]
    /\ victims \in [Workers -> SUBSET Goals]
    /\ halts \in Nat
    /\ session \subseteq Goals
    /\ {approved, executed, twice} \subseteq SUBSET Tokens
    /\ ncalls \in [Goals -> [all : Nat, of : [Tools -> Nat]]]
    /\ turns \in [Goals -> Nat]

(* A stored goal that waits for the operator says what it waits for, so an   *)
(* approval always has exactly one call to dispatch.                         *)
HaltedHasPending ==
    \A g \in Goals : db[g].status = "needs_confirmation" => db[g].pending # NoCall

(* Ids come from the database's counter, so a restart never makes goal_start *)
(* write over an older goal, and two starts never share a document.          *)
FreshIds ==
    \A w \in Workers :
        /\ pc[w] = "seed" => db[on[w]] = Missing
        /\ \A v \in Workers \ {w} :
              pc[w] = "seed" /\ pc[v] # "idle" => on[v] # on[w]

(* The stored goals are well formed: whatever crashes, fails or interleaves, *)
(* a goal that waits for the operator names the call it waits for            *)
(* (engine::run, resume_goal), and goal_start never writes over another goal *)
(* (start_goal).                                                             *)
GoalInv == TypeOK /\ HaltedHasPending /\ FreshIds

(* "The engine never self-confirms" (README): whatever crashes, fails or     *)
(* interleaves, a call that was halted for confirmation is dispatched only   *)
(* after an operator's approval read that very call from the store.          *)
GatedNeedsApproval ==
    /\ executed \subseteq approved
    /\ \A w \in Workers :
          pc[w] \in {"dispatch", "again"} /\ call[w].tool \in Gated => call[w] \in approved

(* Every request is answered: the engine's loop ends because each of its     *)
(* turns that does not end the goal adds to the step log.                    *)
RunsEnd == \A w \in Workers : pc[w] # "idle" ~> pc[w] = "idle"

(* One request per goal at a time, a catalog that stays, calls that are not  *)
(* retried, and neither restarts nor failing database calls.                 *)
Orderly ==
    /\ inst.serial
    /\ inst.devices = {}
    /\ ~(inst.catalogMayShrink \/ inst.dbMayFail \/ inst.mayCrash)

(* "approve: true dispatches exactly the pending call" (README): in orderly  *)
(* use, a halted call is dispatched at most once.                            *)
GatedOnce == Orderly => twice = {}

(* max_steps bounds the tool calls of a goal over all its resumes, although  *)
(* an approved call is dispatched without asking the loop's bound first; and *)
(* max_per_goal bounds those of one tool.                                    *)
BoundedDispatches ==
    \A g \in Goals :
        /\ ncalls[g].all <= inst.maxSteps
        /\ inst.quota > 0 => \A t \in Tools : ncalls[g].of[t] <= inst.quota

(* A goal is told to its chat session at most once, when it is finished.     *)
OneTurnPerGoal == \A g \in Goals : turns[g] <= 1

(* The retention sweep decides on a snapshot, yet never deletes a goal that  *)
(* is running or awaiting confirmation by the time it gets to it.            *)
PruneSparesLiveGoals ==
    \A w \in Workers : \A g \in victims[w] :
        /\ db[g].status \in Terminal \cup {"missing"}
        /\ ~\E v \in Workers : pc[v] \in {"seed", "think", "dispatch", "again", "persist", "save"}
                               /\ on[v] = g

(* The stored goals are well formed, and orderly use is promised that a      *)
(* halted call is dispatched once, that tool calls are bounded across halts  *)
(* and resumes (engine::run, check_quota), one chat turn per goal            *)
(* (record_turn), and a sweep that never takes a live goal (Db::prune).      *)
OrderlyInv == GoalInv /\ GatedOnce
              /\ (Orderly => BoundedDispatches /\ OneTurnPerGoal /\ PruneSparesLiveGoals)

(* In orderly use a finished goal stays as it is until it is deleted, and a  *)
(* deleted one does not come back (resume_goal's status check, Db::delete).  *)
FinishedIsFinal ==
    [][Orderly =>
        \A g \in Goals :
          /\ db[g].status \in Terminal => db'[g] \in {db[g], Missing}
          /\ g < nextId /\ db[g] = Missing /\ db'[g] # Missing
                => \E w \in Workers : on[w] = g /\ pc[w] \in {"seed", "fail"}]_vars
=============================================================================
