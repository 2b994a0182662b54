----------------------------- MODULE Automations -----------------------------
(* automations: the rules, and the serve loop they call actions through.    *)
(* The parts share no state; each has its own initial states and steps.     *)
EXTENDS Integers, Sequences, FiniteSets

-----------------------------------------------------------------------------
(* The serve loop of automations.  Unlike the loops of RpcProxy it names    *)
(* its outgoing calls after the millisecond in which it forwards them, so   *)
(* two calls forwarded in one millisecond share an action id.               *)

CONSTANTS Callers, MaxCalls, MaxMs

ASSUME ClockAssumption == {MaxCalls, MaxMs} \subseteq Nat

VARIABLES waits,    \* task -> the number of the call it waits for, 0 when it does not
          rpcq,     \* rpc_rx
          pend,     \* pending: action id -> call
          wired,    \* requests on the way and answers on the way back
          got,      \* per call: a call's number, "aborted", "timed_out" or "nothing"
          stamp,    \* per call: the millisecond it was forwarded in
          running, instant

clockVars == <<waits, rpcq, pend, wired, got, stamp, running, instant>>

Calls == DOMAIN got
Waiting(c) == got[c].kind = "nothing"
Nothing == [kind |-> "nothing", of |-> 0]
ClockInit == /\ waits = [t \in Callers |-> 0] /\ rpcq = <<>> /\ pend = <<>>
             /\ wired = {} /\ got = <<>> /\ stamp = <<>> /\ running = TRUE /\ instant = 0

\* Rpc::call: a task of a request or an event posts a call and waits
Post(t) == /\ waits[t] = 0 /\ Len(got) < MaxCalls /\ running
           /\ got' = Append(got, Nothing) /\ stamp' = Append(stamp, MaxMs + 1)
           /\ rpcq' = Append(rpcq, Len(got) + 1)
           /\ waits' = [waits EXCEPT ![t] = Len(got) + 1]
           /\ UNCHANGED <<pend, wired, running, instant>>

\* mistake: one id for the life of the plugin
ActionIdFixed == 0
ActionId == instant
Answered(c, k, o) == IF Waiting(c) THEN [got EXCEPT ![c] = [kind |-> k, of |-> o]] ELSE got
\* the loop takes a call: a waiter under the same id is dropped
Forward == /\ running /\ rpcq # <<>>
           /\ LET c == Head(rpcq) IN
              /\ pend' = [i \in DOMAIN pend \cup {ActionId} |-> IF i = ActionId THEN c ELSE pend[i]]
              /\ got' = IF ActionId \in DOMAIN pend
                        THEN Answered(pend[ActionId], "aborted", 0) ELSE got
              /\ stamp' = [stamp EXCEPT ![c] = instant]
              /\ wired' = wired \cup {[id |-> ActionId, of |-> c]}
           /\ rpcq' = Tail(rpcq)
           /\ UNCHANGED <<waits, running, instant>>

\* an ActionResponse: to the waiter of its id, to nobody when there is none;
\* an error and a malformed payload reach the same waiter
RecvResponse(m) ==
  /\ running /\ m \in wired /\ wired' = wired \ {m}
  /\ IF m.id \in DOMAIN pend
     THEN /\ got' = Answered(pend[m.id], "answer", m.of)
          /\ pend' = [i \in DOMAIN pend \ {m.id} |-> pend[i]]
     ELSE UNCHANGED <<got, pend>>
  /\ UNCHANGED <<waits, rpcq, stamp, running, instant>>

\* the tokio timeout of Rpc::call; the entry stays in pending
TimeOut(t) == /\ waits[t] # 0 /\ Waiting(waits[t])
              /\ got' = Answered(waits[t], "timed_out", 0)
              /\ UNCHANGED <<waits, rpcq, pend, wired, stamp, running, instant>>
Return(t) == /\ waits[t] # 0 /\ ~Waiting(waits[t])
             /\ waits' = [waits EXCEPT ![t] = 0]
             /\ UNCHANGED <<rpcq, pend, wired, got, stamp, running, instant>>
\* PluginShutdown or a lost connection: every channel closes
Stop == /\ running /\ running' = FALSE /\ pend' = <<>> /\ rpcq' = <<>>
        /\ got' = [c \in Calls |-> IF Waiting(c) THEN [kind |-> "aborted", of |-> 0]
                                   ELSE got[c]]
        /\ UNCHANGED <<waits, wired, stamp, instant>>
ClockTick == instant < MaxMs /\ instant' = instant + 1
             /\ UNCHANGED <<waits, rpcq, pend, wired, got, stamp, running>>

ClockNext == \/ Forward \/ Stop \/ ClockTick
             \/ \E t \in Callers : Post(t) \/ TimeOut(t) \/ Return(t)
             \/ \E m \in wired : RecvResponse(m)
ClockSpec == ClockInit /\ [][ClockNext]_clockVars

-----------------------------------------------------------------------------
\* Every answer reaches the task whose call it answers: "correlates the
\* ActionResponse by action_id".
AnswerIsOwn == \A c \in Calls : got[c].kind = "answer" => got[c].of = c
\* The damage stays within a millisecond: an answer is crossed, and a call told
\* of a shutdown that did not happen, only among calls of one instant.
MixedWithinInstant ==
  \A c \in Calls :
    /\ got[c].kind = "answer" => stamp[got[c].of] = stamp[c]
    /\ got[c].kind = "aborted" /\ running =>
         \E d \in Calls \ {c} : stamp[d] = stamp[c]
    /\ got[c].kind = "answer" /\ (\A d \in Calls \ {c} : stamp[d] # stamp[c])
         => got[c].of = c

-----------------------------------------------------------------------------
(***************************************************************************)
(* The automations plugin: rules kept as documents in the database plugin  *)
(* are matched against kernel events.  Every event is handled by a task of *)
(* its own, which lists the rules and, for each that matches and is not    *)
(* cooling down, either publishes needs_confirmation or calls the rule's   *)
(* action, and then writes its copy of the rule back.  rule_set and        *)
(* rule_delete run in tasks too, and nothing keeps two tasks from holding  *)
(* copies of one rule.  Conditions are abstracted to a payload the rule    *)
(* wants; names, action parameters and last_error are left out.            *)
(***************************************************************************)

CONSTANTS
    Ids,          \* rule ids, an initial segment of the positive numbers
    Events,       \* the events the kernel may deliver: [type, payload]
    Subscribed,   \* AUTOMATIONS_PLUGIN_EVENT_TYPES
    Forms,        \* the rule_set forms: [enabled, type, want, confirm, cooldown]
    AnyPayload,   \* the condition list that is empty
    NoRule,       \* no document under this key
    Tasks,        \* the tasks that may be in progress at once
    MaxRules,     \* MAX_RULES
    MaxEvents, MaxRequests, MaxTime, MaxCrashes,  \* bounds
    DbMayFail     \* database writes may fail

\* Unix time: long after the last_fired_ms = 0 of a rule that never fired.
Epoch == 2

ASSUME AutomationsAssumption ==
    /\ IsFiniteSet(Ids) /\ Ids = 1 .. Cardinality(Ids)
    /\ IsFiniteSet(Tasks) /\ Tasks # {}
    /\ {MaxRules, MaxEvents, MaxRequests, MaxTime, MaxCrashes} \subseteq Nat
    /\ Epoch <= MaxTime
    /\ DbMayFail \in BOOLEAN
    /\ \A f \in Forms : f.enabled \in BOOLEAN /\ f.confirm \in BOOLEAN /\ f.cooldown \in Nat

VARIABLES
    clock,      \* unix milliseconds
    db,         \* the rule documents
    nextId,     \* meta:next_id
    task,       \* what each task is doing
    events, requests, crashes,  \* how many there have been
    overtaken,  \* history, per task: the rules written since it took its copies of them
    gated,      \* history: rules the operator last stored as requiring confirmation
    mark,       \* history, per rule: the time of the fire that was last stored
    revived,    \* history: rules written back after they were deleted
    fired       \* history: the latest call of a rule's action, if any

vars == <<clock, db, nextId, task, events, requests, crashes, overtaken, gated, mark,
          revived, fired>>

bounds == <<events, requests, crashes>>
ruleVars == <<db, gated, mark, revived>>

Rules == [id : Ids, enabled : BOOLEAN, type : {f.type : f \in Forms},
          want : {f.want : f \in Forms}, confirm : BOOLEAN,
          cooldown : {f.cooldown : f \in Forms}, last_fired : Nat]

ASSUME NoRuleAssumption == NoRule \notin Rules

Idle == [pc |-> "idle"]

Present == {i \in Ids : db[i] # NoRule}

(***************************************************************************)
(* Rules, and the copies of them that tasks hold.                          *)
(***************************************************************************)
ConditionsHold(r, payload) == r.want \in {AnyPayload, payload}

CooldownOk(r, now) == r.cooldown = 0 \/ now - r.last_fired >= r.cooldown

Matches(r, ev) == r.enabled /\ r.type = ev.type /\ ConditionsHold(r, ev.payload)

NewRule(i, f) ==
    [id |-> i, enabled |-> f.enabled, type |-> f.type, want |-> f.want,
     confirm |-> f.confirm, cooldown |-> f.cooldown, last_fired |-> 0]

\* A mutant: an update starts the cooldown anew.
MergedFresh(f, old) ==
    [NewRule(old.id, f) EXCEPT !.enabled = f.enabled \/ old.enabled]

\* What rule_set keeps of the stored rule: its fire state, and that it is
\* enabled.
Merged(f, old) ==
    [NewRule(old.id, f) EXCEPT !.last_fired = old.last_fired,
                               !.enabled = f.enabled \/ old.enabled]

IdsOf(rules) == {r.id : r \in rules}

\* The rules a task holds copies of.
Copies(x) ==
    CASE x.pc \in {"create", "update"} -> {x.rule.id}
      [] x.pc = "rules" -> IdsOf(x.rest)
      [] x.pc = "store" -> {x.rule.id} \cup IdsOf(x.rest)
      [] OTHER -> {}

\* Task t goes on to x; the rules in written were written, so that the copies of
\* the others are old.
Goto(t, x, written) ==
    /\ task' = [task EXCEPT ![t] = x]
    /\ overtaken' = [u \in Tasks |->
          (overtaken[u] \cup (IF u = t THEN {} ELSE written)) \cap Copies(task'[u])]

\* db_set of the copy r of task t.
Put(t, r) ==
    /\ db' = [db EXCEPT ![r.id] = r]
    /\ revived' = IF db[r.id] = NoRule /\ task[t].pc # "create" THEN revived \cup {r.id}
                  ELSE revived

\* An event task stores the rule it has marked, and with an old copy it undoes what
\* the operator stored.
PutMarked(t, r) ==
    /\ Put(t, r)
    /\ gated' = IF r.id \in overtaken[t] /\ ~r.confirm THEN gated \ {r.id} ELSE gated
    /\ mark' = [mark EXCEPT ![r.id] = r.last_fired]

(***************************************************************************)
(* rule_set and rule_delete.                                               *)
(***************************************************************************)
\* A rule without an id: the rules are counted first ...
CreateBegin(t, f) ==
    /\ task[t] = Idle
    /\ requests < MaxRequests
    /\ requests' = requests + 1
    /\ Cardinality(Present) < MaxRules
    /\ Goto(t, [pc |-> "id", form |-> f], {})
    /\ UNCHANGED <<clock, nextId, events, crashes, ruleVars, fired>>

\* A mutant: the id is the number of rules there are.
DrawIdByCount(t) ==
    /\ task[t].pc = "id"
    /\ Cardinality(Present) + 1 \in Ids
    /\ nextId' = Cardinality(Present) + 1
    /\ Goto(t, [pc |-> "create", rule |-> NewRule(nextId', task[t].form)], {})
    /\ UNCHANGED <<clock, bounds, ruleVars, fired>>

\* ... then an id is drawn from the database's counter.
DrawId(t) ==
    /\ task[t].pc = "id"
    /\ nextId + 1 \in Ids
    /\ nextId' = nextId + 1
    /\ Goto(t, [pc |-> "create", rule |-> NewRule(nextId + 1, task[t].form)], {})
    /\ UNCHANGED <<clock, bounds, ruleVars, fired>>

\* A rule with an id must exist; its fire state is read and kept.
UpdateBegin(t, i, f) ==
    /\ task[t] = Idle
    /\ requests < MaxRequests
    /\ requests' = requests + 1
    /\ db[i] # NoRule
    /\ Goto(t, [pc |-> "update", rule |-> Merged(f, db[i])], {})
    /\ UNCHANGED <<clock, nextId, events, crashes, ruleVars, fired>>

\* An old copy takes the marks of others back.
PutRule(t) ==
    /\ task[t].pc \in {"create", "update"}
    /\ LET r == task[t].rule
       IN  /\ Put(t, r)
           /\ gated' = IF r.confirm THEN gated \cup {r.id} ELSE gated \ {r.id}
           /\ mark' = IF r.id \in overtaken[t] THEN [mark EXCEPT ![r.id] = r.last_fired] ELSE mark
           /\ Goto(t, Idle, {r.id})
    /\ UNCHANGED <<clock, nextId, bounds, fired>>

RuleDelete(t, i) ==
    /\ task[t] = Idle
    /\ db[i] # NoRule
    /\ db' = [db EXCEPT ![i] = NoRule]
    /\ gated' = gated \ {i}
    /\ mark' = [mark EXCEPT ![i] = 0]
    /\ revived' = revived \ {i}
    /\ Goto(t, Idle, {i})
    /\ UNCHANGED <<clock, nextId, bounds, fired>>

\* A call of the database fails: the request fails, the event is dropped.
CallFails(t) ==
    /\ DbMayFail
    /\ task[t].pc \in {"id", "create", "update", "list"}
    /\ Goto(t, Idle, {})
    /\ UNCHANGED <<clock, nextId, bounds, ruleVars, fired>>

(***************************************************************************)
(* on_event.                                                               *)
(***************************************************************************)
\* An event of a subscribed type is acknowledged and handled in a task, whose
\* first call lists the keys.  Other types match no rule.
OnEvent(t, ev) ==
    /\ ev.type \in Subscribed
    /\ task[t] = Idle
    /\ events < MaxEvents
    /\ events' = events + 1
    /\ Present # {}
    /\ Goto(t, [pc |-> "list", ev |-> ev, keys |-> Present], {})
    /\ UNCHANGED <<clock, nextId, requests, crashes, ruleVars, fired>>

\* The task goes on with the copies in rest, or ends.
Onward(rest) == IF rest = {} THEN Idle ELSE [pc |-> "rules", rest |-> rest]

ListRules(t) ==
    /\ task[t].pc = "list"
    /\ Goto(t, Onward({db[i] : i \in {j \in task[t].keys \cap Present :
                                         Matches(db[j], task[t].ev)}}), {})
    /\ UNCHANGED <<clock, nextId, bounds, ruleVars, fired>>

CoolingDown(t, r) ==
    /\ task[t].pc = "rules"
    /\ r \in task[t].rest
    /\ ~CooldownOk(r, clock)
    /\ Goto(t, Onward(task[t].rest \ {r}), {})
    /\ UNCHANGED <<clock, nextId, bounds, ruleVars, fired>>

Due(t, r) ==
    /\ task[t].pc = "rules"
    /\ r \in task[t].rest
    /\ CooldownOk(r, clock)

Marked(r) == [r EXCEPT !.last_fired = clock]

\* requires_confirmation: marked, stored and published, not called.
Hold(t, r) ==
    /\ Due(t, r)
    /\ r.confirm
    /\ \/ PutMarked(t, Marked(r)) /\ Goto(t, Onward(task[t].rest \ {r}), {r.id})
       \/ DbMayFail /\ UNCHANGED ruleVars /\ Goto(t, Onward(task[t].rest \ {r}), {})
    /\ UNCHANGED <<clock, nextId, bounds, fired>>

\* The task is left with the marked rule to store.
ToStore(t, r) ==
    Goto(t, [pc |-> "store", rest |-> task[t].rest \ {r}, rule |-> Marked(r)], {})

CallOf(t, r) == [at |-> clock, cooldown |-> r.cooldown, mark |-> mark[r.id],
                 gated |-> r.id \in gated, old |-> r.id \in overtaken[t]]

\* A mutant: the confirmation gate is not looked at.
CallTargetUngated(t, r) ==
    /\ Due(t, r)
    /\ fired' = {CallOf(t, r)}
    /\ ToStore(t, r)
    /\ UNCHANGED <<clock, nextId, bounds, ruleVars>>

\* The action is called; how it ends changes last_error only.
CallTarget(t, r) ==
    /\ Due(t, r)
    /\ ~r.confirm
    /\ fired' = {CallOf(t, r)}
    /\ ToStore(t, r)
    /\ UNCHANGED <<clock, nextId, bounds, ruleVars>>

\* The rendered parameters exceed their cap: an error without a call.
TooLarge(t, r) ==
    /\ Due(t, r)
    /\ ~r.confirm
    /\ ToStore(t, r)
    /\ UNCHANGED <<clock, nextId, bounds, ruleVars, fired>>

\* The marked copy is written after the call; a failure is only logged.
StoreFired(t) ==
    /\ task[t].pc = "store"
    /\ \/ PutMarked(t, task[t].rule) /\ Goto(t, Onward(task[t].rest), {task[t].rule.id})
       \/ DbMayFail /\ UNCHANGED ruleVars /\ Goto(t, Onward(task[t].rest), {})
    /\ UNCHANGED <<clock, nextId, bounds, fired>>

(***************************************************************************)
(* The environment.                                                        *)
(***************************************************************************)
Tick ==
    /\ clock < MaxTime
    /\ clock' = clock + 1
    /\ UNCHANGED <<nextId, task, bounds, overtaken, ruleVars, fired>>

Crash ==
    /\ crashes < MaxCrashes
    /\ \E t \in Tasks : task[t] # Idle
    /\ crashes' = crashes + 1
    /\ task' = [t \in Tasks |-> Idle]
    /\ overtaken' = [t \in Tasks |-> {}]
    /\ UNCHANGED <<clock, nextId, events, requests, ruleVars, fired>>

Init ==
    /\ clock = Epoch
    /\ db = [i \in Ids |-> NoRule]
    /\ nextId = 0
    /\ task = [t \in Tasks |-> Idle]
    /\ events = 0 /\ requests = 0 /\ crashes = 0
    /\ overtaken = [t \in Tasks |-> {}]
    /\ gated = {}
    /\ mark = [i \in Ids |-> 0]
    /\ revived = {}
    /\ fired = {}

Next ==
    \/ \E t \in Tasks :
          \/ DrawId(t) \/ PutRule(t) \/ CallFails(t) \/ ListRules(t) \/ StoreFired(t)
          \/ \E f \in Forms : CreateBegin(t, f) \/ \E i \in Ids : UpdateBegin(t, i, f)
          \/ \E i \in Ids : RuleDelete(t, i)
          \/ \E ev \in Events : OnEvent(t, ev)
          \/ \E r \in (IF task[t].pc = "rules" THEN task[t].rest ELSE {}) :
                CoolingDown(t, r) \/ Hold(t, r) \/ CallTarget(t, r) \/ TooLarge(t, r)
    \/ Tick
    \/ Crash

Spec == Init /\ [][Next]_vars

(***************************************************************************)
(* Properties.                                                             *)
(***************************************************************************)
\* Every task is at a point of its code, with the copies it needs there.
TypeOK ==
    /\ clock \in Epoch .. MaxTime
    /\ db \in [Ids -> Rules \cup {NoRule}]
    /\ \A i \in Present : db[i].id = i
    /\ nextId \in Nat
    /\ \A t \in Tasks :
          \/ task[t] = Idle
          \/ task[t].pc = "id" /\ task[t].form \in Forms
          \/ task[t].pc \in {"create", "update"} /\ task[t].rule \in Rules
          \/ task[t].pc = "list" /\ task[t].keys \subseteq Ids
          \/ task[t].pc = "rules" /\ task[t].rest \in (SUBSET Rules) \ {{}}
          \/ task[t].pc = "store" /\ task[t].rest \subseteq Rules /\ task[t].rule \in Rules
    /\ overtaken \in [Tasks -> SUBSET Ids]
    /\ gated \subseteq Ids
    /\ mark \in [Ids -> Nat]

\* "A rule with requires_confirmation: true never dispatches" (README): once
\* rule_set has stored the flag it stays stored, and no event calls the rule's
\* action until rule_set clears it, across failing calls, restarts and tasks that
\* overlap.  What the code does not keep, and this excepts: a task that listed the
\* rule before the flag was stored still calls the action, and then takes the flag
\* off the stored rule with its old copy (on_event, apply).
GateKept ==
    /\ \A i \in Present \cap gated : db[i].confirm
    /\ \A f \in fired : f.gated => f.old

\* A rule does not fire within its cooldown after a fire that was stored, whatever
\* updates, deletions and restarts come in between; only a task whose copy is older
\* than that fire does it again (cooldown_ok, apply keeping last_fired_ms).
StoredCooldownKept == \A f \in fired : f.old \/ f.at - f.mark >= f.cooldown

\* A rule that is created takes no other rule's place: its id is new although
\* rules were deleted before and the plugin was restarted (next_id).
CreatedIsNew ==
    \A t \in Tasks : task[t].pc = "create" =>
        /\ db[task[t].rule.id] = NoRule
        /\ \A u \in Tasks \ {t} : task[t].rule.id \notin Copies(task[u])

\* "At most 200 rules" (README): the count is taken two calls before the put, so it is
\* passed by what is created at the same time, but never by more, and by the deleted
\* rules that a task in flight writes back (apply, on_event).
CapKept == Cardinality(Present \ revived) < MaxRules + Cardinality(Tasks)

\* The stored rules are well formed, no more than the cap and the tasks at work
\* allow, and none was overwritten by a new one (rule_set, next_id).
RuleInv == TypeOK /\ CreatedIsNew /\ CapKept

\* The stored rules stay within their bounds and take no other's place, a fire
\* that was stored keeps its cooldown, and an answer that goes to the wrong call
\* comes from a call of the same millisecond (rule_set, on_event, and the serve
\* loop of automations).
AutomationsInv == RuleInv /\ StoredCooldownKept /\ MixedWithinInstant
=============================================================================
