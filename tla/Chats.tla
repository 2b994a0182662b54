------------------------------- MODULE Chats -------------------------------
(***************************************************************************)
(* The chats plugin: the SQLite store of sessions and turns with its       *)
(* revision counter, chat_sync, the work lane (summaries and embeddings),  *)
(* the cleanup lane (delete cascade and daily sweep), and search.          *)
(*                                                                         *)
(* One mutex guards the connection (db.rs), so what runs inside one        *)
(* with_db call is one action; every call to ai, vector-db or agent is an  *)
(* await, between two actions.  The deletes of one cascade job (or of one  *)
(* sweep row) touch different vector ids and nothing the store reads, so a *)
(* job's calls are one action that takes effect on any prefix the failures *)
(* and the pass budget allow.                                              *)
(***************************************************************************)
EXTENDS Naturals, FiniteSets, FiniteSetsExt

CONSTANTS
  Sessions,   \* session ids (ULIDs, never reused)
  Turns,      \* turn ids
  MaxLate,    \* bound on vector writes outstanding after their call failed
  PageLimits, \* page sizes a chat_sync caller asks for
  MaxAttempts,\* MAX_DOC_ATTEMPTS: a turn rejected this often is given up
  Instances   \* what takes part in a behaviour, fixed at its start:
              \*   sessions, turns  the ids that may be created
              \*   maxRev           bound on meta.rev, no mutation beyond it
              \*   parts            background passes and callers that run

Parts == {"summary", "embed", "cleanup", "crash", "client", "search", "agent"}

BoundsAssumption ==
  /\ IsFiniteSet(Sessions) /\ IsFiniteSet(Turns)
  /\ {"none", "gone"} \cap Sessions = {}
  /\ MaxLate \in Nat /\ MaxAttempts \in Nat \ {0}
  /\ PageLimits \subseteq Nat \ {0}
  /\ \A i \in Instances : /\ i.sessions \subseteq Sessions
                           /\ i.turns \subseteq Turns
                           /\ i.maxRev \in Nat /\ i.parts \subseteq Parts

VARIABLES
  inst,    \* the member of Instances this behaviour is of
  rev,     \* meta.rev, bumped by next_rev in the transaction of each change
  sess,    \* table sessions
  turn,    \* table turns
  tomb,    \* table tombstones: the revision of a delete, 0 without one
  job,     \* table cascade
  swept,   \* table swept
  cycle,   \* meta.sweep_cycle: a sweep cycle is open
  vec,     \* the two collections in vector-db
  late,    \* vector writes whose call failed or timed out and may yet land
  facts,   \* what the agent keeps of a session: <<session, kind>>, where kind is
           \*   running  a goal no turn names yet       goal  a goal a turn names
           \*   fact     facts listed under the session in the memory index
           \*   stray    facts stored after chat_delete, or missing in the index
  work,    \* the work lane
  clean,   \* the cleanup lane
  client,  \* a sync client: its cursor, its copy, and whether it is at rest
  search   \* one search or recall in flight

storeVars == <<inst, rev, sess, turn, tomb>>
vars == <<inst, rev, sess, turn, tomb, job, swept, cycle, vec, late, facts,
          work, clean, client, search>>

-----------------------------------------------------------------------------
NoTurn == [of |-> "none", seq |-> 0, rev |-> 0, embedded |-> "no",
           attempts |-> 0]
GoneTurn == [NoTurn EXCEPT !.of = "gone"]    \* the row is deleted, the id used
NewSession ==
  [state |-> "none", rev |-> 0, turns |-> 0, title |-> "", sum |-> 0,
   seen |-> 0, summarized |-> 0, embedded |-> 0]
NoJob == [queued |-> FALSE, turns |-> {}, goals |-> FALSE, done |-> {},
          wait |-> FALSE, gen |-> 0]
NoRow == [kept |-> FALSE, turns |-> {}, stamped |-> FALSE, wait |-> FALSE]
WorkIdle == [pc |-> "idle", cands |-> {}, errs |-> 0, docs |-> {},
             good |-> {}, sdocs |-> {}]
CleanIdle == [pc |-> "idle", jobs |-> {}, cur |-> {}, done |-> {},
              failed |-> FALSE, down |-> {}, calls |-> FALSE, rows |-> {},
              swept |-> {}]
SearchIdle == [pc |-> "idle", dead |-> {}, fts |-> {}, cand |-> {},
               hits |-> {}]

Live(s) == sess[s].state = "live"
Dead(s) == sess[s].state \in {"deleting", "gone"}
Rows == {t \in Turns : turn[t].of \in Sessions}
TurnsOf(s) == {t \in Turns : turn[t].of = s}

\* A document in one of the two collections; a session's carries its summary.
TurnDoc(t, s) == [coll |-> "turns", id |-> t, of |-> s, text |-> 0]
SessDoc(s, text) == [coll |-> "sessions", id |-> s, of |-> s, text |-> text]
SameKey(a, b) == a.coll = b.coll /\ a.id = b.id
\* vec_upsert_batch replaces a document with the same id.
Upsert(store, docs) ==
  {v \in store : \A d \in docs : ~ SameKey(v, d)} \cup docs

Init ==
  /\ inst \in Instances
  /\ rev = 0
  /\ sess = [s \in Sessions |-> NewSession]
  /\ turn = [t \in Turns |-> NoTurn]
  /\ tomb = [s \in Sessions |-> 0]
  /\ job = [s \in Sessions |-> NoJob]
  /\ swept = [s \in Sessions |-> NoRow]
  /\ cycle = FALSE
  /\ vec = {} /\ late = {} /\ facts = {}
  /\ work = WorkIdle /\ clean = CleanIdle
  /\ client = [cursor |-> 0, sess |-> [s \in {} |-> 0], turns |-> {},
               rest |-> FALSE]
  /\ search = SearchIdle

-----------------------------------------------------------------------------
(* The store: chat_session_resolve, chat_turn_append, chat_session_update, *)
(* chat_delete.  Each is one transaction that takes one revision.          *)

\* A client that was at rest is behind as soon as a revision is issued.
Bump == /\ rev < inst.maxRev
        /\ rev' = rev + 1
        /\ client' = [client EXCEPT !.rest = FALSE]

\* resolve found no live session that fits: a new one is created.  When it
\* finds one it changes nothing.
Resolve(s) ==
  /\ s \in inst.sessions /\ sess[s].state = "none"
  /\ Bump
  /\ sess' = [sess EXCEPT ![s].state = "live", ![s].rev = rev + 1]
  /\ UNCHANGED <<inst, turn, tomb, job, swept, cycle, vec, late, facts, work, clean,
                 search>>

\* append to a session that is not live is an error and changes nothing.  The
\* turn names the goal that the agent ran, if one is over; the agent appends it in
\* a task of its own.
Append(s, t) ==
  /\ Live(s) /\ t \in inst.turns /\ turn[t] = NoTurn
  /\ Bump
  /\ turn' = [turn EXCEPT ![t] = [NoTurn EXCEPT !.of = s, !.rev = rev + 1,
                                                !.seq = sess[s].turns + 1]]
  /\ sess' = [sess EXCEPT ![s].turns = @ + 1, ![s].rev = rev + 1]
  /\ facts' = IF <<s, "running">> \in facts
              THEN (facts \ {<<s, "running">>}) \cup {<<s, "goal">>} ELSE facts
  /\ UNCHANGED <<inst, tomb, job, swept, cycle, vec, late, work, clean, search>>

Update(s) ==
  /\ Live(s)
  /\ Bump
  /\ sess' = [sess EXCEPT ![s].title = "manual", ![s].rev = rev + 1]
  /\ UNCHANGED <<inst, turn, tomb, job, swept, cycle, vec, late, facts, work, clean,
                 search>>

\* MUTANT of DeleteJob: the turns are dropped before their ids are read.
DeleteJobLate(s) == [NoJob EXCEPT !.queued = TRUE]
\* The job a delete queues, while the turn ids are still known.
DeleteJob(s) == [NoJob EXCEPT !.queued = TRUE, !.turns = TurnsOf(s),
                              !.goals = <<s, "goal">> \in facts]

Delete(s) ==
  /\ Live(s) /\ tomb[s] = 0
  /\ Bump
  /\ sess' = [sess EXCEPT ![s].state = "deleting", ![s].title = "",
                          ![s].sum = 0, ![s].rev = rev + 1]
  /\ turn' = [t \in Turns |-> IF turn[t].of = s THEN GoneTurn ELSE turn[t]]
  /\ tomb' = [tomb EXCEPT ![s] = rev + 1]
  /\ job' = [job EXCEPT ![s] = DeleteJob(s)]
  /\ UNCHANGED <<inst, swept, cycle, vec, late, facts, work, clean, search>>

-----------------------------------------------------------------------------
(* The agent, in tasks of its own: a goal is kept from its start, before any *)
(* turn names it; the facts of a goal that is over are stored by a detached  *)
(* task, after a call of the model, whenever that returns.                   *)

GoalStarts(s) ==
  /\ "agent" \in inst.parts
  /\ Live(s) /\ <<s, "running">> \notin facts
  /\ facts' = facts \cup {<<s, "running">>}
  /\ UNCHANGED <<storeVars, job, swept, cycle, vec, late, work, clean, client, search>>

\* remember: the facts are listed in the index, unless that write fails.  Nobody
\* asks whether the session is still there.
FactsStored(s) ==
  /\ "agent" \in inst.parts
  /\ <<s, "running">> \in facts \/ sess[s].turns > 0
  /\ \E kind \in {"stray"} \cup (IF Live(s) THEN {"fact"} ELSE {}) :
       facts' = facts \cup {<<s, kind>>}
  /\ UNCHANGED <<storeVars, job, swept, cycle, vec, late, work, clean, client, search>>

-----------------------------------------------------------------------------
(* chat_sync and a client that follows README "Revisions and sync": it     *)
(* upserts sessions and turns, drops a session with its turns on a delete, *)
(* and asks again from the revision the page returned.                     *)

\* What is synced of a session row.
SessionBody(s) == [rev |-> sess[s].rev, turns |-> sess[s].turns,
                   title |-> sess[s].title, sum |-> sess[s].sum]
TurnBody(t) == [id |-> t, of |-> turn[t].of, seq |-> turn[t].seq]

\* fetch: the changes with lo < rev <= hi from the three tables.
Fetch(lo, hi) ==
  LET within(r) == lo < r /\ r <= hi
  IN  {[rev |-> sess[s].rev, op |-> "session", id |-> s] :
         s \in {x \in Sessions : Live(x) /\ within(sess[x].rev)}}
      \cup {[rev |-> turn[t].rev, op |-> "turn", id |-> t] :
         t \in {x \in Rows : within(turn[x].rev)}}
      \cup {[rev |-> tomb[s], op |-> "delete", id |-> s] :
         s \in {x \in Sessions : tomb[x] > 0 /\ within(tomb[x])}}

\* The revision of the last change among the first `limit`, in rev order.
LastRev(all, limit) ==
  Min({c.rev : c \in {d \in all :
         \/ Cardinality({e \in all : e.rev <= d.rev}) >= limit
         \/ d.rev = Max({e.rev : e \in all})}})

\* MUTANT of PageOf: the last revision group is cut at the limit.
PageCut(since, limit) ==
  LET all == Fetch(since, rev)
      last == LastRev(all, limit)
      page == {c \in all : c.rev <= last}
  IN  IF Cardinality(page) <= limit THEN page
      ELSE {c \in page : c.rev < last \/ c.op # "turn"}
\* The page holds every change of each revision it reaches.
PageOf(since, limit) ==
  LET all == Fetch(since, rev)
  IN  {c \in all : c.rev <= LastRev(all, limit)}

\* The client applies a page: sessions, then turns, then deletes.
Applied(c, page) ==
  LET gone == {d.id : d \in {x \in page : x.op = "delete"}}
      upd  == {d.id : d \in {x \in page : x.op = "session"}}
      new  == {TurnBody(d.id) : d \in {x \in page : x.op = "turn"}}
  IN  [c EXCEPT
        !.sess = [s \in (DOMAIN @ \cup upd) \ gone |->
                    IF s \in upd THEN SessionBody(s) ELSE @[s]],
        !.turns = {b \in @ \cup new : b.of \notin gone}]

\* One chat_sync round trip.  since_rev > current (a replaced database) never
\* happens in this instance, so `reset` is not taken.
SyncPage(limit) ==
  /\ "client" \in inst.parts /\ ~ client.rest
  /\ LET since == client.cursor
         page  == PageOf(since, limit)
     IN  IF Fetch(since, rev) = {}
         THEN client' = [client EXCEPT !.rest = TRUE]
         ELSE LET last == LastRev(Fetch(since, rev), limit)
              IN  client' = [Applied(client, page) EXCEPT
                               !.cursor = last,
                               !.rest = Fetch(last, rev) = {}]
  /\ UNCHANGED <<storeVars, job, swept, cycle, vec, late, facts, work, clean,
                 search>>

-----------------------------------------------------------------------------
(* The work lane, one pass at a time: summarize_pass, embed_turns,         *)
(* embed_sessions.                                                         *)

\* candidates: live sessions with turns whose rev moved since the last
\* summary; which of them are idle long enough, and not backing off after a
\* failed call, is the clock's choice.  The transcript is read here.
Candidates == {s \in Sessions : Live(s) /\ sess[s].turns > 0
                                 /\ sess[s].summarized < sess[s].rev}
WorkBegin(idle) ==
  /\ work.pc = "idle"
  /\ idle \subseteq Candidates
  /\ "summary" \in inst.parts \/ idle = {}
  /\ work' = [WorkIdle EXCEPT
                !.pc = IF idle = {} THEN "turns" ELSE "summary",
                !.cands = {[id |-> s, rev |-> sess[s].rev,
                            turns |-> sess[s].turns] : s \in idle}]
  /\ UNCHANGED <<storeVars, job, swept, cycle, vec, late, facts, clean, client,
                 search>>

\* MUTANT of Marked: the new rev is always marked as summarized.
MarkedAlways(s, seenRev) == rev + 1
\* summarized_rev follows the new rev only if nothing arrived meanwhile.
Marked(s, seenRev) == IF sess[s].rev = seenRev THEN rev + 1 ELSE seenRev

Most(a, b) == IF a < b THEN b ELSE a

Rest(c) == LET left == work.cands \ {c}
           IN  [work EXCEPT !.cands = left, !.errs = 0,
                            !.pc = IF left = {} THEN "turns" ELSE "summary"]

\* apply, session no longer live: nothing is written.
ApplyDead(c) ==
  /\ ~ Live(c.id)
  /\ UNCHANGED <<rev, sess, client>>
\* apply, an unusable reply: the rev counts as processed.
ApplyJunk(c) ==
  /\ Live(c.id)
  /\ sess' = [sess EXCEPT
       ![c.id].embedded = IF @ >= sess[c.id].summarized THEN Most(@, c.rev) ELSE @,
       ![c.id].summarized = Most(@, c.rev),
       ![c.id].seen = c.turns]
  /\ UNCHANGED <<rev, client>>
\* apply, a summary: title unless set by hand, and a new rev.
ApplySummary(c) ==
  /\ Live(c.id)
  /\ Bump
  /\ sess' = [sess EXCEPT
       ![c.id].sum = c.turns, ![c.id].seen = c.turns,
       ![c.id].title = IF @ = "manual" THEN @ ELSE "auto",
       ![c.id].rev = rev + 1,
       ![c.id].summarized = Marked(c.id, c.rev)]

\* The ai call of candidate c returned and its result is applied.
Summarized(c) ==
  /\ work.pc = "summary" /\ c \in work.cands
  /\ ApplyDead(c) \/ ApplyJunk(c) \/ ApplySummary(c)
  /\ work' = Rest(c)
  /\ UNCHANGED <<inst, turn, tomb, job, swept, cycle, vec, late, facts, clean, search>>

\* The ai call failed: nothing recorded; the second failure in a row, or a
\* missing plugin, ends the pass.
SummaryFailed(c, missing) ==
  /\ work.pc = "summary" /\ c \in work.cands
  /\ LET left == work.cands \ {c}
         stop == missing \/ work.errs = 1 \/ left = {}
     IN  work' = [work EXCEPT !.cands = IF stop THEN {} ELSE left,
                              !.errs = IF stop THEN 0 ELSE 1,
                              !.pc = IF stop THEN "turns" ELSE "summary"]
  /\ UNCHANGED <<storeVars, job, swept, cycle, vec, late, facts, clean, client,
                 search>>

\* A job for dead session s, merged with a pending one; every step runs again
\* and a cascade already under way must not finish it (gen).
Requeue(s, ids) ==
  IF job[s].queued
  THEN [job[s] EXCEPT !.turns = @ \cup ids, !.done = {}, !.wait = FALSE,
                      !.gen = @ + 1]
  ELSE [NoJob EXCEPT !.queued = TRUE, !.turns = ids]

\* requeue_dead: the attempted sessions that are no longer live.
RequeueDead(docs) ==
  [s \in Sessions |->
     LET ids == {d.id : d \in {x \in docs : x.of = s}}
     IN  IF ids # {} /\ ~ Live(s) THEN Requeue(s, ids) ELSE job[s]]

\* What a failed write may have done: nothing, landed, or still to land.
FailedWrite(docs) ==
  \/ UNCHANGED <<vec, late>>
  \/ vec' = Upsert(vec, docs) /\ late' = late
  \/ /\ Cardinality(late \cup docs) <= MaxLate
     /\ late' = late \cup docs /\ vec' = vec

TurnsRead ==
  /\ work.pc = "turns"
  /\ LET pending == {t \in Rows : turn[t].embedded = "no" /\ Live(turn[t].of)}
         docs == IF "embed" \in inst.parts
                 THEN {TurnDoc(t, turn[t].of) : t \in pending} ELSE {}
     IN  work' = [work EXCEPT !.docs = docs,
                    !.pc = IF docs = {} THEN "sessions" ELSE "upsert"]
  /\ UNCHANGED <<storeVars, job, swept, cycle, vec, late, facts, clean, client,
                 search>>

TurnsUpsertOk ==
  /\ work.pc = "upsert"
  /\ vec' = Upsert(vec, work.docs)
  /\ work' = [work EXCEPT !.pc = "mark", !.good = work.docs]
  /\ UNCHANGED <<storeVars, job, swept, cycle, late, facts, clean, client, search>>

\* vector-db is not installed or not running: nothing was written.
TurnsUpsertMissing ==
  /\ work.pc = "upsert"
  /\ work' = [work EXCEPT !.pc = "sessions", !.docs = {}]
  /\ UNCHANGED <<storeVars, job, swept, cycle, vec, late, facts, clean, client,
                 search>>

TurnsUpsertFails ==
  /\ work.pc = "upsert"
  /\ FailedWrite(work.docs)
  /\ work' = [work EXCEPT !.pc = "probe"]
  /\ UNCHANGED <<storeVars, job, swept, cycle, facts, clean, client, search>>

\* vec_stats fails: backend trouble, clean up for the sessions that died.
ProbeFails ==
  /\ work.pc = "probe"
  /\ job' = RequeueDead(work.docs)
  /\ work' = [work EXCEPT !.pc = "sessions", !.docs = {}]
  /\ UNCHANGED <<storeVars, swept, cycle, vec, late, facts, clean, client, search>>

\* vec_stats answers: document by document, the rejected ones are `bad`.
DocByDoc(good) ==
  /\ work.pc = "probe" /\ good \subseteq work.docs
  /\ \E landed \in SUBSET (work.docs \ good),
        slow \in SUBSET (work.docs \ good) :
       /\ landed \cap slow = {}
       /\ Cardinality(late \cup slow) <= MaxLate
       /\ vec' = Upsert(vec, good \cup landed)
       /\ late' = late \cup slow
  /\ work' = [work EXCEPT !.pc = "mark", !.good = good]
  /\ UNCHANGED <<storeVars, job, swept, cycle, facts, clean, client, search>>

\* bump_attempts, set_embedded and requeue_dead in one with_db call.
TurnsMark ==
  /\ work.pc = "mark"
  /\ LET isGood(t) == \E d \in work.good : d.id = t
         isBad(t) == \E d \in work.docs \ work.good : d.id = t
     IN  turn' = [t \in Turns |->
           CASE t \in Rows /\ isGood(t) -> [turn[t] EXCEPT !.embedded = "yes"]
             [] t \in Rows /\ isBad(t)  ->
                  [turn[t] EXCEPT !.attempts = @ + 1,
                     !.embedded = IF turn[t].attempts + 1 >= MaxAttempts
                                  THEN "never" ELSE @]
             [] OTHER -> turn[t]]
  /\ job' = RequeueDead(work.docs)
  /\ work' = [work EXCEPT !.pc = "sessions", !.docs = {}, !.good = {}]
  /\ UNCHANGED <<inst, rev, sess, tomb, swept, cycle, vec, late, facts, clean, client,
                 search>>

SessionsRead ==
  /\ work.pc = "sessions"
  /\ LET pending == {s \in Sessions : /\ Live(s) /\ sess[s].sum > 0
                                      /\ sess[s].embedded < sess[s].summarized}
         sdocs == IF "embed" \in inst.parts
                  THEN {[doc |-> SessDoc(s, sess[s].sum),
                         rev |-> sess[s].summarized] : s \in pending} ELSE {}
     IN  work' = IF sdocs = {} THEN WorkIdle
                 ELSE [work EXCEPT !.pc = "supsert", !.sdocs = sdocs]
  /\ UNCHANGED <<storeVars, job, swept, cycle, vec, late, facts, clean, client,
                 search>>

SessionsUpsertOk ==
  /\ work.pc = "supsert"
  /\ vec' = Upsert(vec, {d.doc : d \in work.sdocs})
  /\ work' = [work EXCEPT !.pc = "smark"]
  /\ UNCHANGED <<storeVars, job, swept, cycle, late, facts, clean, client, search>>

\* A failed write of summaries ends the pass: nothing is requeued here.
SessionsUpsertFails ==
  /\ work.pc = "supsert"
  /\ FailedWrite({d.doc : d \in work.sdocs})
  /\ work' = WorkIdle
  /\ UNCHANGED <<storeVars, job, swept, cycle, facts, clean, client, search>>

SessionsMark ==
  /\ work.pc = "smark"
  /\ LET docOf(s) == {d \in work.sdocs : d.doc.id = s}
     IN  /\ sess' = [s \in Sessions |->
              IF docOf(s) # {} /\ Live(s)
              THEN [sess[s] EXCEPT !.embedded =
                      Most(@, (CHOOSE d \in docOf(s) : TRUE).rev)]
              ELSE sess[s]]
         /\ job' = [s \in Sessions |->
              IF docOf(s) # {} /\ ~ Live(s) THEN Requeue(s, {}) ELSE job[s]]
  /\ work' = WorkIdle
  /\ UNCHANGED <<inst, rev, turn, tomb, swept, cycle, vec, late, facts, clean, client,
                 search>>

\* External: a write whose caller has given up reaches vector-db.
LateLands(d) ==
  /\ d \in late
  /\ vec' = Upsert(vec, {d})
  /\ late' = late \ {d}
  /\ UNCHANGED <<storeVars, job, swept, cycle, facts, work, clean, client, search>>

-----------------------------------------------------------------------------
(* The cleanup lane, one pass at a time: cascade_pass, then sweep_pass.    *)

\* due_jobs: every queued job that is not waiting out a backoff, and the ones
\* whose backoff the clock says is over.
CleanBegin(over) ==
  /\ "cleanup" \in inst.parts
  /\ clean.pc = "idle"
  /\ over \subseteq {s \in Sessions : job[s].queued /\ job[s].wait}
  /\ LET due == {s \in Sessions : job[s].queued /\ ~ job[s].wait} \cup over
     IN  clean' = [CleanIdle EXCEPT
                    !.pc = IF due = {} THEN "sweep" ELSE "jobs",
                    !.jobs = {[id |-> s, job |-> job[s]] : s \in due}]
  /\ UNCHANGED <<storeVars, job, swept, cycle, vec, late, facts, work, client,
                 search>>

\* The calls of a job not yet done, per plugin, in the order of steps_of.
VecSteps(j) == ({<<"turns", t>> : t \in j.job.turns}
               \cup {<<"sessions", j.id>>}) \ j.job.done
\* MUTANT of AgentSteps: the facts are not forgotten.
AgentStepsGoals(j) ==
  (IF j.job.goals THEN {<<"goal", j.id>>} ELSE {}) \ j.job.done
AgentSteps(j) == ((IF j.job.goals THEN {<<"goal", j.id>>} ELSE {})
                 \cup {<<"fact", j.id>>}) \ j.job.done
\* The turns are deleted before the session, the goals before the facts.
InOrder(ok, steps, last) == last \in ok => ok = steps

Deleted(steps) == {v \in vec : <<v.coll, v.id>> \notin steps}

\* The calls of one job.  `broke` are the plugins that fail now, `cut` says the
\* pass ran out of its budget (never before its first call).
JobCalls(j, okV, okA, broke, cut) ==
  LET V == VecSteps(j)
      A == AgentSteps(j)
      down == clean.down \cup broke
      called == okV \cup okA # {} \/ broke # {}
  IN  /\ clean.pc = "jobs" /\ j \in clean.jobs
      /\ okV \subseteq V /\ InOrder(okV, V, <<"sessions", j.id>>)
      /\ okA \subseteq A /\ InOrder(okA, A, <<"fact", j.id>>)
      /\ "vector-db" \in clean.down => okV = {}
      /\ "agent" \in clean.down => okA = {}
      /\ broke \cap clean.down = {}
      /\ "vector-db" \in broke => okV # V
      /\ "agent" \in broke => okA # A
      /\ cut => /\ clean.calls \/ called
                /\ \/ okV # V /\ "vector-db" \notin down /\ okA = {}
                             /\ "agent" \notin broke
                   \/ okA # A /\ "agent" \notin down
      /\ ~ cut => /\ okV # V => "vector-db" \in down
                  /\ okA # A => "agent" \in down
      /\ \E hit \in SUBSET (V \ okV) :      \* a failed delete may have worked
           /\ Cardinality(hit) <= (IF "vector-db" \in broke THEN 1 ELSE 0)
           /\ vec' = Deleted(okV \cup hit)
      /\ \E listed \in SUBSET (IF <<"fact", j.id>> \in okA THEN {<<j.id, "stray">>} ELSE {}) :
           facts' = facts \ ({<<a[2], a[1]>> : a \in okA} \cup listed)
      /\ clean' = [clean EXCEPT
           !.pc = "save", !.jobs = @ \ {j}, !.cur = {j},
           !.done = j.job.done \cup okV \cup okA, !.down = down,
           !.calls = @ \/ called,
           !.failed = \/ okV # V /\ "vector-db" \in down
                      \/ okA # A /\ "agent" \in down]
      /\ UNCHANGED <<storeVars, job, swept, cycle, late, work, client, search>>

\* The rest of the due jobs is left for the next pass.
JobsCut ==
  /\ clean.pc = "jobs" /\ clean.calls
  /\ clean' = [clean EXCEPT !.pc = "sweep", !.jobs = {}]
  /\ UNCHANGED <<storeVars, job, swept, cycle, vec, late, facts, work, client,
                 search>>

NextJob == [clean EXCEPT !.pc = IF clean.jobs = {} THEN "sweep" ELSE "jobs",
                         !.cur = {}, !.done = {}, !.failed = FALSE]

\* Still the job that was read?
SameGen(j) == job[j.id].queued /\ job[j.id].gen = j.job.gen

\* save_progress: nothing if the job was requeued since it was read.
JobSave ==
  /\ clean.pc = "save"
  /\ \E j \in clean.cur :
       /\ ~ (VecSteps(j) \cup AgentSteps(j) \subseteq clean.done)
       /\ job' = IF SameGen(j)
                 THEN [job EXCEPT ![j.id].done = clean.done,
                                  ![j.id].wait = clean.failed]
                 ELSE job
  /\ clean' = NextJob
  /\ UNCHANGED <<storeVars, swept, cycle, vec, late, facts, work, client, search>>

\* MUTANT of SweptRow: a second cascade forgets the ids of the first.
SweptRowReplaced(j) == [NoRow EXCEPT !.kept = TRUE, !.turns = j.job.turns]
\* The row that remembers the vector ids for the sweep.
SweptRow(j) == [NoRow EXCEPT !.kept = TRUE,
                             !.turns = swept[j.id].turns \cup j.job.turns]

\* finish: the job and the session row go, the ids are kept for the sweep.
JobFinish ==
  /\ clean.pc = "save"
  /\ \E j \in clean.cur :
       /\ VecSteps(j) \cup AgentSteps(j) \subseteq clean.done
       /\ IF SameGen(j)
          THEN /\ job' = [job EXCEPT ![j.id] = NoJob]
               /\ sess' = [sess EXCEPT ![j.id].state = "gone"]
               /\ swept' = [swept EXCEPT ![j.id] = SweptRow(j)]
          ELSE UNCHANGED <<job, sess, swept>>
  /\ clean' = NextJob
  /\ UNCHANGED <<inst, rev, turn, tomb, cycle, vec, late, facts, work, client, search>>

\* Assumption on the clock: a row is kept for seven days, so by the time it
\* expires every late write has landed and was swept.
Expirable(s) ==
  /\ swept[s].kept
  /\ \A d \in late \cup vec : d.of # s
  /\ work.pc \in {"idle", "summary", "turns", "sessions"}

\* sweep_plan: prune, then continue, open or close a cycle and pick its rows.
SweepPlan(old, over, due) ==
  /\ clean.pc = "sweep"
  /\ old \subseteq {s \in Sessions : Expirable(s)}
  /\ LET rows0 == [s \in Sessions |-> IF s \in old THEN NoRow ELSE swept[s]]
         opened == [s \in Sessions |-> [rows0[s] EXCEPT !.stamped = FALSE,
                                                        !.wait = FALSE]]
         rows == IF cycle THEN rows0 ELSE opened
         todo == {s \in Sessions : /\ rows[s].kept /\ ~ rows[s].stamped
                                   /\ ~ rows[s].wait \/ s \in over}
     IN  IF ~ due            \* not a day since the last, or cycle out of time
         THEN swept' = rows0 /\ cycle' = FALSE /\ clean' = CleanIdle
         ELSE /\ over \subseteq {s \in Sessions : rows[s].kept /\ rows[s].wait}
              /\ swept' = rows
              /\ cycle' = \/ todo # {}
                          \/ \E s \in Sessions : rows[s].kept /\ ~ rows[s].stamped
              /\ clean' = IF todo = {} THEN CleanIdle
                          ELSE [CleanIdle EXCEPT !.pc = "rows",
                                  !.rows = {[id |-> s, turns |-> rows[s].turns] :
                                              s \in todo}]
  /\ UNCHANGED <<storeVars, job, vec, late, facts, work, client, search>>

RowSteps(r) == {<<"sessions", r.id>>} \cup {<<"turns", t>> : t \in r.turns}

\* The deletes of the rows: `ok` rows worked entirely, a failing row may have
\* lost some of its vectors; rows past the budget are not visited.
SweepCalls(ok, bad) ==
  /\ clean.pc = "rows" /\ ok \cup bad # {} /\ ok \cap bad = {}
  /\ ok \subseteq clean.rows /\ bad \subseteq clean.rows
  /\ \E part \in SUBSET UNION {RowSteps(r) : r \in bad} :
       vec' = Deleted(part \cup UNION {RowSteps(r) : r \in ok})
  /\ clean' = [clean EXCEPT !.pc = "stamp", !.rows = bad, !.swept = ok]
  /\ UNCHANGED <<storeVars, job, swept, cycle, late, facts, work, client, search>>

\* A row rewritten meanwhile (new late ids) is not stamped.
SweepSave ==
  /\ clean.pc = "stamp"
  /\ LET same(r) == swept[r.id].kept /\ swept[r.id].turns = r.turns
         okIds == {r.id : r \in {x \in clean.swept : same(x)}}
         badIds == {r.id : r \in {x \in clean.rows : same(x)}}
     IN  swept' = [s \in Sessions |->
           CASE s \in okIds -> [swept[s] EXCEPT !.stamped = TRUE]
             [] s \in badIds -> [swept[s] EXCEPT !.wait = TRUE]
             [] OTHER -> swept[s]]
  /\ clean' = CleanIdle
  /\ UNCHANGED <<storeVars, job, cycle, vec, late, facts, work, client, search>>

\* The process stops and starts again: the lanes and calls in flight are lost,
\* the files and what the other plugins received are not.
Crash ==
  /\ "crash" \in inst.parts
  /\ work # WorkIdle \/ clean # CleanIdle \/ search # SearchIdle
  /\ work' = WorkIdle /\ clean' = CleanIdle /\ search' = SearchIdle
  /\ LET sent == CASE work.pc = "upsert"  -> work.docs
                   [] work.pc = "supsert" -> {d.doc : d \in work.sdocs}
                   [] OTHER -> {}
     IN  FailedWrite(sent)
  /\ UNCHANGED <<storeVars, job, swept, cycle, facts, client>>

-----------------------------------------------------------------------------
(* chat_search and chat_recall.                                            *)

\* Both halves start at once: the text half reads live sessions (a recall has
\* none), the vector half asks vector-db, which may fail or time out.
SearchBegin(text, answered) ==
  /\ "search" \in inst.parts /\ search.pc = "idle"
  /\ search' = [pc |-> "filter", dead |-> {s \in Sessions : Dead(s)},
                fts |-> IF text THEN {s \in Sessions : Live(s)} ELSE {},
                cand |-> IF answered THEN {v.of : v \in vec} ELSE {},
                hits |-> {}]
  /\ UNCHANGED <<storeVars, job, swept, cycle, vec, late, facts, work, clean,
                 client>>

\* live_hit: a vector counts only while its session is live.
LiveHits == {s \in search.cand : Live(s)}

SearchAnswer ==
  /\ search.pc = "filter"
  /\ search' = [search EXCEPT !.pc = "answered", !.fts = {}, !.cand = {},
                               !.hits = search.fts \cup LiveHits]
  /\ UNCHANGED <<storeVars, job, swept, cycle, vec, late, facts, work, clean,
                 client>>
SearchReturn ==
  /\ search.pc = "answered"
  /\ search' = SearchIdle
  /\ UNCHANGED <<storeVars, job, swept, cycle, vec, late, facts, work, clean,
                 client>>

-----------------------------------------------------------------------------
StoreNext ==
  \/ \E s \in Sessions : Resolve(s) \/ Update(s) \/ Delete(s)
  \/ \E s \in Sessions, t \in Turns : Append(s, t)
AgentNext == \E s \in Sessions : GoalStarts(s) \/ FactsStored(s)
SyncNext == \E limit \in PageLimits : SyncPage(limit)
WorkNext ==
  \/ \E idle \in SUBSET Candidates : WorkBegin(idle)
  \/ \E c \in work.cands : Summarized(c) \/ \E m \in BOOLEAN : SummaryFailed(c, m)
  \/ TurnsRead \/ TurnsUpsertOk \/ TurnsUpsertMissing \/ TurnsUpsertFails
  \/ ProbeFails \/ (\E good \in SUBSET work.docs : DocByDoc(good)) \/ TurnsMark
  \/ SessionsRead \/ SessionsUpsertOk \/ SessionsUpsertFails \/ SessionsMark
CleanNext ==
  \/ \E over \in SUBSET Sessions : CleanBegin(over)
  \/ \E j \in clean.jobs :
       \E okV \in SUBSET VecSteps(j), okA \in SUBSET AgentSteps(j),
          broke \in SUBSET {"vector-db", "agent"}, cut \in BOOLEAN :
            JobCalls(j, okV, okA, broke, cut)
  \/ JobsCut \/ JobSave \/ JobFinish
  \/ \E old \in SUBSET Sessions, over \in SUBSET Sessions, due \in BOOLEAN :
       SweepPlan(old, over, due)
  \/ \E ok, bad \in SUBSET clean.rows : SweepCalls(ok, bad)
  \/ SweepSave
SearchNext ==
  \/ \E text, answered \in BOOLEAN : SearchBegin(text, answered)
  \/ SearchAnswer \/ SearchReturn
Next == \/ StoreNext \/ AgentNext \/ SyncNext \/ WorkNext \/ CleanNext \/ SearchNext
        \/ (\E d \in late : LateLands(d)) \/ Crash

Spec == Init /\ [][Next]_vars

-----------------------------------------------------------------------------
(* Properties.                                                             *)

\* Every variable is in its type: the columns of the tables (schema.rs), the
\* documents the worker writes, and the lanes' positions.
TypeOK ==
  /\ rev \in 0..inst.maxRev
  /\ sess \in [Sessions ->
       [state : {"none", "live", "deleting", "gone"}, rev : 0..inst.maxRev,
        turns : 0..Cardinality(Turns), title : {"", "auto", "manual"},
        sum : 0..Cardinality(Turns), seen : 0..Cardinality(Turns),
        summarized : 0..inst.maxRev, embedded : 0..inst.maxRev]]
  /\ \A t \in Turns : /\ turn[t].of \in Sessions \cup {"none", "gone"}
                       /\ turn[t].embedded \in {"no", "yes", "never"}
                       /\ turn[t].attempts <= MaxAttempts
  /\ \A s \in Sessions : tomb[s] > 0 <=> Dead(s)
  /\ \A s \in Sessions : job[s].queued => Dead(s)
  /\ Cardinality(late) <= MaxLate
  /\ \A s \in Sessions : sess[s].embedded <= sess[s].summarized
                          /\ sess[s].summarized <= sess[s].rev

\* A client that pages through chat_sync while sessions are created, written,
\* renamed, summarized and deleted holds exactly the live state once a page
\* says there is no more (sync.rs: no revision group is split, every synced
\* change issues a revision, deletes are tombstones).
ClientIsExact ==
  client.rest =>
    /\ client.sess = [s \in {x \in Sessions : Live(x)} |-> SessionBody(s)]
    /\ client.turns = {TurnBody(t) : t \in Rows}

\* A session that is no longer a candidate for the summarizer was last
\* processed with every turn it has: a turn that arrives while ai is working
\* is never marked as summarized (summary.rs apply).
SummaryCoversTurns ==
  \A s \in Sessions :
    Live(s) /\ sess[s].turns > 0 /\ sess[s].summarized = sess[s].rev
      => sess[s].seen = sess[s].turns

\* The vector ids something will still delete for dead session s.
Tracked(s) == {<<"turns", t>> : t \in job[s].turns \cup swept[s].turns}
              \cup (IF job[s].queued \/ swept[s].kept
                    THEN {<<"sessions", s>>} ELSE {})
\* The ids the work lane will requeue, should their session have died.
InFlight == IF work.pc \in {"probe", "mark"}
            THEN {<<"turns", d.id>> : d \in work.docs}
            ELSE IF work.pc = "smark"
                 THEN {<<"sessions", d.doc.id>> : d \in work.sdocs} ELSE {}

\* No vector of a deleted session is ever forgotten by everyone: a cascade job
\* or the sweep's row lists it, or the work lane is about to requeue it, however
\* deletes, slow writes, requeues, cascades and crashes interleave.
NothingLeaks ==
  \A v \in vec : Dead(v.of) => <<v.coll, v.id>> \in Tracked(v.of) \cup InFlight

\* What chat_delete knew of, the goals that turns name and the facts listed under
\* the session, has a cascade job for as long as the agent keeps it: the job ends
\* only when each of its steps worked (cascade.rs: fail closed).  A goal that was
\* still running at the delete, and facts stored after it, have no job.
FactsHaveJob ==
  \A s \in Sessions : Dead(s) /\ (\E k \in {"goal", "fact"} : <<s, k>> \in facts)
    => job[s].queued

\* A search or recall that began after a session was deleted never shows it,
\* although its vectors may still be in vector-db (service.rs live_hit).
SearchHidesDeleted ==
  search.pc = "answered" => search.hits \cap search.dead = {}

\* The stored sessions are well formed, no turn is left out of a summary, what is
\* left of a deleted session is known to a job and shown to nobody, and a client
\* at rest holds the live state (store.rs, summary.rs, cascade.rs, service.rs,
\* sync.rs).
ChatsInv == /\ TypeOK /\ SummaryCoversTurns
            /\ FactsHaveJob /\ SearchHidesDeleted
            /\ ClientIsExact

\* Once chat_delete returned, the session's vectors, the goals its turns named and
\* the facts listed under it eventually go and stay away, provided the other
\* plugins answer now and then (cascade, sweep).  Not so what the agent had not
\* finished: a goal that runs at the delete is named by no turn (store.rs:473-480)
\* and facts stored after memory_forget_session ran (memory.rs:176-239) stay.
DeletedIsForgotten ==
  \A s \in Sessions :
    [](tomb[s] > 0 => <>[]( /\ \A v \in vec : v.of # s
                            /\ \A k \in {"goal", "fact"} : <<s, k>> \notin facts))
=============================================================================
