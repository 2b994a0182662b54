------------------------------- MODULE Accounts -------------------------------
(* What goes out in the user's name: telegram, mail, search, weather, github. *)
(* The parts share no state; each has its own initial states and steps.     *)
EXTENDS Integers, Sequences, FiniteSets, SequencesExt

-----------------------------------------------------------------------------
(* telegram: every request runs in a task of its own against the accounts    *)
(* the process connected at start.  One antiban gate per account, a dialogs  *)
(* cache, one update listener, and the serve loop that both fills and drains *)
(* the bounded outbound queue.                                               *)

CONSTANTS Accounts,    \* the configured accounts, a sequence
          Unknown,     \* an account name no session exists for
          Callers,     \* tasks that may run at once
          Capacity,    \* BUCKET_CAPACITY; one token a tick comes back
          Threshold,   \* CIRCUIT_OPEN_THRESHOLD
          Cooldown,    \* CIRCUIT_COOLDOWN in ticks
          Ttl,         \* DIALOG_CACHE_TTL in ticks
          MaxErrors,   \* MAX_CONSECUTIVE_ERRORS
          QueueCap,    \* capacity of the outbound and of the event channel
          MaxTime, MaxRequests
VARIABLES pool,      \* up: config.pool is Some; clients: sessions open; left: to connect
          ttask,     \* the request tasks
          antiban,   \* per account: bucket, streak, breaker (and what happened, for the properties)
          dialogs,   \* per account: the cached list
          sends,     \* per account: tg_send_message / tg_mark_read that completed
          outbound,  \* envelopes queued for the kernel
          updates, loop, listener, clock, requests

telegramVars == <<pool, ttask, antiban, dialogs, sends, outbound, updates, loop, listener,
                  clock, requests>>
Names == ToSet(Accounts) \cup {Unknown}
NoDialogs == [at |-> 0, epoch |-> 0, held |-> FALSE]   \* epoch: sends when it was cached
Idle == [pc |-> "idle", account |-> Unknown, calls |-> <<>>, drop |-> FALSE, event |-> FALSE,
         ok |-> FALSE]
Account0 == [tokens |-> Capacity, last |-> 0, streak |-> 0, open |-> FALSE, at |-> 0,
             admitted |-> 0]
TelegramInit == /\ pool = [up |-> FALSE, clients |-> {}, left |-> Accounts]
                /\ ttask = [c \in Callers |-> Idle] /\ antiban = [a \in Names |-> Account0]
                /\ dialogs = [a \in Names |-> NoDialogs] /\ sends = [a \in Names |-> 0]
                /\ outbound = 0 /\ updates = 0 /\ loop = "boot" /\ listener = 0
                /\ clock = 0 /\ requests = 0

\* connect_all: the first failure gives up every account
GiveUp == [up |-> FALSE, clients |-> {}, left |-> <<>>]
\* SessionPool::connect, account by account
Connect(ok) ==
  /\ loop = "boot" /\ pool.left # <<>>
  /\ pool' = IF ok THEN [up |-> Len(pool.left) = 1, left |-> Tail(pool.left),
                         clients |-> pool.clients \cup {Head(pool.left)}]
             ELSE GiveUp
  /\ UNCHANGED <<ttask, antiban, dialogs, sends, outbound, updates, loop, listener, clock,
                 requests>>
\* main registers whether or not the accounts connected
Serve == /\ loop = "boot" /\ pool.left = <<>> /\ loop' = "run"
         /\ UNCHANGED <<pool, ttask, antiban, dialogs, sends, outbound, updates, listener,
                        clock, requests>>

\* What each handler asks of Telegram, in order, after its parameters parsed
\* and its account passed the gate.  "call" fails the request when it fails,
\* "ignored" and "collected" do not, "peer" may need a call, "dialogs" goes
\* through the cache.
Plan(calls, drop, event) == [calls |-> calls, drop |-> drop, event |-> event]
Asks(calls) == {Plan(calls, FALSE, FALSE)}
ListDialogs == Asks(<<"dialogs">>)
GetHistory == Asks(<<"peer", "call">>)
GetMessage == Asks(<<"peer", "call">>)
SearchMessages == Asks(<<"call">>)
\* emulate_typing stops at its first error and tells nobody
Typing == "ignored"
SendMessage == {Plan(<<"peer", "call">>, TRUE, TRUE),
                Plan(<<"peer", Typing, "call">>, TRUE, TRUE)}
EditMessage == Asks(<<"peer", "call">>)
DeleteMessage == Asks(<<"peer", "call">>)
ForwardMessage == Asks(<<"peer", "peer", "call">>)
AddReaction == Asks(<<"peer", "call">>)
PinMessage == Asks(<<"peer", "call">>)
UploadMedia == Asks(<<"peer", "call", "call">>)
DownloadMedia == Asks(<<"peer", "call">>) \cup Asks(<<"peer", "call", "call">>)
TranscribeVoice == Asks(<<"peer", "call">>) \cup Asks(<<"peer", "call", "call">>)
DeleteMessages == Asks(<<"peer", "call">>)
ForwardMessages == Asks(<<"peer", "peer", "call">>)
SendVoice == Asks(<<"peer", "call", "call">>)
SendSticker == Asks(<<"peer", "call", "call">>)
SendAnimation == Asks(<<"peer", "call", "call">>)
GetChatInfo == Asks(<<"peer", "dialogs">>)
GetUser == Asks(<<"peer", "dialogs">>)
ListContacts == Asks(<<"dialogs">>)
GetContact == Asks(<<"peer", "dialogs">>)
ListUnread == Asks(<<"dialogs">>) \cup Asks(<<"dialogs", "call">>)
MarkRead == {Plan(<<"peer", "call">>, TRUE, FALSE), Plan(<<"dialogs">>, TRUE, FALSE),
             Plan(<<"dialogs", "collected">>, TRUE, FALSE)}
SendAction == Asks(<<"peer", "call">>) \cup Asks(<<"peer", "call", "call">>)
Handlers == UNION {ListDialogs, GetHistory, GetMessage, SearchMessages, SendMessage,
              EditMessage, DeleteMessage, ForwardMessage, AddReaction, PinMessage,
              UploadMedia, DownloadMedia, TranscribeVoice, DeleteMessages, ForwardMessages,
              SendVoice, SendSticker, SendAnimation, GetChatInfo, GetUser, ListContacts,
              GetContact, ListUnread, MarkRead, SendAction}

At(c, pc) == loop # "exited" /\ ttask[c].pc = pc
Set(c, r) == ttask' = [ttask EXCEPT ![c] = r]
Answer(c, ok) == Set(c, [ttask[c] EXCEPT !.pc = "reply", !.ok = ok, !.calls = <<>>,
                                         !.event = @ /\ ok])
\* telegram_status asks nobody; a bad parameter or an unknown action is refused
Status(c) == Set(c, [Idle EXCEPT !.pc = "reply", !.ok = TRUE])
Refuse(c) == Set(c, [Idle EXCEPT !.pc = "reply"])
\* an ActionRequest: answered at once, or on its way to the gate
Request(c) ==
  /\ loop = "run" /\ ttask[c].pc = "idle" /\ requests < MaxRequests
  /\ requests' = requests + 1
  /\ \/ Status(c) \/ Refuse(c)
     \/ \E a \in Names, p \in Handlers :
          Set(c, [Idle EXCEPT !.pc = "gate", !.account = a, !.calls = p.calls,
                              !.drop = p.drop, !.event = p.event])
  /\ UNCHANGED <<pool, antiban, dialogs, sends, outbound, updates, loop, listener, clock>>

\* TokenBucket::refill
Refill(b) == IF b.tokens + (clock - b.last) > Capacity THEN Capacity
             ELSE b.tokens + (clock - b.last)
GetClient(a) == a \in pool.clients
\* Antiban::check, one pass of its loop; it sleeps while no token is there
Gate(c) ==
  LET a == ttask[c].account
      b == antiban[a]
      cooled == b.open /\ clock - b.at >= Cooldown
  IN /\ At(c, "gate")
     /\ \/ /\ ~pool.up \/ (b.open /\ ~cooled)
           /\ Answer(c, FALSE) /\ UNCHANGED antiban
        \/ /\ pool.up /\ (b.open => cooled) /\ Refill(b) >= 1
           /\ antiban' = [antiban EXCEPT ![a] = [tokens |-> Refill(b) - 1, last |-> clock,
                            streak |-> 0, open |-> FALSE, at |-> 0,
                            admitted |-> b.admitted + 1]]
           /\ IF GetClient(a) THEN Set(c, [ttask[c] EXCEPT !.pc = "calls"])
              ELSE Answer(c, FALSE)
     /\ UNCHANGED <<pool, dialogs, sends, outbound, updates, loop, listener, clock, requests>>

Fresh(a) == dialogs[a].held /\ clock - dialogs[a].at < Ttl
Advance(c) == Set(c, [ttask[c] EXCEPT !.calls = Tail(@)])
\* a step that needs no call: a peer that parses, a cached list
Local(c) ==
  /\ At(c, "calls") /\ ttask[c].calls # <<>>
  /\ \/ Head(ttask[c].calls) = "peer" /\ (Advance(c) \/ Answer(c, FALSE))
     \/ Head(ttask[c].calls) = "dialogs" /\ Fresh(ttask[c].account) /\ Advance(c)
  /\ UNCHANGED <<pool, antiban, dialogs, sends, outbound, updates, loop, listener, clock,
                 requests>>
Stays == UNCHANGED <<pool, antiban, sends, outbound, updates, loop, listener, clock, requests>>
\* a call of Telegram other than a page of dialogs
CallSucceeds(c) ==
  /\ At(c, "calls") /\ ttask[c].calls # <<>> /\ Head(ttask[c].calls) # "dialogs"
  /\ Advance(c) /\ Stays /\ UNCHANGED dialogs
\* no list young enough is cached: the pages are fetched, each awaited and no
\* lock held, and only then the list is cached, whatever was dropped meanwhile
FetchDialogs(c) ==
  /\ At(c, "calls") /\ ttask[c].calls # <<>> /\ Head(ttask[c].calls) = "dialogs"
  /\ ~Fresh(ttask[c].account)
  /\ Set(c, [ttask[c] EXCEPT !.pc = "fetch"]) /\ Stays /\ UNCHANGED dialogs
DialogsIn(c) ==
  LET a == ttask[c].account IN
  /\ At(c, "fetch") /\ Set(c, [ttask[c] EXCEPT !.pc = "calls", !.calls = Tail(@)]) /\ Stays
  /\ dialogs' = [dialogs EXCEPT ![a] = [at |-> clock, epoch |-> sends[a], held |-> TRUE]]
\* a failed call; only an error that fails the request is searched for FLOOD_WAIT
CallFails(c, flood) ==
  /\ \/ At(c, "fetch")
     \/ At(c, "calls") /\ ttask[c].calls # <<>> /\ Head(ttask[c].calls) # "dialogs"
  /\ IF Head(ttask[c].calls) \in {"ignored", "collected"} THEN Advance(c)
     ELSE IF flood THEN Set(c, [ttask[c] EXCEPT !.pc = "flood"])
     ELSE Answer(c, FALSE)
  /\ Stays /\ UNCHANGED dialogs
\* on_flood_wait: after its sleep the streak grows and may open the breaker
FloodRecorded(c) ==
  LET a == ttask[c].account
      n == antiban[a].streak + 1
  IN /\ At(c, "flood") /\ Answer(c, FALSE)
     /\ antiban' = [antiban EXCEPT ![a] = [@ EXCEPT !.streak = n,
                      !.open = @ \/ n >= Threshold,
                      !.at = IF n >= Threshold THEN clock ELSE @]]
     /\ UNCHANGED <<pool, dialogs, sends, outbound, updates, loop, listener, clock, requests>>
\* the handler's tail: the dialogs cache is dropped, then the reply
FinishKeepsCache(c) ==
  /\ At(c, "calls") /\ ttask[c].calls = <<>> /\ Answer(c, TRUE)
  /\ IF ttask[c].drop
     THEN sends' = [sends EXCEPT ![ttask[c].account] = @ + 1] /\ UNCHANGED dialogs
     ELSE UNCHANGED <<sends, dialogs>>
  /\ UNCHANGED <<pool, antiban, outbound, updates, loop, listener, clock, requests>>
Finish(c) ==
  LET a == ttask[c].account IN
  /\ At(c, "calls") /\ ttask[c].calls = <<>> /\ Answer(c, TRUE)
  /\ IF ttask[c].drop
     THEN /\ sends' = [sends EXCEPT ![a] = @ + 1]
          /\ dialogs' = [dialogs EXCEPT ![a] = NoDialogs]
     ELSE UNCHANGED <<sends, dialogs>>
  /\ UNCHANGED <<pool, antiban, outbound, updates, loop, listener, clock, requests>>

\* the task's sends wait for room in the outbound channel: reply, then event
Reply(c) ==
  /\ At(c, "reply") /\ outbound < QueueCap
  /\ outbound' = outbound + 1
  /\ Set(c, IF ttask[c].event THEN [ttask[c] EXCEPT !.pc = "event"] ELSE Idle)
  /\ UNCHANGED <<pool, antiban, dialogs, sends, updates, loop, listener, clock, requests>>
Publish(c) ==
  /\ At(c, "event") /\ outbound < QueueCap
  /\ outbound' = outbound + 1 /\ Set(c, Idle)
  /\ UNCHANGED <<pool, antiban, dialogs, sends, updates, loop, listener, clock, requests>>
\* the loop sends what is queued; an update is queued by the loop itself, which
\* then waits for room that only the loop could make
Drain == /\ loop = "run" /\ outbound > 0 /\ outbound' = outbound - 1
         /\ UNCHANGED <<pool, ttask, antiban, dialogs, sends, updates, loop, listener, clock,
                        requests>>
Forward == /\ loop = "run" /\ updates > 0 /\ updates' = updates - 1
           /\ IF outbound < QueueCap
              THEN outbound' = outbound + 1 /\ UNCHANGED loop
              ELSE loop' = "stuck" /\ UNCHANGED outbound
           /\ UNCHANGED <<pool, ttask, antiban, dialogs, sends, listener, clock, requests>>
Shutdown == /\ loop = "run" /\ loop' = "exited"
            /\ UNCHANGED <<pool, ttask, antiban, dialogs, sends, outbound, updates, listener,
                           clock, requests>>
\* spawn_live_listener: an incoming message is published, any other update is
\* dropped; too many errors in a row end the process
Update(mine) ==
  /\ loop \in {"run", "stuck"} /\ pool.up /\ updates < QueueCap
  /\ listener' = 0 /\ updates' = IF mine THEN updates ELSE updates + 1
  /\ UNCHANGED <<pool, ttask, antiban, dialogs, sends, outbound, loop, clock, requests>>
UpdateError ==
  /\ loop \in {"run", "stuck"} /\ pool.up /\ listener' = listener + 1
  /\ loop' = IF listener + 1 >= MaxErrors THEN "exited" ELSE loop
  /\ UNCHANGED <<pool, ttask, antiban, dialogs, sends, outbound, updates, clock, requests>>
Tick == /\ loop \in {"run", "stuck"} /\ clock < MaxTime /\ clock' = clock + 1
        /\ UNCHANGED <<pool, ttask, antiban, dialogs, sends, outbound, updates, loop, listener,
                       requests>>

TelegramNext == \/ \E ok \in BOOLEAN : Connect(ok) \/ Update(ok)
                \/ Serve \/ Drain \/ Forward \/ Shutdown \/ UpdateError \/ Tick
                \/ \E c \in Callers : \/ Request(c) \/ Gate(c) \/ Local(c) \/ CallSucceeds(c)
                                      \/ FetchDialogs(c) \/ DialogsIn(c) \/ CallFails(c, TRUE) \/ CallFails(c, FALSE)
                                      \/ FloodRecorded(c) \/ Finish(c) \/ Reply(c) \/ Publish(c)
TelegramSpec == TelegramInit /\ [][TelegramNext]_telegramVars
-----------------------------------------------------------------------------
(* What a run of requests may never leave behind.  The gate admits at most a *)
(* full bucket plus one request a tick however the tasks interleave; the     *)
(* breaker is open exactly while its streak stands; a dialogs list cached    *)
(* before a completed send or mark-read is gone after it (one whose fetch    *)
(* was under way then is cached later, and may be older than the send for as *)
(* long as it is fresh); and a task talks to Telegram only through a pool    *)
(* all of whose accounts connected.                                          *)
TelegramInv ==
  /\ \A a \in Names : /\ antiban[a].admitted <= Capacity + clock
                      /\ antiban[a].open <=> antiban[a].streak >= Threshold
                      /\ dialogs[a].held => dialogs[a].epoch = sends[a]
  /\ pool.up => pool.clients = ToSet(Accounts)
  /\ \A c \in Callers : ttask[c].pc \in {"calls", "fetch", "flood"} => pool.up

-----------------------------------------------------------------------------
(* email, search and weather, plugins that serve one request at a time from  *)
(* the connection they also make their own calls on.  A credential is looked *)
(* up in the secrets vault and then in the environment; mail goes out over   *)
(* SMTP with retries, search and weather ask the network plugin.  github     *)
(* looks its token up the same way but serves every request in a task of its *)
(* own, which shares only the vault with the others.                         *)

CONSTANTS Handles, Allowed, EnvSet,  \* credential names; the allowlist; those set in the environment
          GhList,                    \* github's allowlist
          Home,                      \* the operator's location, <<lat, lon>> or <<>>
          Places,                    \* what a weather request may give: [lat, lon], None for nothing
          Mails, Limit,              \* sequence numbers a mailbox may hold, email_list's limit
          Stub,                      \* EMAIL_PLUGIN_SMTP_STUB
          MaxAttempts                \* RETRY_MAX_ATTEMPTS, 3 in the code
VARIABLES queue,       \* requests on the connection, by number
          asked,       \* request number -> [kind, handle, place]
          cur,         \* the request served: [id, stage, attempt, cred]
          vault,       \* credential names with a value in the vault
          served,      \* request number -> "", "ok", "error", "dropped"
          delivered,   \* request number -> times the mail was accepted
          broken,      \* requests whose SMTP connection broke
          used,        \* request number -> [from, handle] of the credential that went out
          queried,     \* request number -> the place asked for
          listed,      \* what email_list has answered: [box, seqs]
          gh           \* a gh_ request: [op, handle, stage, issues, answer]
outboundVars == <<queue, asked, cur, vault, served, delivered, broken, used, queried, listed, gh>>

NotGiven == 99
Nowhere == [lat |-> NotGiven, lon |-> NotGiven]
\* what the parsers tell apart: a request they refuse has no handle, and so none
\* that is allowed
SendParams == {[kind |-> "send", handle |-> h, place |-> Nowhere] : h \in Handles \cup {""}}
ListParams == {[kind |-> "list", handle |-> h, place |-> Nowhere] : h \in Handles \cup {""}}
SearchParams == {[kind |-> "search", handle |-> h, place |-> Nowhere] : h \in Handles \cup {""}}
WeatherParams == {[kind |-> "weather", handle |-> "", place |-> p] : p \in Places}
Rest == [id |-> 0, stage |-> "recv", attempt |-> 1, cred |-> ""]
Me == asked[cur.id]
NoCall == [op |-> "", handle |-> "", stage |-> "idle", issues |-> 0, answer |-> ""]
OutboundInit == /\ queue = <<>> /\ asked = <<>> /\ cur = Rest /\ vault \in SUBSET Handles /\ served = <<>>
                /\ delivered = <<>> /\ broken = {} /\ used = <<>> /\ queried = <<>> /\ listed = {} /\ gh = NoCall
-----------------------------------------------------------------------------
\* resolve_lat_lon: both from the caller, or both the operator's; validate_lat_lon
Located(p) ==
  LET loc == IF p.lat = NotGiven /\ p.lon = NotGiven THEN Home
             ELSE IF p.lat = NotGiven \/ p.lon = NotGiven THEN <<>> ELSE <<p.lat, p.lon>>
  IN IF loc # <<>> /\ loc[1] \in -90..90 /\ loc[2] \in -180..180 THEN loc ELSE <<>>
\* fetch_via_imap_sync: the highest sequence numbers of SEARCH ALL
Newest(box) == {n \in box : Cardinality({m \in box : m > n}) < Limit}

\* a frame the kernel sends: while send_action waits for its answer every other
\* frame it reads is discarded
Arrive(r) ==
  /\ Len(asked) < MaxRequests /\ asked' = Append(asked, r)
  /\ delivered' = Append(delivered, 0) /\ used' = Append(used, [from |-> "", handle |-> ""]) /\ queried' = Append(queried, <<>>)
  /\ IF cur.stage \in {"vault", "http"} THEN served' = Append(served, "dropped") /\ UNCHANGED queue
     ELSE served' = Append(served, "") /\ queue' = Append(queue, Len(asked'))
  /\ UNCHANGED <<cur, vault, broken, listed, gh>>
\* the operator sets or deletes a secret
VaultChange(h) ==
  /\ vault' = (vault \ {h}) \cup ({h} \ vault)
  /\ UNCHANGED <<queue, asked, cur, served, delivered, broken, used, queried, listed, gh>>
Respond(a) == cur' = Rest /\ served' = [served EXCEPT ![cur.id] = a]
\* serve and handle_action_request, one frame at a time: a credential outside the
\* allowlist is refused
Start(ok, r, stage) ==
  /\ cur.stage = "recv" /\ queue' = Tail(queue)
  /\ IF ok THEN cur' = [Rest EXCEPT !.id = Head(queue), !.stage = stage] /\ UNCHANGED served
     ELSE served' = [served EXCEPT ![Head(queue)] = "error"] /\ UNCHANGED cur
  /\ UNCHANGED <<asked, vault, delivered, broken, used, listed, gh>>
Take ==
  /\ queue # <<>> /\ asked[Head(queue)].kind # "weather"
  /\ Start(asked[Head(queue)].handle \in Allowed, asked[Head(queue)], "vault") /\ UNCHANGED queried
TakeWeather ==
  /\ queue # <<>> /\ asked[Head(queue)].kind = "weather"
  /\ LET loc == Located(asked[Head(queue)].place) IN
     Start(loc # <<>>, asked[Head(queue)], "http") /\ queried' = [queried EXCEPT ![Head(queue)] = loc]
\* resolve_secret: the vault's non-empty value; after any other answer, or none,
\* the environment's
Credential(answered) ==
  IF answered /\ Me.handle \in vault THEN "vault" ELSE IF Me.handle \in EnvSet THEN "env" ELSE ""
Use(from, stage) ==
  IF from = "" THEN Respond("error") /\ UNCHANGED used
  ELSE /\ cur' = [cur EXCEPT !.stage = stage, !.cred = from] /\ UNCHANGED served
       /\ used' = [used EXCEPT ![cur.id] = [from |-> from, handle |-> Me.handle]]
ResolveKey(answered) ==
  /\ cur.stage = "vault" /\ Me.kind = "search" /\ Use(Credential(answered), "http")
  /\ UNCHANGED <<queue, asked, vault, delivered, broken, queried, listed, gh>>
\* the stub answers once the password is found, without sending anything
ResolvePassword(answered) ==
  /\ cur.stage = "vault" /\ Me.kind # "search"
  /\ IF Stub /\ Credential(answered) # "" THEN Respond("ok") /\ UNCHANGED used
     ELSE Use(Credential(answered), IF Me.kind = "list" THEN "imap" ELSE "smtp")
  /\ UNCHANGED <<queue, asked, vault, delivered, broken, queried, listed, gh>>
\* build_message: an address or attachment the parser let through is refused
BuildFails ==
  /\ cur.stage = "smtp" /\ cur.attempt = 1 /\ Respond("error")
  /\ UNCHANGED <<queue, asked, vault, delivered, broken, used, queried, listed, gh>>
\* handle_email_send: one attempt and what the server says; a broken connection
\* may hide that the mail was accepted
RetryAll(answer) == cur.attempt < MaxAttempts
Retries(answer) == answer = "transient" /\ cur.attempt < MaxAttempts
Attempt(answer, taken) ==
  /\ cur.stage = "smtp" /\ (taken => answer \in {"ok", "broken"}) /\ (answer = "ok" => taken)
  /\ delivered' = IF taken THEN [delivered EXCEPT ![cur.id] = @ + 1] ELSE delivered
  /\ broken' = IF answer = "broken" THEN broken \cup {cur.id} ELSE broken
  /\ IF answer = "ok" THEN Respond("ok")
     ELSE IF Retries(answer) THEN cur' = [cur EXCEPT !.attempt = @ + 1] /\ UNCHANGED served
     ELSE Respond("error")
  /\ UNCHANGED <<queue, asked, vault, used, queried, listed, gh>>
\* handle_email_list: SELECT, SEARCH ALL, FETCH; any step may fail
List(box) ==
  /\ cur.stage = "imap" /\ Respond("ok") /\ listed' = listed \cup {[box |-> box, seqs |-> Newest(box)]}
  /\ UNCHANGED <<queue, asked, vault, delivered, broken, used, queried, gh>>
ListFails ==
  /\ cur.stage = "imap" /\ Respond("error")
  /\ UNCHANGED <<queue, asked, vault, delivered, broken, used, queried, listed, gh>>
\* an answer of the network plugin with a 2xx status, or an error
Search(a) ==
  /\ cur.stage = "http" /\ Me.kind = "search" /\ Respond(a)
  /\ UNCHANGED <<queue, asked, vault, delivered, broken, used, queried, listed, gh>>
Fetch(a) ==
  /\ cur.stage = "http" /\ Me.kind = "weather" /\ Respond(a)
  /\ UNCHANGED <<queue, asked, vault, delivered, broken, used, queried, listed, gh>>
\* github: an empty allowlist allows every name; GITHUB_TOKEN is the default
GhAllowed(h) == GhList = {} \/ h \in GhList
\* parse_request refuses what is malformed; then the allowlist is asked
GhStart(op, h) ==
  /\ gh.stage = "idle" /\ gh.answer = ""
  /\ gh' = IF op = "bad" \/ ~GhAllowed(h) THEN [NoCall EXCEPT !.op = op, !.answer = "error"]
           ELSE [NoCall EXCEPT !.op = op, !.handle = h, !.stage = "vault"]
  /\ UNCHANGED <<queue, asked, cur, vault, served, delivered, broken, used, queried, listed>>
\* resolve_pat: the vault, then the environment
GhToken(answered) ==
  /\ gh.stage = "vault"
  /\ gh' = IF (answered /\ gh.handle \in vault) \/ gh.handle \in EnvSet THEN [gh EXCEPT !.stage = "http"]
           ELSE [gh EXCEPT !.stage = "idle", !.answer = "error"]
  /\ UNCHANGED <<queue, asked, cur, vault, served, delivered, broken, used, queried, listed>>
\* github_get and github_post: one call, never repeated; an answer that is late,
\* not 2xx or not JSON is an error, the issue may exist all the same
GhCall(a) ==
  /\ gh.stage = "http"
  /\ gh' = [gh EXCEPT !.stage = "idle", !.issues = IF gh.op = "create" /\ a # "refused" THEN @ + 1 ELSE @,
                     !.answer = IF a = "ok" THEN "ok" ELSE "error"]
  /\ UNCHANGED <<queue, asked, cur, vault, served, delivered, broken, used, queried, listed>>

OutboundNext == \/ \E r \in SendParams \cup ListParams \cup SearchParams \cup WeatherParams : Arrive(r)
                \/ \E h \in Handles : VaultChange(h)
                \/ Take \/ TakeWeather \/ BuildFails
                \/ \E b \in BOOLEAN : ResolveKey(b) \/ ResolvePassword(b)
                \/ \E a \in {"ok", "transient", "permanent", "broken"}, b \in BOOLEAN : Attempt(a, b)
                \/ \E box \in SUBSET Mails : List(box)
                \/ ListFails
                \/ \E a \in {"ok", "error"} : Search(a) \/ Fetch(a)
                \/ \E op \in {"list", "create", "bad"}, h \in Handles : GhStart(op, h)
                \/ \E b \in BOOLEAN : GhToken(b)
                \/ \E a \in {"ok", "late", "refused"} : GhCall(a)
OutboundSpec == OutboundInit /\ [][OutboundNext]_outboundVars
-----------------------------------------------------------------------------
(* The loop that serves these plugins reads frames only between requests and  *)
(* while it waits for an answer of its own, and a mail may be sent three      *)
(* times.  Every request is waiting, being served, answered once or among     *)
(* those read during a call; a mail is accepted at most once per request,     *)
(* answered "ok" exactly when it was, and refused after it was only when the  *)
(* connection broke; no credential outside the allowlist goes out; a weather  *)
(* query never takes one coordinate from the caller and the other from the    *)
(* operator; a mailbox listing holds the newest mails; and an issue reported  *)
(* as created was created, once.                                              *)
OutboundInv ==
  /\ \A i \in DOMAIN asked :
       /\ (served[i] = "") = (i = cur.id \/ \E j \in DOMAIN queue : queue[j] = i)
       /\ delivered[i] <= 1
       /\ served[i] = "ok" /\ asked[i].kind = "send" => delivered[i] = (IF Stub THEN 0 ELSE 1)
       /\ served[i] = "error" /\ delivered[i] = 1 => i \in broken
       /\ used[i].from # "" => used[i].handle \in Allowed /\ ~(Stub /\ asked[i].kind # "search")
       /\ queried[i] # <<>> => queried[i] = Home \/ queried[i] = <<asked[i].place.lat, asked[i].place.lon>>
  /\ \A l \in listed : \A n \in l.box \ l.seqs : Cardinality(l.seqs) = Limit /\ \A m \in l.seqs : n < m
  /\ gh.issues <= 1 /\ (gh.answer = "ok" /\ gh.op = "create" => gh.issues = 1)
  /\ gh.stage = "http" => GhAllowed(gh.handle)
=============================================================================
