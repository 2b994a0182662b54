---------------------------------- MODULE Ai ----------------------------------
(* ai: streamed completions, and the calls and catalogue of models.         *)
(* The parts share no state; each has its own initial states and steps.     *)
EXTENDS Naturals, Sequences, FiniteSets, SequencesExt, TLC

-----------------------------------------------------------------------------
(* ai: one streamed chat_completion.  The handler task opens a streaming     *)
(* http_request at network, decodes the provider's events and forwards text  *)
(* to its caller; the loop routes frames of both sessions; the caller may    *)
(* close at any moment.                                                      *)

CONSTANTS Providers,      \* SUBSET {"anthropic", "openai"}
          MaxEvents,      \* provider events of one stream
          MaxErrorBody    \* MAX_STREAM_ERROR_BODY, in chunks
VARIABLES spc,       \* the handler task
          provider, parser,
          upstream,  \* network's session: none, sent, accepted, ended, closed
          routed,    \* up_streams holds the session
          events,    \* UpstreamEvent queue of the task
          fed,       \* provider events so far
          entry,     \* inbound_streams holds the caller's cancel sender
          cancel,    \* the cancel oneshot fired
          evicted,   \* the kernel closed the caller's session
          out,       \* frames sent to the caller
          body, closing, usage

streamVars == <<spc, provider, parser, upstream, routed, events, fed, entry, cancel,
                evicted, out, body, closing, usage>>
Parser0 == [blocks |-> <<>>, started |-> FALSE]
StreamInit == /\ spc = "prepare" /\ provider \in Providers /\ parser = Parser0
              /\ upstream = "none" /\ routed = FALSE /\ events = <<>> /\ fed = 0
              /\ entry = TRUE /\ cancel = FALSE /\ evicted = FALSE
              /\ out = <<>> /\ body = 0 /\ closing = FALSE /\ usage = 0

Frame(k, n, t) == [kind |-> k, seq |-> n, text |-> t]
Deltas == SelectSeq(out, LAMBDA f : f.kind = "delta")
\* the task's Err: its inbound entry goes, then the error reply
Fail == /\ spc' = "over" /\ entry' = FALSE
        /\ out' = Append(out, Frame("error", 0, <<>>))
Up == <<upstream, routed, fed>>
Caller == <<cancel, evicted>>

\* prepare_chat, then open_stream: request, allowlist, key, send may all fail
Prepare ==
  /\ spc = "prepare"
  /\ \/ /\ Fail /\ UNCHANGED Up
     \/ /\ spc' = "accept" /\ upstream' = "sent" /\ routed' = TRUE
        /\ UNCHANGED <<fed, entry, out>>
  /\ UNCHANGED <<provider, parser, events, Caller, body, closing, usage>>

\* network's frames, routed by the loop while up_streams holds the session
Route(e) == events' = IF routed THEN Append(events, e) ELSE events
Accept(status) == /\ upstream = "sent" /\ upstream' = "accepted"
                  /\ Route([kind |-> "accepted", status |-> status, data |-> <<>>])
                  /\ UNCHANGED <<spc, provider, parser, routed, fed, entry, Caller, out,
                                 body, closing, usage>>
Kinds == {"start", "text", "textStart", "toolStart", "json", "usage", "error", "garbage"}
\* a body chunk: no event ends in it, one does, or two do
Chunk(data) ==
  /\ upstream = "accepted" /\ fed + Len(data) < MaxEvents
  /\ fed' = fed + 1 + Len(data)
  /\ Route([kind |-> "chunk", status |-> 0, data |-> data])
  /\ UNCHANGED <<spc, provider, parser, upstream, routed, entry, Caller, out, body,
                 closing, usage>>
\* SessionClose ends it, an error reply or ActionStreamAbort fails it
UpstreamEnds(k) ==
  /\ upstream \in {"sent", "accepted"} /\ upstream' = "ended" /\ routed' = FALSE
  /\ Route([kind |-> k, status |-> 0, data |-> <<>>])
  /\ UNCHANGED <<spc, provider, parser, fed, entry, Caller, out, body, closing, usage>>

\* the first event decides: a status, a failure, or anything else
Accepted ==
  /\ spc = "accept" /\ events # <<>> /\ events' = Tail(events)
  /\ LET e == Head(events) IN
     IF e.kind # "accepted" THEN Fail
     ELSE IF e.status = 200
     THEN /\ spc' = "stream" /\ out' = Append(out, Frame("ok", 0, <<>>)) /\ UNCHANGED entry
     ELSE spc' = "errorBody" /\ UNCHANGED <<out, entry>>
  /\ UNCHANGED <<provider, parser, Up, Caller, body, closing, usage>>
\* a non-2xx body is collected up to the cap, then its session is closed
ErrorBody ==
  /\ spc = "errorBody" /\ events # <<>> /\ events' = Tail(events)
  /\ LET more == Head(events).kind = "chunk" /\ body + 1 < MaxErrorBody IN
     /\ body' = IF Head(events).kind = "chunk" THEN body + 1 ELSE body
     /\ closing' = (Head(events).kind = "chunk" /\ ~more)
     /\ IF more THEN UNCHANGED <<spc, entry, out>> ELSE Fail
  /\ UNCHANGED <<provider, parser, Up, Caller, usage>>

-----------------------------------------------------------------------------
(* The provider's events: blocks of text tokens and of tools. *)
Nl == 0   \* the separator, beside the numbered text tokens
LastKind(p) == IF p.blocks = <<>> THEN "none" ELSE p.blocks[Len(p.blocks)].kind
AddTo(p, t) == [p EXCEPT !.blocks[Len(p.blocks)].text = Append(@, t)]
Open(p, k, t) == [p EXCEPT !.blocks = Append(@, [kind |-> k, text |-> t])]
HasText(p) == \E i \in DOMAIN p.blocks : p.blocks[i].kind = "text"
\* AnthropicStream::feed: new parser state and the deltas streamed; a text
\* block after the first streams its separator too
Anthropic(p, e, n) ==
  CASE e = "start" -> <<[p EXCEPT !.started = TRUE], <<>>>>
    [] e = "textStart" -> <<Open(p, "text", <<n>>),
                            (IF HasText(p) THEN <<Nl>> ELSE <<>>) \o <<n>>>>
    [] e = "toolStart" -> <<Open(p, "tool", <<>>), <<>>>>
    [] e = "text" /\ LastKind(p) = "text" -> <<AddTo(p, n), <<n>>>>
    [] e = "json" /\ LastKind(p) = "tool" -> <<AddTo(p, n), <<>>>>
    [] OTHER -> <<p, <<>>>>
\* OpenAiStream::feed: one text, tool calls by index
OpenAi(p, e, n) ==
  LET q == [p EXCEPT !.started = TRUE]
  IN CASE e \in {"text", "textStart"} ->
            <<IF HasText(q) THEN [q EXCEPT !.blocks =
                [i \in DOMAIN @ |-> IF @[i].kind = "text"
                                    THEN [@[i] EXCEPT !.text = Append(@, n)] ELSE @[i]]]
              ELSE Open(q, "text", <<n>>), <<n>>>>
       [] e \in {"toolStart", "json"} -> <<Open(q, "tool", <<n>>), <<>>>>
       [] OTHER -> <<q, <<>>>>
Bad(e) == e \in {"error", "garbage"}
Step(p, e, n) == IF provider = "anthropic" THEN Anthropic(p, e, n) ELSE OpenAi(p, e, n)
\* the events of a chunk, in order: <<parser, deltas>>
FeedAll(p, data, n) ==
  FoldLeftDomain(LAMBDA acc, i : LET r == Step(acc[1], data[i], n + i)
                                 IN <<r[1], acc[2] \o r[2]>>, <<p, <<>>>>, data)
\* mistake: finish joins the blocks without the separator streamed
GlueContent(p) == FlattenSeq([i \in DOMAIN p.blocks |->
                    IF p.blocks[i].kind = "text" THEN p.blocks[i].text ELSE <<>>])
\* finish: the text blocks joined
Content(p) == FoldLeft(LAMBDA acc, b : IF acc = <<>> THEN b.text
                                       ELSE acc \o <<Nl>> \o b.text,
                       <<>>, SelectSeq(p.blocks, LAMBDA b : b.kind = "text"))

\* select!: a chunk is decoded and its deltas go out in order
Feed ==
  /\ spc = "stream" /\ events # <<>> /\ Head(events).kind = "chunk"
  /\ events' = Tail(events)
  /\ LET d == Head(events).data
         r == FeedAll(parser, d, 2 * Len(Deltas) + Len(parser.blocks))
         n == Len(Deltas)
     IN IF \E i \in DOMAIN d : Bad(d[i])
        THEN Fail /\ closing' = TRUE /\ UNCHANGED parser
        ELSE /\ parser' = r[1]
             /\ out' = out \o [i \in DOMAIN r[2] |->
                                 Frame("delta", n + i - 1, r[2][i])]
             /\ UNCHANGED <<spc, entry, closing>>
  /\ UNCHANGED <<provider, Up, Caller, body, usage>>
\* the upstream's end: finish, usage, done, close; or its failure
Finish ==
  /\ spc = "stream" /\ events # <<>> /\ Head(events).kind \in {"done", "failed"}
  /\ events' = Tail(events)
  /\ IF Head(events).kind = "failed" \/ ~parser.started
     THEN Fail /\ UNCHANGED usage
     ELSE /\ usage' = usage + 1 /\ spc' = "over" /\ entry' = FALSE
          /\ out' = out \o <<Frame("done", Len(Deltas), Content(parser)),
                             Frame("close", 0, <<>>)>>
  /\ UNCHANGED <<provider, parser, Up, Caller, body, closing>>
\* select!: the caller's close stops the upstream session
Cancelled ==
  /\ spc = "stream" /\ cancel /\ spc' = "over" /\ entry' = FALSE /\ closing' = TRUE
  /\ UNCHANGED <<provider, parser, Up, events, Caller, out, body, usage>>
\* Outbound::CloseStream, in the loop
CloseStream ==
  /\ closing /\ closing' = FALSE /\ routed' = FALSE
  /\ upstream' = IF routed THEN "closed" ELSE upstream
  /\ UNCHANGED <<spc, provider, parser, events, fed, entry, Caller, out, body, usage>>

\* the caller's SessionClose, or the kernel's abort of a caller that left
CallerCloses ==
  /\ ~evicted /\ evicted' = TRUE
  /\ \A i \in DOMAIN out : out[i].kind \notin {"error", "close"}
  /\ cancel' = (cancel \/ entry) /\ entry' = FALSE
  /\ UNCHANGED <<spc, provider, parser, Up, events, out, body, closing, usage>>

StreamNext == \/ Prepare \/ Accepted \/ ErrorBody \/ Feed \/ Finish \/ Cancelled
              \/ CloseStream \/ CallerCloses
              \/ \E s \in {200, 500} : Accept(s)
              \/ \E k \in {"done", "failed"} : UpstreamEnds(k)
              \/ \E d \in {<<>>} \cup {<<x>> : x \in Kinds} \cup ({"textStart", "text"} \X Kinds) :
                   Chunk(d)
StreamSpec == StreamInit /\ [][StreamNext]_streamVars

-----------------------------------------------------------------------------
\* The frames of handle_chat_completion_stream: acceptance first, deltas
\* numbered without a gap, one terminal frame and nothing after it; the deltas
\* add up to the content of the final result.
FramesOrderly ==
  LET kinds == [i \in DOMAIN out |-> out[i].kind] n == Len(Deltas) IN
  /\ kinds \in {<<>>, <<"error">>} \cup
       {<<"ok">> \o [i \in 1..n |-> "delta"] \o t :
          t \in {<<>>, <<"error">>, <<"done", "close">>}}
  /\ \A i \in 1..n : Deltas[i].seq = i - 1
  /\ \A i \in DOMAIN out : out[i].kind = "done" =>
       /\ out[i].seq = n
       /\ out[i].text = [j \in 1..n |-> Deltas[j].text]
\* However the task ends, network is not left streaming to nobody, and usage
\* is recorded exactly for a result the caller was sent.
UpstreamEnded == /\ spc = "over" => upstream \in {"none", "ended", "closed"} \/ closing
                 /\ spc = "over" /\ upstream \in {"sent", "accepted"} => routed
                 /\ usage = Len(SelectSeq(out, LAMBDA f : f.kind = "done"))
\* One streamed completion, over every interleaving of the two sessions.
StreamInv == FramesOrderly /\ UpstreamEnded

-----------------------------------------------------------------------------
(* ai: buffered requests.  A request resolves its endpoint from the host's   *)
(* model table or from its own fields, resolves a key (vault, then env), and *)
(* calls network; the loop matches replies to calls by id and sweeps the     *)
(* ones that timed out.  Models come from config and from discovery.         *)

CONSTANTS Reqs, None,
          Ids,            \* model ids, "m" declared in the config
          Config,         \* declared models: id -> [prov, base, key, def]
          AgentModel,     \* agents: id -> model id
          DefaultAgent, Sources, MaxCalls, MaxRestarts

VARIABLES models, started, seeded, ctask, pend, wire, calls, replies, restarts
callsVars == <<models, started, seeded, ctask, pend, wire, calls, replies, restarts>>

Stored == {i \in Ids : models[i] # None}
Defaults == {i \in Stored : models[i].def}
Waiting == [pc |-> "new", ep |-> None, src |-> 0]
CallsInit == /\ models \in [Ids -> {None} \cup {[prov |-> "openai", base |-> "hb", key |-> "hk",
                                                def |-> b] : b \in BOOLEAN}]
             /\ Cardinality(Defaults) <= 1
             /\ started = "seed" /\ seeded = FALSE /\ ctask = [r \in Reqs |-> Waiting]
             /\ pend = {} /\ wire = {} /\ calls = 0 /\ replies = [r \in Reqs |-> <<>>]
             /\ restarts = 0

-----------------------------------------------------------------------------
(* Which endpoint a request goes to. *)
Queries == [agent : {None, "unknown"} \cup DOMAIN AgentModel,
            provider : {None, "anthropic", "openai", "other"}, base : {"", "cb"},
            model : {""} \cup Ids, key : {"", "ck"}, form : BOOLEAN]
Err == [prov |-> "error", base |-> "", model |-> "", key |-> ""]
Endpoint(p, b, m, k) == [prov |-> p, base |-> b, model |-> m, key |-> k]
\* parse_request; form: messages, blocks, images and tools are well formed
ParseChat(q) ==
  LET fromDb == q.agent # None \/ q.provider = None
      prov == IF q.provider = None THEN "openai" ELSE q.provider
      base == IF q.base # "" THEN q.base
              ELSE IF prov = "anthropic" THEN "default" ELSE ""
  IN IF \/ prov = "other" \/ ~q.form
        \/ base = "" /\ ~fromDb
        \/ q.model = "" /\ q.agent = None
        \/ q.key = "" /\ ~fromDb
     THEN Err ELSE Endpoint(prov, base, q.model, q.key)
\* parse_embedding_request
ParseEmbed(q) ==
  IF \/ q.provider \in {"anthropic", "other"} \/ ~q.form
     \/ q.agent = None /\ (q.provider = None \/ "" \in {q.base, q.model, q.key})
  THEN Err ELSE Endpoint("openai", q.base, q.model, q.key)
Known(i) == i \in Ids /\ models[i] # None
\* the host's row, the endpoint whole
Host(i) == Endpoint(models[i].prov,
             IF models[i].base = "" /\ models[i].prov = "anthropic" THEN "default"
             ELSE models[i].base, i, models[i].key)
\* resolve_params and, for an embedding, resolve_embedding_params, which refuses
\* a row of another provider than openai
Resolved(q, p, embed) ==
  LET id == IF q.agent = None THEN p.model ELSE AgentModel[q.agent]
  IN IF p = Err \/ q.agent = "unknown" THEN Err
     ELSE IF Known(id) THEN IF embed /\ models[id].prov # "openai" THEN Err ELSE Host(id)
     ELSE IF q.agent # None \/ p.key = "" \/ (p.base = "" /\ p.prov = "openai")
     THEN Err ELSE p

-----------------------------------------------------------------------------
(* Requests and their outbound calls. *)
CallOut(pc, ep, src) == [pc |-> pc, ep |-> ep, src |-> src, rep |-> None]
Done(s) == [pc |-> "over", ep |-> None, src |-> 0, rep |-> s]
\* the task replies, or OutboundHandle::call_action files one more call
Go(r, o, p, w) ==
  /\ ctask' = [ctask EXCEPT ![r] = [pc |-> o.pc, ep |-> o.ep, src |-> o.src]]
  /\ IF o.rep # None
     THEN /\ replies' = [replies EXCEPT ![r] = Append(@, o.rep)]
          /\ pend' = p /\ wire' = w /\ UNCHANGED calls
     ELSE /\ calls < MaxCalls /\ calls' = calls + 1 /\ UNCHANGED replies
          /\ pend' = p \cup {<<r, calls>>} /\ wire' = w \cup {<<r, calls>>}
Boot == <<started, seeded, restarts>>
Allowed(k) == k # ""      \* AI_PLUGIN_ALLOWED_KEY_ENVS, default deny
Endpoints(kind) ==
  {IF kind = "chat" THEN Resolved(q, ParseChat(q), FALSE)
   ELSE Resolved(q, ParseEmbed(q), TRUE) : q \in Queries}
\* resolve_api_key: the vault's value, else the env var's, else an error
KeyOutcomes(ep, ok) == {CallOut("http", ep, 0)} \cup (IF ok THEN {} ELSE {Done("error")})
\* fetch_ids: an openai list asks for the key first and goes without one
FetchFrom(n) == IF n > Len(Sources) THEN Done("ok")
                ELSE CallOut(IF Sources[n].prov = "openai" THEN "fetchKey" ELSE "fetch", None, n)
\* handle_action_request up to its first outbound call
First(kind) ==
  IF kind \in {"list", "unknown"} THEN {Done(kind)}
  ELSE IF kind = "refresh" THEN {FetchFrom(1)}
  ELSE {IF Allowed(e.key) /\ e # Err THEN CallOut("key", e, 0) ELSE Done("error") :
          e \in Endpoints(kind)}
Begin(r, kind) ==
  /\ started = "serving" /\ ctask[r].pc = "new"
  /\ \E o \in First(kind) : Go(r, o, pend, wire)
  /\ UNCHANGED <<models, Boot>>
\* what a task does with the answer of its call: secret_get or its fallback,
\* then http_request; a discovery source that fails is skipped
After(k, ok) ==
  CASE k.pc = "key"  -> KeyOutcomes(k.ep, ok)
    [] k.pc = "http" -> {Done("error")} \cup (IF ok THEN {Done("ok")} ELSE {})
    [] k.pc = "fetchKey" -> {CallOut("fetch", None, k.src)}
    [] OTHER -> {FetchFrom(k.src + 1)}
\* refresh_models: the row of a discovered id, its default flag kept
Discovered(src, def) == [prov |-> "openai", base |-> src.base, key |-> src.key,
                            def |-> def]
Refreshed(src) == [models EXCEPT ![src.id] =
                     Discovered(src, @ # None /\ @.def)]
\* ActionResponse: routed to the call of its id, else stray
Answer(c, ok) ==
  /\ c \in wire /\ started = "serving"
  /\ IF c \in pend
     THEN /\ models' = IF ctask[c[1]].pc = "fetch" /\ ok
                       THEN Refreshed(Sources[ctask[c[1]].src]) ELSE models
          /\ \E o \in After(ctask[c[1]], ok) : Go(c[1], o, pend \ {c}, wire \ {c})
     ELSE /\ wire' = wire \ {c} /\ UNCHANGED <<models, ctask, pend, calls, replies>>
  /\ UNCHANGED Boot
\* mistake: an expired call is forgotten without a word to its task
SweepSilent(c) == /\ c \in pend /\ pend' = pend \ {c}
                  /\ UNCHANGED <<models, ctask, wire, calls, replies, Boot>>
\* the sweep: Timeout to the waiting task; the answer may still come
Sweep(c) ==
  /\ c \in pend /\ \E o \in After(ctask[c[1]], FALSE) : Go(c[1], o, pend \ {c}, wire)
  /\ UNCHANGED <<models, Boot>>

-----------------------------------------------------------------------------
(* Start: declared models, discovery, the default. *)
Quiet == UNCHANGED <<ctask, pend, wire, calls, replies, restarts>>
Least(S) == CHOOSE i \in S : i = "m" \/ "m" \notin S   \* the first by id
\* config::seed: declared rows over stored ones
SeedRows == [i \in Ids |-> IF i \in DOMAIN Config THEN Config[i] ELSE models[i]]
SeedDefault(ms) ==
  LET rows == {i \in Ids : ms[i] # None}
      declared == {i \in DOMAIN Config : Config[i].def}
  IN IF declared # {} THEN Least(declared)
     ELSE IF \E i \in rows : ms[i].def THEN Least({i \in rows : ms[i].def})
     ELSE Least(rows)
OnlyDefault(ms, d) == [i \in Ids |-> IF ms[i] = None THEN None ELSE [ms[i] EXCEPT !.def = (i = d)]]
Cleared(ms) == [i \in Ids |-> IF ms[i] = None THEN None ELSE [ms[i] EXCEPT !.def = FALSE]]
\* the flag is cleared everywhere, then set: two statements
Seed == /\ started = "seed"
        /\ IF \A i \in Ids : SeedRows[i] = None
           THEN models' = models /\ started' = "discover" /\ seeded' = FALSE
           ELSE /\ models' = SeedRows /\ seeded' = TRUE /\ started' = "setDefault"
        /\ Quiet
SetDefault == /\ started = "setDefault" /\ started' = "discover"
              /\ models' = OnlyDefault(models, SeedDefault(models))
              /\ UNCHANGED seeded /\ Quiet
\* the startup refresh: some of the sources answer
StartupRefresh == /\ started = "discover" /\ started' = "tie"
                  /\ \E S \in SUBSET DOMAIN Sources :
                       models' = [i \in Ids |->
                         IF \E k \in S : Sources[k].id = i
                         THEN Discovered(Sources[CHOOSE k \in S : Sources[k].id = i],
                                         models[i] # None /\ models[i].def)
                         ELSE models[i]]
                  /\ UNCHANGED seeded /\ Quiet
\* no default model: the default agent's, when it exists
TieDefault == /\ started = "tie" /\ started' = "serving"
              /\ models' = IF Defaults = {} /\ Known(AgentModel[DefaultAgent])
                           THEN OnlyDefault(models, AgentModel[DefaultAgent]) ELSE models
              /\ UNCHANGED seeded /\ Quiet
\* the process dies, in the middle of set_model_default or anywhere else
Restart == /\ restarts < MaxRestarts /\ restarts' = restarts + 1 /\ started' = "seed"
           /\ models' \in IF started = "setDefault" THEN {models, Cleared(models)}
                           ELSE {models}
           /\ seeded' = FALSE /\ pend' = {} /\ wire' = {}
           /\ ctask' = [r \in Reqs |-> [ctask[r] EXCEPT !.pc = "over"]]
           /\ UNCHANGED <<calls, replies>>

CallsNext == \/ Seed \/ SetDefault \/ StartupRefresh \/ TieDefault \/ Restart
             \/ \E r \in Reqs, k \in {"chat", "embed", "refresh", "list", "unknown"} : Begin(r, k)
             \/ \E c \in wire, ok \in BOOLEAN : Answer(c, ok)
             \/ \E c \in pend : Sweep(c)
CallsSpec == CallsInit /\ [][CallsNext]_callsVars

-----------------------------------------------------------------------------
\* A request never mixes the host's endpoint with the caller's: a key goes
\* only to the url it was declared with.
EndpointWhole == \A r \in Reqs : ctask[r].ep # None =>
  LET e == ctask[r].ep IN
  /\ e.key = "ck" <=> e.base = "cb" \/ (e.base = "default" /\ e.key # "hk")
  /\ e.key # "ck" => \E i \in Ids : e.model = i
\* Every task that waits has its call pending, and is answered once.
NobodyForgotten == \A r \in Reqs :
  /\ ctask[r].pc \in {"key", "http", "fetchKey", "fetch"} <=> \E c \in pend : c[1] = r
  /\ Len(replies[r]) <= 1 /\ Cardinality({c \in pend : c[1] = r}) <= 1
\* Discovery and restarts leave one default model.
OneDefault == started = "serving" =>
  Cardinality(Defaults) <= 1 /\ (seeded => Defaults # {})
\* The buffered half of ai.
CallsInv == EndpointWhole /\ NobodyForgotten /\ OneDefault
=============================================================================
