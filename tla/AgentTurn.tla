------------------------------ MODULE AgentTurn ------------------------------
(* A turn of the agent: its context, and what a model is asked and says.    *)
(* The parts share no state; each has its own initial states and steps.     *)
EXTENDS Integers, Sequences, FiniteSets, FiniteSetsExt, SequencesExt

-----------------------------------------------------------------------------
(* What surrounds a goal of the agent: its chat session (resolve, history,  *)
(* the turn written back), the model call with its fallback profile, the    *)
(* reading of the model's reply, the tools offered, and the trace of a tool *)
(* call with its secrets removed.  None of it may fail the goal.            *)

CONSTANTS HistoryMax,      \* HISTORY_TOTAL_MAX_BYTES, in units of a clipped text
          TextMax,         \* HISTORY_TEXT_MAX_CHARS
          MaxTurns, Fallback, None,
          Tools, TopicOf   \* the catalogue; the keyword topic of each tool

VARIABLES session,   \* of the goal: None or an id
          stored,    \* the session's turns in chats: status and sizes
          recalled,  \* pairs recalled for the model
          offered,   \* tools described to the model
          legs,      \* profiles tried for this completion
          natively,  \* tools sent natively; the text catalogue was given
          told,
          reply, traced, gstep, status

turnVars == <<session, stored, recalled, offered, legs, natively, told, reply, traced,
              gstep, status>>

Turn(s, n) == [status |-> s, size |-> n]
Stored == UNION {[1..k -> {Turn("ok", 1), Turn("ok", 9), Turn("failed", 1)}] :
                 k \in 0..MaxTurns}
TurnInit == /\ session = None /\ stored \in Stored /\ recalled = <<>> /\ legs = <<>>
            /\ offered = Tools /\ natively \in BOOLEAN /\ told = ~natively
            /\ reply = None /\ traced = None /\ gstep = "start" /\ status = "running"

\* resolve: any failure means no session
Resolve == /\ gstep = "start"
           /\ \/ session' = "s" /\ gstep' \in {"history", "offer"}   \* existing, created
              \/ session' = None /\ gstep' = "offer"
           /\ UNCHANGED <<stored, recalled, offered, legs, natively, told, reply, traced, status>>

Clip(n) == Min({n, TextMax + 1})
Size(ps) == FoldSeq(LAMBDA n, acc : n + acc, 0, ps)
\* fit_history: drop the oldest pairs until the rest fits
FitHistory(ps) == LET k == Min({j \in 1..(Len(ps) + 1) :
                                 Size(SubSeq(ps, j, Len(ps))) <= HistoryMax})
                  IN SubSeq(ps, k, Len(ps))
OkTurns == SelectSeq(stored, LAMBDA t : t.status = "ok")
\* history: the successful turns, clipped, oldest first; nothing on a failure
History == /\ gstep = "history"
           /\ recalled' \in {<<>>, FitHistory([i \in DOMAIN OkTurns |->
                                                 Clip(OkTurns[i].size)])}
           /\ gstep' = "offer"
           /\ UNCHANGED <<session, stored, offered, legs, natively, told, reply, traced, status>>

\* filtered_catalog: by keywords of the goal; the whole catalogue when that
\* leaves too little or loses the telegram tools a telegram goal needs
ByKeywords(topics) ==
  LET kept == {t \in Tools : TopicOf[t] \in topics \cup {"any"}}
  IN IF \/ Cardinality(kept) < 3
        \/ "tg" \in topics /\ \A t \in kept : TopicOf[t] # "tg"
     THEN Tools ELSE kept
\* embedding_filtered_catalog: hits of vec_query, stale ones included, or
\* nothing (disabled, a failed call, too few)
ByEmbedding(hits) == IF Cardinality(hits) >= 3 /\ Cardinality(hits \cap Tools) >= 3
                     THEN hits \cap Tools ELSE {}
Offer == /\ gstep = "offer" /\ gstep' = "chat"
         /\ \E hits \in SUBSET (Tools \cup {"removed"}),
               topics \in {{}, {"tg"}, {"fs"}} :
              offered' = IF ByEmbedding(hits) # {} THEN ByEmbedding(hits)
                         ELSE ByKeywords(topics)
         /\ UNCHANGED <<session, stored, recalled, legs, natively, told, reply,
                        traced, status>>

\* chat_with_fallback: one more leg, and only through a different profile
Chat(p) ==
  /\ gstep = "chat" /\ Len(legs) < 2
  /\ legs = <<>> => p = "primary"
  /\ legs # <<>> => p = Fallback /\ p # legs[1]
  /\ legs' = Append(legs, p)
  /\ \E r \in {"native", "nativeNoName", "xml", "xmlBad", "tool", "toolBadParams",
               "object", "prose", "error"} :
       /\ r \in {"native", "nativeNoName"} => natively
       /\ IF r # "error" THEN reply' = r /\ gstep' = "read"
          ELSE /\ UNCHANGED reply
               /\ gstep' = IF legs = <<>> /\ Fallback \notin {None, p}
                           THEN "chat" ELSE IF natively THEN "degrade" ELSE "end"
  /\ status' = IF gstep' = "end" THEN "error" ELSE status
  /\ UNCHANGED <<session, stored, recalled, offered, natively, told, traced>>

\* a provider that rejects native tools: the catalogue goes into the text
Degrade == /\ gstep = "degrade"
           /\ natively' = FALSE /\ told' = TRUE /\ legs' = <<>>
           /\ gstep' = "chat"
           /\ UNCHANGED <<session, stored, recalled, offered, reply, traced, status>>

\* outcome_to_reply and parse_reply: anything that is not a well-formed call
\* is the final answer
IsCall(r) == r \in {"native", "xml", "tool"}
Read == /\ gstep = "read"
        /\ IF IsCall(reply) THEN gstep' = "dispatch" /\ UNCHANGED status
           ELSE gstep' = "end" /\ status' \in {"completed", "max_steps_reached"}
        /\ UNCHANGED <<session, stored, recalled, offered, legs, natively, told, reply, traced>>

\* texts: JSON or not, with a secret under a key or in a pattern, and long
Texts == [json : BOOLEAN, key : BOOLEAN, pattern : BOOLEAN, long : BOOLEAN]
Cut(t) == IF t.long THEN [t EXCEPT !.long = FALSE, !.json = FALSE] ELSE t
MaskKeys(t) == IF t.json THEN [t EXCEPT !.key = FALSE] ELSE t
Scrub(t) == [t EXCEPT !.pattern = FALSE]
Blank == [json |-> FALSE, key |-> FALSE, pattern |-> FALSE, long |-> FALSE]
\* mistake: cut, then redact
RedactLate(tool, t) == IF tool = "plain" THEN Scrub(MaskKeys(Cut(t))) ELSE Blank
\* redact_args, redact_result, redact_error, then trace_text
Redact(tool, t) == IF tool \in {"secret", "content"} THEN Blank
                   ELSE Cut(Scrub(MaskKeys(t)))
Dispatch == /\ gstep = "dispatch"
            /\ \E tool \in {"secret", "content", "plain"}, t \in Texts :
                 /\ t.key => t.json
                 /\ traced' = Redact(tool, t)
            /\ gstep' = "chat" /\ legs' = <<>> /\ reply' = None
            /\ UNCHANGED <<session, stored, recalled, offered, natively, told, status>>

\* turn_status and append_turn: a finished goal with a session is written
\* back once; a failure is logged
TurnStatus == [completed |-> "ok", declined |-> "cancelled", error |-> "failed",
               max_steps_reached |-> "failed"]
AppendTurn == /\ gstep = "end" /\ gstep' = "over"
              /\ stored' \in IF session = None THEN {stored}
                   ELSE {stored, Append(stored, Turn(TurnStatus[status], 1))}
              /\ UNCHANGED <<session, recalled, offered, legs, natively, told, reply, traced,
                             status>>

TurnNext == \/ Resolve \/ History \/ Offer \/ Degrade \/ Read \/ Dispatch \/ AppendTurn
            \/ \E p \in {"primary", Fallback} : Chat(p)
TurnSpec == TurnInit /\ [][TurnNext]_turnVars

-----------------------------------------------------------------------------
\* The model is never asked through a channel it was not told about: tools
\* ride natively or the text catalogue was given.  The history it sees is the
\* newest successful turns within the budget, the tools offered are of the
\* catalogue and enough to work with, and no secret that was in a
\* tool's arguments or answer is left in the trace that chats stores.
TurnInv ==
  /\ natively \/ told
  /\ offered \subseteq Tools /\ (offered = Tools \/ Cardinality(offered) >= 3)
  /\ Size(recalled) <= HistoryMax
  /\ gstep # "over" => \E k \in 0..Len(OkTurns) :
       /\ Len(recalled) = k
       /\ \A i \in 1..k :
            recalled[i] = Clip(OkTurns[Len(OkTurns) - k + i].size)
  /\ traced # None => ~traced.key /\ ~traced.pattern
  /\ Len(legs) = 2 => legs[1] # legs[2]

-----------------------------------------------------------------------------
(* What travels between the agent and a language model: the opening prompt, *)
(* the chat_completion request, the provider's HTTP body and its response,  *)
(* and the reading of the reply; and the batch of vectors of an embedding.  *)
(* Texts are sequences of tokens: the brackets, quotes, fences and markup   *)
(* the readers look for, and "w" for any other word.                        *)

CONSTANTS Full, Offered,   \* the catalogue and the tools chosen for the goal
          GroupName,       \* the group table both prompt builders repeat
          Layers,          \* prompt layers of a group: env, file, default
          Messages,        \* transcripts other callers send
          Contents,        \* texts a model answers with
          MaxBatch, Null

VARIABLES wstep, seed, params, http, answer, result, outcome

wireVars == <<wstep, seed, params, http, answer, result, outcome>>


Groups == {GroupName[t] : t \in Full}
WireInit == /\ wstep \in {"seed", "request", "embed"}
            /\ seed = Null /\ params = Null /\ http = Null /\ answer = Null
            /\ result = Null /\ outcome = Null

-----------------------------------------------------------------------------
\* The opening messages.

\* catalog_groups_overview: every tool of the full catalogue under its group
Overview == [g \in Groups |-> {t \in Full : GroupName[t] = g}]
\* prompt_file_at: a missing and a blank file are the same
FileLayer(l) == IF l.file = "blank" THEN Null ELSE l.file
\* plugin_prompt_section: each layer replaces the ones below; a blank text
\* in the environment silences the group
GroupPrompt(l) == LET r == IF l.env # Null THEN l.env
                           ELSE IF FileLayer(l) # Null THEN FileLayer(l) ELSE l.default
                  IN IF r = "blank" THEN Null ELSE r
PromptSection(layers) ==
  [g \in {h \in {GroupName[t] : t \in Offered} : GroupPrompt(layers[h]) # Null} |->
    GroupPrompt(layers[g])]
\* facts_block_at: a blank literal falls through to the file
Facts(l) == IF l.env \notin {Null, "blank"} THEN l.env ELSE FileLayer(l)
\* tools_json_string: the details of the offered tools, when they do not ride
\* natively
ToolsSection(native) == IF native THEN {} ELSE Offered
OpeningMessages(layers, native, context, facts) ==
  [overview |-> Overview, prompts |-> PromptSection(layers), facts |-> Facts(facts),
   tools |-> ToolsSection(native), native |-> native,
   launcher |-> {"launch", "launch_list"} \subseteq Offered,
   memory |-> context,          \* announced in the instructions
   goal |-> context]            \* and carried by the goal's message
Seed == /\ wstep = "seed"
        /\ \E native, context \in BOOLEAN, facts \in Layers, layers \in [Groups -> Layers] :
             seed' = OpeningMessages(layers, native, context, facts)
        /\ wstep' = "chat"
        /\ UNCHANGED <<params, http, answer, result, outcome>>

\* chat: a profile by its id, or explicit fields, or no request at all
Msg(r, t, i) == [role |-> r, text |-> t, images |-> i]
ChatBody(agent, model, key) ==
      /\ wstep = "chat"
      /\ IF ~agent /\ (~model \/ ~key)
         THEN outcome' = [kind |-> "error"] /\ wstep' = "done" /\ UNCHANGED params
         ELSE /\ params' = [messages |-> <<Msg("user", "long", 0), Msg("user", "short", 0)>>,
                            tools |-> IF seed.native THEN SetToSeq(Offered) ELSE <<>>,
                            system |-> agent, byProfile |-> agent]
              /\ wstep' = "build" /\ UNCHANGED outcome
      /\ seed' = Null
      /\ UNCHANGED <<http, answer, result>>
\* a completion some other plugin asks for
Request == /\ wstep = "request" /\ wstep' = "build"
           /\ \E ms \in Messages, sys \in BOOLEAN :
                params' = [messages |-> ms, tools |-> <<>>, system |-> sys,
                           byProfile |-> FALSE]
           /\ UNCHANGED <<seed, http, answer, result, outcome>>

-----------------------------------------------------------------------------
\* The provider's request and response.

Part(k, t, m) == [kind |-> k, text |-> t, mark |-> m]
Images(n) == [i \in 1..n |-> Part("image", "", FALSE)]
\* message_json (both adapters): plain text, or parts when there are images
Content(m) == IF m.images = 0 THEN <<Part("text", m.text, FALSE)>>
              ELSE (IF m.text = "" THEN <<>> ELSE <<Part("text", m.text, FALSE)>>)
                   \o Images(m.images)
MessageJson(m) == [role |-> m.role, parts |-> Content(m)]
\* build_http_request of the OpenAI adapter: the system prompt leads, no
\* header without a key
OpenAiRequest(key) ==
  [provider |-> "openai", system |-> FALSE,
   messages |-> (IF params.system THEN <<MessageJson(Msg("system", "short", 0))>> ELSE <<>>)
                \o [i \in DOMAIN params.messages |-> MessageJson(params.messages[i])],
   tools |-> [i \in DOMAIN params.tools |-> [name |-> params.tools[i], mark |-> FALSE]],
   systemMark |-> FALSE, auth |-> key]
\* build_http_request of the Anthropic adapter: with the prompt cache on, a
\* long plain first message, the last tool and the system prompt are marked
AnthropicRequest(cache) ==
  LET plain(i) == MessageJson(params.messages[i])
      long == params.messages[1].images = 0 /\ params.messages[1].text = "long"
  IN [provider |-> "anthropic", system |-> params.system,
      messages |-> [i \in DOMAIN params.messages |->
                     IF i = 1 /\ cache /\ long
                     THEN [plain(1) EXCEPT !.parts = <<Part("text", "long", TRUE)>>]
                     ELSE plain(i)],
      tools |-> [i \in DOMAIN params.tools |->
                  [name |-> params.tools[i],
                   mark |-> cache /\ i = Len(params.tools)]],
      systemMark |-> cache /\ params.system, auth |-> TRUE]
Build == /\ wstep = "build" /\ wstep' = "wait"
         /\ \E b \in BOOLEAN : http' \in {OpenAiRequest(b), AnthropicRequest(b)}
         /\ UNCHANGED <<seed, params, answer, result, outcome>>

Call(n) == [name |-> n, args |-> "object"]
\* what the provider sends back: blocks, or choices
Blocks == {[type |-> "text", text |-> <<"w">>], [type |-> "text", text |-> Null],
           [type |-> "tool_use", name |-> "t"], [type |-> "tool_use", name |-> ""],
           [type |-> "thinking"]}
Answers == IF http.provider = "anthropic"
           THEN UNION {[1..n -> Blocks] : n \in 0..2}
           ELSE {[content |-> c, calls |-> cs] : c \in {Null, <<"w">>},
                 cs \in UNION {[1..n -> {"t", "", Null}] : n \in 0..2}}
Body(b) == [provider |-> http.provider, body |-> b]
Respond == /\ wstep = "wait" /\ wstep' = "parse" /\ params' = Null /\ http' = Null
           /\ \/ \E b \in Answers : answer' = Body(b)
              \/ \E c \in Contents : answer' = Body(
                   IF http.provider = "anthropic" THEN <<[type |-> "text", text |-> c]>>
                   ELSE [content |-> c, calls |-> <<>>])
           /\ UNCHANGED <<seed, result, outcome>>
\* parse_response (Anthropic): texts joined by a line break, calls in order;
\* a reply with neither is an error
Joined(ts) == IF ts = <<>> THEN <<>>
              ELSE FoldLeft(LAMBDA acc, t : acc \o <<"nl">> \o t, ts[1], Tail(ts))
ParseAnthropic(bs) ==
  LET texts == SelectSeq(bs, LAMBDA b : b.type = "text" /\ b.text # Null)
      uses == SelectSeq(bs, LAMBDA b : b.type = "tool_use")
  IN IF texts = <<>> /\ uses = <<>> THEN Null
     ELSE [content |-> Joined([i \in DOMAIN texts |-> texts[i].text]),
           calls |-> [i \in DOMAIN uses |-> Call(uses[i].name)]]
\* parse_response (OpenAI): the first choice; a call without a function is
\* dropped, a null content is empty
ParseOpenAi(a) ==
  [content |-> IF a.content = Null THEN <<>> ELSE a.content,
   calls |-> LET fs == SelectSeq(a.calls, LAMBDA c : c # Null)
             IN [i \in DOMAIN fs |-> Call(fs[i])]]
Parse == /\ wstep = "parse"
         /\ result' = IF answer.provider = "anthropic" THEN ParseAnthropic(answer.body)
                      ELSE ParseOpenAi(answer.body)
         /\ IF result' = Null THEN outcome' = [kind |-> "error"] /\ wstep' = "done"
            ELSE UNCHANGED outcome /\ wstep' = "read"
         /\ UNCHANGED <<seed, params, http, answer>>

-----------------------------------------------------------------------------
\* The reading of a reply.

Find(s, t, from) == LET is == {i \in from..Len(s) : s[i] = t}
                    IN IF is = {} THEN 0 ELSE Min(is)
LTrim(s, t) == LET is == {i \in DOMAIN s : s[i] # t}
               IN IF is = {} THEN <<>> ELSE SubSeq(s, Min(is), Len(s))
RTrim(s, t) == Reverse(LTrim(Reverse(s), t))
Trim(s) == RTrim(LTrim(s, "nl"), "nl")
\* strip_code_fence: the line of the opening fence goes, and the closing one
StripFence(s) ==
  LET t == Trim(s)
      body == LTrim(t, "fence")
      nl == Find(body, "nl", 1)
      rest == IF nl = 0 THEN body ELSE SubSeq(body, nl + 1, Len(body))
  IN IF t = <<>> \/ t[1] # "fence" THEN t ELSE Trim(RTrim(Trim(rest), "fence"))

\* mistake: braces inside strings count
ScanAll(s) ==
  LET d[i \in 0..Len(s)] ==
        IF i = 0 THEN 0 ELSE d[i - 1] + (IF s[i] = "{" THEN 1 ELSE 0)
                             - (IF s[i] = "}" /\ d[i - 1] > 0 THEN 1 ELSE 0)
  IN [i \in 0..Len(s) |-> [depth |-> d[i], str |-> FALSE, esc |-> FALSE]]
\* the state of first_balanced_object's loop after each token
Scan(s) ==
  LET st[i \in 0..Len(s)] ==
        IF i = 0 THEN [depth |-> 0, str |-> FALSE, esc |-> FALSE]
        ELSE LET p == st[i - 1] IN
             IF p.str
             THEN [p EXCEPT !.esc = ~p.esc /\ s[i] = "esc",
                            !.str = p.esc \/ s[i] # "q"]
             ELSE [p EXCEPT !.str = s[i] = "q",
                            !.depth = IF s[i] = "{" THEN @ + 1
                                      ELSE IF s[i] = "}" /\ @ > 0 THEN @ - 1 ELSE @]
  IN st
\* first_balanced_object: from the first brace to the one that closes it
FirstObject(s) ==
  LET a == Find(s, "{", 1)
      t == SubSeq(s, a, Len(s))
      ends == {i \in DOMAIN t : t[i] = "}" /\ ~Scan(t)[i - 1].str /\ Scan(t)[i].depth = 0}
  IN IF a = 0 \/ ends = {} THEN <<>> ELSE SubSeq(t, 1, Min(ends))

Markup == {"<tc>", "</tc>", "<k>", "</k>", "<v>", "</v>"}
\* the arguments of a tool call block: count, or a refusal on an empty key
Args(s) ==
  LET n[i \in 1..(Len(s) + 1)] ==
        LET k == Find(s, "<k>", i)
            ke == IF k = 0 THEN 0 ELSE Find(s, "</k>", k + 1)
            v == IF ke = 0 THEN 0 ELSE Find(s, "<v>", ke)
            ve == IF v = 0 THEN 0 ELSE Find(s, "</v>", v + 1)
        IN IF v = 0 THEN 0
           ELSE IF ke = k + 1 THEN -1
           ELSE LET more == IF ve = 0 THEN 0 ELSE n[ve]
                IN IF more < 0 THEN more ELSE more + 1
  IN n[1]
\* extract_xml_tool_call: the first block, to its end or the end of the text
ExtractXml(s) ==
  LET a == Find(s, "<tc>", 1)
      e == Find(s, "</tc>", a)
      inner == Trim(LTrim(SubSeq(s, a, IF e = 0 THEN Len(s) ELSE e - 1), "<tc>"))
      k == Find(inner, "<k>", 1)
      name == Trim(IF k = 0 THEN inner ELSE SubSeq(inner, 1, k - 1))
  IN IF name = <<>> \/ ToSet(name) \cap Markup # {} \/ Args(inner) < 0 THEN Null
     ELSE [kind |-> "call", name |-> name, args |-> Args(inner)]
\* strip_tool_markup: every block goes
StripMarkup(s) ==
  LET cut[n \in 0..Len(s)] ==
        IF n = 0 THEN s
        ELSE LET t == cut[n - 1]
                 a == Find(t, "<tc>", 1)
                 e == Find(t, "</tc>", a)
             IN IF a = 0 THEN t
                ELSE SubSeq(t, 1, a - 1)
                     \o (IF e = 0 THEN <<>> ELSE SubSeq(t, e + 1, Len(t)))
  IN Trim(cut[Len(s)])

Final(s) == [kind |-> "final", text |-> s]
\* parse_reply: the readings of a text; what the object says is any of them
ParseReply(s) ==
  LET c == StripFence(s) IN
  IF Find(c, "<tc>", 1) # 0
  THEN {IF ExtractXml(c) # Null THEN ExtractXml(c) ELSE Final(StripMarkup(c))}
  ELSE {Final(Trim(c))} \cup
       (IF FirstObject(c) = <<>> THEN {}
        ELSE {[kind |-> "call", name |-> FirstObject(c), args |-> 0]})
\* outcome_to_reply: the first native call that has a name wins
Named(r) == SelectSeq(r.calls, LAMBDA c : c.name # "")
ReadReply == /\ wstep = "read" /\ wstep' = "done"
             /\ outcome' \in IF Named(result) # <<>>
                             THEN {[kind |-> "native", name |-> Named(result)[1].name]}
                             ELSE ParseReply(result.content)
             /\ UNCHANGED <<seed, params, http, answer, result>>

-----------------------------------------------------------------------------
\* A batch of texts and the vectors of it, which may come back in any order.

\* parse_embedding_response: a stable sort by index
ByIndex(d) == LET before(i, j) == \/ d[i].index < d[j].index
                                  \/ d[i].index = d[j].index /\ i < j
                  order == SetToSortSeq(DOMAIN d, before)
              IN [i \in DOMAIN d |-> d[order[i]].of]
\* the provider's data: each vector with the index of its text, or in order
\* with no index at all
Batches ==
  UNION {{[i \in 1..n |-> [of |-> i, index |-> 0]]} \cup
         {[i \in 1..n |-> [of |-> p[i], index |-> p[i]]] :
            p \in {q \in [1..n -> 1..n] : Cardinality(ToSet(q)) = n}} : n \in 1..MaxBatch}
Embed == /\ wstep = "embed" /\ wstep' = "done"
         /\ \E d \in Batches, expected \in 1..MaxBatch :
              /\ answer' = [provider |-> "vectors", body |-> d]
              /\ result' = expected
              /\ outcome' = IF Len(d) # expected THEN [kind |-> "error"]
                            ELSE [kind |-> "vectors", of |-> ByIndex(d)]
         /\ UNCHANGED <<seed, params, http>>

WireNext == \/ Seed \/ Request \/ Build \/ Respond \/ Parse \/ ReadReply \/ Embed
            \/ \E agent, model, key \in BOOLEAN : ChatBody(agent, model, key)
WireSpec == WireInit /\ [][WireNext]_wireVars

-----------------------------------------------------------------------------
Marks == Cardinality({i \in DOMAIN http.messages :
                        \E j \in DOMAIN http.messages[i].parts :
                          http.messages[i].parts[j].mark})
         + Cardinality({i \in DOMAIN http.tools : http.tools[i].mark})
         + (IF http.systemMark THEN 1 ELSE 0)
\* strings by counting: a quote counts unless an odd run of escapes leads to it
EscRun(s, j) == CHOOSE n \in 0..(j - 1) : /\ \A i \in (j - n)..(j - 1) : s[i] = "esc"
                                         /\ n < j - 1 => s[j - n - 1] # "esc"
Inside(s, i) == Cardinality({j \in 1..(i - 1) : s[j] = "q" /\ EscRun(s, j) % 2 = 0}) % 2 = 1
Count(s, t) == Cardinality({i \in DOMAIN s : s[i] = t /\ ~Inside(s, i)})
\* What the model is told and what it answered survive the way: the opening
\* message names every tool of the catalogue and describes the offered ones
\* through exactly one channel; each message reaches the provider in its
\* place, with no more cache marks than the provider takes; a named tool call
\* is never read as prose, no markup of a tool call is ever spoken, an
\* object is cut out of the text whole; and the vectors of a batch come back
\* in the order of its texts.
WireInv ==
  /\ seed # Null =>
       /\ UNION {seed.overview[g] : g \in DOMAIN seed.overview} = Full
       /\ seed.tools = Offered <=> ~seed.native
       /\ DOMAIN seed.prompts \subseteq DOMAIN seed.overview
       /\ seed.memory = seed.goal
  /\ http # Null =>
       LET shift == Len(http.messages) - Len(params.messages)
       IN /\ Marks <= 4 /\ (http.provider = "openai" => Marks = 0)
          /\ shift = (IF http.provider = "openai" /\ params.system THEN 1 ELSE 0)
          /\ \A i \in DOMAIN params.messages :
               LET got == http.messages[i + shift].parts IN
               /\ Cardinality({j \in DOMAIN got : got[j].kind = "image"})
                    = params.messages[i].images
               /\ params.messages[i].text # "" =>
                    got[1].kind = "text" /\ got[1].text = params.messages[i].text
  /\ wstep = "done" /\ result # Null /\ answer.provider # "vectors" =>
       /\ (\E i \in DOMAIN result.calls : result.calls[i].name # "")
            => outcome.kind = "native"
       /\ outcome.kind = "final" => Find(outcome.text, "<tc>", 1) = 0
       /\ outcome.kind = "call" => /\ outcome.name # <<>>
                                   /\ ToSet(outcome.name) \cap {"<tc>", "<k>"} = {}
       /\ outcome.kind = "call" /\ outcome.name[1] = "{" /\ Find(result.content, "<tc>", 1) = 0 =>
              LET o == outcome.name
              IN (\A i \in DOMAIN o : o[i] = "esc" => Inside(o, i)) =>
                 /\ Count(o, "{") = Count(o, "}") /\ o[Len(o)] = "}"
                 /\ \A k \in 1..(Len(o) - 1) :
                      Count(SubSeq(o, 1, k), "{") > Count(SubSeq(o, 1, k), "}")
  /\ outcome # Null => (outcome.kind = "vectors" =>
         outcome.of = [i \in 1..result |-> i])
=============================================================================
