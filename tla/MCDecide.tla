------------------------------- MODULE MCDecide -------------------------------
(* What decides what is done for the user, for TLC: the rules of             *)
(* automations with the plugin's own serve loop, and in the agent the        *)
(* memory, the tool catalogue, the context of a goal and what is exchanged   *)
(* with a model.  A behaviour is about one of them, part; the others rest.   *)
EXTENDS Automations, SequencesExt, TLC

CONSTANTS None,
          Goals, SessionOf, Sessions, MaxFacts, MaxStamp, MaxFaults, MaxOps,   \* of the memory
          Names, Denied, SecretNames, LaunchNames, PowerfulNames, SendNames,
          DeleteNames, MutatingNames, Plugins, Owner           \* of the tool catalogue

VARIABLES part,      \* the component this behaviour is about
          ms, index, vectors, indexLock, mem, excused, left, faults, ops,
          allow, file, approvals, manifest, found, asked, catalog, step,
          session, stored, recalled, offered, legs, natively, told, reply, traced,
          gstep, status,
          wstep, seed, params, http, answer, result, outcome

memoryVars == <<ms, index, vectors, indexLock, mem, excused, left, faults, ops>>
toolsVars == <<allow, file, approvals, manifest, found, asked, catalog, step>>
turnVars == <<session, stored, recalled, offered, legs, natively, told, reply, traced,
              gstep, status>>
wireVars == <<wstep, seed, params, http, answer, result, outcome>>
mcVars == <<part, vars, clockVars, memoryVars, toolsVars, turnVars, wireVars>>

\* the variables of the components a behaviour is not about
memoryOff == /\ ms = None /\ index = None /\ vectors = None
             /\ indexLock = None /\ mem = None /\ excused = None
             /\ left = None /\ faults = None /\ ops = None
toolsOff == /\ allow = None /\ file = None /\ approvals = None
            /\ manifest = None /\ found = None /\ asked = None
            /\ catalog = None /\ step = None
turnOff == /\ session = None /\ stored = None /\ recalled = None
           /\ offered = None /\ legs = None /\ natively = None
           /\ told = None /\ reply = None /\ traced = None
           /\ gstep = None /\ status = None
wireOff == /\ wstep = None /\ seed = None /\ params = None /\ http = None
           /\ answer = None /\ result = None /\ outcome = None

Rule(type, want, confirm, cooldown) ==
    [enabled |-> TRUE, type |-> type, want |-> want, confirm |-> confirm, cooldown |-> cooldown]

\* A rule on "a" with a cooldown, the same behind the gate and sent as disabled,
\* and a rule on "b" for one payload.
SomeForms == {Rule("a", AnyPayload, FALSE, 2),
              [Rule("a", AnyPayload, TRUE, 2) EXCEPT !.enabled = FALSE],
              Rule("b", "x", FALSE, 0)}
SomeEvents == [type : {"a", "b", "c"}, payload : {"x"}] \cup {[type |-> "b", payload |-> "y"]}

TaskSymmetry == Permutations(Tasks)

-----------------------------------------------------------------------------
GoalSession == [g1 |-> "s1", g2 |-> "s2"]
\* an action of each risk, one that is never offered and one that only reads
ToolNames == {"secret_get", "launch", "fs_write", "email_send", "note_delete", "db_set",
              "fs_read", "chat_delete"}
ToolOwner == [n \in ToolNames |-> IF n = "secret_get" THEN "p1" ELSE "p2"]
Mm == INSTANCE AgentKnowledge WITH MaxTime <- MaxStamp
ASSUME KnowledgeBounds == Mm!KnowledgeAssumption
memoryInit == /\ part = "memory" /\ Mm!MemoryInit
              /\ Init /\ ClockInit /\ toolsOff /\ turnOff
              /\ wireOff
memoryNext == /\ part = "memory" /\ Mm!MemoryNext
              /\ UNCHANGED <<part, vars, clockVars, toolsVars, turnVars, wireVars>>

toolsInit == /\ part = "tools" /\ Mm!ToolsInit
             /\ Init /\ ClockInit /\ memoryOff /\ turnOff
             /\ wireOff
toolsNext == /\ part = "tools" /\ Mm!ToolsNext
             /\ UNCHANGED <<part, vars, clockVars, memoryVars, turnVars, wireVars>>

-----------------------------------------------------------------------------
TurnTools == {"tg_a", "fs_c", "x", "y"}
ToolTopic == [n \in TurnTools |-> CASE n = "tg_a" -> "tg" [] n = "fs_c" -> "fs" [] OTHER -> "any"]
Catalogue == {"launch", "launch_list", "tg_a"}
ToolGroup == [n \in Catalogue |-> IF n = "tg_a" THEN "telegram" ELSE "desktop"]
Layer(e, f, d) == [env |-> e, file |-> f, default |-> d]
PromptLayers == {Layer(None, "blank", "default"), Layer("blank", "file", None),
                 Layer("env", "file", "default"), Layer(None, "file", None),
                 Layer(None, None, None)}
Said(t, i) == [role |-> "user", text |-> t, images |-> i]
Transcripts == {<<Said("long", 0), Said("", 2)>>, <<Said("long", 1)>>,
                <<Said("short", 0), Said("short", 1)>>, <<Said("", 0)>>}
\* texts of a model: braces in and out of strings, tool call markup that is
\* whole, cut short or nested, and fenced blocks
Braces == BoundedSeq({"{", "}", "q", "esc", "w"}, 4) \cup
  {<<"{", "q", "}", "q", "}">>, <<"{", "q", "esc", "q", "}", "}">>,
   <<"{", "{", "q", "esc", "esc", "q", "}", "}">>}
Pair == {<<"<k>", "w", "</k>", "<v>", "w", "</v>">>, <<"<k>", "</k>", "<v>", "w", "</v>">>,
         <<"<k>", "w">>, <<"<k>", "w", "</k>">>, <<"<k>", "w", "</k>", "<v>", "w">>, <<>>}
CallTexts == {p \o <<"<tc>">> \o n \o b \o c \o q :
  p \in {<<>>, <<"w">>, <<"</tc>">>}, n \in {<<>>, <<"w">>, <<"</k>">>, <<"<tc>", "w">>},
  b \in Pair, c \in Pair,
  q \in {<<>>, <<"</tc>">>, <<"</tc>", "w">>, <<"</tc>", "<tc>">>,
         <<"</tc>", "<tc>", "w", "</tc>", "w">>}}
Fenced == {<<"fence">> \o l \o <<"nl">> \o t \o e : l \in {<<>>, <<"w">>},
  t \in {<<"{", "}">>, <<"w">>, <<>>, <<"<tc>", "w">>},
  e \in {<<>>, <<"nl", "fence">>, <<"fence">>}} \cup {<<"fence", "{", "}", "fence">>}
ModelTexts == Braces \cup CallTexts \cup Fenced
Tn == INSTANCE AgentTurn WITH HistoryMax <- 4, TextMax <- 2, MaxTurns <- 2,
  Fallback <- "alt", Tools <- TurnTools, TopicOf <- ToolTopic, Full <- Catalogue,
  Offered <- {"launch", "launch_list"}, GroupName <- ToolGroup,
  Layers <- PromptLayers, Messages <- Transcripts, Contents <- ModelTexts,
  MaxBatch <- 3, Null <- None
turnInit == /\ part = "turn" /\ Tn!TurnInit
            /\ Init /\ ClockInit /\ memoryOff /\ toolsOff
            /\ wireOff
turnNext == /\ part = "turn" /\ Tn!TurnNext
            /\ UNCHANGED <<part, vars, clockVars, memoryVars, toolsVars, wireVars>>

wireInit == /\ part = "wire" /\ Tn!WireInit
            /\ Init /\ ClockInit /\ memoryOff /\ toolsOff
            /\ turnOff
wireNext == /\ part = "wire" /\ Tn!WireNext
            /\ UNCHANGED <<part, vars, clockVars, memoryVars, toolsVars, turnVars>>

-----------------------------------------------------------------------------
rulesInit == /\ part = "rules"
             /\ Init /\ ClockInit /\ memoryOff /\ toolsOff
             /\ turnOff /\ wireOff
rulesNext == /\ part = "rules" /\ Next
             /\ UNCHANGED <<part, clockVars, memoryVars, toolsVars, turnVars, wireVars>>

clockInit == /\ part = "clock"
             /\ Init /\ ClockInit /\ memoryOff /\ toolsOff
             /\ turnOff /\ wireOff
clockNext == /\ part = "clock" /\ ClockNext
             /\ UNCHANGED <<part, vars, memoryVars, toolsVars, turnVars, wireVars>>

MCInit == rulesInit \/ clockInit \/ memoryInit \/ toolsInit \/ turnInit \/ wireInit
MCNext == rulesNext \/ clockNext \/ memoryNext \/ toolsNext \/ turnNext \/ wireNext
MCSpec == MCInit /\ [][MCNext]_mcVars

\* Facts are named by the index or excused by a failed call, and a wipe leaves
\* none of its session behind (memory.rs).
MemoryNamed == part = "memory" => Mm!MemoryNamed
\* No merge of file, approvals and manifests offers a tool with less caution
\* than its declarations ask for (tools.rs, discovery).
ConfirmationKept == part = "tools" => Mm!ConfirmationKept
\* A goal's context is the newest that fits and holds no redacted text, and what
\* is asked of a model and read from its answer is what the transcript and the
\* answer say, with either provider (AgentTurn).
ModelInv == /\ part = "turn" => Tn!TurnInv
            /\ part = "wire" => Tn!WireInv
=============================================================================
