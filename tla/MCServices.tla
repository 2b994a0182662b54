------------------------------ MODULE MCServices ------------------------------
(* The plugins that reach other services or keep what they bring back, for  *)
(* TLC: network, telegram, mail, search, weather and github, the model      *)
(* provider, the vector store, files, secrets, monitors, the clipboard and  *)
(* calendar files.  A behaviour is about one of them, part.                 *)
EXTENDS Network, VectorDb, TLC

VARIABLES part,      \* the component this behaviour is about
          \* the variables of that component, in the order of its own list of
          \* them; those of network and of the vector store come with their modules
          m1, m2, m3, m4, m5, m6, m7, m8, m9, m10, m11, m12, m13, m14, m15

\* what a component with n variables leaves unused
after14 == <<m15>>
after12 == <<m13, m14, m15>>
after11 == <<m12, m13, m14, m15>>
after10 == <<m11, m12, m13, m14, m15>>
after9 == <<m10, m11, m12, m13, m14, m15>>
after1 == <<m2, m3, m4, m5, m6, m7, m8, m9, m10, m11, m12, m13, m14, m15>>
after0 == <<m1, m2, m3, m4, m5, m6, m7, m8, m9, m10, m11, m12, m13, m14, m15>>
mcVars == <<part, networkVars, vectorVars, migrateVars, after0>>

\* the components a behaviour is not about: idle
networkOff == NetworkInit
vectorOff ==
  /\ coll = [c \in Colls |-> Nil] /\ vrows = [c \in Colls |-> [i \in VectorIds |-> Nil]]
  /\ shadow = vrows /\ cached = coll /\ bytes = [c \in Colls |-> 0] /\ vtotal = 0
  /\ writer = coll /\ reemb = [c \in Colls |-> NoReembed]
  /\ vtask = [t \in VectorTasks |-> NoRequest] /\ vops = 0 /\ crashes = 0
migrateOff ==
  /\ vfile = [version |-> 0, vectors |-> "none", collections |-> "none", rows |-> <<>>]
  /\ backup = NoFile /\ scratch = NoFile /\ opening = "idle" /\ work = <<>>
  /\ vpool = FALSE /\ origin = <<>> /\ edited = FALSE /\ opens = 0 /\ edits = 0
\* variables a component with n of them leaves unused
off14 == m15 = None
off12 == m13 = None /\ m14 = None /\ off14
off11 == m12 = None /\ off12
off10 == m11 = None /\ off11
off9 == m10 = None /\ off10
off1 == /\ m2 = None /\ m3 = None /\ m4 = None /\ m5 = None
        /\ m6 = None /\ m7 = None /\ m8 = None /\ m9 = None /\ off9
off0 == m1 = None /\ off1

Symmetry == Permutations(TaskIds)

-----------------------------------------------------------------------------
\* requests of two callers: a name with a public and a private address, and a
\* private address itself, reached directly and by a redirect
Web == [name |-> "web", lit |-> FALSE, ips |-> {"pub", "priv"}]
Ip == [name |-> "ip", lit |-> TRUE, ips |-> {"priv"}]
Req(c, act, chain) ==
  [caller |-> c, action |-> act, chain |-> chain, wellformed |-> TRUE,
   text |-> FALSE, b64 |-> FALSE, decodes |-> TRUE, parts |-> {}, body |-> 0, retries |-> 0,
   follow |-> FALSE, redirects |-> 9, ttl |-> 0, cookies |-> FALSE, size |-> 1]
WebHosts == {Web, Ip}
WebRequests == LET alice == "alice" bob == "bob" IN {
  Req(alice, "stream", <<Web>>),
  Req(alice, "stats", <<Web>>), Req(bob, "unknown", <<Web>>),
  [Req(alice, "http", <<Web>>) EXCEPT !.ttl = 1, !.cookies = TRUE],
  [Req(alice, "http", <<Web>>) EXCEPT !.ttl = 2, !.body = 1, !.size = 2],
  [Req(bob, "http", <<Web>>) EXCEPT !.ttl = 1, !.retries = 9, !.cookies = TRUE],
  [Req(bob, "http", <<Web, Ip>>) EXCEPT !.follow = TRUE],
  [Req(bob, "http", <<Web, Web>>) EXCEPT !.parts = {"value", "badfile"}],
  [Req(bob, "http", <<Ip>>) EXCEPT !.parts = {"both"}]}
networkInit == /\ part = "network" /\ NetworkInit
               /\ vectorOff /\ migrateOff /\ off0
networkNext == /\ part = "network" /\ NetworkNext
               /\ UNCHANGED <<part, vectorVars, migrateVars, after0>>

-----------------------------------------------------------------------------
ModelDims == [old |-> 1, new |-> 2, fake |-> 2]
Doc(text, d) == [text |-> text,
                 vec |-> IF d = 0 THEN None ELSE [m |-> "given", d |-> d, of |-> ""]]
SomeDocs == {Doc("", 0), Doc("b", 0), Doc("", 1)}
SomeBatches == {[i1 |-> Doc("b", 0), i2 |-> Doc("a", 2)]}
\* the collections are alike: the one that varies is the first, of the old model, whose
\* vectors may be as long as the new one's, or of vectors the callers gave
vectorInit == /\ part = "vector" /\ VectorInit
              /\ coll["c2"] = [dim |-> ModelDims.new, model |-> "new"]
              /\ \/ /\ coll["c1"].model = "old"
                    /\ coll["c1"].dim = 2 \/ vrows["c1"]["i1"].text = "a"
                 \/ coll["c1"] = [dim |-> 1, model |-> ""] /\ vrows["c1"]["i1"].text = "a"
              /\ networkOff /\ migrateOff /\ off0
vectorNext == /\ part = "vector" /\ VectorNext
              /\ UNCHANGED <<part, networkVars, migrateVars, after0>>

migrateInit == /\ part = "migrate" /\ MigrateInit
               /\ networkOff /\ vectorOff /\ off0
migrateNext == /\ part = "migrate" /\ MigrateNext
               /\ UNCHANGED <<part, networkVars, vectorVars, after0>>

-----------------------------------------------------------------------------
\* a declared model, an agent of a model that is gone, and two discovered
\* models, one under the id of the declared one
AiConfig == [m |-> [prov |-> "anthropic", base |-> "", key |-> "hk", def |-> FALSE]]
AgentModels == [a |-> "m", d |-> "gone"]
ModelSources == <<[prov |-> "openai", id |-> "o", base |-> "ob", key |-> "ok"],
                  [prov |-> "ollama", id |-> "m", base |-> "ob", key |-> "ok"]>>
As == INSTANCE Ai WITH Providers <- {"anthropic", "openai"}, MaxEvents <- 5,
  MaxErrorBody <- 2, Reqs <- {"r1", "r2"}, Ids <- {"m", "o"}, Config <- AiConfig,
  AgentModel <- AgentModels, DefaultAgent <- "a", Sources <- ModelSources,
  MaxCalls <- 5, MaxRestarts <- 1,
  spc <- m1, provider <- m2, parser <- m3, upstream <- m4, routed <- m5,
  events <- m6, fed <- m7, entry <- m8, cancel <- m9, evicted <- m10, out <- m11,
  body <- m12, closing <- m13, usage <- m14,
  models <- m1, started <- m2, seeded <- m3, ctask <- m4, pend <- m5, wire <- m6,
  calls <- m7, replies <- m8, restarts <- m9
aistreamInit == /\ part = "aistream" /\ As!StreamInit
                /\ networkOff /\ vectorOff /\ migrateOff /\ off14
aistreamNext == /\ part = "aistream" /\ As!StreamNext
                /\ UNCHANGED <<part, networkVars, vectorVars, migrateVars, after14>>

aicallsInit == /\ part = "aicalls" /\ As!CallsInit
               /\ networkOff /\ vectorOff /\ migrateOff /\ off9
aicallsNext == /\ part = "aicalls" /\ As!CallsNext
               /\ UNCHANGED <<part, networkVars, vectorVars, migrateVars, after9>>

-----------------------------------------------------------------------------
\* 99 stands for a coordinate that is not given
AskedPlaces == {[lat |-> p[1], lon |-> p[2]] :
                  p \in {<<99, 99>>, <<10, 15>>, <<99, 15>>, <<91, 15>>}}
Tg == INSTANCE Accounts WITH Accounts <- <<"a">>, Unknown <- "x",
  Callers <- TaskIds, Capacity <- 1, Threshold <- 2, Cooldown <- 1, Ttl <- 1,
  MaxErrors <- 1, QueueCap <- 1, MaxTime <- 1, MaxRequests <- 2,
  Handles <- {"h", "g"}, Allowed <- {"h"}, EnvSet <- {"h"}, Home <- <<50, 20>>,
  Places <- AskedPlaces, Mails <- {1, 2}, Limit <- 1, Stub <- FALSE,
  MaxAttempts <- 3, GhList <- {"g"},
  pool <- m1, ttask <- m2, antiban <- m3, dialogs <- m4, sends <- m5,
  outbound <- m6, updates <- m7, loop <- m8, listener <- m9, clock <- m10,
  requests <- m11,
  queue <- m1, asked <- m2, cur <- m3, vault <- m4, served <- m5, delivered <- m6,
  broken <- m7, used <- m8, queried <- m9, listed <- m10, gh <- m11
telegramInit == /\ part = "telegram" /\ Tg!TelegramInit
                /\ networkOff /\ vectorOff /\ migrateOff /\ off11
telegramNext == /\ part = "telegram" /\ Tg!TelegramNext
                /\ UNCHANGED <<part, networkVars, vectorVars, migrateVars, after11>>

outboundInit == /\ part = "outbound" /\ Tg!OutboundInit
                /\ networkOff /\ vectorOff /\ migrateOff /\ off11
outboundNext == /\ part = "outbound" /\ Tg!OutboundNext
                /\ UNCHANGED <<part, networkVars, vectorVars, migrateVars, after11>>

-----------------------------------------------------------------------------
FeedChannels == {[title |-> "x", links |-> <<"l", "">>], [title |-> "", links |-> <<"l", "m">>]}
AlertRules == <<[metric |-> "battery", op |-> "<", limit |-> 2],
                [metric |-> "disk", op |-> ">", limit |-> 2]>>
HostShows(y, d, c) == [figures |-> [battery |-> y, disk |-> d], charging |-> c]
HostSamples == {HostShows(1, 3, FALSE), HostShows(3, 1, FALSE), HostShows(1, 2, TRUE)}
Up == INSTANCE Monitors WITH Utasks <- TaskIds, Urls <- {"u"}, Threshold <- 2,
  Watched <- <<"u", "v">>, Numbered <- 8, Stamps <- {1},
  MaxChecks <- 1, MaxTargets <- 1, MaxRuns <- 4, MaxFaults <- 1, Rtasks <- TaskIds,
  FeedUrls <- {"u", "v"}, Channels <- FeedChannels, MaxFeeds <- 2, MaxArticles <- 2,
  MaxAsks <- 4, MaxLost <- 1, Mtasks <- TaskIds, Rules <- AlertRules,
  Samples <- HostSamples, Margin <- 1, MaxSamples <- 1, MaxTicks <- 3, MaxTime <- 1,
  MaxErrs <- 1,
  targets <- m1, outages <- m2, checks <- m3, ids <- m4, utask <- m5, gone <- m6,
  failed <- m7, alarmed <- m8, doubled <- m9, early <- m10, told <- m11,
  unsaid <- m12, overlapped <- m13, uruns <- m14, ufaults <- m15,
  feeds <- m1, articles <- m2, rids <- m3, rtask <- m4, removed <- m5,
  twoFetches <- m6, crossed <- m7, asks <- m8, lost <- m9,
  samples <- m1, sampled <- m2, mtask <- m3, raised <- m4, seen <- m5,
  announced <- m6, trimmed <- m7, mnow <- m8, ticks <- m9, errs <- m10
uptimeInit == /\ part = "uptime" /\ Up!UptimeInit
              /\ networkOff /\ vectorOff /\ migrateOff
uptimeNext == /\ part = "uptime" /\ Up!UptimeNext
              /\ UNCHANGED <<part, networkVars, vectorVars, migrateVars>>

feedsInit == /\ part = "feeds" /\ Up!FeedsInit
             /\ networkOff /\ vectorOff /\ migrateOff /\ off9
feedsNext == /\ part = "feeds" /\ Up!FeedsNext
             /\ UNCHANGED <<part, networkVars, vectorVars, migrateVars, after9>>

metricsInit == /\ part = "metrics" /\ Up!MetricsInit
               /\ networkOff /\ vectorOff /\ migrateOff /\ off10
metricsNext == /\ part = "metrics" /\ Up!MetricsNext
               /\ UNCHANGED <<part, networkVars, vectorVars, migrateVars, after10>>

-----------------------------------------------------------------------------
XSession == [wayland |-> "", type |-> "tty", display |-> ":0"]
ClipContents == {[t |-> "a", len |-> 1, utf8 |-> TRUE], [t |-> "big", len |-> 3, utf8 |-> TRUE]}
\* -1 stands for a value that is not given
MicSettings == [rate |-> 44100, channels |-> 9, chunk |-> -1, pinned |-> "", device |-> "card"]
Mic(r, c, d) == [target |-> "stt", rate |-> r, channels |-> c, chunk |-> -1, format |-> "",
                 stream |-> -1, device |-> d]
MicRequests == {Mic(-1, -1, ""), Mic(8000, 8, "usb"), Mic(7999, 1, "")}
Cl == INSTANCE Providers WITH Ctasks <- TaskIds, Display <- XSession,
  Pref <- "auto", Programs <- {"xsel", "xclip", "parec"}, Contents <- ClipContents,
  MaxBytes <- 2, Numbered <- 8, History <- TRUE, HistLimit <- 1, MicEnv <- MicSettings,
  MicAsked <- MicRequests, MaxCtasks <- 3, MaxCtime <- 1, MaxCfaults <- 1,
  live <- m1, boarded <- m2, clips <- m3, cid <- m4, ctask <- m5, applied <- m6,
  pruned <- m7, erased <- m8, recorder <- m9, cnow <- m10, cruns <- m11,
  cfaults <- m12
clipboardInit == /\ part = "clipboard" /\ Cl!Init
                 /\ networkOff /\ vectorOff /\ migrateOff /\ off12
clipboardNext == /\ part = "clipboard" /\ Cl!Next
                 /\ UNCHANGED <<part, networkVars, vectorVars, migrateVars, after12>>

-----------------------------------------------------------------------------
\* two roots and one inside another, a directory outside with a file, a link that
\* leads out of a root
Dir == [kind |-> "dir", to |-> <<>>, data |-> ""]
File(d) == [kind |-> "file", to |-> <<>>, data |-> d]
StartTree == (<<>> :> Dir) @@ (<<"r">> :> Dir) @@ (<<"s">> :> Dir) @@ (<<"o">> :> Dir)
  @@ (<<"o", "f">> :> File("secret")) @@ (<<"r", "a">> :> Dir)
  @@ (<<"r", "a", "f">> :> File("one")) @@ (<<"r", "f">> :> File("two"))
  @@ (<<"r", "l">> :> [kind |-> "link", to |-> <<"o">>, data |-> ""])
FilePaths == {<<"s">>, <<"r", "f">>, <<"r", "a">>, <<"r", "a", "f">>, <<"r", "l", "f">>,
              <<"s", "m">>, <<"s", "m", "f">>, <<"s", "m", "..", "..", "o", "f">>}
Fl == INSTANCE Storage WITH Roots <- {<<"r">>, <<"s">>, <<"r", "a">>}, Ftasks <- TaskIds,
  Tree <- StartTree, Paths <- FilePaths, LinkPaths <- {<<"s", "m">>},
  Targets <- {<<"o", "n">>}, MaxFops <- 2, Stasks <- TaskIds,
  Plugins <- {"c", "d", ""}, Names <- {"k", "l"}, Values <- {"1"}, MaxSets <- 2,
  MaxRestarts <- 1,
  tree <- m1, trash <- m2, infos <- m3, outside <- m4, spent <- m5, raced <- m6,
  shown <- m7, ftask <- m8, fops <- m9,
  stask <- m1, vaults <- m2, registry <- m3, data <- m4, disk <- m5, tmp <- m6,
  stored <- m7, settled <- m8, split <- m9, got <- m10, starts <- m11, sets <- m12
filesInit == /\ part = "files" /\ Fl!FilesInit
             /\ networkOff /\ vectorOff /\ migrateOff /\ off9
filesNext == /\ part = "files" /\ Fl!FilesNext
             /\ UNCHANGED <<part, networkVars, vectorVars, migrateVars, after9>>

secretsInit == /\ part = "secrets" /\ Fl!SecretsInit
               /\ networkOff /\ vectorOff /\ migrateOff /\ off12
secretsNext == /\ part = "secrets" /\ Fl!SecretsNext
               /\ UNCHANGED <<part, networkVars, vectorVars, migrateVars, after12>>

-----------------------------------------------------------------------------
\* days around the ends of leap and common centuries; -1 is a rule without
\* an end
CalendarDays == -760..-700 \cup 10940..11020 \cup 47530..47560 \cup -25540..-25500
RepeatRules ==
  {[freq |-> f, interval |-> i, byday |-> d, until |-> u, count |-> c, tod |-> 0] :
     f \in {"NONE", "DAILY", "WEEKLY", "MONTHLY", "YEARLY"}, i \in 1..2, d \in {{}, {0, 4}},
     u \in {-1, 79053}, c \in {-1, 0, 1, 3}}
Ic == INSTANCE Ics WITH DayLen <- 4, Sec <- 2, Days <- CalendarDays,
  Firsts <- {79012, 79022}, Rules <- RepeatRules, WindowStart <- 79016,
  WindowEnd <- 79293, MaxDocs <- 50, FoldAt <- 5,
  Alphabet <- {"a", "n", "esc", ";", "CR", "LF"}, MaxText <- 3, MaxLine <- 9,
  ics <- m1
icsInit == /\ part = "ics" /\ Ic!Init
           /\ networkOff /\ vectorOff /\ migrateOff /\ off1
icsNext == /\ part = "ics" /\ Ic!Next
           /\ UNCHANGED <<part, networkVars, vectorVars, migrateVars, after1>>

-----------------------------------------------------------------------------
MCInit == networkInit \/ vectorInit \/ migrateInit \/ aistreamInit \/ aicallsInit \/
        telegramInit \/ outboundInit \/ uptimeInit \/ feedsInit \/
        metricsInit \/ clipboardInit \/ filesInit \/ secretsInit \/
        icsInit
MCNext == networkNext \/ vectorNext \/ migrateNext \/ aistreamNext \/ aicallsNext \/
        telegramNext \/ outboundNext \/ uptimeNext \/ feedsNext \/
        metricsNext \/ clipboardNext \/ filesNext \/ secretsNext \/
        icsNext
MCSpec == MCInit /\ [][MCNext]_mcVars

\* What is sent in the user's name: a message or mail goes out as often as it
\* was asked for, through an allowed account and within the limits that keep
\* the account alive (Accounts).
AccountsInv == /\ part = "telegram" => Tg!TelegramInv
               /\ part = "outbound" => Tg!OutboundInv
\* A completion reaches its caller whole and once, through the endpoint and
\* with the key its model is declared with (Ai).
AiInv == /\ part = "aistream" => As!StreamInv
         /\ part = "aicalls" => As!CallsInv
\* Nothing outside the allowed roots is read or changed, and no plugin
\* reads another's secrets (Storage).
HeldInv == /\ part = "files" => Fl!FilesInv
           /\ part = "secrets" => Fl!SecretsInv
\* What is watched is told once: outages, articles, alarms, clips and the
\* occurrences of a calendar file (Monitors, Providers, Ics).
WatchInv == /\ part = "uptime" => Up!UptimeInv
            /\ part = "feeds" => Up!FeedsInv
            /\ part = "metrics" => Up!MetricsInv
            /\ part = "clipboard" => Cl!ProvidersInv
            /\ part = "ics" => Ic!IcsInv
=============================================================================
