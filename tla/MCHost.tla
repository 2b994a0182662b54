-------------------------------- MODULE MCHost --------------------------------
(* The plugins that drive the user's machine, for TLC: speech, sound and    *)
(* media, the phone, recordings, settings, notifications, launching,        *)
(* hotkeys and devices.  A behaviour is about one of them, part.            *)
EXTENDS Integers, Sequences, FiniteSets, TLC

CONSTANTS None

VARIABLES part,      \* the component this behaviour is about
          player, stream, watched, lastChange, rq, restarted, touched, served, world,
          host, inbox, served1, model, engine, say, packets, sentKeys, answer, spoken,
          restarts1, recog, models1, ears, accepted, job, tmp, told, usedKeys,
          heard, jobs, chunks, reboots,
          clips, procs, temps, reused, sms, plays,
          npc, nreq, notifyInbox, scratch, shown, notifyHeard, audio, pushed, numbered,
          sent, deleted, nnow, ncrashes,
          disk, lcache, lpc, cmd, started, launcherAnswer, lastOn, launches, changes,
          lnow,
          ph, inner, camera, slot, shots, clients, pump, latest, photos, helper, cams,
          reqs,
          systemHost, backends, dev, sreq, sdone, outside, srequests,
          client, loops, pending, mq, subs, mqttSent, received, devices, answers,
          unanswered, commands,
          session, tools, captureSlot, rec, finishing, armed, shot, files, given,
          captureTemps, cms, starts, captureShots,
          hbackend, store, hreq, cmds, worker, hotkeySession, sessions, signals, events,
          replies, mirrored, down, published, binds, keys

mediaVars == <<player, stream, watched, lastChange, rq, restarted, touched, served, world>>
speechVars == <<host, inbox, served1, model, engine, say, packets, sentKeys, answer, spoken,
                restarts1, recog, models1, ears, accepted, job, tmp, told,
                usedKeys, heard, jobs, chunks, reboots>>
soundVars == <<clips, procs, temps, reused, sms, plays>>
notifyVars == <<npc, nreq, notifyInbox, scratch, shown, notifyHeard, audio, pushed, numbered,
                sent, deleted, nnow, ncrashes>>
launcherVars == <<disk, lcache, lpc, cmd, started, launcherAnswer, lastOn, launches, changes,
                  lnow>>
phoneVars == <<ph, inner, camera, slot, shots, clients, pump, latest, photos, helper, cams,
               reqs>>
systemVars == <<systemHost, backends, dev, sreq, sdone, outside, srequests>>
mqttVars == <<client, loops, pending, mq, subs, mqttSent, received, devices, answers,
              unanswered, commands>>
captureVars == <<session, tools, captureSlot, rec, finishing, armed, shot, files, given,
                 captureTemps, cms, starts, captureShots>>
hotkeyVars == <<hbackend, store, hreq, cmds, worker, hotkeySession, sessions, signals, events,
                replies, mirrored, down, published, binds, keys>>
vars == <<part, mediaVars, speechVars, soundVars, notifyVars, launcherVars, phoneVars,
          systemVars, mqttVars, captureVars, hotkeyVars>>

\* the variables of the components a behaviour is not about
mediaOff == /\ player = None /\ stream = None /\ watched = None
            /\ lastChange = None /\ rq = None /\ restarted = None
            /\ touched = None /\ served = None /\ world = None
speechOff == /\ host = None /\ inbox = None /\ served1 = None /\ model = None
             /\ engine = None /\ say = None /\ packets = None
             /\ sentKeys = None /\ answer = None
             /\ spoken = None /\ restarts1 = None
             /\ recog = None /\ models1 = None /\ ears = None
             /\ accepted = None /\ job = None /\ tmp = None
             /\ told = None /\ usedKeys = None /\ heard = None
             /\ jobs = None /\ chunks = None /\ reboots = None
soundOff == /\ clips = None /\ procs = None /\ temps = None /\ reused = None
            /\ sms = None /\ plays = None
notifyOff == /\ npc = None /\ nreq = None /\ notifyInbox = None
             /\ scratch = None /\ shown = None
             /\ notifyHeard = None /\ audio = None
             /\ pushed = None /\ numbered = None /\ sent = None
             /\ deleted = None /\ nnow = None /\ ncrashes = None
launcherOff == /\ disk = None /\ lcache = None /\ lpc = None /\ cmd = None
               /\ started = None /\ launcherAnswer = None
               /\ lastOn = None /\ launches = None
               /\ changes = None /\ lnow = None
phoneOff == /\ ph = None /\ inner = None /\ camera = None /\ slot = None
            /\ shots = None /\ clients = None /\ pump = None
            /\ latest = None /\ photos = None /\ helper = None
            /\ cams = None /\ reqs = None
systemOff == /\ systemHost = None /\ backends = None /\ dev = None
             /\ sreq = None /\ sdone = None /\ outside = None
             /\ srequests = None
mqttOff == /\ client = None /\ loops = None /\ pending = None /\ mq = None
           /\ subs = None /\ mqttSent = None /\ received = None
           /\ devices = None /\ answers = None
           /\ unanswered = None /\ commands = None
captureOff == /\ session = None /\ tools = None /\ captureSlot = None
              /\ rec = None /\ finishing = None /\ armed = None
              /\ shot = None /\ files = None /\ given = None
              /\ captureTemps = None /\ cms = None
              /\ starts = None /\ captureShots = None
hotkeyOff == /\ hbackend = None /\ store = None /\ hreq = None /\ cmds = None
             /\ worker = None /\ hotkeySession = None
             /\ sessions = None /\ signals = None
             /\ events = None /\ replies = None
             /\ mirrored = None /\ down = None
             /\ published = None /\ binds = None /\ keys = None

-----------------------------------------------------------------------------
\* two players; a stream of one of them in the process tree, both by name
MediaPlayers == <<"p", "q">>
StreamPid == [s1 |-> 4, s3 |-> 9]
ParentPid == [n \in 0..9 |-> IF n = 4 THEN 3 ELSE IF n = 3 THEN 2 ELSE 1]
PlayerPid == [p |-> 2, q |-> 5]
StreamNamed == {<<"s1", "p">>, <<"s3", "p">>}
Au == INSTANCE Audio WITH Players <- MediaPlayers, Allowed <- {"p", "q"},
  Streams <- {"s1", "s3"}, PidOf <- StreamPid, Parent <- ParentPid,
  OwnerPid <- PlayerPid, MaxHops <- 2, Named <- StreamNamed, Sinks <- {"a", "b"},
  MaxRequests <- 1, MaxWorld <- 1,
  Installed <- {"aplay", "ffplay"}, Pinned <- "", DefaultDevice <- TRUE,
  MaxPlays <- 3, MaxMs <- 1
mediaInit == /\ part = "media" /\ Au!MediaInit
             /\ speechOff /\ soundOff /\ notifyOff /\ launcherOff
             /\ phoneOff /\ systemOff /\ mqttOff /\ captureOff
             /\ hotkeyOff
mediaNext == /\ part = "media" /\ Au!MediaNext
             /\ UNCHANGED <<part, speechVars, soundVars, notifyVars, launcherVars, phoneVars, systemVars,
                             mqttVars, captureVars, hotkeyVars>>

-----------------------------------------------------------------------------
\* texts over the characters the splitter tells apart
AnyTexts == UNION {[1..n -> {".", "!", "~", "a", "A", "1", " "}] : n \in 1..3}
            \cup {<<"a", "a", ".", "1", ".", "1">>, <<"1", ".", "1", "!">>}
SpokenTexts == {<<"a", "!", " ", "A">>, <<"!", "~", "A">>}
Voices == [heart |-> 0, bella |-> 2]
Sp == INSTANCE Speech WITH Texts <- SpokenTexts, SplitTexts <- AnyTexts,
  Abbreviations <- {<<"a", "a">>}, Kinds <- {"kokoro", "x"}, Speakers <- 1,
  NamedVoices <- Voices, ModelRate <- 22050, OpusRates <- {24000},
  AllowedKeys <- {"k"}, VaultKeys <- {"k", "m"}, EnvKeys <- {"m"}, MaxPackets <- 2,
  MaxSpoken <- 2, MaxRestarts <- 1, StreamIds <- {1}, Rates <- {16},
  START_STREAK <- 2, SilenceMs <- 3, MinSpeechMs <- 5, Vad <- TRUE,
  ModelTypes <- {"transducer"}, MaxChunks <- 3, MaxJobs <- 2, MaxReboots <- 1,
  MaxInbox <- 1, MaxMail <- 4
speechInit == /\ part = "speech" /\ Sp!Init
              /\ mediaOff /\ soundOff /\ notifyOff /\ launcherOff
              /\ phoneOff /\ systemOff /\ mqttOff /\ captureOff
              /\ hotkeyOff
speechNext == /\ part = "speech" /\ Sp!Next
              /\ UNCHANGED <<part, mediaVars, soundVars, notifyVars, launcherVars, phoneVars, systemVars,
                              mqttVars, captureVars, hotkeyVars>>

-----------------------------------------------------------------------------
soundInit == /\ part = "sound" /\ Au!SoundInit
             /\ mediaOff /\ speechOff /\ notifyOff /\ launcherOff
             /\ phoneOff /\ systemOff /\ mqttOff /\ captureOff
             /\ hotkeyOff
soundNext == /\ part = "sound" /\ Au!SoundNext
             /\ UNCHANGED <<part, mediaVars, speechVars, notifyVars, launcherVars, phoneVars, systemVars,
                             mqttVars, captureVars, hotkeyVars>>

-----------------------------------------------------------------------------
PushServers == <<"h1", "h2">>
\* one id twice, ids that differ in case, a hidden and a broken file
DesktopFile(d, i, n, ok, hid, term) ==
  [dir |-> d, id |-> i, name |-> n, ok |-> ok, hidden |-> hid, terminal |-> term]
DesktopFiles == {DesktopFile(1, "app", "App", TRUE, FALSE, TRUE),
                 DesktopFile(2, "app", "game", TRUE, FALSE, FALSE),
                 DesktopFile(1, "App", "x", TRUE, TRUE, FALSE),
                 DesktopFile(1, "x", "x", FALSE, FALSE, FALSE)}
Lowered == [app |-> "app", App |-> "app", game |-> "game", x |-> "x"] @@ ("7" :> "7")
Dk == INSTANCE Desktop WITH Enabled <- {"desktop", "voice"},
  OnPath <- {"notify-send", "espeak", "wall", "aplay"}, Servers <- PushServers,
  Hosts <- {"h2", "h3"}, HasInbox <- TRUE, MaxEntries <- 2, MaxSends <- 3,
  MaxNow <- 1, MaxCrashes <- 1, inbox <- notifyInbox, heard <- notifyHeard,
  Files <- DesktopFiles, Games <- {[id |-> "7", name |-> "game"]}, Lower <- Lowered,
  Asked <- {"App", "game", "x"}, Allowed <- {"app", "7"}, AnyAllowed <- FALSE,
  Method <- "auto", Terminal <- "auto", LOnPath <- {"gtk-launch", "kitty", "steam"},
  Ttl <- 1, MaxLaunches <- 2, MaxLNow <- 2, MaxChanges <- 2,
  answer <- launcherAnswer,
  Ids <- {"ptt", "mute"}, Triggers <- {<<"ctrl", "x">>, <<"mute">>},
  Backends <- {"portal", "manual"}, EventsCap <- 1, MaxBinds <- 2, MaxKeys <- 2,
  session <- hotkeySession
notifyInit == /\ part = "notify" /\ Dk!NotifyInit
              /\ mediaOff /\ speechOff /\ soundOff /\ launcherOff
              /\ phoneOff /\ systemOff /\ mqttOff /\ captureOff
              /\ hotkeyOff
notifyNext == /\ part = "notify" /\ Dk!NotifyNext
              /\ UNCHANGED <<part, mediaVars, speechVars, soundVars, launcherVars, phoneVars, systemVars,
                              mqttVars, captureVars, hotkeyVars>>

-----------------------------------------------------------------------------
launcherInit == /\ part = "launcher" /\ Dk!LauncherInit
                /\ mediaOff /\ speechOff /\ soundOff /\ notifyOff
                /\ phoneOff /\ systemOff /\ mqttOff /\ captureOff
                /\ hotkeyOff
launcherNext == /\ part = "launcher" /\ Dk!LauncherNext
                /\ UNCHANGED <<part, mediaVars, speechVars, soundVars, notifyVars, phoneVars, systemVars, mqttVars,
                                captureVars, hotkeyVars>>

-----------------------------------------------------------------------------
\* Linux hosts with and without a bus, with coarse and fine brightness; a Mac
Machines ==
  [mac : {FALSE}, bus : BOOLEAN, upower : {TRUE}, ppd : {TRUE}, saver : {TRUE},
   tools : {{"wpctl"}, {"pactl", "loginctl", "brightnessctl"}}, max : {7, 255},
   writable : BOOLEAN]
  \cup {[mac |-> TRUE, bus |-> FALSE, upower |-> TRUE, ppd |-> FALSE, saver |-> FALSE,
         tools |-> {"osascript"}, max |-> -1, writable |-> FALSE]}
Mc == INSTANCE Machine WITH Hosts <- Machines, Percents <- {0, 57, 100},
  Volumes <- {40, 120}, MaxRequests <- 2, MaxOutside <- 1, host <- systemHost,
  Tasks <- {"t1", "t2"}, Cameras <- {"back", "front"}, MaxReqs <- 4,
  Sessions <- {"x11", "wlroots"}, Tools <- {{"grim", "scrot", "import", "ffmpeg"}},
  CaptureTasks <- {"t1", "t2"}, MaxStarts <- 2, MaxShots <- 2, MaxMs <- 1,
  temps <- captureTemps,
  Devices <- {"d1", "d2"}, QueueCap <- 1, MaxClients <- 2, MaxCommands <- 2,
  MaxErrors <- 1, sent <- mqttSent
phoneInit == /\ part = "phone" /\ Mc!PhoneInit
             /\ mediaOff /\ speechOff /\ soundOff /\ notifyOff
             /\ launcherOff /\ systemOff /\ mqttOff /\ captureOff
             /\ hotkeyOff
phoneNext == /\ part = "phone" /\ Mc!PhoneNext
             /\ UNCHANGED <<part, mediaVars, speechVars, soundVars, notifyVars, launcherVars, systemVars,
                             mqttVars, captureVars, hotkeyVars>>

-----------------------------------------------------------------------------
systemInit == /\ part = "system" /\ Mc!SystemInit
              /\ mediaOff /\ speechOff /\ soundOff /\ notifyOff
              /\ launcherOff /\ phoneOff /\ mqttOff /\ captureOff
              /\ hotkeyOff
systemNext == /\ part = "system" /\ Mc!SystemNext
              /\ UNCHANGED <<part, mediaVars, speechVars, soundVars, notifyVars, launcherVars, phoneVars,
                              mqttVars, captureVars, hotkeyVars>>

-----------------------------------------------------------------------------
mqttInit == /\ part = "mqtt" /\ Mc!MqttInit
            /\ mediaOff /\ speechOff /\ soundOff /\ notifyOff
            /\ launcherOff /\ phoneOff /\ systemOff /\ captureOff
            /\ hotkeyOff
mqttNext == /\ part = "mqtt" /\ Mc!MqttNext
            /\ UNCHANGED <<part, mediaVars, speechVars, soundVars, notifyVars, launcherVars, phoneVars,
                            systemVars, captureVars, hotkeyVars>>

-----------------------------------------------------------------------------
captureInit == /\ part = "capture" /\ Mc!CaptureInit
               /\ mediaOff /\ speechOff /\ soundOff /\ notifyOff
               /\ launcherOff /\ phoneOff /\ systemOff /\ mqttOff
               /\ hotkeyOff
captureNext == /\ part = "capture" /\ Mc!CaptureNext
               /\ UNCHANGED <<part, mediaVars, speechVars, soundVars, notifyVars, launcherVars, phoneVars,
                               systemVars, mqttVars, hotkeyVars>>

-----------------------------------------------------------------------------
hotkeyInit == /\ part = "hotkey" /\ Dk!HotkeyInit
              /\ mediaOff /\ speechOff /\ soundOff /\ notifyOff
              /\ launcherOff /\ phoneOff /\ systemOff /\ mqttOff
              /\ captureOff
hotkeyNext == /\ part = "hotkey" /\ Dk!HotkeyNext
              /\ UNCHANGED <<part, mediaVars, speechVars, soundVars, notifyVars, launcherVars, phoneVars,
                              systemVars, mqttVars, captureVars>>

-----------------------------------------------------------------------------
Init == mediaInit \/ speechInit \/ soundInit \/ notifyInit \/ launcherInit \/
        phoneInit \/ systemInit \/ mqttInit \/ captureInit \/ hotkeyInit
Next == mediaNext \/ speechNext \/ soundNext \/ notifyNext \/ launcherNext \/
        phoneNext \/ systemNext \/ mqttNext \/ captureNext \/ hotkeyNext
Spec == Init /\ [][Next]_vars

\* Audio: sentences are split without loss and spoken in order and once, a
\* recording belongs to the stream that opened it, a clip that is stopped
\* is silent and its resources are freed, and media commands reach the player
\* and the streams they name (Speech, Audio).
AudioInv == /\ part = "speech" => Sp!SpeechInv
            /\ part = "sound" => Au!SoundInv
            /\ part = "media" => Au!MediaInv
\* The machine: the camera and the recorder keep their promises while requests
\* overlap, a setting ends where it was asked to, a command is answered by its
\* device (Machine).
MachineInv == /\ part = "phone" => Mc!PhoneInv
              /\ part = "capture" => Mc!CaptureInv
              /\ part = "system" => Mc!SystemInv
              /\ part = "mqtt" => Mc!MqttInv
\* The desktop: no notification is lost or numbered twice, only
\* allowed applications start, a rebind keeps the other shortcuts (Desktop).
DesktopInv == /\ part = "notify" => Dk!NotifyInv
              /\ part = "launcher" => Dk!LauncherInv
              /\ part = "hotkey" => Dk!HotkeyInv
=============================================================================
