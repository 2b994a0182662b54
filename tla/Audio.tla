-------------------------------- MODULE Audio --------------------------------
(* What is heard: clips played on the speakers, and media players.          *)
(* The parts share no state; each has its own initial states and steps.     *)
EXTENDS Integers, Sequences, FiniteSets, FiniteSetsExt, SequencesExt

-----------------------------------------------------------------------------
(* sound: the single owner of the speakers.  Requests are served one at a    *)
(* time; a player process runs on after sound_play has answered, and what it *)
(* plays may be a temporary file named after the millisecond it was written. *)

CONSTANTS Installed,     \* the player binaries on PATH
          Pinned,        \* SOUND_PLUGIN_PLAYER, "" for none
          DefaultDevice, \* SOUND_PLUGIN_DEVICE is set
          MaxPlays, MaxMs       \* bounds: clips, milliseconds
VARIABLES clips,     \* State.clips: one record per id; temp = NoFile for a file of the caller
          procs,     \* every player process: running, done or killed
          temps,     \* temporary files on disk: their name, and the clip the audio is of
          reused,    \* names written a second time while a clip still has them
          sms, plays
soundVars == <<clips, procs, temps, reused, sms, plays>>

NoFile == <<>>
SoundInit == /\ clips = <<>> /\ procs = <<>> /\ temps = {} /\ reused = {} /\ sms = 0 /\ plays = 0

-----------------------------------------------------------------------------
Profiles == [pwcat |-> [volume |-> TRUE, device |-> TRUE], paplay |-> [volume |-> TRUE, device |-> TRUE],
             aplay |-> [volume |-> FALSE, device |-> TRUE], ffplay |-> [volume |-> TRUE, device |-> FALSE]]
\* PlayRequest::parse: what an accepted request asks for
PlayRequests == [inline : BOOLEAN, wav : BOOLEAN, volume : BOOLEAN, device : BOOLEAN]
\* build_args: the flags the player is given; the operator's device is used when
\* the request names none, and is no reason to pass a player over
BuildArgs(p, r) == [volume |-> r.volume /\ Profiles[p].volume,
                    device |-> (r.device \/ DefaultDevice) /\ Profiles[p].device]
\* player_chain: the candidates that can do what was asked, or the pinned one
AnyPlayer(r) == IF r.wav THEN <<"pwcat", "paplay", "aplay">> ELSE <<"ffplay">>
PlayerChain(r) ==
  IF Pinned # "" THEN <<Pinned>>
  ELSE SelectSeq(IF r.wav THEN <<"pwcat", "paplay", "aplay">> ELSE <<"ffplay">>,
                 LAMBDA p : /\ r.volume => Profiles[p].volume
                            /\ r.device => Profiles[p].device)
\* the first candidate that can be spawned, "" for none
Spawned(chain) == LET ok == SelectSeq(chain, LAMBDA p : p \in Installed)
                  IN IF ok = <<>> THEN "" ELSE Head(ok)
Active == {i \in DOMAIN clips : clips[i].live}
Finished == {i \in Active : procs[i] # "running"}
\* reap_finished: entries whose process has exited go, with their temporary files
Reaped == [i \in DOMAIN clips |-> [clips[i] EXCEPT !.live = @ /\ i \notin Finished]]
AfterReap == {t \in temps : ~\E i \in Finished : clips[i].temp = t[1]}
\* kill_all: the processes are killed, the entries dropped; the files stay
ForgetOnly(ids) == procs
Killed(ids) == [i \in DOMAIN procs |-> IF i \in ids /\ procs[i] = "running" THEN "killed" ELSE procs[i]]
Dropped(cs, ids) == [i \in DOMAIN cs |-> [cs[i] EXCEPT !.live = @ /\ i \notin ids]]

\* handle_play.  The player is spawned before the old clip is stopped; a source
\* that is refused, a chain that is empty or has nothing installed, and a spawn
\* that fails leave the old clip alone and remove the new file.
PlayClip(r) ==
      /\ plays < MaxPlays /\ plays' = plays + 1
      /\ LET n == Len(clips) + 1
             name == IF r.inline THEN <<sms, r.wav>> ELSE NoFile
             id == Spawned(PlayerChain(r))
             others == Active \ Finished
             kept == {t \in AfterReap : t[1] # name}
         IN /\ \/ /\ id # ""
                  /\ clips' = Append(Dropped(Reaped, others), [live |-> TRUE, temp |-> name, asked |-> r,
                                                         args |-> BuildArgs(id, r)])
                  /\ procs' = Append(Killed(others), "running")
                  /\ temps' = IF r.inline THEN kept \cup {<<name, n>>} ELSE kept
               \/ clips' = Reaped /\ procs' = procs /\ temps' = kept
            /\ reused' = reused \cup {x \in {name} \ {NoFile} : \E i \in Active : clips[i].temp = x}
      /\ sms' = sms
\* handle_stop: one clip or all; unknown ids stop nothing
StopClips(ids) ==
       /\ ids \subseteq Active /\ (Cardinality(ids) <= 1 \/ ids = Active)
       /\ LET gone == ids \ Finished IN clips' = Dropped(Reaped, gone) /\ procs' = Killed(gone)
       /\ temps' = AfterReap /\ UNCHANGED <<reused, sms, plays>>
\* handle_status
ClipStatus == /\ clips' = Reaped /\ temps' = AfterReap /\ UNCHANGED <<procs, reused, sms, plays>>
\* the end of serve: everything is killed, the process ends and starts again
Shutdown == /\ clips' = Dropped(clips, Active) /\ procs' = Killed(Active)
            /\ UNCHANGED <<temps, reused, sms, plays>>
\* a player reaches the end of its file
Exit(i) == /\ procs[i] = "running" /\ procs' = [procs EXCEPT ![i] = "done"]
           /\ UNCHANGED <<clips, temps, reused, sms, plays>>
Tick == sms < MaxMs /\ sms' = sms + 1 /\ UNCHANGED <<clips, procs, temps, reused, plays>>

SoundNext == \/ \E r \in PlayRequests : PlayClip(r)
             \/ \E ids \in SUBSET Active : StopClips(ids)
             \/ ClipStatus \/ Shutdown \/ Tick
             \/ \E i \in DOMAIN procs : Exit(i)
SoundSpec == SoundInit /\ [][SoundNext]_soundVars

-----------------------------------------------------------------------------
\* One player at a time runs, it is the one sound_status shows, and the file it
\* plays is on disk with the audio of its own request, whatever is reaped, stopped
\* or refused meanwhile; only a second clip of the same millisecond and format can
\* take it away, since the name holds nothing else (handle_play, reap_finished).
\* Unless the operator pinned a player, the one that runs does what was asked.
SoundInv ==
  /\ Cardinality(Active) <= 1
  /\ \A i \in DOMAIN procs : procs[i] = "running" => i \in Active
  /\ \A i \in Active :
       procs[i] = "running" /\ clips[i].temp \notin reused \cup {NoFile} => <<clips[i].temp, i>> \in temps
  /\ Pinned = "" => \A i \in DOMAIN clips : LET r == clips[i].asked IN
       clips[i].args = [volume |-> r.volume, device |-> r.device \/ (DefaultDevice /\ r.wav)]

-----------------------------------------------------------------------------
(* media: one request at a time against MPRIS players and audio streams that *)
(* other programs and the user change at every await; a watcher task keeps   *)
(* the order of "most recently active".                                      *)

CONSTANTS Players,       \* bus names, in their sorted order
          Allowed,       \* MEDIA_PLUGIN_PLAYERS
          Streams,       \* audio stream ids
          PidOf, Parent, OwnerPid,   \* the process tree: of streams, of pids, of players
          MaxHops,       \* MAX_PID_HOPS
          Named,         \* <<stream, player>>: the application's name contains the player's
          Sinks,
          MaxRequests, MaxWorld   \* bounds: requests, changes from outside
VARIABLES player,   \* per bus name: status, capability, and whether it is there
          stream,   \* per stream: muted, volume, sink, and whether it is there
          watched,
          lastChange,   \* per player: the order of its latest status change, 0 for none
          rq,       \* the request in progress
          restarted, touched,   \* who was changed from outside since the request read it
          served, world

mediaVars == <<player, stream, watched, lastChange, rq, restarted, touched, served, world>>
Names == ToSet(Players)
NoRq == [pc |-> "idle", op |-> "none", want |-> "any", left |-> <<>>, cands |-> {},
         targets |-> <<>>, ids |-> {}, todo |-> {}, mode |-> "on", all |-> FALSE]
MediaInit == /\ player \in [Names -> [status : {"Playing", "Paused"}, can : BOOLEAN,
                                      here : {TRUE}]]
             /\ stream = [s \in Streams |-> [muted |-> FALSE, volume |-> 1, sink |-> "a", here |-> TRUE]]
             /\ watched = {} /\ lastChange = [p \in Names |-> 0] /\ rq = NoRq
             /\ restarted = {} /\ touched = {} /\ served = 0 /\ world = 0

-----------------------------------------------------------------------------
\* list_players_with: the names on the bus that are allowed
ListPlayers == SelectSeq(Players, LAMBDA p : player[p].here /\ p \in Allowed)
\* get_playback_status and the other getters: a vanished player answers nothing
Read(p) == player[p].here
Playing(c) == c.status = "Playing"
\* playing players, narrowed to the audible ones unless that leaves none
Heard(cands) == LET playing == {c \in cands : Playing(c)}
                    audible == {c \in playing : c.audible}
                IN IF audible = {} THEN playing ELSE audible
NeedsAudibility(cands) == Cardinality({c \in cands : Playing(c)}) > 1
Order(p) == CHOOSE i \in 1..Len(Players) : Players[i] = p
\* the paused player that changed last; the order of the names breaks a tie
Latest(cands) == CHOOSE c \in cands : \A d \in cands \ {c} :
                   c.last > d.last \/ (c.last = d.last /\ Order(c.name) < Order(d.name))
Paused(cands) == {c \in cands : c.status = "Paused"}
\* resolve::choose: the targets, {} as the error of Intent::One
Choose(cands, all) ==
  LET heard == Heard(cands) IN
  IF all THEN {c.name : c \in {d \in cands : Playing(d)}}
  ELSE IF heard # {} THEN IF Cardinality(heard) = 1 THEN {c.name : c \in heard} ELSE {}
  ELSE IF Paused(cands) # {} THEN {Latest(Paused(cands)).name}
  ELSE IF Cardinality(cands) = 1 THEN {c.name : c \in cands} ELSE {}
\* match_requested: an exact, short or unique instance name; here the name itself
MatchRequested(p) == p \in ToSet(ListPlayers)

\* streams_for_player: by process ancestry, by name only when that finds none
Ancestor[s \in Streams, n \in 0..MaxHops] ==
  IF n = 0 THEN PidOf[s] ELSE Parent[Ancestor[s, n - 1]]
OwnedBy(s, p) == \E n \in 0..MaxHops : /\ Ancestor[s, n] = OwnerPid[p]
                                      /\ \A m \in 0..(n - 1) : Ancestor[s, m] > 1
Snapshot == {s \in Streams : stream[s].here}
StreamsForPlayer(p) ==
  LET byPid == {s \in Snapshot : OwnedBy(s, p)} IN
  IF byPid # {} THEN byPid ELSE {s \in Snapshot : <<s, p>> \in Named}
StreamsForApp(p) == {s \in Snapshot : <<s, p>> \in Named}
RunningStream(s) == \E p \in Names : OwnedBy(s, p) /\ player[p].status = "Playing"
Audible(s) == RunningStream(s) /\ ~stream[s].muted /\ stream[s].volume > 0
\* audible_map
AudibleMap(p) == \E s \in StreamsForPlayer(p) : Audible(s)
\* a toggle of several streams is decided once, for all of them
TogglePerStream(ids, mode) == mode
MuteMode(ids, mode) ==
  IF mode = "toggle" /\ Cardinality(ids) > 1
  THEN IF \E s \in ids : ~stream[s].muted THEN "on" ELSE "off" ELSE mode

\* note_status_change
Changed(p) ==
  lastChange' = [lastChange EXCEPT ![p] = 1 + Max({lastChange[q] : q \in Names \ {p}})]

-----------------------------------------------------------------------------
\* what other programs do between two steps of a request
Outside == world < MaxWorld /\ world' = world + 1
Status(p, s) == player' = [player EXCEPT ![p].status = s]
PlayerChanges(p, s) ==
  /\ Outside /\ player[p].here /\ player[p].status # s /\ Status(p, s)
  /\ restarted' = IF s = "Playing" THEN restarted \cup {p} ELSE restarted
  /\ UNCHANGED <<stream, watched, lastChange, rq, touched, served>>
\* handle_properties_changed: a signal of a watched player, some time later
PropertiesChanged(p) ==
  /\ Outside /\ p \in watched /\ Changed(p)
  /\ UNCHANGED <<player, stream, watched, rq, restarted, touched, served>>
PlayerGoes(p) ==
  /\ Outside /\ player[p].here
  /\ player' = [player EXCEPT ![p].here = FALSE, ![p].status = "Stopped"]
  /\ UNCHANGED <<stream, watched, lastChange, rq, restarted, touched, served>>
StreamChanges(s) ==
  /\ Outside /\ stream[s].here /\ touched' = touched \cup {s}
  /\ \/ stream' = [stream EXCEPT ![s].muted = ~@]
     \/ stream' = [stream EXCEPT ![s].here = FALSE]
  /\ UNCHANGED <<player, watched, lastChange, rq, restarted, served>>
\* the watch task: a scan adds the players it finds, an error drops one
Scan == /\ watched # ToSet(ListPlayers) \cup watched
        /\ watched' = watched \cup ToSet(ListPlayers)
        /\ UNCHANGED <<player, stream, lastChange, rq, restarted, touched, served, world>>
WatchEnds(p) == /\ Outside /\ p \in watched /\ watched' = watched \ {p}
                /\ UNCHANGED <<player, stream, lastChange, rq, restarted, touched, served>>

-----------------------------------------------------------------------------
Done == rq' = NoRq
World == <<stream, watched, restarted, touched, served, world>>
PlayerOps == {"play", "next", "seek", "volume", "raise", "quit", "shuffle", "status",
              "pause", "stop", "playPause"}
AllPlaying(op) == op \in {"pause", "stop", "playPause"}
StreamOps == {"streamVolume", "streamMute", "streamMove"}
\* handle_action_request: bad parameters and unknown actions change nothing;
\* media_list_players and media_streams only read
Request(op, want) ==
  /\ rq.pc = "idle" /\ served < MaxRequests /\ served' = served + 1
  /\ restarted' = {} /\ touched' = {}
  /\ IF op \in StreamOps /\ want # "any" /\ want \notin Names
     THEN want \in Streams /\ rq' = [NoRq EXCEPT !.pc = "select", !.op = op, !.want = want]
     ELSE rq' = [NoRq EXCEPT !.pc = "list", !.op = op, !.want = want,
                             !.all = AllPlaying(op) /\ want = "any"]
  /\ UNCHANGED <<player, stream, watched, lastChange, world>>
\* resolve_targets: the list, then one status at a time
List ==
  /\ rq.pc = "list"
  /\ rq' = IF rq.want = "any" THEN [rq EXCEPT !.pc = "read", !.left = ListPlayers]
           ELSE IF MatchRequested(rq.want)
           THEN [rq EXCEPT !.pc = IF rq.op \in StreamOps THEN "select" ELSE "act",
                           !.targets = <<rq.want>>]
           ELSE NoRq
  /\ UNCHANGED <<player, World, lastChange>>
ReadStatus ==
  /\ rq.pc = "read" /\ rq.left # <<>>
  /\ LET p == Head(rq.left)
         c == [name |-> p, status |-> player[p].status, audible |-> FALSE,
              last |-> lastChange[p]]
     IN rq' = [rq EXCEPT !.left = Tail(@), !.cands = IF Read(p) THEN @ \cup {c} ELSE @]
  /\ UNCHANGED <<player, stream, watched, touched, served, world, lastChange>>
  /\ restarted' = restarted \ {Head(rq.left)}
Resolve ==
  /\ rq.pc = "read" /\ rq.left = <<>>
  /\ LET cands == IF NeedsAudibility(rq.cands)
                  THEN {[c EXCEPT !.audible = Playing(c) /\ AudibleMap(c.name)] : c \in rq.cands}
                  ELSE rq.cands
         chosen == SelectSeq(Players, LAMBDA p : p \in Choose(cands, rq.all))
     IN rq' = IF rq.cands = {} \/ (chosen = <<>> /\ ~rq.all) THEN NoRq
              ELSE IF chosen = <<>> /\ rq.op = "playPause"
              THEN [rq EXCEPT !.pc = "list", !.all = FALSE, !.cands = {}]
              ELSE [rq EXCEPT !.pc = IF rq.op \in StreamOps THEN "select" ELSE "act",
                              !.targets = chosen]
  /\ UNCHANGED <<player, World, lastChange>>

\* The player calls, one target at a time.  A capability the player denies or
\* a player that vanished ends the request where it is.
NeedsCapability(op) == op \notin {"stop", "raise", "quit", "status"}
Fails(p) == ~player[p].here \/ (NeedsCapability(rq.op) /\ ~player[p].can)
ActFails == /\ rq.pc = "act" /\ rq.targets # <<>> /\ Fails(Head(rq.targets)) /\ Done
            /\ UNCHANGED <<player, World, lastChange>>
Next1 == rq' = [rq EXCEPT !.targets = Tail(@)]
Target == Head(rq.targets)
Acting(ops) == /\ rq.pc = "act" /\ rq.targets # <<>> /\ rq.op \in ops /\ ~Fails(Target)
\* the player applies the call and the call notes the change
ControlsTo(s) == Status(Target, s) /\ Changed(Target) /\ Next1 /\ UNCHANGED World
Play == Acting({"play"}) /\ ControlsTo("Playing")
Pause == Acting({"pause"}) /\ ControlsTo("Paused")
Stop == Acting({"stop"}) /\ ControlsTo("Stopped")
Toggled == IF player[Target].status = "Playing" THEN "Paused" ELSE "Playing"
PlayPause == /\ Acting({"playPause"})
             /\ ControlsTo(IF rq.all THEN "Paused" ELSE Toggled)
\* next, prev; seek and seek_relative, SetPosition or Seek without it
Skip == Acting({"next"}) /\ Next1 /\ UNCHANGED <<player, World, lastChange>>
Seek == Acting({"seek"}) /\ Next1 /\ UNCHANGED <<player, World, lastChange>>
SetVolume == Acting({"volume"}) /\ Next1 /\ UNCHANGED <<player, World, lastChange>>
Shuffle == Acting({"shuffle"}) /\ Next1 /\ UNCHANGED <<player, World, lastChange>>
Quit == /\ Acting({"raise", "quit"}) /\ Next1
        /\ player' = IF rq.op = "quit"
                     THEN [player EXCEPT ![Target].here = FALSE, ![Target].status = "Stopped"]
                     ELSE player
        /\ UNCHANGED <<World, lastChange>>
GetStatus == Acting({"status"}) /\ Next1 /\ UNCHANGED <<player, World, lastChange>>
\* the reply of a request whose targets all answered
Reply == /\ rq.pc = "act" /\ rq.targets = <<>> /\ rq.op \notin StreamOps
         /\ rq' = IF rq.all THEN [rq EXCEPT !.pc = "told"] ELSE NoRq
         /\ UNCHANGED <<player, World, lastChange>>

\* audio::select over one snapshot: a stream, an application, or a player's
Selected == IF rq.want \in Streams THEN {rq.want} \cap Snapshot
            ELSE StreamsForPlayer(Head(rq.targets))
Select ==
  /\ rq.pc = "select"
  /\ \E ids \in {Selected, IF rq.want \in Names THEN StreamsForApp(rq.want) ELSE Selected},
        mode \in {"on", "off", "toggle"} :
       rq' = IF ids = {} THEN NoRq
             ELSE [rq EXCEPT !.pc = "stream", !.ids = ids, !.todo = ids, !.mode = MuteMode(ids, mode)]
  /\ touched' = {}
  /\ UNCHANGED <<player, stream, watched, restarted, served, world, lastChange>>
Muted(s, mode) == IF mode = "toggle" THEN ~stream[s].muted ELSE mode = "on"
\* wpctl or pactl, stream by stream; the first failure ends the request
StreamCall(s) ==
  /\ rq.pc = "stream" /\ s \in rq.todo
  /\ \/ /\ stream[s].here /\ rq' = [rq EXCEPT !.todo = @ \ {s}]
        /\ \/ /\ rq.op = "streamMute"
              /\ stream' = [stream EXCEPT ![s].muted = Muted(s, rq.mode)]
           \/ /\ rq.op = "streamVolume"
              /\ \E v \in {0, 1} : stream' = [stream EXCEPT ![s].volume = v]
           \/ /\ rq.op = "streamMove"
              /\ \E k \in Sinks : stream' = [stream EXCEPT ![s].sink = k]
     \/ ~stream[s].here /\ Done /\ UNCHANGED stream
  /\ UNCHANGED <<player, watched, restarted, touched, served, world, lastChange>>
\* after: the streams are read again for the reply
After == /\ rq.pc = "stream" /\ rq.todo = {} /\ rq' = [rq EXCEPT !.pc = "told"]
         /\ UNCHANGED <<player, World, lastChange>>
Told == /\ rq.pc = "told" /\ Done /\ UNCHANGED <<player, World, lastChange>>

MediaNext == \/ \E p \in Names : \/ \E s \in {"Playing", "Paused"} : PlayerChanges(p, s)
                                 \/ PropertiesChanged(p) \/ PlayerGoes(p) \/ WatchEnds(p)
             \/ \E s \in Streams : StreamChanges(s) \/ StreamCall(s)
             \/ \E op \in PlayerOps, w \in Names \cup {"any"} : Request(op, w)
             \/ \E op \in StreamOps, w \in Names \cup {"any"} \cup Streams : Request(op, w)
             \/ Scan \/ List \/ ReadStatus \/ Resolve \/ ActFails \/ Play \/ Pause \/ Stop
             \/ PlayPause \/ Skip \/ Seek \/ SetVolume \/ Shuffle \/ Quit \/ GetStatus \/ Reply
             \/ Select \/ After \/ Told
MediaSpec == MediaInit /\ [][MediaNext]_mediaVars
-----------------------------------------------------------------------------
(* The reply is true.  A pause, stop or toggle without a player reports ok   *)
(* only when nothing it saw playing plays on, unless somebody started it     *)
(* again after it was read; a mute reported ok leaves the streams it chose   *)
(* all muted or all unmuted, unless somebody touched one meanwhile.          *)
MediaInv ==
  /\ rq.pc = "told" /\ rq.op \notin StreamOps =>
       \A c \in rq.cands : Playing(c) =>
         player[c.name].status # "Playing" \/ c.name \in restarted
  /\ rq.pc = "told" /\ rq.op = "streamMute" =>
       \A s, t \in rq.ids \ touched : stream[s].muted = stream[t].muted
=============================================================================
