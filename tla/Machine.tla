------------------------------- MODULE Machine -------------------------------
(* The machine and its devices: settings, phone camera, recordings, mqtt.   *)
(* The parts share no state; each has its own initial states and steps.     *)
EXTENDS Integers, Sequences, FiniteSets

-----------------------------------------------------------------------------
(* system: volume, backlight, power profile and session lock of the host.    *)
(* Requests are served one at a time; each writes the device and then reads  *)
(* it back, and the user or another program may change it at any moment.     *)

CONSTANTS Hosts,               \* records: what the host has, see Init
          Percents, Volumes,   \* percentages asked for; volumes the user may set, above 100 too
          MaxRequests, MaxOutside      \* bounds
VARIABLES host, backends,      \* what the host has; what detect found at startup
          dev,                 \* [volume, muted, raw, profile, locked]
          sreq,                \* the request being served: [op, arg, pct, aim, at, before, touched]
          sdone,               \* the last request and its answer
          outside, srequests
systemVars == <<host, backends, dev, sreq, sdone, outside, srequests>>

-----------------------------------------------------------------------------
\* detect_volume: the first tool of the chain that can be spawned, even a broken one
VolumeTool(h) == IF "wpctl" \in h.tools THEN "wpctl" ELSE IF "pactl" \in h.tools THEN "pactl"
                 ELSE IF h.mac /\ "osascript" \in h.tools THEN "osascript" ELSE "none"
\* detect: every capability on its own; battery, lock and profiles need the bus
\* on Linux, a device directory needs both control files
Detect(h) == [volume  |-> VolumeTool(h) # "none",
              bright  |-> h.max >= 0,
              battery |-> IF h.mac THEN h.upower ELSE h.bus /\ h.upower,
              lock    |-> h.mac \/ h.bus,
              profile |-> ~h.mac /\ h.bus /\ h.ppd]
\* target_raw: truncated, and never 0
TargetNoFloor(max, p) == (max * p) \div 100
TargetRaw(max, p) == IF (max * p) \div 100 = 0 THEN 1 ELSE (max * p) \div 100
\* calc_percent: rounded to the nearest, halves up
CalcPercent(cur, max) == (200 * cur + max) \div (2 * max)
\* map_state of UPower: pending states count as their direction
MapState(raw) == CASE raw \in {1, 5} -> "charging" [] raw \in {2, 6} -> "discharging"
                   [] raw = 3 -> "empty" [] raw = 4 -> "full" [] OTHER -> "unknown"

SystemIdle == [op |-> "", arg |-> "", pct |-> 0, aim |-> "", at |-> "idle", before |-> FALSE, touched |-> FALSE]
NoAnswer == [op |-> "", arg |-> "", pct |-> 0, before |-> FALSE, touched |-> FALSE, ok |-> FALSE, got |-> "", num |-> 0]
SystemInit == /\ host \in Hosts /\ backends = Detect(host)
              /\ dev = [volume |-> 40, muted |-> FALSE, raw |-> 1, profile |-> "balanced", locked |-> FALSE]
              /\ sreq = SystemIdle /\ sdone = NoAnswer /\ outside = 0 /\ srequests = 0

Needs(op) == CASE op \in {"volume", "volume_set", "mute"} -> "volume" [] op \in {"bright", "bright_set"} -> "bright"
               [] op = "battery" -> "battery" [] op = "lock" -> "lock" [] OTHER -> "profile"
\* what is answered: a word, a number, or an error
Answer(ok, got, num) ==
  /\ sreq' = SystemIdle
  /\ sdone' = [op |-> sreq.op, arg |-> sreq.arg, pct |-> sreq.pct, before |-> sreq.before, touched |-> sreq.touched,
               ok |-> ok, got |-> got, num |-> num]
\* parse and handle_action: a missing capability is an error, nothing is run
SystemBegin(op, arg, p) ==
        /\ sreq.at = "idle" /\ srequests < MaxRequests /\ srequests' = srequests + 1
        /\ IF backends[Needs(op)]
           THEN /\ sdone' = sdone
                /\ sreq' = [op |-> op, arg |-> arg, pct |-> p, aim |-> arg, before |-> dev.muted, touched |-> FALSE,
                            at |-> IF op \in {"volume", "bright", "profile", "battery"} THEN "back"
                                   ELSE IF arg = "toggle" /\ VolumeTool(host) = "osascript" THEN "read" ELSE "write"]
           ELSE sreq' = sreq /\ sdone' = [NoAnswer EXCEPT !.op = op]
        /\ UNCHANGED <<host, backends, dev, outside>>
\* MacosVolume::mute: AppleScript has no toggle, so it is a read and then a write
ReadToggle ==
  /\ sreq.at = "read"
  /\ sreq' = [sreq EXCEPT !.at = "write", !.before = dev.muted, !.touched = FALSE,
                          !.aim = IF dev.muted THEN "off" ELSE "on"]
  /\ UNCHANGED <<host, backends, dev, sdone, outside, srequests>>
\* the tool's or sysfs' write; without permission brightnessctl is run instead
Muted == CASE sreq.aim = "on" -> TRUE [] sreq.aim = "off" -> FALSE [] OTHER -> ~dev.muted
RawOf(p) == IF host.writable THEN TargetRaw(host.max, p) ELSE (host.max * p + 50) \div 100
Write ==
  /\ sreq.at = "write"
  /\ sreq.op = "bright_set" => host.max > 0 /\ (host.writable \/ "brightnessctl" \in host.tools)
  /\ sreq.op = "lock" => host.saver \/ "loginctl" \in host.tools \/ host.mac
  /\ dev' = CASE sreq.op = "volume_set" -> [dev EXCEPT !.volume = sreq.pct]
              [] sreq.op = "mute" -> [dev EXCEPT !.muted = Muted]
              [] sreq.op = "bright_set" -> [dev EXCEPT !.raw = RawOf(sreq.pct)]
              [] sreq.op = "lock" -> [dev EXCEPT !.locked = TRUE]
              [] OTHER -> [dev EXCEPT !.profile = sreq.arg]
  /\ IF sreq.op = "lock" THEN Answer(TRUE, "ok", 0)
     ELSE /\ sdone' = sdone
          /\ sreq' = IF sreq.aim = sreq.arg THEN [sreq EXCEPT !.at = "back", !.before = dev.muted, !.touched = FALSE]
                     ELSE [sreq EXCEPT !.at = "back"]
  /\ UNCHANGED <<host, backends, outside, srequests>>
\* the tool is missing, exits nonzero, times out, or the bus call fails
Fail == /\ sreq.at \in {"read", "write", "back"} /\ Answer(FALSE, "", 0)
        /\ UNCHANGED <<host, backends, dev, outside, srequests>>
\* get after a set, or for a getter: a volume above 100 is not accepted
ReadBack ==
  /\ sreq.at = "back"
  /\ CASE Needs(sreq.op) = "volume" -> Answer(dev.volume <= 100, IF dev.muted THEN "muted" ELSE "heard", dev.volume)
       [] Needs(sreq.op) = "bright" -> Answer(host.max > 0, "", IF host.max > 0 THEN CalcPercent(dev.raw, host.max) ELSE 0)
       [] Needs(sreq.op) = "battery" -> \E raw \in 0 .. 6 : Answer(TRUE, MapState(raw), 0)
       [] OTHER -> Answer(TRUE, dev.profile, 0)
  /\ UNCHANGED <<host, backends, dev, outside, srequests>>
\* the user, or another program
Outside ==
  /\ outside < MaxOutside /\ outside' = outside + 1
  /\ \/ \E v \in Volumes : dev' = [dev EXCEPT !.volume = v]
     \/ dev' = [dev EXCEPT !.muted = ~@]
     \/ host.max > 0 /\ \E r \in {1, host.max} : dev' = [dev EXCEPT !.raw = r]
     \/ dev' = [dev EXCEPT !.locked = FALSE]
  /\ sreq' = [sreq EXCEPT !.touched = TRUE]
  /\ UNCHANGED <<host, backends, sdone, srequests>>

SystemNext == \/ \E op \in {"volume", "bright", "profile", "battery", "lock"} : SystemBegin(op, "", 0)
              \/ \E op \in {"volume_set", "bright_set"}, p \in Percents : SystemBegin(op, "", p)
              \/ \E m \in {"on", "off", "toggle"} : SystemBegin("mute", m, 0)
              \/ \E q \in {"performance", "power-saver"} : SystemBegin("profile_set", q, 0)
              \/ ReadToggle \/ Write \/ Fail \/ ReadBack \/ Outside
SystemSpec == SystemInit /\ [][SystemNext]_systemVars

-----------------------------------------------------------------------------
\* A set that nothing outside disturbs answers what was asked: the volume and
\* the profile exactly, the mute state as named or flipped from what it was
\* when the request came, the backlight within one step of the device below
\* it; the plugin's own sysfs write leaves the screen on; a set that failed
\* after its write has still been done (volume.rs, brightness.rs, macos.rs).
SystemInv ==
  /\ sdone.ok /\ ~sdone.touched =>
       /\ sdone.op = "volume_set" => sdone.num = sdone.pct
       /\ sdone.op = "mute" => (sdone.got = "muted") = (IF sdone.arg = "toggle" THEN ~sdone.before ELSE sdone.arg = "on")
       /\ sdone.op = "profile_set" => sdone.got = sdone.arg
       /\ sdone.op = "bright_set" /\ host.writable =>
            \/ sdone.pct * host.max < 100 /\ sdone.num = CalcPercent(1, host.max)
            \/ sdone.num <= sdone.pct /\ (sdone.pct - sdone.num) * host.max < 100 + host.max
  /\ host.writable => dev.raw >= 1
  /\ \A c \in {"lock", "profile"} : backends[c] => host.bus \/ host.mac

-----------------------------------------------------------------------------
(* phone: photos and a stream from the camera of a phone, through a helper   *)
(* script run there.  Requests are served concurrently; the registry lock    *)
(* (inner) guards the stream, camera_lock the camera.                        *)

CONSTANTS Tasks, Cameras,             \* requests in flight, {"back", "front"}
          MaxReqs      \* bounds
VARIABLES ph,          \* task -> where it is: [at, cam, of]
          inner, camera,      \* holders of the two locks, "" when free
          slot,        \* the active stream: [id, cam, done], or NoStream
          shots, clients,     \* helpers using the camera: of photos (tasks), of streams (ids)
          pump,        \* ids of streams whose pump task still runs
          latest,      \* latest.jpg: the stream and camera of its frame
          photos,      \* photos answered: camera asked for and camera they are of; sure, if
                       \* the frame is of the stream that was active when it was asked for
          helper,      \* the helper file of the current name on the phone
          cams,        \* the cameras of the streams started, by id
          reqs
phoneVars == <<ph, inner, camera, slot, shots, clients, pump, latest, photos, helper, cams, reqs>>

PhoneIdle == [at |-> "idle", cam |-> "", of |-> 0]
NoStream == [id |-> 0, cam |-> "", done |-> FALSE]
NoFrame == [id |-> 0, cam |-> ""]
PhoneInit == /\ ph = [t \in Tasks |-> PhoneIdle] /\ inner = "" /\ camera = "" /\ slot = NoStream /\ shots = {} /\ clients = {}
             /\ pump = {} /\ latest = NoFrame /\ photos = {} /\ helper = "none"
             /\ cams = <<>> /\ reqs = 0
-----------------------------------------------------------------------------
To(t, at) == ph' = [ph EXCEPT ![t].at = at]
End(t) == ph' = [ph EXCEPT ![t] = PhoneIdle]
\* reap: a stream whose pump has ended leaves the slot, its helper is killed
ReapForget == slot' = (IF slot.done THEN NoStream ELSE slot) /\ clients' = clients
Reap == /\ slot' = IF slot.done THEN NoStream ELSE slot
        /\ clients' = IF slot.done THEN clients \ {slot.id} ELSE clients
\* what a request does first; parameters are valid from here on
PhoneBegin(t, at, cam) == /\ ph[t].at = "idle" /\ reqs < MaxReqs /\ reqs' = reqs + 1
                          /\ ph' = [ph EXCEPT ![t] = [at |-> at, cam |-> cam, of |-> 0]]
                          /\ UNCHANGED <<inner, camera, slot, shots, clients, pump, latest, photos, helper, cams>>

\* take: the active stream's camera decides ...
PhotoCheck(t) ==
  /\ ph[t].at = "photo" /\ inner = "" /\ Reap
  /\ CASE slot' = NoStream -> To(t, "photo_lock")
       [] slot' # NoStream /\ slot'.cam # ph[t].cam -> End(t)
       [] OTHER -> ph' = [ph EXCEPT ![t].at = "photo_read",
                                    ![t].of = IF latest.id = slot'.id /\ pump \subseteq {slot'.id} THEN slot'.id ELSE 0]
  /\ UNCHANGED <<inner, camera, shots, pump, latest, photos, helper, cams, reqs>>
\* ... and without the lock the latest frame is read, of whatever stream it is by now
PhotoRead(t) ==
  /\ ph[t].at = "photo_read" /\ End(t)
  /\ photos' = IF latest = NoFrame THEN photos
               ELSE photos \cup {[asked |-> ph[t].cam, cam |-> latest.cam, sure |-> ph[t].of = Len(cams)]}
  /\ UNCHANGED <<inner, camera, slot, shots, clients, pump, latest, helper, cams, reqs>>
\* camera_guard, then the helper is run for one frame
PhotoRun(t) ==
  /\ ph[t].at = "photo_lock" /\ camera = "" /\ camera' = t /\ shots' = shots \cup {t} /\ To(t, "photo_run")
  /\ UNCHANGED <<inner, slot, clients, pump, latest, photos, helper, cams, reqs>>
\* a frame, a failure or the timeout: the process is gone and the lock free
PhotoEnd(t, ok) ==
  /\ ph[t].at = "photo_run" /\ camera' = "" /\ shots' = shots \ {t} /\ End(t)
  /\ photos' = IF ok THEN photos \cup {[asked |-> ph[t].cam, cam |-> ph[t].cam, sure |-> TRUE]} ELSE photos
  /\ UNCHANGED <<inner, slot, clients, pump, latest, helper, cams, reqs>>
\* start: both locks are held over the spawn, the camera's only if it is free
StartLock(t) ==
  /\ ph[t].at = "start" /\ inner = "" /\ Reap
  /\ IF slot' # NoStream \/ camera # "" THEN End(t) /\ UNCHANGED <<inner, camera>>
     ELSE inner' = t /\ camera' = t /\ To(t, "start_spawn")
  /\ UNCHANGED <<shots, pump, latest, photos, helper, cams, reqs>>
StartSpawn(t, ok) ==
  /\ ph[t].at = "start_spawn" /\ inner' = "" /\ camera' = "" /\ End(t)
  /\ IF ok THEN LET id == Len(cams) + 1 IN
               /\ cams' = Append(cams, ph[t].cam) /\ slot' = [id |-> id, cam |-> ph[t].cam, done |-> FALSE]
               /\ clients' = clients \cup {id} /\ pump' = pump \cup {id}
     ELSE UNCHANGED <<cams, slot, clients, pump>>
  /\ UNCHANGED <<shots, latest, photos, helper, reqs>>
\* stop: the stream is taken out, killed, its pump waited for, two seconds at
\* most; of another id it is refused
StopLock(t, mine) ==
  /\ ph[t].at = "stop" /\ inner = ""
  /\ IF slot = NoStream \/ ~mine THEN End(t) /\ UNCHANGED <<inner, slot, clients>>
     ELSE /\ inner' = t /\ slot' = NoStream /\ clients' = clients \ {slot.id} /\ To(t, "stop_wait")
  /\ UNCHANGED <<camera, shots, pump, latest, photos, helper, cams, reqs>>
StopEnd(t) ==
  /\ ph[t].at = "stop_wait" /\ inner' = "" /\ End(t)
  /\ UNCHANGED <<camera, slot, shots, clients, pump, latest, photos, helper, cams, reqs>>
\* status and is_active: a finished stream is reported once and reaped
Status(t) ==
  /\ ph[t].at = "status" /\ inner = "" /\ Reap /\ End(t)
  /\ UNCHANGED <<inner, camera, shots, pump, latest, photos, helper, cams, reqs>>

\* pump: a frame, one read before a kill too, replaces latest.jpg; the end of the
\* helper's output ends it, and so does a failed write
Frame(s) ==
  /\ s \in pump /\ latest' = [id |-> s, cam |-> cams[s]]
  /\ UNCHANGED <<ph, inner, camera, slot, shots, clients, pump, photos, helper, cams, reqs>>
PumpEnd(s) ==
  /\ s \in pump /\ pump' = pump \ {s}
  /\ slot' = IF slot.id = s THEN [slot EXCEPT !.done = TRUE] ELSE slot
  /\ UNCHANGED <<ph, inner, camera, shots, clients, latest, photos, helper, cams, reqs>>
\* the helper ends by itself: the duration is over, or ssh dropped
Exit(s) == /\ s \in clients /\ clients' = clients \ {s}
           /\ UNCHANGED <<ph, inner, camera, slot, shots, pump, latest, photos, helper, cams, reqs>>

\* setup: nothing if the listing has the current name, else a temporary file and
\* a rename; a copy cut off, or two at once, may leave part of the file
SetupCheck(t) ==
  /\ ph[t].at = "setup" /\ IF helper = "none" THEN To(t, "setup_copy") ELSE End(t)
  /\ UNCHANGED <<inner, camera, slot, shots, clients, pump, latest, photos, helper, cams, reqs>>
SetupCopy(t, got) ==
  /\ ph[t].at = "setup_copy" /\ End(t) /\ helper' = IF got = "none" THEN helper ELSE got
  /\ UNCHANGED <<inner, camera, slot, shots, clients, pump, latest, photos, cams, reqs>>

PhoneNext == \/ \E t \in Tasks, c \in Cameras, at \in {"photo", "start"} : PhoneBegin(t, at, c)
             \/ \E t \in Tasks, at \in {"stop", "status", "setup"} : PhoneBegin(t, at, "")
             \/ \E t \in Tasks : \/ PhotoCheck(t) \/ PhotoRead(t) \/ PhotoRun(t) \/ StartLock(t) \/ StopEnd(t) \/ Status(t) \/ SetupCheck(t)
                                 \/ \E ok \in BOOLEAN : PhotoEnd(t, ok) \/ StartSpawn(t, ok) \/ StopLock(t, ok)
                                 \/ \E got \in {"none", "torn", "whole"} : SetupCopy(t, got)
             \/ \E s \in 1 .. Len(cams) : Frame(s) \/ PumpEnd(s) \/ Exit(s)
PhoneSpec == PhoneInit /\ [][PhoneNext]_phoneVars

-----------------------------------------------------------------------------
\* Photos never run two at a time and streams never do; a stream's helper that
\* still holds the camera can be stopped: it is the one in the slot.  A running
\* stream is not reaped, and the slot of a finished one is freed by the next
\* request.  A photo is of the camera asked for when the active stream had a
\* frame, no older pump still ran, and no other stream was started before the
\* file was read; the code does not keep streams from changing between the two
\* (stream.rs active_camera, photo.rs take).
PhoneInv ==
  /\ Cardinality(shots) <= 1 /\ Cardinality(clients) <= 1
  /\ \A s \in clients : slot.id = s
  /\ slot # NoStream => slot.id \in pump \/ slot.done
  /\ \A p \in photos : p.sure => p.cam = p.asked
  /\ inner # "" => ph[inner].at \in {"start_spawn", "stop_wait"}

-----------------------------------------------------------------------------
(* capture: screenshots through the first tool that can do them, one screen  *)
(* recording at a time, and OCR of a file or of inline bytes.  Requests run  *)
(* concurrently; the recording slot has a lock.                              *)

CONSTANTS Sessions,            \* sessions the host may run: "wlroots", "gnome", "kde", "x11", "unknown"
          Tools,               \* sets of tools that may be installed
          CaptureTasks, MaxStarts, MaxShots, MaxMs        \* requests in flight, bounds
VARIABLES session, tools,      \* of this host
          captureSlot,        \* the active recording's id, 0 when there is none
          rec,         \* recordings by id: [at, signalled, by]
          finishing,   \* ids a stop or the safety timer has taken out
          armed,       \* ids whose safety timer has not fired
          shot,        \* task -> its screenshot: [at, region, left, file]
          files,       \* screenshot file -> the request whose picture it holds
          given,       \* screenshots answered: [by, file, region, tool]
          temps,       \* temporary images of OCR requests
          cms, starts, captureShots
captureVars == <<session, tools, captureSlot, rec, finishing, armed, shot, files, given, temps, cms, starts, captureShots>>

CaptureIdle == [at |-> "idle", region |-> "", left |-> <<>>, file |-> 0, n |-> 0]
CaptureInit == /\ session \in Sessions /\ tools \in Tools /\ captureSlot = 0 /\ rec = <<>> /\ finishing = {} /\ armed = {}
               /\ shot = [t \in CaptureTasks |-> CaptureIdle] /\ files = [m \in 0 .. MaxMs |-> 0] /\ given = {} /\ temps = {}
               /\ cms = 0 /\ starts = 0 /\ captureShots = 0
-----------------------------------------------------------------------------
\* candidates_for a session, and the regions each tool's command line expresses
Candidates == CASE session = "wlroots" -> <<"grim">> [] session = "gnome" -> <<"gnome-screenshot">>
                [] session = "kde" -> <<"spectacle">> [] OTHER -> <<"maim", "scrot", "import">>
Expresses(tool) == CASE tool = "grim" -> {"full", "rect", "select"}       \* select through slurp
                     [] tool \in {"gnome-screenshot", "spectacle"} -> {"full", "select"}
                     [] tool = "scrot" -> {"full"} [] OTHER -> {"full", "select", "rect"}
\* record_args
Recorder == CASE session = "wlroots" -> "wf-recorder" [] session = "x11" -> "ffmpeg" [] OTHER -> "none"

ShotBegin(t, region) ==
  /\ shot[t].at = "idle" /\ captureShots < MaxShots /\ captureShots' = captureShots + 1
  /\ shot' = [shot EXCEPT ![t] = [at |-> "try", region |-> region, left |-> Candidates, file |-> cms, n |-> captureShots']]
  /\ UNCHANGED <<session, tools, captureSlot, rec, finishing, armed, files, given, temps, cms, starts>>
\* the next candidate is missing, or cannot express the region: go on
Runs(t) == LET c == Head(shot[t].left) IN
           c \in tools /\ shot[t].region \in Expresses(c) /\ (c = "grim" /\ shot[t].region = "select" => "slurp" \in tools)
Skip(t) ==
  /\ shot[t].at = "try" /\ shot[t].left # <<>> /\ ~Runs(t) /\ shot' = [shot EXCEPT ![t].left = Tail(@)]
  /\ UNCHANGED <<session, tools, captureSlot, rec, finishing, armed, files, given, temps, cms, starts, captureShots>>
\* one that runs decides: exit code 0 answers the file, any other ends the call
Shoot(t, tool, ok) ==
  /\ shot' = [shot EXCEPT ![t] = CaptureIdle]
  /\ files' = IF ok THEN [files EXCEPT ![shot[t].file] = shot[t].n] ELSE files
  /\ given' = IF ok THEN given \cup {[by |-> shot[t].n, file |-> shot[t].file, region |-> shot[t].region, tool |-> tool]} ELSE given
  /\ UNCHANGED <<session, tools, captureSlot, rec, finishing, armed, temps, cms, starts, captureShots>>
RunCandidate(t, ok) == /\ shot[t].at = "try" /\ shot[t].left # <<>> /\ Runs(t) /\ Shoot(t, Head(shot[t].left), ok)
\* the portal: its own picker, a cancel, or 120 seconds without an answer; the
\* picture is moved to the file
Portal(t, ok) == shot[t].at = "try" /\ shot[t].left = <<>> /\ Shoot(t, "portal", ok)

\* start: under the lock up to the spawn
Start(ok) ==
  /\ starts < MaxStarts /\ starts' = starts + 1
  /\ IF captureSlot # 0 \/ Recorder \notin tools \/ ~ok THEN UNCHANGED <<captureSlot, rec, armed>>
     ELSE LET id == Len(rec) + 1 IN
          /\ rec' = Append(rec, [at |-> "running", signalled |-> FALSE, by |-> 0])
          /\ captureSlot' = id /\ armed' = armed \cup {id}
  /\ UNCHANGED <<session, tools, finishing, shot, files, given, temps, cms, captureShots>>
\* stop: another id is refused and the slot put back
Stop(id) ==
  /\ captureSlot = id /\ captureSlot' = 0 /\ finishing' = finishing \cup {id} /\ rec' = [rec EXCEPT ![id].signalled = TRUE]
  /\ UNCHANGED <<session, tools, armed, shot, files, given, temps, cms, starts, captureShots>>
\* the safety timer takes the slot only if it is still its own recording's
AnyTimer(id) == captureSlot # 0
OwnTimer(id) == captureSlot = id
Timer(id) ==
  /\ id \in armed /\ armed' = armed \ {id}
  /\ IF OwnTimer(id) THEN captureSlot' = 0 /\ finishing' = finishing \cup {captureSlot} /\ rec' = [rec EXCEPT ![captureSlot].signalled = TRUE, ![captureSlot].by = id]
     ELSE UNCHANGED <<captureSlot, finishing, rec>>
  /\ UNCHANGED <<session, tools, shot, files, given, temps, cms, starts, captureShots>>
\* the recorder: interrupted it writes its container and exits; by itself it may
\* die at any time
RecorderExit(id) ==
  /\ id \in DOMAIN rec /\ rec[id].at = "running"
  /\ rec' = [rec EXCEPT ![id].at = "exited"]
  /\ UNCHANGED <<session, tools, captureSlot, finishing, armed, shot, files, given, temps, cms, starts, captureShots>>
\* finish: it has exited, or is killed after five seconds
Finish(id) ==
  /\ id \in finishing /\ finishing' = finishing \ {id}
  /\ rec' = [rec EXCEPT ![id].at = "exited"]
  /\ UNCHANGED <<session, tools, captureSlot, armed, shot, files, given, temps, cms, starts, captureShots>>
\* capture_ocr of inline bytes: the temporary image lives as long as the call
Ocr(t) == /\ shot[t].at = "idle" /\ captureShots < MaxShots /\ captureShots' = captureShots + 1 /\ shot' = [shot EXCEPT ![t].at = "ocr"]
          /\ temps' = temps \cup {t}
          /\ UNCHANGED <<session, tools, captureSlot, rec, finishing, armed, files, given, cms, starts>>
OcrEnd(t) == /\ shot[t].at = "ocr" /\ shot' = [shot EXCEPT ![t] = CaptureIdle] /\ temps' = temps \ {t}
             /\ UNCHANGED <<session, tools, captureSlot, rec, finishing, armed, files, given, cms, starts, captureShots>>
Tick == /\ cms < MaxMs /\ cms' = cms + 1
        /\ UNCHANGED <<session, tools, captureSlot, rec, finishing, armed, shot, files, given, temps, starts, captureShots>>

CaptureNext == \/ \E t \in CaptureTasks : \/ \E r \in {"full", "select", "rect"} : ShotBegin(t, r)
                                          \/ Skip(t) \/ Ocr(t) \/ OcrEnd(t)
                                          \/ \E ok \in BOOLEAN : RunCandidate(t, ok) \/ Portal(t, ok)
               \/ \E ok \in BOOLEAN : Start(ok)
               \/ \E id \in 1 .. MaxStarts : Stop(id) \/ Timer(id) \/ RecorderExit(id) \/ Finish(id)
               \/ Tick
CaptureSpec == CaptureInit /\ [][CaptureNext]_captureVars

-----------------------------------------------------------------------------
\* Every recorder that runs can be ended: it is the slot's, or one being
\* finished; only the slot's is not interrupted, and its timer is still armed,
\* so no recording runs for ever; a timer that fires late ends no later one.  A screenshot is of the region asked for
\* unless the portal's picker took it, the portal is used only when no
\* installed tool can do it, and its file holds its own picture or that of a
\* request of the same millisecond (record.rs, screenshot.rs, ocr.rs).
CaptureInv ==
  /\ \A id \in DOMAIN rec : rec[id].at = "running" => id = captureSlot \/ id \in finishing
  /\ \A id \in DOMAIN rec : rec[id].at = "running" /\ ~rec[id].signalled => id = captureSlot /\ id \in armed
  /\ captureSlot # 0 => captureSlot \notin finishing
  /\ \A id \in DOMAIN rec : rec[id].by \in {0, id}
  /\ \A g \in given : /\ g.tool # "portal" => g.tool \in tools /\ g.region \in Expresses(g.tool)
                      /\ g.tool = "portal" => ~\E i \in DOMAIN Candidates :
                            /\ Candidates[i] \in tools /\ g.region \in Expresses(Candidates[i])
                            /\ (Candidates[i] = "grim" /\ g.region = "select" => "slurp" \in tools)
  /\ \A g \in given : files[g.file] = g.by \/ \E h \in given : h.by = files[g.file] /\ h.file = g.file
  /\ \A t \in temps : shot[t].at = "ocr"

-----------------------------------------------------------------------------
(* mqtt: one broker connection, its event loop, and commands to devices that *)
(* wait for a message on the device's response topic.  The plugin serves one *)
(* request at a time; the loop and the devices run beside it.                *)

CONSTANTS Devices,
          QueueCap,            \* capacity of the message channel, 1000 in the code
          MaxClients, MaxCommands, MaxErrors     \* bounds
VARIABLES client,      \* the client in use: [id, epoch], id 0 when there is none
          loops,       \* client id -> its event loop: [epoch, at, queue, sub]
          pending,     \* client id -> device -> the command that waits, 0 if none
          mq,          \* the request being served: [at, dev, cmd, counted]
          subs,        \* the stream manager lists vynkor/+/response
          sent, received,      \* counters of mqtt_status
          devices,     \* device -> commands it still has to answer
          answers,     \* commands answered: command -> the command the answer is for
          unanswered,  \* commands that timed out
          commands
mqttVars == <<client, loops, pending, mq, subs, sent, received, devices, answers, unanswered, commands>>

NoClient == [id |-> 0, epoch |-> 0]
MqttIdle == [at |-> "idle", dev |-> "", cmd |-> 0, counted |-> 0]
MqttInit == /\ client = NoClient /\ loops = <<>> /\ pending = <<>> /\ mq = MqttIdle /\ subs = FALSE
            /\ sent = 0 /\ received = 0 /\ devices = [d \in Devices |-> <<>>] /\ answers = {} /\ unanswered = {}
            /\ commands = 0
-----------------------------------------------------------------------------
\* The client's channel leads to the loop it was made with; a loop that has
\* reconnected reads another channel, and every send of the client fails.
Sends == client.id # 0 /\ loops[client.id].epoch = client.epoch
\* the topic on which an answer of device d is awaited, and arrives
SharedTopic(d) == CHOOSE e \in Devices : TRUE
ResponseTopic(d) == d

\* mqtt_connect: a new client and loop; an older loop is left running
Connect ==
  /\ mq.at = "idle" /\ Len(loops) < MaxClients
  /\ loops' = Append(loops, [epoch |-> 0, at |-> "poll", queue |-> 0, sub |-> FALSE])
  /\ pending' = Append(pending, [d \in Devices |-> 0])
  /\ client' = [id |-> Len(loops) + 1, epoch |-> 0]
  /\ UNCHANGED <<mq, subs, sent, received, devices, answers, unanswered, commands>>
\* mqtt_disconnect: an error keeps the client; the loop sees the closed
\* connection as any other error
Disconnect ==
  /\ mq.at = "idle" /\ client' = IF client.id # 0 /\ ~Sends THEN client ELSE NoClient
  /\ loops' = IF Sends THEN [loops EXCEPT ![client.id].at = IF @ = "poll" THEN "sleep" ELSE @, ![client.id].sub = FALSE] ELSE loops
  /\ UNCHANGED <<pending, mq, subs, sent, received, devices, answers, unanswered, commands>>
\* mqtt_publish, mqtt_subscribe, mqtt_unsubscribe
Publish == /\ mq.at = "idle" /\ Sends /\ sent' = sent + 1 /\ sent = 0
           /\ UNCHANGED <<client, loops, pending, mq, subs, received, devices, answers, unanswered, commands>>
Subscribe ==
  /\ mq.at = "idle" /\ Sends /\ loops' = [loops EXCEPT ![client.id].sub = TRUE] /\ subs' = TRUE
  /\ UNCHANGED <<client, pending, mq, sent, received, devices, answers, unanswered, commands>>
Unsubscribe ==
  /\ mq.at = "idle" /\ Sends /\ loops' = [loops EXCEPT ![client.id].sub = FALSE] /\ subs' = FALSE
  /\ UNCHANGED <<client, pending, mq, sent, received, devices, answers, unanswered, commands>>
\* mqtt_device_command, and mqtt_ota_update, which counts nothing: the entry
\* is made, then the command published, then it waits; an entry is taken out by
\* a message only
Command(d, counted) ==
  /\ mq.at = "idle" /\ client.id # 0 /\ commands < MaxCommands /\ commands' = commands + 1
  /\ pending' = [pending EXCEPT ![client.id][ResponseTopic(d)] = commands']
  /\ IF Sends THEN /\ mq' = [at |-> "wait", dev |-> d, cmd |-> commands', counted |-> counted]
                   /\ devices' = [devices EXCEPT ![d] = Append(@, commands')]
     ELSE mq' = mq /\ devices' = devices
  /\ UNCHANGED <<client, loops, subs, sent, received, answers, unanswered>>
Timeout ==
  /\ mq.at = "wait" /\ mq' = MqttIdle /\ sent' = sent + mq.counted /\ unanswered' = unanswered \cup {mq.cmd}
  /\ UNCHANGED <<client, loops, pending, subs, received, devices, answers, commands>>

\* the device answers, or its answer is lost on the way
Polling(c) == c \in DOMAIN loops /\ loops[c].at = "poll" /\ loops[c].sub
Incoming(c, d) ==
  /\ Polling(c) /\ devices[d] # <<>> /\ devices' = [devices EXCEPT ![d] = Tail(@)]
  /\ LET t == ResponseTopic(d)  w == pending[c][t]  IN
       IF w # 0
       THEN /\ pending' = [pending EXCEPT ![c][t] = 0] /\ loops' = loops
            /\ IF mq.at = "wait" /\ mq.cmd = w
               THEN /\ mq' = MqttIdle /\ sent' = sent + mq.counted /\ received' = received + mq.counted
                    /\ answers' = answers \cup {[cmd |-> w, of |-> Head(devices[d]), dev |-> mq.dev, by |-> d]}
               ELSE UNCHANGED <<mq, sent, received, answers>>
       ELSE /\ UNCHANGED <<pending, mq, sent, received, answers>>
            /\ loops' = [loops EXCEPT ![c].at = IF loops[c].queue < QueueCap THEN "poll" ELSE "full",
                                      ![c].queue = IF @ < QueueCap THEN @ + 1 ELSE @]
  /\ UNCHANGED <<client, subs, unanswered, commands>>
Lost(d) == /\ devices[d] # <<>> /\ devices' = [devices EXCEPT ![d] = Tail(@)]
           /\ UNCHANGED <<client, loops, pending, mq, subs, sent, received, answers, unanswered, commands>>
\* telemetry: nobody reads the channel, and a full one stops the loop for good
Telemetry(c) ==
  /\ Polling(c)
  /\ loops' = [loops EXCEPT ![c].at = IF loops[c].queue < QueueCap THEN "poll" ELSE "full",
                            ![c].queue = IF @ < QueueCap THEN @ + 1 ELSE @]
  /\ UNCHANGED <<client, pending, mq, subs, sent, received, devices, answers, unanswered, commands>>
\* an error ends the session; two seconds later the loop has another channel and
\* a session without subscriptions
Error(c) ==
  /\ c \in DOMAIN loops /\ loops[c].at = "poll" /\ loops[c].epoch < MaxErrors
  /\ loops' = [loops EXCEPT ![c].at = "sleep", ![c].sub = FALSE]
  /\ UNCHANGED <<client, pending, mq, subs, sent, received, devices, answers, unanswered, commands>>
Reconnect(c) ==
  /\ c \in DOMAIN loops /\ loops[c].at = "sleep"
  /\ loops' = [loops EXCEPT ![c].at = "poll", ![c].epoch = @ + 1]
  /\ UNCHANGED <<client, pending, mq, subs, sent, received, devices, answers, unanswered, commands>>

MqttNext == \/ Connect \/ Disconnect \/ Publish \/ Timeout
            \/ Subscribe \/ Unsubscribe
            \/ \E d \in Devices : Command(d, 1) \/ Command(d, 0) \/ Lost(d)
            \/ \E c \in 1 .. MaxClients : \/ Telemetry(c) \/ Error(c) \/ Reconnect(c)
                                          \/ \E d \in Devices : Incoming(c, d)
MqttSpec == MqttInit /\ [][MqttNext]_mqttVars

-----------------------------------------------------------------------------
\* An answer comes from the device that was asked, and is of another command
\* only when that one was to the same device, earlier, and had timed out; no
\* command is answered twice or both answered and timed out, and no message
\* answers two.  A client whose loop has reconnected reaches its broker no more, and a
\* loop that stands at a full channel holds no reader (client.rs, actions.rs).
MqttInv ==
  /\ \A a \in answers : a.by = a.dev /\ (a.of = a.cmd \/ (a.of < a.cmd /\ a.of \in unanswered))
  /\ \A a, b \in answers : a.cmd = b.cmd \/ a.of = b.of => a = b
  /\ \A a \in answers : a.cmd \notin unanswered
  /\ received <= Cardinality(answers) /\ received <= sent
  /\ client.id # 0 /\ loops[client.id].epoch > client.epoch => ~Sends
  /\ \A c \in DOMAIN loops : loops[c].at = "full" => loops[c].queue = QueueCap
=============================================================================
