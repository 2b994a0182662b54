------------------------------- MODULE Listen -------------------------------
(* Speech to text: the transcription of files and of live streams, the code  *)
(* the stt plugin and the speech plugin share.  Requests and audio chunks    *)
(* are served one at a time.                                                 *)
EXTENDS Integers, Sequences, FiniteSets, SequencesExt

CONSTANTS StreamIds, Rates,
          START_STREAK, SilenceMs, MinSpeechMs, Vad,   \* the voice-activity detector
          Converts,        \* stt converts ogg and mp3 files with ffmpeg, speech does not
          AllowedKeys, VaultKeys, EnvKeys, ModelTypes,
          MaxChunks, MaxJobs, MaxReboots               \* bounds
VARIABLES recog,      \* ENGINE of the recogniser: unset, ready or failed
          models1,    \* the model directory: type and whether its files are there
          ears,       \* STREAMS
          accepted,   \* per stream: the audio accepted since it was started
          job,        \* the request being served
          tmp,        \* the temporary files of this process
          told,       \* per stream: what was announced, in order
          usedKeys, heard, jobs, chunks, reboots
lvars == <<recog, models1, ears, accepted, job, tmp, told, usedKeys, heard, jobs, chunks, reboots>>

NoJob == [pc |-> "idle", op |-> "none", format |-> "", key |-> "", pcm |-> 0, stream |-> 0]
\* what may be found in the model directory
Installs == {{}, {"encoder", "decoder", "tokens"}, {"encoder", "decoder", "tokens", "joiner"}}
Silent == [active |-> FALSE, streak |-> 0, speech |-> 0, silence |-> 0]
NoEar == [rate |-> 0, pcm |-> 0, vad |-> Silent]
Open(s) == ears[s].rate > 0
Init == /\ recog = "unset" /\ models1 \in [kind : ModelTypes, files : Installs]
        /\ ears = [s \in StreamIds |-> NoEar] /\ accepted = [s \in StreamIds |-> 0]
        /\ job = NoJob /\ tmp = {} /\ told = [s \in StreamIds |-> <<>>]
        /\ usedKeys = {} /\ heard = 0 /\ jobs = 0 /\ chunks = 0 /\ reboots = 0

-----------------------------------------------------------------------------
\* VadState::feed: the next state and what the chunk announces
Feed(v, loud, ms) ==
  CASE ~Vad -> <<v, <<>>>>
    [] Vad /\ ~v.active /\ loud /\ v.streak + 1 >= START_STREAK ->
         <<[active |-> TRUE, streak |-> v.streak + 1, speech |-> ms * (v.streak + 1), silence |-> 0],
           <<"started">>>>
    [] Vad /\ ~v.active /\ loud /\ v.streak + 1 < START_STREAK ->
         <<[v EXCEPT !.streak = @ + 1], <<>>>>
    [] Vad /\ ~v.active /\ ~loud -> <<[v EXCEPT !.streak = 0], <<>>>>
    [] Vad /\ v.active /\ loud -> <<[v EXCEPT !.speech = @ + ms, !.silence = 0], <<>>>>
    [] Vad /\ v.active /\ ~loud /\ v.silence + ms < SilenceMs ->
         <<[v EXCEPT !.silence = @ + ms], <<>>>>
    [] OTHER -> <<Silent, IF v.speech >= MinSpeechMs THEN <<"ended">> ELSE <<>>>>
\* the file types a provider takes; sherpa takes ogg and mp3 only from a file, for ffmpeg
Accepts(provider, format, file) ==
  CASE provider = "openai" -> format \in {"wav", "mp3", "ogg"}
    [] OTHER -> format \in {"wav", "pcm"} \/ (Converts /\ file /\ format \in {"ogg", "mp3"})
\* build_transducer_config and build_whisper_config
Parts(kind) == {"encoder", "decoder", "tokens"} \cup (IF kind = "transducer" THEN {"joiner"} ELSE {})
Load == IF models1.kind \in {"transducer", "whisper"} /\ Parts(models1.kind) \subseteq models1.files
        THEN "ready" ELSE "failed"
Recog == IF recog = "unset" THEN Load ELSE recog
\* decode_samples and parse_wav: a body that is not 16-bit PCM is refused
Decodes(format) == format \in {"wav", "pcm"}

Answer1 == job' = NoJob
Same == <<models1, reboots, chunks>>
Begin(r) == /\ job.pc = "idle" /\ jobs < MaxJobs /\ jobs' = jobs + 1 /\ job' = r
            /\ UNCHANGED <<recog, Same, ears, accepted, tmp, told, usedKeys, heard>>
\* stt_transcribe: parse_request, then the way of the provider and the format
Transcribe(provider, format, file, key) ==
  /\ Accepts(provider, format, file)
  /\ Begin([NoJob EXCEPT !.op = "transcribe", !.format = format, !.key = key, !.pcm = 1,
            !.pc = IF provider = "openai" THEN "cloud"
                   ELSE IF format \in {"ogg", "mp3"} THEN "ffmpeg" ELSE "decode"])
\* the conversion: input written, ffmpeg, output read, both removed; an early
\* return leaves what is there
CleanFiles == tmp' = {}
Ffmpeg ==
  /\ job.pc = "ffmpeg"
  /\ \/ CleanFiles /\ job' = [job EXCEPT !.pc = "decode", !.format = "wav"]
     \/ tmp' \in {tmp, tmp \cup {"in"}, {"in", "out"}} /\ Answer1
  /\ UNCHANGED <<recog, Same, ears, accepted, told, usedKeys, heard, jobs>>
Decode ==
  /\ job.pc = "decode"
  /\ \/ Decodes(job.format) /\ job' = [job EXCEPT !.pc = "recognise"]
     \/ Answer1
  /\ UNCHANGED <<recog, Same, ears, accepted, tmp, told, usedKeys, heard, jobs>>
\* transcribe_pcm on a blocking thread
Recognise ==
  /\ job.pc = "recognise" /\ recog' = Recog
  /\ IF Recog = "failed" THEN Answer1 /\ heard' = heard
     ELSE IF job.op = "stop" THEN job' = [job EXCEPT !.pc = "publish"] /\ heard' = heard
     ELSE Answer1 /\ heard' = heard + 1
  /\ UNCHANGED <<Same, ears, accepted, tmp, told, usedKeys, jobs>>
\* stt_models
Models == Begin([NoJob EXCEPT !.pc = "models", !.op = "models"])
LocalModels == /\ job.pc = "models" /\ recog' = Recog /\ Answer1
               /\ UNCHANGED <<Same, ears, accepted, tmp, told, usedKeys, heard, jobs>>
\* transcribe_cloud: the allowlist, the vault or the environment, the network
CloudKey ==
  /\ job.pc = "cloud"
  /\ IF job.key \notin AllowedKeys THEN Answer1 ELSE job' = [job EXCEPT !.pc = "vault"]
  /\ UNCHANGED <<recog, Same, ears, accepted, tmp, told, usedKeys, heard, jobs>>
ResolveApiKey ==
  /\ job.pc = "vault"
  /\ \/ job.key \in VaultKeys /\ job' = [job EXCEPT !.pc = "http"]
     \/ IF job.key \in EnvKeys THEN job' = [job EXCEPT !.pc = "http"] ELSE Answer1
  /\ UNCHANGED <<recog, Same, ears, accepted, tmp, told, usedKeys, heard, jobs>>
CloudCall ==
  /\ job.pc = "http" /\ usedKeys' = usedKeys \cup {job.key}
  /\ Answer1 /\ heard' \in {heard, heard + 1}
  /\ UNCHANGED <<recog, Same, ears, accepted, tmp, told, jobs>>

-----------------------------------------------------------------------------
\* stt_listen_start: refused while the stream is there
Start(s, rate) ==
  /\ job.pc = "idle" /\ jobs < MaxJobs /\ jobs' = jobs + 1
  /\ IF Open(s) THEN UNCHANGED <<ears, accepted, told>>
     ELSE /\ ears' = [ears EXCEPT ![s] = [NoEar EXCEPT !.rate = rate]]
          /\ accepted' = [accepted EXCEPT ![s] = 0] /\ told' = [told EXCEPT ![s] = <<>>]
  /\ UNCHANGED <<recog, Same, job, tmp, usedKeys, heard>>
\* an AudioStreamChunk: appended and fed to the detector; of another rate or to
\* no stream, dropped.  Its announcements are published best-effort.
Push(s, rate, loud, ms) ==
  /\ job.pc = "idle" /\ chunks < MaxChunks /\ chunks' = chunks + 1
  /\ IF Open(s) /\ ears[s].rate = rate
     THEN LET fed == Feed(ears[s].vad, loud, ms) IN
          /\ ears' = [ears EXCEPT ![s].pcm = @ + ms, ![s].vad = fed[1]]
          /\ accepted' = [accepted EXCEPT ![s] = @ + ms]
          /\ told' = [told EXCEPT ![s] = @ \o fed[2]]
     ELSE UNCHANGED <<ears, accepted, told>>
  /\ UNCHANGED <<recog, models1, reboots, job, tmp, usedKeys, heard, jobs>>
\* stt_listen_stop: the stream is taken before anything can fail
TakeCopy(s) == ears' = ears
Take(s) == ears' = [ears EXCEPT ![s] = NoEar]
ListenStop(s) ==
  /\ job.pc = "idle" /\ jobs < MaxJobs /\ jobs' = jobs + 1 /\ Open(s) /\ Take(s)
  /\ job' = IF ears[s].pcm = 0 THEN NoJob
            ELSE [NoJob EXCEPT !.pc = "recognise", !.op = "stop", !.pcm = ears[s].pcm, !.stream = s]
  /\ UNCHANGED <<recog, Same, accepted, tmp, told, usedKeys, heard>>
\* the transcript is published, then answered; a failed publish answers an error
Publish ==
  /\ job.pc = "publish" /\ heard' \in {heard, heard + 1} /\ Answer1
  /\ UNCHANGED <<recog, Same, ears, accepted, tmp, told, usedKeys, jobs>>
Reboot ==
  /\ reboots < MaxReboots /\ reboots' = reboots + 1 /\ job' = NoJob /\ recog' = "unset"
  /\ ears' = [s \in StreamIds |-> NoEar] /\ accepted' = [s \in StreamIds |-> 0]
  /\ told' = [s \in StreamIds |-> <<>>] /\ models1' \in [kind : {models1.kind}, files : Installs]
  /\ UNCHANGED <<tmp, usedKeys, heard, jobs, chunks>>

Next == \/ \E p \in {"sherpa", "openai"}, f \in {"wav", "pcm", "ogg", "mp3"}, b \in BOOLEAN,
              k \in AllowedKeys \cup VaultKeys \cup EnvKeys : Transcribe(p, f, b, k)
        \/ Ffmpeg \/ Decode \/ Recognise \/ Models \/ LocalModels
        \/ CloudKey \/ ResolveApiKey \/ CloudCall
        \/ \E s \in StreamIds, r \in Rates : Start(s, r)
        \/ \E s \in StreamIds, r \in Rates, l \in BOOLEAN, ms \in {1, 2} : Push(s, r, l, ms)
        \/ \E s \in StreamIds : ListenStop(s)
        \/ Publish \/ Reboot
Spec == Init /\ [][Next]_lvars

-----------------------------------------------------------------------------
\* A stream holds exactly the audio accepted since it was started until it is
\* stopped, and the request that stopped it gets all of it; an utterance is
\* announced as ended at most once, only after it was announced as started, and
\* while one is open its start was the latest news; and no key that is not
\* allowed is used.
ListenInv ==
  /\ \A s \in StreamIds : Open(s) => ears[s].pcm = accepted[s]
  /\ job.op = "stop" => job.pcm = accepted[job.stream] /\ ~Open(job.stream)
  /\ \A s \in StreamIds :
       /\ told[s] # <<>> => Head(told[s]) = "started"
       /\ \A i \in 1..(Len(told[s]) - 1) : told[s][i] = "ended" => told[s][i + 1] = "started"
       /\ Open(s) /\ ears[s].vad.active => told[s] # <<>> /\ Last(told[s]) = "started"
       /\ ears[s].vad.active => ears[s].vad.silence < SilenceMs
  /\ usedKeys \subseteq AllowedKeys
=============================================================================
