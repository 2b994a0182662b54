------------------------------- MODULE Speech -------------------------------
(* The three plugins that speak and listen: tts (Synth), stt (Listen), and   *)
(* speech, which holds a copy of both behind one serve loop.  What speech    *)
(* adds is that the two halves share the loop: while one request is served   *)
(* everything else, the chunks of an open microphone included, waits in its  *)
(* inbox.                                                                    *)
EXTENDS Integers, Sequences, FiniteSets, SequencesExt

CONSTANTS Texts, SplitTexts, Abbreviations, Kinds, Speakers, NamedVoices, ModelRate, OpusRates,
          AllowedKeys, VaultKeys, EnvKeys, MaxPackets, MaxSpoken, MaxRestarts,
          StreamIds, Rates, START_STREAK, SilenceMs, MinSpeechMs, Vad, ModelTypes,
          MaxChunks, MaxJobs, MaxReboots,
          MaxInbox, MaxMail   \* bounds: messages that wait, messages at all
VARIABLES host,           \* which of the three plugins this is
          inbox, served1, \* speech: what waits, and the messages served, oldest first
          model, engine, say, packets, sentKeys, answer, spoken, restarts1,
          recog, models1, ears, accepted, job, tmp, told, usedKeys, heard, jobs, chunks, reboots
S == INSTANCE Synth
L == INSTANCE Listen WITH Converts <- FALSE
T == INSTANCE Listen WITH Converts <- TRUE
hvars == <<host, inbox, served1>>
svars == <<model, engine, say, packets, sentKeys, answer, spoken, restarts1>>
lvars == <<recog, models1, ears, accepted, job, tmp, told, usedKeys, heard, jobs, chunks, reboots>>
vars == <<hvars, svars, lvars>>

Init == /\ host \in {"tts", "stt", "speech"} /\ inbox = <<>> /\ served1 = <<>>
        /\ S!Init /\ L!Init
        /\ host # "stt" => Cardinality(models1.files) = 4
        /\ host # "tts" => model = [kind |-> "kokoro", files |-> S!Files]

-----------------------------------------------------------------------------
\* serve: a message is taken when the one before it is done
FreeOfSynth == job.pc = "idle"
Free == say.pc = "idle" /\ job.pc = "idle"
Arrive(m) == /\ Len(inbox) < MaxInbox /\ Len(inbox) + Len(served1) < MaxMail /\ inbox' = Append(inbox, m)
             /\ UNCHANGED <<host, served1, svars, lvars>>
Take1(kind) == /\ Free /\ inbox # <<>> /\ Head(inbox) = kind
               /\ inbox' = Tail(inbox) /\ served1' = Append(served1, kind) /\ host' = host
\* dispatch: the synthesis requests, what parse_request lets through of them
SynthesizeParams == [provider : DOMAIN S!Formats, format : {"mp3"},
                     key : AllowedKeys \cup VaultKeys, voice : {"sid0", "other"}]
TtsSynthesize == /\ Take1("synthesize")
                 /\ \E r \in SynthesizeParams : S!Synthesize(r.provider, r.format, r.key, r.voice)
                 /\ UNCHANGED lvars
TtsVoices == Take1("voices") /\ S!ListVoices /\ UNCHANGED lvars
\* parse_speak_request: the local engine only, with the default rate
SpeakParams == [text : Texts, voice : {"sid0"}, rate : {24000}]
TtsSpeak == /\ Take1("speak")
            /\ \E r \in SpeakParams : S!Speak("speak", r.text, r.voice, r.rate)
            /\ UNCHANGED lvars
TtsSpeakStream == /\ Take1("stream")
                  /\ \E r \in SpeakParams : S!Speak("stream", r.text, r.voice, r.rate)
                  /\ UNCHANGED lvars
\* the steps of the request in progress
SynthesizeLocal == S!LocalSynthesize /\ UNCHANGED <<hvars, lvars>>
SynthesizeCloud == (S!CloudStart \/ S!CloudRequest \/ S!CloudReply) /\ UNCHANGED <<hvars, lvars>>
TtsResolveKey == S!ResolveKey /\ UNCHANGED <<hvars, lvars>>
VoicesLocal == S!LocalVoices /\ UNCHANGED <<hvars, lvars>>
SynthesizeSamples == S!Generate /\ UNCHANGED <<hvars, lvars>>
SpeakPackets == (S!SendPacket \/ S!NextUnit) /\ UNCHANGED <<hvars, lvars>>
\* dispatch: the listening requests, and the chunks
TranscribeParams == [provider : {"sherpa", "openai"}, format : {"wav"},
                     key : AllowedKeys \cup VaultKeys]
SttTranscribe == /\ Take1("transcribe")
                 /\ \E r \in TranscribeParams : L!Transcribe(r.provider, r.format, FALSE, r.key)
                 /\ UNCHANGED svars
SttModels == Take1("models") /\ L!Models /\ UNCHANGED svars
\* parse_listen_start_request: a rate above zero
ListenStartParams == [stream : StreamIds, rate : {16}]
SttListenStart == /\ Take1("start") /\ (\E r \in ListenStartParams : L!Start(r.stream, r.rate))
                  /\ UNCHANGED svars
SttListenStop == Take1("stop") /\ (\E s \in StreamIds : L!ListenStop(s)) /\ UNCHANGED svars
AudioChunk == /\ Take1("chunk") /\ \E s \in StreamIds, l \in BOOLEAN : L!Push(s, 16, l, 2)
              /\ UNCHANGED svars
DecodeSamples == L!Decode /\ UNCHANGED <<hvars, svars>>
TranscribePcm == L!Recognise /\ UNCHANGED <<hvars, svars>>
ModelsLocal == L!LocalModels /\ UNCHANGED <<hvars, svars>>
TranscribeCloud == (L!CloudKey \/ L!CloudCall) /\ UNCHANGED <<hvars, svars>>
SttResolveKey == L!ResolveApiKey /\ UNCHANGED <<hvars, svars>>
PublishText == L!Publish /\ UNCHANGED <<hvars, svars>>

SpeechNext ==
  \/ \E m \in {"synthesize", "voices", "speak", "stream", "transcribe", "models", "start", "stop",
               "chunk"} : Arrive(m)
  \/ TtsSynthesize \/ TtsVoices \/ TtsSpeak \/ TtsSpeakStream
  \/ SynthesizeLocal \/ SynthesizeCloud \/ TtsResolveKey \/ VoicesLocal
  \/ SynthesizeSamples \/ SpeakPackets
  \/ SttTranscribe \/ SttModels \/ SttListenStart \/ SttListenStop \/ AudioChunk
  \/ DecodeSamples \/ TranscribePcm \/ ModelsLocal \/ TranscribeCloud \/ SttResolveKey \/ PublishText
Next == \/ host = "tts" /\ S!Next /\ UNCHANGED <<hvars, lvars>>
        \/ host = "stt" /\ T!Next /\ UNCHANGED <<hvars, svars>>
        \/ host = "speech" /\ SpeechNext
Spec == Init /\ [][Next]_vars

-----------------------------------------------------------------------------
\* What Synth and Listen promise holds in each plugin; in speech one request is
\* served at a time, so the audio of a stream is complete up to the stop: every
\* chunk that arrived before it and after the start was served before it.
SpeechInv ==
  /\ S!SynthInv /\ L!ListenInv
  /\ host = "tts" /\ spoken = 0 => S!SplitExact
  /\ host = "speech" => say.pc = "idle" \/ job.pc = "idle"
  /\ host = "speech" /\ job.op = "stop" =>
       job.pcm = 2 * Cardinality({i \in 1..Len(served1) :
                       /\ served1[i] = "chunk"
                       /\ \E j \in 1..(i - 1) : /\ served1[j] = "start"
                                                /\ \A k \in j..i : served1[k] # "stop"})
=============================================================================
