------------------------------- MODULE Synth --------------------------------
(* Text to speech: the tts plugin, and the same code inside the speech       *)
(* plugin.  One request is served at a time; a request awaits the engine,    *)
(* the secrets vault and the network, and streams its audio packet by        *)
(* packet.  A text is a sequence of character classes.                       *)
EXTENDS Integers, Sequences, FiniteSets, SequencesExt

CONSTANTS Texts,          \* the texts that are spoken: trimmed and not empty
          SplitTexts,     \* the texts splitting is checked on
          Abbreviations,  \* known words that end in a dot, as sequences
          Kinds,          \* the values TTS_PLUGIN_LOCAL_MODEL_TYPE may have
          Speakers,       \* how many voices the local model has
          NamedVoices,    \* KOKORO_VOICES: a voice name -> its sid
          ModelRate, OpusRates,
          AllowedKeys, VaultKeys, EnvKeys,
          MaxPackets, MaxSpoken, MaxRestarts   \* bounds: packets of a sentence, requests, restarts

VARIABLES model,     \* the model directory: its type and the files that are there
          engine,    \* ENGINE: unset, ready or failed, for the life of the process
          say,       \* the request being served
          packets,   \* the chunks it has sent: whether each carries end_of_stream
          sentKeys,  \* the key names whose value went into a provider request
          answer,    \* how the latest request ended
          spoken, restarts1
svars == <<model, engine, say, packets, sentKeys, answer, spoken, restarts1>>

Files == {"model", "tokens", "espeak", "voices"}
NoSay == [pc |-> "idle", op |-> "none", units |-> <<>>, at |-> 0, left |-> 0, count |-> 0,
          voice |-> "", rate |-> 0, key |-> "", format |-> "", provider |-> ""]
Init == /\ model \in [kind : Kinds, files : {Files, Files \ {"voices"}, {}}]
        /\ engine = "unset" /\ say = NoSay /\ packets = <<>> /\ sentKeys = {}
        /\ answer = "none" /\ spoken = 0 /\ restarts1 = 0

-----------------------------------------------------------------------------
\* sentence.rs: where a text is cut
Enders == {".", "!", "~"}                     \* "~" is the single-character ellipsis
RunEnd(t, j) == t[j] \in Enders /\ (j = Len(t) \/ t[j + 1] \notin Enders)
RunStart(t, j) == CHOOSE i \in 1..j : /\ \A k \in i..j : t[k] \in Enders
                                      /\ i = 1 \/ t[i - 1] \notin Enders
NextChar(t, j) == SelectInSubSeq(t, j + 1, Len(t), LAMBDA c : c # " ")
\* last_word of the window from start to j
LastWord(t, start, j) ==
  LET spaces == {k \in start..j : t[k] = " "}
      from == IF spaces = {} THEN start ELSE 1 + (CHOOSE k \in spaces : \A l \in spaces : l <= k)
  IN SubSeq(t, from, j)
IsSingleInitial(word) == Len(word) = 2
IsKnownAbbreviation(word) == Front(word) \in Abbreviations
\* the decision for the run that ends at j, the sentence having begun at start
Closes(t, start, j) ==
  LET i == RunStart(t, j)
      n == NextChar(t, j)
      lone == i = j
      word == LastWord(t, start, j)
  IN CASE t[i] = "." /\ lone /\ i > 1 /\ t[i - 1] = "1" -> n = 0 \/ t[n] # "1"
       [] t[i] = "." /\ lone /\ ~(i > 1 /\ t[i - 1] = "1") ->
            \/ n = 0
            \/ /\ ~IsSingleInitial(word) /\ ~IsKnownAbbreviation(word)
               /\ Len(word) > 3 \/ t[n] \in {"A", "1"}
       [] t[i] = "~" /\ lone -> n = 0 \/ t[n] # "a"
       [] OTHER -> TRUE
Collapsed(s) == SelectSeq(s, LAMBDA c : c # " ")
\* split_sentences: the units between the cuts, without the empty ones
SplitSentences(t) ==
  LET start[k \in 0..Len(t)] ==
        IF k = 0 THEN 1
        ELSE IF RunEnd(t, k) /\ Closes(t, start[k - 1], k) THEN k + 1 ELSE start[k - 1]
      cuts == SetToSortSeq({k \in 1..(Len(t) - 1) : start[k] = k + 1} \cup {Len(t)},
                           LAMBDA a, b : a < b)
      unit(i) == Collapsed(SubSeq(t, IF i = 1 THEN 1 ELSE cuts[i - 1] + 1, cuts[i]))
  IN SelectSeq([i \in 1..Len(cuts) |-> unit(i)], LAMBDA u : u # <<>>)

\* the formats a provider accepts; the first is the default
Formats == [sherpa |-> <<"wav", "pcm", "mp3">>,
            openai |-> <<"mp3", "wav", "pcm", "opus", "aac", "flac">>,
            elevenlabs |-> <<"mp3", "pcm", "ulaw">>]
\* build_kokoro_config and build_piper_config
Required(kind) == IF kind = "kokoro" THEN Files ELSE Files \ {"voices"}
LoadEngine == IF model.kind \in {"kokoro", "piper"} /\ Required(model.kind) \subseteq model.files
              THEN "ready" ELSE "failed"
\* engine(): loaded at the first use, a failure is kept too
Engine == IF engine = "unset" THEN LoadEngine ELSE engine
\* kokoro_voice_to_sid and resolve_sid: "sid0".. are the raw indexes, -1 an error
RawSid(voice) == CASE voice = "sid0" -> 0 [] voice = "sid1" -> 1 [] OTHER -> -1
ResolveSid(voice) ==
  LET sid == IF RawSid(voice) >= 0 THEN RawSid(voice)
             ELSE IF model.kind = "kokoro"
             THEN IF voice \in DOMAIN NamedVoices THEN NamedVoices[voice] ELSE -1
             ELSE IF Speakers <= 1 THEN 0 ELSE -1
  IN IF sid >= Speakers THEN -1 ELSE sid
\* voices(): the names that fit the model, then every raw index
Voices == (IF model.kind = "kokoro" THEN {v \in DOMAIN NamedVoices : NamedVoices[v] < Speakers}
           ELSE {}) \cup {v \in {"sid0", "sid1"} : RawSid(v) < Speakers}
\* synthesize_samples succeeds
Speaks == Engine = "ready" /\ ResolveSid(say.voice) >= 0
\* OpusConfig::validate, with 0 as the model's own rate
StreamRate == IF say.rate = 0 THEN ModelRate ELSE say.rate

-----------------------------------------------------------------------------
Reply(a) == say' = NoSay /\ answer' = a
Kept == <<model, sentKeys, spoken, restarts1>>
Accept(r) == /\ say.pc = "idle" /\ spoken < MaxSpoken /\ spoken' = spoken + 1
             /\ packets' = <<>> /\ answer' = "none"
             /\ say' = r /\ UNCHANGED <<model, engine, sentKeys, restarts1>>
\* parse_request; a request it refuses is answered with an error and no effect
Synthesize(provider, format, key, voice) ==
  /\ format \in ToSet(Formats[provider])
  /\ Accept([NoSay EXCEPT !.pc = IF provider = "sherpa" THEN "local" ELSE "cloud", !.op = "synthesize",
                          !.provider = provider, !.format = format, !.key = key, !.voice = voice])
\* parse_speak_request; a text without an end is one sentence
Speak(op, text, voice, rate) ==
  LET units == IF op = "speak" THEN <<Collapsed(text)>> ELSE SplitSentences(text)
  IN Accept([NoSay EXCEPT !.pc = "generate", !.op = op, !.at = 1, !.voice = voice, !.rate = rate,
                          !.units = IF units = <<>> THEN <<Collapsed(text)>> ELSE units])
ListVoices == Accept([NoSay EXCEPT !.pc = "voices", !.op = "voices"])
\* handle_tts_voices and the local half of handle_tts_synthesize: the engine on a blocking thread
LocalVoices == /\ say.pc = "voices" /\ engine' = Engine
               /\ Reply(IF Engine = "ready" THEN "ok" ELSE "error")
               /\ UNCHANGED <<Kept, packets>>
LocalSynthesize == /\ say.pc = "local" /\ engine' = Engine
                   /\ \/ Speaks /\ Reply("ok")
                      \/ Reply("error")            \* no audio, or an encoder that refuses
                   /\ UNCHANGED <<Kept, packets>>
AllowKey == IF say.key \in AllowedKeys THEN say' = [say EXCEPT !.pc = "vault"] /\ answer' = answer
            ELSE Reply("error")
CloudStart == say.pc = "cloud" /\ AllowKey /\ UNCHANGED <<Kept, engine, packets>>
\* resolve_api_key: the vault may fail in any way, then the environment decides
ResolveKey ==
  /\ say.pc = "vault"
  /\ \/ say.key \in VaultKeys /\ say' = [say EXCEPT !.pc = "http"] /\ answer' = answer
     \/ IF say.key \in EnvKeys THEN say' = [say EXCEPT !.pc = "http"] /\ answer' = answer
        ELSE Reply("error")
  /\ UNCHANGED <<Kept, engine, packets>>
\* the provider's request is built with the key and sent through the network plugin
CloudRequest == /\ say.pc = "http" /\ sentKeys' = sentKeys \cup {say.key}
                /\ say' = [say EXCEPT !.pc = "reply"]
                /\ UNCHANGED <<model, spoken, restarts1, engine, packets, answer>>
CloudReply == /\ say.pc = "reply" /\ \E a \in {"ok", "error"} : Reply(a)
              /\ UNCHANGED <<Kept, engine, packets>>
\* one sentence: samples, resampled when the rates differ, encoded to n packets
Generate ==
  /\ say.pc = "generate" /\ engine' = Engine
  /\ \/ /\ Speaks /\ StreamRate \in OpusRates
        /\ \E n \in 0..MaxPackets :
             say' = [say EXCEPT !.pc = "send", !.left = n, !.count = n]
        /\ answer' = answer
     \/ Reply("error")
  /\ UNCHANGED <<Kept, packets>>
\* end_of_stream of the packet that is sent next
EndOfSentence == say.left = 1
EndOfStream == say.at = Len(say.units) /\ say.left = 1
SendPacket ==
  /\ say.pc = "send" /\ say.left > 0
  /\ \/ /\ packets' = Append(packets, EndOfStream)
        /\ say' = [say EXCEPT !.left = @ - 1] /\ answer' = answer
     \/ Reply("error") /\ packets' = packets
  /\ UNCHANGED <<Kept, engine>>
NextUnit ==
  /\ say.pc = "send" /\ say.left = 0
  /\ IF say.at < Len(say.units)
     THEN say' = [say EXCEPT !.pc = "generate", !.at = @ + 1] /\ answer' = answer
     ELSE say' = [NoSay EXCEPT !.count = say.count] /\ answer' = "ok"
  /\ UNCHANGED <<Kept, engine, packets>>
\* the operator mends or breaks the model directory; a restart forgets the engine
ChangeModel == /\ restarts1 < MaxRestarts /\ model' \in [kind : {model.kind}, files : {Files, {}}]
               /\ restarts1' = restarts1 + 1
               /\ UNCHANGED <<engine, say, packets, sentKeys, answer, spoken>>
Restart == /\ restarts1 < MaxRestarts /\ restarts1' = restarts1 + 1
           /\ engine' = "unset" /\ say' = NoSay /\ answer' = "none"
           /\ UNCHANGED <<model, packets, sentKeys, spoken>>

AllVoices == DOMAIN NamedVoices \cup {"sid0", "sid1", "other"}
Next == \/ \E p \in DOMAIN Formats, k \in AllowedKeys \cup VaultKeys \cup EnvKeys, v \in AllVoices :
             \E f \in ToSet(Formats[p]) : Synthesize(p, f, k, v)
        \/ \E o \in {"speak", "stream"}, t \in Texts, v \in {"sid0", "other"}, r \in {0, 24000} :
             Speak(o, t, v, r)
        \/ ListVoices \/ LocalVoices \/ LocalSynthesize \/ CloudStart \/ ResolveKey
        \/ CloudRequest \/ CloudReply \/ Generate \/ SendPacket \/ NextUnit
        \/ ChangeModel \/ Restart
Spec == Init /\ [][Next]_svars

-----------------------------------------------------------------------------
\* Splitting keeps every character in its order, makes no empty sentence and
\* never cuts a number in two (split_sentences).
SplitExact == \A t \in SplitTexts :
  LET units == SplitSentences(t) IN
  /\ FlattenSeq(units) = Collapsed(t)
  /\ \A i \in 1..Len(units) : units[i] # <<>>
  /\ \A i \in 1..(Len(units) - 1) :
       ~(Len(units[i]) > 1 /\ Last(units[i]) = "." /\ units[i][Len(units[i]) - 1] = "1"
         /\ Head(units[i + 1]) = "1")
\* A listener that stops at end_of_stream has heard everything: the mark is only
\* on the last packet of the stream (handle_tts_speak, handle_tts_speak_stream);
\* a stream that was answered "ok" has it unless its last sentence had no packet;
\* no key that the operator has not allowed goes out; and once a load has failed
\* nothing is spoken until the process restarts, whatever the directory holds.
\* Every voice tts_voices lists can be spoken with.
SynthInv ==
  /\ \A v \in Voices : ResolveSid(v) >= 0
  /\ \A i \in 1..Len(packets) : packets[i] => i = Len(packets) /\ say.left = 0
                                             /\ say.at \in {0, Len(say.units)}
  /\ answer = "ok" /\ packets # <<>> /\ say.count > 0 => Last(packets)
  /\ sentKeys \subseteq AllowedKeys
  /\ engine = "failed" /\ say.pc = "idle" /\ answer = "ok" => packets = <<>>
=============================================================================
