------------------------------ MODULE Providers ------------------------------
(* Desktop programs behind two plugins: clipboard runs a reader or a writer   *)
(* per request and keeps a history in the database; mic starts a recorder.    *)
(* Both try a chain of programs and go on to the next only when one is not    *)
(* installed.  Every clipboard request is a task; what it saw is appended to  *)
(* the history after the answer.                                              *)
EXTENDS Integers, Sequences, FiniteSets, SequencesExt

CONSTANTS Ctasks,
          Display,             \* [wayland, type, display]: the session's variables, "" for unset
          Pref,                \* CLIPBOARD_PLUGIN_PROVIDER: "auto", "wayland" or "x11"
          Programs,            \* programs on the PATH
          Contents, MaxBytes,  \* what the clipboard may hold: [t, len, utf8]; CLIPBOARD_PLUGIN_MAX_BYTES
          History, HistLimit,  \* history_enabled, history_limit
          Numbered,            \* entries numbered, and since removed, before
          MicEnv, MicAsked,    \* the MIC_PLUGIN_ values; what mic_start may be given
          MaxCtasks, MaxCtime, MaxCfaults   \* bounds
VARIABLES live,      \* what the clipboard holds
          boarded,   \* everything it has held
          clips,     \* id -> [text, ts], the history
          cid,       \* its id counter
          ctask,     \* task -> the request it runs
          applied,   \* task -> times its text was put on the clipboard
          pruned,    \* entries the limit deleted: [id, ts]
          erased,    \* clipboard_clear deleted something
          recorder,  \* the recorder that runs, or NoRecorder
          cnow, cruns, cfaults
vars == <<live, boarded, clips, cid, ctask, applied, pruned, erased, recorder, cnow, cruns, cfaults>>

Nothing == [t |-> "", len |-> 0, utf8 |-> TRUE]
Absent == -1
NoRecorder == [bin |-> "", rate |-> 0, channels |-> 0, chunk |-> 0, device |-> "", asked |-> <<>>]
Waiting == [op |-> "idle", chain |-> <<>>, text |-> Nothing, id |-> 0, ts |-> 0, drop |-> <<>>, asked |-> <<>>]
Init == /\ live = Nothing /\ boarded = {} /\ clips = <<>> /\ cid = Numbered /\ ctask = [k \in Ctasks |-> Waiting]
        /\ applied = [k \in Ctasks |-> 0] /\ pruned = {} /\ erased = FALSE /\ recorder = NoRecorder
        /\ cnow = 0 /\ cruns = 0 /\ cfaults = 0
Goto(k, t) == ctask' = [ctask EXCEPT ![k] = t]
End(k) == Goto(k, Waiting)
Fault(o) == (o # "ok" => cfaults < MaxCfaults) /\ cfaults' = IF o = "ok" THEN cfaults ELSE cfaults + 1
board == <<live, boarded, applied>>
store == <<clips, cid, pruned, erased>>
-----------------------------------------------------------------------------
\* detect_session, and the operator's preference over it
Session == IF Display.wayland # "" THEN "wayland"
           ELSE IF Display.type = "x11" \/ Display.display # "" THEN "x11" ELSE "none"
Used == IF Pref = "auto" THEN Session ELSE Pref
ReadChain == IF Used = "wayland" THEN <<"wl-paste">> ELSE <<"xclip", "xsel">>
WriteChain == IF Used = "wayland" THEN <<"wl-copy">> ELSE <<"xclip", "xsel">>
Start(k, t) == /\ ctask[k].op = "idle" /\ cruns < MaxCtasks /\ cruns' = cruns + 1 /\ Goto(k, t)
               /\ applied' = [applied EXCEPT ![k] = 0]
               /\ UNCHANGED <<live, boarded, store, recorder, cnow, cfaults>>
\* handle_action: without a session every request fails, whatever the preference
Read(k) == Session # "none" /\ Start(k, [Waiting EXCEPT !.op = "read", !.chain = ReadChain])
\* handle_write refuses the empty text and one over the limit
Write(k, c) == /\ Session # "none" /\ c.utf8 /\ c.len \in 1..MaxBytes
               /\ Start(k, [Waiting EXCEPT !.op = "write", !.chain = WriteChain, !.text = c])
Clear(k) == Start(k, [Waiting EXCEPT !.op = "wipe"])
\* the user, or another program, copies something
Copy(c) == /\ live' = c /\ boarded' = boarded \cup {c}
           /\ UNCHANGED <<store, ctask, applied, recorder, cnow, cruns, cfaults>>
Pass == /\ cnow < MaxCtime /\ cnow' = cnow + 1
        /\ UNCHANGED <<board, store, ctask, recorder, cruns, cfaults>>

\* only a missing program hands over to the next; with none left the request fails
Skips(k, o) == Head(ctask[k].chain) \notin Programs \/ o # "ok"
HandsOver(k, o) == Head(ctask[k].chain) \notin Programs
Keep(k, c) == IF History THEN Goto(k, [Waiting EXCEPT !.op = "number", !.text = c]) ELSE End(k)
\* read_session: too much, not UTF-8 and nothing are told apart; text found is kept
RunReader(k, o) ==
  /\ ctask[k].op = "read" /\ ctask[k].chain # <<>>
  /\ IF HandsOver(k, o) THEN o = "ok" /\ Goto(k, [ctask[k] EXCEPT !.chain = Tail(@)]) /\ UNCHANGED cfaults
     ELSE /\ Fault(o)
          /\ IF o = "ok" /\ live.len \in 1..MaxBytes /\ live.utf8 THEN Keep(k, live) ELSE End(k)
  /\ UNCHANGED <<board, store, recorder, cnow, cruns>>
\* handle_write: a writer that timed out may have put its text on the clipboard
RunWriter(k, o) ==
  /\ ctask[k].op = "write" /\ ctask[k].chain # <<>>
  /\ LET there == Head(ctask[k].chain) \in Programs IN
     /\ IF there THEN Fault(o) ELSE o = "ok" /\ UNCHANGED cfaults
     /\ IF there /\ o # "failed"
        THEN live' = ctask[k].text /\ boarded' = boarded \cup {live'} /\ applied' = [applied EXCEPT ![k] = @ + 1]
        ELSE UNCHANGED board
     /\ IF HandsOver(k, o) THEN Goto(k, [ctask[k] EXCEPT !.chain = Tail(@)])
        ELSE IF o = "ok" THEN Keep(k, ctask[k].text) ELSE End(k)
  /\ UNCHANGED <<store, recorder, cnow, cruns>>
NoneLeft(k) ==
  /\ ctask[k].op \in {"read", "write", "mic"} /\ ctask[k].chain = <<>> /\ End(k)
  /\ UNCHANGED <<board, store, recorder, cnow, cruns, cfaults>>
-----------------------------------------------------------------------------
\* Db::append: an id, the entry, and the oldest beyond the limit as listed then
Number(k, o) ==
  /\ ctask[k].op = "number" /\ Fault(o) /\ cid' = IF o = "failed" THEN cid ELSE cid + 1
  /\ IF o = "ok" THEN Goto(k, [ctask[k] EXCEPT !.op = "put", !.id = cid + 1, !.ts = cnow]) ELSE End(k)
  /\ UNCHANGED <<board, clips, pruned, erased, recorder, cnow, cruns>>
PutClip(k, o) ==
  /\ ctask[k].op = "put" /\ Fault(o)
  /\ LET e == [text |-> ctask[k].text, ts |-> ctask[k].ts] IN
     clips' = IF o = "failed" THEN clips ELSE [i \in DOMAIN clips \cup {ctask[k].id} |-> IF i = ctask[k].id THEN e ELSE clips[i]]
  /\ IF o = "ok" /\ HistLimit > 0 THEN Goto(k, [ctask[k] EXCEPT !.op = "trim"]) ELSE End(k)
  /\ UNCHANGED <<board, cid, pruned, erased, recorder, cnow, cruns>>
\* the order of the database's string keys, for ids below 100: "10" before "9"
KeyRank(i) == IF i < 10 THEN 20 * i ELSE 2 * i + 1
KeyBefore(i, j) == KeyRank(i) < KeyRank(j)
\* sorted by time stamp alone, and stable over the keys' order
OlderClip(i, j) == clips[i].ts < clips[j].ts \/ (clips[i].ts = clips[j].ts /\ KeyBefore(i, j))
ListClips(k, o) ==
  /\ ctask[k].op \in {"trim", "wipe"} /\ Fault(o)
  /\ LET aged == SetToSortSeq(DOMAIN clips, OlderClip) IN
     Goto(k, IF o # "ok" THEN Waiting
             ELSE [ctask[k] EXCEPT !.drop = IF ctask[k].op = "wipe" THEN SetToSortSeq(DOMAIN clips, KeyBefore)
                                            ELSE SubSeq(aged, 1, Len(aged) - HistLimit),
                                   !.op = IF ctask[k].op = "wipe" THEN "erase" ELSE "prune"])
  /\ UNCHANGED <<board, store, recorder, cnow, cruns>>
\* a failed deletion does not stop the others
DropClip(k, o) ==
  /\ ctask[k].op \in {"prune", "erase"} /\ ctask[k].drop # <<>> /\ Fault(o)
  /\ LET i == Head(ctask[k].drop) gone == o # "failed" /\ i \in DOMAIN clips IN
     /\ clips' = IF gone THEN [j \in DOMAIN clips \ {i} |-> clips[j]] ELSE clips
     /\ pruned' = IF gone /\ ctask[k].op = "prune" THEN pruned \cup {[id |-> i, ts |-> clips[i].ts]} ELSE pruned
     /\ erased' = (erased \/ (gone /\ ctask[k].op = "erase"))
  /\ Goto(k, [ctask[k] EXCEPT !.drop = Tail(@)])
  /\ UNCHANGED <<board, cid, recorder, cnow, cruns>>
Dropped(k) ==
  /\ ctask[k].op \in {"prune", "erase"} /\ ctask[k].drop = <<>> /\ End(k)
  /\ UNCHANGED <<board, store, recorder, cnow, cruns, cfaults>>
-----------------------------------------------------------------------------
\* mic: RecorderConfig::from_env ignores what is out of range, StartRequest::parse
\* refuses it
Within(n, lo, hi, default) == IF n \in lo..hi THEN n ELSE default
Default == [rate |-> Within(MicEnv.rate, 8000, 192000, 16000), channels |-> Within(MicEnv.channels, 1, 8, 1),
            chunk |-> Within(MicEnv.chunk, 10, 1000, 100)]
Given(n, lo, hi) == n = Absent \/ n \in lo..hi
Valid(p) == /\ p.target # "" /\ Given(p.rate, 8000, 192000) /\ Given(p.channels, 1, 8) /\ Given(p.chunk, 10, 1000)
            /\ p.format \in {"", "pcm_s16le"} /\ p.stream # 0
Chosen(p, f) == IF p[f] = Absent THEN Default[f] ELSE p[f]
KnownRecorders == <<"pw-cat", "parec", "arecord">>
RecorderChain == IF MicEnv.pinned = "" THEN KnownRecorders
                 ELSE SelectSeq(KnownRecorders, LAMBDA b : b = MicEnv.pinned)
MicStart(k, p) == Valid(p) /\ Start(k, [Waiting EXCEPT !.op = "mic", !.chain = RecorderChain, !.asked = p])
\* build_args: the recorder gets the rate, the channels and the device; the one that
\* ran is stopped once the new one has started
Args(bin, p) == [bin |-> bin, rate |-> Chosen(p, "rate"), channels |-> Chosen(p, "channels"), chunk |-> Chosen(p, "chunk"),
                 device |-> IF p.device = "" THEN MicEnv.device ELSE p.device, asked |-> p]
Spawn(k, o) ==
  /\ ctask[k].op = "mic" /\ ctask[k].chain # <<>> /\ o # "late"
  /\ IF HandsOver(k, o) THEN o = "ok" /\ Goto(k, [ctask[k] EXCEPT !.chain = Tail(@)]) /\ UNCHANGED <<cfaults, recorder>>
     ELSE Fault(o) /\ End(k) /\ recorder' = IF o = "ok" THEN Args(Head(ctask[k].chain), ctask[k].asked) ELSE recorder
  /\ UNCHANGED <<board, store, cnow, cruns>>

Next == \/ \E k \in Ctasks : Read(k) \/ Clear(k) \/ NoneLeft(k) \/ Dropped(k) \/ \E c \in Contents : Write(k, c)
        \/ \E c \in Contents : Copy(c)
        \/ Pass
        \/ \E k \in Ctasks, p \in MicAsked : MicStart(k, p)
        \/ \E k \in Ctasks, o \in {"ok", "late", "failed"} :
             RunReader(k, o) \/ RunWriter(k, o) \/ Number(k, o) \/ PutClip(k, o) \/ ListClips(k, o) \/ DropClip(k, o) \/ Spawn(k, o)
Spec == Init /\ [][Next]_vars
-----------------------------------------------------------------------------
(* A program may be missing, fail or answer too late, and a late writer may   *)
(* have done its work.  A request puts its text on the clipboard at most      *)
(* once; the history holds only text that was on the clipboard, within the    *)
(* size limit, and overlapping appends never delete one of its newest         *)
(* history_limit entries; the recorder that runs has what its request asked   *)
(* for and the operator's value for the rest, all of it in range.             *)
ProvidersInv ==
  /\ \A k \in Ctasks : applied[k] <= 1
  /\ \A i \in DOMAIN clips : clips[i].text \in boarded /\ clips[i].text.utf8 /\ clips[i].text.len \in 1..MaxBytes
  /\ ~erased => \A d \in pruned : Cardinality({i \in DOMAIN clips : clips[i].ts > d.ts \/ (clips[i].ts = d.ts /\ KeyBefore(d.id, i))}) >= HistLimit
  /\ recorder.bin # "" =>
       /\ recorder.bin \in Programs /\ (MicEnv.pinned # "" => recorder.bin = MicEnv.pinned)
       /\ recorder.rate \in 8000..192000 /\ recorder.channels \in 1..8 /\ recorder.chunk \in 10..1000
       /\ \A f \in {"rate", "channels", "chunk"} : recorder.asked[f] # Absent => recorder[f] = recorder.asked[f]
=============================================================================
