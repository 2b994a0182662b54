------------------------------- MODULE Desktop -------------------------------
(* The desktop: notifications, the starting of applications, and shortcuts. *)
(* The parts share no state; each has its own initial states and steps.     *)
EXTENDS Integers, Sequences, FiniteSets, FiniteSetsExt, SequencesExt

-----------------------------------------------------------------------------
(* notify: notifications shown by a program of the desktop, spoken through   *)
(* tts, kept in the inbox file, or pushed to a server.  Requests are served  *)
(* one at a time; every await may be the last thing the process does.        *)

CONSTANTS Enabled, OnPath,        \* NOTIFY_PLUGIN_ENABLED_PROVIDERS; the binaries installed
          Servers, Hosts,         \* the operator's push servers, first is the default; hosts a caller may name
          HasInbox,               \* NOTIFY_PLUGIN_DATA_DIR is set
          MaxEntries,             \* MAX_ENTRIES
          MaxSends, MaxNow, MaxCrashes          \* bounds
VARIABLES npc, nreq,     \* where the request being served is, and what it is
          inbox,         \* inbox.json: entries, oldest first
          scratch,       \* inbox.json.tmp as an unfinished write leaves it
          shown, heard,  \* messages a program displayed, messages a player played
          audio,         \* audio files in the temporary directory: [msg, whole]
          pushed,        \* the last request that left for the network plugin
          numbered,      \* every id handed out, with its message
          sent, deleted, nnow, ncrashes
notifyVars == <<npc, nreq, inbox, scratch, shown, heard, audio, pushed, numbered, sent, deleted, nnow, ncrashes>>

NoNotice == [msg |-> 0, via |-> "", silent |-> FALSE, speak |-> FALSE, spoken |-> FALSE]
NotifyInit == /\ npc = "idle" /\ nreq = NoNotice /\ inbox = <<>> /\ scratch = FALSE /\ shown = {} /\ heard = {}
              /\ audio = {} /\ pushed = {} /\ numbered = {} /\ sent = 0 /\ deleted = {} /\ nnow = 0 /\ ncrashes = 0

-----------------------------------------------------------------------------
\* ProviderKind and its binaries; espeak-ng before espeak
Providers == [desktop |-> <<"notify-send">>, wall |-> <<"wall">>, voice |-> <<"espeak-ng", "espeak">>]
KindAvailable(kind) == Range(Providers[kind]) \cap OnPath # {}
\* deliver_with: policy first, then the binary
Deliverable(kind) == kind \in Enabled /\ KindAvailable(kind)
\* pick_player for the audio tts returned
PickPlayer(format) ==
  LET ok == SelectSeq(IF format = "wav" THEN <<"paplay", "pw-play", "aplay">> ELSE <<"ffplay">>,
                      LAMBDA b : b \in OnPath)
  IN IF format # "pcm" /\ ok # <<>> THEN Head(ok) ELSE ""

\* parse_seq and open_at: the number after the highest one still in the file
Seqs(file) == {file[i].id[2] : i \in DOMAIN file}
SeqOne(file) == Len(file) + 1
NextSeq(file) == IF file = <<>> THEN 1 ELSE 1 + CHOOSE n \in Seqs(file) : \A m \in Seqs(file) : m <= n
EntryId(file) == <<nnow, NextSeq(file)>>
\* push: the entry is named and appended, the newest MaxEntries stay
Pushed(file, r) ==
  LET all == Append(file, [id |-> EntryId(file), msg |-> r.msg, delivered |-> ~r.silent, spoken |-> r.spoken, read |-> FALSE])
  IN SubSeq(all, 1 + Len(all) - (IF Len(all) < MaxEntries THEN Len(all) ELSE MaxEntries), Len(all))
\* atomic_write, as a crash or a full disk may leave it: the scratch file is
\* written, then it replaces the inbox
Persist(file) == inbox' = file /\ scratch' = FALSE
Unwritten == inbox' = inbox /\ scratch' \in BOOLEAN
Done == npc' = "idle" /\ nreq' = NoNotice

\* handle_notify_send, once the parameters are valid: silent ones are only stored
Send(via, silent, speak) ==
  /\ npc = "idle" /\ sent < MaxSends /\ sent' = sent + 1
  /\ nreq' = [msg |-> sent + 1, via |-> via, silent |-> silent, speak |-> speak, spoken |-> FALSE]
  /\ npc' = IF silent THEN "store" ELSE "deliver"
  /\ UNCHANGED <<inbox, scratch, shown, heard, audio, pushed, numbered, deleted, nnow, ncrashes>>
\* deliver, run_command: refused, failed, or shown
Deliver ==
  /\ npc = "deliver"
  /\ \/ /\ Deliverable(nreq.via) /\ shown' = shown \cup {nreq.msg}
        /\ npc' = (IF nreq.speak THEN "tts" ELSE "store") /\ nreq' = nreq
     \/ Done /\ shown' = shown
  /\ UNCHANGED <<inbox, scratch, heard, audio, pushed, numbered, sent, deleted, nnow, ncrashes>>
\* speak_via_tts up to the player: tts may fail, its audio may be unplayable, and
\* a write that fails may leave part of the file, which nobody removes
AudioFile(whole) == [msg |-> nreq.msg, whole |-> whole]
Tts(format) ==
  /\ npc = "tts"
  /\ \/ PickPlayer(format) # "" /\ audio' = audio \cup {AudioFile(TRUE)} /\ npc' = "play"
     \/ PickPlayer(format) # "" /\ audio' = audio \cup {AudioFile(FALSE)} /\ npc' = "store"
     \/ audio' = audio /\ npc' = "store"
  /\ UNCHANGED <<nreq, inbox, scratch, shown, heard, pushed, numbered, sent, deleted, nnow, ncrashes>>
\* the player ends, well or badly; the file goes either way
Played(ok) ==
  /\ npc = "play" /\ npc' = "store" /\ audio' = audio \ {AudioFile(TRUE)}
  /\ nreq' = [nreq EXCEPT !.spoken = ok]
  /\ heard' = IF ok THEN heard \cup {nreq.msg} ELSE heard
  /\ UNCHANGED <<inbox, scratch, shown, pushed, numbered, sent, deleted, nnow, ncrashes>>
\* the entry: a failure fails a silent notification and is passed over otherwise
Store ==
  /\ npc = "store" /\ Done
  /\ \/ /\ HasInbox /\ Persist(Pushed(inbox, nreq)) /\ numbered' = numbered \cup {<<EntryId(inbox), nreq.msg>>}
     \/ Unwritten /\ numbered' = numbered
  /\ UNCHANGED <<shown, heard, audio, pushed, sent, deleted, nnow, ncrashes>>
\* handle_notify_mark_read: the first entry of that id
MarkRead(id) ==
  /\ npc = "idle" /\ HasInbox
  /\ LET at == {i \in DOMAIN inbox : inbox[i].id = id /\ ~inbox[i].read}
     IN at # {} /\ Persist([inbox EXCEPT ![CHOOSE i \in at : \A j \in at : i <= j].read = TRUE])
  /\ UNCHANGED <<npc, nreq, shown, heard, audio, pushed, numbered, sent, deleted, nnow, ncrashes>>
\* handle_notify_delete: every entry of that id
Delete(id) ==
  /\ npc = "idle" /\ HasInbox /\ id \in {inbox[i].id : i \in DOMAIN inbox}
  /\ Persist(SelectSeq(inbox, LAMBDA e : e.id # id)) /\ deleted' = deleted \cup {id}
  /\ UNCHANGED <<npc, nreq, shown, heard, audio, pushed, numbered, sent, nnow, ncrashes>>
\* handle_notify_list
ListEntries(read) == Reverse(SelectSeq(inbox, LAMBDA e : read \/ ~e.read))

\* parse_push_params: the server, "" for the operator's first, and the topic
PushAccepted(kind, host, topic) == /\ host = "" \/ host \in Range(Servers)
                                   /\ (kind = "gotify") # topic
\* build_push_http: each service has its own token, sent in its own header
Token(kind) == kind
\* handle_push_send, run to the network plugin; the answer changes nothing here
Push(kind, host, topic) ==
  /\ npc = "idle" /\ PushAccepted(kind, host, topic)
  /\ pushed' = {[kind |-> kind, to |-> IF host = "" THEN Servers[1] ELSE host, token |-> Token(kind)]}
  /\ UNCHANGED <<npc, nreq, inbox, scratch, shown, heard, audio, numbered, sent, deleted, nnow, ncrashes>>

\* the process dies at an await and is started again
Crash == /\ npc # "idle" /\ ncrashes < MaxCrashes /\ ncrashes' = ncrashes + 1 /\ Done
         /\ scratch' \in IF npc = "store" THEN BOOLEAN ELSE {scratch}
         /\ UNCHANGED <<inbox, shown, heard, audio, pushed, numbered, sent, deleted, nnow>>
NotifyTick == nnow < MaxNow /\ nnow' = nnow + 1
              /\ UNCHANGED <<npc, nreq, inbox, scratch, shown, heard, audio, pushed, numbered, sent, deleted, ncrashes>>

NotifyNext == \/ \E via \in DOMAIN Providers, silent, speak \in BOOLEAN : Send(via, silent, speak)
              \/ Deliver \/ Store \/ Crash \/ NotifyTick
              \/ \E format \in {"wav", "mp3", "pcm"} : Tts(format)
              \/ \E ok \in BOOLEAN : Played(ok)
              \/ \E id \in {inbox[i].id : i \in DOMAIN inbox} : MarkRead(id) \/ Delete(id)
              \/ \E kind \in {"ntfy", "gotify"}, host \in Hosts \cup {""}, topic \in BOOLEAN : Push(kind, host, topic)
NotifySpec == NotifyInit /\ [][NotifyNext]_notifyVars

-----------------------------------------------------------------------------
\* The inbox tells what happened: an entry says delivered exactly when its
\* message was shown and spoken exactly when it was heard to the end, the newest
\* is last, and the cap holds.  An id names one message for good, unless that
\* message was deleted in its own millisecond while it was the newest.  A whole
\* audio file outlives its notification only through a crash; what a failed write
\* leaves is never played (speak_via_tts).
NotifyInv ==
  /\ Len(inbox) <= MaxEntries
  /\ \A i \in DOMAIN inbox : LET e == inbox[i] IN
       (e.delivered <=> e.msg \in shown) /\ (e.spoken <=> e.msg \in heard)
  /\ \A i, j \in DOMAIN inbox : i < j => inbox[i].msg < inbox[j].msg /\ inbox[i].id[2] < inbox[j].id[2]
  /\ \A a, b \in numbered : a[1] = b[1] => a = b \/ a[1] \in deleted
  /\ Cardinality({a \in audio : a.whole} \ (IF npc = "play" THEN {AudioFile(TRUE)} ELSE {})) <= ncrashes
  /\ \A a \in audio : ~a.whole => a.msg \notin heard
  /\ \A p \in pushed : p.to \in Range(Servers) /\ p.token = p.kind

-----------------------------------------------------------------------------
(* launcher: what is on disk, the cached scan of it, the choice of an entry  *)
(* and of the command that starts it, and the start of a process that is not *)
(* waited for.  Requests are served one at a time; the disk changes freely.  *)

CONSTANTS Files,             \* desktop files there may be: [dir, id, name, ok, hidden, terminal]
          Games,             \* installed games there may be: [id, name]
          Lower,             \* to_lowercase, on the ids and names in use
          Asked,             \* app_id of requests
          Allowed, AnyAllowed,        \* LAUNCHER_ALLOWED_IDS
          Method, Terminal,  \* LAUNCHER_DESKTOP_LAUNCHER, LAUNCHER_TERMINAL
          LOnPath,           \* binaries installed
          Ttl, MaxLaunches, MaxLNow, MaxChanges   \* cache_ttl_ms; bounds
VARIABLES disk,        \* the files and games there are
          lcache,      \* per provider: when it was scanned and what was found; at = -1: never
          lpc, cmd,    \* the launch being waited for
          started,     \* commands that were started, with the entry and the time
          answer,      \* the last answer to launch
          lastOn,      \* when each entry was last on disk
          launches, changes, lnow
launcherVars == <<disk, lcache, lpc, cmd, started, answer, lastOn, launches, changes, lnow>>

Terminals == {"tmux", "kitty", "alacritty", "ghostty"}
NoApp == [provider |-> "none", id |-> "", name |-> "", hidden |-> FALSE, terminal |-> FALSE, dir |-> 0]
LauncherInit == /\ disk \in {Files \cup Games} /\ lpc = "idle" /\ cmd = NoApp /\ started = {} /\ answer = "none"
                /\ lcache = [p \in {"desktop", "steam"} |-> [at |-> -1, apps |-> {}]]
                /\ lastOn = [e \in Files \cup Games |-> 0] /\ launches = 0 /\ changes = 0 /\ lnow = 0
-----------------------------------------------------------------------------
\* scan_desktop_dirs: application entries with a command; the first directory
\* that has a usable file of that name wins
Wins(fs, f) == \A g \in fs : g.id = f.id => f.dir <= g.dir
ScanDesktop == LET usable == {f \in disk \cap Files : f.ok}
               IN {[provider |-> "desktop", id |-> f.id, name |-> f.name, hidden |-> f.hidden, terminal |-> f.terminal,
                    dir |-> f.dir] : f \in {g \in usable : Wins(usable, g)}}
\* scan_steam_roots: each appid once
ScanSteam == {[NoApp EXCEPT !.provider = "steam", !.id = g.id, !.name = g.name] : g \in disk \cap Games}
\* cached_apps: a provider's scan is used until it is older than the ttl
Wanted(prov) == IF prov = "auto" THEN {"desktop", "steam"} ELSE {prov} \cap {"desktop", "steam"}
ScanOnce(p) == lcache[p].at = -1
NeedScan(p) == Ttl = 0 \/ lcache[p].at = -1 \/ lnow - lcache[p].at > Ttl
Scanned(prov) ==
  [p \in DOMAIN lcache |-> IF p \in Wanted(prov) /\ NeedScan(p)
                           THEN [at |-> lnow, apps |-> IF p = "desktop" THEN ScanDesktop ELSE ScanSteam]
                           ELSE lcache[p]]
CachedApps(cache, prov) == UNION {cache[p].apps : p \in Wanted(prov)}
\* desktop entries come before games, each sorted by id
First(apps) == LET d == {a \in apps : a.provider = "desktop"} IN CHOOSE a \in (IF d = {} THEN apps ELSE d) : TRUE
\* find_app_cached: the id, the id in any case, a name that only one entry has
FindAppCached(apps, id) ==
  LET exact == {a \in apps : a.id = id}
      folded == {a \in apps : Lower[a.id] = Lower[id]}
      named == {a \in apps : Lower[a.name] = Lower[id]}
  IN IF exact # {} THEN First(exact) ELSE IF folded # {} THEN First(folded)
     ELSE IF Cardinality(named) = 1 THEN First(named) ELSE NoApp
\* a terminal takes any command: what is not found becomes one
AppFor(apps, id, prov) ==
  LET found == FindAppCached(apps, id)
  IN IF found = NoApp /\ prov \in Terminals THEN [NoApp EXCEPT !.provider = prov, !.id = id, !.name = id] ELSE found
IsAllowed(id) == AnyAllowed \/ id \in Allowed
\* detect_auto, effective
DetectAuto == LET ok == SelectSeq(<<"tmux", "ghostty", "kitty", "alacritty">>, LAMBDA b : b \in LOnPath)
              IN IF ok = <<>> THEN "none" ELSE Head(ok)
Effective == IF Terminal = "auto" THEN DetectAuto ELSE Terminal
\* wrap_with_terminal, "" when the terminal is not installed
WrapWithTerminal(term, bin) == IF term = "none" THEN bin ELSE IF term \in LOnPath THEN term ELSE ""
\* the desktop launcher: never for an entry that wants a terminal
Delegate(app) ==
  LET ok == SelectSeq(IF Method = "auto" THEN <<"gtk-launch", "gio">> ELSE IF Method = "exec" THEN <<>> ELSE <<Method>>,
                      LAMBDA b : b \in LOnPath)
  IN IF app.terminal \/ ok = <<>> THEN "exec" ELSE Head(ok)
\* resolve_launch_command, "" for a refusal
ResolveLaunchCommand(app) ==
  CASE ~IsAllowed(app.id) -> ""
    [] IsAllowed(app.id) /\ app.provider = "steam" -> "steam"
    [] IsAllowed(app.id) /\ app.provider = "desktop" ->
         IF app.terminal THEN WrapWithTerminal(Effective, Delegate(app)) ELSE Delegate(app)
    [] OTHER -> WrapWithTerminal(app.provider, "exec")

\* spawn_detached: handed to systemd-run if there is one, else started here
Delegating(bin) == bin \in {"gtk-launch", "gio", "xdg-open"}
Spawns(bin) == "systemd-run" \in LOnPath \/ bin \in LOnPath \cup {"exec"}
\* handle_launch, to the start of the process
Launch(id, prov, dry) ==
  /\ lpc = "idle" /\ launches < MaxLaunches /\ launches' = launches + 1
  /\ lcache' = Scanned(prov)
  /\ LET app == AppFor(CachedApps(lcache', prov), id, prov)
         bin == ResolveLaunchCommand(app)
         run == [app |-> app, bin |-> bin, time |-> lnow]
     IN IF app = NoApp \/ bin = "" \/ dry \/ ~Spawns(bin)
        THEN /\ answer' = (IF dry /\ app # NoApp /\ bin # "" THEN "dry" ELSE "error")
             /\ UNCHANGED <<lpc, cmd, started>>
        ELSE /\ started' = started \cup {run} /\ cmd' = app
             /\ IF Delegating(bin) THEN lpc' = "wait" /\ answer' = "none"
                ELSE lpc' = "idle" /\ answer' = "launched"
  /\ UNCHANGED <<disk, lastOn, changes, lnow>>
\* the delegating launcher exits, or the wait runs out: taken as a success
Settle == /\ lpc = "wait" /\ lpc' = "idle" /\ answer' \in {"launched", "error"}
          /\ UNCHANGED <<disk, lcache, cmd, started, lastOn, launches, changes, lnow>>
\* handle_list: the scan is the same
ListApps(prov) == /\ lpc = "idle" /\ lcache' = Scanned(prov)
                  /\ UNCHANGED <<disk, lpc, cmd, started, answer, lastOn, launches, changes, lnow>>

\* packages come and go
Change(e) == /\ changes < MaxChanges /\ changes' = changes + 1
             /\ disk' = IF e \in disk THEN disk \ {e} ELSE disk \cup {e}
             /\ lastOn' = [lastOn EXCEPT ![e] = lnow]
             /\ UNCHANGED <<lcache, lpc, cmd, started, answer, launches, lnow>>
LauncherTick == /\ lnow < MaxLNow /\ lnow' = lnow + 1
                /\ lastOn' = [e \in DOMAIN lastOn |-> IF e \in disk THEN lnow' ELSE lastOn[e]]
                /\ UNCHANGED <<disk, lcache, lpc, cmd, started, answer, launches, changes>>

LauncherNext == \/ \E id \in Asked, prov \in {"auto", "desktop", "steam", "kitty"}, dry \in BOOLEAN : Launch(id, prov, dry)
                \/ \E prov \in {"auto", "steam"} : ListApps(prov)
                \/ Settle \/ LauncherTick
                \/ \E e \in Files \cup Games : Change(e)
LauncherSpec == LauncherInit /\ [][LauncherNext]_launcherVars

-----------------------------------------------------------------------------
Of(app) == {e \in Files : app.provider = "desktop" /\ e.id = app.id /\ e.dir = app.dir}
           \cup {e \in Games : app.provider = "steam" /\ e.id = app.id}
\* Only ids the operator allows are started, whichever of id, case or name the
\* caller asked by.  A started entry was on disk within the ttl, is not shadowed
\* by one the cached scan should have preferred, and one that needs a terminal
\* never goes to a desktop launcher, which would open none.  A cached scan holds
\* an id once per provider (find_app_cached, resolve_launch_command).
LauncherInv ==
  /\ \A r \in started : IsAllowed(r.app.id)
  /\ \A r \in started : r.app.provider \in {"desktop", "steam"} =>
       /\ \E e \in Of(r.app) : lastOn[e] >= r.time - Ttl
       /\ r.app.terminal => ~Delegating(r.bin)
  /\ \A p \in DOMAIN lcache : \A a, b \in lcache[p].apps : a.id = b.id => a = b

-----------------------------------------------------------------------------
(* hotkey: global shortcuts through the desktop portal.  The serve loop owns *)
(* the binding store; a worker task owns the portal session, replaces it on  *)
(* every rebind and forwards key signals through a bounded channel.          *)

CONSTANTS Ids, Triggers,       \* binding ids, triggers as sequences of words
          Backends,            \* backends the host may have: "portal", "manual"
          EventsCap,           \* capacity of the event channel, 64 in the code
          MaxBinds, MaxKeys    \* bounds
VARIABLES hbackend, store,     \* store: id -> normalised trigger, Unbound if none
          hreq,        \* the request served: [at, ticket]; the loop waits for its reply
          cmds,        \* rebinds queued for the worker: [ticket, set]
          worker,      \* the worker: [at, ticket, set]; set holds the event it waits to send
          session,     \* the worker's session, 0 when it has none
          sessions,    \* sessions created: [alive, granted], by number
          signals, events,     \* key signals on the bus; the channel to the loop
          replies,     \* ticket -> the worker's answer
          mirrored,    \* the last answered bind or unbind was ok and the store has not changed since
          down,        \* <<session, id>> whose key is held
          published, binds, keys
hotkeyVars == <<hbackend, store, hreq, cmds, worker, session, sessions, signals, events, replies, mirrored, down, published, binds, keys>>

Unbound == [mods |-> {}, key |-> ""]
-----------------------------------------------------------------------------
\* normalize_key: some of the words of the table, and what they become; a name
\* the portal uses is not among the words
KeyName(w) == CASE w = "x" -> "x" [] w = "pageup" -> "Page_Up" [] w = "mute" -> "XF86AudioMute" [] OTHER -> ""
Modifier(w) == CASE w \in {"ctrl", "control"} -> "CTRL" [] w \in {"super", "meta"} -> "LOGO" [] w = "shift" -> "SHIFT" [] OTHER -> ""
\* normalize_trigger: exactly one key and at least one modifier, else it is refused
Normalize(t) ==
  LET ks == {i \in DOMAIN t : Modifier(t[i]) = ""}
      ms == {Modifier(t[i]) : i \in DOMAIN t \ ks} IN
  IF Cardinality(ks) = 1 /\ ms # {} /\ \A i \in ks : KeyName(t[i]) # ""
  THEN [mods |-> ms, key |-> KeyName(t[CHOOSE i \in ks : TRUE])] ELSE Unbound

Bound == {i \in Ids : store[i] # Unbound}
NoBind == [at |-> "idle", ticket |-> 0]
AtRest == [at |-> "idle", ticket |-> 0, set |-> {}]
\* boot: a backend, and what HOTKEY_PLUGIN_BINDINGS binds; an unusable entry
\* leaves all of them out
Boot(b) == IF b = <<>> \/ Normalize(b) = Unbound THEN [i \in Ids |-> Unbound]
           ELSE [[i \in Ids |-> Unbound] EXCEPT ![CHOOSE i \in Ids : TRUE] = Normalize(b)]
HotkeyInit == /\ hbackend \in Backends /\ \E b \in Triggers \cup {<<>>} : store = Boot(b)
              /\ hreq = (IF hbackend = "portal" /\ Bound # {} THEN [at |-> "wait", ticket |-> 1] ELSE NoBind)
              /\ cmds = (IF hreq.at = "wait" THEN <<[ticket |-> 1, set |-> Bound]>> ELSE <<>>)
              /\ worker = AtRest /\ session = 0 /\ sessions = <<>> /\ signals = <<>> /\ events = <<>>
              /\ replies = (IF hreq.at = "wait" THEN <<"">> ELSE <<>>) /\ mirrored = (hbackend = "portal" /\ Bound = {}) /\ down = {} /\ published = {}
              /\ binds = 0 /\ keys = 0

\* rebind_portal: the whole set of the store goes to the worker
NewOnly(i) == {i}
WholeSet(i) == Bound'
Rebind(i) ==
  IF hbackend = "manual" THEN UNCHANGED <<hreq, cmds, replies>> /\ mirrored' = FALSE
  ELSE LET n == Len(replies) + 1 IN
       /\ replies' = Append(replies, "") /\ hreq' = [at |-> "wait", ticket |-> n] /\ mirrored' = FALSE
       /\ cmds' = Append(cmds, [ticket |-> n, set |-> WholeSet(i)])
\* hotkey_bind and hotkey_unbind: the store first, then the portal
Bind(i, t) ==
  /\ hreq.at = "idle" /\ binds < MaxBinds /\ binds' = binds + 1 /\ Normalize(t) # Unbound
  /\ store' = [store EXCEPT ![i] = Normalize(t)] /\ Rebind(i)
  /\ UNCHANGED <<hbackend, worker, session, sessions, signals, events, down, published, keys>>
Unbind(i) ==
  /\ hreq.at = "idle" /\ binds < MaxBinds /\ binds' = binds + 1 /\ i \in Bound
  /\ store' = [store EXCEPT ![i] = Unbound] /\ Rebind(i)
  /\ UNCHANGED <<hbackend, worker, session, sessions, signals, events, down, published, keys>>
\* the reply, or 20 seconds without one: the worker may still be at it
Reply ==
  /\ hreq.at = "wait" /\ replies[hreq.ticket] # "" /\ mirrored' = (replies[hreq.ticket] = "ok") /\ hreq' = NoBind
  /\ UNCHANGED <<hbackend, store, cmds, worker, session, sessions, signals, events, replies, down, published, binds, keys>>
GiveUp ==
  /\ hreq.at = "wait" /\ hreq' = NoBind /\ mirrored' = FALSE
  /\ UNCHANGED <<hbackend, store, cmds, worker, session, sessions, signals, events, replies, down, published, binds, keys>>
\* the loop publishes between requests; hotkey_inject publishes anything
Publish ==
  /\ hreq.at = "idle" /\ events # <<>> /\ events' = Tail(events) /\ published' = published \cup {Head(events)}
  /\ UNCHANGED <<hbackend, store, hreq, cmds, worker, session, sessions, signals, replies, mirrored, down, binds, keys>>

\* apply_bindings: close the session, create one, bind the full list
ApplyClose ==
  /\ worker.at = "idle" /\ cmds # <<>> /\ cmds' = Tail(cmds)
  /\ worker' = [at |-> "create", ticket |-> Head(cmds).ticket, set |-> Head(cmds).set]
  /\ session' = 0
  /\ sessions' = IF session = 0 THEN sessions ELSE [sessions EXCEPT ![session].alive = FALSE]
  /\ UNCHANGED <<hbackend, store, hreq, signals, events, replies, mirrored, down, published, binds, keys>>
Answer(r) == worker' = AtRest /\ replies' = [replies EXCEPT ![worker.ticket] = r]
ApplyCreate(ok) ==
  /\ worker.at = "create"
  /\ IF ~ok THEN Answer("failed") /\ UNCHANGED <<session, sessions>>
     ELSE /\ session' = Len(sessions) + 1 /\ sessions' = Append(sessions, [alive |-> TRUE, granted |-> {}])
          /\ IF worker.set = {} THEN Answer("ok") ELSE worker' = [worker EXCEPT !.at = "bind"] /\ replies' = replies
  /\ UNCHANGED <<hbackend, store, hreq, cmds, signals, events, mirrored, down, published, binds, keys>>
\* the desktop grants some of the list, denies it, or answers too late
ApplyBind(got, timely) ==
  /\ worker.at = "bind" /\ got \subseteq worker.set
  /\ sessions' = [sessions EXCEPT ![session].granted = got]
  /\ Answer(IF got = worker.set /\ timely THEN "ok" ELSE "failed")
  /\ UNCHANGED <<hbackend, store, hreq, cmds, session, signals, events, mirrored, down, published, binds, keys>>

\* the desktop: keys of a live session; closing it releases nothing
Key(s, i) ==
  /\ s \in DOMAIN sessions /\ sessions[s].alive /\ i \in sessions[s].granted /\ keys < MaxKeys /\ keys' = keys + 1
  /\ signals' = Append(signals, [s |-> s, id |-> i, pressed |-> <<s, i>> \notin down])
  /\ down' = IF <<s, i>> \in down THEN down \ {<<s, i>>} ELSE down \cup {<<s, i>>}
  /\ UNCHANGED <<hbackend, store, hreq, cmds, worker, session, sessions, events, replies, mirrored, published, binds>>
\* forward_key: presses and releases are two streams, each in order; a signal of
\* another session is dropped, and with the channel full the worker waits, and
\* takes no command meanwhile
OfSession(sg) == sg.s = session
Forward(k) ==
  /\ worker.at = "idle" /\ \A j \in 1 .. (k - 1) : signals[j].pressed # signals[k].pressed
  /\ signals' = RemoveAt(signals, k)
  /\ CASE ~OfSession(signals[k]) -> UNCHANGED <<worker, events>>
       [] OfSession(signals[k]) /\ Len(events) < EventsCap ->
            worker' = worker /\ events' = Append(events, signals[k])
       [] OTHER -> worker' = [AtRest EXCEPT !.at = "send", !.set = {signals[k]}] /\ events' = events
  /\ UNCHANGED <<hbackend, store, hreq, cmds, session, sessions, replies, mirrored, down, published, binds, keys>>
\* the loop made room
Sent ==
  /\ worker.at = "send" /\ Len(events) < EventsCap
  /\ \E sg \in worker.set : events' = Append(events, sg)
  /\ worker' = AtRest
  /\ UNCHANGED <<hbackend, store, hreq, cmds, session, sessions, signals, replies, mirrored, down, published, binds, keys>>

HotkeyNext == \/ \E i \in Ids : Unbind(i) \/ \E t \in Triggers : Bind(i, t)
              \/ Reply \/ GiveUp \/ Publish \/ ApplyClose \/ Sent \/ \E k \in DOMAIN signals : Forward(k)
              \/ \E ok \in BOOLEAN : ApplyCreate(ok)
              \/ \E got \in SUBSET Ids, timely \in BOOLEAN : ApplyBind(got, timely)
              \/ \E s \in DOMAIN sessions, i \in Ids : Key(s, i)
HotkeySpec == HotkeyInit /\ [][HotkeyNext]_hotkeyVars

-----------------------------------------------------------------------------
\* A bind or unbind that was answered with success leaves the desktop with
\* exactly the shortcuts of the store, whatever earlier rebinds the plugin had
\* given up on; a rebind without an answer is still queued or under way, though
\* the loop waits for it while the worker waits for the loop; at most one session
\* is alive, and it is the worker's; an event is published for an id its session
\* granted, sessions come in order, and every trigger kept has a modifier and a
\* key (main.rs, portal.rs, bindings.rs).
HotkeyInv ==
  /\ mirrored /\ session # 0 => sessions[session].granted = Bound
  /\ mirrored /\ session = 0 => Bound = {}
  /\ \A n \in DOMAIN replies : replies[n] = "" =>
        worker.ticket = n \/ \E k \in DOMAIN cmds : cmds[k].ticket = n
  /\ \A s \in DOMAIN sessions : sessions[s].alive => s = session
  /\ \A e \in published : e.id \in sessions[e.s].granted
  /\ \A i \in Bound : store[i].mods # {} /\ store[i].key # ""
  /\ \A k \in DOMAIN events : \A m \in k .. Len(events) : events[k].s <= events[m].s
=============================================================================
