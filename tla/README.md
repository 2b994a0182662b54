# A verification project for the Vynkor plugins

The repository holds the plugins of the Vynkor kernel: some forty processes, one per
capability, that talk to each other only through the kernel. The kernel and the SDK
are not in the repository; they appear here as the code uses them. This directory
holds TLA+ models of the plugins that carry state of their own, the TLC configurations
that check them on small instances, and proofs that TLAPS checks for every instance.

## The system

A plugin connects to the kernel and runs a *serve loop*, the only reader of the
connection. Each inbound `ActionRequest` is handled by a task of its own
(`tokio::spawn`), which may call other plugins through an `Rpc` handle: the call goes
over a bounded channel to the loop, which numbers it, remembers who waits for it and
forwards it; the answer comes back through the loop. Calls time out. Plugins without
storage of their own keep JSON documents in the `database` plugin, one call per read
or write; nothing spans two calls. Many loops also have an interval that spawns scans.

So the same hazards come back all over the repository: answers that are late or
crossed, state read in one call and written back in another, scans that meet requests
or each other, calls that fail after having been applied, processes killed between two
calls, and bounded queues between tasks that feed each other.

### Inventory

| Component | State | Operations | What makes it correct | Module |
|---|---|---|---|---|
| serve loop and `Rpc` (15 plugins) | pending map, number counter, two channels of 64, oneshots | call, forward, answer, time out, prune, respond, publish, stop | an answer reaches its own caller; every handler ends; no false "shutting down" | `RpcProxy`, `RpcSpec` |
| agent: goal engine | goal documents, id counter, the private copy of each run | `goal_start`, `goal_resume`, `goal_delete`, the tool loop, retention sweep, chat turn | nothing gated runs unapproved; runs end; calls are bounded; finished stays finished | `AgentGoals` |
| scheduler | schedule documents, id counter | `schedule_set`, `schedule_delete`, scans, `record_last_error` | no occurrence fires twice, a one-shot that was stored undisturbed fires | `Scheduler` |
| automations | rule documents, id counter | `rule_set`, `rule_delete`, event tasks | the confirmation gate, cooldowns, the cap on rules, and how far overlapping tasks undo them | `Automations` |
| database | a SQLite file and a pool per caller | nine actions, migration, expiry sweep | requests are atomic, refused ones leave no trace, one pool per caller | `Database`, `KvSpec`, `KvData` |
| sync, sync-client | versioned table, publications; mirror, connection | set, delete, snapshot with prune; pull, delta, redelivery, reconnect | the mirror is a state the store was in, never goes back, catches up | `Sync` |
| chats | sessions, turns, tombstones, cascade and sweep tables, revision counter | create, append, rename, delete, `chat_sync`, search, work lane, cleanup lane | what is stored of a deleted session is forgotten; a paging client ends exact | `Chats` |
| notes, contacts, tasks, calendar, library | documents, id counter; media files for library | create, update, done, delete, ICS import, reminder scan, library scan | documents keep their own rules; reminders once; imports and scans exact | `Documents` |
| daemon, mic, stt (listen part) | turn slot, flags, memory of exchanges; capture sessions; listen streams | `daemon_turn`, timer, push-to-talk, `mic_start`, `mic_stop`, `stt_listen_start`, `stt_listen_stop`, audio chunks | one turn at a time, it is heard, it ends and leaves nothing open | `Voice` |
| agent: memory, tool catalogue | index of facts and its lock; allowlist, approvals, tools file, manifests | remember, recall, forget, clear; discovery and merge | every fact is named or gone; no source makes a tool less careful | `AgentKnowledge` |
| agent: session and model adapter | history, offered tools, transcript | the turn around a goal, the two providers' requests, parsing of replies | what is sent and read is what was said; nothing redacted leaks | `AgentTurn` |
| ai | models, streams, pending calls | chat completion, streamed or not; models, discovery, default | a completion is whole, comes once, with its own endpoint and key | `Ai` |
| network | slots per caller, streams, response cache, cookie jars, counters | `http_request`, streamed or not, close | a slot is freed on every way out; only allowed addresses; frames in order | `Network` |
| vector-db | collections in a file, the cache under a byte budget, re-embedding | upsert, query, delete, evict, re-embed; migration of a v0 file | cache and file agree; models are not compared with one another; no row is lost | `VectorDb` |
| telegram | antiban gate and dialogs of each account, update listener, outbound channel | 26 actions, updates | limits hold; an account that is not there is not used | `Accounts` |
| email, search, weather, github | one handler at a time; credentials of the vault | send and list mail, search, forecast, issues | the allowlist; one secret, its own; a mail goes out as often as was asked | `Accounts` |
| uptime, rss, metrics | targets, feeds, samples in the database; alarm state | CRUD, scans, alerts | one alert per change of state; nothing removed comes back | `Monitors` |
| filesystem, secrets | the host's tree and the trash; vaults and their files | seven file actions; get, set, delete, list | nothing outside the roots; what was stored is read back, by its owner only | `Storage` |
| clipboard, mic's recorder | history; the chain of programs | read, write, history; start | fallbacks only where nothing is installed; the history is bounded | `Providers` |
| calendar: ICS | none | import, export | dates, recurrences, folding and escaping against plain definitions | `Ics` |
| tts, stt, speech | engine, key, packets; listen streams, detector, jobs | synthesize, speak, stream; transcribe, listen | sentences are split without loss, spoken once and in order; results belong to their stream | `Synth`, `Listen`, `Speech` |
| sound | players, their temporary files | play, stop, status, shutdown | players are reaped, files removed, a stop silences | `Audio` |
| media | order of players | play, seek, volume, move and route streams | commands reach the player and the streams they name | `Audio` |
| phone, capture | stream, camera, helper; recording slot, temporary files | photo, stream; screenshot, recording, OCR | one at a time; no helper is left behind | `Machine` |
| system | none | volume, mute, brightness, profile, lock | the device ends where it was asked to | `Machine` |
| mqtt | client, subscriptions, waiting commands | connect, publish, subscribe, command | an answer is the device's, to this command | `Machine` |
| notify | inbox file | deliver, speak, push, mark, delete | nothing shown is lost from the inbox; ids are unique; tokens go to their service | `Desktop` |
| launcher | cached scan of applications | launch, list | only allowed applications start, with the command of the entry named | `Desktop` |
| hotkey | bindings, portal session, event channel | bind, unbind, list, key signals | bindings and the portal's agree, a failed rebind keeps the others | `Desktop` |
| manifest helper, reference plugins, build scripts | none | none at run time | | not modelled |

The plugins interact as follows. `scheduler` and `automations` call any plugin's
action; `agent` calls tools of the catalogue, `ai` for completions, `chats` for
history and `database` for goals; `chats` calls `ai`, `vector-db` and `agent`; the
document plugins call `database`; `library` reads the file system; `sync-client` reads
`sync` over the kernel's event bus; `daemon` drives `mic`, `stt`, `agent`, `tts` and
`sound`. `ai`, `search`, `weather`, `github`, `rss` and the cloud halves of tts and
stt reach the world through `network`; the keys they need come from `secrets`;
`notify` speaks through `tts` and `sound`.

## The modules

Each module opens with what it models and what it abstracts from. Where several
situations of one component are worth checking (one plugin of several, one scan at a
time or overlapping ones), the module has a variable `inst` or `plug`, chosen in the
initial state from a constant set and never changed, so that a run covers all of them.
`MC...` modules give these constants their values; the `.cfg` files replace no
definition. A definition called a mutant in its comment is a deliberately wrong
variant that shows that a property can fail.

Small plugins that do not share state but do the same kind of thing are in one module,
each with its own initial states and next-state relation (`UptimeNext`, `FeedsNext`,
`MetricsNext` in `Monitors`). Four runs check several components: in `MCSync`,
`MCDecide`, `MCHost` and `MCServices` a variable `part`, chosen initially and never
changed, says which component a behaviour is about, and the variables of the others
rest; most parts of `MCServices` share the variables `m1` to `m15`, which stand for
theirs in order. So such a run checks each component by itself. A property of such a run is a
conjunction of the components' invariants, each of which is a conjunction of named
parts in its own module; for every component there is a mutant that breaks its
conjunct, listed under the run's property.

### RpcProxy, RpcSpec

`RpcProxy` is the loop of `plugins/agent/src/main.rs`, the fullest one, with
`Rpc::call` of `lib.rs`. A record of `LoopShapes` says in which branches the copy in
another plugin differs: kernel commands (agent), interval scans (calendar, daemon,
metrics, scheduler, uptime), pruning of abandoned entries and a timeout that covers
the channel send (chats), no change events (clipboard). `chan`, `pending`, `outbound`
and `slot` are the two channels, the map and the oneshots; `wire` and `inbox` are the
kernel, which answers in any order, twice or never. `RpcSpec` is what a caller may
rely on: a call ends once, with an answer only if its request was forwarded, and
exactly once.

The automations loop numbers its calls with the clock (`unix_millis`) instead of a
counter. It is therefore not among the loops checked here, but in `Automations`.

### AgentGoals

`StartGoal`, `Decline`, `Approve`, `DeleteGoal` are the handlers up to the engine,
`Seed` to `Save` the engine (`engine.rs` run), `Fail` and `Record` `run_and_record`,
`Sweep` and `PruneOne` the retention sweep. Every database call is a step; a call that
fails may have been applied. A halted call carries a token, so that an approval can be
told from any other; `newer` holds the goals written since a task's own last write,
`ncalls` how often each tool of a goal was dispatched. Models, prompts, tool arguments
and transcripts are reduced to the branches they lead to.

### Scheduler

`ScanKeys`, `ScanDocs`, `MarkFired`, `Dispatch`, `ErrorRead`, `ErrorWrite` are the
awaits of `scan_due`; `SetBegin`, `SetPut`, `Delete` the handlers. A cron expression
is a period. A number per `schedule_set` request tells documents under one id apart;
`Settled` says of a stored document that no scan held a copy of its predecessor.

### Automations

`OnEvent` begins an event task, `ListRules` reads the rules, `Hold` publishes
`needs_confirmation`, `CallTarget` and `StoreFired` fire a rule and write its copy back;
`CreateBegin`, `DrawId`, `UpdateBegin` and `PutRule` are `rule_set`. Tasks overlap in
any way, also over one rule: `overtaken` names the rules that were stored since a task
took its copy, `gated` the rules whose gate the operator set, `mark` the last fire that
was stored, `revived` the rules written back after their deletion. Conditions are a
wanted payload. The `Clock...` definitions are the serve loop: `ActionId` names a call
by the millisecond of `Forward`, the pending map has one entry per name, and a name that
is forwarded again takes the entry over.

### Database, KvSpec, KvData

`PoolLookup`, `OpenFile`, `CheckSchema`, `Alter` and `CachePool` are the steps of
`pool_for`. They are followed by the sweep, and for `db_incr`, `db_append` and
`db_patch` a read and a write in one deferred transaction which SQLite refuses when
another connection committed in between. `KvSpec` is the atomic store callers think
they have. `KvData` holds the values both use; integers wrap at a
width, twice the constant `Half`.

### Sync

`SetCommit`, `DelCommit` and `SnapshotRead` are the host's transactions, `SendReply`
and `SendDelta` what a task sends after them; `Connect`, `Seed`, `PullFails`,
`ApplyDelta`, `SkipFrame`, `Drop` and `Redeliver` are the device. The SDK drops frames
that come while a call is awaited, and the kernel delivers them again.

### Chats

What runs under the connection's mutex is one action. `WorkBegin`, `Apply...` and the
`Turns...` and `Sessions...` actions are the work lane (summaries, embeddings),
`CleanBegin`, `Job...` and `Sweep...` the cleanup lane, `SyncPage` a client that pages
through `chat_sync`, `Search...` a search. A vector write whose call failed may land
later. The agent works beside them: `GoalStarts` keeps a goal before any turn names it,
`Append` stores its turn, and `FactsStored` its facts, whenever the model has answered,
of a session that may be gone by then. `facts` tells the kinds apart: goals that turns
name and facts under the session, which `chat_delete` forgets, and those it cannot know.

### Documents

One module for five plugins that are built alike; `inst.kind` says which one runs and
what its documents, its validation and its scans are. `Create`, `Update` and `PutDoc`
are the handlers with their awaits, `Scan`, `ReadDocs`, `Mark` and `PublishDue` the
reminder scan, `Import`, `ImportOne` and `ImportPut` the ICS import, `Walk`,
`IndexFile`, `Unindex` and `StampScan` the library scan.

### Voice

Three plugins composed. Of the daemon: `busy` is the turn slot (`TryBeginTurn`,
`EndTurn`), `task` says how far the turn of each of its three starters is (a handler of
`daemon_turn`, the timer, the push-to-talk task), `history` is the memory of exchanges.
A turn enters a call by `Goto`, which puts the request into the queue of mic or stt, and
leaves it by `TakeReply` or by `TimeOut`; the five `After...` operators are the lines
after the five calls of `start_capture` and `finish_capture`. How long the microphone is
held is `WindowElapses`, `SpeechEvent` with `SpeechDeadline`, or `PttEvent` with
`MaxHold`, by mode. The two timers run while the task waits for one event and begin anew
with the next, so they fire only while the bus brings none; `OtherEvent` is an event
about something else, at any time. Of mic: `sess` are the capture tasks, `active` is the
session table (`MicStart`, `MicStop`), `ReadChunk`, `EndCapture` and `Forward` carry the
audio. Of stt: `stream` is the daemon's listen stream (`ListenStart`, `ListenStop`,
`Push`), `Feed` the detector. A request that timed out stays in its queue and is served
later, so starts and stops of one turn may be served in the next.

### AgentKnowledge, AgentTurn

Memory: `Extract` takes the time that names a fact before the lock, `Upsert` and
`Remembered` write the vector and then the index, `Forget...`, `ClearBegin` and
`SessionBegin` the three ways to forget; a call may fail after it was applied. Tools:
`Build` merges the sources, `Discover` asks the kernel for manifests and may stop half
way, `Infer` is the risk a name and its schema suggest, `Complete` the manifest's word
on it. A turn: `Resolve`, `History`, `Offer`, `Degrade`, `Read`, `AppendTurn`. The
wire: `Request` is the body for either provider, `Parse` the reply, `ReadReply` what
is made of a text with tool calls in it, over texts of tokens (braces, quotes, tags,
fences).

### Ai, Network, VectorDb

`Ai` is the streamed completion with its two sessions (`Prepare`, `Feed`, `Finish`,
`CallerCloses`) and the buffered calls with the catalogue (`Boot`, `Seed`, `Queries`,
`SetDefault`, `StartupRefresh`). `Network` is one task per request: the loop's check
of the cap and the task's reservation, cache, cookies, attempts, redirects, a
resolution per connection, the stream and its close. `VectorDb` is the cache (load,
write through, evict), embedding with its fallback, batches that are stored in one
transaction or refused as a whole, the background re-embedding with its shadow table
and swap; and `Migrate...`, which opens a v0 file, keeps a backup and
copies its rows, with a crash between any two steps.

### Accounts, Monitors, Providers, Storage, Ics

`Accounts`: telegram's handlers are sequences of calls (`Handlers`), each behind the
gate; a list of dialogs is fetched page by page (`FetchDialogs`) and cached at the end
(`DialogsIn`); `Drain`, `Forward` and the listener are the loop with its bounded
channel. The `Outbound` part is the loop that email, search, weather and github share in
shape: one request at a time, credentials from the vault first, attempts and their
retries. `Monitors`: scans and requests as tasks, one step per database call; what was
told of an outage is kept (`told`), and what a failed call or a crash left untold
(`unsaid`). Where the code sorts by time only, entries of one time stay in the order of
their keys, in which 10 comes before 9 (`KeyRank`). `Providers`: the chain of programs
of clipboard, whose history is written after the answer, and of mic. `Storage`: a tree
with links and with roots inside roots (`Outermost`), requests that check and then call
the system; vaults with a temporary file and a registry. `Ics` runs each function of
`ics.rs` on every input of a bounded set, beside a definition that does not know how it
is computed.

### Speech, Synth, Listen, Audio

`Synth` is tts: splitting (over token texts), the choice of voice and model, packets.
`Listen` is stt: chunks, detector, jobs, results. `Speech` composes the two behind one
loop that serves one request while chunks wait in its inbox. `Audio` holds sound
(`Sound...`), with player processes that end at any time, and media (`Media...`),
whose players and streams change between any two awaits.

### Machine, Desktop

The plugins that drive the machine, each with its world beside it: helpers, recorders
and devices that end, move or answer on their own (`Outside`, `...Tick`), and with the
locks and slots the code has. `Machine` holds system, phone, capture and mqtt, each
with its own `...Init` and `...Next`; `Desktop` holds notify, launcher and hotkey, the
last with the worker task and its bounded event channel. A worker that waits for room
in that channel takes no command, while the loop that empties it waits for the worker
until it gives the rebind up. A photo looks for the active camera in one step
(`PhotoCheck`) and reads the stream's file in a later one (`PhotoRead`).

## What the runs check

| Run | Bounds | Shows |
|---|---|---|
| `rpc_proxy` | two tasks, two and one calls, channels of capacity 1, the loop of each of 15 plugins | `TypeOK`; `ReplyIsOwn`: no answer is crossed, late ones included; `AbortedOnlyOnShutdown`; `EveryRequestIsHandled`; `ImplementsRpcSpec` |
| `agent_goals` | *disorderly*: one goal, two tasks, two halts, failing database, crashes, shrinking catalogue; *calm*: two goals, quota 1, retention 1 | `GatedNeedsApproval`, `RunsEnd` in both; `OrderlyInv` (types and ids in both; a gated call runs once, bounded calls in the calm one), `FinishedIsFinal` in the calm one |
| `scheduler` | *overlapping*: two scans, event-mode one-shots, failing writes, a crash; *serial*: crons and one-shots, actions that fail, a crash, four time units | `SchedulerInv` (marks and counts are not undone; with serial scans no occurrence fires twice), `DueOneShotFires` (of settled one-shots) |
| `database` | one caller, two tasks, two keys, nine kinds of request, a width of 1 bit, old and new files | `StoreInv`, `ImplementsKvSpec` |
| `sync` | two keys, two host tasks, two connections, one fault; seven situations of chats over at most two sessions and two turns, one of them with the agent at work | `SyncInv`, `MirrorMovesForward`; `ChatsInv` (summaries cover their turns, a paging client ends exact), `NothingLeaks` |
| `live` | two heartbeat keys, two versions, three connections, one host task at a time; one session with one turn, fair lanes | `SeesPrefix`, `CatchesUp`; `DeletedIsForgotten` |
| `documents` | each of the five plugins: two handlers, a scan, two ids, one failure, a restart | `DocsInv` (own rules, reminders once, one document per UID, exact scans), `DueIsMarked` |
| `voice` | six situations: three turns answered in time; two turns with one late call and audio, or with two late calls; vad mode with events; push-to-talk with four key events, or two and a late call; other events at any time | `VoiceInv` (slot, owner of the microphone, flag, memory), `HoldIsHeard`, `IdleIsClean`, `TurnsEnd` |
| `decide` | automations: three ids, a cap of one rule, two overlapping tasks, two events, three requests, a crash; its loop: two tasks, three calls, two milliseconds; memory: two goals, two facts, one fault; tools: every subset of the sources; some six hundred model texts | `AutomationsInv` (cooldowns of fresh copies kept, the cap passed by no more than the tasks at work, crossed answers stay in their millisecond), `GateKept`, `MemoryNamed`, `ConfirmationKept`, `ModelInv` |
| `host` | ten components: two tasks or one and its world, two to four requests, one crash or fault | `AudioInv`, `MachineInv`, `DesktopInv` |
| `services` | fourteen parts: two tasks, two to four requests, one fault or restart, bounds and caches of one; vectors: two collections, three requests, so that a text changes while its collection is re-embedded; uptime, metrics and the clipboard draw their ids from 8 on, so that 9 and 10 occur; files: two roots and one inside another | `NetworkInv`, `AccountsInv`, `AiInv`, `VectorsInv`, `HeldInv`, `WatchInv` |
| `clock_ids` | the loop of automations alone | a violation: `AnswerIsOwn` fails when two calls are forwarded in one millisecond |

The bounds are the smallest at which the interesting cases happen: two calls of one
task for a late answer to meet a later call; capacity one so that both channels are
full; two tasks so that any two steps interleave; one crash or fault, since the stored
state after a crash is again a state the run starts steps from; caches and limits of
one so that they are exceeded by two; for chats, enough revisions to create, write,
summarize and delete one session. Deadlock is checked in `rpc_proxy` and
`agent_goals`; elsewhere the bounds on requests and time end behaviours, so it is not.
Telegram's loop does stop for good (see *Divergences*), and nothing is claimed of it;
hotkey's loop and worker wait for each other until the loop gives up, and `DesktopInv`
says that no rebind is lost by that.

Some properties hold only under conditions, which the model states: what `SchedulerInv`
says of repeated occurrences, what `OrderlyInv` says of dispatches and `FinishedIsFinal`
need one scan or one request per goal at a time, because the code does not exclude
overlaps (see *Divergences*). `DueOneShotFires` is about one-shots that were stored
while no scan held the former document of their id, and neither replaced, deleted nor
hit by a crash. `SeesPrefix` is about the states of a behaviour up to which no two host
tasks overlapped and nothing failed (`Undisturbed`). `GateKept` and the cooldowns of
`AutomationsInv` except a task whose copy of the rule was overtaken, and the cap is
passed by at most one rule for each further task and by what was written back after its
deletion. `DeletedIsForgotten` excepts what `chat_delete` could not know: a goal still
running, and facts stored afterwards. `IdleIsClean` is stated for behaviours without a
timeout, since the code gives up the clean-up when a call times out, and `TurnsEnd` for
a bus that becomes quiet. Where a module records that something happened which the code
cannot prevent (`excused`, `raced`, `crossed`, `overlapped` and the like), its invariant
makes an exception for just that, and the divergence is listed below.

### Fairness

- `RpcProxy`: the loop and each task that can go on do (the tokio scheduler), and a
  waiting call's timer fires. The kernel need not answer.
- `AgentGoals`: a running task goes on; nobody has to ask anything.
- `Scheduler`: the interval ticks and a scan's calls end, by timeout if need be.
- `Documents`: the calendar's scans begin and go on.
- `Sync` (in `LiveSpec` of `MCSync`): tasks are scheduled, the kernel delivers what it
  holds, the client reconnects after its backoff, and requests are handed over in
  order, so writers cannot keep a pull waiting for ever (strong fairness of
  `PullBegin`).
- `Chats` (in the same): the lanes run, a late write lands, and calls that fail now
  and then also succeed now and then (strong fairness of the calls and of picking a
  waiting job, which the code's rotation by attempt gives).
- `Voice`: mic and stt serve their queues, a turn whose call was answered goes on, the
  timers of the hold fire if no event comes meanwhile, and the agent, tts and sound
  answer or time out. Neither the key, the recorder nor the detector has to do anything.
  That other events stop coming is the premise of `TurnsEnd`, not fairness.

The other modules state no fairness: their properties are about what may not happen.

## What is proved

`RpcProxy_proofs` proves, for any set of loops, tasks, scans and calls and any
capacities:

- `TypeCorrect`: `Spec => []TypeOK`;
- `RepliesAreOwn`: `Spec => []ReplyIsOwn`;
- `AbortsAreReal`: `Spec => []AbortedOnlyOnShutdown`.

`ReplyIsOwn` is not inductive: a state in which two entries of `pending` share an id
satisfies it, and the next answer breaks it. `CorrelationInv` adds what rules that
out: an id in use determines its call wherever it occurs (`pending`, requests on the
wire, answers under way, commands in the channel), ids in use were taken from counters
that only grow, an id a command carries before it is in the channel is nobody else's,
a oneshot holds nothing but its own answer, and nobody waits for a oneshot that was
dropped while the loop runs. The last part gives `AbortedOnlyOnShutdown`.
`CorrelationStep` has one step per action; the only interesting one is `Forward`,
whose new id is above every id in use (`AssignedIdIsFresh`).

`Voice_proofs` proves, for any number of turns, timeouts, chunks and key events:

- `VoiceSafe`: `Spec => []VoiceInv`;
- `HoldHeard`: `Spec => []HoldIsHeard`;
- `NothingLeftBehind`: `Spec => []IdleIsClean`.

The inductive invariant `VoiceIndInv` has six parts, each with a lemma that the
next-state relation keeps it: `TypeOK`; `OneTurn`; `TableInv` (a session that records is
in mic's table, which has one entry at most); `FlagInv` (outside push-to-talk the flag
is down in every stage that may end the turn without lowering it); `MemoryInv` (a
running turn is newer than what is remembered); and `StageInv`, on which `HoldIsHeard`
rests. `StageInv` says what the queues hold while a turn opens the microphone. A turn
that waits for an answer has the last request of that queue; since queues are served in
order, its answer shows that no request of an earlier turn is left (`QueueTail`). So
nothing can close the stream or stop the session while it is held: a late `mic_stop` of
an earlier turn was served before the `mic_start` of this one. TLC checked the parts of
`VoiceIndInv` on the instances of `voice` before they were proved.

For `IdleIsClean`, `CleanInv` follows the clean-up while no call timed out: the queues
then hold one request at most, that of the running turn, and the turn's stage says
whether a stream may be open (`MayListen`) and a session may be in mic's table
(`MayRecord`). A turn that failed passes through the stages that close both, and a
`mic_stop` it asks for is never refused, so nothing is left once it ends.

`LoopImplementsRpcSpec` in the same module proves `Spec => ImplementsRpcSpec`: every
step of the loop, its tasks and the kernel is a step of `RpcSpec`, or none. It needs
`DeliveryInv`, which adds to `CorrelationInv` that a call is one message (in the
channel, or sent once, or lost), that a message or a result belongs to a call that was
made, that only a caller who waits or gave up has its message in the channel, and that
every answer is to something that was sent.

`Sync_proofs`, for any keys, values, host tasks, TTL and bounds:

- `MirrorStaysExact`: `Spec => []SyncInv`;
- `MirrorNeverGoesBack`: `Spec => MirrorMovesForward`;
- `MirrorSeesPrefix`: `Spec /\ []Undisturbed => []SeesPrefix`, with any number of tasks
  and faults in `Spec`: it holds of behaviours in which, as it happened, no two requests
  were handled at once and nothing failed.

`MirrorInv` says what every frame on its way to the device is (`FramesAreTrue`, over
what a task has still to send, what is in the feed and what the kernel will deliver
again): a delta leads from the store at the version before it to the store at its own,
and a snapshot is the store at its version. A snapshot a client waits for is not older
than its mirror, because the frames that came meanwhile were discarded; this is why a
pull that was given up cannot take the mirror back.

`PrefixInv` is what `SeesPrefix` needs on top of that. The deltas in the feed above the
mirror's version, or above that of a snapshot that answers the pull, come in ascending
order, and together with what is unsent they leave out no version up to the store's
(`Aligned`); what the SDK dropped is covered already; what is unsent is newer than
anything sent. So the first delta a mirror does not have is the next one. That a prune
gives its rows consecutive versions rests on `RankIsOnto`. With two tasks at a time
`Ascending` breaks, which is the divergence listed below.

The second half of the module is about `Chats`. The module extends `MCSync`, whose part
`chats` instantiates it as `Ch` with the sync models' `reader` for its client; the
theorems are about the composition that the run `sync` checks, for any sessions and
turns, any bound on revisions, calls, failures, late writes and restarts:

- `NothingLeaksAlways`: `MCSpec => []NothingLeaks`;
- `ChatsInvAlways`: `MCSpec => []ChatsInv`.

`NothingLeaks` speaks of what is stored in vector-db. A write that timed out may still
land, a lane may be between its reading and its call, and a cascade may be between its
calls and the saving of its row, so `DeadInv` speaks of every document that is stored or
may still get there: it is of a turn its session has, or of a dead session and listed by
its job or its sweep row (`TracksInv`). Beside it stand the types (`ShapeInv`), that the
work lane keeps nothing it is done with (`IdleInv`), and what a running cascade knows of
its job, whose generation tells whether it was queued anew meanwhile (`JobsInv`).

`ChatsIInv` adds to `DeadInv` a part for each conjunct of `ChatsInv`: finite sets
(`FiniteInv`), rows and their revisions (`StoreInv`), what the summarizer read before
its call (`LaneInv`), no job without its step on the agent while a goal or a fact it
knows of is left (`ForgetsInv`), and what a search read (`SearchInv`). `CopyInv` is the
one a paging client needs. A copy at cursor `c` is the live state only when `c` is the
store's revision; below it, the copy has every row that has not changed since, and what
else it has is of a live session or will be removed by a tombstone above `c`. A page
takes a copy from one cursor to the next (`PageApplied`), though it was cut by the limit
and its parts were read one after the other; a step of the store keeps a copy at the
cursor it is at (`CopyMoved`, `CopyQuiet`).

`Scheduler_proofs`, for any ids, requests, handlers, scans and failures, with
`FiresAreMarked`: `Spec => []SchedulerInv`. `FiringInv` has to speak of the copies of
documents that scans hold, because each may be written back: `OneRequest` (a number of
a request stands for one document, wherever its copies are), `ScansAreDue` (a scan
holds one pending fire for each document), `MarksKept` (an occurrence that was marked
in the store is marked in every copy that may still be written), `NoRepeats` and
`FiresCounted`.

`Services_proofs`, for any callers, tasks, keys and requests of the database, any width
and any cap of a list:

- `StoreIsSound`: `Spec => []StoreInv`;
- `TasksImplementKvSpec`: `Spec => ImplementsKvSpec`.

`KvInv` says of a task between its statements that its pool is its caller's cached one
and the file migrated, that a row which is dead after the sweep ended while the request
was handled, and of a transaction nobody overtook that it writes what the row it would
find now makes it write. The last is why a read and a later write are one step of
`KvSpec`.

The same module proves `NetworkSafe`: `NetworkSpec => []NetworkInv`, for any requests,
callers, hosts, address policy and bounds. `NetIInv` has six parts: the types
(`NetShape`); a caller's counter is the number of its tasks that hold a slot
(`NetSlots`), whichever way a task ends; every request that ended is counted once, and a
task comes to its end once (`NetStats`); the response cache is charged with the sizes of
its entries, and they and the cookies came from requests of that caller that are over
(`NetStores`); a task past its check has only permitted addresses behind it and ahead of
it (`NetPolicy`); and what a stream has sent depends on how far its task is
(`NetStreams`). That an entry added or dropped changes the charge by its size, and a task
that takes or frees a slot the count by one, rests on lemmas about sums and
cardinalities.

`AgentGoals_proofs`, for any goals, tasks, tools and instances:

- `NothingUnapproved`: `Spec => []GatedNeedsApproval`;
- `OrderlyUse`: `Spec => []OrderlyInv`;
- `FinishedStays`: `Spec => FinishedIsFinal`.

`EngineInv` holds whatever fails or interleaves: a stored goal that waits names a call
of its own, with a token that was handed out; a task that is about to dispatch has a
call that needs no approval, or one that was approved; a goal beyond the counter was
never started. `CalmInv` holds in orderly use: one task per goal, and the books of each
task's copy, in particular that a goal which halts has paid for the call it waits for
(a step and a unit of the quota), so the dispatch after the approval stays within the
bounds. TLC checked `GoalsIInv`, the conjunction, on the instances of `agent_goals`.

`Documents_proofs`, for any handlers, scans, requests, documents, calendars and
directories, with `DocumentsAreKept`: `Spec => []DocsInv`. `DocsIInv` has a part for each
of the five plugins' hazards: `ShapeInv` (types, and what a stored document must
satisfy); `IdsInv` (a copy that a task may still write is of a document that was stored,
unless the task creates it, and an id drawn for a creation is nobody else's); `CreditInv`
(an armed event has a reminder to its credit, a publication under way has one of its
own); `ImportsInv` (an import's table of UIDs names every lasting event, so what it
creates has a UID of its own); `ScansInv` (what an undisturbed scan of the library has
written, and what it has still to write or delete, make up the walk). Reminders are
counted where scans do not overlap, as `ReminderOnce` says.

`Automations_proofs`, for any rules, events, requests and cooldowns:

- `CreatedRulesAreNew`: `Spec => [](TypeOK /\ CreatedIsNew)`;
- `AnswersMixOnlyWithinInstant`: `ClockSpec => []MixedWithinInstant`;
- `GateIsKept`: `Spec => []GateKept`;
- `RulesAreKept`: `Spec /\ ClockSpec => []AutomationsInv`.

All of them hold however the tasks interleave. `RulesIInv` follows the copies that
nobody has overtaken: such a copy is what is stored, but for the mark and the fields its
task itself changes (`HeldInv`), so that writing it back loses nothing. Hence a stored
rule keeps the gate the operator set and a mark no older than any fire that was stored
(`DocsInv`), and a call without approval, or within a cooldown, can only come from an
overtaken copy (`FiresInv`). `NewInv` says that an id drawn for a creation is nobody
else's, `CapInv` that those who create counted less than the cap before, so that each
adds one rule; `ShapeInv` are the types. `ClockIInv` says that an entry of the pending
map, and an answer on its way, belong to a call named in that very millisecond.

The same module extends `MCDecide` and proves, for any goals, sessions, facts, tools and
failures, what the composition's parts `memory` and `tools` (both of `AgentKnowledge`)
promise:

- `FactsStayNamed`: `MCSpec => []MemoryNamed`;
- `CautionIsKept`: `MCSpec => []ConfirmationKept`.

`MemoryNamed` speaks of states in which the lock on the index is free. `MindsInv` says
that a task which has the lock's states has the lock, alone; `UsedInv` that an id which
is stored, in the index or about to be forgotten was drawn by a goal of that session, so
that what a goal is about to draw is new unless its millisecond was another's too;
`NamedInv` looks at the copy of the index the holder adds to, if a goal holds it, and
else at the index itself, and keeps what a wipe has removed and has still to remove. The
catalogue is built in stages, so `CatalogInv` says what a tool is at each stage as a
function of the layers (`Discovered`, then `Inferred`), wherever discovery broke off.

Each of these rests on the named assumptions on constants of its module
(`RpcAssumption`, `VoiceAssumption`, `SyncAssumption`, `SchedulerAssumption`,
`KvAssumption` with `PoolAssumption`, `GoalsAssumption`, `DocumentsAssumption` with
`NoDocAssumption`, `AutomationsAssumption` with `NoRuleAssumption` and `ClockAssumption`,
`BoundsAssumption` of `Chats` as `ChatBounds`, `KnowledgeAssumption` as
`KnowledgeBounds`, `NetworkAssumption` as `NetworkBounds`, `VectorAssumption` as
`VectorBounds`), which TLC evaluates in the runs. The inductive invariants were checked
by TLC on the instances of the runs before they were proved.

### Only model-checked

- Liveness (`EveryRequestIsHandled`, `RunsEnd`, `DueOneShotFires`, `DueIsMarked`,
  `CatchesUp`, `DeletedIsForgotten`, `TurnsEnd`): fairness is a statement about
  ENABLED, which the prover cannot reason about.
- What recursive definitions compute (`Ics`, `Synth`, the reading of model replies in
  `AgentTurn`, the paths of `Storage`): the prover has no induction over data.
- `SeesPrefix` once host tasks overlapped or failed: it does not hold then.
- The safety invariants of the components of `decide` (but for `Automations` and
  `AgentKnowledge`), `host` and `services` (but for `Network`): not proved.

## Divergences met while modelling

Behaviour of the code that a reader of its documents may not expect. None of them is
repaired in the models; where a property would be false because of one, the property
says under which condition it holds.

- agent: two approvals that overlap both read the halted document and both dispatch
  the call (`lib.rs:380`, `engine.rs:382`; README "dispatches exactly the pending
  call"). A goal stored as `running` when the process died can neither be resumed
  (`lib.rs:383`) nor pruned. A resume refused by its quota leaves the goal `running`
  (`engine.rs:377`). Two goals that end in one millisecond share the id of a fact
  (`memory.rs:207`); `clear` stops at the first deletion that fails (`memory.rs:288`).
  Two goals may both embed the tools. Of a reply only the first balanced object is
  read; `<tool_call>{json}</tool_call>` makes the object the tool's name; a stray
  `</tool_call>` is spoken. A blank prompt of the environment silences a group. A
  `true` in the approvals file is lost when a manifest replaces the tool.
- scheduler: every tick spawns a scan although the last one is still running
  (`main.rs:229`), so an occurrence can be dispatched twice; the README says
  "At-most-once". After downtime every missed cron occurrence fires, one per scan
  (`model.rs:117`); the README says that downtime "collapses into at most one catch-up
  fire". Replacing a cron schedule replays the occurrences since its creation. The stale
  write-back of a scan (`lib.rs:293`, `324`) resurrects a schedule deleted meanwhile,
  and undoes a `schedule_set`: a one-shot that was stored while the scan held the old
  document never fires. With overlapping scans `record_last_error` of one may write back
  a copy another had marked since (`lib.rs:309`), so a one-shot whose action failed
  loses its mark and fires again. A generated id may be one a client chose.
- automations: the action is called before its mark is stored (`main.rs:178`, `190`), so
  a crash in between repeats it within its cooldown, against "Mark before dispatch"
  (`main.rs:150`) and "cooldowns are marked BEFORE dispatch" (`main.rs:19`), which hold
  only within a task. The write-back of an event task or of another `rule_set` undoes a
  concurrent `rule_set`, the gate included, and revives a deleted rule (`main.rs:190`).
  Creations that run at once count the rules before any of them is stored
  (`main.rs:83`), so together with revived rules they pass the cap of the README's "≤200
  rules". An enabled rule cannot be disabled (`main.rs:92`). Calls are named by
  milliseconds (`main.rs:317`), so one may get the answer of another (run `clock_ids`);
  the entry of a call that timed out is never removed.
- database: a row that ends between the sweep and the transaction keeps its old
  expiry; the second `ALTER` of two first requests is refused; `db_incr` wraps.
- sync: two tasks may publish in the opposite order of their commits
  (`sync/src/lib.rs:65`), and the client skips the late delta for good
  (`sync-client/src/lib.rs:152`); the README says "always a consistent prefix".
- chats: `embed_sessions` returns after a failed write without requeueing dead
  sessions (`embed.rs:308`); only the sweep finds such vectors. `chat_delete` knows the
  goals that turns name (`store.rs:473`): one that is still running has no turn, and is
  kept for good. The agent stores facts in a detached task after a call of the model
  (`memory.rs:176`) and asks nobody whether the session is still there: what is stored
  after `memory_forget_session`, or whose index could not be written, stays.
- calendar: overlapping scans publish a reminder twice; overlapping imports duplicate
  events; of a recurring event with a UID only the last occurrence survives an import;
  an import that changes only `remind_before` does not arm the reminder again;
  `event_update` accepts a negative `remind_before`. The export drops the RRULE and a
  `remind_before` of 0; a date-only UNTIL ends at midnight; the cap of an expansion
  counts from the start of the series (`ics.rs:315`); folding a long run of blanks may
  not advance (`ics.rs:536`).
- library: a truncated walk, or a scan of other roots, removes entries of files that
  exist (`lib.rs:111`).
- notes, contacts, tasks: updates are read-modify-write without a comparison; a lost
  update and an undone delete are possible.
- daemon: a `mic_stop` that times out ends the turn without `stt_listen_stop`
  (`lib.rs:724`), and so does a late `stt_listen_start` that is served after the turn
  was given up; the stream then stays open and every later turn is refused with "already
  active" until stt restarts. A `mic_start` that is served after its timeout records
  until the next `mic_start`. The end of speech is subscribed to after the microphone
  was opened (`lib.rs:754`), while the comment above it says "subscribe BEFORE any
  capture starts". Every event on the bus restarts the cap of an utterance and of a hold
  (`lib.rs:761`, `861`), so a turn whose key is never released, or whose speech never
  ends, goes on for as long as other events come. Key events that arrive during a
  push-to-talk turn, but not in its hold, are read after it: the press of a second hold
  starts a turn late, although the comment says that it is "dropped rather than queued"
  (`lib.rs:838`, of manual turns). In push-to-talk mode `capturing` stays up while the
  turn thinks and speaks (`lib.rs:843`), against "True while the mic is actually open"
  (`lib.rs:399`). A turn that could not be spoken is remembered (`lib.rs:367`), against
  "Silent/errored turns are not remembered".
- mic, stt: the last chunk of a session takes another way than `stt_listen_stop` and
  may arrive after it: it is dropped, or joins the buffer of the next turn, whose
  stream has the same number. Buffers are not told apart by session in the model, so
  no property speaks of it.
- telegram: the loop awaits room in the channel that only it drains (`main.rs:149`),
  so one update while 64 replies wait stops the plugin; a list of dialogs is fetched page
  by page and cached at the end (`session.rs:67`), so one whose fetch was under way while
  a message was sent or read (`lib.rs:486`, `1241`, `1267`) is cached after its
  invalidation, stale for its time to live; every admission by the bucket
  resets the flood streak before the call is made (`antiban.rs:155`), so the floods of
  successive calls do not add up to the three of the breaker (`antiban.rs:5`); frames
  are discarded while `send_action` waits.
- email: a mail whose connection broke after its data was sent is reported as failed
  though it may have been accepted.
- network: `acquire` checks the cap under one lock and reserves under another
  (`main.rs:772`), so two tasks of a caller may both take its last slot.
- vector-db: vectors of the fallback and of the model can meet in one collection; a
  backup of a migration is trusted by its number of rows (`migrate.rs`).
- secrets: a vault is loaded outside the registry's lock (`handler.rs:70`), so the
  first two requests of a caller may use two copies and one change is lost, or a file
  written by both be torn, against "A torn write can never leave a half-written vault"
  (README); a change that could not be stored stays in memory.
- filesystem: of nested roots only the outermost counts as a root (`sandbox.rs:127`), so
  an inner one can be deleted or renamed, against the README's word on allowed roots; an
  overwriting rename removes the destination first, also when source and destination
  are one; a write through a link inside a root follows it; two requests that run at
  once may replace what the other has just put at the destination, or in the trash.
- uptime, rss: overlapping scans report an outage twice; the events of a scan are
  published at its end, so a call that fails for a later target (`lib.rs:159`), an
  answer that is lost after the state was written, or a crash drops the event of a
  transition that is stored as reported, against the comment at `lib.rs:164`; a scan
  writes the state of a target removed meanwhile; two requests may add one target twice.
  A fetch in flight writes a removed feed back, two fetches file one link twice, and
  `fetch_all` stops at the first feed that fails.
- tts, stt: a sentence without samples, or an error half way, leaves a stream without
  its end (`handler.rs:306`); `sample_rate_hz: 0` makes the encoder refuse the model's
  22050 Hz; speech may start without an end when a stream is stopped.
- sound: `ffplay` ignores the default device; two inline clips of one millisecond
  share a file.
- notify: a server list of "," makes the push panic; an entry is written after it was
  shown; when writing the audio fails half way the partial file is left
  (`providers.rs:483`).
- launcher: removing field codes also collapses blanks; a unit of systemd that fails
  is reported as launched.
- phone: a camera that streams cannot take another client (`stream.rs:47`); a cut off
  installation of the helper leaves a truncated script; `latest.jpg` outlives its
  stream, and a photo reads it after it asked for the active camera (`photo.rs:53`,
  `61`): when the stream is stopped and one of the other camera started in between, it is
  that camera's picture under the first one's name.
- capture: "one recording" (README) is not kept while one is being finished
  (`record.rs:155`).
- system: setting a percentage truncates, reading rounds, so 57 may read 56; a volume
  above 100 % is reported as it is.
- media: `streams_for_app` does not look at a stream's media name, which its comment
  names (`streams.rs:416`).
- mqtt: a late answer is taken for the next command's to that device
  (`client.rs:201`); the response topic is never subscribed; the channel of messages
  has no reader, so the event loop stops when it is full while the status says
  connected.
- hotkey: a rebind that the desktop denies has already closed the old session; the key
  "+" cannot be named; the worker and the loop can wait for each other (`portal.rs:150`,
  `main.rs:72`) until the loop gives up after 20 s: the bind is reported as failed, and
  applied later.

## Plan

What is left: theorems about `VectorDb` (cache, re-embedding and migration) and about
the components of `host`, which TLC checks.

## Not modelled

- The kernel and the SDK (not in the repository).
- Conversions of data: provider formats below the level of fields, scores and top-k
  selection, vCard, cron syntax, audio encoding, HTML, ranking of applications.
- media: the extrapolation of the position and the cache of metadata, which no command
  depends on.
- mqtt: `process_mqtt_message` and the dispatch of telemetry, which only tests call.
- daemon: `daemon_say` and `daemon_ask`, which call the agent, tts and sound and keep
  no state in the daemon.
- The registry, release archives, build scripts, the manifest helper and the reference
  plugins: no run-time state.
