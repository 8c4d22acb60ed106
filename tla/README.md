# Vibe Island: a verification project

Vibe Island is a Windows overlay (Tauri: a Rust backend, a React frontend) that
listens to the hooks of coding agents (Claude Code, Codex), shows their sessions,
and lets the user answer their permission requests. This directory holds TLA+
models of the parts of it that are hard to test, the TLC runs that check them on small
instances, and proofs, for every instance, of most of what the runs check. Paths below are relative to the
repository; every definition that stands for code is listed with its lines under
`map` in `PROJECT.json`.

    tlc -workers 2 -config MCApprovalBroker.cfg MCApprovalBroker
    tlapm ApprovalBrokerProofs.tla        (and the other ...Proofs modules)

## 1. The system

| Part | State | Operations | Where |
|---|---|---|---|
| Approval broker | `PENDING_APPROVALS`: tool_use_id -> oneshot sender; one task per blocked hook | register (HTTP, pipe), `submit_approval_response`, test approve, time limit of the pipe, disconnection | `hook_server.rs`, `pipe_server.rs` |
| Overlay queue | `pendingApprovals`, `currentApprovalIndex`, `approvalMinimized`, the timer of the shown card | add, remove current / by id / by session, navigate, minimise, collapse, click, expire | `sessions.ts`, `Overlay.tsx`, `useAgentEvents.ts`, `useApprovalTimeout.ts` |
| Session reducer and mirror | backend `SessionState` (phase, current tool, history, jump target); the overlay's copy | `apply(AgentEvent)`, the emits of the hook handlers, the delayed title task, `sessionReducer` and the listeners | `session_state.rs`, `adapters/`, `hook_server.rs`, `pipe_server.rs`, `session-reducer.ts` |
| Hook configuration | `settings.json` (shared with Claude Code and the user), the manifest, timestamped backups, the stored mode | auto-configure at start, install, uninstall, clean up at exit, set the mode | `hook_config.rs`, `hook_manifest.rs`, `lib.rs` |
| Agent CLI | none: one process per hook | find a free instance of the pipe; forward a hook; wait for an answer to two kinds | `bin/vibe-island-hooks.rs` |
| Background services | of watcher, pipe and hook server: a state behind a lock, a thread, what it holds (processes, clients, an error log) | start, stop, restart, poll, accept, fail | `process_watcher.rs`, `pipe_server.rs`, `hook_server.rs` |
| Persistence | `sessions.json` | save every 10 s, when hidden, on unload; restore at start; expiry | `session_store.rs`, `useSessionPersistence.ts` |
| Transcripts | none: read at start and after a hook | discover recent sessions, merge unknown ones, take a title, cut a sentence | `transcript_discovery.rs`, `session_state.rs` |
| Command analysis and card | none: pure | walk the syntax tree, explain words, collect risks; risk, action, diff and questions of a card, twice | `command_analyzer.rs`, `hook_server.rs`, `pipe_server.rs` |
| Overlay window | the native window, its region, a cached center, the snapped edge on both sides; the animated box, its measured height, a gate | resize, set region, drag, snap, change mode, measure | `commands.rs`, `window_manager.rs`, `Overlay.tsx`, `AnimatedOverlay.tsx` |
| Jump targets | the jump target of a session | enrich from a hook; jump | `terminal_jump/`, `window_focus.rs` |
| Display state machine, configuration, SDKs, timeline, sound, usage, logging, components, scripts | presentation, tables, values read once | | see `PROJECT.json` |

How they meet. An agent runs a hook, over HTTP (it waits for the response) or by the
CLI over the named pipe (which waits only for PreToolUse and PermissionRequest). The
handler, one task per connection, changes the session by two paths: it applies
`AgentEvent`s to the reducer, which forwards each to the overlay as `agent_event`,
and it emits events of its own. The overlay folds both into its copy of the session.
A PermissionRequest leaves a sender in the broker's map and blocks; the overlay makes
a card of its event; a click on the card is an asynchronous command that finds the
sender by the tool_use_id. The hook configuration is what makes agents call at all; the
services are what answers the call, and find agents that do not. What the overlay shows outlives
it in `sessions.json`; what it missed is in the agents' transcripts. A card is drawn from
the analysis of its command; the window around it is resized by the same page that animates it.

What is hard, and what makes each part correct:

* **Broker.** One id may be stored twice, a timer meets a verdict, an agent leaves, the
  app exits. Correct: map and channels agree; an acknowledged verdict is the only answer
  its agent can get; an undecided request is answered as its transport documents; no
  agent blocks for ever.
* **Queue.** Cards leave by their index, by id and by session, by four independent paths.
  Correct: a decision goes to the request whose card was clicked; there is a card to
  show whenever there are cards; cards of open requests stay and those of settled ones leave.
* **Sessions.** Two mirrors written by interleaved steps of concurrent handlers and by
  a task that acts 200 ms late. Correct: when nothing is under way the mirrors agree, or
  differ in one of the ways the code is known to part them; nothing revives a stopped session; no finished tool stays current.
* **Hook configuration.** Several files, each truncated before it is written, edited by
  others meanwhile; the copy that is made first and the removal of old copies can fail on their own.
  Correct: the user's hooks and settings survive; a task that was cut
  short is made good by the next; what is lost can be rolled back.
* **Services.** A thread is stopped by a flag it looks at later, and its successor runs already.
  Correct: one watcher polls; only the end of a process with its pid detaches a session; an agent that waits keeps its
  connection; what a restart costs is bounded; the status is that of the server that listens.
* **Restarts.** Saves and the restore interleave with hooks, and a save may be cut short. Correct: one
  row per session; a save never loses one; no restart renews one. Of transcripts: the newest file
  wins; a title does not flicker; a text is cut between characters.
* **Commands and cards.** Two classifiers look at one command, by its words and by its syntax, and two servers
  draw the card. Correct: what is dangerous is shown by one of them at least, however it is
  wrapped; marks agree with risks; both servers draw the same card, up to
  the words for a field that is absent.
* **Window.** Animations overtake one another, sizes are asked for again later, the user drags. Correct: at
  rest the clickable region is the box, the box has room for the list as it was last measured, and
  page and backend agree on the edge the window is at.

`hazards` in `PROJECT.json` lists each of these at the line where it bites.

## 2. The modules

| Module | Models | Built on |
|---|---|---|
| `ApprovalContract` | what an agent that blocks is promised, without maps, channels or tasks | |
| `ApprovalBroker` | the backend of approvals, its agents, and the app's life | refines `ApprovalContract` |
| `ApprovalBrokerProofs` | theorems about it | `ApprovalBroker`, TLAPS |
| `ApprovalQueue` | the store's queue of cards and what the user does with the panel | |
| `ApprovalFlow` | broker + queue + the event stream + the asynchronous command | `ApprovalQueue`, `INSTANCE ApprovalBroker` |
| `ApprovalFlowProofs` | theorems about both, those of the broker carried over | `ApprovalFlow`, `INSTANCE ApprovalBrokerProofs` |
| `SessionFlow` | hook handlers, the backend's reducer, the overlay's fold | |
| `SessionFlowProofs` | theorems about it | `SessionFlow`, TLAPS |
| `Subsequence` | what `filter` and `retain` do with a sequence | |
| `SubsequenceProofs` | theorems about that and about recursion over numbers, cited by four of the others | `Subsequence`, TLAPS |
| `HookConfig` | the installer's files, step by step | `Subsequence` |
| `HookConfigProofs` | theorems about it | `HookConfig`, `SubsequenceProofs` |
| `ProcessWatcher` | watchers, processes with reused pids, the overlay's sessions of processes | |
| `PipeServer` | the pipe's accept loop, its restarts, the hooks the CLI brings | |
| `HookServer` | the HTTP server's restarts, its error log and its health | |
| `Services` | the three together, as the setup of the app starts them | the three above |
| `ServicesProofs` | theorems about each of the three | `Services`, TLAPS |
| `SessionStore` | `sessions.json`, its saves and its restore | `Subsequence` |
| `Transcripts` | the discovery and the titles | |
| `Restarts` | both | the two above |
| `RestartsProofs` | theorems about both | `Restarts`, `SubsequenceProofs` |
| `CommandAnalysis` | the walk over a script, the explanations, the rules | |
| `ToolCard` | the four functions of a card, in both copies | `CommandAnalysis` |
| `OverlayWindow` | the window, its region and its snap; the page's modes, animations and measuring | |
| `OverlayProofs` | theorems about the window and about the cards in it | `OverlayWindow`, `ToolCard`, `SubsequenceProofs` |
| `MC*` | small instances for TLC | |

Modules that share no state are put side by side (`Services`, `Restarts`), with a variable
`focus` for the one whose behaviour is followed: no property speaks of two of them.
The filters of the queue, the installer and the store are `Keep` of `Subsequence`. `SelectSeq` is
the same sequence by recursion, about which nothing can be proved here; `Keep` says by
counting which element comes where.

### ApprovalBroker

`pending` is `PENDING_APPROVALS`, with the request that owns a sender in place of the
sender. `chan[r]` is the channel as the sender sees it, `pc[r]` the point its handler
has reached, `client[r]` what the agent got. `HttpStore`/`HttpEmit` are
`handle_permission_request` on either side of the release of the lock;
`PipeEmit`/`PipeStore` are the pipe's handler, which emits *before* it registers.
`Store` includes what `HashMap::insert` does to a sender it replaces. `Submit` is
`submit_approval_response` whole: the entry is removed under the lock whether or not the
send succeeds. A call that finds no entry changes nothing and is no action here; in
`ApprovalFlow`, where its error comes back, it is. `Submit` asks for an id the overlay was
told of: it has no other source of ids. `PipeTimerFires`/`PipeTimeout` are two steps
because `tokio::time::timeout` polls the receiver, then its timer, and only then drops the
receiver; a send from another thread in between succeeds and is not read.
`HttpDrop` is the HTTP server dropping the future of a closed connection. Nothing of
the broker is persisted; `AppExit` takes everything and closes every connection.

### ApprovalQueue and ApprovalFlow

A card is the request whose event made it, so that a card that answers *another* request
can be told apart; its `toolUseId` is `KeyOf[card]`. The operators are named after the
store's functions. `events` is the stream of Tauri events, in order; the emits one
handler makes in a row are one step. `sent` and `accepted` are the two halves of a call of
`submit_approval_response`: `handleApprovalHandled` runs when its Ok is back and removes
*whatever card is current then*. Collapsing and opening the overlay mounts the panel anew,
which is how a second click can be made while the first is under way. `OtherHook` is
any other hook of a session, which is all the queue sees of it. The app's exit is left to
`ApprovalBroker`: it takes the overlay along, and nothing of the queue is persisted.

### SessionFlow

A running handler is the sequence of applies and emits it has left (`Scripts`), read off
the handlers of both transports. `Step` executes one: `apply` reduces and emits under one
lock, an emit does not touch the reducer. Slot 0 is the task an HTTP Stop leaves behind,
which sleeps 200 ms (`delayed`) and then applies and emits the phase fixed when it was
spawned; the tasks of one session run one at a time. `Reduce` is `SessionState::apply`,
`Listen` is `useAgentEvents` with `sessionReducer`. The agent: hooks of parallel
tool calls overlap, nothing else does while the agent waits, and it waits for every
HTTP hook but for only two kinds on the pipe, so on the pipe later hooks overtake earlier
ones. A tool that was denied or interrupted ends without a hook (`DropTool`).
Data that only decides *which* of several scripts runs (a title was found, the throttle
of refreshes) is a choice.

### HookConfig

`app` is the one task under way and its next file operation: commands, tray, start and
exit all run on the main thread, so tasks do not overlap. `Truncate`/`Write` are
`File::create` and `write_all`; between them the file is `Torn` and reads as `{}`. `Copy` is
`fs::copy` in two steps, `Prune` the removals of `prune_old_backups` one by one: a kill leaves those that
are not done yet, and so does `FailPrune`, since the code ignores their errors and goes on. The
hooks of an event are a sequence of groups: `"user"`, `"vibe"` (the one we write) or
`"shared"` (ours, with a user's hook put in it). `Kill`, `Fail` and `FailRead` may
strike at any file operation; `Edit` is the user, another tool or Claude Code writing
the settings at any moment, a task's read and rewrite included. `user`, `harmed`,
`mishaps` and `last` are history variables for the properties.

### ProcessWatcher, PipeServer, HookServer

Each keeps a sequence of the threads started and the number of the one that its global state
(`PROCESS_WATCHER_STATE`, `PIPE_STATE`, `HOOK_SERVER_STATE`) names. A stopped thread goes on to its
next look at its flag; that of the hook server never looks. A watcher's poll is two
steps, the enumeration and the comparison with what it detected before; its notices are
handled by the overlay later, in order. A process has one life; two may have one pid, one after the
other. The pipe's loop has one free instance at most, and pauses after it gave one
to a task; a client that finds no instance is lost at once, one that finds a busy one tries again;
when a loop ends its runtime goes and the connections of its clients with it.
`clear_hook_errors` and `add_error_log` are two steps each, under different locks; the history
variables `raced` and `high` hold what a reset of the count met in the log or on its way there, and the highest
limit since the log was cleared.

### SessionStore and Transcripts

`file` is `sessions.json` (missing, torn between truncation and write, or whole), `writing` a save
in between; `answer` is what `load_sessions` returned and the overlay has not yet restored.
An entry is a session with the day of its last activity, or the groups with no day.
`active` and `ended` are history variables. `Transcripts` lets files grow a line at a
time, an hour pass, the discovery run; `ExtractTitle` is over the last `MaxWindow` lines, the
precedence of kinds as in the code. A text is a sequence of characters of which width and
ending a sentence count; `Cut` is the byte at which `first_sentence` slices.

### CommandAnalysis and ToolCard

A script is a sequence of trees, written a word or a construct at a time, so that every small
script is a state and a step makes it longer or wraps its end up. What the code learns
by looking into a word is a constant (`Options`, `LettersOf`, `KeysIn`). `Nodes` are the trees,
built level by level (`Trees`), so that what is computed of a node is a function of what is computed
of its children: `Segments` is `collect_segments`, `AllCommands` every command that is in a node and
whether something above it keeps the walk away (`Hides`), which the properties compare it with. The walk enters
the kinds of nodes the code names and no others; tables and rules are the code's, for the commands
that have one. `Http...` and `Pipe...` are the two copies of the card's functions, each from its file.

### OverlayWindow

The page's box is `mode` with `measured`, and `flying` while it is animated; an animation that is
overtaken may or may not report its end. `gate`, `frames` and `timers` are what
`useAnimationGatedMeasure` and the effects of `Overlay` leave pending: measuring off, a frame
that will measure, one that will ask for it, the two first measures (`initTimer`, `bindTimer`), the retries
of an approval's size, the snap. `content` is the height a box with all of the list would have. The code does not
measure that: `measure` adds up the list's `scrollHeight`, and the list is a flex child of a panel as high as
its box, so that `Extents` is never less than the box, which may be on its way (`BoxNow`), and a list
that becomes shorter is not measured as shorter. Nor is it observed: the `ResizeObserver` watches the panel and the
list, which keep their size when rows come and go. What asks for a measure is the
box's own resizing (`BoxResizes`), a notice above the list (`NoticeChanges`), another number of sessions
(`ListAnew`, by the dependencies of the effect), the timers and the end of an animation; `RowsChange` asks for
none, and the history variable `unseen` remembers it. `UpdateSize` is `update_overlay_size` with its cached center, `SetRegion`
`set_overlay_region`, `SmartSnap` the command and the page's use of its answer; commands of one page
are handled in order. Lengths are integers, logical on the page and physical in the backend.

## 3. What the runs check

Twelve runs; nine of them pass and three show a disagreement between the code and what its
documents or comments say.

| Run | Question | Instance |
|---|---|---|
| `approval_broker` | Do map, channels, handlers and agents stay consistent, and does the broker implement the contract? Is a pipe request always answered? | three requests: one with its own id, two that share one over different transports |
| `approval_flow` | Does a decision reach only the request whose card was clicked, with that decision; is there always a card to show? | three requests, two sessions, own ids |
| `approval_flow_live` | Does every card leave that the user does not hide? | two requests of two sessions, one other hook |
| `session_flow` | Is Stop final; does a hook that runs alone leave the mirrors equal, or parted in a known way; does no finished tool stay current? | one session of either transport, two tools, four hooks |
| `hook_config` | Do the user's settings survive; is a task cut short repaired; is our hook there once; can a loss be rolled back? | two events, five tasks, two faults, one outside edit |
| `services` | Does a restart harm anybody who waits; is a session detached only when a process of its pid has ended; do watcher and pipe go on working; is the health true? | two watchers, three processes, two of one pid; two pipe servers, three clients; two hook servers, three errors |
| `restarts` | Is a session kept once and its day true, through saves, kills and restores; newest transcript, steady title, whole characters? | two sessions, two starts, three days; three files of three lines; texts of five characters |
| `tool_card` | Do walk, marks, rules and the two risks of a card agree; do the two servers, but for the words of an absent field? | scripts of five words and constructs over nine commands; every call of seven other tools |
| `overlay_window` | Is the region the box, is there room for the list as last measured, is the edge known to both, whatever overtakes what? | two screens, three heights of the list, three of a box on its way, six places to drag to |
| `flow_card_lost` | violated: another hook of the session clears the cards of open approvals | two requests, one session |
| `hook_settings_lost` | violated: one failed read and the user's hooks are overwritten | one fault |
| `overlay_pulled_back` | violated: the next resize takes a dragged window back to where it was | as `overlay_window` |

The `findings` quote the line each of the three contradicts. The properties of the
passing runs, in words:

* `ChannelOwnership`: a sender is in the map exactly while its channel is open.
* `VerdictHonoured`: after Ok the agent gets that decision or none, except that a denial that
  meets the pipe's timer may be answered with allow.
* `SenderDroppedOnlyByReuse`: a waiting handler loses its sender only to its id's reuse.
* `ImplementsContract`: refinement of `ApprovalContract`. `PipeAnswered`: liveness.
* `QueueWellFormed`: cards have a current one; no two have one id.
* `AnsweredAsClicked`: a request is decided only by a click on its own card.
* `CardsLeave`: liveness, by the timer of the shown card: nothing else removes a card whose
  request was settled by a timer or a lost client.
* `StopIsFinal` (HTTP only: on the pipe hooks overtake), `NoStuckTool` (one mirror clears by id, the other by name).
* `LoneHookAgrees`: a hook that runs alone leaves the mirrors equal, in whatever state earlier
  ones left them. It speaks of the ten hooks that both paths report; after three of them, a PostToolUse, a
  decided PermissionRequest over HTTP and an `idle_prompt`, the mirrors may differ, but only in the one way that
  `Parted` states of each (section 5). PermissionDenied and StopFailure tell the overlay alone. Hooks that overlap are not its
  subject: for them it is `StopIsFinal` and `NoStuckTool` that hold.
* `UserSettingsKept`, `CutShortIsRepaired`, `OneGroupOfOurs`, `RollbackWindow`, `HookTypeOK`. The first
  excepts a fault in a rewrite and an edit that falls between a read and its rewrite; the
  code has no protection against either. `RollbackWindow` says what is left then: the old settings are in a
  backup until MAX_BACKUPS more tasks have run. `HookTypeOK`, the type invariant, has one more thing to say
  (`FewBackups`): there are never more backups than MAX_BACKUPS, one for each fault there was, and one while a task
  is between its copy and the removals. More than MAX_BACKUPS do stay after a kill or a failed removal.
* `DetachedByExit`: only the end of a process of its pid detaches a session, which may by then be
  the session of the pid's next process (section 5). `OneWatcherPolls`: a
  stopped watcher begins no further poll. `WatcherCatchesUp`: liveness, until an enumeration fails.
* `WaitersKeepTheirServer`: an agent that waits loses its connection to a stop only.
  `OneTurnedAwayPerStop`: a stop costs the next server one hook at most. `ListensAgain`: liveness.
* `HealthOfTheListener`: health is that of the server that listens, until it is stopped.
  `ErrorsAccountedFor`: what is logged or about to be is counted, but for what a reset of the count met
  there, and the count falls short by no more than that; a clearing of the log ends the exception for all it
  removes. And the log is no longer than the highest limit since it was cleared, so it exceeds the limit
  only if that was lowered since.
* `OneRowPerSession`, `FileIsOnScreen` (what the file holds and is not old is shown, so the
  next save keeps it), `ActivityIsTrue` (no restart renews or ages a session).
* `NewestFileWins`, `TitleIsSteady`, `CutsBetweenCharacters` (with the exception under which
  `first_sentence` panics, section 5).
* `SegmentsInOrder`: the walk finds what stands outside the constructs it does not enter, in order.
  `MarksCoverRisks`, `KnownWordsExplained`, `RiskOnlyGrows`. `DangerIsShown`: a command that is dangerous
  on its own raises one of the card's two risks, except git and find in a construct that is not
  entered or behind an assignment. `TransportsAgree`: the same call has the same risk, diff and questions from either server,
  and an action of the same kind, which is the same word for word unless it names a field the call does not have.
* `HitRegionFollowsBox`, `SnappedAtItsEdge`. `ListHasRoom`: the expanded box comes to rest with room for all of the list, or
  at its highest, whatever the gate and the frames that were taken back kept from being measured; unless rows
  changed in sight since the last measure, which nothing observes. That the box is *no higher* than the list needs does not
  hold and is not claimed: section 5.

Each property of a passing run has a mutant in `PROJECT.json`: a plausible bug of the code
that violates it on the same instance. The mutated forms stand beside the definitions they
mutate and are marked as such; no action uses them. `TypeOK` and `HookTypeOK` are checked; the type
invariants of the other modules that have one are proved; none is run a second time.

### Bounds

* Broker: no bound but the number of requests, 3; one state space holds every combination
  of exits, drops and submissions. Two requests make every collision, the third shows
  that they leave others alone.
* Flow: `MaxCalls` 1 (calls of `submit_approval_response` under way), `MaxActivity` 0 or 1 (other
  hooks). Every request emits at most two events, so the stream is bounded by the requests.
* Session: `MaxHooks` 4 or 2 hooks; the four are enough for a tool call, its permission and
  an end of turn to meet a second tool call. `MaxInFlight` 2 handlers at a time. `MaxWire` 2
  events unread; the backend never reads the overlay, so a longer wire only delays what the
  overlay folds, and a full one only delays a handler. One session: sessions share nothing
  here. Two tools, with different names.
* Hook configuration: 2 of the 7 required events, which the code treats alike (symmetry),
  MAX_BACKUPS as in the code; `MaxTasks` 5 is enough for the first backup to be pruned.
  The rollback window needs a fault and `MAX_BACKUPS` tasks after it; two faults leave two backups too many.
* Services: `MaxWatchers`, `MaxServers` and `MaxStarts` 2, one that is stopped and its successor.
  Three processes are one pid used twice and another; `MaxNotices` 1, so that a watcher may be
  stopped with a notice unhandled. Three clients: one that waits, one that is turned away, one that is
  served. `MaxFailures` 3 and limits of 1 and 2 make the log overflow, and again after the limit was lowered.
* Restarts: `MaxStarts` 2 and `MaxDay` 2 with an expiry of one day: a session is
  saved, restored, saved again and expires. `MaxFiles` 2 of three files; `MaxWindow` 2 of three lines, so
  that a line leaves the window; `MaxLen` 4 bytes and texts of five characters of one or three. The two
  ids and the three files are symmetric; the run has no liveness.
* Cards: `MaxSize` 5 words and constructs: a command of three words in two constructs, or two commands in
  one. It bounds the depth of a tree too, and cuts no tree off by that, since every level of one counts at least
  a word or a construct. Nine commands stand for those that a rule or a table names.
* Window: sizes in the order of the default configuration, scaled down, with an approval a little lower than
  the box. The second screen is lower than the window. `Heights` of the list and `Passed`, the heights of a box on
  its way, have one below, one within and one above the limits, the last because its spring swings over; `Spots` are near each edge of both screens and away from them. A drag
  takes longer than the 50 ms to the snap of the drag before.

### Deadlock

`approval_broker`, `overlay_window` and `overlay_pulled_back` check it. The others set
`CHECK_DEADLOCK FALSE`: when every request is answered and every event handled, every service is
stopped, the app is down for good, or a bound is reached, the system rests.

### Fairness

`ApprovalBroker`: weak fairness of each request's handler. The tokio runtime polls a task
whose future is ready and fires timers that are due; the pipe's 290 s timer is one.
`HttpDrop` gets none: only a server that notices the closed connection takes it.
`ApprovalFlow`: weak fairness of the overlay's event loop and of the timer of the shown
card. The timer is stated for *some* card, not for each: navigation restarts it,
and the user may hide it for ever, hence the disjunct in `CardsLeave`.
`ProcessWatcher`: weak fairness of each watcher's thread, which sleeps and polls, and of the
overlay's handling of a notice. `PipeServer`: weak fairness of each loop, of which each turn has
a limit of its own; none for its clients, who may hold an instance for as long as they like.
The user, the agents and the app's own life owe nothing. The other modules claim no liveness.

## 4. What is proved

Every theorem holds for all values of the constants that satisfy the assumptions named `...Assumption`
of the module, and for all values of the bounds (`Max...`): of the sets of requests, sessions, tools, events and clients
none needs to be finite. An assumption that says more than the type of a constant is named below.
`PROJECT.json` lists under `theorems` which property of which run each theorem states.

The proofs have one shape. An inductive invariant strengthens the property by what the steps
rely on; one lemma for each kind of step shows that it is kept, with one fact for each conjunct the step
disturbs; the theorem joins them. TLC checked each invariant on the run's instance before it was proved.

### Approvals

`ApprovalBrokerProofs`: `Inductive` is the invariant, `TypeOK` with `Shape` of every request,
`EntryUnderOwnKey`, `ChannelOwnership`, `VerdictHonoured` and `ClosedOnlyByReuse`; from it
`TypeCorrect`, `SendersAreOwned`, `VerdictsAreHonoured`, `SendersLostOnlyByReuse`; and
`BrokerImplementsContract`, the refinement. `ChannelOwnership` alone is not inductive, because `Submit` and
`Store` touch the entry of a key and the channel of a request, which are the same request's
only if an entry lies under its own id, and because a handler that has
emitted and not registered has no channel yet (`Shape`). `VerdictHonoured` needs `Shape` to know
that an answered agent has a handler that is done. `SenderDroppedOnlyByReuse` speaks of waiting handlers;
the timer moves a handler on, so the invariant speaks of every live receiver. The refinement maps `client` to the
contract's `status` (a waiting agent whose handler has timed out is `"closing"`) and an acknowledged decision to its
`verdict`; each step maps to one of the contract or a stutter, by the lemmas `...Refines`.

`ApprovalFlowProofs`: every step of the flow is a step of the broker or none (`FlowRunsBroker`), so the
broker's theorems hold in the flow and the whole flow implements the contract (`BrokerIsSafe`,
`FlowImplementsContract`). `QueueIsWellFormed` and `TypeCorrect`: each removal, by index, by id and by
session, keeps the ids distinct and puts the index back into the queue. `ClicksFollowAnnouncements`:
what `Submit` takes for granted of its caller holds of the overlay; it needs to know that
all the overlay holds, in events, cards and calls under way, was announced (`HeardOf`). `AnswersGoById`: with any
ids, a request is decided only by a click on a card of its id. `AnswersGoByCard`: by a
click on its own card, under `UniqueIds`; section 5 says where the code does not see to that.

### Sessions

`SessionFlowProofs`: `StopHasTheLastWord`, `LoneHooksAgree` and `NoToolIsStuck`, for any number of
overlapping handlers, tools and unread events. All three speak of rest only, so the
invariant says what is still under way: of each handler, that what it has left ends in the state its hook
stands for, by the last of its effects that tells a state, or that it tells none, as some notifications
(`HandlersProper`, decided script by script and transport by transport: `PhasesAfter` and `StatesAfter` are the states
a hook can end in); of the last hook when it is Stop or one of the ten and ran
alone, that it is the only one left, or that the wire's last event for the session,
or the mirror itself, has its state already (`DecidersRule`); of a tool that is shown, that it is in use or that
an event which clears it is in a handler or on the wire behind the one which set it (`ReducersTool`,
`OverlaysTool`). The assumption that `None` is no tool and no hook is what the code's `Option` gives.

### Hook configuration

`HookConfigProofs`: `UserKeepsHisSettings`, `EndsRepair`, `RunsOurHookOnce`, `FaultsCanBeUndone` and
`TypeCorrect`. The settings are torn from the rewrite's first step to its second, and what the task
read has the user's part all the while (`Rewriting`). An installation that has only its record left to write
has configured every event, and a removal that has only the record to delete has removed all that is
ours: it goes by the record, or by the required events when the record is missing or torn, and a record that is whole
never names fewer (`NearlyDone`). The backup a task made is the newest until its
rewrite ends, and one that is needed is as far down as tasks have made others since (`Saved`), so
`MAX_BACKUPS` of them have to pass before it is pruned; a removal
takes only what is behind the first `MAX_BACKUPS`. There is one too many for each fault at most, since each task
that gets through its removals leaves none (`Backing`). The
lemmas about merging, removing and editing say that the user's groups are the same before and after, by
`SubsequenceProofs`: what a filter keeps (`KeepKeeps`), that it keeps all or none
(`KeepAll`, `KeepNone`), that it does not depend on what is behind (`KeepFront`).

### Services

`ServicesProofs`, for any number of starts, an invariant for each of the three. *Pipe*
(`WaitersAreKept`, `StopTurnsOneAway`): a client that has connected is the only one with its server, which is
about to look at it; whoever was turned away is alone with a server that is over.
*Hook server* (`HealthIsListeners`, `ErrorsAreAccountedFor`): only the server in the slot has its flag set, one
serves, what is logged or about to be was counted or met by a reset, and a log is no longer than the
highest limit since it was cleared, which is at least the present one (`Bounded`). *Watcher*
(`OneLoopPolls`, `DetachedWhenGone`): only the current one has its flag set, a scan has all that live of those
detected before, and a termination that was reported is true for ever, however late it is handled.
The processes are finitely many (`WatcherAssumption`): a poll reports each in a list.

### Restarts

`RestartsProofs`: `SessionsAreThereOnce`, `SavesLoseNothing`, `DaysAreTrue`, `TheNewestWins`. A row may be on
the screen, in the file, in a save that is half done and in the answer that is being restored. The invariant says that
each of the four has a session once (`OneRowEach`), that a row's day is one on which the session
had an event and no row behind the screen is newer than the one on it (`Truthful`), and that what is
in a save or in the file is on the screen, was removed, or is in the answer (`Known`). `TheNewestWins`
follows from the sort being a permutation of what was collected, newest first; the
files are finitely many (`TranscriptAssumption`), as a directory's are.

`TextsAreCutBetweenCharacters`: `Offset` and the loop of `first_sentence` are recursive over characters; the
offset of a character is where the one before it ends (`Offsets`), and the loop stops behind a character or has added
all of them up (`CutPlace`). `TitlesAreSteady`: the loop over the window fills a slot
with the first line or the last one of its kind, and the title is from the best kind that has a line
(`SlotsFilled`, `ExtractedTitle`), so that a line more at the end and a line less at the front change it only as
the property allows. Both rest on `Iterated` of `SubsequenceProofs`: a loop over a sequence has the values
its recursive definition says, round by round.

### Window

`OverlayProofs`, for any screens, sizes, scale and drags. `StaysAtItsEdge`: the window has
one of two heights, and between a snap and the next drag it is where the snap has put it,
whatever is resized meanwhile. `ListGetsRoom`: while the gate is closed an animation is on its way,
and what is not measured, and was not changed in sight, will be; a measure is never less than the list or the limit. It assumes `BarIsSmall`, that opening always changes the box: if it did not
there would be no animation whose end opens the gate. `BoxIsClickable`: the window keeps the
width of an approval, and where nothing flies the region is the box. It assumes `Centred`, that the box
leaves whole pixels on either side; section 5 says what the code does otherwise. The
default configuration satisfies both (widths 180, 600 and 600; a bar of 32 under a list of 200 at least).

### Commands and cards

`OverlayProofs`, for any words, bundles and key words, and scripts of any length, depth and mixture of constructs. The
only invariant is that a script is a sequence of trees (`Grown`); all else is about functions of trees.
What holds of a node whenever it holds of its children holds of every node (`EveryNode`, by
counting the levels). `AllFoundRight` is shown so: `Segments` of a node are the words of those of its commands
that nothing hides. It is where the constructs are gone through, and `CommandsAreFoundInOrder` is its
consequence for a script. From there on the proofs are about commands, not trees.

`RisksAreMarked`: each rule asks for words, and of those it asks for one has a mark at least as high
as the risk. `KnownWordsAreExplained`: a bundle is not a word that is known, so that taking bundles apart drops no
word that is. `DangersAreShown`: a command that is dangerous alone is an rm, which the text shows to the card with
a word behind it, or a git or find; of these what is not hidden is found, and its own risk is among those
the level is the highest of. `TheRiskOnlyGrows`: a step that hides nothing leaves the commands
that are written as they are, adds one at the end, or adds a word to the last (`Kept`, shown for each
construct); then the analysis has the same commands in the same places with all the words they had
(`SaysMore`), no rule of single commands or of neighbours loses its ground, and a sudo stays. Its one hard
case is rm, where a word more changes *which* risk there is. `CardsAgree`: the two copies, function by function,
the actions up to the words for a field that is absent (`NamesNothing`).

Two assumptions: `BundlesAssumption`, that no word which the explanations of rm and git know is a
bundle (a bundle has one dash and two letters or more, those words have two dashes, one letter, or no dash),
and `CardAssumption`, that `rm` followed by a word contains `rm` and a blank.

### What stays with TLC

* Liveness: `PipeAnswered`, `CardsLeave`, `WatcherCatchesUp` and `ListensAgain` rest on fairness, of which
  the prover can say nothing.
* The disagreements of the three runs that expect one, which are counterexamples.

Every invariant and every action property of a passing run is proved. What a recursive function
computes is shown without an induction theorem that takes an operator: the induction is over a set of numbers,
sequences or trees (`EveryNumber`, `EverySequence`, `EveryNode`), which the set of those that have the property is
shown to contain.

## 5. Seen while modelling, and not a run

Counterexamples the models gave, or that show at once in a module, beside the three of section 3.

Approvals
* `handle_permission_request` waits without a limit (`hook_server.rs:936`); `README.md:81` and two other documents
  give an approval 120 s.
* A denial that is sent between the last poll of the receiver and its drop (`pipe_server.rs:367`) is
  acknowledged to the user, and the agent is told allow. It is the exception in `VerdictHonoured`.
* Requests without a tool_use_id share one (`pipe_server.rs:763`): the overlay keeps the first card, the
  backend the last sender, and a click on the one decides the other. `AnsweredAsClicked` is checked with own ids.
* A call's Ok removes whatever card is current *then* (`Overlay.tsx:402`): a card that came to be current while the command was
  under way leaves unanswered, and the one that was answered may stay. No property catches it.
* `docs/design/specs/approval-panel-spec.md:133` has a timeout deny; the pipe's allows.
  `ApprovalContract` states what the code does (`FallbackAnswer`).

Sessions
* The mirrors disagree after handlers that only emit, such as StopFailure (`pipe_server.rs:733`), and a Stop's title task
  overwrites a prompt sent within its 200 ms (`hook_server.rs:772`); hence `LoneHookAgrees`, not more.
* Every successful HTTP PostToolUse is recorded as failed: the adapter asks for the absence of a key
  that is always there (`claude_adapter.rs:113`).
* A notification of type `permission_prompt` marks a session as waiting but makes no card.
* Three hooks that both paths report leave the mirrors apart though nothing else runs (`Parted`). After a PostToolUse
  over HTTP the session is completed in the backend and running in the overlay; over the pipe the backend's phase
  stays what it was. After a PermissionRequest over HTTP was decided the backend still waits and the overlay runs. After a
  notification of type `idle_prompt` the backend runs and the overlay is idle.
* Without a session_id, a hook's session is called by three names on its three ways (`hook_server.rs:283`).

Hook configuration
* The specification of hook integration has the installer write the user-level settings;
  `get_active_settings_path` takes a project-level file where there is no user-level one.
* An event with another tool's hooks counts as configured (`hook_config.rs:242`), so ours is never added there.
* `prune_old_backups` says nothing of a removal that failed (`hook_manifest.rs:136`), and a kill may come before it: more than
  MAX_BACKUPS backups stay until the next task removes them.

Services
* A hook that comes to the pipe in the pause after another was served finds no instance and is
  given up though the app runs (`pipe_server.rs:231`; the CLI tries again only if the pipe is busy).
* The overlay never unlinks or revives a session that was detached (`markSessionDetached`), links a
  process to a session that has one, and adds the process again when a watcher is restarted.
* A notice of a termination that is handled late detaches by pid (`useAgentEvents.ts`): if the pid was used again
  meanwhile it is a live session that is detached. `DetachedByExit` speaks of pids and allows it.
* A watcher whose enumeration fails ends for good (`process_watcher.rs:231`); `WatcherCatchesUp` is about the others.
* After a stop and a start of the hook server the new one cannot bind, and its status says connected.
* The commands that start and stop services are documented (`architecture.md:331`, 352-356); no page calls them.

Persistence and transcripts
* Groups are never restored: their entry has no lastActivity and is filtered (`session_store.rs:92`;
  `comprehensive-test-and-state-audit.md:864` says they are), and the save on unload leaves them out.
* A save or an unload before the restore has ended replaces the file by what is there so far; a
  session removed while the file is read comes back.
* `first_sentence` calls its limit characters and counts bytes; a text without the end of a sentence
  whose last character crosses the limit makes the slice panic (`transcript_discovery.rs:308`).
* A summary fills the slot of a custom title, so a custom title after it is not taken. A
  session's id is never derived from the name of the file, as a comment says. What the discovery
  finds reaches the backend only.

Commands
* The walk does not enter the bodies of loops and cases, else, or redirected groups; an assignment before the
  command hides it, and so does `sudo -u`. `rm -R` and `--recursive` are not known.
* `git add x` is shown with a high risk (it contains `dd `); `git log -10` loses its argument; `sudo`
  alone is summarised as no command; `mv -f` and `docker exec` are marked and give no risk.
* The pipe's copy of the card is said to be shared with the hook server's (`pipe_server.rs:889`), and is not: for an absent
  field the one says "unknown" (`pipe_server.rs:904-938`), the other "unknown file" and "unknown pattern"
  (`hook_server.rs:1056-1090`).

Window
* At the start the physical width is given where a logical one is asked for (`lib.rs:152`), which is the
  doubled `Scale` in `Init`: at a scale other than one the window is not in the middle.
* A snap at the bottom aligns the window, whose box is at its top: the bar ends up high above the edge,
  and the next drag finds it at none.
* A window that is higher than the work area is put above it at the top (`window_manager.rs:178`), bar included.
* With an approvalFocusWidth other than the widest, the retries of the approval's size make the window narrower
  than the one the region was cut for. The instance has the widths of the default configuration.
* With widths that differ by an odd number the page asks for a region that begins at half a pixel (`AnimatedOverlay.tsx:153`);
  the command takes whole numbers (`commands.rs:617`) and refuses it, and the region stays that of an earlier box.
* The box of the list does not shrink with the list: at rest what is measured is a list that fills its box, and a lower height
  comes only of a measure while the box is on its way. Rows that change in sight ask for no measure. The comments at
  `Overlay.tsx:359` (the scrollHeight is the whole content's height and not constrained by the parent) and `:382` (measure again when
  the content changes) say otherwise.
* The frame asked for at the end of one animation is not gated and may measure during the next.

## 6. What is not modelled, and the plan

Not modelled: the operating-system calls behind jumps (`terminal_jump/`, `window_focus.rs`: strategies tried one after
another, each for its effect outside), presentation (sound, timeline, usage, components), the table of display
transitions (`updateSessionState` consults it, logs an illegal one and makes it all the same), configuration
read once, the SDKs' clients (their `agent_event` messages are passed through), logging, build scripts.

Left out of parts that are modelled: tool history, titles and error texts, jump targets (`SessionFlow`); the project-level
file, the Codex installer, and deployment of the CLI (`HookConfig`); the parsing of the CLI's input; the
enricher of jump targets, which writes nothing while the enumeration of terminals it starts from is
disabled; heartbeats and counters (`HookServer`); the throttle of the title scans (`Transcripts`); words of
the tables that no command of the instance has (`CommandAnalysis`); screens of different scales,
z-order and focus, the session detail view in the panel, and the commands no page calls (`OverlayWindow`).

Next, in this order:

1. Jump targets in `SessionFlow`: the enrichment that writes back what it read before probing, once the
   enumeration is enabled.
2. The Codex installer beside Claude's in `HookConfig`.
3. Words as letters in `CommandAnalysis`, so that `LettersOf` and `KeysIn` are computed and their
   assumptions proved.
