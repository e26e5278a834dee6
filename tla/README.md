# window_zones: TLA+ models and proofs

window_zones moves the focused window to a zone or a display when a hotkey is
pressed. This directory models its core logic in TLA+, checks the models with
TLC on small instances and proves the main safety results with TLAPS for every
value of the constants. `PROJECT.json` has the machine-readable side: the lines
each definition stands for, the runs, the mutants (a plausible bug for every
checked property, which the run must catch), the hazards and the theorems.

## The system

A *session* (`window_zones run`, the tray or the TUI) owns an App, a hotkey
system and a window system. Its runner wakes every 50 ms: it takes
instructions from a queue, lets the App poll the config file and keep the
hotkeys registered, and drains the pressed hotkeys, each of which runs one
action on the focused window.

| Component | Source | State | Operations | Talks to |
| --- | --- | --- | --- | --- |
| App runtime | `runtime.rs` | active config, config and hotkey state, registered and refused sets, retry and reload deadlines, file signature | `start_at`, `tick`, `reload`, `hotkeys_lost`, `restart`, `dispatch_hotkey` | config file, HotkeySystem, executor; returns events |
| Executor: history | `executor.rs` | WindowHistory: restore point, applied frame and sequence number of each window | `execute_action`, `remember`, `forget` | WindowSystem (discover, move, displays) |
| Executor: zones and displays | `executor.rs`, `zones.rs`, `display_movement.rs`, `geometry.rs` | none | target of an action | displays of the WindowSystem |
| Compositor-bound dispatch | `session/local_dispatch/mod.rs`, `session/runner.rs` | socket, pending responses with deadlines, stop flag | client `dispatch`, worker loop, runner's handling of remote requests | datagram socket, instruction queue, one-slot reply channels |
| KWin companion, client, script | `kwin_integration/*`, `kwin-script/contents/code/main.js` | request queue, claims, results, controller, heartbeat, registered set; polling flags and shortcut update of the script | D-Bus methods, the script's callbacks and timers, `KwinHotkeySystem` | each other over D-Bus; KGlobalAccel |
| GNOME companion, client | `gnome-extension/extension.js`, `gnome_integration.rs` | grabbed accelerators, owner, window transitions, event queue | registration with rollback, owner watch, MoveWindow | D-Bus, Mutter |
| X11 hotkeys | `x11_window_system/hotkeys.rs` | grabs, listener thread, command channel, failure | register, replace, poll | X server |
| Native key hook | `hotkey_system.rs`, `hotkey_system/*.rs` | pressed and swallowed keys, hook thread | key events, replacement | OS hook |
| Session runner | `session/mod.rs`, `session/runner.rs` | next tick, queue | poll, restart, quit | App, surfaces |
| Instance lock | `ownership.rs`, `session/startup.rs` | lock file, pid file | acquire, release | file system |
| Notifications | `notifications.rs` | problem shown | event to notification | desktop |
| Window systems | `*_window_system.rs` | native handles | discover, move, displays | OS |
| Configuration, dispatcher, init | `config.rs`, `actions.rs`, `dispatcher.rs`, `cli/init.rs` | the config file | parse, look up, write a starter | App, hotkey adapters |
| Backend selection | `backends/selection.rs`, `wayland_window_system.rs` | none | choose, identify the compositor | environment |
| Surfaces | `surfaces/` | tray labels and whether they are dirty | refresh, report | runner, terminal, tray |
| Command line, logging, install scripts | `main.rs`, `cli/`, `logging.rs`, `scripts/` | none that is read back | | |

What is hard to test in it, and what the models are therefore about:

- registration is a transaction over two parties that can each fail, while the
  config file keeps changing and time passes (App runtime);
- every action reads a window and moves it later, with the user free to move,
  close or focus windows in between (executor);
- a request crosses four queues and three deadlines on its way to the runner
  and back, while the session may quit or die (dispatch);
- App, companion, KWin script and KWin itself restart, stall and lose calls
  independently, and each believes something of the others (KWin, GNOME);
- geometry must survive odd sizes, gaps and hotplug (zones and displays);
- a hotkey is spelt in a file, parsed by five key tables, grabbed under a layout
  that changes, held, repeated, and seen or missed by a hook (config, X11, hooks);
- a move is a series of calls during which the window changes, and its answer is
  what the history is built on (window systems, GNOME);
- processes start, crash and are replaced around one lock, one pid file and one
  socket (session, lock, compositor identity).

The correctness properties of each part are listed with its module below.

## Modules

| Module | Models | Extends / composes |
| --- | --- | --- |
| `AppRuntime` | App and its hotkey system, config file and clock | implements `HotkeyTransaction` (INSTANCE) |
| `HotkeyTransaction` | what a session promises of config and hotkeys | abstract specification |
| `Surfaces` | notifications and tray, fed by the App's events | extends `AppRuntime` |
| `WindowHistory` | history, its actions and the desktop | |
| `Placement` | targets of actions on displays | |
| `Executor` | `execute_action` as a whole | composes `WindowHistory`, `Placement` |
| `LocalDispatch` | client processes, worker thread, runner | |
| `Session` | instance lock, start, passes of the runner, exit | |
| `KeyNames`, `Config` | spellings and key tables; config file, lookup, `init` | `Config` extends `KeyNames` |
| `Launch` | choice of the backend, identity of the compositor | |
| `Application` | one invocation of the program | composes `Session`, `Config`, `Launch` |
| `KwinHotkeys` | Apps, companion, script, KGlobalAccel, D-Bus | |
| `GnomeHotkeys` | Apps, the extension's service, Mutter's grabs | |
| `GnomeMoves` | `MoveWindow` in the shell's loop | |
| `X11Hotkeys` | listener thread, X server, keyboard layout | |
| `KeyHook` | the hooks of Windows and macOS | |
| `HotkeyBackends` | `RuntimeHotkeySystem` | composes `X11Hotkeys`, `KeyHook` (INSTANCE) |
| `WindowDesk` | a window, its manager, its user | |
| `X11Moves`, `NativeMoves`, `ScriptedMoves`, `KwinMoves` | `move_window` of X11; Windows and macOS; Sway and Hyprland; KDE | extend `WindowDesk` |
| `WindowMoves` | the six adapters and what they promise | composes the four |
| `Displays` | how each adapter reads the displays | |
| `WindowSystems` | one call of the executor to an adapter | composes `WindowMoves`, `Displays` |
| `MC*` | constants for TLC | extend the module of their name |
| `*_proofs` | theorems: `Executor_proofs` also about `WindowHistory` and `Placement`, `Application_proofs` about `Session`, `Launch`, `Config`, `KeyNames` and `LocalDispatch`, `WindowSystems_proofs` about `WindowMoves` and `Displays` | extend the module of their name and TLAPS |

`Executor`, `Application`, `HotkeyBackends` and `WindowSystems` compose parts that
do not share state within one run of the program: each behaviour follows one part
(`concern`, `task`, `backend`) and holds the others in one state. The composition
puts them under one set of promises; the interleaving that matters is inside a part.

### AppRuntime and HotkeyTransaction

One action per handler of the App: `Tick` (with the poll of the file, the
apply of a due load and `sync_hotkeys` inside, as in the code), `Reload`,
`HotkeysLost` and `Restart`. The environment acts between handlers: `EditFile`,
`ServiceChanges`, `RefusalsChange`, `Pass`. It does not change during one.

`app` holds the fields of `App`, `held` what the hotkey system really has,
`told` the last hotkey and config event that the user saw, `events` those of the
last handler. A deadline is held as the time left until it, so nothing grows
and the model needs no bound on time. A handler is a chain of operators on a
record (`Running`, then `SeeFile`, `ApplyLoadedConfig`, `SyncHotkeys`, ...), each
named for the function it translates, and `Return` stores the result.

An unavailable answer of the hotkey system may leave any of the old set, the
new set or nothing (`HeldAfter`); a refusal leaves what was there.

`AppIsConsistent` is `TypeOK`, `RegisteredIsActive` (the set believed registered is
the active config's), `ToldMatchesState` (the last event shown agrees with the state),
`PendingIsScheduled` (a pending replacement has a deadline) and `RefusalIsCurrent`
(a recorded refusal is of the active config). `AppSettles` is
`HotkeyEventsAreTransitions`, `EventsDryUp` and `StableFileApplies`; `CaptureRecovers`
stands by itself.

`HotkeyTransaction` has two actions: `Commit` sets a config with its hotkeys,
`Lose` loses the hotkeys and keeps the config. Within a session (no `Restart`)
the App implements it (`ImplementsTransaction`) with `active <- app.config` and
`captured <- app.registered`.

Left out: an App without a config path, the session and performance logs, the
texts of messages.

### Surfaces

A pass of the runner reports each event to `NotificationPolicy` and to the surface,
then refreshes: an outage that has lasted for `Grace` is notified, tray labels are
written if dirty, which can fail. Checked: an outage the App reports is notified or
waits for its grace period (`OutageIsNotified`), a resolution is announced for
what is on screen and is true (`ResolutionIsTrue`), and between passes no label is
stale without being marked dirty (`SurfacesAreCurrent`: types, `TrayIsCurrent`).
The policy has one slot for two kinds of problem, which is what can go wrong.
What the CLI prints and the TUI draws anew is presentation.

### WindowHistory, Placement, Executor

*WindowHistory.* `Discover` is the first half of `execute_action`: the focused window
is read and its record kept or dropped. `Placed`, `Partial`, `Failed` and `Gone` are
the four outcomes of the second half. Between them the user acts (`UserMoves`,
`Close`, `Opens`), a slow client takes a size late (`Settles`), the App restarts.
Frames are the user's or the App's; `Near` is the comparison within 16 px.
`left`, `dropped` and `settled` are history variables for the properties only.
`RestorePointsAreSound` is `TypeOK`, `RestoreIsUsers` and `HistoryBounded`.

Not modelled: GNOME's acceptance of a landing 2 px off. Known limits of the
code that the model has: a window dragged during the move is put where the
action aimed; a window dragged away and back within the tolerance has not moved.
A record outlives its window, so a new window with the same native identity that
opens where the App left the old one is restored to the old one's frame. A client
that completes a partial move after the adapter's bounded wait is taken for a window
moved by hand: its restore point is lost, which ADR 0009 does not intend, and the
properties except such windows (`settled`).

*Placement.* The state is one window and the displays; a step is an action, a drag or
a change of displays. Targets are computed as in `zones.rs`, `display_movement.rs` and
`executor.rs`: built-in and custom zones, the recognition of a known zone and its
reconstruction on another display, proportional mapping, clamping, centering, owners
and neighbours. The code maps through f64; the model rounds the exact quotient half
away from zero, so an exact half may differ by a pixel. The limits of i32/u32 are not
modelled. `PlacementIsSound` is the type invariant and `PlacedInside`; `RepeatsGoOn` is
`LapVisitsAll`, `LapRestoresZone` and `HalvesMarchOutward`. A lap needs displays whose
usable areas are disjoint; mirrored outputs of different sizes can break it, as
the display a window is sent to need not be the one its center is found on.

*Executor* puts them side by side: history takes a target as any frame of the
App's, Placement starts from any history.

### LocalDispatch

A client sends one datagram and waits. The worker thread receives it, queues it
with a deadline and relays the result or reports a timeout; the runner judges
what it takes from the queue (deadline, compositor), runs the action and
reports. `reply` is the one-slot channel of each request, `starts` counts how often
its action was started. A client may be foreign (another identity, a malformed
message). `WorkerKeepsUp`: a time unit is far longer than the worker's pass of
100 ms; the runner may be slower than everything, as an adapter may be.
The runner compares the deadline with a time that it has read before, which the
model keeps (`RunnerTakes` and `RunnerJudges` are separate steps): an action can
start just after its client has been told of a timeout. `AnswersAreTrue` is `TypeOK`
and `TruthfulAnswers`.

### Session

Every system call on the shared directory is a step: `OpenLock`, `TryLock`,
`RemoveOldPid`, `WritePid`, `Build`, `StartServer`; on exit, in the order in which
`execute_session`'s locals are dropped, `StopServer`, `DropRuntime`, `RemovePid`,
`CloseLock`. `disk` has the inode behind the lock's path, the pid and the socket.
Any process crashes anywhere and leaves its files behind. A running session's pass
(`PassTakes`, `PassIdle`) takes one instruction, then ticks and handles up to `Burst`
presses; a request that comes too late skips the rest of its pass. One press, marked, is
followed through the queue. The dispatch server may fail to start, and so may the tray
of a session that has one: the session unwinds from where it is. Checked: `SessionIsOne` (types, `OneSession`,
`KeysUnderLock`, `PidNamesSession`, `SocketIsSessions`), `EndsOnlyAsAsked`, and
`SessionServes` (`PressesAreHandled`, `RequestsAreTaken`).

### KeyNames and Config

`KeyNames` has the vocabulary of `config.rs` with its aliases and the five tables
that adapters keep by hand. `Config` takes a file as the user wrote it (zones, lines,
each hotkey as written tokens) through validation, the adapter's capture and the lookup
of a key pressed or of a hotkey given to `dispatch`. `ConfigRunsAsWritten` is
`WhatIsWrittenRuns` (a key does what stands beside it, however spelt on either side),
`NamesAreShared` (what the config accepts no adapter refuses for its name, but for
eight keys on macOS), `BoundZonesExist` and `StarterLoads`. `init` checks, opens
and writes in separate steps with the user editing in between, by an editor that
replaces the file or by one that saves into it (`UserFilesStay`, which the code keeps
but for a save into the file that `init` has made and not filled yet: that is written
over, or mixed with). TOML syntax and the default chord of each desktop are left out.

### Launch

The choice of the backend is an operator over the whole environment: session type,
display variables, compositor signals, tools. `BackendFitsDesktop` says what the
runbook promises of it. For Sway and Hyprland, a `dispatch` and the session each
compute an identity from the socket behind their variables. A request is compared by
the worker (`Judge`), waits in the queue, is looked at again by the runner (`Consider`)
and then calls `swaymsg` or `hyprctl` any number of times (`Call`), while compositors
end, start and take over socket paths between any two steps.
`RequestsMeetTheirCompositor` is what running.md says ("Compositor socket replacement
fails closed, including queued requests"): no call reaches another compositor than the
one whose key was pressed. The code does not look again between the calls of an action;
if the session's socket comes or goes under a running one (`late`), its later calls may
reach the next compositor, and the property excepts them. A new socket has a new inode:
that a file system may give a number out again is left out, as is a session type in
capitals, which wayland_window_system.rs folds and selection.rs does not.

### Application

One invocation: `task` says which of `Session`, `Config`, `Launch` is followed.
`ChecksHoldWhenUsed` is `UserFilesStay` and `RequestsMeetTheirCompositor`.

### KwinHotkeys

Three programs over one bus. `companion` is `CompanionState`; its operators
(`MarkReady`, `EnsureReady`, `OwnerLost`, `RegisterHotkeys`, `CompleteRequest`) return
the state after the method of that name. `inbox` holds the messages on their way
to it, handled one at a time: `HandleRegister`, `HandleNext`, `HandleComplete`,
`HandleSet`, `HandleLateCall`, `HandleLost`, and `AnswerDeferred` for the long poll.
The App blocks in its calls, so a call is one step, unless it gives up
(`AppRegistersLate`): then the call stays in the inbox and is carried out late.
`script` has the variables of main.js; `heard` says of a call in flight whether its
callback would still be acted on (the poll's generation, the update's `finished`,
a script that has ended). A reply to the script is merged with the step that sends it.
A shortcut update is checked, made and configured key by key (`OwnersChecked`,
`Configure`, `HandleSet`) and can time out between any two.

Faults are bounded by `MaxFaults`: crashes of App, companion, script and KWin
(`AppDies`, `CompanionDies`, `ScriptUnloads`, `KwinDies`), conflicts (`KeyTaken`), and
*stalls* of something that goes on: a heartbeat that expires, a call given up while
it is being served, a `SetShortcut` that fails, a timer that beats its update, a retry
beside a living poll. Restarts and recoveries are not faults and never used up.

Two abstractions matter. Request ids count to 2^32 in the code; here the ids that a
companion has issued and that nobody remembers come round again, while a new
companion starts from 1, with ids that others still remember. And `AppKeepsUp`:
an App that waits or holds hotkeys polls every 10 or 50 ms, so it meets an outage
before a retry of the script (2 s), a new companion or a new KWin repairs it. Only the
reload of a script that the companion already knows may outrun it. An App stalled
for longer than that is not modelled.

`CaptureIsExact` is `TypeOK`, `OnePoll` and `HeldIsGrabbed`; `CaptureSettles` is
`CaptureRecovers` and `GrabsReleased`. Not modelled: the companion's queue of pressed
hotkeys, protocol and capability mismatches, ownership of the bus name, an action
that KWin refuses to create. The lookups of the owners of all keys are one step.

### GnomeHotkeys and GnomeMoves

*GnomeHotkeys.* The service grabs accelerators for one App. `HandleRegister` is the
whole of a registration: ownership, the grab of each accelerator, the rollback to
the set of before when one is refused. The shell handles its inbox in order;
a call that the App has given up stays there and is handled late. Presses and the news
that the service has gone wait in the App's socket until it polls; it reads all of them
before it looks at any (`AppPolls`), and presses then wait in its queue. `MaxPresses`
bounds the presses on their way. `CaptureIsExact` is
`TypeOK`, `GrabsAreRegistered` and `NoSilentLoss`; a press remembers whether its App
lost the registration since (`PressesAreCurrent`); `CaptureSettles` as in KwinHotkeys.

*GnomeMoves.* A `MoveWindow` lasts many turns of the shell's loop: waiting for the
restore of a maximized window, asking for the frame, watching it, animating a frozen
actor. Meanwhile the window changes or closes, its actor is destroyed, a second move
supersedes it, its sender dies, the service is disabled. `TransitionsAreOwned` is
`TypeOK`, `MovesAreOnRecord`, `FrozenOnlyForMove` and `MetricsOfTheLiving`;
`AnswersAreTrue` is the contract of `WindowSystem`; `EveryMoveEnds`.

Not modelled: the names GNOME gives keys, `GetCapabilities` and its cache, the numbering
of displays, the eligibility tests of windows one by one.

### X11Hotkeys, KeyHook, HotkeyBackends

*X11Hotkeys.* The listener resolves a hotkey to every key code and modifier state that
spells it on the present layout, with and without locks, grabs them, and on any refusal
puts back what was there. A layout change is an event in its socket; until it is
read, grabs are the old layout's. The server sends all keys to the holder of an
active grab until its key is released. A listener that fails keeps its failure.

*KeyHook.* The table of pressed and swallowed keys, what the hook passes on, what it
reconciles with the system's key state, the owner of the binding table, and threads that
could not be stopped: a hook that still runs when another is put in its place would be
left to itself (`orphans`, which `OneHook` bounds, and which the two guards of `Replaced`
and `Shared` are there for). The environment presses keys, shows a secure desktop, disables
the tap (`blind`); `seen` is what the focused program takes for down.

*HotkeyBackends* states the adapters' common contract: `CaptureIsExact` (types,
`HeldIsCaptured`, `GrabsSpellHotkeys`, `OneHook`), `KeysActOnce` (`OncePerHold`,
`ChordsAreHeld`, `ChordsAct`), `KeysComeUp`, `LossNoticed`.

Limits of the code that the properties except or do not claim: on X11, a second key
released after the first one leaves its mark set, and its next press is dropped; on
Windows the press after a missed release is taken for a repeat; on macOS the release of
a key pressed again while the tap was disabled is swallowed (`docs/testing.md`).

### WindowDesk to WindowSystems

A rectangle is one axis, since adapters treat both alike. The desk has one window with
its mode (free, maximized, tiled, fullscreen), size limits and a manager that serves, alters or
drops requests (X11), applies the commands of a batch in order (Sway, Hyprland), or
is the KWin script. Each call an adapter makes is a step, any may fail, and the user
moves, restates or closes the window between two of them. A look at a window's frame is
taken reply by reply: on X11 the client's geometry, the place it translates to and its
decorations (`focused_window_geometry`), on macOS `AXPosition` and `AXSize`
(`Accessibility::frame`). Between two replies the window manager may serve
the request and the user may meddle, so that a frame can be pieced together from before
and after a change and be one that the window never had (`Replied`, `Looked`). Two calls
are one step with the call they serve: the two rectangles and the placing of Windows'
`SetWindowPos`, and the look-up of a window and its attributes on macOS. A second
runs out for the two adapters that wait (`Deadline`: X11 and KDE), and only their servers
act by themselves (`Serve`). `swaymsg`, `hyprctl` and a reply of the X server have no
timeout in the code and are taken to return. A batch is at most four commands. `marks`
says what has happened, for the properties. Windows has invisible borders that change with
the display; macOS gives windows identities that must survive a busy program.

`MovesAreSound` is types, `AnswersAreTrue`, `FocusIsFresh` (KDE) and `IdentitiesAreStable`
(macOS). Three things excuse an answer, and nothing else does. *blind*: the look that
was to tell failed. *overtaken*: the window changed after that look had begun. On X11
this need not be the user: past its second the adapter reports the poll it is in, and if
the manager serves the request between two replies of that poll, `PartialMove` names a
frame the window never had while it stands in its target. *unlooked*: the KDE client gave
up (`client.rs:351`); it never looks at the window itself and answers `Platform`, although
the script may have moved it, where `window_system.rs:82-87` asks for `PartialMove`.
`UndisturbedMovesArrive`: without interference and loss a move arrives from any state,
and success is not claimed from a look torn by the manager's own service of the request.
`MovesAreAnswered` is its liveness.

`Displays` has points, panels and monitors: X11's struts against the root window,
Hyprland's pixels, scale (one to two by quarters, with pixels rounded) and rotation,
macOS's turned axis, and what the others are
told. `ReadingsAreTrue` is `DisplaysAreExact` for a desktop that stays, and
`DisplaysAreOfTheCall` for one that is rearranged between two calls of a reading: each
display is of some moment of the call, but on Windows, X11 and Sway the moments may differ
and a reading may mix two arrangements, which nothing in these adapters prevents.

### How the parts meet

The modules rely on each other by contract, each side being checked against it:

| Assumed in | of | kept by |
| --- | --- | --- |
| `AppRuntime.HeldAfter`, `HotkeysLost` | hotkey systems: what they hold is what was registered, or a loss is told | `CaptureIsExact`, `NoSilentLoss` of Kwin, Gnome; `CaptureIsExact`, `LossNoticed` of `HotkeyBackends` |
| `WindowHistory`: Ok, Partial, Failed, Gone | window systems: an answer says where the window is | `AnswersAreTrue` of `WindowMoves`, `GnomeMoves` |
| `Placement`: usable areas | `displays` of the adapters | `ReadingsAreTrue` |
| `WindowHistory`: a window's identity | macOS adapter | `IdentitiesAreStable` |
| `Placement`: a bound zone exists | config | `BoundZonesExist` |
| `LocalDispatch`: one session behind the socket | session | `SocketIsSessions` |
| `Session`: presses in the App's queue | hotkey systems | `KeysActOnce`, `PressesAreCurrent` |

One link has an exception that the runs show: on KDE a loss can be silent after a
refused registration (`kwin_unowned`).

## Runs

| Run | Question | Instance |
| --- | --- | --- |
| `app_session` | is a session a transaction, are events transitions, does it settle and recover | one config and the empty one of a missing file, debounce 1, retry 2, fair |
| `app_retrying` (violation) | does a status that says "retrying" end once the companion is back | as `app_session` |
| `app_surfaces` | does the App's record agree with config, events and hotkey system, restarts included; is what the user sees true | two configs with the same hotkeys and the empty one, debounce and retry 1, grace 2 |
| `executor_safety` | is the restore point the user's; is there a way back; do targets stay inside, laps and marches go around | two windows, capacity 1, three memories; five desktops, two custom zones, walks of 5, 3 turns |
| `dispatch_answers` | are clients told the truth, in time; does quitting end | two clients, deadlines 2 and 3, time 5, fair |
| `kwin_session` | is what is held what is grabbed; is a loss told; are answers true; does capture come back and go | two Apps, two keys, nested sets, one contested key, two faults, fair |
| `kwin_unowned` (violation) | is a loss always told | one App, two disjoint sets, one contested key, two faults |
| `gnome_hotkeys` | the same for GNOME, and are presses current | two Apps, overlapping sets, one contested accelerator, two signals, three faults, fair |
| `gnome_moves` | has a transition one owner, a true answer and an end | two Apps, one window, two frames, two faults, fair |
| `hotkey_backends` | what X11 and the hooks owe the App | two layouts that swap the keys, locks, rival grabs, two faults; hooks with Ctrl, Alt, AltGr, three systems, two faults, fair |
| `session` | one session with its own files; does it serve; does a config run as written; does the backend fit | two processes, one crash, burst 1, two presses, two instructions, one late request; nine files; every environment, two instances, two sockets; fair |
| `window_systems` | are answers and readings true; does a move arrive and end | six adapters, three columns, one interference; desks of 4 by 3 with two panels, one rearrangement, fair |

Why the bounds suffice. *App*: the App compares configs and hotkey sets for
equality only and remembers at most one active, one seen and one refused set; a config,
one that shares its hotkeys and the empty one give the relations between two of
them; debounce and retry differ in `app_session` so that each can be due first. *Surfaces*: the
grace is longer than the retry interval, as in the code. *History*: two windows and one
place in the history make every remembering an eviction; frames cover user and
App, near and far. *Placement*: the desktops have odd sizes, panels, negative
coordinates, gaps, rows, and none at all; 4 actions are a lap of the largest and one
more. *Dispatch*: two requests are needed for one to wait for another; time goes on
past every deadline of a request sent first and of one sent after it. *KWin*:
nested sets make an update of some keys only, the second App a rival; request ids are
unbounded and reused as soon as nobody remembers them. *GNOME*: two Apps and three
connections let a late call of a dead one meet its successor; a move can be superseded
and its successor too. *X11*: a layout with a level the other lacks makes a
re-grab fail; *hooks*: with three systems one that could not be stopped has two successors. *Session*: with two
processes, one always meets the files of the other; burst 1 makes the second press wait.
*Config*: the files hold each rule of validation broken once, spellings in every
case, order and alias, and the texts a key named twice. *Window systems*: three columns let a window be left of, at and
right of its target and change size; one interference can fall between any two calls.

Deadlock is not checked where all bounds can be used up or a client has its answer
(`CHECK_DEADLOCK FALSE`).

### Fairness

- *App*: `Tick`, `HotkeysLost` (the runner ticks and polls every 50 ms) and `Pass`.
  Edits, outages and reloads are never due. The liveness properties assume that
  the App is eventually left alone, or its file and service stay as they are.
- *Dispatch*: the worker thread and the runner thread, as the operating system
  schedules both and adapters return. No fairness for clients.
- *KWin*: the companion handles its messages and answers its long poll; the
  script's timers fire; stopped companions and scripts are started again (D-Bus
  activation and KWin's script loading); an App that runs retries and polls.
- *GNOME*: the shell handles its messages and is enabled again; an App registers and
  polls. Of moves: the shell's messages, timers and animations.
- *X11 and hooks*: the listener looks at its channel and socket every 5 ms, a hook
  thread that left its loop ends, the runner polls.
- *Session*: the runner's passes and the steps of the exit.
- *Window systems*: the adapter runs, and its deadlines pass. Nothing is assumed of the
  window manager, the script or the user.

Where a fair action could also be a fault, only the case without one is fair (`Calm`,
`Answering`): a fault is never due.

### What the runs found

- `app_retrying`: an unavailable answer to a replacement makes the status "...;
  retrying" and leaves a recorded refusal as it is. If the active set was refused before,
  `sync_hotkeys` stops at that record for ever: with the companion back and the reload
  refused again, the status still says "retrying", while nothing is
  retried. `docs/runbooks/running.md`: "the companion is absent or busy; retried every
  second."
- `kwin_unowned`: an App whose first set is refused stays controller without
  polling. If the script is then silent for more than five seconds and reconnects,
  `mark_ready` queues an empty set in that controller's name. The App's next set is
  queued behind it; completing the empty one releases the controller, completing
  the App's own registers it without one. `GetNextHotkey` answers "no event" for
  ever (ADR 0003: one active controller owns the set).

More limits are visible in the models and worth knowing. With a stall at the
wrong moment the keys of a departed App stay grabbed on KDE, since its release is one
queued request that nobody repeats (`GrabsReleased` excepts stalls); several seconds of a
stalled App can hide an outage from it (`AppKeepsUp`). `App::restart` forgets a
failure, so a pending outage is notified although hotkeys are no longer unavailable
when the registration that follows is of an empty set.

## Proofs

All theorems hold for every value of the constants that satisfies the assumptions of
their module (`ConstantsOK`, `DispatchConstantsOK`, `LayoutsOK`, `LaunchConstantsOK`,
`HookConstantsOK`, `MovesConstantsOK`, `DisplaysConstantsOK`, `SpellingsOK`, `FilesOK`): bounds are natural numbers, a value that means
"nothing" is not one of the things, a layout's locks are modifier bits, AltGr has a key,
a desktop has monitors of a size, a token that is a word of the vocabulary stays as it is
when blanks and capitals are taken from it, and a file's lines are a sequence. Each `_proofs`
module states its inductive invariant before it proves it; the parts were checked with
TLC first.

**AppRuntime_proofs.** `TypeCorrectness`, `RegistrationMatchesConfig`,
`EventsTellTheState`, `PendingNeverForgotten`, `RefusalNeverStale`, together
`RecordsAgree` (`AppIsConsistent`), and `SessionIsTransactional` (the session implements
`HotkeyTransaction`). The
inductive invariant is the conjunction of the type invariant and the four safety
invariants: none is inductive alone (a retry needs the deadline, the deadline the
error, the error what was told). The proof follows the code: it restates the
invariant for the record that a handler passes along (`Typed`, `Coherent`), has one
lemma for each operator on it, one for each handler, and shows that every
handler's record is `Transactional`, which is what refinement needs of a step.
Of `Surfaces`, in the same module: `SurfacesStayCurrent` (`SurfacesAreCurrent`),
`OutagesStayNotified` (`OutageIsNotified`) and `ResolutionsStayTrue` (`ResolutionIsTrue`,
an action property). A notification follows from the events of a handler, not from its
state, so the proof first says what the events of each handler tell of its state, and
that there are at most three; `ShownIInv` adds to the App's invariant that an App which
has not ticked owes no retry and remembers no refusal (`Fresh`) and has its tray marked
dirty, and that an error of the config that was shown is its state (`ErrorIsState`).

**Executor_proofs**, of the history: `TypeCorrectness`, `RestorePointIsUsers`,
`BoundedHistory`, together `RestorePointsStaySound` (`RestorePointsAreSound`),
`AlwaysAWayBack` and `MovedByHandStartsOver`. The invariant adds
`InFlight` (an action in flight carries its record with it: a Restore has one, and
so has a placement that found its window at an App frame) and `LeftAgrees` (a record
says where the App left its window): without them a move that is remembered could
take the App's own frame for the user's. The bound needs that an oldest record
exists, by well-founded induction on sequence numbers.
Of placement: `PlacementTypeCorrectness` and `PlacementStaysInside`, together
`PlacementsAreSound` (`PlacementIsSound`), for every
layout, frame and custom zone: one lemma for each way to compute a target
(built-in, custom, centered, mapped, known zone), on top of arithmetic lemmas on
halves, thirds, percentages and clamps. Neighbours and owners are proved to be usable
displays only. `ExecutorFollowsBoth` carries all of it over: a behaviour of the executor
is one of the history and one of placement.
`ZonesKeepTheRow` (`ZonesStayInRow`, an action property) and `RepeatedActionsGoOn`
(`RepeatsGoOn`) need two hypotheses that the first theorems do without. `OrdinaryDesktops`:
usable areas do not overlap (of mirrored displays, of which one contains the other, a
window moved to the second still belongs to the first, so that a lap gets no further), and they
are so large that a percent is a pixel and a half differs from a third by more than the
tolerance. `[]Sized(geometry)`, of the second theorem only: no window is mapped to a
width or height of zero, as such a frame at the right edge has its center on the next
display. The desktops of the run satisfy both. A window within a display is then that
display's (`OwnerIs`), and wherever it is it has one owner (`OneOwner`), since the order
of displays is total. `WalkIInv` says that each frame of a walk is one press from the one
before (`LapStep`, `HalfStep`); the rest is about one walk. Displays have the places
0 to n - 1 (`PositionIs`, `PositionDecides`), and places that follow each other round a
table of n are the same every n steps and only then (`SamePlaceAgain`); a zone is
recognised as no other (`ZonesDiffer`), so it stays the zone for a whole lap; and a half
goes on to the other half, or to a display beyond, or stays (`HalfGoesBeyond`). Steps add
up by a least counterexample (`StepByStep`).

**Application_proofs.** `OneSessionAtATime` (`SessionIsOne`), `SessionsEndAsAsked`
(`EndsOnlyAsAsked`) and `BackendsFitDesktops` (`BackendFitsDesktop`). One session follows
from `LockIsOne`: the lock file is never unlinked, so every process that has opened it
has opened the inode that is there, and a second one cannot lock it. Keys, pid file and
socket belong to stages that lie inside the lock (`KeysByStage`, `ServingByStage`,
`SocketByStage`). Of the choice of backend the proof is a case analysis of the
environment. `ChecksStayTrue` (`ChecksHoldWhenUsed`) is that `init`
leaves the user's files and that a request's calls meet its compositor or none: `init`
makes the file by a call that fails if one has come (`InitIInv`); a request that waits or
runs names the session's inode, and a running one that is not late still finds it at the
session's path, which was looked at when its turn came (`RequestIInv`).
`ApplicationFollowsAll`: the three parts share no variable, so what
is proved of each is true of the whole.

`ConfigsMeanWhatTheySay` (`ConfigRunsAsWritten`) is for every file, text and vocabulary of
written tokens. Its argument: a spelling is made of a set of modifiers and one key
(`Spelled`), and is its own spelling (`SpellingsStay`); so two hotkeys have one spelling
when they mean the same (`OneSpellingOneMeaning`). No table gives two keys one code
(`CodesDiffer`): three are joined of runs of codes and a tuple, each without repetitions
and apart from the others (`TableOnce`), that of macOS has no code for eight keys
(`KeysAreKnown`), GNOME's has names. So two hotkeys that an adapter takes are two chords
(`ChordsDiffer`), and what is captured, reported and looked up is what was written
(`PressedAsWritten`, `DispatchedAsWritten`). The invariant (`ConfigIInv`, `MeaningIInv`) is
that the App's config and the captured set are those of the text loaded last, which was
accepted and taken whole. `ConfigsHoldTogether` is the part about zones and the starter
(`BoundZonesExist`, `StarterLoads`), which rests on less.

Of `LocalDispatch`, in the same module: `AnswersStayTrue` (`AnswersAreTrue`) and `AnswersComeInTime`
(`AnsweredInTime`). An answer is true because a request is in one place at a time, and
its reply channel says how far it has come: the invariant has a condition for each place
(`Queued`, `Held`, `Replied`, `Sent`, `Told`, together `Whereabouts`), and no client
twice in the socket or the queue (`Once`). An answer is in time because the worker lets
no time pass while it has something to do: a client that waits is in the socket since
this moment, or pending with a deadline that has not passed (`Known`), or its worker has
gone (`Missed`).

**KwinHotkeys_proofs.** `CaptureStaysExact` (`CaptureIsExact`), `UpdatesNeverMix` (types and
`OnePoll`), `LossesAreNeverSilent` (`NoSilentLossUnrefused`) and `AnswersStayTrue`
(`AnswersAreTrue`, an action property), for any number of Apps, keys, sets, names and
faults. No conjunct is inductive by itself, as three programs each hold a part of the
truth and any of them may have restarted; the invariant is `ChannelInv` and `Queued`.
`ChannelInv` is about the script's calls on their way: of its polls, updates and key
changes at most one will still be heard (`HeardByOne`, `OneTurn`), in the order in which
the loop takes them (`InTurn`), the one key on its way is the next of the update
(`OneKey`), and the keys already set are grabbed or free (`UpdateFits`). `Queued` relates that to the companion and the Apps. `Connected`: every
connection is one App's, and of one given up only what it left behind is on its way.
`Distinct` and `Waits`: an id is one request's, in the queue, in hand or answered, and
an App waits for its own. `Claims`: what is worked on or reported
was claimed before what is not, and a report of ok is the truth. `Ranks`: behind the
first request each connection has one at most, the one its App waits for. `Restores` and
`Beliefs` are the core: of a set that an App believes to hold, or is about to, either it
is registered, delivered and grabbed and nothing queued but the App's own request will
change it, or nothing is registered and what is queued restores it (`Kept`, `Restored`).
`OkIsSo`: an ok that nobody has taken yet is still so. As long as nothing was refused,
also `Owned` (an App that holds keys, or will, is the controller; no release that is queued in the
controller's name can still undo what its App was told) and `Aware` (a controller that is idle holds
something): with a refusal they fail, as `kwin_unowned` shows, and the proof uses them
only for `NoSilentLossUnrefused` and for who owns what an ok is about. Each action
keeps both parts; those on one message or one request (`Completing`, `Enqueuing`,
`StartingOver`, `Withdrawing`, `Settling`) are lemmas on any state, so that several
actions share them.

**GnomeMoves_proofs.** `TransitionsStayOwned` (`TransitionsAreOwned`) and
`AnswersStayTrue` (`AnswersAreTrue`, an action property). That every transition has one
owner is not inductive by itself: the service tells its Apps apart by their connections
only. The invariant (`Fits`) says how these are used: a connection belongs to one App at
most (`Exclusive`), its App has one call at a time, on its way or in progress and never
both (`OneCall`), messages of a connection end with its closing (`Ordered`), whatever
the service keeps is of a sender on the bus as far as it knows (`Alive`), and a call is
the one that its App waits for (`Meant`).

**GnomeHotkeys_proofs.** `CaptureStaysExact` (`CaptureIsExact`) and `PressesStayCurrent`
(`PressesAreCurrent`). An App that has no news of a loss agrees with the service, one way
and the other, and has only current presses in its socket and its queue (`Agrees`); no
message of a closed connection is under one in use (`Exclusive`), so nothing late
touches the set of an App that is served.

**HotkeyBackends_proofs.** `CapturesStayExact` (`CaptureIsExact`), `KeysAlwaysComeUp`
(`KeysComeUp`) and `ChordsActOnce` (`KeysActOnce`, an action property). On X11 the
listener's map mirrors the server's grabs (`Mirrored`) and is the accepted set in the
spelling of some layout, the present one unless a change is unread (`Spelt`);
presses and releases of a key on their way do not mix, and a hold that has acted is
marked until its release (`Holds`). Behind a native hook the invariant says how far its
marks may differ from the keyboard: not before a miss on Windows, nor while the tap is
enabled on macOS (`MarksAreHeld`), and the focused program has nothing that was
swallowed (`SeenIsHeld`).

**WindowSystems_proofs.** `MovesStaySound` (`MovesAreSound`: types, `AnswersAreTrue`,
`FocusIsFresh`, `IdentitiesAreStable`) and `UndisturbedAlwaysArrive`
(`UndisturbedMovesArrive`), for every width of the desktop, window, target and number of
interferences. `LookIsTrue` says that replies taken without a change in between are those
of one frame, so that only an overtaken look can be torn. Nothing is asked of a window before its frame is noted (`NotedFirst`), so
an early failure needs no further look; `Companion` says where a request on KDE is, and
that what the script has posted is so and in its order; `Retained` that macOS keeps the
identity of every open window. For the arrival, `Proceeds` says for each adapter how far
an undisturbed move has come at each of its calls. `Compensated` is the arithmetic of
Windows' invisible borders (the second placing hits the target), `BatchPlaces` that a
batch of Sway or Hyprland ends in the target whatever the window's mode was.

Of `Displays`, in the same module: `ReadingsStayTrue` (`ReadingsAreTrue`), for any
monitors, rotations and panels, and the five scales. `ReadInv` says that what an adapter
has so far is of arrangements that it saw (`HasSeen`), and that the script on KDE
publishes the areas before it says that it is done (`PublishedFirst`). The rest is geometry: the free columns
and rows of a monitor are convex, so that a work area covers exactly the free points
(`WorkAreaIs`); struts from both ends of a side leave what lies between them (`SideIs`,
`UsableAreaIs`); Hyprland's pixels and scale give the monitor back though both were
rounded (`RoundedBack`, `HyprlandIs`), and an axis that is turned twice is as it was
(`TurnedTwice`).

Model-checked only are the liveness properties, which are out of the prover's reach.
Every invariant and every action property that the runs check is proved, two of
`Placement` under the hypotheses that are named with them.

What the proofs found in the models: `AnswersAreTrue` of KwinHotkeys said that an ok
means the set is registered, or empty; with three faults that is false, as a set whose
owner was lost by a refusal can be replaced by another App before its own has read the
answer (`RegisteredFor` now says so), which two faults do not reach. A deadline of the KDE client could pass for Sway
and Hyprland too, since all three wait at a step of one name (`Deadline` and `Serve` now
say whose they are); some CASE expressions had overlapping guards, which leave open which
branch is taken; and the App's socket on GNOME is now read as the code reads it, all of
it before any of it is looked at. The events of a pass are heard one by one (`Hears`)
rather than by a fold, of which nothing can be proved here. `WhatIsWrittenRuns` was false of a
hotkey that names its key twice: it has the same words as one that names it once, and the
code refuses it (`Meaning` now tells them apart, and `dispatch` is given one); and `Takes`
took the empty hotkey, which the adapters' parsers refuse.

## Plan

Done: the modules above, with proofs for all of `AppRuntime`, `Executor`, `LocalDispatch`,
`Surfaces`, `Session`, `Launch`, `GnomeMoves`, `GnomeHotkeys`, `KwinHotkeys`, `HotkeyBackends`,
`WindowMoves`, `Displays`, `Config` and `KeyNames`. What is left are the liveness properties.

## Not modelled

- Command line and dry run, logging, installation and verification scripts: nothing of
  them is read back by a running session.
- What the CLI prints and the TUI draws; the delivery of notifications.
- TOML syntax, the default chords of the desktops.
- Of dispatch: validation of the socket directory, messages over the size limits beyond
  being answered at once. Of the lock: owner and mode of its directory; a pid file that
  cannot be written, which the session ignores.
- Of the choice of backend: session types in capitals, which one of its two checks lowers
  (`wayland_window_system.rs:141`) and the other compares as they are (`selection.rs:53`).
- Of the runner: an endless stream of requests that come too late, each of which skips the
  rest of a pass; `MaxRejected` is 1.
- Of KWin and GNOME: what is named in their sections above.

`PROJECT.json` lists every component with its reason.
