----------------------------- MODULE AppRuntime -----------------------------
(***************************************************************************)
(* The App of src/runtime.rs as driven by the Runtime of                   *)
(* src/application/session: config-file polling with a debounce, the       *)
(* transactional reload, registration with the hotkey system, its retries, *)
(* and the events reported to the user.                                    *)
(*                                                                         *)
(* A deadline (an Instant in the code) is held as the time left until it,  *)
(* so that no clock grows: Pass lets one unit of time go by.  The hotkey   *)
(* system and the config file are the environment; a hotkey set is a value *)
(* of HotkeySets (the code compares whole sets, in order).                 *)
(***************************************************************************)
EXTENDS Integers, Sequences

CONSTANTS
  Configs,        \* the configs a readable, valid file can hold
  NoConfig,       \* AppConfig::default(): no bindings
  HotkeySets,     \* the hotkey sets that can be registered
  HotkeysOf,      \* hotkeys_of: the hotkey set of each config
  Reasons,        \* the messages an Unavailable error can carry
  Debounce,       \* CONFIG_RELOAD_DEBOUNCE, in units of Pass
  RetryInterval   \* HOTKEY_RETRY_INTERVAL, in units of Pass

None == "none"          \* Option::None, and "nothing registered"
Up == "up"              \* the hotkey system answers requests
NoDeadline == -1        \* reload_deadline = None

\* What the config path can hold besides a valid config.
Broken == {"invalid", "unreadable"}
Contents == Configs \cup {"missing"} \cup Broken
\* The error of the last registration, as carried by HotkeyRegistrationState.
HotkeyErrors == Reasons \cup {"rejected"}
ConfigErrors == Broken \cup {"refused"}
ActiveConfigs == Configs \cup {NoConfig}
Capture == HotkeySets \cup {None}

ASSUME ConstantsOK ==
  /\ HotkeysOf \in [ActiveConfigs -> HotkeySets]
  /\ None \notin HotkeySets
  /\ NoConfig \notin Configs
  /\ Configs \cap ({"missing", "unknown"} \cup Broken) = {}
  /\ Reasons \cap {Up, None, "rejected", "refused", "invalid", "unreadable",
                   "registered", "unregistered", "ok"} = {}
  /\ Reasons # {}
  /\ Debounce \in Nat \ {0}
  /\ RetryInterval \in Nat \ {0}

VARIABLES
  file,     \* what is at the config path
  service,  \* Up, or the reason the hotkey system gives for being unavailable
  refused,  \* the hotkey sets the hotkey system would reject now
  held,     \* the set the hotkey system really has registered
  app,      \* the fields of App
  told,     \* the last hotkey and config events the user was shown
  events    \* the events of the last handler

vars == <<file, service, refused, held, app, told, events>>
environment == <<file, service, refused>>

Event == [kind : {"ConfigLoaded", "ConfigMissing", "ConfigFailed", "ConfigPending",
                  "ConfigRejected", "HotkeysRegistered", "HotkeysRecovered",
                  "HotkeysRejected", "HotkeysUnavailable"},
          why : {"ok"} \cup ConfigErrors \cup HotkeyErrors]

AppType ==
  [config : ActiveConfigs,
   configState : {"loaded", "missing"} \cup ConfigErrors,
   hotkeyState : {"unregistered", "registered"} \cup HotkeyErrors,
   registered : Capture,                     \* registered_hotkeys
   rejected : Capture,                       \* rejected_hotkeys
   retryIn : 0 .. RetryInterval,             \* registration_retry_at
   configError : {None} \cup ConfigErrors \cup Reasons,   \* last_config_error
   signature : (Contents \ Broken) \cup {"invalid", "unknown"},
   reloadIn : NoDeadline .. Debounce + RetryInterval]     \* reload_deadline

TypeOK ==
  /\ file \in Contents
  /\ service \in {Up} \cup Reasons
  /\ refused \subseteq HotkeySets
  /\ held \in Capture
  /\ app \in AppType
  /\ told \in [hotkeys : {"nothing", "ok"} \cup HotkeyErrors,
               config : {"startup", "ok"} \cup ConfigErrors \cup Reasons]
  /\ events \in Seq(Event)

-----------------------------------------------------------------------------
(* A handler runs on a record of what it can change, and returns it.       *)

Running(a) == [app |-> a, held |-> held, told |-> told, events |-> <<>>]

Return(s) ==
  /\ app' = s.app
  /\ held' = s.held
  /\ told' = s.told
  /\ events' = s.events

TellConfig(s, kind, why) ==
  [s EXCEPT !.events = Append(@, [kind |-> kind, why |-> why]), !.told.config = why]

TellHotkeys(s, kind, why) ==
  [s EXCEPT !.events = Append(@, [kind |-> kind, why |-> why]), !.told.hotkeys = why]

(* The hotkey system replaces its set, refuses it and keeps the one it has, *)
(* or is unavailable: then nothing is known of what it holds, and effect   *)
(* says what became of the old set and of the request.                     *)
Effects == {"kept", "lost", "replaced"}

RegisterAnswer(hotkeys) ==
  IF service # Up THEN service
  ELSE IF hotkeys \in refused THEN "rejected" ELSE "ok"

HeldAfter(kept, hotkeys, effect) ==
  CASE RegisterAnswer(hotkeys) = "ok"       -> hotkeys
    [] RegisterAnswer(hotkeys) = "rejected" -> kept
    [] OTHER -> CASE effect = "kept" -> kept
                  [] effect = "lost" -> None
                  [] OTHER           -> hotkeys

\* A failure is shown once, until the state of the registration changes.
HotkeyFailed(s, why) ==
  IF s.app.hotkeyState = why THEN s
  ELSE TellHotkeys([s EXCEPT !.app.hotkeyState = why], "HotkeysUnavailable", why)

HotkeysRegisteredAs(s, hotkeys) ==
  LET t == [s EXCEPT !.app.registered = hotkeys, !.app.rejected = None,
                     !.app.retryIn = 0, !.app.hotkeyState = "registered"]
  IN IF s.app.hotkeyState \in HotkeyErrors
     THEN TellHotkeys(t, "HotkeysRecovered", "ok")
     ELSE IF hotkeys # HotkeysOf[NoConfig]
          THEN TellHotkeys(t, "HotkeysRegistered", "ok") ELSE t

\* Mutant: a config error is shown at every poll.
ConfigErrorEachTime(s, kind, why) ==
  TellConfig([s EXCEPT !.app.configError = why], kind, why)

\* A config error is shown unless it is the one shown last.
ConfigError(s, kind, why) ==
  IF s.app.configError = why THEN s
  ELSE TellConfig([s EXCEPT !.app.configError = why], kind, why)

\* A missing file means the default config.
ConfigIn(content) == IF content = "missing" THEN NoConfig ELSE content

\* Mutant: a file that went missing keeps the bindings it had.
AppliedKeepingBindings(s, content) ==
  LET missing == content = "missing"
  IN TellConfig([s EXCEPT !.app.config = IF missing THEN @ ELSE content,
                          !.app.configState = IF missing THEN "missing" ELSE "loaded",
                          !.app.configError = None],
                IF missing THEN "ConfigMissing" ELSE "ConfigLoaded", "ok")

ConfigApplied(s, content) ==
  LET missing == content = "missing"
  IN TellConfig([s EXCEPT !.app.config = ConfigIn(content),
                          !.app.configState = IF missing THEN "missing" ELSE "loaded",
                          !.app.configError = None],
                IF missing THEN "ConfigMissing" ELSE "ConfigLoaded", "ok")

ConfigRefused(s) ==
  ConfigError([s EXCEPT !.app.configState = "refused"], "ConfigRejected", "refused")

\* Mutant: the old registration stays on record.
PendingKeepingCapture(s, why) ==
  LET u == HotkeyFailed(ConfigError([s EXCEPT !.app.retryIn = RetryInterval],
                                    "ConfigPending", why), why)
  IN [u EXCEPT !.app.reloadIn = RetryInterval]

ReplacementPending(s, why) ==
  LET t == [s EXCEPT !.app.registered = None, !.app.retryIn = RetryInterval]
      u == HotkeyFailed(ConfigError(t, "ConfigPending", why), why)
  IN [u EXCEPT !.app.reloadIn = RetryInterval]

ApplyLoadedConfig(s, content, effect) ==
  IF content \in Broken
  THEN ConfigError([s EXCEPT !.app.configState = content], "ConfigFailed", content)
  ELSE
  LET hotkeys == HotkeysOf[ConfigIn(content)]
      t == [s EXCEPT !.held = HeldAfter(@, hotkeys, effect)]
  IN CASE s.app.registered = hotkeys -> ConfigApplied(s, content)
       [] s.app.registered # hotkeys /\ RegisterAnswer(hotkeys) = "ok" ->
            ConfigApplied(HotkeysRegisteredAs(t, hotkeys), content)
       [] s.app.registered # hotkeys /\ RegisterAnswer(hotkeys) = "rejected" ->
            ConfigRefused(t)
       [] OTHER -> ReplacementPending(t, RegisterAnswer(hotkeys))

SyncHotkeys(s, effect) ==
  LET wanted == HotkeysOf[s.app.config]
      t == [s EXCEPT !.held = HeldAfter(@, wanted, effect)]
  IN CASE s.app.retryIn > 0 \/ wanted \in {s.app.registered, s.app.rejected} -> s
       [] OTHER ->
          CASE RegisterAnswer(wanted) = "ok" -> HotkeysRegisteredAs(t, wanted)
            [] RegisterAnswer(wanted) = "rejected" ->
                 TellHotkeys([t EXCEPT !.app.rejected = wanted,
                                       !.app.hotkeyState = "rejected"],
                             "HotkeysRejected", "rejected")
            [] OTHER -> HotkeyFailed([t EXCEPT !.app.registered = None,
                                               !.app.retryIn = RetryInterval],
                                     RegisterAnswer(wanted))

-----------------------------------------------------------------------------
(* load_config and poll_config_file.  A content stands for its signature;  *)
(* a read failure forgets it, and is returned without a debounce.          *)

SignatureOf(content) == IF content = "unreadable" THEN "unknown" ELSE content

SeeFile(a) ==
  IF file = "unreadable" THEN [a EXCEPT !.signature = "unknown"]
  ELSE IF a.signature = file THEN a
  ELSE [a EXCEPT !.signature = file, !.configError = None, !.reloadIn = Debounce]

LoadDue(a) == file = "unreadable" \/ SeeFile(a).reloadIn = 0

PollConfigFile(a) ==
  IF file # "unreadable" /\ LoadDue(a)
  THEN [SeeFile(a) EXCEPT !.reloadIn = NoDeadline] ELSE SeeFile(a)

TickResult(s, effect) ==
  LET polled == [s EXCEPT !.app = PollConfigFile(s.app)]
  IN SyncHotkeys(IF LoadDue(s.app) THEN ApplyLoadedConfig(polled, file, effect)
                 ELSE polled, effect)

StartAt(content) ==
  [config |-> IF content \in Configs THEN content ELSE NoConfig,
   configState |-> IF content \in Configs THEN "loaded" ELSE content,
   hotkeyState |-> "unregistered", registered |-> None, rejected |-> None,
   retryIn |-> 0, configError |-> IF content \in Broken THEN content ELSE None,
   signature |-> SignatureOf(content), reloadIn |-> NoDeadline]

-----------------------------------------------------------------------------
(* The handlers of the App.                                                *)

Tick == \E effect \in Effects :
  /\ Return(TickResult(Running(app), effect))
  /\ UNCHANGED environment

Reload == \E effect \in Effects :
  LET loaded == [app EXCEPT !.reloadIn = NoDeadline, !.configError = None,
                            !.signature = SignatureOf(file)]
  IN /\ Return(SyncHotkeys(ApplyLoadedConfig(Running(loaded), file, effect), effect))
     /\ UNCHANGED environment

\* Mutant: the lost registration stays on record.
HotkeysLostOnRecord == \E why \in Reasons :
  /\ app.registered # None
  /\ held = None
  /\ Return(HotkeyFailed(Running([app EXCEPT !.retryIn = 0]), why))
  /\ UNCHANGED environment

\* The press loop of Runtime::poll meets a hotkey system that lost its set.
HotkeysLost == \E why \in Reasons :
  /\ app.registered # None
  /\ held = None
  /\ Return(HotkeyFailed(Running([app EXCEPT !.registered = None, !.retryIn = 0]), why))
  /\ UNCHANGED environment

\* Runtime::restart drops the hotkey system, and so its registration, rebuilds
\* the App from the file, shows its startup event, and ticks.
Restart == \E effect \in Effects :
  /\ Return(TickResult([app |-> StartAt(file), held |-> None, events |-> <<>>,
                        told |-> [hotkeys |-> "nothing", config |-> "startup"]],
                       effect))
  /\ UNCHANGED environment

-----------------------------------------------------------------------------
(* The environment: time, edits of the file, and the hotkey system.        *)

Pass ==
  /\ app.retryIn > 0 \/ app.reloadIn > 0
  /\ app' = [app EXCEPT !.retryIn = IF @ > 0 THEN @ - 1 ELSE 0,
                        !.reloadIn = IF @ > 0 THEN @ - 1 ELSE @]
  /\ events' = <<>>
  /\ UNCHANGED <<environment, held, told>>

EditFile == \E content \in Contents :
  /\ file' = content
  /\ events' = <<>>
  /\ UNCHANGED <<service, refused, held, app, told>>

\* The companion stops, stalls or comes back; a stop loses the registration.
ServiceChanges == \E state \in {Up} \cup Reasons, kept \in {held, None} :
  /\ service' = state
  /\ held' = kept
  /\ events' = <<>>
  /\ UNCHANGED <<file, refused, app, told>>

\* Another program takes or frees accelerators; an empty set is never refused.
RefusalsChange == \E sets \in SUBSET (HotkeySets \ {HotkeysOf[NoConfig]}) :
  /\ refused' = sets
  /\ events' = <<>>
  /\ UNCHANGED <<file, service, held, app, told>>

Init ==
  /\ file \in Contents
  /\ service \in {Up} \cup Reasons
  /\ refused = {}
  /\ held = None
  /\ app = StartAt(file)
  /\ told = [hotkeys |-> "nothing", config |-> "startup"]
  /\ events = <<>>

\* Every step of one session; Restart begins another.
SessionNext ==
  \/ Tick
  \/ Reload
  \/ HotkeysLost
  \/ Pass
  \/ EditFile
  \/ ServiceChanges
  \/ RefusalsChange

Next == SessionNext \/ Restart

Spec == Init /\ [][Next]_vars
SessionSpec == Init /\ [][SessionNext]_vars

\* The runner polls every 50 ms, which ticks and drains the presses; time passes.
Fairness == WF_vars(Tick) /\ WF_vars(HotkeysLost) /\ WF_vars(Pass)
FairSession == SessionSpec /\ Fairness

-----------------------------------------------------------------------------
(* Safety.                                                                 *)

\* The App doc: "The active config and the hotkey system's registered set
\* change together."  The set the App believes registered is the active
\* config's, and the hotkey system holds that one or (when it lost it, and the
\* App has not met the loss yet) none, never another.
RegisteredIsActive ==
  app.registered # None =>
    /\ app.registered = HotkeysOf[app.config]
    /\ held \in {app.registered, None}

\* The state shown on request and the events already shown never disagree: an
\* error in hotkey_state is the last hotkey event the user saw, and Registered
\* follows no unrepaired report of a failure.
ToldMatchesState ==
  /\ app.hotkeyState \in HotkeyErrors => told.hotkeys = app.hotkeyState
  /\ app.hotkeyState \notin HotkeyErrors => told.hotkeys \in {"nothing", "ok"}
  /\ (app.hotkeyState = "registered") <=> (app.registered # None)

\* A replacement reported as pending keeps a reload deadline until it is
\* applied, refused or superseded: no pending replacement is forgotten.
PendingIsScheduled ==
  app.configError \in Reasons => app.reloadIn # NoDeadline

\* "A set the hotkey system refused; not retried until the config changes":
\* the refused set on record is the active config's and nothing is registered
\* over it, so a record of another config's set never blocks a retry.
RefusalIsCurrent ==
  app.rejected # None =>
    /\ app.rejected = HotkeysOf[app.config]
    /\ app.registered = None

\* The App's record of its registration is never at odds with the active config,
\* with the last event shown, or with what it still has to try: the state that
\* poll_config_file, sync_hotkeys and reload leave to each other and to the user.
AppIsConsistent ==
  /\ TypeOK
  /\ RegisteredIsActive
  /\ ToldMatchesState
  /\ PendingIsScheduled
  /\ RefusalIsCurrent

\* "A config whose hotkeys the hotkey system refuses is not applied": within a
\* session the active config and the captured set evolve as the transaction of
\* HotkeyTransaction does, replaced together or not at all.
Transaction == INSTANCE HotkeyTransaction
                 WITH active <- app.config, captured <- app.registered, Nothing <- None
ImplementsTransaction == Transaction!Spec

\* "The App prints runtime events once per change, never per retry": a hotkey
\* event never repeats the failure shown last, and recovery is announced
\* exactly after a failure was.
HotkeyEventsAreTransitions ==
  [][\A i \in DOMAIN events' :
       /\ events'[i].kind \in {"HotkeysRejected", "HotkeysUnavailable"}
            => told.hotkeys # events'[i].why
       /\ events'[i].kind = "HotkeysRecovered" => told.hotkeys \in HotkeyErrors
       /\ events'[i].kind = "HotkeysRegistered" => told.hotkeys \notin HotkeyErrors]_vars

-----------------------------------------------------------------------------
(* Liveness of a session, when from some point on the App is left alone.   *)

LeftAlone == <>[][Tick \/ HotkeysLost \/ Pass]_vars

\* An outage, a broken file or a refused set is reported and then stays quiet.
EventsDryUp == LeftAlone => <>[](events = <<>>)

\* Once the hotkey system answers again it gets the active config's hotkeys back,
\* whatever happened to the file, unless the set itself was refused.
CaptureRecovers ==
  LeftAlone /\ <>[](service = Up)
    => <>[](HotkeysOf[app.config] \in {held, app.rejected})

\* docs/runbooks/running.md: "Hotkey registration failed: ...; retrying - the companion
\* is absent or busy; retried every second."  With the companion back, that is not
\* shown for ever; the code shows it on over a set that it no longer tries.
RetryingEnds ==
  LeftAlone /\ <>[](service = Up) => <>[](app.hotkeyState \notin Reasons)

\* A valid file that stays put is applied, through any number of outages, lost
\* registrations and reloads, unless its hotkeys were refused.
StableFileApplies ==
  \A content \in Configs :
    <>[](file = content /\ service = Up)
      => <>[](app.config = content \/ app.configState = "refused")

\* The App comes to rest on the file: it is applied or refused, and says so once.
AppSettles == HotkeyEventsAreTransitions /\ EventsDryUp /\ StableFileApplies
=============================================================================
