-------------------------- MODULE AppRuntime_proofs --------------------------
(***************************************************************************)
(* The invariants of AppRuntime hold for every set of configs, hotkey sets *)
(* and error messages, and every debounce and retry interval; a session    *)
(* implements HotkeyTransaction.                                           *)
(*                                                                         *)
(* The argument is about the record s a handler runs on.  Typed(s) and     *)
(* Coherent(s) are the invariant of s; each part of a handler (an apply, a *)
(* sync) preserves them, hence so does every handler made of the parts.    *)
(*                                                                         *)
(* Of Surfaces: what is shown follows from the events that a handler       *)
(* makes, so each handler's events are stated beside its new state.        *)
(***************************************************************************)
EXTENDS Surfaces, TLAPS

ToldType == [hotkeys : {"nothing", "ok"} \cup HotkeyErrors,
             config : {"startup", "ok"} \cup ConfigErrors \cup Reasons]

Typed(s) ==
  s \in [app : AppType, held : Capture, told : ToldType, events : Seq(Event)]

CaptureCoherent(s) ==
  /\ s.app.registered # None =>
       /\ s.app.registered = HotkeysOf[s.app.config]
       /\ s.held \in {s.app.registered, None}
  /\ s.app.hotkeyState \in HotkeyErrors => s.told.hotkeys = s.app.hotkeyState
  /\ s.app.hotkeyState \notin HotkeyErrors => s.told.hotkeys \in {"nothing", "ok"}
  /\ (s.app.hotkeyState = "registered") <=> (s.app.registered # None)
  /\ s.app.rejected # None =>
       /\ s.app.rejected = HotkeysOf[s.app.config]
       /\ s.app.registered = None

Scheduled(s) == s.app.configError \in Reasons => s.app.reloadIn # NoDeadline

Coherent(s) == CaptureCoherent(s) /\ Scheduled(s)

State == [app |-> app, held |-> held, told |-> told, events |-> events]

Environment ==
  /\ file \in Contents
  /\ service \in {Up} \cup Reasons
  /\ refused \subseteq HotkeySets

\* The inductive invariant: the type invariant and the four safety invariants,
\* none of which is inductive without the others.
IInv == TypeOK /\ RegisteredIsActive /\ ToldMatchesState /\ PendingIsScheduled
          /\ RefusalIsCurrent

-----------------------------------------------------------------------------
LEMMA InvariantOfState == IInv <=> Environment /\ Typed(State) /\ Coherent(State)
  BY DEF IInv, TypeOK, RegisteredIsActive, ToldMatchesState, PendingIsScheduled,
         RefusalIsCurrent, Environment, Typed, Coherent, CaptureCoherent, Scheduled, State, ToldType

\* The answer of the hotkey system, and what it holds after it.
LEMMA Registration ==
  ASSUME Environment, NEW kept \in Capture, NEW hotkeys \in HotkeySets, NEW effect \in Effects
  PROVE  /\ RegisterAnswer(hotkeys) \in {"ok", "rejected"} \cup Reasons
         /\ HeldAfter(kept, hotkeys, effect) \in Capture
         /\ RegisterAnswer(hotkeys) = "ok" => HeldAfter(kept, hotkeys, effect) = hotkeys
         /\ RegisterAnswer(hotkeys) = "rejected" => HeldAfter(kept, hotkeys, effect) = kept
  BY ConstantsOK DEF Environment, RegisterAnswer, HeldAfter, Effects, Capture, Up

-----------------------------------------------------------------------------
(* What each part of a handler does to the record, field by field.         *)

LEMMA TellHotkeysEffect ==
  ASSUME NEW s, Typed(s), NEW kind, NEW why \in {"nothing", "ok"} \cup HotkeyErrors,
         [kind |-> kind, why |-> why] \in Event
  PROVE  LET r == TellHotkeys(s, kind, why) IN
         /\ Typed(r)
         /\ r.app = s.app /\ r.held = s.held /\ r.told.hotkeys = why
<1>1. [s.told EXCEPT !.hotkeys = why] \in ToldType
  BY DEF Typed, ToldType
<1>2. Append(s.events, [kind |-> kind, why |-> why]) \in Seq(Event)
  BY DEF Typed
<1>3. TellHotkeys(s, kind, why)
        = [s EXCEPT !.events = Append(@, [kind |-> kind, why |-> why]),
                    !.told = [s.told EXCEPT !.hotkeys = why]]
  BY DEF Typed, TellHotkeys
<1> QED BY <1>1, <1>2, <1>3 DEF Typed, ToldType

LEMMA TellConfigEffect ==
  ASSUME NEW s, Typed(s), NEW kind, NEW why \in {"startup", "ok"} \cup ConfigErrors \cup Reasons,
         [kind |-> kind, why |-> why] \in Event
  PROVE  LET r == TellConfig(s, kind, why) IN
         /\ Typed(r)
         /\ r.app = s.app /\ r.held = s.held /\ r.told.hotkeys = s.told.hotkeys
<1>1. [s.told EXCEPT !.config = why] \in ToldType
  BY DEF Typed, ToldType
<1>2. Append(s.events, [kind |-> kind, why |-> why]) \in Seq(Event)
  BY DEF Typed
<1>3. TellConfig(s, kind, why)
        = [s EXCEPT !.events = Append(@, [kind |-> kind, why |-> why]),
                    !.told = [s.told EXCEPT !.config = why]]
  BY DEF Typed, TellConfig
<1> QED BY <1>1, <1>2, <1>3 DEF Typed, ToldType

LEMMA SetApp ==
  ASSUME NEW s, Typed(s), NEW a \in AppType
  PROVE  LET r == [s EXCEPT !.app = a] IN
         /\ Typed(r)
         /\ r.app = a /\ r.held = s.held /\ r.told = s.told
  BY DEF Typed

LEMMA SetHeld ==
  ASSUME NEW s, Typed(s), NEW h \in Capture
  PROVE  LET r == [s EXCEPT !.held = h] IN
         /\ Typed(r)
         /\ r.app = s.app /\ r.held = h /\ r.told = s.told
  BY DEF Typed

LEMMA Deadlines ==
  /\ 0 \in 0 .. RetryInterval
  /\ RetryInterval \in 0 .. RetryInterval
  /\ {NoDeadline, Debounce, RetryInterval} \subseteq NoDeadline .. Debounce + RetryInterval
  /\ RetryInterval # NoDeadline
  BY ConstantsOK DEF NoDeadline

LEMMA RegisteredAsEffect ==
  ASSUME NEW s, Typed(s), NEW hotkeys \in HotkeySets
  PROVE  LET r == HotkeysRegisteredAs(s, hotkeys) IN
         /\ Typed(r)
         /\ r.held = s.held
         /\ r.app.registered = hotkeys /\ r.app.rejected = None
         /\ r.app.hotkeyState = "registered"
         /\ r.app.config = s.app.config /\ r.app.configError = s.app.configError
         /\ r.app.reloadIn = s.app.reloadIn
         /\ r.told.hotkeys \in {s.told.hotkeys, "ok"}
         /\ s.app.hotkeyState \in HotkeyErrors => r.told.hotkeys = "ok"
<1> DEFINE a == [s.app EXCEPT !.registered = hotkeys, !.rejected = None,
                              !.retryIn = 0, !.hotkeyState = "registered"]
           t == [s EXCEPT !.app = a]
<1>1. a \in AppType
  BY Deadlines DEF Typed, AppType, Capture
<1>2. /\ a.registered = hotkeys /\ a.rejected = None /\ a.hotkeyState = "registered"
      /\ a.config = s.app.config /\ a.configError = s.app.configError
      /\ a.reloadIn = s.app.reloadIn
  BY DEF Typed, AppType
<1>3. [s EXCEPT !.app.registered = hotkeys, !.app.rejected = None,
                !.app.retryIn = 0, !.app.hotkeyState = "registered"] = t
  BY DEF Typed, AppType
<1>4. Typed(t) /\ t.app = a /\ t.held = s.held /\ t.told = s.told
  BY <1>1, SetApp
<1>5. \A kind \in {"HotkeysRecovered", "HotkeysRegistered"} :
        [kind |-> kind, why |-> "ok"] \in Event
  BY DEF Event
<1> HIDE DEF a, t
<1>6. \A kind \in {"HotkeysRecovered", "HotkeysRegistered"} :
        LET r == TellHotkeys(t, kind, "ok") IN
        Typed(r) /\ r.app = a /\ r.held = s.held /\ r.told.hotkeys = "ok"
  BY <1>4, <1>5, TellHotkeysEffect
<1> QED BY <1>2, <1>3, <1>4, <1>6 DEF HotkeysRegisteredAs

LEMMA HotkeyFailedEffect ==
  ASSUME NEW s, Typed(s), NEW why \in Reasons,
         s.app.hotkeyState = why => s.told.hotkeys = why
  PROVE  LET r == HotkeyFailed(s, why) IN
         /\ Typed(r)
         /\ r.held = s.held
         /\ r.app = [s.app EXCEPT !.hotkeyState = why]
         /\ r.told.hotkeys = why
<1> DEFINE a == [s.app EXCEPT !.hotkeyState = why]
           t == [s EXCEPT !.app = a]
<1>1. /\ why \in HotkeyErrors
      /\ why \in {"nothing", "ok"} \cup HotkeyErrors
      /\ [kind |-> "HotkeysUnavailable", why |-> why] \in Event
  BY DEF HotkeyErrors, Event
<1>2. a \in AppType
  BY <1>1 DEF Typed, AppType
<1>3. [s EXCEPT !.app.hotkeyState = why] = t
  BY DEF Typed, AppType
<1>4. Typed(t) /\ t.app = a /\ t.held = s.held
  BY <1>2, SetApp
<1>5. s.app.hotkeyState = why => a = s.app
  BY DEF Typed, AppType
<1> HIDE DEF a, t
<1>6. LET r == TellHotkeys(t, "HotkeysUnavailable", why) IN
      Typed(r) /\ r.app = a /\ r.held = s.held /\ r.told.hotkeys = why
  <2>1. Typed(TellHotkeys(t, "HotkeysUnavailable", why))
    BY <1>1, <1>4, TellHotkeysEffect
  <2>2. TellHotkeys(t, "HotkeysUnavailable", why).app = a
    BY <1>1, <1>4, TellHotkeysEffect
  <2>3. TellHotkeys(t, "HotkeysUnavailable", why).told.hotkeys = why
    BY <1>1, <1>4, TellHotkeysEffect
  <2>4. TellHotkeys(t, "HotkeysUnavailable", why).held = s.held
    BY <1>1, <1>4, TellHotkeysEffect
  <2> QED BY <2>1, <2>2, <2>3, <2>4
<1>7. HotkeyFailed(s, why)
        = IF s.app.hotkeyState = why THEN s ELSE TellHotkeys(t, "HotkeysUnavailable", why)
  BY <1>3 DEF HotkeyFailed
<1>8. HotkeyFailed(s, why).app = a
  BY <1>5, <1>6, <1>7
<1> QED BY <1>6, <1>7, <1>8 DEF a

LEMMA ConfigErrorEffect ==
  ASSUME NEW s, Typed(s), NEW kind \in {"ConfigFailed", "ConfigPending", "ConfigRejected"},
         NEW why \in ConfigErrors \cup Reasons
  PROVE  LET r == ConfigError(s, kind, why) IN
         /\ Typed(r)
         /\ r.held = s.held
         /\ r.app = [s.app EXCEPT !.configError = why]
         /\ r.told.hotkeys = s.told.hotkeys
<1> DEFINE a == [s.app EXCEPT !.configError = why]
           t == [s EXCEPT !.app = a]
<1>1. /\ why \in {"startup", "ok"} \cup ConfigErrors \cup Reasons
      /\ [kind |-> kind, why |-> why] \in Event
  BY DEF Event, HotkeyErrors
<1>2. a \in AppType
  BY DEF Typed, AppType
<1>3. [s EXCEPT !.app.configError = why] = t
  BY DEF Typed, AppType
<1>4. Typed(t) /\ t.app = a /\ t.held = s.held /\ t.told = s.told
  BY <1>2, SetApp
<1>5. s.app.configError = why => a = s.app
  BY DEF Typed, AppType
<1> HIDE DEF a, t
<1>6. LET r == TellConfig(t, kind, why) IN
      Typed(r) /\ r.app = a /\ r.held = s.held /\ r.told.hotkeys = s.told.hotkeys
  <2>1. Typed(TellConfig(t, kind, why))
    BY <1>1, <1>4, TellConfigEffect
  <2>2. TellConfig(t, kind, why).app = a
    BY <1>1, <1>4, TellConfigEffect
  <2>3. TellConfig(t, kind, why).told.hotkeys = s.told.hotkeys
    BY <1>1, <1>4, TellConfigEffect
  <2>4. TellConfig(t, kind, why).held = s.held
    BY <1>1, <1>4, TellConfigEffect
  <2> QED BY <2>1, <2>2, <2>3, <2>4
<1>7. ConfigError(s, kind, why)
        = IF s.app.configError = why THEN s ELSE TellConfig(t, kind, why)
  BY <1>3 DEF ConfigError
<1>8. ConfigError(s, kind, why).app = a
  BY <1>5, <1>6, <1>7
<1> QED BY <1>6, <1>7, <1>8 DEF a

LEMMA ConfigAppliedEffect ==
  ASSUME NEW s, Typed(s), NEW content \in Contents \ Broken
  PROVE  LET r == ConfigApplied(s, content) IN
         /\ Typed(r)
         /\ r.held = s.held
         /\ r.app.config = ConfigIn(content) /\ r.app.configError = None
         /\ r.app.registered = s.app.registered /\ r.app.rejected = s.app.rejected
         /\ r.app.hotkeyState = s.app.hotkeyState
         /\ r.told.hotkeys = s.told.hotkeys
<1> DEFINE a == [s.app EXCEPT !.config = ConfigIn(content),
                              !.configState = IF content = "missing" THEN "missing"
                                                                     ELSE "loaded",
                              !.configError = None]
           t == [s EXCEPT !.app = a]
           kind == IF content = "missing" THEN "ConfigMissing" ELSE "ConfigLoaded"
<1>1. /\ [kind |-> kind, why |-> "ok"] \in Event
      /\ ConfigIn(content) \in ActiveConfigs
  BY DEF Event, Contents, ActiveConfigs, ConfigIn
<1>2. a \in AppType
  BY <1>1 DEF Typed, AppType
<1>3. [s EXCEPT !.app.config = ConfigIn(content),
                !.app.configState = IF content = "missing" THEN "missing" ELSE "loaded",
                !.app.configError = None] = t
  BY DEF Typed, AppType
<1>4. Typed(t) /\ t.app = a /\ t.held = s.held /\ t.told = s.told
  BY <1>2, SetApp
<1>5. ConfigApplied(s, content) = TellConfig(t, kind, "ok")
  BY <1>3 DEF ConfigApplied
<1> HIDE DEF a, t, kind
<1>6. Typed(TellConfig(t, kind, "ok"))
  BY <1>1, <1>4, TellConfigEffect
<1>7. TellConfig(t, kind, "ok").app = a
  BY <1>1, <1>4, TellConfigEffect
<1>8. TellConfig(t, kind, "ok").told.hotkeys = s.told.hotkeys
  BY <1>1, <1>4, TellConfigEffect
<1>9. TellConfig(t, kind, "ok").held = s.held
  BY <1>1, <1>4, TellConfigEffect
<1>10. /\ a.config = ConfigIn(content) /\ a.configError = None
       /\ a.registered = s.app.registered /\ a.rejected = s.app.rejected
       /\ a.hotkeyState = s.app.hotkeyState
  BY DEF a, Typed, AppType
<1> QED BY <1>5, <1>6, <1>7, <1>8, <1>9, <1>10

LEMMA ReplacementPendingEffect ==
  ASSUME NEW s, Typed(s), NEW why \in Reasons,
         s.app.hotkeyState = why => s.told.hotkeys = why
  PROVE  LET r == ReplacementPending(s, why) IN
         /\ Typed(r)
         /\ r.held = s.held
         /\ r.app = [s.app EXCEPT !.registered = None, !.retryIn = RetryInterval,
                                  !.configError = why, !.hotkeyState = why,
                                  !.reloadIn = RetryInterval]
         /\ r.told.hotkeys = why
<1> DEFINE a == [s.app EXCEPT !.registered = None, !.retryIn = RetryInterval]
           t == [s EXCEPT !.app = a]
           u == ConfigError(t, "ConfigPending", why)
           v == HotkeyFailed(u, why)
           b == [v.app EXCEPT !.reloadIn = RetryInterval]
<1>1. a \in AppType
  BY Deadlines DEF Typed, AppType, Capture
<1>2. [s EXCEPT !.app.registered = None, !.app.retryIn = RetryInterval] = t
  BY DEF Typed, AppType
<1>3. Typed(t) /\ t.app = a /\ t.held = s.held /\ t.told = s.told
  BY <1>1, SetApp
<1>4. a.hotkeyState = s.app.hotkeyState
  BY DEF Typed, AppType
<1>5. /\ Typed(u) /\ u.held = s.held /\ u.told.hotkeys = s.told.hotkeys
      /\ u.app = [a EXCEPT !.configError = why]
  <2> HIDE DEF t, a
  <2> QED BY <1>3, ConfigErrorEffect DEF u
<1>6. u.app.hotkeyState = s.app.hotkeyState
  BY <1>5, <1>1, <1>4 DEF AppType
<1>7. /\ Typed(v) /\ v.held = s.held /\ v.told.hotkeys = why
      /\ v.app = [u.app EXCEPT !.hotkeyState = why]
  <2> HIDE DEF u
  <2>1. u.app.hotkeyState = why => u.told.hotkeys = why
    BY <1>5, <1>6
  <2>2. Typed(u) /\ u.held = s.held
    BY <1>5
  <2>3. /\ Typed(v) /\ v.held = u.held /\ v.told.hotkeys = why
        /\ v.app = [u.app EXCEPT !.hotkeyState = why]
    BY <2>1, <2>2, HotkeyFailedEffect DEF v
  <2> QED BY <2>2, <2>3
<1>8. b \in AppType
  <2> HIDE DEF v
  <2> QED BY <1>7, Deadlines DEF Typed, AppType
<1>9. ReplacementPending(s, why) = [v EXCEPT !.app = b]
  <2>1. ReplacementPending(s, why) = [v EXCEPT !.app.reloadIn = RetryInterval]
    BY <1>2 DEF ReplacementPending
  <2> HIDE DEF v
  <2> QED BY <2>1, <1>7 DEF Typed, AppType
<1>10. b = [s.app EXCEPT !.registered = None, !.retryIn = RetryInterval,
                         !.configError = why, !.hotkeyState = why,
                         !.reloadIn = RetryInterval]
  <2> HIDE DEF v, u
  <2> QED BY <1>5, <1>7 DEF Typed, AppType
<1> HIDE DEF v, b
<1> QED BY <1>7, <1>8, <1>9, <1>10, SetApp

-----------------------------------------------------------------------------
(* The parts of a handler preserve the invariant and are transactional.    *)

\* A part of a handler that starts with record s and ends with record r either
\* commits a config with its registered set, or keeps the config and at most
\* loses its set.
Transactional(s, r) ==
  \/ r.app.registered = HotkeysOf[r.app.config]
  \/ r.app.config = s.app.config /\ r.app.registered \in {s.app.registered, None}

LEMMA ReasonsApart ==
  /\ Reasons \cap {Up, None, "ok", "rejected", "registered", "unregistered"} = {}
  /\ Reasons \cap ConfigErrors = {}
  /\ Reasons \subseteq HotkeyErrors
  BY ConstantsOK DEF ConfigErrors, Broken, HotkeyErrors

LEMMA SyncPreserves ==
  ASSUME Environment, NEW s, Typed(s), Coherent(s), NEW effect \in Effects
  PROVE  LET r == SyncHotkeys(s, effect) IN
         /\ Typed(r) /\ Coherent(r) /\ r.app.config = s.app.config
         /\ Transactional(s, r)
         /\ s.app.registered # None => r = s
<1> DEFINE wanted == HotkeysOf[s.app.config]
           h == HeldAfter(s.held, wanted, effect)
           t == [s EXCEPT !.held = h]
           r == SyncHotkeys(s, effect)
<1>1. wanted \in HotkeySets /\ wanted # None
  BY ConstantsOK DEF Typed, AppType
<1>2. CASE s.app.retryIn > 0 \/ wanted \in {s.app.registered, s.app.rejected}
  <2>1. r = s
    BY <1>2 DEF SyncHotkeys
  <2> QED BY <2>1 DEF Transactional
<1>3. CASE ~(s.app.retryIn > 0 \/ wanted \in {s.app.registered, s.app.rejected})
  <2>1. s.app.registered = None /\ s.app.rejected = None
    BY <1>3 DEF Coherent, CaptureCoherent
  <2>2. /\ h \in Capture
        /\ RegisterAnswer(wanted) \in {"ok", "rejected"} \cup Reasons
        /\ RegisterAnswer(wanted) = "ok" => h = wanted
    BY <1>1, Registration DEF Typed
  <2>3. Typed(t) /\ t.app = s.app /\ t.held = h /\ t.told = s.told
    BY <2>2, SetHeld
  <2>4. CASE RegisterAnswer(wanted) = "ok"
    <3>1. r = HotkeysRegisteredAs(t, wanted)
      BY <1>3, <2>4 DEF SyncHotkeys
    <3> HIDE DEF t, h, wanted, r
    <3>2. /\ Typed(r) /\ r.held = h
          /\ r.app.registered = wanted /\ r.app.rejected = None
          /\ r.app.hotkeyState = "registered"
          /\ r.app.config = s.app.config /\ r.app.configError = s.app.configError
          /\ r.app.reloadIn = s.app.reloadIn
          /\ r.told.hotkeys \in {s.told.hotkeys, "ok"}
          /\ s.app.hotkeyState \in HotkeyErrors => r.told.hotkeys = "ok"
      BY <3>1, <2>3, <1>1, RegisteredAsEffect
    <3>3. "registered" \notin HotkeyErrors
      BY ReasonsApart DEF HotkeyErrors
    <3> QED BY <3>2, <3>3, <2>1, <2>2, <2>4, <1>1
            DEF Coherent, CaptureCoherent, Scheduled, Transactional, wanted, r
  <2>5. CASE RegisterAnswer(wanted) = "rejected"
    <3> DEFINE a == [s.app EXCEPT !.rejected = wanted, !.hotkeyState = "rejected"]
               u == [t EXCEPT !.app = a]
    <3>1. a \in AppType
      BY <1>1 DEF Typed, AppType, Capture, HotkeyErrors
    <3>2. [t EXCEPT !.app.rejected = wanted, !.app.hotkeyState = "rejected"] = u
      <4> HIDE DEF t
      <4> QED BY <2>3 DEF Typed, AppType
    <3>3. r = TellHotkeys(u, "HotkeysRejected", "rejected")
      BY <1>3, <2>5, <3>2 DEF SyncHotkeys
    <3>4. /\ a.registered = None /\ a.rejected = wanted /\ a.hotkeyState = "rejected"
          /\ a.config = s.app.config /\ a.configError = s.app.configError
          /\ a.reloadIn = s.app.reloadIn
      BY <2>1 DEF Typed, AppType
    <3> HIDE DEF t, h, a, wanted, r
    <3>5. Typed(u) /\ u.app = a /\ u.held = h
      BY <3>1, <2>3, SetApp
    <3>6. /\ "rejected" \in {"nothing", "ok"} \cup HotkeyErrors
          /\ "rejected" \in HotkeyErrors
          /\ [kind |-> "HotkeysRejected", why |-> "rejected"] \in Event
      BY DEF HotkeyErrors, Event
    <3> HIDE DEF u
    <3>7. Typed(r) /\ r.app = a /\ r.told.hotkeys = "rejected"
      BY <3>3, <3>5, <3>6, TellHotkeysEffect
    <3> QED BY <3>4, <3>6, <3>7, <2>1, <1>1
            DEF Coherent, CaptureCoherent, Scheduled, Transactional, wanted, r
  <2>6. CASE RegisterAnswer(wanted) \in Reasons
    <3> DEFINE why == RegisterAnswer(wanted)
               a == [s.app EXCEPT !.registered = None, !.retryIn = RetryInterval]
               u == [t EXCEPT !.app = a]
    <3>1. a \in AppType
      BY Deadlines DEF Typed, AppType, Capture
    <3>2. [t EXCEPT !.app.registered = None, !.app.retryIn = RetryInterval] = u
      <4> HIDE DEF t
      <4> QED BY <2>3 DEF Typed, AppType
    <3>3. why # "ok" /\ why # "rejected" /\ why \in HotkeyErrors
      BY <2>6, ReasonsApart
    <3>4. r = HotkeyFailed(u, why)
      BY <1>3, <3>2, <3>3 DEF SyncHotkeys
    <3>5. /\ a.registered = None /\ a.rejected = None
          /\ a.hotkeyState = s.app.hotkeyState
          /\ a.config = s.app.config /\ a.configError = s.app.configError
          /\ a.reloadIn = s.app.reloadIn
      BY <2>1 DEF Typed, AppType
    <3> HIDE DEF t, h, a, wanted, r, why
    <3>6. Typed(u) /\ u.app = a /\ u.held = h /\ u.told = s.told
      BY <3>1, <2>3, SetApp
    <3> HIDE DEF u
    <3>7. u.app.hotkeyState = why => u.told.hotkeys = why
      BY <3>3, <3>5, <3>6 DEF Coherent, CaptureCoherent
    <3>8. /\ Typed(r) /\ r.app = [a EXCEPT !.hotkeyState = why]
          /\ r.told.hotkeys = why
      BY <3>4, <3>6, <3>7, <2>6, HotkeyFailedEffect DEF why
    <3>9. /\ r.app.registered = None /\ r.app.rejected = None /\ r.app.hotkeyState = why
          /\ r.app.config = s.app.config /\ r.app.configError = s.app.configError
          /\ r.app.reloadIn = s.app.reloadIn
      BY <3>1, <3>5, <3>8 DEF AppType
    <3>10. why # "registered"
      BY <2>6, ReasonsApart DEF why
    <3> QED BY <3>3, <3>8, <3>9, <3>10, <2>1
            DEF Coherent, CaptureCoherent, Scheduled, Transactional, r
  <2> QED BY <2>2, <2>4, <2>5, <2>6
<1> QED BY <1>2, <1>3

\* An apply needs no deadline to be scheduled before it: it schedules its own.
LEMMA ApplyPreserves ==
  ASSUME Environment, NEW s, Typed(s), CaptureCoherent(s),
         NEW content \in Contents, NEW effect \in Effects
  PROVE  LET r == ApplyLoadedConfig(s, content, effect) IN
         Typed(r) /\ Coherent(r) /\ Transactional(s, r)
<1> DEFINE hotkeys == HotkeysOf[ConfigIn(content)]
           answer == RegisterAnswer(hotkeys)
           h == HeldAfter(s.held, hotkeys, effect)
           t == [s EXCEPT !.held = h]
           r == ApplyLoadedConfig(s, content, effect)
<1>1. CASE content \in Broken
  <2> DEFINE a == [s.app EXCEPT !.configState = content]
             u == [s EXCEPT !.app = a]
  <2>1. a \in AppType
    BY <1>1 DEF Typed, AppType, ConfigErrors
  <2>2. [s EXCEPT !.app.configState = content] = u
    BY DEF Typed, AppType
  <2>3. r = ConfigError(u, "ConfigFailed", content)
    BY <1>1, <2>2 DEF ApplyLoadedConfig
  <2>4. /\ a.registered = s.app.registered /\ a.rejected = s.app.rejected
        /\ a.hotkeyState = s.app.hotkeyState /\ a.config = s.app.config
    BY DEF Typed, AppType
  <2> HIDE DEF a, r
  <2>5. Typed(u) /\ u.app = a /\ u.held = s.held /\ u.told = s.told
    BY <2>1, SetApp
  <2>6. content \in ConfigErrors /\ content \notin Reasons
    BY <1>1, ReasonsApart DEF ConfigErrors
  <2> HIDE DEF u
  <2>7. /\ Typed(r) /\ r.held = s.held
        /\ r.app = [a EXCEPT !.configError = content]
        /\ r.told.hotkeys = s.told.hotkeys
    BY <2>3, <2>5, <2>6, ConfigErrorEffect
  <2>8. /\ r.app.registered = s.app.registered /\ r.app.rejected = s.app.rejected
        /\ r.app.hotkeyState = s.app.hotkeyState /\ r.app.config = s.app.config
        /\ r.app.configError = content
    BY <2>1, <2>4, <2>7 DEF AppType
  <2> QED BY <2>6, <2>7, <2>8
          DEF Coherent, CaptureCoherent, Scheduled, Transactional, r
<1>2. CASE content \notin Broken
  <2>1. hotkeys \in HotkeySets /\ hotkeys # None
    BY <1>2, ConstantsOK DEF ConfigIn, Contents, ActiveConfigs
  <2>2. /\ h \in Capture
        /\ answer \in {"ok", "rejected"} \cup Reasons
        /\ answer = "ok" => h = hotkeys
        /\ answer = "rejected" => h = s.held
    BY <2>1, Registration DEF Typed
  <2>3. Typed(t) /\ t.app = s.app /\ t.held = h /\ t.told = s.told
    BY <2>2, SetHeld
  <2>4. None \notin Reasons
    BY ReasonsApart
  <2>5. CASE s.app.registered = hotkeys
    <3>1. r = ConfigApplied(s, content)
      BY <1>2, <2>5 DEF ApplyLoadedConfig
    <3> HIDE DEF r
    <3>2. /\ Typed(r) /\ r.held = s.held /\ r.told.hotkeys = s.told.hotkeys
          /\ r.app.config = ConfigIn(content) /\ r.app.configError = None
          /\ r.app.registered = s.app.registered /\ r.app.rejected = s.app.rejected
          /\ r.app.hotkeyState = s.app.hotkeyState
      BY <1>2, <3>1, ConfigAppliedEffect
    <3> QED BY <3>2, <2>4, <2>5, <2>1
            DEF Coherent, CaptureCoherent, Scheduled, Transactional, r
  <2>6. CASE s.app.registered # hotkeys /\ answer = "ok"
    <3> DEFINE u == HotkeysRegisteredAs(t, hotkeys)
    <3>1. r = ConfigApplied(u, content)
      BY <1>2, <2>6 DEF ApplyLoadedConfig
    <3> HIDE DEF t, r
    <3>2. /\ Typed(u) /\ u.held = h
          /\ u.app.registered = hotkeys /\ u.app.rejected = None
          /\ u.app.hotkeyState = "registered"
          /\ u.told.hotkeys \in {s.told.hotkeys, "ok"}
          /\ s.app.hotkeyState \in HotkeyErrors => u.told.hotkeys = "ok"
      <4> HIDE DEF hotkeys, h
      <4> QED BY <2>3, <2>1, RegisteredAsEffect
    <3> HIDE DEF u
    <3>3. /\ Typed(r) /\ r.held = h /\ r.told.hotkeys = u.told.hotkeys
          /\ r.app.config = ConfigIn(content) /\ r.app.configError = None
          /\ r.app.registered = hotkeys /\ r.app.rejected = None
          /\ r.app.hotkeyState = "registered"
      BY <1>2, <3>1, <3>2, ConfigAppliedEffect
    <3>4. "registered" \notin HotkeyErrors
      BY ReasonsApart DEF HotkeyErrors
    <3> QED BY <3>2, <3>3, <3>4, <2>1, <2>2, <2>4, <2>6
            DEF Coherent, CaptureCoherent, Scheduled, Transactional, r
  <2>7. CASE s.app.registered # hotkeys /\ answer = "rejected"
    <3> DEFINE a == [s.app EXCEPT !.configState = "refused"]
               u == [t EXCEPT !.app = a]
    <3>1. a \in AppType
      BY DEF Typed, AppType, ConfigErrors
    <3>2. [t EXCEPT !.app.configState = "refused"] = u
      <4> HIDE DEF t
      <4> QED BY <2>3 DEF Typed, AppType
    <3>3. r = ConfigError(u, "ConfigRejected", "refused")
      BY <1>2, <2>7, <3>2 DEF ApplyLoadedConfig, ConfigRefused
    <3>4. /\ a.registered = s.app.registered /\ a.rejected = s.app.rejected
          /\ a.hotkeyState = s.app.hotkeyState /\ a.config = s.app.config
      BY DEF Typed, AppType
    <3> HIDE DEF t, a, r
    <3>5. Typed(u) /\ u.app = a /\ u.held = h /\ u.told = s.told
      BY <3>1, <2>3, SetApp
    <3>6. "refused" \in ConfigErrors /\ "refused" \notin Reasons
      BY ReasonsApart DEF ConfigErrors
    <3> HIDE DEF u
    <3>7. /\ Typed(r) /\ r.held = h
          /\ r.app = [a EXCEPT !.configError = "refused"]
          /\ r.told.hotkeys = s.told.hotkeys
      BY <3>3, <3>5, <3>6, ConfigErrorEffect
    <3>8. /\ r.app.registered = s.app.registered /\ r.app.rejected = s.app.rejected
          /\ r.app.hotkeyState = s.app.hotkeyState /\ r.app.config = s.app.config
          /\ r.app.configError = "refused"
      BY <3>1, <3>4, <3>7 DEF AppType
    <3> QED BY <3>6, <3>7, <3>8, <2>2, <2>7
            DEF Coherent, CaptureCoherent, Scheduled, Transactional, r
  <2>8. CASE s.app.registered # hotkeys /\ answer \in Reasons
    <3>1. answer # "ok" /\ answer # "rejected" /\ answer # "registered"
          /\ answer \in HotkeyErrors
      BY <2>8, ReasonsApart
    <3>2. r = ReplacementPending(t, answer)
      BY <1>2, <2>8, <3>1 DEF ApplyLoadedConfig
    <3> HIDE DEF t, r, h, answer, hotkeys
    <3>3. t.app.hotkeyState = answer => t.told.hotkeys = answer
      BY <3>1, <2>3 DEF CaptureCoherent
    <3>4. /\ Typed(r) /\ r.held = h /\ r.told.hotkeys = answer
          /\ r.app = [t.app EXCEPT !.registered = None, !.retryIn = RetryInterval,
                                  !.configError = answer, !.hotkeyState = answer,
                                  !.reloadIn = RetryInterval]
      <4>1. Typed(t) /\ answer \in Reasons /\ t.held = h
        BY <2>3, <2>8
      <4>2. LET q == ReplacementPending(t, answer) IN
            /\ Typed(q) /\ q.held = t.held /\ q.told.hotkeys = answer
            /\ q.app = [t.app EXCEPT !.registered = None, !.retryIn = RetryInterval,
                                    !.configError = answer, !.hotkeyState = answer,
                                    !.reloadIn = RetryInterval]
        BY <3>3, <4>1, ReplacementPendingEffect
      <4> QED BY <3>2, <4>1, <4>2
    <3>5. /\ r.app.registered = None /\ r.app.rejected = s.app.rejected
          /\ r.app.hotkeyState = answer /\ r.app.config = s.app.config
          /\ r.app.configError = answer /\ r.app.reloadIn = RetryInterval
      BY <3>4, <2>3 DEF Typed, AppType
    <3> QED BY <3>1, <3>4, <3>5, Deadlines
            DEF Coherent, CaptureCoherent, Scheduled, Transactional, r
  <2> QED BY <2>2, <2>5, <2>6, <2>7, <2>8
<1> QED BY <1>1, <1>2

LEMMA ThenSync ==
  ASSUME Environment, NEW s, Typed(s), NEW u, Typed(u), Coherent(u),
         Transactional(s, u), NEW effect \in Effects
  PROVE  LET r == SyncHotkeys(u, effect) IN
         Typed(r) /\ Coherent(r) /\ Transactional(s, r)
<1> DEFINE r == SyncHotkeys(u, effect)
<1>1. /\ Typed(r) /\ Coherent(r) /\ r.app.config = u.app.config
      /\ Transactional(u, r)
      /\ u.app.registered # None => r = u
  BY SyncPreserves
<1>2. HotkeysOf[u.app.config] # None
  BY ConstantsOK DEF Typed, AppType
<1> HIDE DEF r
<1>3. CASE u.app.registered # None
  BY <1>1, <1>3 DEF r
<1>4. CASE u.app.registered = None
  BY <1>1, <1>2, <1>4 DEF Transactional, r
<1> QED BY <1>3, <1>4

\* Polling the file touches neither the config nor the capture.
LEMMA PollEffect ==
  ASSUME Environment, NEW a \in AppType
  PROVE  LET b == PollConfigFile(a) IN
         /\ b \in AppType
         /\ b.config = a.config /\ b.registered = a.registered
         /\ b.rejected = a.rejected /\ b.hotkeyState = a.hotkeyState
         /\ ~LoadDue(a) /\ (a.configError \in Reasons => a.reloadIn # NoDeadline)
              => (b.configError \in Reasons => b.reloadIn # NoDeadline)
<1> DEFINE b == SeeFile(a)
<1>1. file # "unreadable" => file \in (Contents \ Broken) \cup {"invalid", "unknown"}
  BY DEF Environment, Broken
<1>2. /\ b \in AppType
      /\ b.config = a.config /\ b.registered = a.registered
      /\ b.rejected = a.rejected /\ b.hotkeyState = a.hotkeyState
      /\ file # "unreadable" /\ (a.configError \in Reasons => a.reloadIn # NoDeadline)
           => (b.configError \in Reasons => b.reloadIn # NoDeadline)
  <2>1. CASE file = "unreadable"
    BY <2>1 DEF SeeFile, AppType
  <2>2. CASE file # "unreadable" /\ a.signature = file
    BY <2>2 DEF SeeFile
  <2>3. CASE file # "unreadable" /\ a.signature # file
    <3>1. b = [a EXCEPT !.signature = file, !.configError = None, !.reloadIn = Debounce]
      BY <2>3 DEF SeeFile
    <3>2. b \in AppType
      BY <3>1, <2>3, <1>1, Deadlines DEF AppType
    <3>3. /\ b.config = a.config /\ b.registered = a.registered
          /\ b.rejected = a.rejected /\ b.hotkeyState = a.hotkeyState
          /\ b.configError = None
      BY <3>1 DEF AppType
    <3> QED BY <3>2, <3>3, ReasonsApart
  <2> QED BY <2>1, <2>2, <2>3
<1> HIDE DEF b
<1>3. [b EXCEPT !.reloadIn = NoDeadline] \in AppType
  BY <1>2, Deadlines DEF AppType
<1>4. CASE file # "unreadable" /\ LoadDue(a)
  BY <1>2, <1>3, <1>4 DEF PollConfigFile, AppType, b
<1>5. CASE ~(file # "unreadable" /\ LoadDue(a))
  BY <1>2, <1>5 DEF PollConfigFile, LoadDue, b
<1> QED BY <1>4, <1>5

LEMMA TickPreserves ==
  ASSUME Environment, NEW s, Typed(s), Coherent(s), NEW effect \in Effects
  PROVE  LET r == TickResult(s, effect) IN
         Typed(r) /\ Coherent(r) /\ Transactional(s, r)
<1> DEFINE b == PollConfigFile(s.app)
           polled == [s EXCEPT !.app = b]
           applied == ApplyLoadedConfig(polled, file, effect)
<1>1. s.app \in AppType /\ (s.app.configError \in Reasons => s.app.reloadIn # NoDeadline)
  BY DEF Typed, Coherent, Scheduled
<1>2. /\ b \in AppType
      /\ b.config = s.app.config /\ b.registered = s.app.registered
      /\ b.rejected = s.app.rejected /\ b.hotkeyState = s.app.hotkeyState
      /\ ~LoadDue(s.app) => (b.configError \in Reasons => b.reloadIn # NoDeadline)
  BY <1>1, PollEffect
<1>3. TickResult(s, effect)
        = SyncHotkeys(IF LoadDue(s.app) THEN applied ELSE polled, effect)
  BY DEF TickResult
<1> HIDE DEF b
<1>4. Typed(polled) /\ polled.app = b /\ polled.held = s.held /\ polled.told = s.told
  BY <1>2, SetApp
<1> HIDE DEF polled
<1>5. CaptureCoherent(polled) /\ Transactional(s, polled)
  BY <1>2, <1>4 DEF Coherent, CaptureCoherent, Transactional
<1>6. CASE LoadDue(s.app)
  <2>1. Typed(applied) /\ Coherent(applied) /\ Transactional(polled, applied)
    BY <1>4, <1>5, ApplyPreserves DEF Environment
  <2> HIDE DEF applied
  <2>2. Transactional(s, applied)
    BY <1>2, <1>4, <2>1 DEF Transactional
  <2> QED BY <1>3, <1>6, <2>1, <2>2, ThenSync
<1>7. CASE ~LoadDue(s.app)
  <2>1. Coherent(polled)
    BY <1>2, <1>4, <1>5, <1>7 DEF Coherent, Scheduled
  <2> QED BY <1>3, <1>4, <1>5, <1>7, <2>1, ThenSync
<1> QED BY <1>6, <1>7

LEMMA StartIsCoherent ==
  ASSUME NEW content \in Contents
  PROVE  LET s == [app |-> StartAt(content), held |-> None, events |-> <<>>,
                   told |-> [hotkeys |-> "nothing", config |-> "startup"]]
         IN Typed(s) /\ Coherent(s)
<1> DEFINE a == StartAt(content)
<1>1. a \in AppType
  <2>1. SignatureOf(content) \in (Contents \ Broken) \cup {"invalid", "unknown"}
    BY DEF SignatureOf, Broken
  <2>2. (IF content \in Configs THEN content ELSE NoConfig) \in ActiveConfigs
    BY DEF ActiveConfigs
  <2>3. (IF content \in Configs THEN "loaded" ELSE content)
          \in {"loaded", "missing"} \cup ConfigErrors
    BY DEF Contents, ConfigErrors
  <2>4. (IF content \in Broken THEN content ELSE None) \in {None} \cup ConfigErrors \cup Reasons
    BY DEF ConfigErrors
  <2>5. None \in Capture /\ NoDeadline \in NoDeadline .. Debounce + RetryInterval
    BY Deadlines DEF Capture
  <2> QED BY <2>1, <2>2, <2>3, <2>4, <2>5, Deadlines DEF StartAt, AppType
<1>2. /\ a.registered = None /\ a.rejected = None /\ a.hotkeyState = "unregistered"
      /\ a.configError = (IF content \in Broken THEN content ELSE None)
  BY DEF StartAt
<1>3. "unregistered" \notin HotkeyErrors /\ None \notin Reasons /\ Broken \cap Reasons = {}
  BY ReasonsApart DEF HotkeyErrors, ConfigErrors
<1> HIDE DEF a
<1>4. [hotkeys |-> "nothing", config |-> "startup"] \in ToldType
  BY DEF ToldType
<1>5. None \in Capture /\ <<>> \in Seq(Event)
  BY DEF Capture
<1> QED BY <1>1, <1>2, <1>3, <1>4, <1>5
        DEF Typed, Coherent, CaptureCoherent, Scheduled, a

-----------------------------------------------------------------------------
(* The handlers, as steps of the specification.                            *)

LEMMA RunningIsCoherent ==
  ASSUME IInv
  PROVE  /\ Environment /\ app \in AppType
         /\ Typed(Running(app)) /\ Coherent(Running(app))
<1>1. Environment /\ Typed(State) /\ Coherent(State)
  BY InvariantOfState
<1>2. app \in AppType /\ held \in Capture /\ told \in ToldType
  BY <1>1 DEF Typed, State
<1>3. <<>> \in Seq(Event)
  OBVIOUS
<1>4. Typed(Running(app))
  BY <1>2, <1>3 DEF Typed, Running
<1>5. Coherent(Running(app))
  BY <1>1 DEF Coherent, CaptureCoherent, Scheduled, State, Running
<1> QED BY <1>1, <1>2, <1>4, <1>5

LEMMA ReturnPreserves ==
  ASSUME Environment, UNCHANGED environment,
         NEW r, Typed(r), Coherent(r), Return(r)
  PROVE  IInv'
<1>1. Environment'
  BY DEF Environment, environment
<1>2. /\ app' = r.app /\ held' = r.held /\ told' = r.told /\ events' = r.events
  BY DEF Return
<1>3. State' = [app |-> r.app, held |-> r.held, told |-> r.told, events |-> r.events]
  BY <1>2 DEF State
<1>4. State' = r
  BY <1>3 DEF Typed
<1>5. Typed(State') /\ Coherent(State')
  BY <1>4
<1>6. IInv' <=> Environment' /\ Typed(State)' /\ Coherent(State)'
  BY InvariantOfState, PTL
<1>7. Typed(State)' /\ Coherent(State)'
  BY <1>5 DEF Typed, Coherent, CaptureCoherent, Scheduled, ToldType, AppType, Capture,
              HotkeyErrors, ConfigErrors, Event, ActiveConfigs, Contents, Broken
<1> QED BY <1>1, <1>6, <1>7

\* A handler whose record is transactional is a step of HotkeyTransaction.
LEMMA ReturnIsTransactional ==
  ASSUME NEW s, s.app.config = app.config,
         s.app.registered \in {app.registered, None},
         NEW r, Typed(r), Transactional(s, r), Return(r)
  PROVE  [Transaction!Next]_<<app.config, app.registered>>
<1>1. app'.config = r.app.config /\ app'.registered = r.app.registered
  BY DEF Return
<1>2. r.app.config \in Configs \cup {NoConfig}
  BY DEF Typed, AppType, ActiveConfigs
<1>3. CASE r.app.registered = HotkeysOf[r.app.config]
  <2>1. Transaction!Commit
    BY <1>1, <1>2, <1>3 DEF Transaction!Commit
  <2> QED BY <2>1 DEF Transaction!Next
<1>4. CASE r.app.config = s.app.config /\ r.app.registered \in {s.app.registered, None}
  <2>1. app'.config = app.config /\ app'.registered \in {app.registered, None}
    BY <1>1, <1>4
  <2>2. CASE app'.registered = None
    BY <2>1, <2>2 DEF Transaction!Next, Transaction!Lose
  <2>3. CASE app'.registered = app.registered
    BY <2>1, <2>3
  <2> QED BY <2>1, <2>2, <2>3
<1> QED BY <1>3, <1>4 DEF Transactional

LEMMA TickStep ==
  ASSUME IInv, Tick
  PROVE  IInv' /\ [Transaction!Next]_<<app.config, app.registered>>
<1>1. PICK effect \in Effects : Return(TickResult(Running(app), effect))
  BY DEF Tick
<1>2. UNCHANGED environment
  BY DEF Tick
<1> DEFINE s == Running(app)
           r == TickResult(s, effect)
<1>3. Environment /\ Typed(s) /\ Coherent(s)
  BY RunningIsCoherent
<1>4. s.app = app
  BY DEF Running
<1> HIDE DEF s
<1>5. Typed(r) /\ Coherent(r) /\ Transactional(s, r)
  BY <1>3, TickPreserves
<1>6. Return(r)
  BY <1>1 DEF s
<1> HIDE DEF r
<1>7. IInv'
  BY <1>2, <1>3, <1>5, <1>6, ReturnPreserves
<1> QED BY <1>4, <1>5, <1>6, <1>7, ReturnIsTransactional

LEMMA ReloadStep ==
  ASSUME IInv, Reload
  PROVE  IInv' /\ [Transaction!Next]_<<app.config, app.registered>>
<1> DEFINE loaded == [app EXCEPT !.reloadIn = NoDeadline, !.configError = None,
                                 !.signature = SignatureOf(file)]
           s == Running(loaded)
<1>1. PICK effect \in Effects :
        Return(SyncHotkeys(ApplyLoadedConfig(s, file, effect), effect))
  BY DEF Reload
<1>2. UNCHANGED environment
  BY DEF Reload
<1>3. /\ Environment /\ app \in AppType
      /\ Typed(Running(app)) /\ Coherent(Running(app))
  BY RunningIsCoherent
<1>4. loaded \in AppType
  <2>1. SignatureOf(file) \in (Contents \ Broken) \cup {"invalid", "unknown"}
    BY <1>3 DEF Environment, SignatureOf, Broken
  <2> QED BY <2>1, <1>3, Deadlines DEF AppType
<1>5. /\ loaded.config = app.config /\ loaded.registered = app.registered
      /\ loaded.rejected = app.rejected /\ loaded.hotkeyState = app.hotkeyState
  BY <1>3 DEF AppType
<1> HIDE DEF loaded
<1>6. /\ s.app = loaded /\ Running(app).app = app
      /\ s.held = Running(app).held /\ s.told = Running(app).told
  BY DEF Running
<1>7. Typed(s)
  BY <1>3, <1>4 DEF Typed, Running
<1>8. CaptureCoherent(s)
  BY <1>3, <1>5, <1>6 DEF Coherent, CaptureCoherent
<1> DEFINE u == ApplyLoadedConfig(s, file, effect)
           r == SyncHotkeys(u, effect)
<1>9. Return(r)
  BY <1>1
<1> HIDE DEF s
<1>10. Typed(u) /\ Coherent(u) /\ Transactional(s, u)
  BY <1>3, <1>7, <1>8, ApplyPreserves DEF Environment
<1> HIDE DEF u
<1>11. Typed(r) /\ Coherent(r) /\ Transactional(s, r)
  BY <1>3, <1>7, <1>10, ThenSync
<1> HIDE DEF r
<1>12. IInv'
  BY <1>2, <1>3, <1>9, <1>11, ReturnPreserves
<1> QED BY <1>5, <1>6, <1>9, <1>11, <1>12, ReturnIsTransactional

LEMMA HotkeysLostStep ==
  ASSUME IInv, HotkeysLost
  PROVE  IInv' /\ [Transaction!Next]_<<app.config, app.registered>>
<1> DEFINE a == [app EXCEPT !.registered = None, !.retryIn = 0]
           s == Running(a)
<1>1. PICK why \in Reasons : Return(HotkeyFailed(s, why))
  BY DEF HotkeysLost
<1>2. UNCHANGED environment /\ app.registered # None
  BY DEF HotkeysLost
<1>3. /\ Environment /\ app \in AppType
      /\ Typed(Running(app)) /\ Coherent(Running(app))
  BY RunningIsCoherent
<1>4. a \in AppType
  BY <1>3, Deadlines DEF AppType, Capture
<1>5. /\ a.config = app.config /\ a.registered = None
      /\ a.rejected = app.rejected /\ a.hotkeyState = app.hotkeyState
      /\ a.configError = app.configError /\ a.reloadIn = app.reloadIn
  BY <1>3 DEF AppType
<1> DEFINE r == HotkeyFailed(s, why)
<1>6. Return(r)
  BY <1>1
<1> HIDE DEF a
<1>7. /\ s.app = a /\ Running(app).app = app
      /\ s.held = Running(app).held /\ s.told = Running(app).told
  BY DEF Running
<1>8. Typed(s)
  BY <1>3, <1>4 DEF Typed, Running
<1>9. app.hotkeyState = "registered"
  BY <1>2, <1>3, <1>7 DEF Coherent, CaptureCoherent
<1>10. why # "registered" /\ why \in HotkeyErrors
  BY ReasonsApart
<1> HIDE DEF s
<1>11. s.app.hotkeyState = why => s.told.hotkeys = why
  BY <1>5, <1>7, <1>9, <1>10
<1>12. /\ Typed(r) /\ r.app = [s.app EXCEPT !.hotkeyState = why]
       /\ r.told.hotkeys = why
  BY <1>8, <1>11, HotkeyFailedEffect
<1> HIDE DEF r
<1>13. /\ r.app.config = app.config /\ r.app.registered = None
       /\ r.app.rejected = app.rejected /\ r.app.hotkeyState = why
       /\ r.app.configError = app.configError /\ r.app.reloadIn = app.reloadIn
  BY <1>4, <1>5, <1>7, <1>12 DEF AppType
<1>14. Coherent(r)
  BY <1>3, <1>7, <1>10, <1>12, <1>13 DEF Coherent, CaptureCoherent, Scheduled
<1>15. Transactional(s, r)
  BY <1>5, <1>7, <1>13 DEF Transactional
<1>16. IInv'
  BY <1>2, <1>3, <1>6, <1>12, <1>14, ReturnPreserves
<1> QED BY <1>5, <1>6, <1>7, <1>12, <1>15, <1>16, ReturnIsTransactional

LEMMA RestartStep ==
  ASSUME IInv, Restart
  PROVE  IInv'
<1> DEFINE s == [app |-> StartAt(file), held |-> None, events |-> <<>>,
                 told |-> [hotkeys |-> "nothing", config |-> "startup"]]
<1>1. PICK effect \in Effects : Return(TickResult(s, effect))
  BY DEF Restart
<1>2. UNCHANGED environment
  BY DEF Restart
<1>3. Environment
  BY RunningIsCoherent
<1>4. Typed(s) /\ Coherent(s)
  BY <1>3, StartIsCoherent DEF Environment
<1> HIDE DEF s
<1>5. Typed(TickResult(s, effect)) /\ Coherent(TickResult(s, effect))
  BY <1>3, <1>4, TickPreserves
<1> QED BY <1>1, <1>2, <1>3, <1>5, ReturnPreserves

LEMMA PassStep ==
  ASSUME IInv, Pass
  PROVE  IInv' /\ UNCHANGED <<app.config, app.registered>>
<1> DEFINE a == [app EXCEPT !.retryIn = IF @ > 0 THEN @ - 1 ELSE 0,
                            !.reloadIn = IF @ > 0 THEN @ - 1 ELSE @]
<1>1. app' = a /\ events' = <<>> /\ UNCHANGED <<environment, held, told>>
  BY DEF Pass
<1>2. /\ Environment /\ app \in AppType
      /\ Typed(Running(app)) /\ Coherent(Running(app))
  BY RunningIsCoherent
<1>3. /\ \A n \in 0 .. RetryInterval :
           (IF n > 0 THEN n - 1 ELSE 0) \in 0 .. RetryInterval
      /\ \A n \in NoDeadline .. Debounce + RetryInterval :
           /\ (IF n > 0 THEN n - 1 ELSE n) \in NoDeadline .. Debounce + RetryInterval
           /\ n # NoDeadline => (IF n > 0 THEN n - 1 ELSE n) # NoDeadline
  BY ConstantsOK DEF NoDeadline
<1>4. a \in AppType
  BY <1>2, <1>3 DEF AppType
<1>5. /\ a.config = app.config /\ a.registered = app.registered
      /\ a.rejected = app.rejected /\ a.hotkeyState = app.hotkeyState
      /\ a.configError = app.configError
      /\ app.reloadIn # NoDeadline => a.reloadIn # NoDeadline
  BY <1>2, <1>3 DEF AppType
<1> HIDE DEF a
<1>6. Typed(Running(a))
  BY <1>2, <1>4 DEF Typed, Running
<1>7. Coherent(Running(a))
  BY <1>2, <1>5 DEF Coherent, CaptureCoherent, Scheduled, Running
<1>8. Return(Running(a))
  BY <1>1 DEF Return, Running
<1>9. IInv'
  BY <1>1, <1>2, <1>6, <1>7, <1>8, ReturnPreserves
<1> QED BY <1>1, <1>5, <1>9

\* Edits, outages and refusals change nothing the App holds.
LEMMA EnvironmentStep ==
  ASSUME IInv, EditFile \/ ServiceChanges \/ RefusalsChange
  PROVE  IInv' /\ UNCHANGED <<app.config, app.registered>>
<1>1. UNCHANGED <<app, told>> /\ events' = <<>> /\ held' \in {held, None}
  BY DEF EditFile, ServiceChanges, RefusalsChange
<1>2. file' \in Contents /\ service' \in {Up} \cup Reasons /\ refused' \subseteq HotkeySets
  BY DEF EditFile, ServiceChanges, RefusalsChange, IInv, TypeOK
<1>3. TypeOK'
  BY <1>1, <1>2 DEF IInv, TypeOK, Capture
<1>4. RegisteredIsActive' /\ ToldMatchesState' /\ PendingIsScheduled' /\ RefusalIsCurrent'
  BY <1>1 DEF IInv, RegisteredIsActive, ToldMatchesState, PendingIsScheduled,
              RefusalIsCurrent
<1> QED BY <1>1, <1>3, <1>4 DEF IInv

LEMMA SessionStep ==
  ASSUME IInv, [SessionNext]_vars
  PROVE  IInv' /\ [Transaction!Next]_<<app.config, app.registered>>
<1>1. CASE Tick
  BY <1>1, TickStep
<1>2. CASE Reload
  BY <1>2, ReloadStep
<1>3. CASE HotkeysLost
  BY <1>3, HotkeysLostStep
<1>4. CASE Pass
  BY <1>4, PassStep
<1>5. CASE EditFile \/ ServiceChanges \/ RefusalsChange
  BY <1>5, EnvironmentStep
<1>6. CASE UNCHANGED vars
  <2>1. IInv'
    BY <1>6 DEF vars, IInv, TypeOK, RegisteredIsActive, ToldMatchesState,
                PendingIsScheduled, RefusalIsCurrent
  <2> QED BY <2>1, <1>6 DEF vars
<1> QED BY <1>1, <1>2, <1>3, <1>4, <1>5, <1>6 DEF SessionNext

LEMMA InitialInvariant == Init => IInv
<1> SUFFICES ASSUME Init PROVE IInv
  OBVIOUS
<1>1. Environment
  BY DEF Init, Environment
<1> DEFINE s == [app |-> StartAt(file), held |-> None, events |-> <<>>,
                 told |-> [hotkeys |-> "nothing", config |-> "startup"]]
<1>2. Typed(s) /\ Coherent(s)
  BY StartIsCoherent DEF Init
<1>3. State = s
  BY DEF Init, State
<1> HIDE DEF s
<1> QED BY <1>1, <1>2, <1>3, InvariantOfState

-----------------------------------------------------------------------------
\* The inductive invariant holds in every state the App reaches, restarts
\* included.
THEOREM Invariance == Spec => []IInv
<1>1. IInv /\ [Next]_vars => IInv'
  BY SessionStep, RestartStep DEF Next
<1> QED BY <1>1, InitialInvariant, PTL DEF Spec

\* Every variable keeps its type: no deadline leaves its range, no error of one
\* kind is stored as another.
THEOREM TypeCorrectness == Spec => []TypeOK
  BY Invariance, PTL DEF IInv

\* The set the App believes registered is the active config's, and the hotkey
\* system never holds another one ("change together", the doc of App).
THEOREM RegistrationMatchesConfig == Spec => []RegisteredIsActive
  BY Invariance, PTL DEF IInv

\* The state of the registration and the last hotkey event shown agree.
THEOREM EventsTellTheState == Spec => []ToldMatchesState
  BY Invariance, PTL DEF IInv

\* A replacement reported as pending always has a deadline for its next try.
THEOREM PendingNeverForgotten == Spec => []PendingIsScheduled
  BY Invariance, PTL DEF IInv

\* All of these together: what the App records of its registration agrees with
\* the active config, the events shown and the tries it owes.
THEOREM RecordsAgree == Spec => []AppIsConsistent
  BY Invariance, PTL DEF IInv, AppIsConsistent

\* A recorded refusal is the active config's, so it blocks no other retry.
THEOREM RefusalNeverStale == Spec => []RefusalIsCurrent
  BY Invariance, PTL DEF IInv

\* A session implements HotkeyTransaction: config and captured hotkeys are
\* replaced together or not at all.
THEOREM SessionIsTransactional == SessionSpec => ImplementsTransaction
<1>1. Init => Transaction!Init
  <2> SUFFICES ASSUME Init PROVE Transaction!Init
    OBVIOUS
  <2>1. app.config \in Configs \cup {NoConfig} /\ app.registered = None
    BY DEF Init, StartAt
  <2> QED BY <2>1 DEF Transaction!Init
<1>2. IInv /\ [SessionNext]_vars => IInv' /\ [Transaction!Next]_<<app.config, app.registered>>
  BY SessionStep
<1> QED BY <1>1, <1>2, InitialInvariant, PTL
        DEF SessionSpec, ImplementsTransaction, Transaction!Spec


-----------------------------------------------------------------------------
(* The surfaces: what the notifications and the tray make of the events.   *)
(* Each part of a handler is followed once more, for what it tells.        *)

Notes == [outage : NoOutage .. Grace, shown : Kinds \cup {None}]

BadNews == {"ConfigFailed", "ConfigPending", "ConfigRejected"}
GoodNews == {"HotkeysRegistered", "HotkeysRecovered"}

LEMMA PolicyEffect ==
  ASSUME NEW n \in Notes, NEW e \in Event
  PROVE  LET m == PolicyEvent(n, e) IN
         /\ m \in Notes
         /\ e.kind = "HotkeysUnavailable" => m.outage # NoOutage /\ m.shown = n.shown
         /\ e.kind \in BadNews => m.outage = n.outage /\ m.shown = "config"
         /\ e.kind = "HotkeysRejected" => m.shown = "hotkeys"
         /\ e.kind = "ConfigLoaded" =>
              /\ m.outage = n.outage
              /\ m.shown = IF n.shown = "config" THEN None ELSE n.shown
         /\ e.kind \in GoodNews =>
              m.shown = IF n.shown = "hotkeys" THEN None ELSE n.shown
         /\ e.kind = "ConfigMissing" => m = n
<1> DEFINE m == PolicyEvent(n, e)
<1>1. 0 \in NoOutage .. Grace /\ NoOutage \in NoOutage .. Grace /\ NoOutage # 0
  BY GraceOK DEF NoOutage
<1>2. CASE e.kind = "HotkeysUnavailable"
  <2>1. m = [n EXCEPT !.outage = IF @ = NoOutage THEN 0 ELSE @]
    BY <1>2 DEF PolicyEvent
  <2>2. QED
    BY <1>1, <1>2, <2>1 DEF Notes, BadNews, GoodNews
<1>3. CASE e.kind \in BadNews
  <2>1. m = [n EXCEPT !.shown = "config"]
    BY <1>3 DEF PolicyEvent, Problem, BadNews
  <2>2. QED
    BY <1>3, <2>1 DEF Notes, BadNews, GoodNews, Kinds
<1>4. CASE e.kind = "HotkeysRejected"
  <2>1. m = [[n EXCEPT !.outage = NoOutage] EXCEPT !.shown = "hotkeys"]
    BY <1>4 DEF PolicyEvent, Problem
  <2>2. QED
    BY <1>1, <1>4, <2>1 DEF Notes, BadNews, GoodNews, Kinds
<1>5. CASE e.kind = "ConfigLoaded"
  <2>1. m = IF n.shown = "config" THEN [n EXCEPT !.shown = None] ELSE n
    BY <1>5 DEF PolicyEvent, Resolves
  <2>2. QED
    BY <1>5, <2>1 DEF Notes, BadNews, GoodNews, Kinds
<1>6. CASE e.kind \in GoodNews
  <2>1. m = Resolves([n EXCEPT !.outage = NoOutage], "hotkeys")
    BY <1>6 DEF PolicyEvent, GoodNews
  <2>2. QED
    BY <1>1, <1>6, <2>1 DEF Notes, BadNews, GoodNews, Kinds, Resolves
<1>7. CASE e.kind = "ConfigMissing"
  BY <1>7 DEF PolicyEvent, BadNews, GoodNews
<1>8. QED
  BY <1>2, <1>3, <1>4, <1>5, <1>6, <1>7 DEF Event, BadNews, GoodNews

\* The policy hears what is added last after all the rest, and what is put first before it.
LEMMA HearsLast ==
  ASSUME NEW n, NEW q \in Seq(Event), Len(q) <= 3, NEW e \in Event
  PROVE  /\ Hears(n, Append(q, e)) = PolicyEvent(Hears(n, q), e)
         /\ Len(Append(q, e)) = Len(q) + 1
<1> DEFINE p == Append(q, e)
<1>1. /\ Len(p) = Len(q) + 1 /\ p[Len(q) + 1] = e
      /\ \A i \in 1 .. Len(q) : p[i] = q[i]
  OBVIOUS
<1>2. Len(q) \in Nat
  OBVIOUS
<1>3. Len(q) \in {0, 1, 2, 3}
  <2>1. \A k \in Nat : k <= 3 => k \in {0, 1, 2, 3}
    OBVIOUS
  <2>2. Len(q) <= 3
    OBVIOUS
  <2>3. QED
    BY <1>2, <2>1, <2>2
<1> HIDE DEF p
<1>4. \A x : \A i \in 1 .. 4 : i <= Len(q) => HearsNext(x, p, i) = HearsNext(x, q, i)
  BY <1>1, <1>2 DEF HearsNext
<1>5. \A x : \A i \in 1 .. 4 : i > Len(q) => HearsNext(x, q, i) = x
  BY <1>2 DEF HearsNext
<1>6. \A x : \A i \in 1 .. 4 : i = Len(q) + 1 => HearsNext(x, p, i) = PolicyEvent(x, e)
  BY <1>1, <1>2 DEF HearsNext
<1>7. \A x : \A i \in 1 .. 4 : i > Len(q) + 1 => HearsNext(x, p, i) = x
  BY <1>1, <1>2 DEF HearsNext
<1>8. Hears(n, p) = PolicyEvent(Hears(n, q), e)
  <2>1. CASE Len(q) = 0
    <3>1. /\ \A x : HearsNext(x, q, 1) = x /\ HearsNext(x, p, 1) = PolicyEvent(x, e)
          /\ \A x : HearsNext(x, q, 2) = x /\ HearsNext(x, p, 2) = x
          /\ \A x : HearsNext(x, q, 3) = x /\ HearsNext(x, p, 3) = x
          /\ \A x : HearsNext(x, q, 4) = x /\ HearsNext(x, p, 4) = x
      BY <1>5, <1>6, <1>7, <2>1
    <3>2. QED
      BY <3>1 DEF Hears
  <2>2. CASE Len(q) = 1
    <3>1. /\ \A x : HearsNext(x, p, 1) = HearsNext(x, q, 1)
          /\ \A x : HearsNext(x, q, 2) = x /\ HearsNext(x, p, 2) = PolicyEvent(x, e)
          /\ \A x : HearsNext(x, q, 3) = x /\ HearsNext(x, p, 3) = x
          /\ \A x : HearsNext(x, q, 4) = x /\ HearsNext(x, p, 4) = x
      BY <1>4, <1>5, <1>6, <1>7, <2>2
    <3>2. QED
      BY <3>1 DEF Hears
  <2>3. CASE Len(q) = 2
    <3>1. /\ \A x : HearsNext(x, p, 1) = HearsNext(x, q, 1)
          /\ \A x : HearsNext(x, p, 2) = HearsNext(x, q, 2)
          /\ \A x : HearsNext(x, q, 3) = x /\ HearsNext(x, p, 3) = PolicyEvent(x, e)
          /\ \A x : HearsNext(x, q, 4) = x /\ HearsNext(x, p, 4) = x
      BY <1>4, <1>5, <1>6, <1>7, <2>3
    <3>2. QED
      BY <3>1 DEF Hears
  <2>4. CASE Len(q) = 3
    <3>1. /\ \A x : HearsNext(x, p, 1) = HearsNext(x, q, 1)
          /\ \A x : HearsNext(x, p, 2) = HearsNext(x, q, 2)
          /\ \A x : HearsNext(x, p, 3) = HearsNext(x, q, 3)
          /\ \A x : HearsNext(x, q, 4) = x /\ HearsNext(x, p, 4) = PolicyEvent(x, e)
      BY <1>4, <1>5, <1>6, <2>4
    <3>2. QED
      BY <3>1 DEF Hears
  <2>5. QED
    BY <1>3, <2>1, <2>2, <2>3, <2>4
<1>9. QED
  BY <1>1, <1>8 DEF p

LEMMA HearsFirst ==
  ASSUME NEW n, NEW q \in Seq(Event), Len(q) <= 3, NEW e \in Event
  PROVE  Hears(n, <<e>> \o q) = Hears(PolicyEvent(n, e), q)
<1> DEFINE p == <<e>> \o q
<1>1. /\ Len(p) = Len(q) + 1 /\ p[1] = e
      /\ \A i \in 1 .. Len(q) : p[i + 1] = q[i]
  OBVIOUS
<1>2. Len(q) \in Nat
  OBVIOUS
<1>3. Len(q) \in {0, 1, 2, 3}
  <2>1. \A k \in Nat : k <= 3 => k \in {0, 1, 2, 3}
    OBVIOUS
  <2>2. Len(q) <= 3
    OBVIOUS
  <2>3. QED
    BY <1>2, <2>1, <2>2
<1> HIDE DEF p
<1>4. \A x : HearsNext(x, p, 1) = PolicyEvent(x, e)
  BY <1>1, <1>2 DEF HearsNext
<1>5. \A x : \A i \in 1 .. 3 : HearsNext(x, p, i + 1) = HearsNext(x, q, i)
  <2> SUFFICES ASSUME NEW x, NEW i \in 1 .. 3 PROVE HearsNext(x, p, i + 1) = HearsNext(x, q, i)
    OBVIOUS
  <2>1. i + 1 <= Len(p) <=> i <= Len(q)
    BY <1>1, <1>2
  <2>2. i <= Len(q) => p[i + 1] = q[i]
    BY <1>1, <1>2
  <2>3. QED
    BY <2>1, <2>2 DEF HearsNext
<1>6. \A x : HearsNext(x, q, 4) = x
  BY <1>2 DEF HearsNext
<1>7. /\ \A x : HearsNext(x, p, 2) = HearsNext(x, q, 1)
      /\ \A x : HearsNext(x, p, 3) = HearsNext(x, q, 2)
      /\ \A x : HearsNext(x, p, 4) = HearsNext(x, q, 3)
  <2>1. 1 + 1 = 2 /\ 2 + 1 = 3 /\ 3 + 1 = 4 /\ {1, 2, 3} \subseteq 1 .. 3
    OBVIOUS
  <2>2. \A i \in {1, 2, 3} : \A x : HearsNext(x, p, i + 1) = HearsNext(x, q, i)
    BY <1>5, <2>1
  <2>3. QED
    BY <2>1, <2>2
<1>8. QED
  BY <1>4, <1>6, <1>7 DEF Hears, p

LEMMA HearsType ==
  ASSUME NEW n \in Notes, NEW q \in Seq(Event)
  PROVE  Hears(n, q) \in Notes
<1>1. \A m \in Notes, i \in 1 .. 4 : HearsNext(m, q, i) \in Notes
  <2> SUFFICES ASSUME NEW m \in Notes, NEW i \in 1 .. 4 PROVE HearsNext(m, q, i) \in Notes
    OBVIOUS
  <2>1. i <= Len(q) => q[i] \in Event
    OBVIOUS
  <2>2. QED
    BY <2>1, PolicyEffect DEF HearsNext
<1>2. QED
  BY <1>1 DEF Hears

LEMMA HearsNothing == \A n : Hears(n, <<>>) = n
  BY DEF Hears, HearsNext

-----------------------------------------------------------------------------
(* What each part of a handler tells.                                      *)

LEMMA Told ==
  ASSUME NEW s, Typed(s), NEW kind, NEW why
  PROVE  /\ TellHotkeys(s, kind, why).events = Append(s.events, [kind |-> kind, why |-> why])
         /\ TellConfig(s, kind, why).events = Append(s.events, [kind |-> kind, why |-> why])
<1>1. /\ [s EXCEPT !.events = Append(@, [kind |-> kind, why |-> why]), !.told.hotkeys = why]
           = [s EXCEPT !.events = Append(@, [kind |-> kind, why |-> why]),
                       !.told = [s.told EXCEPT !.hotkeys = why]]
      /\ [s EXCEPT !.events = Append(@, [kind |-> kind, why |-> why]), !.told.config = why]
           = [s EXCEPT !.events = Append(@, [kind |-> kind, why |-> why]),
                       !.told = [s.told EXCEPT !.config = why]]
  BY DEF Typed
<1>2. QED
  BY <1>1 DEF Typed, TellHotkeys, TellConfig

LEMMA HotkeyFailedTells ==
  ASSUME NEW s, Typed(s), NEW why \in Reasons
  PROVE  HotkeyFailed(s, why).events =
           IF s.app.hotkeyState = why THEN s.events
           ELSE Append(s.events, [kind |-> "HotkeysUnavailable", why |-> why])
<1> DEFINE t == [s EXCEPT !.app = [s.app EXCEPT !.hotkeyState = why]]
<1>1. [s EXCEPT !.app.hotkeyState = why] = t
  BY DEF Typed, AppType
<1>2. [s.app EXCEPT !.hotkeyState = why] \in AppType
  BY DEF Typed, AppType, HotkeyErrors
<1>3. Typed(t)
  BY <1>2, SetApp
<1>4. t.events = s.events
  BY DEF Typed
<1> HIDE DEF t
<1>5. TellHotkeys(t, "HotkeysUnavailable", why).events
        = Append(s.events, [kind |-> "HotkeysUnavailable", why |-> why])
  BY <1>3, <1>4, Told
<1>6. QED
  BY <1>1, <1>5 DEF HotkeyFailed

LEMMA ConfigErrorTells ==
  ASSUME NEW s, Typed(s), NEW kind, NEW why \in ConfigErrors \cup Reasons
  PROVE  ConfigError(s, kind, why).events =
           IF s.app.configError = why THEN s.events
           ELSE Append(s.events, [kind |-> kind, why |-> why])
<1> DEFINE t == [s EXCEPT !.app = [s.app EXCEPT !.configError = why]]
<1>1. [s EXCEPT !.app.configError = why] = t
  BY DEF Typed, AppType
<1>2. [s.app EXCEPT !.configError = why] \in AppType
  BY DEF Typed, AppType
<1>3. Typed(t)
  BY <1>2, SetApp
<1>4. t.events = s.events
  BY DEF Typed
<1> HIDE DEF t
<1>5. TellConfig(t, kind, why).events = Append(s.events, [kind |-> kind, why |-> why])
  BY <1>3, <1>4, Told
<1>6. QED
  BY <1>1, <1>5 DEF ConfigError

\* A set is reported unless it is the empty one and no failure was shown before it.
LEMMA RegisteredAsTells ==
  ASSUME NEW s, Typed(s), NEW hotkeys \in HotkeySets
  PROVE  LET r == HotkeysRegisteredAs(s, hotkeys) IN
         /\ \/ r.events = s.events /\ s.app.hotkeyState \notin HotkeyErrors
            \/ \E kind \in GoodNews : r.events = Append(s.events, [kind |-> kind, why |-> "ok"])
         /\ r.app.configState = s.app.configState /\ r.app.retryIn = 0
<1> DEFINE a == [s.app EXCEPT !.registered = hotkeys, !.rejected = None,
                              !.retryIn = 0, !.hotkeyState = "registered"]
           t == [s EXCEPT !.app = a]
<1>1. a \in AppType
  BY Deadlines DEF Typed, AppType, Capture
<1>2. a.configState = s.app.configState /\ a.retryIn = 0
  BY DEF Typed, AppType
<1>3. [s EXCEPT !.app.registered = hotkeys, !.app.rejected = None,
                !.app.retryIn = 0, !.app.hotkeyState = "registered"] = t
  BY DEF Typed, AppType
<1>4. Typed(t) /\ t.app = a
  BY <1>1, SetApp
<1>5. t.events = s.events
  BY DEF Typed
<1> HIDE DEF a, t
<1>6. \A kind \in GoodNews : [kind |-> kind, why |-> "ok"] \in Event
  BY DEF Event, GoodNews
<1>7. \A kind \in GoodNews :
        /\ TellHotkeys(t, kind, "ok").app = a
        /\ TellHotkeys(t, kind, "ok").events = Append(s.events, [kind |-> kind, why |-> "ok"])
  <2> SUFFICES ASSUME NEW kind \in GoodNews
               PROVE  /\ TellHotkeys(t, kind, "ok").app = a
                      /\ TellHotkeys(t, kind, "ok").events
                           = Append(s.events, [kind |-> kind, why |-> "ok"])
    OBVIOUS
  <2>1. TellHotkeys(t, kind, "ok").app = a
    <3>1. "ok" \in {"nothing", "ok"} \cup HotkeyErrors /\ [kind |-> kind, why |-> "ok"] \in Event
      BY <1>6
    <3>2. QED
      BY <1>4, <3>1, TellHotkeysEffect
  <2>2. TellHotkeys(t, kind, "ok").events = Append(s.events, [kind |-> kind, why |-> "ok"])
    BY <1>4, <1>5, Told
  <2>3. QED
    BY <2>1, <2>2
<1>8. /\ \/ HotkeysRegisteredAs(s, hotkeys) = t /\ s.app.hotkeyState \notin HotkeyErrors
         \/ \E kind \in GoodNews : HotkeysRegisteredAs(s, hotkeys) = TellHotkeys(t, kind, "ok")
  BY <1>3 DEF HotkeysRegisteredAs, GoodNews
<1>9. QED
  BY <1>2, <1>4, <1>5, <1>7, <1>8

LEMMA ConfigAppliedTells ==
  ASSUME NEW s, Typed(s), NEW content \in Contents \ Broken
  PROVE  LET r == ConfigApplied(s, content) IN
         /\ \/ /\ r.app.configState = "loaded"
               /\ r.events = Append(s.events, [kind |-> "ConfigLoaded", why |-> "ok"])
            \/ r.events = Append(s.events, [kind |-> "ConfigMissing", why |-> "ok"])
         /\ r.app.retryIn = s.app.retryIn
<1> DEFINE a == [s.app EXCEPT !.config = ConfigIn(content),
                              !.configState = IF content = "missing" THEN "missing"
                                                                     ELSE "loaded",
                              !.configError = None]
           t == [s EXCEPT !.app = a]
           kind == IF content = "missing" THEN "ConfigMissing" ELSE "ConfigLoaded"
<1>1. a \in AppType
  BY DEF Typed, AppType, ConfigIn, Contents, ActiveConfigs
<1>2. /\ content # "missing" => a.configState = "loaded"
      /\ a.retryIn = s.app.retryIn
  BY DEF Typed, AppType
<1>3. [s EXCEPT !.app.config = ConfigIn(content),
                !.app.configState = IF content = "missing" THEN "missing" ELSE "loaded",
                !.app.configError = None] = t
  BY DEF Typed, AppType
<1>4. Typed(t) /\ t.app = a
  BY <1>1, SetApp
<1>5. t.events = s.events
  BY DEF Typed
<1>6. ConfigApplied(s, content) = TellConfig(t, kind, "ok")
  BY <1>3 DEF ConfigApplied
<1>7. [kind |-> kind, why |-> "ok"] \in Event
  BY DEF Event
<1> HIDE DEF a, t
<1>8. TellConfig(t, kind, "ok").events = Append(s.events, [kind |-> kind, why |-> "ok"])
  BY <1>4, <1>5, Told
<1>9. TellConfig(t, kind, "ok").app = a
  <2> HIDE DEF kind
  <2>1. QED
    BY <1>4, <1>7, TellConfigEffect
<1>10. QED
  BY <1>2, <1>6, <1>8, <1>9

\* A replacement that waits is reported as bad news of the config, then of the hotkeys.
LEMMA ReplacementPendingTells ==
  ASSUME NEW s, Typed(s), NEW why \in Reasons
  PROVE  \E q : /\ \/ q = s.events
                   \/ q = Append(s.events, [kind |-> "ConfigPending", why |-> why])
                /\ ReplacementPending(s, why).events =
                     IF s.app.hotkeyState = why THEN q
                     ELSE Append(q, [kind |-> "HotkeysUnavailable", why |-> why])
<1> DEFINE a == [s.app EXCEPT !.registered = None, !.retryIn = RetryInterval]
           t == [s EXCEPT !.app = a]
           u == ConfigError(t, "ConfigPending", why)
           v == HotkeyFailed(u, why)
<1>1. a \in AppType /\ a.hotkeyState = s.app.hotkeyState
  BY Deadlines DEF Typed, AppType, Capture
<1>2. [s EXCEPT !.app.registered = None, !.app.retryIn = RetryInterval] = t
  BY DEF Typed, AppType
<1>3. Typed(t) /\ t.app = a
  BY <1>1, SetApp
<1>4. t.events = s.events
  BY DEF Typed
<1> HIDE DEF a, t
<1>5. /\ Typed(u) /\ u.app = [t.app EXCEPT !.configError = why]
      /\ \/ u.events = s.events
         \/ u.events = Append(s.events, [kind |-> "ConfigPending", why |-> why])
  <2>1. Typed(u) /\ u.app = [t.app EXCEPT !.configError = why]
    BY <1>3, ConfigErrorEffect
  <2>2. u.events = IF t.app.configError = why THEN t.events
                   ELSE Append(t.events, [kind |-> "ConfigPending", why |-> why])
    BY <1>3, ConfigErrorTells
  <2>3. QED
    BY <1>4, <2>1, <2>2
<1>6. u.app.hotkeyState = s.app.hotkeyState
  BY <1>1, <1>3, <1>5 DEF AppType
<1> HIDE DEF u
<1>7. v.events = IF s.app.hotkeyState = why THEN u.events
                 ELSE Append(u.events, [kind |-> "HotkeysUnavailable", why |-> why])
  BY <1>5, <1>6, HotkeyFailedTells
<1>8. ReplacementPending(s, why) = [v EXCEPT !.app.reloadIn = RetryInterval]
  BY <1>2 DEF ReplacementPending, u
<1> HIDE DEF v
<1>9. [v EXCEPT !.app.reloadIn = RetryInterval].events = v.events
  OBVIOUS
<1>10. QED
  BY <1>5, <1>7, <1>8, <1>9

-----------------------------------------------------------------------------
(* What is heard during a pass, m being the notes before it, n those that  *)
(* its reports have made, a the App that has made the reports.             *)

\* An outage is on record; a problem that has gone from the screen has ended.
Heeded(m, n, a) ==
  /\ a.hotkeyState \in Reasons => n.outage # NoOutage \/ warned
  /\ m.shown = "config" /\ n.shown = None => a.configState = "loaded"
  /\ m.shown = "hotkeys" /\ n.shown = None => a.hotkeyState = "registered"

\* Nothing keeps an App that has not yet asked for its hotkeys from asking.
Fresh(a) == a.hotkeyState = "unregistered" => a.retryIn = 0 /\ a.rejected = None

\* An error of the config that was shown is the state of the config.
ErrorIsState(a) == a.configError \in ConfigErrors => a.configState = a.configError

LEMMA KindsApart == "config" # None /\ "hotkeys" # None /\ "config" # "hotkeys"
  BY DEF None

LEMMA HearsReport ==
  ASSUME NEW n \in Notes, NEW q \in Seq(Event), Len(q) <= 3, NEW e \in Event
  PROVE  LET x == Hears(n, q)
             y == Hears(n, Append(q, e)) IN
         /\ x \in Notes /\ y \in Notes /\ y = PolicyEvent(x, e)
         /\ Len(Append(q, e)) = Len(q) + 1 /\ Append(q, e) # <<>>
<1>1. Hears(n, q) \in Notes
  BY HearsType
<1>2. /\ Hears(n, Append(q, e)) = PolicyEvent(Hears(n, q), e)
      /\ Len(Append(q, e)) = Len(q) + 1
  BY HearsLast
<1>3. PolicyEvent(Hears(n, q), e) \in Notes
  BY <1>1, PolicyEffect
<1>4. Append(q, e) # <<>>
  OBVIOUS
<1>5. QED
  BY <1>1, <1>2, <1>3, <1>4

\* SyncHotkeys makes one report at most, and of its own failure the only one that could
\* hide a resolution of the same pass.
LEMMA SyncHeeded ==
  ASSUME Environment, NEW s, Typed(s), Coherent(s), NEW effect \in Effects, Fresh(s.app),
         Len(s.events) <= 2, NEW m \in Notes, NEW n \in Notes,
         Heeded(m, Hears(n, s.events), s.app),
         Hears(n, s.events).shown = "hotkeys" => m.shown = "hotkeys"
  PROVE  LET r == SyncHotkeys(s, effect) IN
         /\ Heeded(m, Hears(n, r.events), r.app) /\ Hears(n, r.events) \in Notes
         /\ Len(r.events) <= 3 /\ r.app.hotkeyState # "unregistered"
         /\ r.app.config = s.app.config /\ r.app.configState = s.app.configState
         /\ r.app.configError = s.app.configError
         /\ r.events = <<>> =>
              /\ s.events = <<>>
              /\ s.app.hotkeyState \in {r.app.hotkeyState, "unregistered"}
<1> DEFINE wanted == HotkeysOf[s.app.config]
           h == HeldAfter(s.held, wanted, effect)
           t == [s EXCEPT !.held = h]
           r == SyncHotkeys(s, effect)
           x == Hears(n, s.events)
<1>1. wanted \in HotkeySets /\ wanted # None
  BY ConstantsOK DEF Typed, AppType
<1>2. x \in Notes /\ s.events \in Seq(Event) /\ Len(s.events) \in Nat
  BY HearsType DEF Typed
<1>3. s.app.hotkeyState \in {"unregistered", "registered"} \cup HotkeyErrors
  BY DEF Typed, AppType
<1>0. Len(s.events) <= 3 /\ Len(s.events) + 1 <= 3
  BY <1>2
<1>a. /\ "registered" \notin Reasons /\ "rejected" \notin Reasons /\ "unregistered" \notin Reasons
      /\ "unregistered" \notin HotkeyErrors
  BY ReasonsApart DEF HotkeyErrors
<1>b. /\ Heeded(m, x, s.app)
      /\ x.shown = "hotkeys" => m.shown = "hotkeys"
      /\ Fresh(s.app) /\ Len(s.events) <= 2
  OBVIOUS
<1>4. CASE s.app.retryIn > 0 \/ wanted \in {s.app.registered, s.app.rejected}
  <2>1. r = s
    BY <1>4 DEF SyncHotkeys
  <2>2. s.app.hotkeyState # "unregistered"
    <3> SUFFICES ASSUME s.app.hotkeyState = "unregistered" PROVE FALSE
      OBVIOUS
    <3>1. s.app.registered = None
      BY DEF Coherent, CaptureCoherent
    <3>2. s.app.retryIn = 0 /\ s.app.rejected = None
      BY <1>b DEF Fresh
    <3>3. QED
      BY <1>1, <1>4, <3>1, <3>2
  <2> HIDE DEF r, x
  <2>3. QED
    BY <1>0, <1>2, <1>b, <2>1, <2>2 DEF r, x
<1>5. CASE ~(s.app.retryIn > 0 \/ wanted \in {s.app.registered, s.app.rejected})
  <2>1. s.app.registered = None /\ s.app.rejected = None
    BY <1>5 DEF Coherent, CaptureCoherent
  <2>2. s.app.hotkeyState # "registered"
    BY <2>1 DEF Coherent, CaptureCoherent
  <2>3. /\ h \in Capture
        /\ RegisterAnswer(wanted) \in {"ok", "rejected"} \cup Reasons
    BY <1>1, Registration DEF Typed
  <2>4. Typed(t) /\ t.app = s.app /\ t.told = s.told
    BY <2>3, SetHeld
  <2>5. t.events = s.events
    BY DEF Typed
  <2>6. CASE RegisterAnswer(wanted) = "ok"
    <3>1. r = HotkeysRegisteredAs(t, wanted)
      BY <1>5, <2>6 DEF SyncHotkeys
    <3> HIDE DEF t, h, wanted, r
    <3>2. /\ r.app.hotkeyState = "registered"
          /\ r.app.config = s.app.config /\ r.app.configError = s.app.configError
      BY <3>1, <2>4, <1>1, RegisteredAsEffect
    <3>3. /\ \/ r.events = s.events /\ s.app.hotkeyState \notin HotkeyErrors
             \/ \E kind \in GoodNews : r.events = Append(s.events, [kind |-> kind, why |-> "ok"])
          /\ r.app.configState = s.app.configState
      BY <3>1, <2>4, <2>5, <1>1, RegisteredAsTells
    <3>4. CASE r.events = s.events /\ s.app.hotkeyState \notin HotkeyErrors
      <4>1. s.app.hotkeyState = "unregistered"
        BY <1>3, <2>2, <3>4
      <4>2. Hears(n, r.events) = x
        BY <3>4
      <4> HIDE DEF x
      <4>3. Heeded(m, x, r.app)
        BY <1>a, <1>b, <3>2, <3>3 DEF Heeded
      <4>4. QED
        BY <1>0, <1>2, <1>a, <3>2, <3>3, <3>4, <4>1, <4>2, <4>3 DEF r
    <3>5. CASE \E kind \in GoodNews : r.events = Append(s.events, [kind |-> kind, why |-> "ok"])
      <4>1. PICK kind \in GoodNews : r.events = Append(s.events, [kind |-> kind, why |-> "ok"])
        BY <3>5
      <4> DEFINE e == [kind |-> kind, why |-> "ok"]
                 y == Hears(n, r.events)
      <4>2. e \in Event /\ e.kind \in GoodNews
        BY DEF Event, GoodNews
      <4> HIDE DEF e
      <4>3. /\ y \in Notes /\ y = PolicyEvent(x, e)
            /\ Len(r.events) = Len(s.events) + 1 /\ r.events # <<>>
        BY <1>0, <1>2, <4>1, <4>2, HearsReport DEF e
      <4> HIDE DEF x, y
      <4>4. y.shown = IF x.shown = "hotkeys" THEN None ELSE x.shown
        BY <1>2, <4>2, <4>3, PolicyEffect
      <4>5. Heeded(m, y, r.app)
        BY <1>a, <1>b, <3>2, <3>3, <4>4, KindsApart DEF Heeded
      <4>6. QED
        BY <1>0, <3>2, <3>3, <4>3, <4>5 DEF r, y
    <3>6. QED
      BY <3>3, <3>4, <3>5
  <2>7. CASE RegisterAnswer(wanted) = "rejected"
    <3> DEFINE a == [s.app EXCEPT !.rejected = wanted, !.hotkeyState = "rejected"]
               u == [t EXCEPT !.app = a]
               e == [kind |-> "HotkeysRejected", why |-> "rejected"]
               y == Hears(n, r.events)
    <3>1. a \in AppType
      BY <1>1 DEF Typed, AppType, Capture, HotkeyErrors
    <3>2. [t EXCEPT !.app.rejected = wanted, !.app.hotkeyState = "rejected"] = u
      <4> HIDE DEF t
      <4> QED BY <2>4 DEF Typed, AppType
    <3>3. r = TellHotkeys(u, "HotkeysRejected", "rejected")
      BY <1>5, <2>7, <3>2 DEF SyncHotkeys
    <3>4. /\ a.hotkeyState = "rejected" /\ a.config = s.app.config
          /\ a.configError = s.app.configError /\ a.configState = s.app.configState
      BY DEF Typed, AppType
    <3>5. u.events = s.events
      BY <2>5 DEF Typed
    <3>6. e \in Event /\ "rejected" \in {"nothing", "ok"} \cup HotkeyErrors
      BY DEF Event, HotkeyErrors
    <3> HIDE DEF t, h, a, wanted, r
    <3>7. Typed(u) /\ u.app = a
      BY <3>1, <2>4, SetApp
    <3> HIDE DEF u
    <3>8. r.app = a
      BY <3>3, <3>6, <3>7, TellHotkeysEffect
    <3>9. r.events = Append(s.events, e)
      BY <3>3, <3>5, <3>7, Told
    <3>10. e.kind = "HotkeysRejected"
      OBVIOUS
    <3> HIDE DEF e
    <3>11. /\ y \in Notes /\ y = PolicyEvent(x, e)
           /\ Len(r.events) = Len(s.events) + 1 /\ r.events # <<>>
      BY <1>0, <1>2, <3>6, <3>9, HearsReport
    <3> HIDE DEF x, y
    <3>12. y.shown = "hotkeys"
      BY <1>2, <3>6, <3>10, <3>11, PolicyEffect
    <3>13. Heeded(m, y, r.app)
      BY <1>a, <3>4, <3>8, <3>12, KindsApart DEF Heeded
    <3>14. QED
      BY <1>0, <3>4, <3>8, <3>11, <3>13 DEF r, y
  <2>8. CASE RegisterAnswer(wanted) \in Reasons
    <3> DEFINE why == RegisterAnswer(wanted)
               a == [s.app EXCEPT !.registered = None, !.retryIn = RetryInterval]
               u == [t EXCEPT !.app = a]
               e == [kind |-> "HotkeysUnavailable", why |-> why]
               y == Hears(n, r.events)
    <3>1. a \in AppType
      BY Deadlines DEF Typed, AppType, Capture
    <3>2. [t EXCEPT !.app.registered = None, !.app.retryIn = RetryInterval] = u
      <4> HIDE DEF t
      <4> QED BY <2>4 DEF Typed, AppType
    <3>3. why # "ok" /\ why # "rejected" /\ why \in HotkeyErrors
      BY <2>8, ReasonsApart
    <3>4. r = HotkeyFailed(u, why)
      BY <1>5, <3>2, <3>3 DEF SyncHotkeys
    <3>5. /\ a.hotkeyState = s.app.hotkeyState /\ a.config = s.app.config
          /\ a.configError = s.app.configError /\ a.configState = s.app.configState
      BY DEF Typed, AppType
    <3>6. u.events = s.events
      BY <2>5 DEF Typed
    <3>7. e \in Event /\ e.kind = "HotkeysUnavailable"
      BY <3>3 DEF Event
    <3> HIDE DEF t, h, a, wanted, r, why
    <3>8. Typed(u) /\ u.app = a /\ u.told = s.told
      BY <3>1, <2>4, SetApp
    <3> HIDE DEF u
    <3>9. u.app.hotkeyState = why => u.told.hotkeys = why
      BY <3>3, <3>5, <3>8 DEF Coherent, CaptureCoherent
    <3>10. r.app = [a EXCEPT !.hotkeyState = why]
      BY <3>4, <3>8, <3>9, <2>8, HotkeyFailedEffect DEF why
    <3>11. /\ r.app.hotkeyState = why /\ r.app.config = s.app.config
           /\ r.app.configError = s.app.configError /\ r.app.configState = s.app.configState
      BY <3>1, <3>5, <3>10 DEF AppType
    <3>12. r.events = IF s.app.hotkeyState = why THEN s.events ELSE Append(s.events, e)
      BY <3>4, <3>5, <3>6, <3>8, <2>8, HotkeyFailedTells DEF why
    <3>13. why \in Reasons /\ why # "unregistered" /\ why # "registered"
      BY <2>8, <1>a DEF why
    <3>14. CASE s.app.hotkeyState = why
      <4>1. r.events = s.events /\ y = x
        BY <3>12, <3>14
      <4> HIDE DEF x, y
      <4>2. Heeded(m, y, r.app)
        BY <1>b, <3>11, <3>14, <4>1 DEF Heeded
      <4>3. QED
        BY <1>0, <1>2, <3>11, <3>13, <3>14, <4>1, <4>2 DEF r, y
    <3>15. CASE s.app.hotkeyState # why
      <4>1. r.events = Append(s.events, e)
        BY <3>12, <3>15
      <4> HIDE DEF e
      <4>2. /\ y \in Notes /\ y = PolicyEvent(x, e)
            /\ Len(r.events) = Len(s.events) + 1 /\ r.events # <<>>
        BY <1>0, <1>2, <3>7, <4>1, HearsReport
      <4> HIDE DEF x, y
      <4>3. y.outage # NoOutage /\ y.shown = x.shown
        BY <1>2, <3>7, <4>2, PolicyEffect
      <4>4. ~(m.shown = "hotkeys" /\ x.shown = None)
        BY <1>b, <2>2 DEF Heeded
      <4>5. Heeded(m, y, r.app)
        BY <1>b, <3>11, <4>3, <4>4 DEF Heeded
      <4>6. QED
        BY <1>0, <3>11, <3>13, <4>2, <4>5 DEF r, y
    <3>16. QED
      BY <3>14, <3>15
  <2>9. QED
    BY <2>3, <2>6, <2>7, <2>8
<1>6. QED
  BY <1>4, <1>5

\* An apply reports what becomes of the config, and before it what became of its hotkeys.
LEMMA ApplyHeeded ==
  ASSUME Environment, NEW s, Typed(s), CaptureCoherent(s), s.events = <<>>, Fresh(s.app),
         ErrorIsState(s.app), NEW content \in Contents, NEW effect \in Effects,
         NEW m \in Notes, Heeded(m, m, s.app)
  PROVE  LET r == ApplyLoadedConfig(s, content, effect) IN
         /\ Heeded(m, Hears(m, r.events), r.app)
         /\ Hears(m, r.events).shown = "hotkeys" => m.shown = "hotkeys"
         /\ Len(r.events) <= 2 /\ Fresh(r.app) /\ ErrorIsState(r.app)
         /\ r.events = <<>> =>
              /\ r.app.config = s.app.config /\ r.app.configState = s.app.configState
              /\ r.app.hotkeyState = s.app.hotkeyState
<1> DEFINE hotkeys == HotkeysOf[ConfigIn(content)]
           answer == RegisterAnswer(hotkeys)
           h == HeldAfter(s.held, hotkeys, effect)
           t == [s EXCEPT !.held = h]
           r == ApplyLoadedConfig(s, content, effect)
           y == Hears(m, r.events)
<1>1. /\ Hears(m, <<>>) = m /\ Len(<<>>) = 0 /\ <<>> \in Seq(Event)
      /\ \A q : q = <<>> => Len(q) <= 3
  BY HearsNothing
<1>2. /\ "registered" \notin Reasons /\ "unregistered" \notin Reasons
      /\ None \notin ConfigErrors /\ None \notin Reasons /\ Reasons \cap ConfigErrors = {}
      /\ "registered" # "unregistered"
  BY ReasonsApart DEF ConfigErrors, Broken, None
<1>3. /\ s.app.hotkeyState \in Reasons => m.outage # NoOutage \/ warned
      /\ Fresh(s.app) /\ ErrorIsState(s.app)
  BY DEF Heeded
\* One report of the config alone, or one that was made before.
<1>4. ASSUME NEW u, Typed(u), u.events = <<>>, NEW kind \in {"ConfigFailed", "ConfigRejected"},
             NEW why \in ConfigErrors, r = ConfigError(u, kind, why),
             u.app.configState = why, u.app.hotkeyState = s.app.hotkeyState,
             u.app.retryIn = s.app.retryIn, u.app.rejected = s.app.rejected,
             u.app.config = s.app.config, u.app.configError = s.app.configError
      PROVE  /\ Heeded(m, y, r.app)
             /\ y.shown = "hotkeys" => m.shown = "hotkeys"
             /\ Len(r.events) <= 2 /\ Fresh(r.app) /\ ErrorIsState(r.app)
             /\ r.events = <<>> =>
                  /\ r.app.config = s.app.config /\ r.app.configState = s.app.configState
                  /\ r.app.hotkeyState = s.app.hotkeyState
  <2> DEFINE e == [kind |-> kind, why |-> why]
  <2>1. r.app = [u.app EXCEPT !.configError = why]
    BY <1>4, ConfigErrorEffect
  <2>2. /\ r.app.configState = why /\ r.app.hotkeyState = s.app.hotkeyState
        /\ r.app.retryIn = s.app.retryIn /\ r.app.rejected = s.app.rejected
        /\ r.app.config = s.app.config /\ r.app.configError = why
    BY <1>4, <2>1 DEF Typed, AppType
  <2>3. r.events = IF s.app.configError = why THEN <<>> ELSE Append(<<>>, e)
    <3>1. ConfigError(u, kind, why).events = IF u.app.configError = why THEN u.events
                                             ELSE Append(u.events, e)
      <4>1. Typed(u) /\ why \in ConfigErrors \cup Reasons
        BY <1>4
      <4>2. QED
        BY <4>1, ConfigErrorTells
    <3> HIDE DEF r, e
    <3>2. QED
      BY <1>4, <3>1
  <2>4. e \in Event /\ e.kind \in BadNews
    BY DEF Event, BadNews
  <2>5. Fresh(r.app) /\ ErrorIsState(r.app)
    BY <1>3, <2>2 DEF Fresh, ErrorIsState
  <2> HIDE DEF r, e
  <2>6. CASE s.app.configError = why
    <3>1. r.events = <<>> /\ y = m
      BY <1>1, <2>3, <2>6
    <3>2. s.app.configState = why
      BY <1>3, <2>6 DEF ErrorIsState
    <3> HIDE DEF y
    <3>3. Heeded(m, y, r.app)
      BY <1>3, <2>2, <3>1, KindsApart DEF Heeded
    <3>4. QED
      BY <1>1, <2>2, <2>5, <3>1, <3>2, <3>3
  <2>7. CASE s.app.configError # why
    <3>1. r.events = Append(<<>>, e)
      BY <2>3, <2>7
    <3>2. /\ y \in Notes /\ y = PolicyEvent(m, e)
          /\ Len(r.events) = 0 + 1 /\ r.events # <<>>
      BY <1>1, <2>4, <3>1, HearsReport
    <3> HIDE DEF y
    <3>3. y.outage = m.outage /\ y.shown = "config"
      BY <2>4, <3>2, PolicyEffect
    <3>4. Heeded(m, y, r.app)
      BY <1>3, <2>2, <3>3, KindsApart DEF Heeded
    <3>5. QED
      BY <2>2, <2>5, <3>2, <3>3, <3>4, KindsApart
  <2>8. QED
    BY <2>6, <2>7
<1>5. CASE content \in Broken
  <2> DEFINE a == [s.app EXCEPT !.configState = content]
             u == [s EXCEPT !.app = a]
  <2>1. a \in AppType
    BY <1>5 DEF Typed, AppType, ConfigErrors
  <2>2. [s EXCEPT !.app.configState = content] = u
    BY DEF Typed, AppType
  <2>3. r = ConfigError(u, "ConfigFailed", content)
    BY <1>5, <2>2 DEF ApplyLoadedConfig
  <2>4. /\ a.configState = content /\ a.hotkeyState = s.app.hotkeyState
        /\ a.retryIn = s.app.retryIn /\ a.rejected = s.app.rejected
        /\ a.config = s.app.config /\ a.configError = s.app.configError
    BY DEF Typed, AppType
  <2>5. u.events = <<>>
    BY DEF Typed
  <2>6. content \in ConfigErrors
    BY <1>5 DEF ConfigErrors
  <2> HIDE DEF a, r
  <2>7. Typed(u) /\ u.app = a
    BY <2>1, SetApp
  <2> HIDE DEF u
  <2>8. QED
    BY <1>4, <2>3, <2>4, <2>5, <2>6, <2>7 DEF r
<1>6. CASE content \notin Broken
  <2>1. hotkeys \in HotkeySets /\ hotkeys # None
    BY <1>6, ConstantsOK DEF ConfigIn, Contents, ActiveConfigs
  <2>2. h \in Capture /\ answer \in {"ok", "rejected"} \cup Reasons
    BY <2>1, Registration DEF Typed
  <2>3. Typed(t) /\ t.app = s.app /\ t.told = s.told
    BY <2>2, SetHeld
  <2>4. t.events = <<>>
    BY DEF Typed
  \* The hotkeys were there or have come; now the config is.
  <2>5. ASSUME NEW u, Typed(u), r = ConfigApplied(u, content), NEW n \in Notes,
               n = Hears(m, u.events), Len(u.events) <= 1, n.shown \in {m.shown, None},
               m.shown = "hotkeys" /\ n.shown = None => u.app.hotkeyState = "registered",
               m.shown = "config" => n.shown = "config",
               u.app.hotkeyState \in Reasons => n.outage # NoOutage \/ warned, Fresh(u.app)
        PROVE  /\ Heeded(m, y, r.app)
               /\ y.shown = "hotkeys" => m.shown = "hotkeys"
               /\ Len(r.events) <= 2 /\ Fresh(r.app) /\ ErrorIsState(r.app)
               /\ r.events # <<>>
    <3>1. /\ r.app.configError = None /\ r.app.hotkeyState = u.app.hotkeyState
          /\ r.app.rejected = u.app.rejected
      BY <1>6, <2>5, ConfigAppliedEffect
    <3>2. /\ \/ /\ r.app.configState = "loaded"
                /\ r.events = Append(u.events, [kind |-> "ConfigLoaded", why |-> "ok"])
             \/ r.events = Append(u.events, [kind |-> "ConfigMissing", why |-> "ok"])
          /\ r.app.retryIn = u.app.retryIn
      BY <1>6, <2>5, ConfigAppliedTells
    <3>3. PICK e \in Event : /\ r.events = Append(u.events, e)
                             /\ \/ e.kind = "ConfigLoaded" /\ r.app.configState = "loaded"
                                \/ e.kind = "ConfigMissing"
      <4>1. /\ [kind |-> "ConfigLoaded", why |-> "ok"] \in Event
            /\ [kind |-> "ConfigMissing", why |-> "ok"] \in Event
        BY DEF Event
      <4>2. QED
        BY <3>2, <4>1
    <3>4. u.events \in Seq(Event) /\ Len(u.events) \in Nat /\ Len(u.events) <= 3
      BY <2>5 DEF Typed
    <3> HIDE DEF r
    <3>5. /\ y \in Notes /\ y = PolicyEvent(n, e)
          /\ Len(r.events) = Len(u.events) + 1 /\ r.events # <<>>
      BY <2>5, <3>3, <3>4, HearsReport
    <3> HIDE DEF y
    <3>6. \/ /\ e.kind = "ConfigLoaded" /\ y.outage = n.outage
             /\ y.shown = IF n.shown = "config" THEN None ELSE n.shown
          \/ e.kind = "ConfigMissing" /\ y = n
      BY <2>5, <3>3, <3>5, PolicyEffect
    <3>7. Fresh(r.app) /\ ErrorIsState(r.app)
      BY <1>2, <2>5, <3>1, <3>2 DEF Fresh, ErrorIsState
    <3>8. y.shown = "hotkeys" => m.shown = "hotkeys"
      BY <2>5, <3>6, KindsApart
    <3>9. r.app.hotkeyState \in Reasons => y.outage # NoOutage \/ warned
      BY <2>5, <3>1, <3>6
    <3>10. m.shown = "config" /\ y.shown = None => r.app.configState = "loaded"
      BY <2>5, <3>3, <3>6, KindsApart
    <3>11. m.shown = "hotkeys" /\ y.shown = None => r.app.hotkeyState = "registered"
      BY <2>5, <3>1, <3>6, KindsApart
    <3>12. Len(r.events) <= 2
      BY <2>5, <3>4, <3>5
    <3>13. QED
      BY <3>5, <3>7, <3>8, <3>9, <3>10, <3>11, <3>12 DEF Heeded
  <2>6. CASE s.app.registered = hotkeys
    <3>1. r = ConfigApplied(s, content)
      BY <1>6, <2>6 DEF ApplyLoadedConfig
    <3>2. s.app.hotkeyState = "registered"
      BY <2>1, <2>6 DEF CaptureCoherent
    <3>3. /\ m = Hears(m, s.events) /\ Len(s.events) <= 1
      BY <1>1
    <3> HIDE DEF r
    <3>4. QED
      BY <1>2, <1>3, <2>5, <3>1, <3>2, <3>3 DEF r
  <2>7. CASE s.app.registered # hotkeys /\ answer = "ok"
    <3> DEFINE u == HotkeysRegisteredAs(t, hotkeys)
               n == Hears(m, u.events)
    <3>1. r = ConfigApplied(u, content)
      BY <1>6, <2>7 DEF ApplyLoadedConfig
    <3> HIDE DEF t, r
    <3>2. Typed(u) /\ u.app.hotkeyState = "registered" /\ u.app.rejected = None
      <4> HIDE DEF hotkeys, h
      <4> QED BY <2>3, <2>1, RegisteredAsEffect
    <3>3. \/ u.events = <<>>
          \/ \E kind \in GoodNews : u.events = Append(<<>>, [kind |-> kind, why |-> "ok"])
      <4> HIDE DEF hotkeys, h
      <4> QED BY <2>3, <2>4, <2>1, RegisteredAsTells
    <3> HIDE DEF u
    <3>4. n \in Notes /\ Len(u.events) <= 1 /\ n.shown \in {m.shown, None}
          /\ (m.shown = "config" => n.shown = "config")
      <4>1. CASE u.events = <<>>
        BY <1>1, <4>1
      <4>2. CASE \E kind \in GoodNews : u.events = Append(<<>>, [kind |-> kind, why |-> "ok"])
        <5>1. PICK kind \in GoodNews : u.events = Append(<<>>, [kind |-> kind, why |-> "ok"])
          BY <4>2
        <5> DEFINE e == [kind |-> kind, why |-> "ok"]
        <5>2. e \in Event /\ e.kind \in GoodNews
          BY DEF Event, GoodNews
        <5> HIDE DEF e
        <5>3. n \in Notes /\ n = PolicyEvent(m, e) /\ Len(u.events) = 0 + 1
          BY <1>1, <5>1, <5>2, HearsReport DEF e
        <5> HIDE DEF n
        <5>4. n.shown = IF m.shown = "hotkeys" THEN None ELSE m.shown
          BY <5>2, <5>3, PolicyEffect
        <5>5. QED
          BY <5>3, <5>4, KindsApart
      <4>3. QED
        BY <3>3, <4>1, <4>2
    <3> HIDE DEF n
    <3>5. Fresh(u.app)
      BY <1>2, <3>2 DEF Fresh
    <3>6. QED
      BY <1>2, <2>5, <3>1, <3>2, <3>4, <3>5 DEF n, r
  <2>8. CASE s.app.registered # hotkeys /\ answer = "rejected"
    <3> DEFINE a == [s.app EXCEPT !.configState = "refused"]
               u == [t EXCEPT !.app = a]
    <3>1. a \in AppType
      BY DEF Typed, AppType, ConfigErrors
    <3>2. [t EXCEPT !.app.configState = "refused"] = u
      <4> HIDE DEF t
      <4> QED BY <2>3 DEF Typed, AppType
    <3>3. r = ConfigError(u, "ConfigRejected", "refused")
      BY <1>6, <2>8, <3>2 DEF ApplyLoadedConfig, ConfigRefused
    <3>4. /\ a.configState = "refused" /\ a.hotkeyState = s.app.hotkeyState
          /\ a.retryIn = s.app.retryIn /\ a.rejected = s.app.rejected
          /\ a.config = s.app.config /\ a.configError = s.app.configError
      BY DEF Typed, AppType
    <3>5. u.events = <<>>
      BY <2>4 DEF Typed
    <3>6. "refused" \in ConfigErrors
      BY DEF ConfigErrors
    <3> HIDE DEF t, a, r
    <3>7. Typed(u) /\ u.app = a
      BY <3>1, <2>3, SetApp
    <3> HIDE DEF u
    <3>8. QED
      BY <1>4, <3>3, <3>4, <3>5, <3>6, <3>7 DEF r
  <2>9. CASE s.app.registered # hotkeys /\ answer \in Reasons
    <3> DEFINE e == [kind |-> "HotkeysUnavailable", why |-> answer]
               f == [kind |-> "ConfigPending", why |-> answer]
    <3>1. /\ answer # "ok" /\ answer # "rejected" /\ answer # "unregistered"
          /\ answer # "registered" /\ answer \in HotkeyErrors /\ answer \notin ConfigErrors
      BY <1>2, <2>9, ReasonsApart
    <3>2. r = ReplacementPending(t, answer)
      BY <1>6, <2>9, <3>1 DEF ApplyLoadedConfig
    <3>3. e \in Event /\ f \in Event /\ e.kind = "HotkeysUnavailable" /\ f.kind \in BadNews
      BY <3>1 DEF Event, BadNews
    <3> HIDE DEF t, r, h, answer, hotkeys, e, f
    <3>4. t.app.hotkeyState = answer => t.told.hotkeys = answer
      BY <3>1, <2>3 DEF CaptureCoherent
    <3>5. r.app = [s.app EXCEPT !.registered = None, !.retryIn = RetryInterval,
                                !.configError = answer, !.hotkeyState = answer,
                                !.reloadIn = RetryInterval]
      <4>1. ReplacementPending(t, answer).app
              = [t.app EXCEPT !.registered = None, !.retryIn = RetryInterval,
                              !.configError = answer, !.hotkeyState = answer,
                              !.reloadIn = RetryInterval]
        BY <2>3, <2>9, <3>4, ReplacementPendingEffect
      <4>2. QED
        BY <2>3, <3>2, <4>1
    <3>6. /\ r.app.hotkeyState = answer /\ r.app.configError = answer
          /\ r.app.config = s.app.config /\ r.app.configState = s.app.configState
      BY <3>5 DEF Typed, AppType
    <3>7. PICK q : /\ q = <<>> \/ q = Append(<<>>, f)
                   /\ r.events = IF s.app.hotkeyState = answer THEN q ELSE Append(q, e)
      <4>1. PICK q : /\ \/ q = t.events
                        \/ q = Append(t.events, f)
                     /\ ReplacementPending(t, answer).events =
                          IF t.app.hotkeyState = answer THEN q ELSE Append(q, e)
        BY <2>3, <2>9, ReplacementPendingTells DEF e, f
      <4>2. QED
        BY <2>3, <2>4, <3>2, <4>1
    <3> DEFINE n == Hears(m, q)
    <3>8. /\ n \in Notes /\ q \in Seq(Event) /\ Len(q) \in {0, 1}
          /\ n.outage = m.outage /\ n.shown \in {m.shown, "config"}
      <4>1. CASE q = <<>>
        BY <1>1, <4>1
      <4>2. CASE q = Append(<<>>, f)
        <5>1. n \in Notes /\ n = PolicyEvent(m, f) /\ Len(q) = 0 + 1
          BY <1>1, <3>3, <4>2, HearsReport
        <5>2. q \in Seq(Event)
          BY <1>1, <3>3, <4>2
        <5> HIDE DEF n
        <5>3. n.outage = m.outage /\ n.shown = "config"
          BY <3>3, <5>1, PolicyEffect
        <5>4. QED
          BY <5>1, <5>2, <5>3
      <4>3. QED
        BY <3>7, <4>1, <4>2
    <3>9. Fresh(r.app) /\ ErrorIsState(r.app)
      BY <3>1, <3>6 DEF Fresh, ErrorIsState
    <3>10. /\ y \in Notes /\ y.shown = n.shown /\ Len(r.events) <= 2
           /\ y.outage # NoOutage \/ warned
           /\ r.events = <<>> => s.app.hotkeyState = answer
      <4>1. CASE s.app.hotkeyState = answer
        <5>1. r.events = q /\ y = n
          BY <3>7, <4>1
        <5> HIDE DEF n, y
        <5>2. Len(q) <= 2
          BY <3>8
        <5>3. s.app.hotkeyState \in Reasons
          BY <2>9, <4>1
        <5>4. y.outage # NoOutage \/ warned
          BY <1>3, <3>8, <5>1, <5>3
        <5>5. y \in Notes /\ y.shown = n.shown
          BY <3>8, <5>1
        <5>6. Len(r.events) <= 2
          BY <5>1, <5>2
        <5>7. QED
          BY <4>1, <5>4, <5>5, <5>6
      <4>2. CASE s.app.hotkeyState # answer
        <5>1. r.events = Append(q, e) /\ Len(q) <= 3
          BY <3>7, <3>8, <4>2
        <5>2. y \in Notes /\ y = PolicyEvent(n, e) /\ Len(r.events) = Len(q) + 1 /\ r.events # <<>>
          BY <3>3, <3>8, <5>1, HearsReport
        <5> HIDE DEF n, y
        <5>3. y.outage # NoOutage /\ y.shown = n.shown
          BY <3>3, <3>8, <5>2, PolicyEffect
        <5>4. Len(r.events) <= 2
          <6>1. \A k \in {0, 1} : k + 1 <= 2
            OBVIOUS
          <6>2. QED
            BY <3>8, <5>2, <6>1
        <5>5. QED
          BY <5>2, <5>3, <5>4
      <4>3. QED
        BY <4>1, <4>2
    <3> HIDE DEF n, y
    <3>11. Heeded(m, y, r.app)
      <4>1. m.shown \in {"config", "hotkeys"} => y.shown # None
        BY <3>8, <3>10, KindsApart
      <4>2. QED
        BY <3>10, <4>1 DEF Heeded
    <3>12. QED
      BY <3>6, <3>8, <3>9, <3>10, <3>11, KindsApart DEF r, y
  <2>10. QED
    BY <2>2, <2>6, <2>7, <2>8, <2>9
<1>7. QED
  BY <1>5, <1>6

LEMMA PollKeeps ==
  ASSUME NEW a \in AppType, file \in Contents, Fresh(a), ErrorIsState(a)
  PROVE  LET b == PollConfigFile(a) IN
         b.configState = a.configState /\ Fresh(b) /\ ErrorIsState(b)
<1> DEFINE b == SeeFile(a)
<1>1. None \notin ConfigErrors
  BY DEF ConfigErrors, Broken, None
<1>2. /\ b.configState = a.configState /\ b.hotkeyState = a.hotkeyState
      /\ b.retryIn = a.retryIn /\ b.rejected = a.rejected
      /\ b.configError \in {a.configError, None}
      /\ DOMAIN b = DOMAIN a
  BY DEF SeeFile, AppType
<1>3. PollConfigFile(a) = b \/ PollConfigFile(a) = [b EXCEPT !.reloadIn = NoDeadline]
  BY DEF PollConfigFile
<1> HIDE DEF b
<1> DEFINE c == PollConfigFile(a)
<1>4. /\ c.configState = a.configState /\ c.hotkeyState = a.hotkeyState
      /\ c.retryIn = a.retryIn /\ c.rejected = a.rejected
      /\ c.configError \in {a.configError, None}
  <2>1. {"configState", "hotkeyState", "retryIn", "rejected", "configError"} \subseteq DOMAIN b
    BY <1>2 DEF AppType
  <2>2. QED
    BY <1>2, <1>3, <2>1
<1> HIDE DEF c
<1>5. QED
  BY <1>1, <1>4 DEF Fresh, ErrorIsState, c

LEMMA TickHeeded ==
  ASSUME Environment, NEW s, Typed(s), Coherent(s), s.events = <<>>, Fresh(s.app),
         ErrorIsState(s.app), NEW effect \in Effects, NEW m \in Notes, Heeded(m, m, s.app)
  PROVE  LET r == TickResult(s, effect) IN
         /\ Heeded(m, Hears(m, r.events), r.app) /\ Hears(m, r.events) \in Notes
         /\ r.app.hotkeyState # "unregistered" /\ ErrorIsState(r.app)
         /\ r.events = <<>> =>
              /\ r.app.config = s.app.config /\ r.app.configState = s.app.configState
              /\ s.app.hotkeyState \in {r.app.hotkeyState, "unregistered"}
<1> DEFINE b == PollConfigFile(s.app)
           polled == [s EXCEPT !.app = b]
           applied == ApplyLoadedConfig(polled, file, effect)
           u == IF LoadDue(s.app) THEN applied ELSE polled
           r == SyncHotkeys(u, effect)
<1>1. s.app \in AppType /\ file \in Contents
      /\ (s.app.configError \in Reasons => s.app.reloadIn # NoDeadline)
  BY DEF Typed, Coherent, Scheduled, Environment
<1>2. /\ b \in AppType
      /\ b.config = s.app.config /\ b.registered = s.app.registered
      /\ b.rejected = s.app.rejected /\ b.hotkeyState = s.app.hotkeyState
      /\ ~LoadDue(s.app) => (b.configError \in Reasons => b.reloadIn # NoDeadline)
  BY <1>1, PollEffect
<1>3. b.configState = s.app.configState /\ Fresh(b) /\ ErrorIsState(b)
  BY <1>1, PollKeeps
<1>4. TickResult(s, effect) = r
  BY DEF TickResult
<1> HIDE DEF b
<1>5. Typed(polled) /\ polled.app = b /\ polled.held = s.held /\ polled.told = s.told
  BY <1>2, SetApp
<1>6. polled.events = <<>>
  BY DEF Typed
<1> HIDE DEF polled
<1>7. CaptureCoherent(polled) /\ Heeded(m, m, polled.app)
  BY <1>2, <1>3, <1>5 DEF Coherent, CaptureCoherent, Heeded
<1>8. Hears(m, <<>>) = m /\ Len(<<>>) <= 2
  BY HearsNothing
<1>9. /\ Typed(u) /\ Coherent(u) /\ Fresh(u.app) /\ ErrorIsState(u.app) /\ Len(u.events) <= 2
      /\ Heeded(m, Hears(m, u.events), u.app)
      /\ Hears(m, u.events).shown = "hotkeys" => m.shown = "hotkeys"
      /\ u.events = <<>> =>
           /\ u.app.config = s.app.config /\ u.app.configState = s.app.configState
           /\ u.app.hotkeyState = s.app.hotkeyState
  <2>1. CASE LoadDue(s.app)
    <3>1. u = applied
      BY <2>1
    <3>2. Typed(applied) /\ Coherent(applied)
      BY <1>1, <1>5, <1>7, ApplyPreserves
    <3>3. Fresh(polled.app) /\ ErrorIsState(polled.app)
      BY <1>3, <1>5
    <3>4. /\ Heeded(m, Hears(m, applied.events), applied.app)
          /\ Hears(m, applied.events).shown = "hotkeys" => m.shown = "hotkeys"
          /\ Len(applied.events) <= 2 /\ Fresh(applied.app) /\ ErrorIsState(applied.app)
          /\ applied.events = <<>> =>
               /\ applied.app.config = polled.app.config
               /\ applied.app.configState = polled.app.configState
               /\ applied.app.hotkeyState = polled.app.hotkeyState
      BY <1>1, <1>5, <1>6, <1>7, <3>3, ApplyHeeded
    <3> HIDE DEF applied, u
    <3>5. QED
      BY <1>2, <1>3, <1>5, <3>1, <3>2, <3>4
  <2>2. CASE ~LoadDue(s.app)
    <3>1. u = polled
      BY <2>2
    <3>2. Coherent(polled)
      BY <1>2, <1>5, <1>7, <2>2 DEF Coherent, Scheduled
    <3> HIDE DEF u
    <3>3. m.shown = "hotkeys" => m.shown = "hotkeys"
      OBVIOUS
    <3>4. QED
      BY <1>2, <1>3, <1>5, <1>6, <1>7, <1>8, <3>1, <3>2, <3>3
  <2>3. QED
    BY <2>1, <2>2
<1> HIDE DEF u
<1>10. /\ Heeded(m, Hears(m, r.events), r.app) /\ Hears(m, r.events) \in Notes
       /\ r.app.hotkeyState # "unregistered"
       /\ r.app.config = u.app.config /\ r.app.configState = u.app.configState
       /\ r.app.configError = u.app.configError
       /\ r.events = <<>> =>
            /\ u.events = <<>>
            /\ u.app.hotkeyState \in {r.app.hotkeyState, "unregistered"}
  BY <1>9, SyncHeeded
<1> HIDE DEF r
<1>11. ErrorIsState(r.app)
  BY <1>9, <1>10 DEF ErrorIsState
<1>12. QED
  BY <1>4, <1>9, <1>10, <1>11

\* A new App ticks on the file it was built from: nothing is loaded again.
LEMMA StartHeeded ==
  ASSUME Environment, NEW effect \in Effects, NEW m \in Notes
  PROVE  LET a == StartAt(file)
             r == TickResult([app |-> a, held |-> None, events |-> <<>>,
                              told |-> [hotkeys |-> "nothing", config |-> "startup"]], effect)
             n == Hears(m, <<StartupEvent(a)>> \o r.events) IN
         /\ Heeded(m, n, r.app) /\ n \in Notes
         /\ r.app.hotkeyState # "unregistered" /\ ErrorIsState(r.app)
<1> DEFINE a == StartAt(file)
           s == [app |-> a, held |-> None, events |-> <<>>,
                 told |-> [hotkeys |-> "nothing", config |-> "startup"]]
           e == StartupEvent(a)
           x == PolicyEvent(m, e)
           r == SyncHotkeys(s, effect)
<1>1. file \in Contents
  BY DEF Environment
<1>2. Typed(s) /\ Coherent(s)
  BY <1>1, StartIsCoherent
<1>3. /\ a.signature = SignatureOf(file) /\ a.reloadIn = NoDeadline
      /\ a.hotkeyState = "unregistered" /\ a.retryIn = 0 /\ a.rejected = None
      /\ a.configState = (IF file \in Configs THEN "loaded" ELSE file)
      /\ a.configError = (IF file \in Broken THEN file ELSE None)
  BY DEF StartAt
<1>4. Broken \cap Configs = {} /\ None \notin ConfigErrors
  BY ConstantsOK DEF ConfigErrors, Broken, None
<1>5. a \in AppType
  BY <1>2 DEF Typed
<1>6. TickResult(s, effect) = r
  <2>1. SeeFile(a) = a
    <3>1. CASE file = "unreadable"
      <4>1. a.signature = "unknown"
        BY <1>3, <3>1 DEF SignatureOf
      <4> HIDE DEF a
      <4>2. [a EXCEPT !.signature = "unknown"] = a
        BY <1>5, <4>1 DEF AppType
      <4>3. QED
        BY <3>1, <4>2 DEF SeeFile
    <3>2. CASE file # "unreadable"
      BY <1>3, <3>2 DEF SeeFile, SignatureOf
    <3>3. QED
      BY <3>1, <3>2
  <2>2. PollConfigFile(a) = a /\ (LoadDue(a) <=> file = "unreadable")
    BY <1>3, <2>1 DEF PollConfigFile, LoadDue, NoDeadline
  <2>3. [s EXCEPT !.app = a] = s
    OBVIOUS
  <2>4. file = "unreadable" => ApplyLoadedConfig(s, file, effect) = s
    <3> SUFFICES ASSUME file = "unreadable" PROVE ApplyLoadedConfig(s, file, effect) = s
      OBVIOUS
    <3>1. file \in Broken /\ a.configState = file /\ a.configError = file
      BY <1>3, <1>4 DEF Broken
    <3>2. [s EXCEPT !.app.configState = file] = s
      <4>1. [a EXCEPT !.configState = file] = a
        <5> HIDE DEF a
        <5>1. QED
          BY <1>5, <3>1 DEF AppType
      <4>2. [s EXCEPT !.app.configState = file] = [s EXCEPT !.app = [a EXCEPT !.configState = file]]
        <5> HIDE DEF a
        <5>1. QED
          OBVIOUS
      <4>3. QED
        BY <2>3, <4>1, <4>2
    <3>3. ApplyLoadedConfig(s, file, effect) = ConfigError(s, "ConfigFailed", file)
      BY <3>1, <3>2 DEF ApplyLoadedConfig
    <3>4. QED
      BY <3>1, <3>3 DEF ConfigError
  <2>5. s.app = a
    OBVIOUS
  <2> HIDE DEF s, a
  <2>6. QED
    BY <2>2, <2>3, <2>4, <2>5 DEF TickResult
<1>7. e \in Event /\ e.kind \in {"ConfigLoaded", "ConfigMissing", "ConfigFailed"}
      /\ (e.kind = "ConfigLoaded" => a.configState = "loaded")
  <2>1. a.configState \in {"loaded", "missing"} \cup ConfigErrors
    BY <1>5 DEF AppType
  <2> HIDE DEF a
  <2>2. CASE a.configState = "loaded"
    BY <2>2 DEF StartupEvent, Event
  <2>3. CASE a.configState = "missing"
    BY <2>3 DEF StartupEvent, Event
  <2>4. CASE a.configState \in ConfigErrors /\ a.configState \notin {"loaded", "missing"}
    <3>1. e = [kind |-> "ConfigFailed", why |-> a.configState]
      BY <2>4 DEF StartupEvent
    <3>2. QED
      BY <2>4, <3>1 DEF Event
  <2>5. QED
    BY <2>1, <2>2, <2>3, <2>4
<1>8. s.app = a /\ s.events = <<>>
  OBVIOUS
<1> HIDE DEF s, a, e
<1>9. /\ x \in Notes
      /\ e.kind = "ConfigFailed" => x.shown = "config"
      /\ e.kind = "ConfigLoaded" => x.shown = IF m.shown = "config" THEN None ELSE m.shown
      /\ e.kind = "ConfigMissing" => x = m
  BY <1>7, PolicyEffect DEF BadNews
<1> HIDE DEF x
<1>10. "unregistered" \notin Reasons
  BY ReasonsApart
<1>11. Heeded(m, x, s.app) /\ (x.shown = "hotkeys" => m.shown = "hotkeys")
  BY <1>3, <1>7, <1>8, <1>9, <1>10, KindsApart DEF Heeded
<1>12. Fresh(s.app) /\ ErrorIsState(s.app)
  BY <1>3, <1>4, <1>8 DEF Fresh, ErrorIsState
<1>13. Hears(x, s.events) = x /\ Len(s.events) <= 2
  BY <1>8, HearsNothing
<1>14. /\ Heeded(m, Hears(x, r.events), r.app) /\ Hears(x, r.events) \in Notes
       /\ Len(r.events) <= 3 /\ r.app.hotkeyState # "unregistered"
       /\ r.app.configState = s.app.configState /\ r.app.configError = s.app.configError
  BY <1>2, <1>9, <1>11, <1>12, <1>13, SyncHeeded
<1>15. r.events \in Seq(Event)
  BY <1>2, SyncPreserves DEF Typed
<1> HIDE DEF r
<1>16. Hears(m, <<e>> \o r.events) = Hears(x, r.events)
  BY <1>7, <1>14, <1>15, HearsFirst DEF x
<1>17. ErrorIsState(r.app)
  BY <1>12, <1>14 DEF ErrorIsState
<1>18. QED
  BY <1>6, <1>14, <1>16, <1>17 DEF s, a, e

-----------------------------------------------------------------------------
(* The passes.                                                             *)

\* A tray that was never redrawn is still to be: the App that has not yet asked for its
\* hotkeys will not report that it has them, if they are none.
ShownIInv ==
  /\ IInv /\ SurfacesTypeOK /\ OutageIsNotified /\ TrayIsCurrent
  /\ Fresh(app) /\ ErrorIsState(app)
  /\ app.hotkeyState = "unregistered" => tray.dirty

ResolutionStep ==
  notes.shown # None /\ notes'.shown = None =>
    IF notes.shown = "config" THEN app'.configState = "loaded"
    ELSE app'.hotkeyState = "registered"

ShownStep ==
  SurfacesTypeOK' /\ OutageIsNotified' /\ TrayIsCurrent' /\ ResolutionStep

LEMMA TickOfPolicy ==
  ASSUME NEW n \in Notes
  PROVE  /\ PolicyTick(n) \in Notes
         /\ OutageDue(n) => PolicyTick(n).shown = "hotkeys"
         /\ ~OutageDue(n) => PolicyTick(n) = n
<1>1. NoOutage \in NoOutage .. Grace
  BY GraceOK DEF NoOutage
<1>2. CASE OutageDue(n)
  <2>1. PolicyTick(n) = [[n EXCEPT !.outage = NoOutage] EXCEPT !.shown = "hotkeys"]
    BY <1>2 DEF PolicyTick, Problem
  <2>2. QED
    BY <1>1, <1>2, <2>1 DEF Notes, Kinds
<1>3. CASE ~OutageDue(n)
  BY <1>3 DEF PolicyTick
<1>4. QED
  BY <1>2, <1>3

\* The tray is redrawn, or remembers that it is not.
LEMMA RefreshKeeps ==
  ASSUME tray \in [dirty : BOOLEAN, current : BOOLEAN], tray.dirty \/ tray.current,
         NEW changed \in BOOLEAN, NEW reported \in BOOLEAN, Refresh(changed, reported),
         changed => reported \/ tray.dirty
  PROVE  tray' \in [dirty : BOOLEAN, current : BOOLEAN] /\ (tray'.dirty \/ tray'.current)
<1>1. PICK failed \in BOOLEAN :
        tray' = [dirty |-> (tray.dirty \/ reported) /\ failed /\ ~(tray.current /\ ~changed),
                 current |-> (tray.current /\ ~changed)
                               \/ ((tray.dirty \/ reported) /\ ~failed)]
  BY DEF Refresh
<1> DEFINE d == (tray.dirty \/ reported) /\ failed /\ ~(tray.current /\ ~changed)
           c == (tray.current /\ ~changed) \/ ((tray.dirty \/ reported) /\ ~failed)
<1>2. d \in BOOLEAN /\ c \in BOOLEAN
  OBVIOUS
<1>3. d \/ c
  OBVIOUS
<1>4. tray' = [dirty |-> d, current |-> c]
  BY <1>1
<1> HIDE DEF d, c
<1>5. tray'.dirty = d /\ tray'.current = c
  BY <1>4
<1>6. QED
  BY <1>2, <1>3, <1>4, <1>5

\* Whatever a pass reports, if what is heard of it is heeded and the App changes nothing
\* that it does not report.
LEMMA ReportStep ==
  ASSUME SurfacesTypeOK, TrayIsCurrent,
         NEW reports, NEW other \in BOOLEAN, Report(reports, other),
         Hears(notes, reports) \in Notes, Heeded(notes, Hears(notes, reports), app'),
         StatusLines(app) # StatusLines(app') => other \/ reports # <<>> \/ tray.dirty
  PROVE  ShownStep
<1> DEFINE n == Hears(notes, reports)
           changed == StatusLines(app) # StatusLines(app')
           reported == other \/ reports # <<>>
<1>1. /\ notes' = PolicyTick(n)
      /\ Refresh(changed, reported)
      /\ warned' = (app'.hotkeyState \in Reasons /\ (OutageDue(n) \/ warned))
  BY DEF Report
<1>2. n \in Notes /\ notes' \in Notes
  BY <1>1, TickOfPolicy
<1>3. tray' \in [dirty : BOOLEAN, current : BOOLEAN] /\ (tray'.dirty \/ tray'.current)
  <2>1. /\ tray \in [dirty : BOOLEAN, current : BOOLEAN] /\ (tray.dirty \/ tray.current)
        /\ changed \in BOOLEAN /\ reported \in BOOLEAN
        /\ changed => reported \/ tray.dirty
    BY DEF SurfacesTypeOK, TrayIsCurrent
  <2> HIDE DEF changed, reported
  <2>2. QED
    BY <1>1, <2>1, RefreshKeeps
<1>4. warned' \in BOOLEAN
  BY <1>1
<1>5. SurfacesTypeOK' /\ TrayIsCurrent'
  BY <1>2, <1>3, <1>4 DEF SurfacesTypeOK, TrayIsCurrent, Notes
<1> HIDE DEF n, changed, reported
<1>6. Heeded(notes, n, app')
  BY DEF n
<1>7. CASE OutageDue(n)
  <2>1. OutageIsNotified'
    BY <1>1, <1>7 DEF OutageIsNotified
  <2>2. notes'.shown = "hotkeys"
    BY <1>1, <1>2, <1>7, TickOfPolicy
  <2>3. QED
    BY <1>5, <2>1, <2>2, KindsApart DEF ShownStep, ResolutionStep
<1>8. CASE ~OutageDue(n)
  <2>1. notes' = n
    BY <1>1, <1>2, <1>8, TickOfPolicy
  <2>2. OutageIsNotified'
    BY <1>1, <1>6, <2>1 DEF OutageIsNotified, Heeded
  <2>3. notes.shown \in {"config", "hotkeys", None}
    BY DEF SurfacesTypeOK, Kinds
  <2>4. ResolutionStep
    BY <1>6, <2>1, <2>3 DEF ResolutionStep, Heeded
  <2>5. QED
    BY <1>5, <2>2, <2>4 DEF ShownStep
<1>9. QED
  BY <1>7, <1>8

LEMMA StillHeeded ==
  ASSUME ShownIInv
  PROVE  /\ notes \in Notes /\ Heeded(notes, notes, app)
         /\ Environment /\ app \in AppType
         /\ Typed(Running(app)) /\ Coherent(Running(app))
<1>1. notes \in Notes
  BY DEF ShownIInv, SurfacesTypeOK, Notes
<1>2. Heeded(notes, notes, app)
  BY KindsApart DEF ShownIInv, OutageIsNotified, Heeded
<1>3. QED
  BY <1>1, <1>2, RunningIsCoherent DEF ShownIInv

LEMMA PassTicksStep == ShownIInv /\ PassTicks => ShownIInv' /\ ResolutionStep
<1> SUFFICES ASSUME ShownIInv, Tick, Report(events', FALSE) PROVE ShownIInv' /\ ResolutionStep
  BY DEF PassTicks
<1> DEFINE s == Running(app)
<1>1. PICK effect \in Effects : Return(TickResult(s, effect))
  BY DEF Tick
<1> DEFINE r == TickResult(s, effect)
<1>2. app' = r.app /\ events' = r.events
  BY <1>1 DEF Return
<1>3. s.app = app /\ s.events = <<>>
  BY DEF Running
<1>4. /\ notes \in Notes /\ Heeded(notes, notes, s.app)
      /\ Environment /\ Typed(s) /\ Coherent(s)
  BY <1>3, StillHeeded
<1>5. Fresh(s.app) /\ ErrorIsState(s.app)
  BY <1>3 DEF ShownIInv
<1> HIDE DEF s
<1>6. /\ Heeded(notes, Hears(notes, r.events), r.app) /\ Hears(notes, r.events) \in Notes
      /\ r.app.hotkeyState # "unregistered" /\ ErrorIsState(r.app)
      /\ r.events = <<>> =>
           /\ r.app.config = s.app.config /\ r.app.configState = s.app.configState
           /\ s.app.hotkeyState \in {r.app.hotkeyState, "unregistered"}
  BY <1>3, <1>4, <1>5, TickHeeded
<1> HIDE DEF r
<1>7. StatusLines(app) # StatusLines(app') => r.events # <<>> \/ tray.dirty
  BY <1>2, <1>3, <1>6 DEF StatusLines, ShownIInv
<1>8. Report(r.events, FALSE)
  BY <1>2
<1>9. ShownStep
  BY <1>2, <1>6, <1>7, <1>8, ReportStep DEF ShownIInv
<1>10. IInv'
  BY TickStep DEF ShownIInv
<1>11. Fresh(app)' /\ ErrorIsState(app)' /\ app'.hotkeyState # "unregistered"
  BY <1>2, <1>6 DEF Fresh, ErrorIsState, ConfigErrors, Broken
<1>12. QED
  BY <1>9, <1>10, <1>11 DEF ShownStep, ShownIInv

LEMMA PassReloadsStep == ShownIInv /\ PassReloads => ShownIInv' /\ ResolutionStep
<1> SUFFICES ASSUME ShownIInv, Reload, Report(events', TRUE) PROVE ShownIInv' /\ ResolutionStep
  BY DEF PassReloads
<1> DEFINE loaded == [app EXCEPT !.reloadIn = NoDeadline, !.configError = None,
                                 !.signature = SignatureOf(file)]
           s == Running(loaded)
<1>1. PICK effect \in Effects :
        Return(SyncHotkeys(ApplyLoadedConfig(s, file, effect), effect))
  BY DEF Reload
<1>2. /\ notes \in Notes /\ Heeded(notes, notes, app) /\ Environment /\ app \in AppType
      /\ Typed(Running(app)) /\ Coherent(Running(app))
  BY StillHeeded
<1>3. file \in Contents
  BY <1>2 DEF Environment
<1>4. loaded \in AppType
  <2>1. SignatureOf(file) \in (Contents \ Broken) \cup {"invalid", "unknown"}
    BY <1>3 DEF SignatureOf, Broken
  <2>2. QED
    BY <2>1, <1>2, Deadlines DEF AppType
<1>5. /\ loaded.config = app.config /\ loaded.registered = app.registered
      /\ loaded.rejected = app.rejected /\ loaded.hotkeyState = app.hotkeyState
      /\ loaded.retryIn = app.retryIn /\ loaded.configError = None
      /\ loaded.configState = app.configState
  BY <1>2 DEF AppType
<1> HIDE DEF loaded
<1>6. /\ s.app = loaded /\ s.events = <<>> /\ Running(app).app = app
      /\ s.held = Running(app).held /\ s.told = Running(app).told
  BY DEF Running
<1>7. Typed(s) /\ CaptureCoherent(s)
  <2>1. Typed(s)
    BY <1>2, <1>4 DEF Typed, Running
  <2> HIDE DEF s
  <2>2. QED
    BY <1>2, <1>5, <1>6, <2>1 DEF Coherent, CaptureCoherent
<1>8. /\ Fresh(s.app) /\ ErrorIsState(s.app) /\ Heeded(notes, notes, s.app)
  <2>1. None \notin ConfigErrors
    BY DEF ConfigErrors, Broken, None
  <2> HIDE DEF s
  <2>2. QED
    BY <1>2, <1>5, <1>6, <2>1 DEF ShownIInv, Fresh, ErrorIsState, Heeded
<1> DEFINE u == ApplyLoadedConfig(s, file, effect)
           r == SyncHotkeys(u, effect)
<1>9. app' = r.app /\ events' = r.events
  BY <1>1 DEF Return
<1> HIDE DEF s
<1>10. Typed(u) /\ Coherent(u)
  BY <1>2, <1>3, <1>7, ApplyPreserves
<1>11. /\ Heeded(notes, Hears(notes, u.events), u.app)
       /\ Hears(notes, u.events).shown = "hotkeys" => notes.shown = "hotkeys"
       /\ Len(u.events) <= 2 /\ Fresh(u.app) /\ ErrorIsState(u.app)
  BY <1>2, <1>3, <1>6, <1>7, <1>8, ApplyHeeded
<1> HIDE DEF u
<1>12. /\ Heeded(notes, Hears(notes, r.events), r.app) /\ Hears(notes, r.events) \in Notes
       /\ r.app.hotkeyState # "unregistered"
       /\ r.app.configState = u.app.configState /\ r.app.configError = u.app.configError
  BY <1>2, <1>10, <1>11, SyncHeeded
<1> HIDE DEF r
<1>13. ShownStep
  <2>1. Report(r.events, TRUE)
    BY <1>9
  <2>2. QED
    BY <1>9, <1>12, <2>1, ReportStep DEF ShownIInv
<1>14. IInv'
  BY ReloadStep DEF ShownIInv
<1>15. Fresh(app)' /\ ErrorIsState(app)' /\ app'.hotkeyState # "unregistered"
  BY <1>9, <1>11, <1>12 DEF Fresh, ErrorIsState, ConfigErrors, Broken
<1>16. QED
  BY <1>13, <1>14, <1>15 DEF ShownStep, ShownIInv

LEMMA PassLosesStep == ShownIInv /\ PassLoses => ShownIInv' /\ ResolutionStep
<1> SUFFICES ASSUME ShownIInv, HotkeysLost, Report(events', FALSE)
             PROVE  ShownIInv' /\ ResolutionStep
  BY DEF PassLoses
<1> DEFINE a == [app EXCEPT !.registered = None, !.retryIn = 0]
           s == Running(a)
<1>1. PICK why \in Reasons : Return(HotkeyFailed(s, why))
  BY DEF HotkeysLost
<1>2. /\ notes \in Notes /\ Heeded(notes, notes, app) /\ Environment /\ app \in AppType
      /\ Typed(Running(app)) /\ Coherent(Running(app))
  BY StillHeeded
<1>3. app.hotkeyState = "registered"
  BY DEF HotkeysLost, ShownIInv, IInv, ToldMatchesState
<1>4. why \notin {"registered", "unregistered"} /\ why \in HotkeyErrors
  BY ReasonsApart
<1>5. a \in AppType
  BY <1>2, Deadlines DEF AppType, Capture
<1>6. /\ a.hotkeyState = "registered" /\ a.config = app.config
      /\ a.configState = app.configState /\ a.configError = app.configError
  BY <1>2, <1>3 DEF AppType
<1> HIDE DEF a
<1>7. s.app = a /\ s.events = <<>>
  BY DEF Running
<1>8. Typed(s)
  BY <1>2, <1>5 DEF Typed, Running
<1> DEFINE r == HotkeyFailed(s, why)
           e == [kind |-> "HotkeysUnavailable", why |-> why]
<1>9. app' = r.app /\ events' = r.events
  BY <1>1 DEF Return
<1> HIDE DEF s
<1>10. r.app = [s.app EXCEPT !.hotkeyState = why]
  <2>1. s.app.hotkeyState = why => s.told.hotkeys = why
    BY <1>4, <1>6, <1>7
  <2>2. QED
    BY <1>8, <2>1, HotkeyFailedEffect
<1>11. r.events = Append(<<>>, e)
  <2>1. r.events = IF s.app.hotkeyState = why THEN s.events ELSE Append(s.events, e)
    BY <1>8, HotkeyFailedTells
  <2> HIDE DEF r, e
  <2>2. QED
    BY <1>4, <1>6, <1>7, <2>1
<1>12. /\ r.app.hotkeyState = why
       /\ r.app.configState = app.configState /\ r.app.configError = app.configError
  BY <1>5, <1>6, <1>7, <1>10 DEF AppType
<1>13. e \in Event /\ e.kind = "HotkeysUnavailable"
  BY <1>4 DEF Event
<1> HIDE DEF r, e
<1> DEFINE y == Hears(notes, r.events)
<1>14. y \in Notes /\ y = PolicyEvent(notes, e) /\ r.events # <<>>
  <2>1. <<>> \in Seq(Event) /\ Len(<<>>) <= 3 /\ Hears(notes, <<>>) = notes
    BY HearsNothing
  <2>2. QED
    BY <1>2, <1>11, <1>13, <2>1, HearsReport
<1> HIDE DEF y
<1>15. y.outage # NoOutage /\ y.shown = notes.shown
  BY <1>2, <1>13, <1>14, PolicyEffect
<1>16. Heeded(notes, y, r.app)
  BY <1>15, KindsApart DEF Heeded
<1>17. ShownStep
  <2>1. Report(r.events, FALSE)
    BY <1>9
  <2>2. QED
    BY <1>9, <1>14, <1>16, <2>1, ReportStep DEF ShownIInv, y
<1>18. IInv'
  BY HotkeysLostStep DEF ShownIInv
<1>19. Fresh(app)' /\ ErrorIsState(app)' /\ app'.hotkeyState # "unregistered"
  BY <1>4, <1>9, <1>12 DEF ShownIInv, Fresh, ErrorIsState, ConfigErrors, Broken
<1>20. QED
  BY <1>17, <1>18, <1>19 DEF ShownStep, ShownIInv

LEMMA PassRestartsStep == ShownIInv /\ PassRestarts => ShownIInv' /\ ResolutionStep
<1> SUFFICES ASSUME ShownIInv, Restart,
                    Report(<<StartupEvent(StartAt(file))>> \o events', TRUE)
             PROVE  ShownIInv' /\ ResolutionStep
  BY DEF PassRestarts
<1> DEFINE s == [app |-> StartAt(file), held |-> None, events |-> <<>>,
                 told |-> [hotkeys |-> "nothing", config |-> "startup"]]
<1>1. PICK effect \in Effects : Return(TickResult(s, effect))
  BY DEF Restart
<1> DEFINE r == TickResult(s, effect)
           q == <<StartupEvent(StartAt(file))>> \o r.events
<1>2. app' = r.app /\ events' = r.events
  BY <1>1 DEF Return
<1>3. notes \in Notes /\ Environment
  BY StillHeeded
<1>4. /\ Heeded(notes, Hears(notes, q), r.app) /\ Hears(notes, q) \in Notes
      /\ r.app.hotkeyState # "unregistered" /\ ErrorIsState(r.app)
  BY <1>3, StartHeeded
<1> HIDE DEF r
<1>5. Report(q, TRUE)
  BY <1>2
<1> HIDE DEF q
<1>6. ShownStep
  BY <1>2, <1>4, <1>5, ReportStep DEF ShownIInv
<1>7. IInv'
  BY RestartStep DEF ShownIInv
<1>8. Fresh(app)' /\ ErrorIsState(app)' /\ app'.hotkeyState # "unregistered"
  BY <1>2, <1>4 DEF Fresh, ErrorIsState, ConfigErrors, Broken
<1>9. QED
  BY <1>6, <1>7, <1>8 DEF ShownStep, ShownIInv

\* A step that leaves the App, what is held and what was told.
LEMMA AppStays ==
  ASSUME IInv, UNCHANGED <<environment, app, held, told>>, events' = <<>>
  PROVE  IInv'
<1>1. TypeOK'
  BY DEF IInv, TypeOK, environment
<1>2. RegisteredIsActive' /\ ToldMatchesState' /\ PendingIsScheduled' /\ RefusalIsCurrent'
  BY DEF IInv, RegisteredIsActive, ToldMatchesState, PendingIsScheduled, RefusalIsCurrent
<1>3. QED
  BY <1>1, <1>2 DEF IInv

LEMMA PassIdlesStep == ShownIInv /\ PassIdles => ShownIInv' /\ ResolutionStep
<1> SUFFICES ASSUME ShownIInv, PassIdles PROVE ShownIInv' /\ ResolutionStep
  OBVIOUS
<1>1. PICK other \in BOOLEAN : Report(<<>>, other)
  BY DEF PassIdles
<1>2. /\ app.hotkeyState # "unregistered" /\ events' = <<>>
      /\ UNCHANGED <<environment, app, held, told>>
  BY DEF PassIdles
<1>3. /\ notes \in Notes /\ Heeded(notes, notes, app)
      /\ Hears(notes, <<>>) = notes
  BY StillHeeded, HearsNothing
<1>4. ShownStep
  BY <1>1, <1>2, <1>3, ReportStep DEF ShownIInv
<1>5. IInv'
  BY <1>2, AppStays DEF ShownIInv
<1>6. QED
  BY <1>2, <1>4, <1>5 DEF ShownStep, ShownIInv, Fresh, ErrorIsState, ConfigErrors, Broken

\* An outage that waits grows older, up to its grace.
LEMMA WaitStep == ShownIInv /\ Wait => ShownIInv' /\ ResolutionStep
<1> SUFFICES ASSUME ShownIInv, Wait PROVE ShownIInv' /\ ResolutionStep
  OBVIOUS
<1>1. IInv'
  BY PassStep, AppStays DEF Wait, ShownIInv
<1>2. /\ notes \in Notes /\ app \in AppType
  BY StillHeeded
<1>3. UNCHANGED <<tray, warned>> /\ ~OutageDue(notes)
  BY DEF Wait
<1>4. notes' = [notes EXCEPT !.outage = IF @ = NoOutage THEN @ ELSE @ + 1]
  BY DEF Wait
<1>5. /\ notes' \in Notes /\ notes'.shown = notes.shown
      /\ notes.outage # NoOutage => notes'.outage # NoOutage
  <2>1. \A k \in NoOutage .. Grace :
          k < Grace => (IF k = NoOutage THEN k ELSE k + 1) \in NoOutage .. Grace
    BY GraceOK DEF NoOutage
  <2>2. notes.outage \in NoOutage .. Grace /\ notes.outage < Grace
    BY <1>2, <1>3, GraceOK DEF Notes, OutageDue, NoOutage
  <2>3. \A k \in NoOutage .. Grace : k # NoOutage => k + 1 # NoOutage
    BY GraceOK DEF NoOutage
  <2>4. QED
    BY <1>2, <1>4, <2>1, <2>2, <2>3 DEF Notes
<1>6. /\ app'.hotkeyState = app.hotkeyState /\ app'.configState = app.configState
      /\ app'.configError = app.configError /\ app'.rejected = app.rejected
      /\ app.retryIn = 0 => app'.retryIn = 0
  <2>1. CASE Pass
    BY <1>2, <2>1 DEF Pass, AppType
  <2>2. CASE UNCHANGED app
    BY <2>2
  <2>3. QED
    BY <2>1, <2>2 DEF Wait
<1>7. SurfacesTypeOK' /\ TrayIsCurrent'
  BY <1>3, <1>5 DEF ShownIInv, SurfacesTypeOK, TrayIsCurrent, Notes
<1>8. OutageIsNotified'
  BY <1>3, <1>5, <1>6 DEF ShownIInv, OutageIsNotified
<1>9. Fresh(app)' /\ ErrorIsState(app)' /\ (app'.hotkeyState = "unregistered" => tray'.dirty)
  BY <1>3, <1>6 DEF ShownIInv, Fresh, ErrorIsState, ConfigErrors, Broken
<1>10. ResolutionStep
  BY <1>5 DEF ResolutionStep
<1>11. QED
  BY <1>1, <1>7, <1>8, <1>9, <1>10 DEF ShownIInv

LEMMA WorldStep ==
  ShownIInv /\ (World \/ UNCHANGED allVars) => ShownIInv' /\ ResolutionStep
<1> SUFFICES ASSUME ShownIInv, World \/ UNCHANGED allVars PROVE ShownIInv' /\ ResolutionStep
  OBVIOUS
<1>1. UNCHANGED <<app, notes, tray, warned>>
  BY DEF World, allVars, view, vars, EditFile, ServiceChanges, RefusalsChange
<1>2. IInv'
  <2>1. CASE World
    BY <2>1, EnvironmentStep DEF World, ShownIInv
  <2>2. CASE UNCHANGED allVars
    BY <2>2, SessionStep DEF allVars, ShownIInv
  <2>3. QED
    BY <2>1, <2>2
<1>3. QED
  BY <1>1, <1>2 DEF ShownIInv, SurfacesTypeOK, OutageIsNotified, TrayIsCurrent, Fresh,
                    ErrorIsState, ResolutionStep, ConfigErrors, Broken

LEMMA ShownInitially == SurfacesInit => ShownIInv
<1> SUFFICES ASSUME SurfacesInit PROVE ShownIInv
  OBVIOUS
<1>1. IInv /\ app = StartAt(file) /\ file \in Contents
  BY InitialInvariant DEF SurfacesInit, Init
<1>2. /\ app.hotkeyState = "unregistered" /\ app.retryIn = 0 /\ app.rejected = None
      /\ app.configState = (IF file \in Configs THEN "loaded" ELSE file)
      /\ app.configError = (IF file \in Broken THEN file ELSE None)
  BY <1>1 DEF StartAt
<1>3. /\ Broken \cap Configs = {} /\ None \notin ConfigErrors
      /\ "unregistered" \notin Reasons
  BY ConstantsOK DEF ConfigErrors, Broken, None
<1>4. Fresh(app) /\ ErrorIsState(app) /\ OutageIsNotified
  BY <1>2, <1>3 DEF Fresh, ErrorIsState, OutageIsNotified
<1>5. StartupEvent(app) \in Event
  <2>1. app.configState \in {"loaded", "missing"} \cup ConfigErrors
    BY <1>1 DEF IInv, TypeOK, AppType
  <2>2. QED
    BY <2>1 DEF StartupEvent, Event
<1>6. [outage |-> NoOutage, shown |-> None] \in Notes
  BY GraceOK DEF Notes, NoOutage
<1>7. notes \in Notes
  BY <1>5, <1>6, PolicyEffect DEF SurfacesInit
<1>8. SurfacesTypeOK /\ TrayIsCurrent /\ tray.dirty
  BY <1>7 DEF SurfacesInit, SurfacesTypeOK, TrayIsCurrent, Notes
<1>9. QED
  BY <1>1, <1>4, <1>8 DEF ShownIInv

LEMMA ShownInduction == ShownIInv /\ [SurfacesNext]_allVars => ShownIInv' /\ ResolutionStep
BY PassTicksStep, PassIdlesStep, PassReloadsStep, PassLosesStep, PassRestartsStep, WaitStep,
   WorldStep DEF SurfacesNext

LEMMA ShownInvariance == SurfacesSpec => []ShownIInv
BY ShownInitially, ShownInduction, PTL DEF SurfacesSpec

\* However many events a pass makes, and whatever update of a label fails: the tray shows the
\* state of the App, or knows that it does not.
THEOREM SurfacesStayCurrent == SurfacesSpec => []SurfacesAreCurrent
<1>1. ShownIInv => SurfacesAreCurrent
  BY DEF ShownIInv, SurfacesAreCurrent
<1>2. QED
  BY <1>1, ShownInvariance, PTL

\* No outage that the App reports is forgotten, whatever else is shown, reloaded or restarted
\* while it waits: it is notified, or its grace period runs.
THEOREM OutagesStayNotified == SurfacesSpec => []OutageIsNotified
<1>1. ShownIInv => OutageIsNotified
  BY DEF ShownIInv
<1>2. QED
  BY <1>1, ShownInvariance, PTL

\* What goes from the screen is over.
THEOREM ResolutionsStayTrue == SurfacesSpec => ResolutionIsTrue
<1>1. ShownIInv /\ [SurfacesNext]_allVars =>
        [notes.shown # None /\ notes'.shown = None =>
           IF notes.shown = "config" THEN app'.configState = "loaded"
           ELSE app'.hotkeyState = "registered"]_allVars
  BY ShownInduction DEF ResolutionStep
<1>2. QED
  BY <1>1, ShownInvariance, PTL DEF SurfacesSpec, ResolutionIsTrue
=============================================================================
