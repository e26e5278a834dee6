---------------------------- MODULE GnomeHotkeys ----------------------------
(***************************************************************************)
(* Hotkeys on GNOME: the App's GnomeHotkeySystem (gnome_integration.rs) and *)
(* the service inside GNOME Shell (gnome-extension/extension.js), which    *)
(* grabs accelerators for at most one App, its controller.                 *)
(*                                                                         *)
(* The shell handles one message at a time, in the order of inbox.  The    *)
(* App blocks in its calls, so a call is one step, unless it is given up   *)
(* after a second: then it stays in the inbox and is handled late.  What   *)
(* was sent to an App waits in its socket until its next poll, which reads *)
(* all of it before it looks at any: the presses in order, and whether the *)
(* service was gone.  An accelerator is grabbed once, so it stands for its *)
(* action.                                                                 *)
(***************************************************************************)
EXTENDS Integers, Sequences, FiniteSets, SequencesExt

CONSTANTS
  Apps,          \* App processes
  Keys,          \* accelerators
  Sets,          \* the hotkey sets of the configs
  Contested,     \* accelerators that other programs take now and then
  Connections,   \* unique bus names of App connections, reused when forgotten
  None,          \* no connection, and "nothing known to be registered"
  MaxPresses,    \* bound on the presses an App has not taken yet
  MaxFaults      \* bound on crashes, restarts, stalls and conflicts

ASSUME ConstantsOK ==
  /\ Sets \subseteq SUBSET Keys
  /\ Contested \subseteq Keys
  /\ None \notin Connections
  /\ \A keys \in SUBSET Keys : None # keys
  /\ MaxPresses \in Nat
  /\ MaxFaults \in Nat

VARIABLES
  app,        \* each App: its GnomeHotkeySystem, and the set it believes held
  service,    \* WindowZonesService
  grabs,      \* the accelerators that Mutter has grabbed for the service
  taken,      \* the accelerators that other programs own
  inbox,      \* messages on their way to the service
  faults      \* how many faults there were

vars == <<app, service, grabs, taken, inbox, faults>>

\* A press, with what the App has been told since: lost says that it gave the
\* registration up that the press was made under.
Press == [key : Keys, lost : BOOLEAN]
Message == [kind : {"register"}, sender : Connections, set : SUBSET Keys]
           \cup [kind : {"lost"}, sender : Connections]

AppState == [running : BOOLEAN, draining : BOOLEAN, conn : Connections \cup {None},
             held : {None} \cup SUBSET Keys, serviceLost : BOOLEAN,
             events : Seq(Press), socket : Seq(Press), gone : BOOLEAN]

TypeOK ==
  /\ app \in [Apps -> AppState]
  /\ service \in [up : BOOLEAN, accelerators : SUBSET Keys,
                  controller : Connections \cup {None}]
  /\ grabs \subseteq Keys
  /\ taken \subseteq Contested
  /\ inbox \in Seq(Message)
  /\ faults \in 0 .. MaxFaults

Calm == UNCHANGED faults
Fault == faults < MaxFaults /\ faults' = faults + 1

Posted(messages) == IF service.up THEN inbox \o messages ELSE inbox

-----------------------------------------------------------------------------
(* WindowZonesService.                                                     *)

Service == [up |-> TRUE, accelerators |-> {}, controller |-> None]

Busy(sender) == service.controller \notin {None, sender}

\* What GNOME refuses: accelerators of others.
Refused(set) == (set \ service.accelerators) \cap taken

RegistrationRefused(set, granted) ==
  /\ grabs' = (grabs \cup granted) \ granted
  /\ UNCHANGED service

\* _registerHotkeys otherwise: the missing accelerators are grabbed, those not
\* wanted any more released, and an empty set gives the control up.
RegistrationReplaced(sender, set) ==
  /\ grabs' = (grabs \cup set) \ (service.accelerators \ set)
  /\ service' = [service EXCEPT !.accelerators = set,
                                !.controller = IF set = {} THEN None ELSE sender]

RegisterHotkeys(sender, set) ==
  \/ Busy(sender) /\ UNCHANGED <<service, grabs>>
  \/ /\ ~Busy(sender)
     /\ Refused(set) # {}
     /\ \E granted \in SUBSET (set \ (service.accelerators \cup taken)) :
          RegistrationRefused(set, granted)
  \/ ~Busy(sender) /\ Refused(set) = {} /\ RegistrationReplaced(sender, set)

\* The late half of a call whose caller has given up.
HandleRegister ==
  /\ service.up /\ inbox # <<>> /\ Head(inbox).kind = "register"
  /\ RegisterHotkeys(Head(inbox).sender, Head(inbox).set)
  /\ inbox' = Tail(inbox)
  /\ Calm
  /\ UNCHANGED <<app, taken>>

\* NameOwnerChanged: the controller has left the bus.
HandleLost ==
  /\ service.up /\ inbox # <<>> /\ Head(inbox).kind = "lost"
  /\ IF Head(inbox).sender = service.controller
     THEN /\ grabs' = grabs \ service.accelerators
          /\ service' = [service EXCEPT !.accelerators = {}, !.controller = None]
     ELSE UNCHANGED <<service, grabs>>
  /\ inbox' = Tail(inbox)
  /\ Calm
  /\ UNCHANGED <<app, taken>>

Pending(a) == Len(app[a].events) + Len(app[a].socket)

\* _emitHotkey: a grabbed accelerator is pressed; the controller is sent a signal,
\* which is lost if it has just left the bus.
EmitHotkey == \E key \in service.accelerators \cap grabs, a \in Apps :
  /\ service.up
  /\ service.controller = app[a].conn
  /\ Pending(a) < MaxPresses
  /\ app' = [app EXCEPT ![a].socket =
               Append(@, [key |-> key, lost |-> FALSE])]
  /\ Calm
  /\ UNCHANGED <<service, grabs, taken, inbox>>

\* The bus tells every connection that the service's name has no owner any more.
Bereaved ==
  [a \in Apps |-> [app[a] EXCEPT !.gone = @ \/ app[a].conn # None]]

\* disable, and destroy inside it: the screen is locked, the extension is switched
\* off, or the shell dies.  Calls on their way fail.
Disable ==
  /\ service.up
  /\ Fault
  /\ grabs' = grabs \ service.accelerators
  /\ service' = [Service EXCEPT !.up = FALSE]
  /\ app' = Bereaved
  /\ inbox' = <<>>
  /\ UNCHANGED taken

Enable ==
  /\ ~service.up
  /\ service' = Service
  /\ Calm
  /\ UNCHANGED <<app, grabs, taken, inbox>>

KeyTaken == \E key \in Contested \ (grabs \cup taken) :
  /\ Fault
  /\ taken' = taken \cup {key}
  /\ UNCHANGED <<app, service, grabs, inbox>>

KeyFreed == \E key \in taken :
  /\ taken' = taken \ {key}
  /\ Calm
  /\ UNCHANGED <<app, service, grabs, inbox>>

-----------------------------------------------------------------------------
(* GnomeHotkeySystem.                                                      *)

InUse == {app[a].conn : a \in Apps} \cup {service.controller}
         \cup {inbox[i].sender : i \in DOMAIN inbox}
CanConnect(a) == app[a].conn # None \/ Connections \ InUse # {}

\* ensure_connection, and connect inside it.
Connected(a) ==
  IF app[a].conn # None THEN app[a]
  ELSE [app[a] EXCEPT !.conn = CHOOSE c \in Connections : c \notin InUse,
                      !.serviceLost = FALSE, !.events = <<>>]

\* The App takes its hotkeys for lost, and with them what was pressed so far.
GivenUp(presses) ==
  [i \in DOMAIN presses |-> [presses[i] EXCEPT !.lost = TRUE]]
Unregistered(s) ==
  [s EXCEPT !.held = None, !.draining = FALSE,
            !.events = GivenUp(@), !.socket = GivenUp(@)]

\* Mutants: the connection is kept, and with it what it has queued; or it is kept
\* and taken for lost ever after.
ResetKeepingConnection(s) == [s EXCEPT !.serviceLost = FALSE]
ResetKeepingLoss(s) == [s EXCEPT !.events = <<>>]

\* reset_connection: leaving the bus drops what was sent to the old name.
ResetConnection(s) ==
  [s EXCEPT !.conn = None, !.events = <<>>, !.socket = <<>>, !.gone = FALSE]

\* What the service learns of a connection that closes.
Farewell(before, s) ==
  IF before.conn # s.conn /\ before.conn # None
  THEN Posted(<<[kind |-> "lost", sender |-> before.conn]>>) ELSE inbox

Becomes(a, s) ==
  /\ app' = [app EXCEPT ![a] = s]
  /\ inbox' = Farewell(app[a], s)

\* The runner asks for a set it does not hold.  After a registration its pass goes
\* on to take every press that is there before it asks for another.
Asks(a, set) == app[a].running /\ ~app[a].draining /\ app[a].held # set

\* register_hotkeys, answered: ok, Rejected (the previous set stays), or Busy.
AppRegisters(a) == \E set \in Sets :
  LET s == Connected(a)
      failed == [s EXCEPT !.events = <<>>]
  IN /\ Asks(a, set)
     /\ CanConnect(a)
     /\ service.up /\ inbox = <<>>
     /\ RegisterHotkeys(s.conn, set)
     /\ Becomes(a, IF Busy(s.conn) THEN Unregistered(failed)
                   ELSE IF Refused(set) # {} THEN failed
                   ELSE [s EXCEPT !.held = set, !.draining = TRUE])
     /\ Calm
     /\ UNCHANGED taken

\* register_hotkeys while no service is there: Unavailable.
AppRegistersInVain(a) ==
  /\ \E set \in Sets : Asks(a, set)
  /\ ~service.up
  /\ Becomes(a, ResetConnection(Unregistered(app[a])))
  /\ Calm
  /\ UNCHANGED <<service, grabs, taken>>

\* register_hotkeys without an answer for a second: the call is in the inbox.
AppRegistersLate(a) == \E set \in Sets :
  LET s == Connected(a)
  IN /\ Asks(a, set)
     /\ CanConnect(a)
     /\ service.up
     /\ Fault
     /\ app' = [app EXCEPT ![a] = ResetConnection(Unregistered(s))]
     /\ inbox' = inbox \o <<[kind |-> "register", sender |-> s.conn, set |-> set],
                            [kind |-> "lost", sender |-> s.conn]>>
     /\ UNCHANGED <<service, grabs, taken>>

\* What next_hotkey reads from the socket.
Processed(s) ==
  [s EXCEPT !.events = @ \o s.socket, !.socket = <<>>,
            !.serviceLost = @ \/ s.gone, !.gone = FALSE]

\* Mutant: presses are taken before the service is asked after.
AppPollsPressesFirst(a) ==
  LET s == Processed(app[a])
  IN /\ app[a].running /\ app[a].held # None
     /\ IF s.serviceLost /\ s.events = <<>> THEN Becomes(a, ResetConnection(Unregistered(s)))
        ELSE Becomes(a, IF s.events = <<>> THEN [s EXCEPT !.draining = FALSE]
                        ELSE [s EXCEPT !.events = Tail(@), !.serviceLost = FALSE])
     /\ Calm
     /\ UNCHANGED <<service, grabs, taken>>

\* next_hotkey, and hotkeys_lost if it fails.
AppPolls(a) ==
  LET s == Processed(app[a])
  IN /\ app[a].running /\ app[a].held # None
     /\ IF s.serviceLost THEN Becomes(a, ResetConnection(Unregistered(s)))
        ELSE Becomes(a, IF s.events = <<>> THEN [s EXCEPT !.draining = FALSE]
                        ELSE [s EXCEPT !.events = Tail(@)])
     /\ Calm
     /\ UNCHANGED <<service, grabs, taken>>

\* The App quits or is killed: its connection closes.
AppEnds(a) ==
  /\ app[a].running
  /\ Fault
  /\ Becomes(a, [ResetConnection(Unregistered(app[a])) EXCEPT !.running = FALSE,
                                                             !.serviceLost = FALSE])
  /\ UNCHANGED <<service, grabs, taken>>

AppStarts(a) ==
  /\ ~app[a].running
  /\ app' = [app EXCEPT ![a].running = TRUE]
  /\ Calm
  /\ UNCHANGED <<service, grabs, taken, inbox>>

-----------------------------------------------------------------------------
Init ==
  /\ \E started \in SUBSET Apps :
       app = [a \in Apps |-> [running |-> a \in started, draining |-> FALSE, conn |-> None,
                              held |-> None, serviceLost |-> FALSE,
                              events |-> <<>>, socket |-> <<>>, gone |-> FALSE]]
  /\ service \in {Service, [Service EXCEPT !.up = FALSE]}
  /\ grabs = {}
  /\ taken = {}
  /\ inbox = <<>>
  /\ faults = 0

AppNext(a) ==
  \/ AppRegisters(a)
  \/ AppRegistersInVain(a)
  \/ AppRegistersLate(a)
  \/ AppPolls(a)
  \/ AppEnds(a)
  \/ AppStarts(a)

Handle == HandleRegister \/ HandleLost
ShellNext == Handle \/ EmitHotkey \/ Disable \/ Enable \/ KeyTaken \/ KeyFreed

Next == (\E a \in Apps : AppNext(a)) \/ ShellNext

Spec == Init /\ [][Next]_vars

\* The shell goes on and is enabled again; the runner polls and registers.
Fairness ==
  /\ WF_vars(Handle)
  /\ WF_vars(Enable)
  /\ \A a \in Apps : WF_vars(AppRegisters(a)) /\ WF_vars(AppPolls(a))
FairSpec == Spec /\ Fairness

-----------------------------------------------------------------------------
(* Safety.                                                                 *)

\* Whatever was granted, refused, replaced or abandoned on the way, the shell has
\* grabbed exactly the registered set, and a set is registered only for an owner.
GrabsAreRegistered ==
  /\ grabs = service.accelerators
  /\ service.accelerators # {} <=> service.controller # None

\* The App holds hotkeys, and nothing on its way to it says otherwise.
Served(a) ==
  /\ app[a].held \notin {None, {}}
  /\ ~app[a].serviceLost /\ ~app[a].gone

\* An App that believes its hotkeys registered, and has no message to the contrary
\* in its socket, is the controller of exactly that set: no crash, restart, late
\* call or rival takes it away silently.
NoSilentLoss ==
  \A a \in Apps : Served(a) => /\ service.controller = app[a].conn
                               /\ service.accelerators = app[a].held

\* What an App with hotkeys is still to be handed was pressed since it last lost
\* them: an outage empties the queue, wherever the presses were waiting.
PressesAreCurrent ==
  \A a \in Apps : Served(a) =>
    \A press \in ToSet(app[a].events) \cup ToSet(app[a].socket) : ~press.lost

-----------------------------------------------------------------------------
(* Liveness.                                                               *)

\* "disconnect releases ownership" (docs/adr/0003): when the Apps are gone for good
\* no accelerator stays grabbed, even for a registration that was handled late.
GrabsReleased == <>[](\A a \in Apps : ~app[a].running) => <>[](grabs = {})

\* An App that keeps to one set holds it again after every outage, unless another
\* program or another App keeps it from it.
Wants(a, set) == app[a].running /\ app[a].held \in {None, set}
CaptureRecovers ==
  \A a \in Apps : \A set \in Sets :
    <>[](taken = {} /\ Wants(a, set) /\ \A b \in Apps \ {a} : ~app[b].running)
      => <>[](app[a].held = set /\ grabs = set)

\* App, service and shell agree on the set that is captured, or are about to.
CaptureIsExact == TypeOK /\ GrabsAreRegistered /\ NoSilentLoss

\* Capture comes to what the Apps want in the end: a set held, or nothing.
CaptureSettles == CaptureRecovers /\ GrabsReleased
=============================================================================
