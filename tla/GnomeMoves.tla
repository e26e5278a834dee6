----------------------------- MODULE GnomeMoves -----------------------------
(***************************************************************************)
(* Moves on GNOME: GnomeWindowSystem (gnome_integration.rs) of each App,   *)
(* and the service in GNOME Shell (gnome-extension/extension.js), whose    *)
(* MoveWindow goes on for many turns of the shell's loop: it may wait for  *)
(* the restore of a maximized window, asks for the frame, looks every      *)
(* 16 ms whether the window has it, and animates.  Meanwhile the user, the *)
(* window, other Apps, the sender's death and the end of the service meet  *)
(* it.  Frames that differ by at most two pixels are one frame.            *)
(***************************************************************************)
EXTENDS Integers, Sequences

CONSTANTS
  Apps,          \* App processes
  Windows,
  Frames,        \* the frames a window can have
  Targets,       \* those an App asks for
  Closed,        \* the frame of a window that no longer exists
  Connections,   \* unique bus names of App connections, reused when forgotten
  None,
  MaxFaults      \* bound on deaths, restarts, stalls and failing calls

VARIABLES
  app,       \* each App: its connection, and what it waits for
  told,      \* the answers that the last step gave
  up,        \* whether the service is exported
  call,      \* the MoveWindow in progress of each connection
  moves,     \* _moves: the connection whose call moves a window
  metrics,   \* the connections with _transitionMetrics
  window,    \* what Mutter knows of each window
  inbox,     \* messages on their way to the service
  faults     \* how many faults there were

vars == <<app, told, up, call, moves, metrics, window, inbox, faults>>

NoCall == [on |-> FALSE]
Call == [on : {TRUE}, win : Windows, target : Frames, initial : Frames, actor : BOOLEAN,
         animated : BOOLEAN, frozen : BOOLEAN, alive : BOOLEAN, late : BOOLEAN,
         phase : {"restoring", "requested", "animating"}]
Request == [win : Windows, target : Frames]
Answer == [kind : {"ok", "gone", "partial", "invalid", "unavailable"},
           observed : Frames \cup {Closed}]
Message == [kind : {"move"}, sender : Connections, win : Windows, target : Frames]
           \cup [kind : {"lost"}, sender : Connections]

ASSUME ConstantsOK ==
  /\ Targets \subseteq Frames
  /\ Closed \notin Frames
  /\ None \notin Frames \cup Windows \cup Connections \cup Request \cup Answer
  /\ MaxFaults \in Nat

TypeOK ==
  /\ app \in [Apps -> [conn : Connections \cup {None}, asked : Request \cup {None}]]
  /\ told \in [Apps -> Answer \cup {None}]
  /\ up \in BOOLEAN
  /\ call \in [Connections -> Call \cup {NoCall}]
  /\ moves \in [Windows -> Connections \cup {None}]
  /\ metrics \subseteq Connections
  /\ window \in [Windows -> [frame : Frames \cup {Closed}, maximized : BOOLEAN,
                             actor : BOOLEAN, frozen : BOOLEAN]]
  /\ inbox \in Seq(Message)
  /\ faults \in 0 .. MaxFaults

Calm == UNCHANGED faults
Fault == faults < MaxFaults /\ faults' = faults + 1

-----------------------------------------------------------------------------
(* A turn of the shell works on a record of what it can change.            *)

Silence == [a \in Apps |-> None]
Turn == [app |-> app, told |-> Silence, call |-> call, moves |-> moves,
         metrics |-> metrics, window |-> window]

Return(s) == \E t \in {s} :
  /\ app' = t.app
  /\ told' = t.told
  /\ call' = t.call
  /\ moves' = t.moves
  /\ metrics' = t.metrics
  /\ window' = t.window

\* The replies to some connections reach their callers, if those are still on the
\* bus: move_window.
Reply(s, answer) ==
  LET Heard(a) == s.app[a].conn \in DOMAIN answer /\ s.app[a].asked # None
      AnswerTo(a) == answer[s.app[a].conn]
  IN [s EXCEPT
       !.app = [a \in Apps |->
         IF ~Heard(a) THEN s.app[a]
         ELSE [asked |-> None,
               conn |-> IF AnswerTo(a).kind = "unavailable" THEN None ELSE s.app[a].conn]],
       !.told = [a \in Apps |-> IF Heard(a) THEN AnswerTo(a) ELSE s.told[a]]]

ReplyAll(s, C, kind, observed) == Reply(s, [c \in C |-> [kind |-> kind, observed |-> observed]])

\* Mutant: the frame is not looked at again when the animation is over.
VerdictUnverified(k, frame, error) ==
  IF error = "gone" \/ frame = Closed THEN "gone"
  ELSE IF error = "none" THEN "ok"
  ELSE IF frame # k.initial THEN "partial" ELSE error

\* How finish judges a call by what it finds.
Verdict(k, frame, error) ==
  IF error = "gone" \/ frame = Closed THEN "gone"
  ELSE IF error = "none" /\ frame = k.target THEN "ok"
  ELSE IF frame # k.initial THEN "partial"
  ELSE IF error = "none" THEN "invalid" ELSE error

\* finish, for each of some calls: the timer, the handlers and the snapshot go, the
\* window is thawed, and the caller is told.
Finish(s, C, error) ==
  LET frame(c) == s.window[s.call[c].win].frame
      verdict(c) == Verdict(s.call[c], frame(c), error)
      moved == {s.call[c].win : c \in C}
      thawed == {s.call[c].win : c \in {d \in C : s.call[d].frozen}}
      t == [s EXCEPT
             !.call = [c \in Connections |-> IF c \in C THEN NoCall ELSE s.call[c]],
             !.moves = [w \in Windows |-> IF w \in moved THEN None ELSE s.moves[w]],
             !.window = [w \in Windows |-> IF w \in thawed
                           THEN [s.window[w] EXCEPT !.frozen = FALSE] ELSE s.window[w]],
             !.metrics = @ \cup {c \in C : verdict(c) = "ok" /\ s.call[c].alive}]
  IN Reply(t, [c \in C |-> [kind |-> verdict(c), observed |-> frame(c)]])

\* requestFrame, which fails when there are no displays.
RequestFrame(s, c, works) ==
  IF works
  THEN [s EXCEPT !.call[c].phase = "requested"]
  ELSE Finish(s, {c}, "invalid")
Works(works) == IF works THEN Calm ELSE Fault

\* Mutant: the transition in progress goes on beside the new one.
SupersedeNothing(s, w) == s

Supersede(s, w) ==
  IF s.moves[w] = None THEN s ELSE Finish(s, {s.moves[w]}, "invalid")

\* MoveWindow for a window that it can move, from a snapshot of its frame.
Begin(s, c, w, target, animated) ==
  LET seen == s.window[w]
  IN [s EXCEPT
       !.moves[w] = c,
       !.window[w].frozen = @ \/ animated,
       !.window[w].maximized = FALSE,
       !.call[c] = [on |-> TRUE, win |-> w, target |-> target, initial |-> seen.frame,
                    actor |-> seen.actor, animated |-> animated, frozen |-> animated,
                    alive |-> TRUE, late |-> FALSE, phase |-> "restoring"]]

CanAnimate(w, target) ==
  window[w].actor /\ (window[w].maximized \/ window[w].frame # target)

HandleMove == \E eligible, animated, works \in BOOLEAN :
  LET m == Head(inbox)
      s == [Turn EXCEPT !.metrics = @ \ {m.sender}]
      begun == Begin(Supersede(s, m.win), m.sender, m.win, m.target, animated)
  IN /\ up /\ inbox # <<>> /\ m.kind = "move"
     /\ \/ /\ window[m.win].frame = Closed
           /\ Return(ReplyAll(s, {m.sender}, "gone", Closed))
           /\ Calm
        \/ /\ window[m.win].frame # Closed /\ ~eligible
           /\ Return(ReplyAll(s, {m.sender}, "invalid", window[m.win].frame))
           /\ Calm
        \/ /\ window[m.win].frame # Closed /\ eligible
           /\ animated => CanAnimate(m.win, m.target)
           /\ IF window[m.win].maximized /\ window[m.win].actor
              THEN Return(begun) /\ Calm
              ELSE Return(RequestFrame(begun, m.sender, works)) /\ Works(works)
     /\ inbox' = Tail(inbox)
     /\ UNCHANGED up

\* NameOwnerChanged: a sender has left the bus.
HandleLost ==
  LET c == Head(inbox).sender
  IN /\ up /\ inbox # <<>> /\ Head(inbox).kind = "lost"
     /\ metrics' = metrics \ {c}
     /\ call' = IF \E w \in Windows : moves[w] = c
                THEN [call EXCEPT ![c].alive = FALSE] ELSE call
     /\ inbox' = Tail(inbox)
     /\ told' = Silence
     /\ Calm
     /\ UNCHANGED <<app, up, moves, window>>

-----------------------------------------------------------------------------
(* What the transition of a call waits for.                                *)

\* The window acknowledges its restore: only then is the frame requested.
RestoreAcknowledged(c) == \E frame \in Frames, works \in BOOLEAN :
  /\ call[c].on /\ call[c].phase = "restoring"
  /\ window[call[c].win].frame # Closed
  /\ Return(RequestFrame([Turn EXCEPT !.window[call[c].win].frame = frame], c, works))
  /\ Works(works)
  /\ UNCHANGED <<up, inbox>>

\* The 16 ms timer finds the window where it should be.
TargetReached(c) ==
  LET k == call[c]
  IN /\ k.on /\ k.phase = "requested"
     /\ window[k.win].frame = k.target
     /\ IF k.animated
        THEN Return([Turn EXCEPT !.call[c].phase = "animating", !.call[c].frozen = FALSE,
                                 !.window[k.win].frozen = FALSE])
        ELSE Return(Finish(Turn, {c}, "none"))
     /\ Calm
     /\ UNCHANGED <<up, inbox>>

\* Mutant: the wait for a restore has no end.
TimesOutOnceRequested(c) ==
  LET k == call[c]
  IN /\ k.on /\ k.phase = "requested" /\ k.late
     /\ window[k.win].frame # k.target
     /\ Return(Finish(Turn, {c}, "invalid"))
     /\ Calm
     /\ UNCHANGED <<up, inbox>>

\* It finds the window elsewhere after half a second.
TimesOut(c) ==
  LET k == call[c]
  IN /\ k.on /\ k.phase # "animating" /\ k.late
     /\ k.phase = "requested" => window[k.win].frame # k.target
     /\ Return(Finish(Turn, {c}, "invalid"))
     /\ Calm
     /\ UNCHANGED <<up, inbox>>

HalfSecondPasses(c) ==
  /\ call[c].on /\ call[c].phase # "animating" /\ ~call[c].late
  /\ call' = [call EXCEPT ![c].late = TRUE]
  /\ told' = Silence
  /\ Calm
  /\ UNCHANGED <<app, up, moves, metrics, window, inbox>>

\* The animation ends, or something else stops it.
AnimationStops(c) == \E completed \in BOOLEAN :
  /\ call[c].on /\ call[c].phase = "animating"
  /\ Return(Finish(Turn, {c}, IF completed THEN "none" ELSE "invalid"))
  /\ Calm
  /\ UNCHANGED <<up, inbox>>

-----------------------------------------------------------------------------
(* The windows.                                                            *)

\* The window takes the frame it was asked for, or one it likes better, or one that
\* the user gives it.
WindowChanges(w) == \E frame \in Frames, maximized \in BOOLEAN :
  /\ window[w].frame # Closed
  /\ window' = [window EXCEPT ![w].frame = frame, ![w].maximized = maximized]
  /\ Calm
  /\ told' = Silence
  /\ UNCHANGED <<app, up, call, moves, metrics, inbox>>

WindowCloses(w) ==
  /\ window[w].frame # Closed
  /\ window' = [window EXCEPT ![w].frame = Closed]
  /\ Calm
  /\ told' = Silence
  /\ UNCHANGED <<app, up, call, moves, metrics, inbox>>

\* Its actor goes later, and tells the call that moves the window.
ActorDestroyed(w) ==
  LET c == moves[w]
      s == [Turn EXCEPT !.window[w].actor = FALSE, !.window[w].frozen = FALSE]
  IN /\ window[w].frame = Closed /\ window[w].actor
     /\ Return(IF c # None /\ call[c].actor THEN Finish(s, {c}, "gone") ELSE s)
     /\ Calm
     /\ UNCHANGED <<up, inbox>>

-----------------------------------------------------------------------------
(* The service starts and ends.                                            *)

\* destroy ends every transition; calls not begun yet meet no object.
Disable ==
  LET begun == {moves[w] : w \in Windows} \ {None}
      unmet == {inbox[i].sender : i \in {j \in DOMAIN inbox : inbox[j].kind = "move"}}
      ended == Finish(Turn, begun, "unavailable")
  IN /\ up
     /\ Fault
     /\ up' = FALSE
     /\ Return(ReplyAll([ended EXCEPT !.metrics = {}], unmet, "unavailable", Closed))
     /\ inbox' = <<>>

Enable ==
  /\ ~up
  /\ up' = TRUE
  /\ told' = Silence
  /\ Calm
  /\ UNCHANGED <<app, call, moves, metrics, window, inbox>>

-----------------------------------------------------------------------------
(* GnomeWindowSystem: one call at a time.                                  *)

InUse == {app[a].conn : a \in Apps} \cup {inbox[i].sender : i \in DOMAIN inbox}
         \cup {c \in Connections : call[c].on} \cup metrics
ConnectionOf(a) ==
  IF app[a].conn # None THEN app[a].conn ELSE CHOOSE c \in Connections : c \notin InUse

AppMoves(a) == \E w \in Windows, target \in Targets :
  /\ up /\ app[a].asked = None
  /\ app[a].conn # None \/ Connections \ InUse # {}
  /\ app' = [app EXCEPT ![a] = [conn |-> ConnectionOf(a),
                                asked |-> [win |-> w, target |-> target]]]
  /\ inbox' = Append(inbox, [kind |-> "move", sender |-> ConnectionOf(a), win |-> w,
                             target |-> target])
  /\ told' = Silence
  /\ Calm
  /\ UNCHANGED <<up, call, moves, metrics, window>>

\* focused_window, displays and transition_metrics all end what is kept of the
\* transition before.
AppReads(a) ==
  /\ up /\ app[a].asked = None /\ app[a].conn \in metrics
  /\ metrics' = metrics \ {app[a].conn}
  /\ told' = Silence
  /\ Calm
  /\ UNCHANGED <<app, up, call, moves, window, inbox>>

\* No reply for a second, though the transition ends earlier by itself; or the App
\* dies.  Either way its connection closes.
AppGivesUp(a) ==
  /\ app[a].conn # None
  /\ Fault
  /\ app' = [app EXCEPT ![a] = [conn |-> None, asked |-> None]]
  /\ told' = Silence
  /\ inbox' = IF up THEN Append(inbox, [kind |-> "lost", sender |-> app[a].conn]) ELSE inbox
  /\ UNCHANGED <<up, call, moves, metrics, window>>

-----------------------------------------------------------------------------
Init ==
  /\ app = [a \in Apps |-> [conn |-> None, asked |-> None]]
  /\ told = Silence
  /\ up = TRUE
  /\ call = [c \in Connections |-> NoCall]
  /\ moves = [w \in Windows |-> None]
  /\ metrics = {}
  /\ window \in [Windows -> [frame : Frames, maximized : BOOLEAN,
                             actor : BOOLEAN, frozen : {FALSE}]]
  /\ inbox = <<>>
  /\ faults = 0

CallNext(c) ==
  \/ RestoreAcknowledged(c)
  \/ TargetReached(c)
  \/ TimesOut(c)
  \/ HalfSecondPasses(c)
  \/ AnimationStops(c)

Handle == HandleMove \/ HandleLost
WindowNext(w) == WindowChanges(w) \/ WindowCloses(w) \/ ActorDestroyed(w)
AppNext(a) == AppMoves(a) \/ AppReads(a) \/ AppGivesUp(a)

Next ==
  \/ \E c \in Connections : CallNext(c)
  \/ \E w \in Windows : WindowNext(w)
  \/ \E a \in Apps : AppNext(a)
  \/ Handle \/ Disable \/ Enable

Spec == Init /\ [][Next]_vars

\* The shell's loop goes on: messages, timers and animations.
Fairness ==
  /\ WF_vars(Calm /\ Handle)
  /\ \A c \in Connections :
       WF_vars(TargetReached(c) \/ TimesOut(c) \/ HalfSecondPasses(c) \/ AnimationStops(c))
FairSpec == Spec /\ Fairness

-----------------------------------------------------------------------------
\* Every transition that runs is the one on record for its window, so that its
\* successor, its sender's death and the end of the service all reach it.
MovesAreOnRecord ==
  /\ \A c \in Connections : call[c].on => up /\ moves[call[c].win] = c
  /\ \A w \in Windows : moves[w] # None => call[moves[w]].on /\ call[moves[w]].win = w

\* A window is frozen only for a transition that will thaw it, however that ends.
FrozenOnlyForMove ==
  \A w \in Windows : window[w].frozen => moves[w] # None /\ call[moves[w]].frozen

\* The service remembers a transition only for senders that are on the bus, or
\* whose leave it has still to hear of: late ends leave nothing behind.
MetricsOfTheLiving ==
  \A c \in metrics : \/ \E a \in Apps : app[a].conn = c
                     \/ \E i \in DOMAIN inbox : inbox[i] = [kind |-> "lost", sender |-> c]

AnswersTrue ==
  \A a \in Apps : told'[a] # None =>
    LET frame == window'[app[a].asked.win].frame
        answer == told'[a]
        mine == call[app[a].conn]
    IN /\ answer.kind = "ok" => frame = app[a].asked.target
       /\ answer.kind = "gone" => frame = Closed
       /\ answer.kind = "partial" => frame = answer.observed /\ frame # Closed
       /\ answer.kind \notin {"ok", "gone", "partial"} => (mine.on => frame = mine.initial)

\* What the executor relies on: after ok the window is at the target, after a
\* partial move it is where the answer says, after any other error it is where it
\* was, and only a window that is gone is called gone.
AnswersAreTrue == [][AnswersTrue]_vars

\* Every move is answered: whatever becomes of window, display, rivals and
\* service, no App waits for a transition that never ends.
EveryMoveEnds == \A a \in Apps : app[a].asked # None ~> app[a].asked = None

\* A transition has one owner, which its window, its sender and the service know.
TransitionsAreOwned ==
  TypeOK /\ MovesAreOnRecord /\ FrozenOnlyForMove /\ MetricsOfTheLiving
=============================================================================
