---------------------------- MODULE WindowHistory ----------------------------
(***************************************************************************)
(* execute_action and WindowHistory of src/executor.rs, in the desktop     *)
(* they run in.  An action reads the focused window (Discover) and later   *)
(* moves that window (Placed, Partial, Failed, Gone); in between the user  *)
(* may move, focus or close windows.                                       *)
(*                                                                         *)
(* Frames are either the user's or the App's doing.  The target of a       *)
(* placement is any App frame: Zones has the geometry.  An adapter answers *)
(* as the WindowSystem trait says: Ok at the target, PartialMove with the  *)
(* frame observed, or an error with the frame unchanged.                   *)
(***************************************************************************)
EXTENDS Integers, FiniteSets

CONSTANTS
  Windows,       \* identities of windows
  UserFrames,    \* frames the user gives a window
  AppFrames,     \* frames placements aim at, or leave a window at
  Near,          \* nearly_equals within APPLIED_GEOMETRY_TOLERANCE_PX
  Capacity,      \* HISTORY_CAPACITY
  MaxSequence,   \* bound on next_sequence
  None           \* no record, no action in flight, no focus

Frames == UserFrames \cup AppFrames

Record == [restore : Frames, applied : Frames, sequence : Nat]

ASSUME ConstantsOK ==
  /\ IsFiniteSet(Windows)
  /\ None \notin Record \cup Windows \cup Frames
  /\ None \notin [window : Windows, geometry : Frames, target : AppFrames \cup {None}]
  /\ UserFrames \cap AppFrames = {}
  /\ Near \subseteq Frames \X Frames
  /\ \A f \in Frames : <<f, f>> \in Near
  /\ Capacity \in Nat \ {0}
  /\ MaxSequence \in Nat

VARIABLES
  open,          \* the windows that exist
  frame,         \* their frames; a closed window keeps its last one
  late,          \* the frame a slow client will still take, or None
  records,       \* WindowHistory.records
  nextSequence,  \* WindowHistory.next_sequence
  pending,       \* the action in flight: target is None for Restore
  left,          \* history variable: where the App last left each window
  dropped,       \* history variables: windows whose record was evicted or lost by a
  settled        \* restart, or that took a frame late, since the App last found
                 \* them at a user's frame without a record

vars == <<open, frame, late, records, nextSequence, pending, left, dropped, settled>>
desktop == <<open, frame, late>>

Pending == [window : Windows, geometry : Frames, target : AppFrames \cup {None}]

TypeOK ==
  /\ open \subseteq Windows
  /\ frame \in [Windows -> Frames]
  /\ late \in [Windows -> AppFrames \cup {None}]
  /\ records \in [Windows -> Record \cup {None}]
  /\ \A w \in Windows : records[w] # None => records[w].sequence < nextSequence
  /\ nextSequence \in 0 .. MaxSequence
  /\ pending \in Pending \cup {None}
  /\ left \in [Windows -> Frames \cup {None}]
  /\ dropped \subseteq Windows /\ settled \subseteq Windows

Remembered == {w \in Windows : records[w] # None}

-----------------------------------------------------------------------------
Oldest == CHOOSE w \in Remembered :
            \A v \in Remembered : records[w].sequence <= records[v].sequence

\* The window whose record makes room for one of w.
Evicted(w) ==
  IF records[w] = None /\ Cardinality(Remembered) >= Capacity THEN {Oldest} ELSE {}

\* Mutant: the restore point is taken anew at each move.
RememberAnew(w, geometry, applied) ==
  /\ records' = [v \in Windows |->
       IF v = w THEN [restore |-> geometry, applied |-> applied, sequence |-> nextSequence]
       ELSE IF v \in Evicted(w) THEN None ELSE records[v]]
  /\ nextSequence' = nextSequence + 1
  /\ dropped' = dropped \cup Evicted(w)
  /\ UNCHANGED settled

Remember(w, geometry, applied) ==
  /\ records' = [v \in Windows |->
       IF v = w
       THEN [restore |-> IF records[w] = None THEN geometry ELSE records[w].restore,
             applied |-> applied, sequence |-> nextSequence]
       ELSE IF v \in Evicted(w) THEN None ELSE records[v]]
  /\ nextSequence' = nextSequence + 1
  /\ dropped' = dropped \cup Evicted(w)
  /\ UNCHANGED settled

Forget(w) ==
  /\ records' = [records EXCEPT ![w] = None]
  /\ UNCHANGED <<nextSequence, dropped, settled>>

\* Mutant: a record is believed wherever the window is.
CurrentAnywhere(w) == records[w]

\* The record that still says where the window is.
Current(w) ==
  IF records[w] # None /\ <<records[w].applied, frame[w]>> \in Near
  THEN records[w] ELSE None

-----------------------------------------------------------------------------
\* focused_window, the check of the record, and what follows up to the call of
\* move_window.  A Restore without a record ends here, as does a placement
\* without a display, a zone or a neighbour.
Discover == \E w \in open, target \in AppFrames \cup {None}, refuse \in BOOLEAN :
  /\ pending = None
  /\ nextSequence < MaxSequence
  /\ records' = [records EXCEPT ![w] = Current(w)]
  /\ LET anew == IF Current(w) = None /\ frame[w] \in UserFrames THEN {w} ELSE {}
     IN dropped' = dropped \ anew /\ settled' = settled \ anew
  /\ pending' = IF (target = None /\ Current(w) = None) \/ (target # None /\ refuse)
                THEN None
                ELSE [window |-> w, geometry |-> frame[w], target |-> target]
  /\ UNCHANGED <<desktop, nextSequence, left>>

\* Where the action in flight sends its window.
Target == IF pending.target = None THEN records[pending.window].restore
                                   ELSE pending.target

\* move_window succeeds: a placement is remembered, a restored window forgotten.
Placed ==
  /\ pending # None
  /\ pending.window \in open
  /\ frame' = [frame EXCEPT ![pending.window] = Target]
  /\ left' = [left EXCEPT ![pending.window] = Target]
  /\ IF pending.target = None
     THEN Forget(pending.window)
     ELSE Remember(pending.window, pending.geometry, Target)
  /\ pending' = None
  /\ UNCHANGED <<open, late>>

\* A slow client may take the requested size when the adapter has given up.
Later(slow) ==
  IF slow /\ Target \in AppFrames THEN [late EXCEPT ![pending.window] = Target] ELSE late

\* Mutant: a failed placement is not remembered.
PartialUnremembered == \E observed \in AppFrames, slow \in BOOLEAN :
  /\ pending # None
  /\ pending.window \in open
  /\ observed \notin {frame[pending.window], Target}
  /\ frame' = [frame EXCEPT ![pending.window] = observed]
  /\ left' = [left EXCEPT ![pending.window] = observed]
  /\ late' = Later(slow)
  /\ pending' = None
  /\ UNCHANGED <<open, records, nextSequence, dropped, settled>>

\* PartialMove: a placement or a restore left the window somewhere else.
Partial == \E observed \in AppFrames, slow \in BOOLEAN :
  /\ pending # None
  /\ pending.window \in open
  /\ observed \notin {frame[pending.window], Target}
  /\ frame' = [frame EXCEPT ![pending.window] = observed]
  /\ left' = [left EXCEPT ![pending.window] = observed]
  /\ Remember(pending.window, pending.geometry, observed)
  /\ late' = Later(slow)
  /\ pending' = None
  /\ UNCHANGED open

\* A platform error, with the window where it was.
Failed == \E slow \in BOOLEAN :
  /\ pending # None
  /\ pending.window \in open
  /\ late' = Later(slow)
  /\ pending' = None
  /\ UNCHANGED <<open, frame, records, nextSequence, left, dropped, settled>>

Gone ==
  /\ pending # None
  /\ pending.window \notin open
  /\ Forget(pending.window)
  /\ pending' = None
  /\ UNCHANGED <<desktop, left>>

\* App::restart starts with an empty history, between two actions.
Restart ==
  /\ pending = None
  /\ records' = [w \in Windows |-> None]
  /\ nextSequence' = 0
  /\ dropped' = Windows
  /\ UNCHANGED <<desktop, pending, left, settled>>

-----------------------------------------------------------------------------
(* The desktop.                                                            *)

UserMoves == \E w \in open, f \in UserFrames :
  /\ frame' = [frame EXCEPT ![w] = f]
  /\ late' = [late EXCEPT ![w] = None]
  /\ UNCHANGED <<open, records, nextSequence, pending, left, dropped, settled>>

Close == \E w \in open :
  /\ open' = open \ {w}
  /\ late' = [late EXCEPT ![w] = None]
  /\ left' = [left EXCEPT ![w] = None]
  /\ UNCHANGED <<frame, records, nextSequence, pending, dropped, settled>>

\* A window opens where its client or the user wants it.  Some desktops (X11)
\* give it the identity of a closed one.
Opens == \E w \in Windows \ open, f \in UserFrames :
  /\ open' = open \cup {w}
  /\ frame' = [frame EXCEPT ![w] = f]
  /\ UNCHANGED <<late, records, nextSequence, pending, left, dropped, settled>>

\* A slow client takes the requested size after the adapter reported.
Settles == \E w \in open :
  /\ late[w] # None
  /\ frame' = [frame EXCEPT ![w] = late[w]]
  /\ late' = [late EXCEPT ![w] = None]
  /\ settled' = settled \cup {w}
  /\ UNCHANGED <<open, records, nextSequence, pending, left, dropped>>

Init ==
  /\ open = Windows
  /\ frame \in [Windows -> UserFrames]
  /\ late = [w \in Windows |-> None]
  /\ records = [w \in Windows |-> None]
  /\ nextSequence = 0
  /\ pending = None
  /\ left = [w \in Windows |-> None]
  /\ dropped = {} /\ settled = {}

Next ==
  \/ Discover
  \/ Placed
  \/ Partial
  \/ Failed
  \/ Gone
  \/ Restart
  \/ UserMoves
  \/ Close
  \/ Opens
  \/ Settles

Spec == Init /\ [][Next]_vars

-----------------------------------------------------------------------------
\* restore returns a window "to its geometry before the App first moved it":
\* whatever fails or is done to the window in between, the restore point is a
\* frame the user gave it, never one the App's own moves left it at.
RestoreIsUsers ==
  \A w \in Remembered \ (dropped \cup settled) : records[w].restore \in UserFrames

\* The App leaves no window where it put it without a way back: a window that is
\* at an App frame can be restored.
WayBack ==
  \A w \in open \ (dropped \cup settled) :
    frame[w] \in AppFrames => records[w] # None /\ records[w].applied = frame[w]

\* "Bound on remembered windows; the oldest record is dropped beyond it."
HistoryBounded == Cardinality(Remembered) <= Capacity

\* What Restore would do now is right for every window on record, and the records
\* stay within their types and the capacity.
RestorePointsAreSound == TypeOK /\ RestoreIsUsers /\ HistoryBounded

\* "A window you move by hand starts over": an action that finds a window away
\* from where the App left it neither restores it nor keeps its restore point.
ManualMoveWins ==
  [][\A w \in Windows :
       (/\ pending = None /\ pending' # None /\ pending'.window = w
        /\ left[w] # None /\ <<left[w], frame[w]>> \notin Near)
       => pending'.target # None /\ records'[w] = None]_vars
=============================================================================
