------------------------------ MODULE Executor ------------------------------
(***************************************************************************)
(* execute_action of src/executor.rs as a whole.  It computes where the    *)
(* focused window goes (Placement), and keeps what it has to know to bring *)
(* it back (WindowHistory).  History treats a target as any frame of the   *)
(* App's and Placement any history as none, so that each is followed by    *)
(* itself.                                                                 *)
(***************************************************************************)
EXTENDS WindowHistory, Placement

VARIABLE concern \* "target" or "history"

executorVars == <<vars, placementVars, concern>>

\* What is not followed stands still in one state.
ExecutorInit ==
  /\ concern \in {"target", "history"}
  /\ Init /\ PlacementInit
  /\ concern = "target" => \A w \in Windows : frame[w] = CHOOSE f \in UserFrames : TRUE
  /\ concern = "history" => /\ displays = CHOOSE layout \in Layouts : TRUE
                            /\ geometry = CHOOSE r \in UserRects : TRUE

ExecutorNext ==
  \/ concern = "target" /\ PlacementNext /\ UNCHANGED <<vars, concern>>
  \/ concern = "history" /\ Next /\ UNCHANGED <<placementVars, concern>>

ExecutorSpec == ExecutorInit /\ [][ExecutorNext]_executorVars
=============================================================================
