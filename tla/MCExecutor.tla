---------------------------- MODULE MCExecutor ----------------------------
(* The constants of WindowHistory and Placement together.                  *)
EXTENDS Executor, MCWindowHistory, MCPlacement
=============================================================================
