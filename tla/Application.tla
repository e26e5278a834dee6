---------------------------- MODULE Application ----------------------------
(***************************************************************************)
(* What one invocation of the program decides (src/application/mod.rs):    *)
(* the desktop it serves (Launch), what the config makes of a key          *)
(* (Config), and the life of a session among the others (Session).  They   *)
(* share nothing but the user, so that each is followed by itself.         *)
(***************************************************************************)
EXTENDS Session, Config, Launch

VARIABLE task \* "session", "config" or "launch"

applicationVars == <<vars, configVars, launchVars, task>>

\* What is not followed stands still in one state, in which it can do nothing.
ApplicationInit ==
  /\ task \in {"session", "config", "launch"}
  /\ Init /\ ConfigInit /\ LaunchInit
  /\ task # "session" => bound
  /\ task # "config" => desktop = "scripted"
  /\ task # "launch" => env.os = "other"

ApplicationNext ==
  \/ task = "session" /\ Next /\ UNCHANGED <<configVars, launchVars, task>>
  \/ task = "config" /\ ConfigNext /\ UNCHANGED <<vars, launchVars, task>>
  \/ task = "launch" /\ LaunchNext /\ UNCHANGED <<vars, configVars, task>>

\* Session's scheduling; nothing is assumed of the user, of editors and of compositors.
ApplicationSpec ==
  ApplicationInit /\ [][ApplicationNext]_applicationVars /\ Fairness

-----------------------------------------------------------------------------
\* Neither presses nor requests wait for ever beside one another.
SessionServes == PressesAreHandled /\ RequestsAreTaken

\* What a config means to the keyboard is what its text says, on every desktop.
ConfigRunsAsWritten ==
  ConfigTypeOK /\ WhatIsWrittenRuns /\ NamesAreShared /\ BoundZonesExist /\ StarterLoads

\* What was looked at is still so when it is acted upon: a config file that init
\* found missing, a compositor that a request was made for.
ChecksHoldWhenUsed ==
  [][UserFilesStay /\ RequestsMeetTheirCompositor']_applicationVars
=============================================================================
