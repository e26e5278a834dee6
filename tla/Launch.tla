------------------------------- MODULE Launch -------------------------------
(***************************************************************************)
(* Which desktop a process serves: the choice of the backend from the      *)
(* environment (application/backends/selection.rs,                         *)
(* wayland_window_system.rs), and the identity by which a `dispatch` that  *)
(* Sway or Hyprland runs finds the session of its own compositor           *)
(* (session/startup.rs, session/local_dispatch/mod.rs), while compositors  *)
(* end and start.  The passage of a request is LocalDispatch, the life of  *)
(* the session Session.                                                    *)
(***************************************************************************)
EXTENDS Integers, FiniteSets

CONSTANTS
  Instances,  \* what SWAYSOCK or HYPRLAND_INSTANCE_SIGNATURE may name
  Configs,    \* paths that --config may name
  Target,     \* the file that is behind each
  MaxSockets  \* bound on the sockets that compositors open

ASSUME LaunchConstantsOK == MaxSockets \in Nat

Scripted == {"sway", "hyprland"}
Compositors == {"gnome", "kde"} \cup Scripted
Preferences == {"auto", "x11", "wayland", "native", "dry-run"}

\* What XDG_SESSION_TYPE says, whether WAYLAND_DISPLAY and DISPLAY are set (the latter
\* is not looked at unless the first says nothing), the compositors whose variables
\* are, the tools that are on the PATH.
Environments ==
  { e \in [os : {"linux"}, type : {"unset", "x11", "wayland", "tty"}, wayland : BOOLEAN,
           display : BOOLEAN, signals : SUBSET Compositors, tools : {{}, Scripted}] :
      e.display => e.type = "unset" }
  \cup
  [os : {"windows", "macos", "other"}, type : {"unset"}, wayland : {FALSE},
   display : {FALSE}, signals : {{}}, tools : {{}}]

VARIABLES
  env,      \* the environment of the user
  chosen,   \* the last choice of a backend
  sockets,  \* the inode at each compositor's paths, or 0
  inodes,   \* how many there were
  live,     \* the session
  request   \* a `dispatch` on its way to it

launchVars == <<env, chosen, sockets, inodes, live, request>>

Paths == Instances \X {"run", "tmp"}
NoIdentity == [backend |-> "none", path |-> CHOOSE p \in Paths : TRUE, inode |-> 0,
               config |-> CHOOSE c \in Configs : TRUE]
NoSession == [on |-> FALSE, backend |-> "none", identity |-> NoIdentity]
NoChoice == [preference |-> "auto", backend |-> "none"]

\* A request: how far it has come, the compositors that its calls have reached, and
\* whether the session's compositor came or went once the runner had looked (the last
\* two for the properties only).
NoRequest == [at |-> "none", identity |-> NoIdentity, met |-> {}, late |-> FALSE]

-----------------------------------------------------------------------------
(* resolve_runtime_backend.                                                *)

\* Mutant: a declared X11 session is believed, with WAYLAND_DISPLAY too.
SessionIdentityOfType(e) ==
  CASE e.type \in {"wayland", "x11"} -> e.type
    [] e.type = "unset" /\ e.wayland # e.display -> IF e.wayland THEN "wayland" ELSE "x11"
    [] OTHER -> "unresolved"

SessionIdentity(e) ==
  CASE e.type = "wayland" -> "wayland"
    [] e.type = "x11" /\ ~e.wayland -> "x11"
    [] e.type = "unset" /\ e.wayland # e.display -> IF e.wayland THEN "wayland" ELSE "x11"
    [] OTHER -> "unresolved"

WaylandIndicated(e) == e.wayland \/ e.type = "wayland"

WaylandBackend(e) ==
  IF ~WaylandIndicated(e) \/ Cardinality(e.signals) # 1 THEN "error"
  ELSE LET found == CHOOSE c \in Compositors : c \in e.signals
       IN IF found \in Scripted \ e.tools THEN "error" ELSE found

LinuxBackend(e, preference) ==
  IF preference = "x11" THEN IF WaylandIndicated(e) THEN "error" ELSE "x11"
  ELSE IF preference = "wayland"
  THEN IF SessionIdentity(e) = "x11" THEN "error" ELSE WaylandBackend(e)
  ELSE CASE SessionIdentity(e) = "wayland" -> WaylandBackend(e)
         [] SessionIdentity(e) = "x11" -> "x11"
         [] OTHER -> "error"

\* "native" stands for `--backend windows` and `--backend macos`.
Backend(e, preference) ==
  IF preference = "dry-run" THEN "dry-run"
  ELSE CASE e.os = "linux" -> LinuxBackend(e, preference)
         [] e.os = "other" -> "error"
         [] OTHER -> e.os

Offered(e, preference) ==
  preference \in {"auto", "dry-run"} \cup
    (CASE e.os = "linux" -> {"x11", "wayland"} [] e.os = "other" -> {} [] OTHER -> {"native"})

-----------------------------------------------------------------------------
(* compositor_dispatch_identity and Identity.                              *)

\* Hyprland's socket has moved from /tmp to the runtime directory.
SocketPath(backend, instance) ==
  IF backend = "hyprland" /\ sockets[<<instance, "run">>] = 0 /\ sockets[<<instance, "tmp">>] # 0
  THEN <<instance, "tmp">> ELSE <<instance, "run">>

Identity(backend, instance, config) ==
  LET path == SocketPath(backend, instance)
  IN [backend |-> backend, path |-> path, inode |-> sockets[path], config |-> config]

CompositorIsCurrent(identity) == sockets[identity.path] = identity.inode

Matches(own, candidate) ==
  /\ own.backend = candidate.backend
  /\ own.inode = candidate.inode /\ (own.path = candidate.path \/ own.inode # 0)
  /\ CompositorIsCurrent(own)
  /\ Target[own.config] = Target[candidate.config]

-----------------------------------------------------------------------------
\* `run` and `tui`.  A dry run is no session that others meet.
Start == \E preference \in Preferences, config \in Configs, instance \in Instances :
  /\ ~live.on /\ Offered(env, preference)
  /\ LET backend == Backend(env, preference)
     IN /\ chosen' = [preference |-> preference, backend |-> backend]
        /\ live' = IF backend \in {"error", "dry-run"} THEN live
                   ELSE [on |-> TRUE, backend |-> backend,
                         identity |-> IF backend \in Scripted
                                      THEN Identity(backend, instance, config)
                                      ELSE NoIdentity]
  /\ UNCHANGED <<env, sockets, inodes, request>>

\* What is queued or running goes with the session.
Stop ==
  /\ live.on /\ live' = NoSession /\ chosen' = NoChoice
  /\ request' = IF request.at \in {"queued", "running"} THEN NoRequest ELSE request
  /\ UNCHANGED <<env, sockets, inodes>>

\* The compositor of any instance opens its socket, or goes.
Moved(path) ==
  request' = [request EXCEPT !.late = @ \/ (request.at = "running" /\ path = live.identity.path)]

CompositorStarts == \E path \in Paths :
  /\ live.backend \in Scripted \/ env.signals \in { {c} : c \in Scripted }
  /\ inodes < MaxSockets /\ (path[2] = "tmp" => env.signals = {"hyprland"})
  /\ inodes' = inodes + 1 /\ sockets' = [sockets EXCEPT ![path] = inodes + 1]
  /\ Moved(path)
  /\ UNCHANGED <<env, chosen, live>>

CompositorEnds == \E path \in Paths :
  /\ sockets[path] # 0 /\ sockets' = [sockets EXCEPT ![path] = 0]
  /\ Moved(path)
  /\ UNCHANGED <<env, chosen, inodes, live>>

-----------------------------------------------------------------------------
(* A request.  Its deadlines, its answers and the death of its sender are  *)
(* in LocalDispatch; here one that is answered is over.                    *)

\* A key of a compositor runs `window_zones dispatch`: it says where it is.
Ask == \E instance \in Instances, config \in Configs :
  /\ request.at = "none" /\ Backend(env, "auto") \in Scripted
  /\ request' = [NoRequest EXCEPT !.at = "asked",
                                  !.identity = Identity(Backend(env, "auto"), instance, config)]
  /\ UNCHANGED <<env, chosen, sockets, inodes, live>>

\* The worker of the session queues the request or refuses it.
Judge ==
  /\ request.at = "asked" /\ live.on /\ live.backend \in Scripted
  /\ request' = IF Matches(live.identity, request.identity)
                THEN [request EXCEPT !.at = "queued"] ELSE NoRequest
  /\ UNCHANGED <<env, chosen, sockets, inodes, live>>

\* Mutant: the runner relies on the worker's comparison.
ConsiderQueued ==
  /\ request.at = "queued"
  /\ request' = [request EXCEPT !.at = "running"]
  /\ UNCHANGED <<env, chosen, sockets, inodes, live>>

\* The runner takes the request from its queue, any time later, and looks once more; one
\* that has expired it refuses whatever it sees.
Consider ==
  /\ request.at = "queued"
  /\ \/ CompositorIsCurrent(live.identity) /\ request' = [request EXCEPT !.at = "running"]
     \/ request' = NoRequest
  /\ UNCHANGED <<env, chosen, sockets, inodes, live>>

\* A call of swaymsg or hyprctl, one of several of the action: it reaches the compositor
\* that now listens at the session's path, if any.
Call ==
  /\ request.at = "running"
  /\ request' = [request EXCEPT !.met = @ \cup ({sockets[live.identity.path]} \ {0})]
  /\ UNCHANGED <<env, chosen, sockets, inodes, live>>

\* The client has its answer and returns.
Return ==
  /\ request.at = "running" /\ request' = NoRequest
  /\ UNCHANGED <<env, chosen, sockets, inodes, live>>

-----------------------------------------------------------------------------
LaunchInit ==
  /\ env \in Environments
  /\ chosen = NoChoice
  /\ sockets = [path \in Paths |-> 0] /\ inodes = 0
  /\ live = NoSession /\ request = NoRequest

LaunchNext ==
  \/ Start \/ Stop \/ CompositorStarts \/ CompositorEnds
  \/ Ask \/ Judge \/ Consider \/ Call \/ Return

LaunchSpec == LaunchInit /\ [][LaunchNext]_launchVars

-----------------------------------------------------------------------------
LaunchTypeOK ==
  /\ env \in Environments
  /\ chosen.preference \in Preferences
  /\ chosen.backend \in {"none", "error", "x11", "dry-run", "windows", "macos"} \cup Compositors
  /\ sockets \in [Paths -> 0 .. MaxSockets] /\ inodes \in 0 .. MaxSockets
  /\ live.on <=> live.backend # "none"
  /\ request.at \in {"none", "asked", "queued", "running"}

\* docs/runbooks/running.md: the backend is resolved "only when the signals agree".  No
\* process serves X11 inside a Wayland session, where it would reach XWayland windows
\* alone, none takes one compositor for another, and `auto` never guesses.
BackendFitsDesktop ==
  LET b == chosen.backend
  IN /\ LaunchTypeOK
     /\ b = "x11" => env.os = "linux" /\ ~env.wayland /\ env.type # "wayland"
     /\ b \in Compositors =>
          env.signals = {b} /\ (env.wayland \/ env.type = "wayland")
     /\ chosen.preference = "auto" /\ b \in Compositors \cup {"x11"} =>
          \/ env.type = "wayland"
          \/ (env.type = "x11" /\ ~env.wayland)
          \/ (env.type = "unset" /\ env.wayland # env.display)
     /\ b = "dry-run" => chosen.preference = "dry-run"

\* "Compositor socket replacement fails closed, including queued requests"
\* (docs/runbooks/running.md): however long a request waits, and whatever compositors end
\* and start meanwhile, its calls reach the compositor whose key was pressed and no other,
\* and it runs by the config that was named.  The code does not look again between the
\* calls of one action, so one whose compositor is replaced under it may go on in the next.
RequestsMeetTheirCompositor ==
  /\ request.met \subseteq {request.identity.inode} \/ request.late
  /\ request.at \in {"queued", "running"} =>
       Target[live.identity.config] = Target[request.identity.config]
=============================================================================
