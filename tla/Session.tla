------------------------------ MODULE Session ------------------------------
(***************************************************************************)
(* The life of a session process, from execute_session of                  *)
(* session/startup.rs to its exit: the instance lock of ownership.rs, the  *)
(* dispatch socket of session/local_dispatch/mod.rs, and the passes of     *)
(* run_runtime (session/runner.rs) with Runtime::poll and                  *)
(* Runtime::restart (session/mod.rs).                                      *)
(*                                                                         *)
(* Any process may start or crash at any time.  Every system call on the   *)
(* shared directory is a step; a pass of the runner is one step.  The App  *)
(* is what AppRuntime models; here only whether hotkeys are registered     *)
(* matters.  One press, marked, is followed through the queue; ahead counts*)
(* it and the presses before it.                                           *)
(***************************************************************************)
EXTENDS Integers, Sequences, FiniteSets, FiniteSetsExt

CONSTANTS
  Processes,    \* session processes of one user
  Burst,        \* MAX_HOTKEYS_PER_POLL
  MaxPresses,   \* bound on the presses that wait
  MaxQueue,     \* bound on the instructions that wait
  MaxRejected,  \* bound on the remote requests that come too late
  MaxCrashes    \* bound on crashes

ASSUME ConstantsOK ==
  /\ IsFiniteSet(Processes)
  /\ Burst \in Nat \ {0} /\ MaxPresses \in Nat \ {0}
  /\ MaxQueue \in Nat /\ MaxRejected \in Nat /\ MaxCrashes \in Nat

None == "none"
Instructions == {"status", "reload", "restart", "quit", "eof", "late"}

\* Where a process is: Starting up to the lock, Owning it, and outside.
Owning == {"locked", "cleared", "owner", "built", "running", "ending", "stopped", "released",
           "unlisted"}
Stages == {"off", "opened"} \cup Owning

VARIABLES
  bound,       \* whether the backend takes presses from a dispatch socket
  at,          \* the stage of each process
  opened,      \* the inode of the lock file each process has opened, or 0
  disk,        \* the paths in the instance directory: lock inode, pid, socket
  serving,     \* the processes whose worker has its socket open
  grabs,       \* the processes whose hotkey system holds hotkeys
  run,         \* the runner of the session: what its thread and its queues hold
  crashes, rejected   \* counters for the bounds

vars == <<bound, at, opened, disk, serving, grabs, run, crashes, rejected>>
files == <<opened, disk>>
bounds == <<bound, crashes, rejected>>

Idle == [input |-> TRUE, reader |-> TRUE, endsOnEof |-> FALSE, due |-> TRUE,
         registered |-> FALSE, lost |-> FALSE, presses |-> 0, ahead |-> 0, queue |-> <<>>]

TypeOK ==
  /\ bound \in BOOLEAN
  /\ at \in [Processes -> Stages]
  /\ opened \in [Processes -> 0 .. Cardinality(Processes) + 1]
  /\ disk \in [lock : 0 .. Cardinality(Processes) + 1, pid : Processes \cup {None},
               socket : Processes \cup {None}]
  /\ serving \subseteq Processes /\ grabs \subseteq Processes
  /\ run \in [input : BOOLEAN, reader : BOOLEAN, endsOnEof : BOOLEAN, due : BOOLEAN,
              registered : BOOLEAN, lost : BOOLEAN, presses : 0 .. MaxPresses,
              ahead : 0 .. MaxPresses, queue : Seq(Instructions)]
  /\ run.ahead <= run.presses
  /\ crashes \in 0 .. MaxCrashes /\ rejected \in 0 .. MaxRejected

Owns(p) == at[p] \in Owning
Running(p) == at[p] = "running"
Go(p, stage) == at' = [at EXCEPT ![p] = stage]

-----------------------------------------------------------------------------
(* acquire_instance_lock, Runtime::new and Server::start.                  *)

FreshInode == CHOOSE i \in 1 .. Cardinality(Processes) + 1 :
                i # disk.lock /\ \A p \in Processes : opened[p] # i

OpenLock == \E p \in Processes :
  LET inode == IF disk.lock = 0 THEN FreshInode ELSE disk.lock
  IN /\ at[p] = "off"
     /\ disk' = [disk EXCEPT !.lock = inode]
     /\ opened' = [opened EXCEPT ![p] = inode]
     /\ Go(p, "opened")
     /\ UNCHANGED <<bounds, serving, grabs, run>>

\* A process that meets the lock held exits with EXIT_ALREADY_RUNNING.
TryLock == \E p \in Processes :
  /\ at[p] = "opened"
  /\ IF \E q \in Processes : Owns(q) /\ opened[q] = opened[p]
     THEN Go(p, "off") /\ opened' = [opened EXCEPT ![p] = 0]
     ELSE Go(p, "locked") /\ UNCHANGED opened
  /\ UNCHANGED <<bounds, disk, serving, grabs, run>>

RemoveOldPid == \E p \in Processes :
  /\ at[p] = "locked"
  /\ disk' = [disk EXCEPT !.pid = None]
  /\ Go(p, "cleared")
  /\ UNCHANGED <<bounds, opened, serving, grabs, run>>

WritePid == \E p \in Processes :
  /\ at[p] = "cleared"
  /\ disk' = [disk EXCEPT !.pid = p]
  /\ Go(p, "owner")
  /\ UNCHANGED <<bounds, opened, serving, grabs, run>>

Build == \E p \in Processes, built \in BOOLEAN :
  /\ at[p] = "owner"
  /\ Go(p, IF built THEN "built" ELSE "released")
  /\ \E interactive \in BOOLEAN : run' = [Idle EXCEPT !.endsOnEof = interactive]
  /\ UNCHANGED <<bounds, files, serving, grabs>>

SocketActive == disk.socket \in serving

\* A stale socket is removed, an active one refuses the start, and so may the system;
\* after that the tray may fail to appear, which ends the session.
StartServer == \E p \in Processes, started, shown \in BOOLEAN :
  /\ at[p] = "built"
  /\ IF bound /\ (SocketActive \/ ~started)
     THEN /\ Go(p, "stopped")
          /\ disk' \in {disk, [disk EXCEPT !.socket = IF SocketActive THEN @ ELSE None]}
          /\ UNCHANGED serving
     ELSE /\ Go(p, IF shown THEN "running" ELSE "ending")
          /\ disk' = IF bound THEN [disk EXCEPT !.socket = p] ELSE disk
          /\ serving' = IF bound THEN serving \cup {p} ELSE serving
  /\ UNCHANGED <<bounds, opened, grabs, run>>

-----------------------------------------------------------------------------
(* The exit, in the order in which execute_session's locals are dropped.   *)

\* The worker ends and its OwnedSocket removes the path that is still its own.
StopServer == \E p \in Processes :
  /\ at[p] = "ending"
  /\ serving' = serving \ {p}
  /\ disk' = [disk EXCEPT !.socket = IF @ = p /\ p \in serving THEN None ELSE @]
  /\ Go(p, "stopped")
  /\ UNCHANGED <<bounds, opened, grabs, run>>

DropRuntime == \E p \in Processes :
  /\ at[p] = "stopped"
  /\ grabs' = grabs \ {p}
  /\ Go(p, "released")
  /\ UNCHANGED <<bounds, files, serving, run>>

RemovePid == \E p \in Processes :
  /\ at[p] = "released"
  /\ disk' = [disk EXCEPT !.pid = None]
  /\ Go(p, "unlisted")
  /\ UNCHANGED <<bounds, opened, serving, grabs, run>>

\* Mutant: the lock file is unlinked.
CloseAndUnlink == \E p \in Processes :
  /\ at[p] = "unlisted"
  /\ opened' = [opened EXCEPT ![p] = 0]
  /\ disk' = [disk EXCEPT !.lock = 0]
  /\ Go(p, "off")
  /\ UNCHANGED <<bounds, serving, grabs, run>>

CloseLock == \E p \in Processes :
  /\ at[p] = "unlisted"
  /\ opened' = [opened EXCEPT ![p] = 0]
  /\ Go(p, "off")
  /\ UNCHANGED <<bounds, disk, serving, grabs, run>>

\* The system frees the lock, the socket and the grabs; the files stay.
Crash == \E p \in Processes :
  /\ at[p] # "off"
  /\ crashes < MaxCrashes
  /\ crashes' = crashes + 1
  /\ opened' = [opened EXCEPT ![p] = 0]
  /\ serving' = serving \ {p}
  /\ grabs' = grabs \ {p}
  /\ Go(p, "off")
  /\ run' = IF Running(p) THEN Idle ELSE run
  /\ UNCHANGED <<bound, rejected, disk>>

-----------------------------------------------------------------------------
(* A pass of run_runtime, on the record run.  Each operator gives the set   *)
(* of what may come of it.                                                 *)

\* App::tick, reload and the first tick of a rebuilt App: hotkeys stay as they
\* are, are registered, or are not.
Registrations(r) ==
  {r, [r EXCEPT !.registered = TRUE, !.lost = FALSE], [r EXCEPT !.registered = FALSE]}

Read(r, n) ==
  [r EXCEPT !.presses = @ - n, !.ahead = IF @ <= n THEN 0 ELSE @ - n]

\* The press loop: up to Burst presses, fewer when the hotkey system says it has
\* lost its set; App::hotkeys_lost, and the next pass ticks.
Drained(r) ==
  CASE ~r.registered -> {r}
    [] r.registered /\ r.lost ->
         {[Read(r, n) EXCEPT !.registered = FALSE, !.due = TRUE] :
            n \in 0 .. Min({Burst - 1, r.presses})}
    [] OTHER -> {Read(r, Min({Burst, r.presses}))}

Polled(r) ==
  UNION {Drained(t) : t \in IF r.due THEN Registrations([r EXCEPT !.due = FALSE]) ELSE {r}}

\* Runtime::restart drops the hotkey system and what it queued.
Restarted(r) ==
  Registrations([r EXCEPT !.registered = FALSE, !.lost = FALSE, !.presses = 0,
                          !.ahead = 0, !.due = FALSE])

\* Mutant: no presses are read in a pass that has an instruction.
HandledUnpolled(r, instruction) ==
  CASE instruction = "reload"  -> Registrations(r)
    [] instruction = "restart" -> Restarted(r)
    [] OTHER                   -> {r}

\* Status, a manual dispatch and an EOF that ends nothing change no more than a poll.
Handled(r, instruction) ==
  UNION {Polled(h) : h \in CASE instruction = "reload"  -> Registrations(r)
                             [] instruction = "restart" -> Restarted(r)
                             [] OTHER                   -> {r}}

Ends(r, instruction) == instruction = "quit" \/ (instruction = "eof" /\ r.endsOnEof)

Disconnected(p) == ~run.reader /\ p \notin serving

\* What p's hotkey system holds is what its App registered, or nothing known.
Hold(p) ==
  /\ grabs' \in {grabs \cup {p}, grabs \ {p}}
  /\ run'.registered /\ ~run'.lost => p \in grabs'
  /\ run'.lost => p \notin grabs'

End(p) ==
  /\ Go(p, "ending")
  /\ run' = Idle
  /\ UNCHANGED grabs

GoOn(p, results) ==
  /\ run' \in results
  /\ Hold(p)
  /\ UNCHANGED at

\* An instruction is taken; a remote request that comes too late is answered
\* and skips the rest of the pass.
PassTakes == \E p \in Processes :
  /\ Running(p) /\ run.input /\ run.queue # <<>>
  /\ LET instruction == Head(run.queue)
         r == [run EXCEPT !.queue = Tail(@)]
     IN CASE Ends(r, instruction)   -> End(p)
          [] instruction = "late"   -> run' = r /\ UNCHANGED <<at, grabs>>
          [] OTHER                  -> GoOn(p, Handled(r, instruction))
  /\ UNCHANGED <<bounds, files, serving>>

\* Mutant: a closed queue ends every session.
PassDisconnectedEnds == \E p \in Processes :
  /\ Running(p) /\ (run.queue = <<>> \/ ~run.input)
  /\ IF run.input /\ Disconnected(p) THEN End(p) ELSE GoOn(p, Polled(run))
  /\ UNCHANGED <<bounds, files, serving>>

\* recv_timeout runs out, or there is nothing to receive from any more.
PassIdle == \E p \in Processes :
  /\ Running(p) /\ (run.queue = <<>> \/ ~run.input)
  /\ IF run.input /\ Disconnected(p) /\ run.endsOnEof THEN End(p)
     ELSE GoOn(p, Polled([run EXCEPT !.input = @ /\ ~Disconnected(p)]))
  /\ UNCHANGED <<bounds, files, serving>>

-----------------------------------------------------------------------------
(* What reaches the session.                                               *)

Input == \E p \in Processes, instruction \in Instructions :
  /\ Running(p) /\ Len(run.queue) < MaxQueue
  /\ IF instruction = "late" THEN p \in serving /\ rejected < MaxRejected ELSE run.reader
  /\ run' = [run EXCEPT !.queue = Append(@, instruction), !.reader = @ /\ instruction # "eof"]
  /\ rejected' = IF instruction = "late" THEN rejected + 1 ELSE rejected
  /\ UNCHANGED <<bound, at, files, serving, grabs, crashes>>

Press == \E p \in Processes, marked \in BOOLEAN :
  /\ Running(p) /\ p \in grabs /\ run.presses < MaxPresses
  /\ run' = [run EXCEPT !.presses = @ + 1,
                        !.ahead = IF @ = 0 /\ marked THEN run.presses + 1 ELSE @]
  /\ UNCHANGED <<bounds, at, files, serving, grabs>>

Lose == \E p \in Processes :
  /\ Running(p) /\ run.registered /\ ~run.lost
  /\ run' = [run EXCEPT !.lost = TRUE]
  /\ grabs' = grabs \ {p}
  /\ UNCHANGED <<bounds, at, files, serving>>

\* RUNTIME_TICK_INTERVAL goes by.
TickDue ==
  /\ ~run.due /\ \E p \in Processes : Running(p)
  /\ run' = [run EXCEPT !.due = TRUE]
  /\ UNCHANGED <<bounds, at, files, serving, grabs>>

Init ==
  /\ bound \in BOOLEAN
  /\ at = [p \in Processes |-> "off"]
  /\ opened = [p \in Processes |-> 0]
  /\ disk = [lock |-> 0, pid |-> None, socket |-> None]
  /\ serving = {} /\ grabs = {}
  /\ run = Idle
  /\ crashes = 0 /\ rejected = 0

StartUp == OpenLock \/ TryLock \/ RemoveOldPid \/ WritePid \/ Build \/ StartServer
Exit == StopServer \/ DropRuntime \/ RemovePid \/ CloseLock
Passes == PassTakes \/ PassIdle
Reaches == Input \/ Press \/ Lose \/ TickDue

Next == StartUp \/ Exit \/ Passes \/ Reaches \/ Crash

\* The runner's thread is never blocked for ever, and a session that ends ends.
Fairness == WF_vars(Passes) /\ WF_vars(Exit)

Spec == Init /\ [][Next]_vars /\ Fairness

-----------------------------------------------------------------------------
(* Safety.                                                                 *)

\* "Only one App instance owns the hotkeys at a time", through crashes and
\* starts at any moment.
OneSession == \A p, q \in Processes : Owns(p) /\ Owns(q) => p = q

\* Hotkeys are held only by a process that still has the lock: the next session
\* never meets its predecessor's grabs.
KeysUnderLock == \A p \in grabs : Owns(p)

\* "Keep the lock held while removing its sidecar": the pid beside the lock is
\* the session's for as long as it runs, whoever exits or is refused meanwhile.
PidNamesSession == \A p \in Processes : at[p] \in {"owner", "built", "running"} => disk.pid = p

\* While a session runs, clients find its own worker behind the socket, and a
\* session that starts never meets an active one.
SocketIsSessions == bound =>
  /\ \A p \in Processes : Running(p) => disk.socket = p /\ p \in serving
  /\ \A p \in Processes : at[p] = "built" => ~SocketActive

\* One session at a time, whose lock, pid file, socket and grabs are its own.
SessionIsOne == TypeOK /\ OneSession /\ KeysUnderLock /\ PidNamesSession /\ SocketIsSessions

\* A service goes on when its input ends, closed queue or not.
EndsOnlyAsAsked ==
  [][\A p \in Processes : Running(p) /\ at'[p] = "ending" =>
       run.endsOnEof \/ (run.queue # <<>> /\ Head(run.queue) = "quit")]_vars

-----------------------------------------------------------------------------
(* Liveness.                                                               *)

\* A press in the queue is dispatched, whatever instructions keep coming, unless
\* the App no longer has its hotkeys registered or the session ends.
PressesAreHandled == (run.ahead > 0) ~> (run.ahead = 0 \/ ~run.registered)

\* Every quit and every remote request is taken from the queue, also after EOF.
RequestsAreTaken ==
  \A instruction \in {"quit", "late"} :
    (\E i \in DOMAIN run.queue : run.queue[i] = instruction)
      ~> ~\E i \in DOMAIN run.queue : run.queue[i] = instruction
=============================================================================
