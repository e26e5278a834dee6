------------------------- MODULE Application_proofs -------------------------
(***************************************************************************)
(* For any number of processes, starting and crashing at any moment, one   *)
(* session at a time has the lock, the pid file, the socket and the keys;  *)
(* and it ends only as asked.                                              *)
(*                                                                         *)
(* The lock file is never unlinked, so that every process that has opened  *)
(* it locks one inode: that is what makes the session one, and everything  *)
(* else is what its stage lets its process do.                             *)
(*                                                                         *)
(* Of the launch: the backend is the desktop's, and a request reaches its  *)
(* compositor or none.  Of the config files: `init` keeps the user's, and  *)
(* a key does what is written beside its hotkey, however that is spelt and *)
(* on every desktop.  Of the dispatch, which ends behind the session's     *)
(* socket: answers are true and in time.                                   *)
(***************************************************************************)
EXTENDS Application, LocalDispatch, TLAPS, FiniteSetTheorems, SequenceTheorems

-----------------------------------------------------------------------------
(* The runner's record.                                                    *)

Runs == [input : BOOLEAN, reader : BOOLEAN, endsOnEof : BOOLEAN, due : BOOLEAN,
         registered : BOOLEAN, lost : BOOLEAN, presses : 0 .. MaxPresses,
         ahead : 0 .. MaxPresses, queue : Seq(Instructions)]
GoodRuns == {r \in Runs : r.ahead <= r.presses}

LEMMA MinOfTwo ==
  ASSUME NEW a \in Nat, NEW b \in Nat
  PROVE  Min({a, b}) = (IF a <= b THEN a ELSE b)
<1> DEFINE m == IF a <= b THEN a ELSE b
<1>1. m \in {a, b} /\ \A y \in {a, b} : m <= y
  OBVIOUS
<1>2. \A x \in {a, b} : (\A y \in {a, b} : x <= y) => x = m
  OBVIOUS
<1>3. QED
  BY <1>1, <1>2 DEF Min

LEMMA IdleIsGood ==
  /\ Idle \in GoodRuns
  /\ \A b \in BOOLEAN : [Idle EXCEPT !.endsOnEof = b] \in GoodRuns
<1>1. 0 \in 0 .. MaxPresses /\ <<>> \in Seq(Instructions)
  BY ConstantsOK
<1>2. Idle \in Runs /\ Idle.ahead <= Idle.presses
  BY <1>1 DEF Idle, Runs
<1>3. ASSUME NEW b \in BOOLEAN PROVE [Idle EXCEPT !.endsOnEof = b] \in GoodRuns
  <2> DEFINE t == [Idle EXCEPT !.endsOnEof = b]
  <2>1. t \in Runs /\ t.ahead = Idle.ahead /\ t.presses = Idle.presses
    BY <1>2 DEF Runs
  <2>2. QED
    BY <1>2, <2>1 DEF GoodRuns
<1>4. QED
  BY <1>2, <1>3 DEF GoodRuns

\* What a reload or a rebuilt App leaves.
LEMMA RegistrationsGood ==
  ASSUME NEW r \in GoodRuns
  PROVE  Registrations(r) \subseteq GoodRuns
BY DEF Registrations, GoodRuns, Runs

LEMMA ReadGood ==
  ASSUME NEW r \in GoodRuns, NEW n \in 0 .. r.presses
  PROVE  Read(r, n) \in GoodRuns
<1>1. r.presses - n \in 0 .. MaxPresses
  BY ConstantsOK DEF GoodRuns, Runs
<1>2. (IF r.ahead <= n THEN 0 ELSE r.ahead - n) \in 0 .. r.presses - n
  BY DEF GoodRuns, Runs
<1>3. /\ Read(r, n) \in Runs
      /\ Read(r, n).presses = r.presses - n
      /\ Read(r, n).ahead = (IF r.ahead <= n THEN 0 ELSE r.ahead - n)
  <2> DEFINE left == IF r.ahead <= n THEN 0 ELSE r.ahead - n
  <2>1. left \in 0 .. MaxPresses
    <3>1. left \in Int /\ r.presses - n \in Int /\ 0 <= left /\ left <= r.presses - n
      BY <1>1, <1>2
    <3>2. r.presses - n <= MaxPresses /\ MaxPresses \in Int
      BY <1>1, ConstantsOK
    <3>3. QED
      BY <3>1, <3>2
  <2>2. QED
    BY <1>1, <2>1 DEF Read, GoodRuns, Runs
<1>4. QED
  BY <1>2, <1>3 DEF GoodRuns

\* The press loop takes no more presses than there are.
LEMMA DrainedGood ==
  ASSUME NEW r \in GoodRuns
  PROVE  Drained(r) \subseteq GoodRuns
<1>1. r.presses \in Nat /\ Burst \in Nat \ {0} /\ Burst - 1 \in Nat
  BY ConstantsOK DEF GoodRuns, Runs
<1>2. /\ Min({Burst - 1, r.presses}) \in 0 .. r.presses
      /\ Min({Burst, r.presses}) \in 0 .. r.presses
  BY <1>1, MinOfTwo
<1>3. ASSUME NEW n \in 0 .. Min({Burst - 1, r.presses})
      PROVE  [Read(r, n) EXCEPT !.registered = FALSE, !.due = TRUE] \in GoodRuns
  <2>1. n \in 0 .. r.presses
    BY <1>1, <1>2
  <2>2. Read(r, n) \in GoodRuns
    BY <2>1, ReadGood
  <2>3. QED
    BY <2>2 DEF GoodRuns, Runs
<1>4. Read(r, Min({Burst, r.presses})) \in GoodRuns
  BY <1>2, ReadGood
<1>5. CASE ~r.registered
  BY <1>5 DEF Drained
<1>6. CASE r.registered /\ r.lost
  BY <1>3, <1>6 DEF Drained
<1>7. CASE r.registered /\ ~r.lost
  BY <1>4, <1>7 DEF Drained
<1>8. QED
  BY <1>5, <1>6, <1>7 DEF GoodRuns, Runs

LEMMA PolledGood ==
  ASSUME NEW r \in GoodRuns
  PROVE  Polled(r) \subseteq GoodRuns
<1>1. [r EXCEPT !.due = FALSE] \in GoodRuns
  BY DEF GoodRuns, Runs
<1>2. (IF r.due THEN Registrations([r EXCEPT !.due = FALSE]) ELSE {r}) \subseteq GoodRuns
  BY <1>1, RegistrationsGood
<1>3. QED
  BY <1>2, DrainedGood DEF Polled

LEMMA HandledGood ==
  ASSUME NEW r \in GoodRuns, NEW instruction
  PROVE  Handled(r, instruction) \subseteq GoodRuns
<1> DEFINE t == [r EXCEPT !.registered = FALSE, !.lost = FALSE, !.presses = 0, !.ahead = 0,
                          !.due = FALSE]
<1>1. t \in GoodRuns
  <2>1. 0 \in 0 .. MaxPresses
    BY ConstantsOK
  <2>2. t \in Runs /\ t.ahead = 0 /\ t.presses = 0
    BY <2>1 DEF GoodRuns, Runs
  <2>3. t.ahead <= t.presses
    BY <2>2
  <2>4. QED
    BY <2>2, <2>3 DEF GoodRuns
<1>2. Restarted(r) \subseteq GoodRuns /\ Registrations(r) \subseteq GoodRuns
  BY <1>1, RegistrationsGood DEF Restarted
<1>3. (CASE instruction = "reload"  -> Registrations(r)
         [] instruction = "restart" -> Restarted(r)
         [] OTHER                   -> {r}) \subseteq GoodRuns
  BY <1>2
<1>4. QED
  BY <1>3, PolledGood DEF Handled


-----------------------------------------------------------------------------
(* The inductive invariant of Session.                                     *)

\* Whoever has opened the lock file has opened the one that is there.
LockIsOne == \A p \in Processes :
  IF at[p] = "off" THEN opened[p] = 0 ELSE opened[p] = disk.lock /\ disk.lock # 0

\* Grabs and sockets belong to stages that lie inside the lock.
KeysByStage == \A p \in grabs : at[p] \in {"running", "ending", "stopped"}
ServingByStage == \A p \in serving : at[p] \in {"running", "ending"}
SocketByStage == bound => \A p \in Processes : Running(p) => disk.socket = p /\ p \in serving

IInv == TypeOK /\ LockIsOne /\ OneSession /\ PidNamesSession
        /\ KeysByStage /\ ServingByStage /\ SocketByStage

Disks == [lock : 0 .. Cardinality(Processes) + 1, pid : Processes \cup {None},
          socket : Processes \cup {None}]

\* A new lock file gets an inode nobody has open.
LEMMA FreshInodeFits ==
  ASSUME IInv, disk.lock = 0
  PROVE  FreshInode \in 1 .. Cardinality(Processes) + 1
<1>1. Cardinality(Processes) \in Nat
  BY ConstantsOK, FS_CardinalityType
<1>2. 1 \in 1 .. Cardinality(Processes) + 1
  BY <1>1
<1>3. 1 # disk.lock /\ \A p \in Processes : opened[p] # 1
  BY DEF IInv, LockIsOne
<1>4. \E i \in 1 .. Cardinality(Processes) + 1 :
        i # disk.lock /\ \A p \in Processes : opened[p] # i
  BY <1>2, <1>3
<1>5. QED
  BY <1>4 DEF FreshInode

LEMMA SessionInitially == Init => IInv
<1> SUFFICES ASSUME Init PROVE IInv
  OBVIOUS
<1>1. Cardinality(Processes) \in Nat
  BY ConstantsOK, FS_CardinalityType
<1>2. 0 \in 0 .. Cardinality(Processes) + 1 /\ 0 \in 0 .. MaxCrashes /\ 0 \in 0 .. MaxRejected
  BY <1>1, ConstantsOK
<1>3. disk \in Disks
  BY <1>2 DEF Init, Disks
<1>4. run \in GoodRuns
  BY IdleIsGood DEF Init
<1>5. TypeOK
  BY <1>2, <1>3, <1>4 DEF Init, TypeOK, Stages, Disks, GoodRuns, Runs
<1>6. QED
  BY <1>5 DEF IInv, Init, LockIsOne, OneSession, Owns, Owning, PidNamesSession, KeysByStage,
              ServingByStage, SocketByStage, Running

-----------------------------------------------------------------------------
(* Starting.                                                               *)

LEMMA OpenLockStep == IInv /\ OpenLock => IInv'
<1> SUFFICES ASSUME IInv, NEW p \in Processes,
                    at[p] = "off",
                    disk' = [disk EXCEPT !.lock = IF disk.lock = 0 THEN FreshInode ELSE disk.lock],
                    opened' = [opened EXCEPT ![p] = IF disk.lock = 0 THEN FreshInode ELSE disk.lock],
                    Go(p, "opened"), UNCHANGED <<bounds, serving, grabs, run>>
             PROVE  IInv'
  BY DEF OpenLock
<1> DEFINE inode == IF disk.lock = 0 THEN FreshInode ELSE disk.lock
<1>1. TypeOK /\ disk \in Disks
  BY DEF IInv, TypeOK, Disks
<1>2. inode \in 1 .. Cardinality(Processes) + 1
  <2>1. Cardinality(Processes) \in Nat
    BY ConstantsOK, FS_CardinalityType
  <2>2. QED
    BY <1>1, <2>1, FreshInodeFits DEF Disks
<1>3. disk.lock # 0 => inode = disk.lock
  OBVIOUS
<1> HIDE DEF inode
<1>4. /\ inode # 0 /\ inode \in 0 .. Cardinality(Processes) + 1
      /\ disk'.lock = inode /\ disk'.pid = disk.pid /\ disk'.socket = disk.socket
      /\ disk' \in Disks
  <2>1. Cardinality(Processes) \in Nat
    BY ConstantsOK, FS_CardinalityType
  <2>2. inode # 0 /\ inode \in 0 .. Cardinality(Processes) + 1
    BY <1>2, <2>1
  <2>3. QED
    BY <1>1, <2>2 DEF Disks, inode
<1>5. \A q \in Processes : /\ at'[q] = (IF q = p THEN "opened" ELSE at[q])
                           /\ opened'[q] = (IF q = p THEN inode ELSE opened[q])
  BY <1>1 DEF TypeOK, Go, inode
<1>6. at' \in [Processes -> Stages] /\ opened' \in [Processes -> 0 .. Cardinality(Processes) + 1]
  BY <1>1, <1>4 DEF TypeOK, Go, Stages, inode
<1>7. TypeOK'
  <2>1. UNCHANGED <<bound, crashes, rejected, serving, grabs, run>>
    BY DEF bounds
  <2>2. QED
    BY <1>1, <1>4, <1>6, <2>1 DEF TypeOK, Disks
<1>8. LockIsOne'
  BY <1>3, <1>4, <1>5 DEF IInv, LockIsOne
<1>9. UNCHANGED <<bound, serving, grabs>>
  BY DEF bounds
<1>10. OneSession' /\ PidNamesSession'
  BY <1>4, <1>5 DEF IInv, OneSession, PidNamesSession, Owns, Owning
<1>11. KeysByStage' /\ ServingByStage'
  BY <1>1, <1>5, <1>9 DEF IInv, KeysByStage, ServingByStage, TypeOK
<1>12. SocketByStage'
  BY <1>4, <1>5, <1>9 DEF IInv, SocketByStage, Running
<1>13. QED
  BY <1>7, <1>8, <1>10, <1>11, <1>12 DEF IInv

\* Two locks of one file: the second is refused.
LEMMA TryLockStep == IInv /\ TryLock => IInv'
<1> SUFFICES ASSUME IInv, NEW p \in Processes, at[p] = "opened",
                    IF \E q \in Processes : Owns(q) /\ opened[q] = opened[p]
                    THEN Go(p, "off") /\ opened' = [opened EXCEPT ![p] = 0]
                    ELSE Go(p, "locked") /\ UNCHANGED opened,
                    UNCHANGED <<bounds, disk, serving, grabs, run>>
             PROVE  IInv'
  BY DEF TryLock
<1> USE DEF IInv, TypeOK
<1>0. 0 \in 0 .. Cardinality(Processes) + 1
  BY ConstantsOK, FS_CardinalityType
<1>1. CASE \E q \in Processes : Owns(q) /\ opened[q] = opened[p]
  <2>1. /\ at' = [at EXCEPT ![p] = "off"] /\ opened' = [opened EXCEPT ![p] = 0]
        /\ UNCHANGED <<bound, crashes, rejected, disk, serving, grabs, run>>
    BY <1>1 DEF Go, bounds
  <2>2. TypeOK'
    BY <1>0, <2>1 DEF Stages
  <2>3. QED
    BY <2>1, <2>2 DEF LockIsOne, OneSession, Owns, Owning, PidNamesSession,
       KeysByStage, ServingByStage, SocketByStage, Running
<1>2. CASE ~\E q \in Processes : Owns(q) /\ opened[q] = opened[p]
  <2>1. /\ at' = [at EXCEPT ![p] = "locked"]
        /\ UNCHANGED <<bound, crashes, rejected, opened, disk, serving, grabs, run>>
    BY <1>2 DEF Go, bounds
  <2>2. TypeOK'
    BY <2>1 DEF Stages, Owning
  <2>3. \A q \in Processes : ~Owns(q)
    BY <1>2 DEF LockIsOne, Owns, Owning
  <2>4. OneSession'
    BY <2>1, <2>3 DEF OneSession, Owns
  <2>5. QED
    BY <2>1, <2>2, <2>4 DEF LockIsOne, PidNamesSession,
       KeysByStage, ServingByStage, SocketByStage, Running
<1>3. QED
  BY <1>1, <1>2


\* The one owner writes its sidecar.
LEMMA PidSteps == IInv /\ (RemoveOldPid \/ WritePid) => IInv'
<1> SUFFICES ASSUME IInv, NEW p \in Processes, NEW pid \in Processes \cup {None}, NEW stage \in Owning,
                    \/ at[p] = "locked" /\ stage = "cleared"
                    \/ at[p] = "cleared" /\ stage = "owner" /\ pid = p,
                    disk' = [disk EXCEPT !.pid = pid], Go(p, stage),
                    UNCHANGED <<bound, crashes, rejected, opened, serving, grabs, run>>
             PROVE  IInv'
  BY DEF RemoveOldPid, WritePid, bounds, Owning
<1> USE DEF IInv
<1>1. TypeOK /\ disk \in Disks
  BY DEF TypeOK, Disks
<1>2. disk' \in Disks /\ disk'.pid = pid /\ disk'.lock = disk.lock /\ disk'.socket = disk.socket
  BY <1>1 DEF Disks
<1>3. at' \in [Processes -> Stages] /\ \A q \in Processes : at'[q] = IF q = p THEN stage ELSE at[q]
  BY <1>1 DEF TypeOK, Go, Stages
<1>4. TypeOK'
  BY <1>1, <1>2, <1>3 DEF TypeOK, Disks
<1>5. \A q \in Processes : Owns(q) => q = p
  BY DEF OneSession, Owns, Owning
<1>6. OneSession' /\ PidNamesSession'
  BY <1>2, <1>3, <1>5 DEF OneSession, PidNamesSession, Owns, Owning
<1>7. LockIsOne'
  BY <1>2, <1>3 DEF LockIsOne, Owning
<1>8. KeysByStage' /\ ServingByStage'
  BY <1>1, <1>3 DEF KeysByStage, ServingByStage, TypeOK
<1>9. SocketByStage'
  BY <1>2, <1>3 DEF SocketByStage, Running
<1>10. QED
  BY <1>4, <1>6, <1>7, <1>8, <1>9

\* The runtime is built, or is not.
LEMMA BuildStep == IInv /\ Build => IInv'
<1> SUFFICES ASSUME IInv, NEW p \in Processes, NEW stage \in {"built", "released"},
                    at[p] = "owner", Go(p, stage), run' \in GoodRuns,
                    UNCHANGED <<bound, crashes, rejected, opened, disk, serving, grabs>>
             PROVE  IInv'
  BY IdleIsGood DEF Build, bounds, files
<1> USE DEF IInv
<1>1. at' \in [Processes -> Stages] /\ \A q \in Processes : at'[q] = IF q = p THEN stage ELSE at[q]
  BY DEF TypeOK, Go, Stages, Owning
<1>2. TypeOK'
  BY <1>1 DEF TypeOK, GoodRuns, Runs
<1>3. OneSession' /\ PidNamesSession'
  BY <1>1 DEF OneSession, PidNamesSession, Owns, Owning
<1>4. LockIsOne'
  BY <1>1 DEF LockIsOne
<1>5. KeysByStage' /\ ServingByStage'
  BY <1>1 DEF KeysByStage, ServingByStage, TypeOK
<1>6. SocketByStage'
  BY <1>1 DEF SocketByStage, Running
<1>7. QED
  BY <1>2, <1>3, <1>4, <1>5, <1>6

\* The socket of the one session is put in place.
LEMMA StartServerStep == IInv /\ StartServer => IInv'
<1> SUFFICES ASSUME IInv, NEW p \in Processes, NEW started \in BOOLEAN, NEW shown \in BOOLEAN,
                    at[p] = "built",
                    IF bound /\ (SocketActive \/ ~started)
                    THEN /\ Go(p, "stopped")
                         /\ disk' \in {disk, [disk EXCEPT !.socket = IF SocketActive THEN @ ELSE None]}
                         /\ UNCHANGED serving
                    ELSE /\ Go(p, IF shown THEN "running" ELSE "ending")
                         /\ disk' = IF bound THEN [disk EXCEPT !.socket = p] ELSE disk
                         /\ serving' = IF bound THEN serving \cup {p} ELSE serving,
                    UNCHANGED <<bound, crashes, rejected, opened, grabs, run>>
             PROVE  IInv'
  BY DEF StartServer, bounds
<1> USE DEF IInv
<1>1. TypeOK /\ disk \in Disks
  BY DEF TypeOK, Disks
<1>2. \A q \in Processes : Owns(q) => q = p
  BY DEF OneSession, Owns, Owning
<1>3. PICK stage \in {"running", "ending", "stopped"} : Go(p, stage)
  OBVIOUS
<1>4. at' \in [Processes -> Stages] /\ \A q \in Processes : at'[q] = IF q = p THEN stage ELSE at[q]
  BY <1>1, <1>3 DEF TypeOK, Go, Stages, Owning
<1>5. disk' \in Disks /\ disk'.lock = disk.lock /\ disk'.pid = disk.pid
  BY <1>1 DEF Disks
<1>6. serving' \subseteq Processes
  BY <1>1 DEF TypeOK
<1>7. TypeOK'
  BY <1>1, <1>4, <1>5, <1>6 DEF TypeOK, Disks
<1>8. OneSession' /\ PidNamesSession'
  BY <1>2, <1>4, <1>5 DEF OneSession, PidNamesSession, Owns, Owning
<1>9. LockIsOne'
  BY <1>4, <1>5 DEF LockIsOne
<1>10. KeysByStage'
  BY <1>1, <1>4 DEF KeysByStage, TypeOK
<1>11. serving = {}
  BY <1>1, <1>2 DEF ServingByStage, Owns, Owning, TypeOK
<1>12. ServingByStage'
  <2>1. CASE serving' = {}
    BY <2>1 DEF ServingByStage
  <2>2. CASE serving' # {}
    <3>1. serving' = {p} /\ Go(p, IF shown THEN "running" ELSE "ending")
      BY <2>2, <1>11
    <3>2. at'[p] \in {"running", "ending"}
      BY <1>1, <3>1 DEF Go, TypeOK
    <3>3. QED
      BY <3>1, <3>2 DEF ServingByStage
  <2>3. QED
    BY <2>1, <2>2
<1>13. SocketByStage'
  <2>1. SUFFICES ASSUME bound, NEW q \in Processes, at'[q] = "running"
                 PROVE  disk'.socket = q /\ q \in serving'
    BY DEF SocketByStage, Running
  <2>2. q = p
    BY <1>2, <1>4, <2>1 DEF Owns, Owning
  <2>3. ~(SocketActive \/ ~started)
    BY <1>1, <2>1, <2>2 DEF Go, TypeOK
  <2>4. QED
    BY <1>1, <2>1, <2>2, <2>3 DEF Disks
<1>14. QED
  BY <1>7, <1>8, <1>9, <1>10, <1>12, <1>13

-----------------------------------------------------------------------------
(* Ending.                                                                 *)

\* The locals are dropped, the lock last.
LEMMA ExitSteps == IInv /\ Exit => IInv'
<1> SUFFICES ASSUME IInv, Exit PROVE IInv'
  OBVIOUS
<1> USE DEF IInv
<1>1. TypeOK /\ disk \in Disks
  BY DEF TypeOK, Disks
<1>2. CASE StopServer
  <2>1. PICK p \in Processes :
          /\ at[p] = "ending" /\ at' = [at EXCEPT ![p] = "stopped"]
          /\ serving' = serving \ {p}
          /\ disk' = [disk EXCEPT !.socket = IF @ = p /\ p \in serving THEN None ELSE @]
          /\ UNCHANGED <<bound, crashes, rejected, opened, grabs, run>>
    BY <1>2 DEF StopServer, Go, bounds
  <2>2. at' \in [Processes -> Stages] /\ \A q \in Processes : at'[q] = IF q = p THEN "stopped" ELSE at[q]
    BY <1>1, <2>1 DEF TypeOK, Stages, Owning
  <2>3. disk' \in Disks /\ disk'.lock = disk.lock /\ disk'.pid = disk.pid
    BY <1>1, <2>1 DEF Disks
  <2>4. TypeOK'
    BY <1>1, <2>1, <2>2, <2>3 DEF TypeOK, Disks
  <2>5. OneSession' /\ PidNamesSession' /\ LockIsOne'
    BY <2>1, <2>2, <2>3 DEF OneSession, PidNamesSession, LockIsOne, Owns, Owning
  <2>6. KeysByStage' /\ ServingByStage'
    BY <1>1, <2>1, <2>2 DEF KeysByStage, ServingByStage, TypeOK
  <2>7. \A q \in Processes : ~Running(q)'
    BY <2>1, <2>2 DEF OneSession, Owns, Owning, Running
  <2>8. QED
    BY <2>4, <2>5, <2>6, <2>7 DEF SocketByStage
<1>3. CASE DropRuntime
  <2>1. PICK p \in Processes :
          /\ at[p] = "stopped" /\ at' = [at EXCEPT ![p] = "released"]
          /\ grabs' = grabs \ {p}
          /\ UNCHANGED <<bound, crashes, rejected, opened, disk, serving, run>>
    BY <1>3 DEF DropRuntime, Go, bounds, files
  <2>2. at' \in [Processes -> Stages] /\ \A q \in Processes : at'[q] = IF q = p THEN "released" ELSE at[q]
    BY <1>1, <2>1 DEF TypeOK, Stages, Owning
  <2>3. TypeOK'
    BY <1>1, <2>1, <2>2 DEF TypeOK
  <2>4. OneSession' /\ PidNamesSession' /\ LockIsOne'
    BY <2>1, <2>2 DEF OneSession, PidNamesSession, LockIsOne, Owns, Owning
  <2>5. KeysByStage' /\ ServingByStage'
    BY <1>1, <2>1, <2>2 DEF KeysByStage, ServingByStage, TypeOK
  <2>6. QED
    BY <2>1, <2>2, <2>3, <2>4, <2>5 DEF SocketByStage, Running
<1>4. CASE RemovePid
  <2>1. PICK p \in Processes :
          /\ at[p] = "released" /\ at' = [at EXCEPT ![p] = "unlisted"]
          /\ disk' = [disk EXCEPT !.pid = None]
          /\ UNCHANGED <<bound, crashes, rejected, opened, serving, grabs, run>>
    BY <1>4 DEF RemovePid, Go, bounds
  <2>2. at' \in [Processes -> Stages] /\ \A q \in Processes : at'[q] = IF q = p THEN "unlisted" ELSE at[q]
    BY <1>1, <2>1 DEF TypeOK, Stages, Owning
  <2>3. disk' \in Disks /\ disk'.lock = disk.lock /\ disk'.socket = disk.socket
    BY <1>1, <2>1 DEF Disks
  <2>4. TypeOK'
    BY <1>1, <2>1, <2>2, <2>3 DEF TypeOK, Disks
  <2>5. OneSession' /\ LockIsOne'
    BY <2>1, <2>2, <2>3 DEF OneSession, LockIsOne, Owns, Owning
  <2>6. \A q \in Processes : at'[q] \notin {"owner", "built", "running"}
    BY <2>1, <2>2 DEF OneSession, Owns, Owning
  <2>7. KeysByStage' /\ ServingByStage'
    BY <1>1, <2>1, <2>2 DEF KeysByStage, ServingByStage, TypeOK
  <2>8. QED
    BY <2>4, <2>5, <2>6, <2>7 DEF PidNamesSession, SocketByStage, Running
<1>5. CASE CloseLock
  <2>1. PICK p \in Processes :
          /\ at[p] = "unlisted" /\ at' = [at EXCEPT ![p] = "off"]
          /\ opened' = [opened EXCEPT ![p] = 0]
          /\ UNCHANGED <<bound, crashes, rejected, disk, serving, grabs, run>>
    BY <1>5 DEF CloseLock, Go, bounds
  <2>2. at' \in [Processes -> Stages] /\ \A q \in Processes : at'[q] = IF q = p THEN "off" ELSE at[q]
    BY <1>1, <2>1 DEF TypeOK, Stages, Owning
  <2>3. /\ opened' \in [Processes -> 0 .. Cardinality(Processes) + 1]
        /\ \A q \in Processes : opened'[q] = IF q = p THEN 0 ELSE opened[q]
    <3>1. 0 \in 0 .. Cardinality(Processes) + 1
      BY ConstantsOK, FS_CardinalityType
    <3>2. QED
      BY <1>1, <2>1, <3>1 DEF TypeOK
  <2>4. TypeOK'
    BY <1>1, <2>1, <2>2, <2>3 DEF TypeOK
  <2>5. OneSession' /\ PidNamesSession' /\ LockIsOne'
    BY <2>1, <2>2, <2>3 DEF OneSession, PidNamesSession, LockIsOne, Owns, Owning
  <2>6. KeysByStage' /\ ServingByStage'
    BY <1>1, <2>1, <2>2 DEF KeysByStage, ServingByStage, TypeOK
  <2>7. QED
    BY <2>1, <2>2, <2>4, <2>5, <2>6 DEF SocketByStage, Running
<1>6. QED
  BY <1>2, <1>3, <1>4, <1>5 DEF Exit


\* A crash at any stage frees what the system frees.
LEMMA SessionCrashStep == IInv /\ Crash => IInv'
<1> SUFFICES ASSUME IInv, NEW p \in Processes, crashes < MaxCrashes, crashes' = crashes + 1,
                    opened' = [opened EXCEPT ![p] = 0], at' = [at EXCEPT ![p] = "off"],
                    serving' = serving \ {p}, grabs' = grabs \ {p},
                    run' = IF Running(p) THEN Idle ELSE run,
                    UNCHANGED <<bound, rejected, disk>>
             PROVE  IInv'
  BY DEF Crash, Go
<1> USE DEF IInv
<1>1. at' \in [Processes -> Stages] /\ \A q \in Processes : at'[q] = IF q = p THEN "off" ELSE at[q]
  BY DEF TypeOK, Stages
<1>2. /\ opened' \in [Processes -> 0 .. Cardinality(Processes) + 1]
      /\ \A q \in Processes : opened'[q] = IF q = p THEN 0 ELSE opened[q]
  <2>1. 0 \in 0 .. Cardinality(Processes) + 1
    BY ConstantsOK, FS_CardinalityType
  <2>2. QED
    BY <2>1 DEF TypeOK
<1>3. crashes' \in 0 .. MaxCrashes
  BY ConstantsOK DEF TypeOK
<1>4. run' \in GoodRuns
  BY IdleIsGood DEF TypeOK, GoodRuns, Runs
<1>5. TypeOK'
  BY <1>1, <1>2, <1>3, <1>4 DEF TypeOK, GoodRuns, Runs
<1>6. OneSession' /\ PidNamesSession' /\ LockIsOne'
  BY <1>1, <1>2 DEF OneSession, PidNamesSession, LockIsOne, Owns, Owning
<1>7. KeysByStage' /\ ServingByStage'
  BY <1>1 DEF KeysByStage, ServingByStage, TypeOK
<1>8. SocketByStage'
  BY <1>1 DEF SocketByStage, Running
<1>9. QED
  BY <1>5, <1>6, <1>7, <1>8

-----------------------------------------------------------------------------
(* Running.                                                                *)

\* All that a pass may do to the rest: the session goes on, and its keys are its
\* own, or it ends as asked.
Passed(p) ==
  /\ Running(p) /\ run' \in GoodRuns
  /\ UNCHANGED <<bound, crashes, rejected, opened, disk, serving>>
  /\ \/ UNCHANGED at /\ (grabs' \subseteq grabs \cup {p})
     \/ /\ at' = [at EXCEPT ![p] = "ending"] /\ UNCHANGED grabs
        /\ run.endsOnEof \/ (run.queue # <<>> /\ Head(run.queue) = "quit")

LEMMA PassesPass == IInv /\ Passes => \E p \in Processes : Passed(p)
<1> SUFFICES ASSUME IInv, Passes PROVE \E p \in Processes : Passed(p)
  OBVIOUS
<1>1. run \in GoodRuns
  BY DEF IInv, TypeOK, GoodRuns, Runs
<1>2. ASSUME NEW p \in Processes, Running(p), End(p), UNCHANGED <<bounds, files, serving>>,
             run.endsOnEof \/ (run.queue # <<>> /\ Head(run.queue) = "quit")
      PROVE  Passed(p)
  BY <1>2, IdleIsGood DEF Passed, End, Go, bounds, files
<1>3. ASSUME NEW p \in Processes, Running(p), NEW rs \in SUBSET GoodRuns, GoOn(p, rs),
             UNCHANGED <<bounds, files, serving>>
      PROVE  Passed(p)
  BY <1>3 DEF Passed, GoOn, Hold, bounds, files
<1>4. CASE PassTakes
  <2> DEFINE instruction == Head(run.queue)
             r == [run EXCEPT !.queue = Tail(@)]
  <2>1. PICK p \in Processes :
          /\ Running(p) /\ run.input /\ run.queue # <<>>
          /\ CASE Ends(r, instruction)   -> End(p)
               [] instruction = "late"   -> run' = r /\ UNCHANGED <<at, grabs>>
               [] OTHER                  -> GoOn(p, Handled(r, instruction))
          /\ UNCHANGED <<bounds, files, serving>>
    BY <1>4 DEF PassTakes
  <2>2. r \in GoodRuns /\ r.endsOnEof = run.endsOnEof
    <3>1. Tail(run.queue) \in Seq(Instructions)
      BY <1>1, <2>1 DEF GoodRuns, Runs
    <3>2. r \in Runs /\ r.ahead = run.ahead /\ r.presses = run.presses /\ r.endsOnEof = run.endsOnEof
      BY <1>1, <3>1 DEF GoodRuns, Runs
    <3>3. QED
      BY <1>1, <3>2 DEF GoodRuns
  <2> HIDE DEF r
  <2>3. CASE Ends(r, instruction)
    <3>1. End(p)
      BY <2>1, <2>3 DEF Ends
    <3>2. run.endsOnEof \/ (run.queue # <<>> /\ Head(run.queue) = "quit")
      BY <2>1, <2>2, <2>3 DEF Ends
    <3>3. QED
      BY <1>2, <2>1, <3>1, <3>2
  <2>4. CASE ~Ends(r, instruction) /\ instruction = "late"
    <3>1. run' = r /\ UNCHANGED <<at, grabs>>
      BY <2>1, <2>4
    <3>2. Passed(p)
      BY <2>1, <2>2, <3>1 DEF Passed, bounds, files
    <3>3. QED
      BY <3>2
  <2>5. CASE ~Ends(r, instruction) /\ instruction # "late"
    <3>1. GoOn(p, Handled(r, instruction))
      BY <2>1, <2>5
    <3>2. QED
      BY <1>3, <2>1, <2>2, <3>1, HandledGood
  <2>6. QED
    BY <2>3, <2>4, <2>5
<1>5. CASE PassIdle
  <2> DEFINE r(p) == [run EXCEPT !.input = @ /\ ~Disconnected(p)]
  <2>1. PICK p \in Processes :
          /\ Running(p)
          /\ IF run.input /\ Disconnected(p) /\ run.endsOnEof THEN End(p) ELSE GoOn(p, Polled(r(p)))
          /\ UNCHANGED <<bounds, files, serving>>
    BY <1>5 DEF PassIdle
  <2>2. r(p) \in GoodRuns
    <3>1. (run.input /\ ~Disconnected(p)) \in BOOLEAN
      OBVIOUS
    <3>2. r(p) \in Runs /\ r(p).ahead = run.ahead /\ r(p).presses = run.presses
      BY <1>1, <3>1 DEF GoodRuns, Runs
    <3>3. QED
      BY <1>1, <3>2 DEF GoodRuns
  <2> HIDE DEF r
  <2>3. CASE run.input /\ Disconnected(p) /\ run.endsOnEof
    BY <1>2, <2>1, <2>3
  <2>4. CASE ~(run.input /\ Disconnected(p) /\ run.endsOnEof)
    BY <1>3, <2>1, <2>2, <2>4, PolledGood
  <2>5. QED
    BY <2>3, <2>4
<1>6. QED
  BY <1>4, <1>5 DEF Passes

LEMMA PassesStep == IInv /\ Passes => IInv'
<1> SUFFICES ASSUME IInv, NEW p \in Processes, Passed(p) PROVE IInv'
  BY PassesPass
<1> USE DEF IInv
<1>1. grabs' \subseteq grabs \cup {p} /\ grabs' \subseteq Processes
  BY DEF Passed, TypeOK
<1>2. PICK stage \in {"running", "ending"} :
        /\ at' \in [Processes -> Stages]
        /\ \A q \in Processes : at'[q] = IF q = p THEN stage ELSE at[q]
  <2>1. /\ at \in [Processes -> Stages] /\ at[p] = "running"
        /\ "running" \in Stages /\ "ending" \in Stages
    BY DEF Passed, Running, TypeOK, Stages, Owning
  <2>2. CASE UNCHANGED at
    <3>1. \A q \in Processes : at'[q] = IF q = p THEN "running" ELSE at[q]
      BY <2>1, <2>2
    <3>2. QED
      BY <2>1, <2>2, <3>1
  <2>3. CASE at' = [at EXCEPT ![p] = "ending"]
    <3>1. /\ at' \in [Processes -> Stages]
          /\ \A q \in Processes : at'[q] = IF q = p THEN "ending" ELSE at[q]
      BY <2>1, <2>3
    <3>2. QED
      BY <3>1
  <2>4. QED
    BY <2>2, <2>3 DEF Passed
<1>3. TypeOK'
  BY <1>1, <1>2 DEF TypeOK, Passed, GoodRuns, Runs
<1>4. OneSession' /\ PidNamesSession' /\ LockIsOne'
  BY <1>2 DEF Passed, Running, OneSession, PidNamesSession, LockIsOne, Owns, Owning
<1>5. KeysByStage' /\ ServingByStage'
  BY <1>1, <1>2 DEF Passed, KeysByStage, ServingByStage, TypeOK
<1>6. SocketByStage'
  BY <1>2 DEF Passed, SocketByStage, Running
<1>7. QED
  BY <1>3, <1>4, <1>5, <1>6

\* What reaches the session changes its queues and, when a set is lost, its grabs.
LEMMA ReachesStep == IInv /\ Reaches => IInv'
<1> SUFFICES ASSUME IInv, Reaches PROVE IInv'
  OBVIOUS
<1> USE DEF IInv
<1>1. run \in GoodRuns
  BY DEF TypeOK, GoodRuns, Runs
<1>2. run' \in GoodRuns /\ rejected' \in 0 .. MaxRejected
  <2>1. CASE Input
    <3>1. PICK instruction \in Instructions :
            /\ run' = [run EXCEPT !.queue = Append(@, instruction),
                                  !.reader = @ /\ instruction # "eof"]
            /\ rejected' = IF instruction = "late" THEN rejected + 1 ELSE rejected
            /\ instruction = "late" => rejected < MaxRejected
      BY <2>1 DEF Input
    <3>2. rejected' \in 0 .. MaxRejected
      BY <3>1, ConstantsOK DEF TypeOK
    <3>3. /\ Append(run.queue, instruction) \in Seq(Instructions)
          /\ (run.reader /\ instruction # "eof") \in BOOLEAN
      BY <1>1 DEF GoodRuns, Runs
    <3>4. run' \in Runs /\ run'.ahead = run.ahead /\ run'.presses = run.presses
      BY <1>1, <3>1, <3>3 DEF GoodRuns, Runs
    <3>5. QED
      BY <1>1, <3>2, <3>4 DEF GoodRuns
  <2>2. CASE Press
    <3>1. PICK marked \in BOOLEAN :
            /\ run.presses < MaxPresses
            /\ run' = [run EXCEPT !.presses = @ + 1,
                                  !.ahead = IF @ = 0 /\ marked THEN run.presses + 1 ELSE @]
            /\ UNCHANGED rejected
      BY <2>2 DEF Press, bounds
    <3>2. /\ run.presses + 1 \in 0 .. MaxPresses
          /\ (IF run.ahead = 0 /\ marked THEN run.presses + 1 ELSE run.ahead) \in 0 .. MaxPresses
          /\ (IF run.ahead = 0 /\ marked THEN run.presses + 1 ELSE run.ahead) <= run.presses + 1
      BY <1>1, <3>1, ConstantsOK DEF GoodRuns, Runs
    <3>3. /\ run' \in Runs /\ run'.presses = run.presses + 1
          /\ run'.ahead = IF run.ahead = 0 /\ marked THEN run.presses + 1 ELSE run.ahead
      BY <1>1, <3>1, <3>2 DEF GoodRuns, Runs
    <3>4. QED
      BY <3>1, <3>2, <3>3 DEF GoodRuns, TypeOK
  <2>3. CASE Lose
    BY <1>1, <2>3 DEF Lose, bounds, TypeOK, GoodRuns, Runs
  <2>4. CASE TickDue
    BY <1>1, <2>4 DEF TickDue, bounds, TypeOK, GoodRuns, Runs
  <2>5. QED
    BY <2>1, <2>2, <2>3, <2>4 DEF Reaches
<1>3. UNCHANGED <<bound, crashes, at, opened, disk, serving>> /\ grabs' \subseteq grabs
  BY DEF Reaches, Input, Press, Lose, TickDue, bounds, files
<1>4. TypeOK'
  BY <1>2, <1>3 DEF TypeOK, GoodRuns, Runs
<1>5. QED
  BY <1>3, <1>4 DEF LockIsOne, OneSession, PidNamesSession, KeysByStage, ServingByStage,
                    SocketByStage, Running, Owns

-----------------------------------------------------------------------------
LEMMA SessionInduction == IInv /\ [Next]_vars => IInv'
<1> SUFFICES ASSUME IInv, [Next]_vars PROVE IInv'
  OBVIOUS
<1>1. CASE Next
  BY <1>1, OpenLockStep, TryLockStep, PidSteps, BuildStep, StartServerStep, ExitSteps,
     SessionCrashStep, PassesStep, ReachesStep DEF Next, StartUp
<1>2. CASE UNCHANGED vars
  BY <1>2 DEF vars, IInv, TypeOK, LockIsOne, OneSession, PidNamesSession, KeysByStage,
              ServingByStage, SocketByStage, Running, Owns
<1>3. QED
  BY <1>1, <1>2

\* One session at a time: whoever starts, is refused, ends or crashes, the lock, the
\* pid file, the socket and the grabs belong to one process.
THEOREM OneSessionAtATime == Spec => []SessionIsOne
<1>1. IInv => SessionIsOne
  <2> SUFFICES ASSUME IInv PROVE SessionIsOne
    OBVIOUS
  <2>1. KeysUnderLock
    BY DEF IInv, KeysByStage, KeysUnderLock, Owns, Owning
  <2>2. ASSUME NEW p \in Processes, at[p] = "built" PROVE ~SocketActive
    BY <2>2 DEF IInv, OneSession, ServingByStage, SocketActive, Owns, Owning, TypeOK
  <2>3. QED
    BY <2>1, <2>2 DEF IInv, SessionIsOne, SocketIsSessions, SocketByStage
<1>2. QED
  BY <1>1, SessionInitially, SessionInduction, PTL DEF Spec

\* A running session ends by a quit, or by an end of input where that is what the
\* end of input means; no start, refusal or loss of another process ends it.
THEOREM SessionsEndAsAsked == Spec => EndsOnlyAsAsked
<1> DEFINE Asked == \A p \in Processes : Running(p) /\ at'[p] = "ending" =>
                      run.endsOnEof \/ (run.queue # <<>> /\ Head(run.queue) = "quit")
<1>1. IInv /\ [Next]_vars => Asked
  <2> SUFFICES ASSUME IInv, Next, NEW q \in Processes, at[q] = "running", at'[q] = "ending"
               PROVE  run.endsOnEof \/ (run.queue # <<>> /\ Head(run.queue) = "quit")
    BY DEF Running, vars
  <2>1. at \in [Processes -> Stages]
    BY DEF IInv, TypeOK
  <2>2. ASSUME NEW p \in Processes, NEW stage, at[p] # "running", Go(p, stage) PROVE FALSE
    BY <2>1, <2>2 DEF Go
  <2>3. ASSUME NEW p \in Processes, NEW stage, stage # "ending", Go(p, stage) PROVE FALSE
    BY <2>1, <2>3 DEF Go
  <2>4. CASE StartUp
    BY <2>2, <2>4 DEF StartUp, OpenLock, TryLock, RemoveOldPid, WritePid, Build, StartServer
  <2>5. CASE Exit
    BY <2>2, <2>5 DEF Exit, StopServer, DropRuntime, RemovePid, CloseLock
  <2>6. CASE Crash
    BY <2>3, <2>6 DEF Crash
  <2>7. CASE Reaches
    BY <2>7 DEF Reaches, Input, Press, Lose, TickDue
  <2>8. CASE Passes
    BY <2>1, <2>8, PassesPass DEF Passed
  <2>9. QED
    BY <2>4, <2>5, <2>6, <2>7, <2>8 DEF Next
<1>2. QED
  BY <1>1, SessionInitially, SessionInduction, PTL DEF Spec, EndsOnlyAsAsked


-----------------------------------------------------------------------------
(* The choice of the backend (Launch).                                     *)

\* A compositor is served only if its variables, and no other's, are set.
LEMMA WaylandBackendFits ==
  ASSUME NEW e \in Environments
  PROVE  /\ WaylandBackend(e) \in {"error"} \cup Compositors
         /\ WaylandBackend(e) \in Compositors =>
              e.signals = {WaylandBackend(e)} /\ WaylandIndicated(e)
<1>1. e.signals \subseteq Compositors
  BY DEF Environments
<1>2. CASE WaylandIndicated(e) /\ Cardinality(e.signals) = 1
  <2>1. IsFiniteSet(e.signals)
    <3>1. IsFiniteSet(Compositors)
      <4>1. Compositors = (({"gnome"} \cup {"kde"}) \cup {"sway"}) \cup {"hyprland"}
        BY DEF Compositors, Scripted
      <4>2. IsFiniteSet({"gnome"})
        BY FS_Singleton
      <4>3. IsFiniteSet({"gnome"} \cup {"kde"})
        BY <4>2, FS_AddElement
      <4>4. IsFiniteSet(({"gnome"} \cup {"kde"}) \cup {"sway"})
        BY <4>3, FS_AddElement
      <4>5. QED
        BY <4>1, <4>4, FS_AddElement
    <3>2. QED
      BY <1>1, <3>1, FS_Subset
  <2>2. PICK c : e.signals = {c}
    BY <1>2, <2>1, FS_Singleton
  <2>3. (CHOOSE d \in Compositors : d \in e.signals) = c /\ c \in Compositors
    BY <1>1, <2>2
  <2>4. WaylandBackend(e) \in {"error", c}
    BY <1>2, <2>3 DEF WaylandBackend
  <2>5. "error" \notin Compositors
    BY DEF Compositors, Scripted
  <2>6. QED
    BY <1>2, <2>2, <2>3, <2>4, <2>5
<1>3. CASE ~(WaylandIndicated(e) /\ Cardinality(e.signals) = 1)
  BY <1>3 DEF WaylandBackend, Compositors, Scripted
<1>4. QED
  BY <1>2, <1>3

\* What a backend says of the environment it was chosen in.
Fits(e, preference, b) ==
  /\ b \in {"error", "x11", "dry-run", "windows", "macos"} \cup Compositors
  /\ b = "x11" => e.os = "linux" /\ ~e.wayland /\ e.type # "wayland"
  /\ b \in Compositors => e.signals = {b} /\ WaylandIndicated(e)
  /\ preference = "auto" /\ b \in Compositors \cup {"x11"} =>
       \/ e.type = "wayland"
       \/ (e.type = "x11" /\ ~e.wayland)
       \/ (e.type = "unset" /\ e.wayland # e.display)
  /\ b = "dry-run" => preference = "dry-run"

LEMMA BackendFits ==
  ASSUME NEW e \in Environments, NEW preference \in Preferences
  PROVE  Fits(e, preference, Backend(e, preference))
<1>1. CASE preference = "dry-run"
  <2>1. Backend(e, preference) = "dry-run"
    BY <1>1 DEF Backend
  <2>2. QED
    BY <1>1, <2>1 DEF Fits, Compositors, Scripted
<1>2. CASE preference # "dry-run" /\ e.os = "linux"
  <2>1. Backend(e, preference) = LinuxBackend(e, preference)
    BY <1>2 DEF Backend
  <2>2. e.os = "linux" /\ e.type \in {"unset", "x11", "wayland", "tty"} /\ e.wayland \in BOOLEAN
    BY <1>2 DEF Environments
  <2>3. CASE LinuxBackend(e, preference) = WaylandBackend(e)
             /\ (preference = "auto" => SessionIdentity(e) = "wayland")
    <3>1. WaylandBackend(e) \in {"error"} \cup Compositors
          /\ WaylandBackend(e) \notin {"x11", "dry-run"}
      BY WaylandBackendFits DEF Compositors, Scripted
    <3>2. SessionIdentity(e) = "wayland" =>
            \/ e.type = "wayland"
            \/ (e.type = "unset" /\ e.wayland # e.display)
      BY <2>2 DEF SessionIdentity
    <3>3. QED
      BY <1>2, <2>1, <2>3, <3>1, <3>2, WaylandBackendFits DEF Fits
  <2>4. CASE LinuxBackend(e, preference) = "error"
    BY <1>2, <2>1, <2>4 DEF Fits, Compositors, Scripted
  <2>5. CASE LinuxBackend(e, preference) = "x11"
             /\ (IF preference = "x11" THEN ~WaylandIndicated(e) ELSE SessionIdentity(e) = "x11")
    <3>1. SessionIdentity(e) = "x11" =>
            /\ ~e.wayland /\ e.type # "wayland"
            /\ \/ e.type = "x11" /\ ~e.wayland
               \/ e.type = "unset" /\ e.wayland # e.display
      BY <2>2 DEF SessionIdentity
    <3>2. ~WaylandIndicated(e) => ~e.wayland /\ e.type # "wayland"
      BY DEF WaylandIndicated
    <3>3. QED
      BY <1>2, <2>1, <2>2, <2>5, <3>1, <3>2 DEF Fits, Compositors, Scripted
  <2>6. CASE preference = "x11"
    BY <2>4, <2>5, <2>6 DEF LinuxBackend
  <2>7. CASE preference = "wayland"
    BY <2>3, <2>4, <2>7 DEF LinuxBackend
  <2>8. CASE preference \notin {"x11", "wayland"}
    BY <2>3, <2>4, <2>5, <2>8 DEF LinuxBackend
  <2>9. QED
    BY <2>6, <2>7, <2>8
<1>3. CASE preference # "dry-run" /\ e.os # "linux"
  <2>1. e.os \in {"windows", "macos", "other"}
    BY <1>3 DEF Environments
  <2>2. Backend(e, preference) \in {"error", "windows", "macos"}
    BY <1>3, <2>1 DEF Backend
  <2>3. QED
    BY <1>3, <2>2 DEF Fits, Compositors, Scripted
<1>4. QED
  BY <1>1, <1>2, <1>3

\* The last choice is one that was made in this environment.
ChoiceIsBackend ==
  /\ chosen.preference \in Preferences
  /\ chosen.backend = "none" \/ chosen.backend = Backend(env, chosen.preference)

\* A request is a record, so that a step changes nothing but what it says.
RequestRecord ==
  request \in [at : {"none", "asked", "queued", "running"}, identity : {request.identity},
               met : {request.met}, late : BOOLEAN]

LEMMA RecordInitially == LaunchInit => RequestRecord
BY DEF LaunchInit, RequestRecord, NoRequest

LEMMA RecordKept == RequestRecord /\ [LaunchNext]_launchVars => RequestRecord'
<1> SUFFICES ASSUME RequestRecord, [LaunchNext]_launchVars PROVE RequestRecord'
  OBVIOUS
<1>1. CASE request' = request
  BY <1>1 DEF RequestRecord
<1>2. CASE request' = NoRequest
  BY <1>2 DEF NoRequest, RequestRecord
<1>3. ASSUME NEW path \in Paths, Moved(path) PROVE RequestRecord'
  <2>1. PICK late \in BOOLEAN : request' = [request EXCEPT !.late = late]
    BY <1>3 DEF Moved, RequestRecord
  <2>2. QED
    BY <2>1 DEF RequestRecord
<1>4. CASE Ask
  <2>1. PICK instance \in Instances, asked \in Configs :
          request' = [NoRequest EXCEPT !.at = "asked",
                                       !.identity = Identity(Backend(env, "auto"), instance, asked)]
    BY <1>4 DEF Ask
  <2> DEFINE id == Identity(Backend(env, "auto"), instance, asked)
  <2>2. request' = [NoRequest EXCEPT !.at = "asked", !.identity = id]
    BY <2>1
  <2> HIDE DEF id
  <2>3. request' = [at |-> "asked", identity |-> id, met |-> {}, late |-> FALSE]
    BY <2>2 DEF NoRequest
  <2>4. QED
    BY <2>3 DEF RequestRecord
<1>5. CASE request' = [request EXCEPT !.at = "queued"] \/ request' = [request EXCEPT !.at = "running"]
  BY <1>5 DEF RequestRecord
<1>6. CASE Call
  <2> DEFINE met == request.met \cup ({sockets[live.identity.path]} \ {0})
  <2>1. request' = [request EXCEPT !.met = met]
    BY <1>6 DEF Call
  <2> HIDE DEF met
  <2>2. QED
    BY <2>1 DEF RequestRecord
<1>7. CASE Start \/ Stop \/ CompositorStarts \/ CompositorEnds \/ UNCHANGED launchVars
  BY <1>1, <1>2, <1>3, <1>7 DEF Start, Stop, CompositorStarts, CompositorEnds, launchVars
<1>8. CASE Judge \/ Consider \/ Return
  BY <1>2, <1>5, <1>8 DEF Judge, Consider, Return
<1>9. QED
  BY <1>4, <1>6, <1>7, <1>8 DEF LaunchNext

LaunchIInv == LaunchTypeOK /\ ChoiceIsBackend /\ RequestRecord

LEMMA LaunchInitially == LaunchInit => LaunchIInv
<1> SUFFICES ASSUME LaunchInit PROVE LaunchIInv
  OBVIOUS
<1>1. 0 \in 0 .. MaxSockets
  BY LaunchConstantsOK
<1>2. QED
  BY <1>1, RecordInitially DEF LaunchInit, LaunchIInv, LaunchTypeOK, ChoiceIsBackend, NoChoice, NoSession,
     NoRequest, Preferences

LEMMA LaunchInduction == LaunchIInv /\ [LaunchNext]_launchVars => LaunchIInv'
<1> SUFFICES ASSUME LaunchIInv, [LaunchNext]_launchVars PROVE LaunchIInv'
  OBVIOUS
<1> USE DEF LaunchIInv
<1>0. RequestRecord' /\ request'.at \in {"none", "asked", "queued", "running"}
  <2>1. RequestRecord'
    BY RecordKept
  <2>2. QED
    BY <2>1 DEF RequestRecord
<1>1. CASE Start
  <2>1. PICK preference \in Preferences, written \in Configs, instance \in Instances :
          LET backend == Backend(env, preference)
          IN /\ chosen' = [preference |-> preference, backend |-> backend]
             /\ live' = IF backend \in {"error", "dry-run"} THEN live
                        ELSE [on |-> TRUE, backend |-> backend,
                              identity |-> IF backend \in Scripted
                                           THEN Identity(backend, instance, written)
                                           ELSE NoIdentity]
    BY <1>1 DEF Start
  <2>2. UNCHANGED <<env, sockets, inodes, request>>
    BY <1>1 DEF Start
  <2>3. Fits(env, preference, Backend(env, preference))
    BY BackendFits DEF LaunchTypeOK
  <2>4. Backend(env, preference) # "none"
    BY <2>3 DEF Fits, Compositors, Scripted
  <2>5. live'.on <=> live'.backend # "none"
    BY <2>1, <2>4 DEF LaunchTypeOK
  <2>6. /\ chosen'.preference = preference /\ chosen'.backend = Backend(env, preference)
        /\ chosen'.backend \in {"error", "x11", "dry-run", "windows", "macos"} \cup Compositors
    BY <2>1, <2>3 DEF Fits
  <2>7. QED
    BY <1>0, <2>2, <2>5, <2>6 DEF LaunchTypeOK, ChoiceIsBackend
<1>2. CASE Stop
  BY <1>0, <1>2 DEF Stop, LaunchTypeOK, ChoiceIsBackend, NoChoice, NoSession, Preferences
<1>3. CASE CompositorStarts
  <2>1. PICK path \in Paths : /\ inodes < MaxSockets /\ inodes' = inodes + 1
                              /\ sockets' = [sockets EXCEPT ![path] = inodes + 1]
    BY <1>3 DEF CompositorStarts
  <2>2. UNCHANGED <<env, chosen, live>>
    BY <1>3 DEF CompositorStarts
  <2>3. inodes + 1 \in 0 .. MaxSockets
    BY <2>1, LaunchConstantsOK DEF LaunchTypeOK
  <2>4. QED
    BY <1>0, <2>1, <2>2, <2>3 DEF LaunchTypeOK, ChoiceIsBackend
<1>4. CASE CompositorEnds
  <2>1. 0 \in 0 .. MaxSockets
    BY LaunchConstantsOK
  <2>2. QED
    BY <1>0, <1>4, <2>1 DEF CompositorEnds, LaunchTypeOK, ChoiceIsBackend
<1>5. CASE Ask \/ Judge \/ Consider \/ Call \/ Return
  <2>1. UNCHANGED <<env, chosen, sockets, inodes, live>>
    BY <1>5 DEF Ask, Judge, Consider, Call, Return
  <2>2. QED
    BY <1>0, <2>1 DEF LaunchTypeOK, ChoiceIsBackend
<1>6. CASE UNCHANGED launchVars
  BY <1>0, <1>6 DEF launchVars, LaunchTypeOK, ChoiceIsBackend
<1>7. QED
  BY <1>0, <1>1, <1>2, <1>3, <1>4, <1>5, <1>6 DEF LaunchNext

\* Whatever an environment says, the backend is of the desktop it describes, or none.
THEOREM BackendsFitDesktops == LaunchSpec => []BackendFitsDesktop
<1>1. LaunchIInv => BackendFitsDesktop
  <2> SUFFICES ASSUME LaunchIInv PROVE BackendFitsDesktop
    OBVIOUS
  <2>1. CASE chosen.backend = "none"
    BY <2>1 DEF LaunchIInv, BackendFitsDesktop, Compositors, Scripted
  <2>2. CASE chosen.backend # "none"
    <3>1. Fits(env, chosen.preference, chosen.backend)
      BY <2>2, BackendFits DEF LaunchIInv, ChoiceIsBackend, LaunchTypeOK
    <3>2. QED
      BY <3>1 DEF LaunchIInv, BackendFitsDesktop, Fits, WaylandIndicated
  <2>3. QED
    BY <2>1, <2>2
<1>2. QED
  BY <1>1, LaunchInitially, LaunchInduction, PTL DEF LaunchSpec

-----------------------------------------------------------------------------
(* The two checks that are made before what they check is used: `init`'s   *)
(* of the config file, and the session's of a request.                     *)

\* Once `init` has the file open, the file is its own until somebody saves: then it is
\* another file, on which `init` writes no more, or `init` shares it.
InitIInv ==
  /\ init \in [at : {"off", "checked", "opened", "shared"}, force : BOOLEAN,
               chord : Chords \cup {<<>>}]
  /\ init.at = "opened" => file.by = "init"

LEMMA InitInitially == ConfigInit => InitIInv
BY DEF ConfigInit, InitIInv, NoInit

LEMMA InitInduction == InitIInv /\ [ConfigNext]_configVars => InitIInv'
<1> SUFFICES ASSUME InitIInv, [ConfigNext]_configVars PROVE InitIInv'
  OBVIOUS
<1> DEFINE Inits == [at : {"off", "checked", "opened", "shared"}, force : BOOLEAN,
                     chord : Chords \cup {<<>>}]
<1>0. NoInit \in Inits /\ NoInit.at = "off" /\ init \in Inits
  BY DEF NoInit, InitIInv
<1>1. CASE Edit
  <2>1. CASE init.at \notin {"opened", "shared"}
    BY <1>0, <1>1, <2>1 DEF Edit, InitIInv
  <2>2. CASE init.at \in {"opened", "shared"}
    <3>1. init' = NoInit \/ init' = [init EXCEPT !.at = "shared"]
      BY <1>1, <2>2 DEF Edit
    <3>2. init' \in Inits /\ init'.at # "opened"
      BY <1>0, <3>1
    <3>3. QED
      BY <3>2 DEF InitIInv
  <2>3. QED
    BY <2>1, <2>2
<1>2. CASE Load \/ Dispatch \/ DispatchAlone \/ PressKeys \/ UNCHANGED configVars
  <2>1. UNCHANGED <<file, init>>
    BY <1>2 DEF Load, Dispatch, DispatchAlone, PressKeys, configVars
  <2>2. QED
    BY <2>1 DEF InitIInv
<1>3. CASE InitChecks
  <2>1. PICK chord \in Chords, force \in BOOLEAN :
               init' = [at |-> "checked", force |-> force, chord |-> chord]
    BY <1>3 DEF InitChecks, StarterChords
  <2>2. QED
    BY <2>1 DEF InitIInv
<1>4. CASE InitOpens
  <2>1. CASE init' = NoInit
    BY <1>0, <2>1 DEF InitIInv
  <2>2. CASE file' = [by |-> "init", text |-> Empty] /\ init' = [init EXCEPT !.at = "opened"]
    <3>1. init' \in Inits /\ file'.by = "init"
      BY <1>0, <2>2
    <3>2. QED
      BY <3>1 DEF InitIInv
  <2>3. QED
    BY <1>4, <2>1, <2>2 DEF InitOpens
<1>5. CASE InitWrites \/ InitDies
  BY <1>0, <1>5 DEF InitWrites, InitDies, InitIInv
<1>6. QED
  BY <1>1, <1>2, <1>3, <1>4, <1>5 DEF ConfigNext

LEMMA UserFilesKept ==
  InitIInv /\ [ConfigNext]_configVars => [UserFilesStay]_configVars
<1> SUFFICES ASSUME InitIInv, ConfigNext, file.by = "user", file'.by \in {"init", "both"}
             PROVE  init.force \/ init.at = "shared"
  BY DEF UserFilesStay
<1>1. file' # file /\ file # Missing
  BY DEF Missing
<1>2. CASE Edit
  <2>1. file' = Missing \/ \E text \in Files : file' = [by |-> "user", text |-> text]
    BY <1>2 DEF Edit
  <2>2. QED
    BY <2>1 DEF Missing
<1>3. CASE Load \/ Dispatch \/ DispatchAlone \/ PressKeys \/ InitChecks \/ InitDies
  BY <1>1, <1>3 DEF Load, Dispatch, DispatchAlone, PressKeys, InitChecks, InitDies
<1>4. CASE InitOpens
  BY <1>1, <1>4 DEF InitOpens
<1>5. CASE InitWrites
  BY <1>5 DEF InitWrites, InitIInv
<1>6. QED
  BY <1>2, <1>3, <1>4, <1>5 DEF ConfigNext

LEMMA InitLeavesUserFiles == ConfigSpec => [][UserFilesStay]_configVars
BY InitInitially, InitInduction, UserFilesKept, PTL DEF ConfigSpec

\* A request that waits or runs is one for the compositor that the session was started
\* under, which a running one has seen at its path and still finds there unless the
\* path changed in between.
RequestIInv ==
  /\ sockets \in [Paths -> 0 .. MaxSockets]
  /\ live.on => live.identity.path \in Paths
  /\ request.at \in {"queued", "running"} =>
       /\ live.on /\ request.identity.inode = live.identity.inode
       /\ Target[live.identity.config] = Target[request.identity.config]
  /\ request.at = "running" /\ ~request.late =>
       sockets[live.identity.path] = live.identity.inode
  /\ request.met # {} \/ request.late => request.at = "running"
  /\ request.met \subseteq {request.identity.inode} \/ request.late

LEMMA RequestInitially == LaunchInit => RequestIInv
<1> SUFFICES ASSUME LaunchInit PROVE RequestIInv
  OBVIOUS
<1>1. 0 \in 0 .. MaxSockets
  BY LaunchConstantsOK
<1>2. QED
  BY <1>1 DEF LaunchInit, RequestIInv, NoRequest, NoSession

\* Nothing is claimed of where there is no request.
LEMMA NoRequestFits ==
  ASSUME RequestIInv, request' = NoRequest, sockets' \in [Paths -> 0 .. MaxSockets],
         live'.on => live'.identity.path \in Paths
  PROVE  RequestIInv'
BY DEF RequestIInv, NoRequest

\* A socket that comes or goes elsewhere is none of a request's; at its session's path
\* it makes a running one late, and a waiting one is still to be looked at.
LEMMA RequestMoved ==
  ASSUME RequestIInv, RequestRecord, NEW path \in Paths, NEW inode \in 0 .. MaxSockets,
         sockets' = [sockets EXCEPT ![path] = inode], Moved(path), live' = live
  PROVE  RequestIInv'
<1>1. sockets' \in [Paths -> 0 .. MaxSockets]
  BY DEF RequestIInv
<1>2. live.on /\ path # live.identity.path =>
        sockets'[live.identity.path] = sockets[live.identity.path]
  BY DEF RequestIInv
<1> DEFINE late == request.late \/ (request.at = "running" /\ path = live.identity.path)
<1>3. request' = [request EXCEPT !.late = late]
  BY DEF Moved
<1> HIDE DEF late
<1>4. /\ request'.at = request.at /\ request'.identity = request.identity
      /\ request'.met = request.met /\ request'.late = late
  BY <1>3 DEF RequestRecord
<1>5. request'.late <=> request.late \/ (request.at = "running" /\ path = live.identity.path)
  BY <1>4 DEF late
<1>6. live'.on => live'.identity.path \in Paths
  BY DEF RequestIInv
<1>7. request'.at \in {"queued", "running"} =>
        /\ live'.on /\ request'.identity.inode = live'.identity.inode
        /\ Target[live'.identity.config] = Target[request'.identity.config]
  BY <1>4 DEF RequestIInv
<1>8. request'.at = "running" /\ ~request'.late =>
        sockets'[live'.identity.path] = live'.identity.inode
  BY <1>2, <1>4, <1>5 DEF RequestIInv
<1>9. request'.met # {} \/ request'.late => request'.at = "running"
  BY <1>4, <1>5 DEF RequestIInv
<1>10. request'.met \subseteq {request'.identity.inode} \/ request'.late
  BY <1>4, <1>5 DEF RequestIInv
<1>11. QED
  BY <1>1, <1>6, <1>7, <1>8, <1>9, <1>10 DEF RequestIInv

LEMMA RequestInduction ==
  RequestIInv /\ LaunchIInv /\ [LaunchNext]_launchVars => RequestIInv'
<1> SUFFICES ASSUME RequestIInv, LaunchIInv, [LaunchNext]_launchVars PROVE RequestIInv'
  OBVIOUS
<1>0. RequestRecord /\ inodes \in 0 .. MaxSockets
  BY DEF LaunchIInv, LaunchTypeOK
<1>1. CASE Start
  <2>1. ~live.on /\ UNCHANGED <<sockets, request>>
    BY <1>1 DEF Start
  <2>2. live'.on => live'.identity.path \in Paths
    <3>1. PICK preference \in Preferences, named \in Configs, instance \in Instances :
            LET backend == Backend(env, preference)
            IN live' = IF backend \in {"error", "dry-run"} THEN live
                       ELSE [on |-> TRUE, backend |-> backend,
                             identity |-> IF backend \in Scripted
                                          THEN Identity(backend, instance, named)
                                          ELSE NoIdentity]
      BY <1>1 DEF Start
    <3> DEFINE backend == Backend(env, preference)
    <3>2. <<instance, "run">> \in Paths /\ <<instance, "tmp">> \in Paths
      BY DEF Paths
    <3>3. NoIdentity.path \in Paths
      <4>1. (CHOOSE p \in Paths : TRUE) \in Paths
        BY <3>2
      <4>2. QED
        BY <4>1 DEF NoIdentity
    <3>4. Identity(backend, instance, named).path \in Paths
      BY <3>2 DEF Identity, SocketPath
    <3>5. QED
      BY <2>1, <3>1, <3>3, <3>4
  <2>3. QED
    BY <2>1, <2>2 DEF RequestIInv
<1>2. CASE Stop
  <2>1. live' = NoSession /\ sockets' = sockets
    BY <1>2 DEF Stop
  <2>2. request' = NoRequest \/ (request' = request /\ request.at \notin {"queued", "running"})
    BY <1>2 DEF Stop
  <2>3. QED
    BY <2>1, <2>2, NoRequestFits DEF RequestIInv, NoSession
<1>3. CASE CompositorStarts
  <2>1. PICK path \in Paths : /\ inodes < MaxSockets
                              /\ sockets' = [sockets EXCEPT ![path] = inodes + 1] /\ Moved(path)
    BY <1>3 DEF CompositorStarts
  <2>2. live' = live
    BY <1>3 DEF CompositorStarts
  <2>3. inodes + 1 \in 0 .. MaxSockets
    BY <1>0, <2>1, LaunchConstantsOK
  <2>4. QED
    BY <1>0, <2>1, <2>2, <2>3, RequestMoved
<1>4. CASE CompositorEnds
  <2>1. PICK path \in Paths : sockets' = [sockets EXCEPT ![path] = 0] /\ Moved(path)
    BY <1>4 DEF CompositorEnds
  <2>2. live' = live /\ 0 \in 0 .. MaxSockets
    BY <1>4, LaunchConstantsOK DEF CompositorEnds
  <2>3. QED
    BY <1>0, <2>1, <2>2, RequestMoved
<1>5. CASE Ask
  <2>1. UNCHANGED <<sockets, live>>
    BY <1>5 DEF Ask
  <2>2. request'.at = "asked" /\ request'.met = {} /\ ~request'.late
    BY <1>5 DEF Ask, NoRequest
  <2>3. QED
    BY <2>1, <2>2 DEF RequestIInv
<1>6. CASE Judge
  <2>1. UNCHANGED <<sockets, live>>
    BY <1>6 DEF Judge
  <2>2. CASE request' = NoRequest
    BY <2>1, <2>2, NoRequestFits DEF RequestIInv
  <2>3. CASE /\ live.on /\ request.at = "asked" /\ Matches(live.identity, request.identity)
             /\ request' = [request EXCEPT !.at = "queued"]
    <3>1. /\ request'.at = "queued" /\ request'.identity = request.identity
          /\ request'.met = request.met /\ request'.late = request.late
      BY <1>0, <2>3 DEF RequestRecord
    <3>2. /\ request.identity.inode = live.identity.inode
          /\ Target[live.identity.config] = Target[request.identity.config]
      BY <2>3 DEF Matches
    <3>3. QED
      BY <2>1, <2>3, <3>1, <3>2 DEF RequestIInv
  <2>4. QED
    BY <1>6, <2>2, <2>3 DEF Judge
<1>7. CASE Consider
  <2>1. UNCHANGED <<sockets, live>>
    BY <1>7 DEF Consider
  <2>2. CASE request' = NoRequest
    BY <2>1, <2>2, NoRequestFits DEF RequestIInv
  <2>3. CASE /\ request.at = "queued" /\ CompositorIsCurrent(live.identity)
             /\ request' = [request EXCEPT !.at = "running"]
    <3>1. /\ request'.at = "running" /\ request'.identity = request.identity
          /\ request'.met = request.met /\ request'.late = request.late
      BY <1>0, <2>3 DEF RequestRecord
    <3>2. sockets[live.identity.path] = live.identity.inode
      BY <2>3 DEF CompositorIsCurrent
    <3>3. QED
      BY <2>1, <2>3, <3>1, <3>2 DEF RequestIInv
  <2>4. QED
    BY <1>7, <2>2, <2>3 DEF Consider
<1>8. CASE Call
  <2>1. UNCHANGED <<sockets, live>> /\ request.at = "running"
    BY <1>8 DEF Call
  <2> DEFINE reached == {sockets[live.identity.path]} \ {0}
             met == request.met \cup reached
  <2>2. request' = [request EXCEPT !.met = met]
    BY <1>8 DEF Call
  <2>3. ~request.late => reached \subseteq {request.identity.inode}
    BY <2>1 DEF RequestIInv
  <2>4. ~request.late => met \subseteq {request.identity.inode}
    BY <2>3 DEF RequestIInv
  <2> HIDE DEF met
  <2>5. /\ request'.at = request.at /\ request'.identity = request.identity
        /\ request'.met = met /\ request'.late = request.late
    BY <1>0, <2>2 DEF RequestRecord
  <2>6. QED
    BY <2>1, <2>4, <2>5 DEF RequestIInv
<1>9. CASE Return
  BY <1>9, NoRequestFits DEF Return, RequestIInv
<1>10. CASE UNCHANGED launchVars
  BY <1>10 DEF launchVars, RequestIInv
<1>11. QED
  BY <1>1, <1>2, <1>3, <1>4, <1>5, <1>6, <1>7, <1>8, <1>9, <1>10 DEF LaunchNext

LEMMA RequestsMeet == RequestIInv => RequestsMeetTheirCompositor
BY DEF RequestIInv, RequestsMeetTheirCompositor

LEMMA SessionsMeetRequests == LaunchSpec => []RequestsMeetTheirCompositor
BY LaunchInitially, LaunchInduction, RequestInitially, RequestInduction, RequestsMeet, PTL
   DEF LaunchSpec

\* The three parts share nothing: what is shown of each is true of the whole, in which
\* two of them stand still.
THEOREM ApplicationFollowsAll == ApplicationSpec => Spec /\ ConfigSpec /\ LaunchSpec
<1>1. ApplicationInit => Init /\ ConfigInit /\ LaunchInit
  BY DEF ApplicationInit
<1>2. [ApplicationNext]_applicationVars =>
        [Next]_vars /\ [ConfigNext]_configVars /\ [LaunchNext]_launchVars
  BY DEF ApplicationNext, applicationVars
<1>3. QED
  BY <1>1, <1>2, PTL DEF ApplicationSpec, Spec, ConfigSpec, LaunchSpec

\* `init` opens the file by a call that fails if one has come since it looked, unless it is
\* forced, so that no save is lost but one into the file that `init` itself has just made.
\* The worker compares a request's compositor and config with the session's, and the runner
\* looks at its socket again when the request's turn comes: whatever compositors end and
\* start while a request waits in the queue, none of its calls reaches another compositor
\* than the one whose key was pressed, unless the session's own socket comes or goes
\* between the runner's look and the end of the action.
THEOREM ChecksStayTrue == ApplicationSpec => ChecksHoldWhenUsed
<1>1. UNCHANGED configVars => UserFilesStay
  BY DEF configVars, UserFilesStay
<1>2. [UserFilesStay]_configVars /\ RequestsMeetTheirCompositor'
        => [UserFilesStay /\ RequestsMeetTheirCompositor']_applicationVars
  BY <1>1
<1>3. QED
  BY ApplicationFollowsAll, InitLeavesUserFiles, SessionsMeetRequests, <1>2, PTL
     DEF ChecksHoldWhenUsed

-----------------------------------------------------------------------------
(* What of a config's meaning rests on its acceptance, whatever the words  *)
(* mean.                                                                   *)

LEMMA EmptyIsAccepted == Accepted(Empty)
<1>1. Empty.zones = {} /\ Empty.lines = <<>>
  BY DEF Empty
<1>2. Zones(Empty) = {}
  BY <1>1 DEF Zones
<1>3. ZonesAccepted(Empty)
  BY <1>1, <1>2 DEF ZonesAccepted
<1>4. NormalizedBindings(Empty) = <<>>
  BY <1>1 DEF NormalizedBindings
<1>5. { NormalizedBindings(Empty)[i].hotkey : i \in DOMAIN NormalizedBindings(Empty) } = {}
  BY <1>4
<1>6. Cardinality({}) = 0 /\ Len(<<>>) = 0
  BY FS_EmptySet
<1>7. BindingsAccepted(Empty)
  BY <1>4, <1>5, <1>6 DEF BindingsAccepted
<1>8. QED
  BY <1>3, <1>7 DEF Accepted

\* The App's config is what was loaded last, which was accepted; what the adapter holds
\* are hotkeys of it.  `init` has accepted what it is going to write before it looks at
\* the file, and what it opens it has emptied.
ConfigIInv ==
  /\ InitIInv
  /\ config = Parsed(loaded) /\ Accepted(loaded)
  /\ \A h \in held : \E i \in DOMAIN config.bindings : config.bindings[i].hotkey = h.name
  /\ file.by = "nobody" => file = Missing
  /\ file.by = "init" => Accepted(file.text)
  /\ init.at # "off" => Accepted(StarterText(init.chord))

LEMMA CapturedAreBound ==
  ASSUME NEW text, NEW h \in Captured(Names(text))
  PROVE  \E i \in DOMAIN Parsed(text).bindings : Parsed(text).bindings[i].hotkey = h.name
<1>1. PICK i \in DOMAIN Names(text) : h.name = Names(text)[i]
  BY DEF Captured
<1>2. i \in DOMAIN text.lines /\ h.name = Normalized(text.lines[i].hotkey)
  BY <1>1 DEF Names
<1>3. QED
  BY <1>2 DEF Parsed, NormalizedBindings

LEMMA ConfigInitially == ConfigInit => ConfigIInv
<1> SUFFICES ASSUME ConfigInit PROVE ConfigIInv
  OBVIOUS
<1>1. InitIInv
  BY InitInitially
<1>2. file.by = "nobody" /\ init.at = "off"
  BY DEF ConfigInit, Missing, NoInit
<1>3. QED
  BY <1>1, <1>2, EmptyIsAccepted DEF ConfigInit, ConfigIInv

LEMMA ConfigInduction == ConfigIInv /\ [ConfigNext]_configVars => ConfigIInv'
<1> SUFFICES ASSUME ConfigIInv, [ConfigNext]_configVars PROVE ConfigIInv'
  OBVIOUS
<1>0. InitIInv'
  BY InitInduction DEF ConfigIInv
<1>1. CASE Edit
  <2>1. UNCHANGED <<loaded, config, held>>
    BY <1>1 DEF Edit
  <2>0. init'.at # "off" => init.at # "off" /\ init'.chord = init.chord
    <3>1. \/ init' = init \/ init' = NoInit
          \/ init.at \in {"opened", "shared"} /\ init' = [init EXCEPT !.at = "shared"]
      BY <1>1 DEF Edit
    <3>2. QED
      BY <3>1 DEF NoInit, ConfigIInv, InitIInv
  <2>2. file' = Missing \/ \E text \in Files : file' = [by |-> "user", text |-> text]
    BY <1>1 DEF Edit
  <2>3. file'.by \in {"nobody", "user"} /\ (file'.by = "nobody" => file' = Missing)
    BY <2>2 DEF Missing
  <2>4. QED
    BY <1>0, <2>0, <2>1, <2>3 DEF ConfigIInv
<1>2. CASE Load
  <2>1. UNCHANGED <<file, init>>
    BY <1>2 DEF Load
  <2>2. loaded' = file.text /\ config' = Parsed(loaded') /\ Accepted(loaded')
    BY <1>2 DEF Load
  <2>3. held' = Captured(Names(loaded'))
    BY <1>2 DEF Load, Captured, Chord
  <2>4. \A h \in held' : \E i \in DOMAIN config'.bindings : config'.bindings[i].hotkey = h.name
    BY <2>2, <2>3, CapturedAreBound
  <2>5. QED
    BY <1>0, <2>1, <2>2, <2>4 DEF ConfigIInv
<1>3. CASE Dispatch \/ DispatchAlone \/ PressKeys \/ UNCHANGED configVars
  <2>1. UNCHANGED <<file, loaded, config, held, init>>
    BY <1>3 DEF Dispatch, DispatchAlone, PressKeys, configVars
  <2>2. QED
    BY <1>0, <2>1 DEF ConfigIInv
<1>4. CASE InitChecks
  <2>1. UNCHANGED <<file, loaded, config, held>>
    BY <1>4 DEF InitChecks
  <2>2. Accepted(StarterText(init'.chord))
    <3>1. PICK chord \in Chords, force \in BOOLEAN :
                 /\ Accepted(StarterText(chord))
                 /\ init' = [at |-> "checked", force |-> force, chord |-> chord]
      BY <1>4 DEF InitChecks, StarterChords
    <3>2. QED
      BY <3>1
  <2>3. QED
    BY <1>0, <2>1, <2>2 DEF ConfigIInv
<1>5. CASE InitOpens
  <2>1. UNCHANGED <<loaded, config, held>>
    BY <1>5 DEF InitOpens
  <2>2. init.at = "checked" /\ Accepted(StarterText(init.chord))
    BY <1>5 DEF InitOpens, ConfigIInv
  <2>3. init' = NoInit \/ init' = [init EXCEPT !.at = "opened"]
    BY <1>5 DEF InitOpens
  <2>4. init'.at # "off" => init'.chord = init.chord
    BY <2>3 DEF NoInit, ConfigIInv, InitIInv
  <2>5. file' = file \/ file' = [by |-> "init", text |-> Empty]
    BY <1>5 DEF InitOpens
  <2>6. /\ file'.by = "nobody" => file' = Missing
        /\ file'.by = "init" => Accepted(file'.text)
    BY <2>5, EmptyIsAccepted DEF ConfigIInv
  <2>7. QED
    BY <1>0, <2>1, <2>2, <2>4, <2>6 DEF ConfigIInv
<1>6. CASE InitWrites
  <2>1. UNCHANGED <<loaded, config, held>> /\ init'.at = "off"
    BY <1>6 DEF InitWrites, NoInit
  <2>2. file'.by \in {"init", "both"} /\ (file'.by = "init" => Accepted(file'.text))
    BY <1>6 DEF InitWrites, ConfigIInv
  <2>3. QED
    BY <1>0, <2>1, <2>2 DEF ConfigIInv
<1>7. CASE InitDies
  BY <1>0, <1>7 DEF InitDies, NoInit, ConfigIInv
<1>8. QED
  BY <1>1, <1>2, <1>3, <1>4, <1>5, <1>6, <1>7 DEF ConfigNext

\* A zone of a binding of an accepted config is a built-in one, or one of the config that
\* fits on the screen.
LEMMA AcceptedZonesExist ==
  ASSUME NEW text, Accepted(text), NEW i \in DOMAIN Parsed(text).bindings,
         Parsed(text).bindings[i].action.type = "move-to-zone",
         Parsed(text).bindings[i].action.zone \notin BuiltInZones
  PROVE  \E z \in Parsed(text).zones :
           /\ z.name = Parsed(text).bindings[i].action.zone
           /\ z.x + z.width <= 100 /\ z.y + z.height <= 100
           /\ z.width > 0 /\ z.height > 0
<1>1. /\ Parsed(text).zones = Zones(text)
      /\ Parsed(text).bindings = NormalizedBindings(text)
  BY DEF Parsed
<1>2. ActionAccepted(Parsed(text).bindings[i].action, text)
  BY <1>1 DEF Accepted, BindingsAccepted
<1>3. PICK z \in Zones(text) : z.name = Parsed(text).bindings[i].action.zone
  BY <1>2 DEF ActionAccepted
<1>4. ZoneFits(z)
  BY DEF Accepted, ZonesAccepted
<1>5. QED
  BY <1>1, <1>3, <1>4 DEF ZoneFits

\* Whatever users write and `init` writes between their edits, a config that is in force has
\* every zone its bindings name, and `init` never leaves a file that would not load.
THEOREM ConfigsHoldTogether == ConfigSpec => [](BoundZonesExist /\ StarterLoads)
<1>1. ConfigIInv => BoundZonesExist /\ StarterLoads
  <2> SUFFICES ASSUME ConfigIInv PROVE BoundZonesExist /\ StarterLoads
    OBVIOUS
  <2>1. BoundZonesExist
    BY AcceptedZonesExist DEF ConfigIInv, BoundZonesExist
  <2>2. StarterLoads
    BY DEF ConfigIInv, StarterLoads
  <2>3. QED
    BY <2>1, <2>2
<1>2. QED
  BY <1>1, ConfigInitially, ConfigInduction, PTL DEF ConfigSpec

-----------------------------------------------------------------------------
(* The words of hotkeys.                                                   *)

\* The elements of two sequences, one after the other.
LEMMA Joined ==
  ASSUME NEW S, NEW s \in Seq(S), NEW t \in Seq(S)
  PROVE  /\ s \o t \in Seq(S) /\ Len(s \o t) = Len(s) + Len(t)
         /\ Range(s \o t) = Range(s) \cup Range(t)
<1>1. /\ s \o t \in Seq(S) /\ Len(s \o t) = Len(s) + Len(t)
      /\ \A i \in 1 .. Len(s) + Len(t) :
           (s \o t)[i] = IF i <= Len(s) THEN s[i] ELSE t[i - Len(s)]
  BY ConcatProperties
<1>2. /\ Len(s) \in Nat /\ Len(t) \in Nat /\ DOMAIN s = 1 .. Len(s) /\ DOMAIN t = 1 .. Len(t)
      /\ DOMAIN (s \o t) = 1 .. Len(s) + Len(t)
  BY <1>1
<1>3. Range(s \o t) \subseteq Range(s) \cup Range(t)
  BY <1>1, <1>2 DEF Range
<1>4. ASSUME NEW i \in DOMAIN s PROVE s[i] \in Range(s \o t)
  BY <1>1, <1>2 DEF Range
<1>5. ASSUME NEW i \in DOMAIN t PROVE t[i] \in Range(s \o t)
  <2>1. Len(s) + i \in 1 .. Len(s) + Len(t) /\ ~(Len(s) + i <= Len(s)) /\ (Len(s) + i) - Len(s) = i
    BY <1>2
  <2>2. (s \o t)[Len(s) + i] = t[i]
    BY <2>1, <1>1
  <2>3. QED
    BY <2>1, <2>2, <1>2 DEF Range
<1>6. QED
  BY <1>1, <1>3, <1>4, <1>5 DEF Range

LEMMA Wider ==
  ASSUME NEW S, NEW T, S \subseteq T, NEW s \in Seq(S) PROVE s \in Seq(T)
<1>1. Len(s) \in Nat /\ s = [i \in 1 .. Len(s) |-> s[i]] /\ \A i \in 1 .. Len(s) : s[i] \in S
  OBVIOUS
<1>2. QED
  BY <1>1, IsASeq

\* Each table is of four parts.
LEMMA FourJoined ==
  ASSUME NEW S, NEW a \in Seq(S), NEW b \in Seq(S), NEW c \in Seq(S), NEW d \in Seq(S)
  PROVE  /\ a \o b \o c \o d \in Seq(S)
         /\ Len(a \o b \o c \o d) = Len(a) + Len(b) + Len(c) + Len(d)
         /\ Range(a \o b \o c \o d) = Range(a) \cup Range(b) \cup Range(c) \cup Range(d)
<1>1. /\ a \o b \in Seq(S) /\ Len(a \o b) = Len(a) + Len(b)
      /\ Range(a \o b) = Range(a) \cup Range(b)
  BY Joined
<1> DEFINE ab == a \o b
<1>2. ab \in Seq(S)
  BY <1>1
<1>3. /\ ab \o c \in Seq(S) /\ Len(ab \o c) = Len(ab) + Len(c)
      /\ Range(ab \o c) = Range(ab) \cup Range(c)
  <2> HIDE DEF ab
  <2>1. QED
    BY <1>2, Joined
<1> DEFINE abc == ab \o c
<1>4. abc \in Seq(S)
  BY <1>3
<1>5. /\ abc \o d \in Seq(S) /\ Len(abc \o d) = Len(abc) + Len(d)
      /\ Range(abc \o d) = Range(abc) \cup Range(d)
  <2> HIDE DEF abc
  <2>1. QED
    BY <1>4, Joined
<1>6. QED
  BY <1>1, <1>3, <1>5

\* The parts of the tables.
LEMMA LettersAre == Letters \in Seq(Range(Letters)) /\ Len(Letters) = 26
BY DEF Letters, Range

LEMMA DigitsAre == Digits \in Seq(Range(Digits)) /\ Len(Digits) = 10
BY DEF Digits, Range

LEMMA FunctionKeysAre == FunctionKeys \in Seq(Range(FunctionKeys)) /\ Len(FunctionKeys) = 24
BY DEF FunctionKeys, Range

LEMMA NamedKeysAre == NamedKeys \in Seq(Range(NamedKeys)) /\ Len(NamedKeys) = 31
BY DEF NamedKeys, Range

LEMMA KeysAre ==
  /\ Keys \in Seq(Range(Keys)) /\ Len(Keys) = 91
  /\ Range(Keys) = Range(Letters) \cup Range(Digits) \cup Range(FunctionKeys) \cup Range(NamedKeys)
<1> DEFINE S == Range(Letters) \cup Range(Digits) \cup Range(FunctionKeys) \cup Range(NamedKeys)
<1>1. Letters \in Seq(Range(Letters)) /\ Len(Letters) = 26
  BY LettersAre
<1>2. Digits \in Seq(Range(Digits)) /\ Len(Digits) = 10
  BY DigitsAre
<1>3. FunctionKeys \in Seq(Range(FunctionKeys)) /\ Len(FunctionKeys) = 24
  BY FunctionKeysAre
<1>4. NamedKeys \in Seq(Range(NamedKeys)) /\ Len(NamedKeys) = 31
  BY NamedKeysAre
<1>5. Range(Letters) \subseteq S /\ Range(Digits) \subseteq S
      /\ Range(FunctionKeys) \subseteq S /\ Range(NamedKeys) \subseteq S
  OBVIOUS
<1> HIDE DEF S
<1>6. /\ Letters \in Seq(S) /\ Digits \in Seq(S)
      /\ FunctionKeys \in Seq(S) /\ NamedKeys \in Seq(S)
  BY <1>1, <1>2, <1>3, <1>4, <1>5, Wider
<1>7. /\ Keys \in Seq(S) /\ Len(Keys) = Len(Letters) + Len(Digits) + Len(FunctionKeys) + Len(NamedKeys)
      /\ Range(Keys) = Range(Letters) \cup Range(Digits) \cup Range(FunctionKeys) \cup Range(NamedKeys)
  BY <1>6, FourJoined DEF Keys
<1>8. QED
  BY <1>1, <1>2, <1>3, <1>4, <1>7 DEF S

LEMMA KeysAreNoOthers ==
  ASSUME NEW key \in Range(Keys)
  PROVE  key \notin OtherWords /\ key \notin ModifierWords /\ key # Unknown
<1>1. CASE key \in Range(Letters)
  BY <1>1 DEF Range, Letters, OtherWords, Alias, ModifierWords, Unknown
<1>2. CASE key \in Range(Digits)
  BY <1>2 DEF Range, Digits, OtherWords, Alias, ModifierWords, Unknown
<1>3. CASE key \in Range(FunctionKeys)
  BY <1>3 DEF Range, FunctionKeys, OtherWords, Alias, ModifierWords, Unknown
<1>4. CASE key \in Range(NamedKeys)
  BY <1>4 DEF Range, NamedKeys, OtherWords, Alias, ModifierWords, Unknown
<1>5. QED
  BY <1>1, <1>2, <1>3, <1>4, KeysAre

LEMMA WordsAreCanonical ==
  ASSUME NEW word \in Words PROVE Canonical(word) = word /\ word # Unknown
<1>1. word \notin OtherWords /\ word # Unknown
  <2>1. CASE word \in Range(Keys)
    BY <2>1, KeysAreNoOthers
  <2>2. CASE word \in ModifierWords
    BY <2>2 DEF ModifierWords, OtherWords, Alias, Unknown
  <2>3. QED
    BY <2>1, <2>2 DEF Words
<1>2. Folded(word) = word
  BY SpellingsOK DEF Folded
<1>3. QED
  BY <1>1, <1>2 DEF Canonical

LEMMA CanonicalAreWords ==
  ASSUME NEW token PROVE Canonical(token) \in Words \cup {Unknown}
<1>1. ASSUME NEW word \in OtherWords PROVE Alias[word] \in ModifierWords \cup Range(NamedKeys)
  <2>1. Alias[word] \in
          {"alt", "ctrl", "cmd", "escape", "return", "space", "pageup", "pagedown", "left", "right",
           "up", "down", "delete", "insert", "dot"}
    BY <1>1 DEF OtherWords, Alias
  <2>2. {NamedKeys[i] : i \in {1, 2, 3, 6, 7, 10, 11, 12, 13, 14, 15, 19}} \subseteq Range(NamedKeys)
    BY DEF Range, NamedKeys
  <2>3. QED
    BY <2>1, <2>2 DEF NamedKeys, ModifierWords
<1>2. QED
  BY <1>1, KeysAre DEF Canonical, Words

\* Modifiers in their order, and what they are taken from.
LEMMA OrderedHas ==
  ASSUME NEW words
  PROVE  Ordered(words) \in Seq(ModifierWords) /\ Range(Ordered(words)) = words \cap ModifierWords
<1>1. ASSUME NEW word \in ModifierWords
      PROVE  If(word, words) \in Seq(ModifierWords) /\ Range(If(word, words)) = words \cap {word}
  <2>1. CASE word \in words
    <3>1. If(word, words) = <<word>>
      BY <2>1 DEF If
    <3>2. <<word>> \in Seq(ModifierWords) /\ Range(<<word>>) = {word}
      BY DEF Range
    <3>3. QED
      BY <2>1, <3>1, <3>2
  <2>2. CASE word \notin words
    <3>1. If(word, words) = <<>>
      BY <2>2 DEF If
    <3>2. <<>> \in Seq(ModifierWords) /\ Range(<<>>) = {}
      BY DEF Range
    <3>3. QED
      BY <2>2, <3>1, <3>2
  <2>3. QED
    BY <2>1, <2>2
<1>2. ModifierWords = {"alt", "ctrl", "shift", "cmd"}
  BY DEF ModifierWords
<1>3. /\ If("alt", words) \in Seq(ModifierWords) /\ If("ctrl", words) \in Seq(ModifierWords)
      /\ If("shift", words) \in Seq(ModifierWords) /\ If("cmd", words) \in Seq(ModifierWords)
  BY <1>1, <1>2
<1>4. /\ Ordered(words) \in Seq(ModifierWords)
      /\ Range(Ordered(words)) = Range(If("alt", words)) \cup Range(If("ctrl", words))
                                   \cup Range(If("shift", words)) \cup Range(If("cmd", words))
  BY <1>3, FourJoined DEF Ordered
<1>5. QED
  BY <1>1, <1>2, <1>4

LEMMA OrderedDepends ==
  ASSUME NEW words, NEW others, words \cap ModifierWords = others \cap ModifierWords
  PROVE  Ordered(words) = Ordered(others)
<1>1. \A word \in ModifierWords : If(word, words) = If(word, others)
  BY DEF If
<1>2. QED
  BY <1>1 DEF Ordered, ModifierWords

Spelled(words, key) == Ordered(words) \o <<key>>

LEMMA SpelledHas ==
  ASSUME NEW words, NEW key
  PROVE  /\ Spelled(words, key) \in Seq(ModifierWords \cup {key}) /\ Spelled(words, key) # <<>>
         /\ Last(Spelled(words, key)) = key
         /\ Range(Front(Spelled(words, key))) = words \cap ModifierWords
         /\ \A i \in 1 .. Len(Spelled(words, key)) - 1 : Spelled(words, key)[i] \in ModifierWords
         /\ Range(Spelled(words, key)) = (words \cap ModifierWords) \cup {key}
<1> DEFINE o == Ordered(words)
           S == ModifierWords \cup {key}
           s == Spelled(words, key)
<1>1. o \in Seq(ModifierWords) /\ Range(o) = words \cap ModifierWords /\ s = o \o <<key>>
  BY OrderedHas DEF Spelled
<1> HIDE DEF o, s
<1>2. o \in Seq(S) /\ <<key>> \in Seq(S) /\ Len(<<key>>) = 1 /\ <<key>>[1] = key
  BY <1>1, Wider
<1> DEFINE n == Len(o)
<1>3. n \in Nat /\ DOMAIN o = 1 .. n /\ \A i \in 1 .. n : o[i] \in ModifierWords
  BY <1>1
<1>4. /\ s \in Seq(S) /\ Len(s) = n + 1
      /\ \A i \in 1 .. n + 1 : s[i] = IF i <= n THEN o[i] ELSE <<key>>[i - n]
  BY <1>1, <1>2, ConcatProperties
<1> HIDE DEF n
<1>5. (n + 1) - n = 1 /\ ~(n + 1 <= n) /\ n + 1 \in 1 .. n + 1 /\ Len(s) - 1 = n
  BY <1>3, <1>4
<1>6. s[n + 1] = key /\ \A i \in 1 .. n : s[i] = o[i]
  BY <1>2, <1>3, <1>4, <1>5
<1>7. DOMAIN s = 1 .. n + 1
  BY <1>3, <1>4
<1>8. Last(s) = key
  BY <1>4, <1>6 DEF Last
<1>9. s # <<>>
  BY <1>5, <1>7
<1>10. Range(Front(s)) = Range(o)
  <2>1. Front(s) = SubSeq(s, 1, n)
    BY <1>5 DEF Front
  <2>2. Len(Front(s)) = n /\ DOMAIN Front(s) = 1 .. n /\ \A i \in 1 .. n : Front(s)[i] = s[i]
    BY <2>1, <1>3, <1>4
  <2>3. QED
    BY <2>2, <1>3, <1>6 DEF Range
<1>11. Range(s) = Range(o) \cup {key}
  <2>1. Range(s) \subseteq Range(o) \cup {key}
    BY <1>3, <1>6, <1>7 DEF Range
  <2>2. Range(o) \subseteq Range(s)
    BY <1>3, <1>6, <1>7 DEF Range
  <2>3. key \in Range(s)
    BY <1>5, <1>6, <1>7 DEF Range
  <2>4. QED
    BY <2>1, <2>2, <2>3
<1>12. \A i \in 1 .. Len(s) - 1 : s[i] \in ModifierWords
  BY <1>3, <1>5, <1>6
<1>13. QED
  BY <1>1, <1>4, <1>8, <1>9, <1>10, <1>11, <1>12 DEF s

\* What a hotkey as it is written says.
WordsOf(hotkey) == { Canonical(token) : token \in Range(hotkey) }
KeyOf(hotkey) == Canonical(hotkey[CHOOSE i \in KeyTokens(hotkey) : TRUE])
WellSpelled(hotkey) == Unknown \notin WordsOf(hotkey) /\ HasOneKey(hotkey)

LEMMA NormalizedIs ==
  ASSUME NEW hotkey
  PROVE  Normalized(hotkey) = IF WellSpelled(hotkey) THEN Spelled(WordsOf(hotkey), KeyOf(hotkey))
                                                     ELSE Malformed
BY DEF Normalized, WellSpelled, WordsOf, Spelled, KeyOf

LEMMA NormalizedWhenWellSpelled ==
  ASSUME NEW hotkey PROVE Normalized(hotkey) # Malformed <=> WellSpelled(hotkey)
BY NormalizedIs, SpelledHas DEF Malformed

LEMMA OneKey ==
  ASSUME NEW hotkey, WellSpelled(hotkey)
  PROVE  KeyOf(hotkey) \in Range(Keys) /\ WordsOf(hotkey) \ ModifierWords = {KeyOf(hotkey)}
<1>1. PICK i \in KeyTokens(hotkey) : KeyTokens(hotkey) = {i}
  BY DEF WellSpelled, HasOneKey
<1>2. (CHOOSE j \in KeyTokens(hotkey) : TRUE) = i
  BY <1>1
<1>3. KeyOf(hotkey) = Canonical(hotkey[i])
  BY <1>2 DEF KeyOf
<1>4. i \in DOMAIN hotkey /\ Canonical(hotkey[i]) \notin ModifierWords
      /\ \A j \in DOMAIN hotkey : j # i => Canonical(hotkey[j]) \in ModifierWords
  BY <1>1 DEF KeyTokens, IsModifier
<1>5. WordsOf(hotkey) = { Canonical(hotkey[j]) : j \in DOMAIN hotkey }
  BY DEF WordsOf, Range
<1>6. WordsOf(hotkey) \ ModifierWords = {KeyOf(hotkey)}
  BY <1>3, <1>4, <1>5
<1>7. KeyOf(hotkey) \in Words
  <2>1. KeyOf(hotkey) \in WordsOf(hotkey)
    BY <1>6
  <2>2. QED
    BY <2>1, <1>3, CanonicalAreWords DEF WellSpelled
<1>8. QED
  BY <1>6, <1>7 DEF Words

\* A spelling is the spelling of itself.
LEMMA SpellingsStay ==
  ASSUME NEW words, NEW key \in Range(Keys)
  PROVE  WellSpelled(Spelled(words, key)) /\ Normalized(Spelled(words, key)) = Spelled(words, key)
<1> DEFINE s == Spelled(words, key)
<1>1. /\ s \in Seq(ModifierWords \cup {key}) /\ s # <<>> /\ Last(s) = key
      /\ \A i \in 1 .. Len(s) - 1 : s[i] \in ModifierWords
      /\ Range(s) = (words \cap ModifierWords) \cup {key}
  BY SpelledHas
<1> HIDE DEF s
<1>2. key \in Words /\ ModifierWords \subseteq Words /\ key \notin ModifierWords
  BY KeysAreNoOthers DEF Words
<1>3. \A token \in Range(s) : Canonical(token) = token /\ token # Unknown
  BY <1>1, <1>2, WordsAreCanonical
<1>4. WordsOf(s) = Range(s) /\ Unknown \notin WordsOf(s)
  BY <1>3 DEF WordsOf
<1>5. KeyTokens(s) = {Len(s)}
  <2>1. Len(s) \in Nat \ {0} /\ DOMAIN s = 1 .. Len(s) /\ s[Len(s)] = key
    BY <1>1 DEF Last
  <2>2. \A i \in DOMAIN s : Canonical(s[i]) = s[i]
    BY <1>3 DEF Range
  <2>3. \A i \in DOMAIN s : i \in KeyTokens(s) <=> s[i] \notin ModifierWords
    BY <2>2 DEF KeyTokens, IsModifier
  <2>4. \A i \in DOMAIN s : s[i] \notin ModifierWords <=> i = Len(s)
    BY <1>1, <1>2, <2>1
  <2>5. KeyTokens(s) \subseteq DOMAIN s /\ Len(s) \in DOMAIN s
    BY <2>1 DEF KeyTokens
  <2>6. QED
    BY <2>3, <2>4, <2>5
<1>6. HasOneKey(s) /\ KeyOf(s) = key
  <2>1. (CHOOSE i \in KeyTokens(s) : TRUE) = Len(s)
    BY <1>5
  <2>2. Len(s) \in DOMAIN s /\ s[Len(s)] = key
    BY <1>1 DEF Last
  <2>3. Canonical(key) = key
    BY <1>2, WordsAreCanonical
  <2>4. QED
    BY <1>5, <2>1, <2>2, <2>3 DEF HasOneKey, KeyOf
<1>7. Ordered(WordsOf(s)) = Ordered(words)
  <2>1. WordsOf(s) \cap ModifierWords = words \cap ModifierWords
    BY <1>1, <1>2, <1>4
  <2>2. QED
    BY <2>1, OrderedDepends
<1>8. WellSpelled(s)
  BY <1>4, <1>6 DEF WellSpelled
<1>9. Normalized(s) = Ordered(words) \o <<key>>
  BY <1>6, <1>7, <1>8, NormalizedIs DEF Spelled
<1>10. QED
  BY <1>8, <1>9 DEF s, Spelled

\* Two hotkeys have one spelling when they say the same.
LEMMA OneSpellingOneMeaning ==
  ASSUME NEW g, NEW h, WellSpelled(g)
  PROVE  Normalized(g) = Normalized(h) <=> Meaning(g) = Meaning(h)
<1>1. /\ Normalized(g) = Spelled(WordsOf(g), KeyOf(g)) /\ Normalized(g) # Malformed
      /\ KeyOf(g) \in Range(Keys) /\ WordsOf(g) \ ModifierWords = {KeyOf(g)}
  BY NormalizedIs, NormalizedWhenWellSpelled, OneKey
<1>2. /\ Meaning(g) = [mods |-> WordsOf(g) \cap ModifierWords,
                       keys |-> WordsOf(g) \ ModifierWords, isOne |-> HasOneKey(g)]
      /\ Meaning(h) = [mods |-> WordsOf(h) \cap ModifierWords,
                       keys |-> WordsOf(h) \ ModifierWords, isOne |-> HasOneKey(h)]
  BY DEF Meaning, WordsOf
<1>3. HasOneKey(g) = TRUE /\ HasOneKey(h) \in BOOLEAN
  BY DEF WellSpelled, HasOneKey
<1>4. ASSUME Normalized(g) = Normalized(h) PROVE Meaning(g) = Meaning(h)
  <2>1. WellSpelled(h)
    BY <1>1, <1>4, NormalizedWhenWellSpelled
  <2>2. Normalized(h) = Spelled(WordsOf(h), KeyOf(h)) /\ WordsOf(h) \ ModifierWords = {KeyOf(h)}
    BY <2>1, NormalizedIs, OneKey
  <2>3. KeyOf(g) = KeyOf(h) /\ WordsOf(g) \cap ModifierWords = WordsOf(h) \cap ModifierWords
    <3>1. /\ Last(Spelled(WordsOf(g), KeyOf(g))) = KeyOf(g)
          /\ Range(Front(Spelled(WordsOf(g), KeyOf(g)))) = WordsOf(g) \cap ModifierWords
          /\ Last(Spelled(WordsOf(h), KeyOf(h))) = KeyOf(h)
          /\ Range(Front(Spelled(WordsOf(h), KeyOf(h)))) = WordsOf(h) \cap ModifierWords
      BY SpelledHas
    <3>2. Spelled(WordsOf(g), KeyOf(g)) = Spelled(WordsOf(h), KeyOf(h))
      BY <1>1, <1>4, <2>2
    <3>3. QED
      BY <3>1, <3>2
  <2>4. HasOneKey(h) = TRUE
    BY <2>1, <1>3 DEF WellSpelled
  <2>5. QED
    BY <1>1, <1>2, <1>3, <2>2, <2>3, <2>4
<1>5. ASSUME Meaning(g) = Meaning(h) PROVE Normalized(g) = Normalized(h)
  <2>1. /\ WordsOf(g) \cap ModifierWords = WordsOf(h) \cap ModifierWords
        /\ WordsOf(h) \ ModifierWords = {KeyOf(g)} /\ HasOneKey(g) = HasOneKey(h)
    <3>1. /\ Meaning(g).mods = Meaning(h).mods /\ Meaning(g).keys = Meaning(h).keys
          /\ Meaning(g).isOne = Meaning(h).isOne
      BY <1>5
    <3>2. QED
      BY <1>1, <1>2, <3>1
  <2>2. Unknown \notin WordsOf(h)
    <3>1. KeyOf(g) # Unknown /\ Unknown \notin ModifierWords
      BY <1>1, KeysAreNoOthers DEF Unknown, ModifierWords
    <3>2. QED
      BY <2>1, <3>1
  <2>3. WellSpelled(h)
    BY <1>3, <2>1, <2>2 DEF WellSpelled
  <2>4. KeyOf(h) = KeyOf(g) /\ Normalized(h) = Spelled(WordsOf(h), KeyOf(h))
    <3>1. WordsOf(h) \ ModifierWords = {KeyOf(h)} /\ Normalized(h) = Spelled(WordsOf(h), KeyOf(h))
      BY <2>3, OneKey, NormalizedIs
    <3>2. QED
      BY <2>1, <3>1
  <2>5. Ordered(WordsOf(h)) = Ordered(WordsOf(g))
    BY <2>1, OrderedDepends
  <2>6. QED
    BY <1>1, <2>4, <2>5 DEF Spelled
<1>6. QED
  BY <1>4, <1>5

-----------------------------------------------------------------------------
(* The tables of the keys.                                                 *)
Once(s) == \A i, j \in DOMAIN s : s[i] = s[j] => i = j

LEMMA OnceJoined ==
  ASSUME NEW S, NEW s \in Seq(S), NEW t \in Seq(S), Once(s), Once(t), Range(s) \cap Range(t) = {}
  PROVE  Once(s \o t)
<1>1. /\ s \o t \in Seq(S) /\ Len(s \o t) = Len(s) + Len(t)
      /\ \A i \in 1 .. Len(s) + Len(t) :
           (s \o t)[i] = IF i <= Len(s) THEN s[i] ELSE t[i - Len(s)]
  BY ConcatProperties
<1>2. /\ Len(s) \in Nat /\ Len(t) \in Nat /\ DOMAIN s = 1 .. Len(s) /\ DOMAIN t = 1 .. Len(t)
      /\ DOMAIN (s \o t) = 1 .. Len(s) + Len(t)
  BY <1>1
<1>3. ASSUME NEW i \in DOMAIN (s \o t), NEW j \in DOMAIN (s \o t), (s \o t)[i] = (s \o t)[j]
      PROVE  i = j
  <2>1. i \in Int /\ j \in Int /\ (i <= Len(s) => i \in DOMAIN s) /\ (j <= Len(s) => j \in DOMAIN s)
        /\ (~(i <= Len(s)) => i - Len(s) \in DOMAIN t) /\ (~(j <= Len(s)) => j - Len(s) \in DOMAIN t)
    BY <1>2
  <2>2. CASE i <= Len(s) /\ j <= Len(s)
    BY <1>1, <1>2, <1>3, <2>1, <2>2 DEF Once
  <2>3. CASE ~(i <= Len(s)) /\ ~(j <= Len(s))
    <3>1. t[i - Len(s)] = t[j - Len(s)]
      BY <1>1, <1>2, <1>3, <2>3
    <3>2. i - Len(s) = j - Len(s)
      BY <2>1, <2>3, <3>1 DEF Once
    <3>3. QED
      BY <1>2, <2>1, <3>2
  <2>4. CASE i <= Len(s) /\ ~(j <= Len(s))
    <3>1. s[i] = t[j - Len(s)]
      BY <1>1, <1>2, <1>3, <2>4
    <3>2. QED
      BY <2>1, <2>4, <3>1 DEF Range
  <2>5. CASE ~(i <= Len(s)) /\ j <= Len(s)
    <3>1. s[j] = t[i - Len(s)]
      BY <1>1, <1>2, <1>3, <2>5
    <3>2. QED
      BY <2>1, <2>5, <3>1 DEF Range
  <2>6. QED
    BY <2>2, <2>3, <2>4, <2>5
<1>4. QED
  BY <1>3 DEF Once

LEMMA FourOnce ==
  ASSUME NEW S, NEW a \in Seq(S), NEW b \in Seq(S), NEW c \in Seq(S), NEW d \in Seq(S),
         Once(a), Once(b), Once(c), Once(d),
         Range(a) \cap Range(b) = {}, (Range(a) \cup Range(b)) \cap Range(c) = {},
         (Range(a) \cup Range(b) \cup Range(c)) \cap Range(d) = {}
  PROVE  Once(a \o b \o c \o d)
<1> DEFINE ab == a \o b
<1>1. ab \in Seq(S) /\ Range(ab) = Range(a) \cup Range(b)
  BY Joined
<1>2. Once(ab)
  BY OnceJoined
<1> HIDE DEF ab
<1> DEFINE abc == ab \o c
<1>3. abc \in Seq(S) /\ Range(abc) = Range(a) \cup Range(b) \cup Range(c)
  BY <1>1, Joined
<1>4. Once(abc)
  BY <1>1, <1>2, OnceJoined
<1> HIDE DEF abc
<1>5. Once(abc \o d)
  BY <1>3, <1>4, OnceJoined
<1>6. QED
  BY <1>5 DEF ab, abc

LEMMA FromIs ==
  ASSUME NEW first \in Int, NEW count \in Nat
  PROVE  /\ From(first, count) \in Seq(Int) /\ Len(From(first, count)) = count
         /\ Once(From(first, count))
         /\ Range(From(first, count)) \subseteq first .. first + count - 1
<1> DEFINE f == From(first, count)
<1>1. DOMAIN f = 1 .. count /\ \A i \in 1 .. count : f[i] = first + i - 1 /\ f[i] \in Int
  BY DEF From
<1>2. f \in Seq(Int) /\ Len(f) = count
  BY <1>1 DEF From
<1> HIDE DEF f
<1>3. Once(f)
  BY <1>1 DEF Once
<1>4. Range(f) \subseteq first .. first + count - 1
  BY <1>1 DEF Range
<1>5. QED
  BY <1>2, <1>3, <1>4 DEF f

\* A table of codes: three runs of them, and those of the named keys.
Part(s, count, S) == s \in Seq(Int) /\ Len(s) = count /\ Once(s) /\ Range(s) \subseteq S
Table(s) == s \in Seq(Int) /\ Len(s) = 91 /\ Once(s) /\ Range(s) \subseteq Nat
Apart(A, B, C, D) ==
  /\ A \subseteq Nat /\ B \subseteq Nat /\ C \subseteq Nat /\ D \subseteq Nat
  /\ A \cap B = {} /\ A \cap C = {} /\ B \cap C = {} /\ D \cap (A \cup B \cup C) = {}

LEMMA TableOnce ==
  ASSUME NEW A, NEW B, NEW C, NEW D, Apart(A, B, C, D),
         NEW a, NEW b, NEW c, NEW d,
         Part(a, 26, A), Part(b, 10, B), Part(c, 24, C), Part(d, 31, D)
  PROVE  Table(a \o b \o c \o d)
<1>1. a \in Seq(Int) /\ b \in Seq(Int) /\ c \in Seq(Int) /\ d \in Seq(Int)
  BY DEF Part
<1>2. Once(a) /\ Once(b) /\ Once(c) /\ Once(d)
  BY DEF Part
<1>3. Range(a) \subseteq A /\ Range(b) \subseteq B /\ Range(c) \subseteq C /\ Range(d) \subseteq D
  BY DEF Part
<1>4. /\ Range(a) \cap Range(b) = {} /\ (Range(a) \cup Range(b)) \cap Range(c) = {}
      /\ (Range(a) \cup Range(b) \cup Range(c)) \cap Range(d) = {}
      /\ Range(a) \cup Range(b) \cup Range(c) \cup Range(d) \subseteq Nat
  BY <1>3 DEF Apart
<1>5. Once(a \o b \o c \o d)
  BY <1>1, <1>2, <1>4, FourOnce
<1>6. /\ a \o b \o c \o d \in Seq(Int)
      /\ Len(a \o b \o c \o d) = Len(a) + Len(b) + Len(c) + Len(d)
      /\ Range(a \o b \o c \o d) = Range(a) \cup Range(b) \cup Range(c) \cup Range(d)
  BY <1>1, FourJoined
<1>7. Len(a) = 26 /\ Len(b) = 10 /\ Len(c) = 24 /\ Len(d) = 31
  BY DEF Part
<1>8. Len(a \o b \o c \o d) = 91
  BY <1>6, <1>7
<1>9. QED
  BY <1>4, <1>5, <1>6, <1>8 DEF Table

LEMMA RunIs ==
  ASSUME NEW first \in Int, NEW count \in Nat, NEW last \in Int, last = first + count - 1
  PROVE  Part(From(first, count), count, first .. last)
BY FromIs DEF Part

LEMMA NamedIs ==
  ASSUME NEW d \in Seq(Int), Len(d) = 31, NEW N, \A i \in 1 .. 31 : d[i] \in N,
         \A i, j \in 1 .. 31 : d[i] = d[j] => i = j
  PROVE  Part(d, 31, N)
<1>1. DOMAIN d = 1 .. 31
  OBVIOUS
<1>2. Once(d)
  BY <1>1 DEF Once
<1>3. Range(d) \subseteq N
  BY <1>1 DEF Range
<1>4. QED
  BY <1>2, <1>3 DEF Part

LEMMA RunsAre ==
  /\ Part(From(97, 26), 26, 97 .. 122)
  /\ Part(From(65, 26), 26, 65 .. 90)
  /\ Part(From(48, 10), 10, 48 .. 57)
  /\ Part(From(65470, 24), 24, 65470 .. 65493)
  /\ Part(From(112, 24), 24, 112 .. 135)
  /\ Part(From(16777264, 24), 24, 16777264 .. 16777287)
<1>1. Part(From(97, 26), 26, 97 .. 122)
  <2> DEFINE first == 97
             count == 26
             last == 122
  <2>1. first \in Int /\ count \in Nat /\ last \in Int /\ last = first + count - 1
    OBVIOUS
  <2> HIDE DEF first, count, last
  <2>2. Part(From(first, count), count, first .. last)
    BY <2>1, RunIs
  <2>3. QED
    BY <2>2 DEF first, count, last
<1>2. Part(From(65, 26), 26, 65 .. 90)
  <2> DEFINE first == 65
             count == 26
             last == 90
  <2>1. first \in Int /\ count \in Nat /\ last \in Int /\ last = first + count - 1
    OBVIOUS
  <2> HIDE DEF first, count, last
  <2>2. Part(From(first, count), count, first .. last)
    BY <2>1, RunIs
  <2>3. QED
    BY <2>2 DEF first, count, last
<1>3. Part(From(48, 10), 10, 48 .. 57)
  <2> DEFINE first == 48
             count == 10
             last == 57
  <2>1. first \in Int /\ count \in Nat /\ last \in Int /\ last = first + count - 1
    OBVIOUS
  <2> HIDE DEF first, count, last
  <2>2. Part(From(first, count), count, first .. last)
    BY <2>1, RunIs
  <2>3. QED
    BY <2>2 DEF first, count, last
<1>4. Part(From(65470, 24), 24, 65470 .. 65493)
  <2> DEFINE first == 65470
             count == 24
             last == 65493
  <2>1. first \in Int /\ count \in Nat /\ last \in Int /\ last = first + count - 1
    OBVIOUS
  <2> HIDE DEF first, count, last
  <2>2. Part(From(first, count), count, first .. last)
    BY <2>1, RunIs
  <2>3. QED
    BY <2>2 DEF first, count, last
<1>5. Part(From(112, 24), 24, 112 .. 135)
  <2> DEFINE first == 112
             count == 24
             last == 135
  <2>1. first \in Int /\ count \in Nat /\ last \in Int /\ last = first + count - 1
    OBVIOUS
  <2> HIDE DEF first, count, last
  <2>2. Part(From(first, count), count, first .. last)
    BY <2>1, RunIs
  <2>3. QED
    BY <2>2 DEF first, count, last
<1>6. Part(From(16777264, 24), 24, 16777264 .. 16777287)
  <2> DEFINE first == 16777264
             count == 24
             last == 16777287
  <2>1. first \in Int /\ count \in Nat /\ last \in Int /\ last = first + count - 1
    OBVIOUS
  <2> HIDE DEF first, count, last
  <2>2. Part(From(first, count), count, first .. last)
    BY <2>1, RunIs
  <2>3. QED
    BY <2>2 DEF first, count, last
<1>7. QED
  BY <1>1, <1>2, <1>3, <1>4, <1>5, <1>6

LEMMA X11KeysymsOnce == Table(X11Keysyms)
<1> DEFINE d == <<\hff1b, \hff0d, \h20, \hff09, \hff08, \hffff, \hff63, \hff50, \hff57, \hff55, \hff56,
                  \hff51, \hff53, \hff52, \hff54, \h2d, \h3d, \h2c, \h2e, \h2f, \h27, \h3b, \h5b, \h5d,
                  \h5c, \h60, \hff61, \hff14, \hffe5, \hff7f, \hff13>>
           A == 97 .. 122
           B == 48 .. 57
           C == 65470 .. 65493
           D == Nat \ (A \cup B \cup C)
<1>1. Part(From(97, 26), 26, A) /\ Part(From(48, 10), 10, B) /\ Part(From(65470, 24), 24, C)
  BY RunsAre
<1>2. Part(d, 31, D)
  <2>1. d \in Seq(Int) /\ Len(d) = 31
    OBVIOUS
  <2>2. \A i \in 1 .. 31 : d[i] \in D
    OBVIOUS
  <2>3. \A i, j \in 1 .. 31 : d[i] = d[j] => i = j
    OBVIOUS
  <2> HIDE DEF d, D
  <2>4. QED
    BY <2>1, <2>2, <2>3, NamedIs
<1>3. Apart(A, B, C, D)
  BY DEF Apart
<1>4. X11Keysyms = From(97, 26) \o From(48, 10) \o From(65470, 24) \o d
  BY DEF X11Keysyms
<1> HIDE DEF A, B, C, D, d
<1>5. QED
  BY <1>1, <1>2, <1>3, <1>4, TableOnce

LEMMA WindowsCodesOnce == Table(WindowsCodes)
<1> DEFINE d == <<\h1b, \h0d, \h20, \h09, \h08, \h2e, \h2d, \h24, \h23, \h21, \h22,
                  \h25, \h27, \h26, \h28, \hbd, \hbb, \hbc, \hbe, \hbf, \hde, \hba, \hdb, \hdd,
                  \hdc, \hc0, \h2c, \h91, \h14, \h90, \h13>>
           A == 65 .. 90
           B == 48 .. 57
           C == 112 .. 135
           D == Nat \ (A \cup B \cup C)
<1>1. Part(From(65, 26), 26, A) /\ Part(From(48, 10), 10, B) /\ Part(From(112, 24), 24, C)
  BY RunsAre
<1>2. Part(d, 31, D)
  <2>1. d \in Seq(Int) /\ Len(d) = 31
    OBVIOUS
  <2>2. \A i \in 1 .. 31 : d[i] \in D
    OBVIOUS
  <2>3. \A i, j \in 1 .. 31 : d[i] = d[j] => i = j
    OBVIOUS
  <2> HIDE DEF d, D
  <2>4. QED
    BY <2>1, <2>2, <2>3, NamedIs
<1>3. Apart(A, B, C, D)
  BY DEF Apart
<1>4. WindowsCodes = From(65, 26) \o From(48, 10) \o From(112, 24) \o d
  BY DEF WindowsCodes
<1> HIDE DEF A, B, C, D, d
<1>5. QED
  BY <1>1, <1>2, <1>3, <1>4, TableOnce

LEMMA KdeCodesOnce == Table(KdeCodes)
<1> DEFINE d == <<\h01000000, \h01000004, \h20, \h01000001, \h01000003, \h01000007, \h01000006, \h01000010,
                  \h01000011, \h01000016, \h01000017, \h01000012, \h01000014, \h01000013, \h01000015,
                  \h2d, \h3d, \h2c, \h2e, \h2f, \h27, \h3b, \h5b, \h5d, \h5c, \h60, \h01000009,
                  \h01000026, \h01000024, \h01000025, \h01000008>>
           A == 65 .. 90
           B == 48 .. 57
           C == 16777264 .. 16777287
           D == Nat \ (A \cup B \cup C)
<1>1. Part(From(65, 26), 26, A) /\ Part(From(48, 10), 10, B) /\ Part(From(16777264, 24), 24, C)
  BY RunsAre
<1>2. Part(d, 31, D)
  <2>1. d \in Seq(Int) /\ Len(d) = 31
    OBVIOUS
  <2>2. \A i \in 1 .. 31 : d[i] \in D
    OBVIOUS
  <2>3. \A i, j \in 1 .. 31 : d[i] = d[j] => i = j
    OBVIOUS
  <2> HIDE DEF d, D
  <2>4. QED
    BY <2>1, <2>2, <2>3, NamedIs
<1>3. Apart(A, B, C, D)
  BY DEF Apart
<1>4. KdeCodes = From(65, 26) \o From(48, 10) \o From(16777264, 24) \o d
  BY DEF KdeCodes
<1> HIDE DEF A, B, C, D, d
<1>5. QED
  BY <1>1, <1>2, <1>3, <1>4, TableOnce

LEMMA MacCodesOnce ==
  /\ \A i, j \in 1 .. 91 : MacCodes[i] = MacCodes[j] /\ MacCodes[i] # NoCode => i = j
  /\ \A i \in 1 .. 91 : MacCodes[i] = NoCode => i \in {57, 58, 59, 60, 87, 88, 90, 91}
<1>1. \A i, j \in 1 .. 91 : MacCodes[i] = MacCodes[j] /\ MacCodes[i] # NoCode => i = j
  BY DEF MacCodes, NoCode
<1>2. \A i \in 1 .. 91 : MacCodes[i] = NoCode => i \in {57, 58, 59, 60, 87, 88, 90, 91}
  BY DEF MacCodes, NoCode
<1>3. QED
  BY <1>1, <1>2

LEMMA LettersOnce == Once(Letters)
<1>1. \A i, j \in 1 .. 26 : Letters[i] = Letters[j] => i = j
  BY DEF Letters
<1>2. DOMAIN Letters = 1 .. 26
  BY LettersAre
<1>3. QED
  BY <1>1, <1>2 DEF Once

LEMMA DigitsOnce == Once(Digits)
<1>1. \A i, j \in 1 .. 10 : Digits[i] = Digits[j] => i = j
  BY DEF Digits
<1>2. DOMAIN Digits = 1 .. 10
  BY DigitsAre
<1>3. QED
  BY <1>1, <1>2 DEF Once

LEMMA GnomeNamesOnce == Len(GnomeNames) = 91 /\ Once(GnomeNames)
<1> DEFINE f == <<"F1", "F2", "F3", "F4", "F5", "F6", "F7", "F8", "F9", "F10", "F11", "F12", "F13", "F14",
                  "F15", "F16", "F17", "F18", "F19", "F20", "F21", "F22", "F23", "F24">>
           n == <<"Escape", "Return", "space", "Tab", "BackSpace", "Delete", "Insert", "Home", "End",
                  "Page_Up", "Page_Down", "Left", "Right", "Up", "Down", "minus", "equal", "comma", "period",
                  "slash", "apostrophe", "semicolon", "bracketleft", "bracketright", "backslash", "grave",
                  "Print", "Scroll_Lock", "Caps_Lock", "Num_Lock", "Pause">>
           S == Range(Letters) \cup Range(Digits) \cup Range(f) \cup Range(n)
<1>1. Letters \in Seq(Range(Letters)) /\ Len(Letters) = 26 /\ Once(Letters)
  BY LettersAre, LettersOnce
<1>2. Digits \in Seq(Range(Digits)) /\ Len(Digits) = 10 /\ Once(Digits)
  BY DigitsAre, DigitsOnce
<1>3. f \in Seq(Range(f)) /\ Len(f) = 24 /\ Once(f)
  <2>1. f \in Seq(Range(f)) /\ Len(f) = 24
    BY DEF Range
  <2>2. \A i, j \in 1 .. 24 : f[i] = f[j] => i = j
    OBVIOUS
  <2> HIDE DEF f
  <2>3. DOMAIN f = 1 .. 24
    BY <2>1
  <2>4. Once(f)
    BY <2>2, <2>3 DEF Once
  <2>5. QED
    BY <2>1, <2>4
<1>4. n \in Seq(Range(n)) /\ Len(n) = 31 /\ Once(n)
  <2>1. n \in Seq(Range(n)) /\ Len(n) = 31
    BY DEF Range
  <2>2. \A i, j \in 1 .. 31 : n[i] = n[j] => i = j
    OBVIOUS
  <2> HIDE DEF n
  <2>3. DOMAIN n = 1 .. 31
    BY <2>1
  <2>4. Once(n)
    BY <2>2, <2>3 DEF Once
  <2>5. QED
    BY <2>1, <2>4
<1>5. Range(Letters) \cap Range(Digits) = {}
  BY DEF Letters, Digits, Range
<1>6. (Range(Letters) \cup Range(Digits)) \cap Range(f) = {}
  BY DEF Letters, Digits, Range
<1>7. (Range(Letters) \cup Range(Digits) \cup Range(f)) \cap Range(n) = {}
  BY DEF Letters, Digits, Range
<1>8. GnomeNames = Letters \o Digits \o f \o n
  BY DEF GnomeNames
<1> HIDE DEF f, n
<1>9. /\ Range(Letters) \subseteq S /\ Range(Digits) \subseteq S
      /\ Range(f) \subseteq S /\ Range(n) \subseteq S
  OBVIOUS
<1> HIDE DEF S
<1>10. Letters \in Seq(S) /\ Digits \in Seq(S) /\ f \in Seq(S) /\ n \in Seq(S)
  BY <1>1, <1>2, <1>3, <1>4, <1>9, Wider
<1>11. Once(Letters \o Digits \o f \o n)
  BY <1>1, <1>2, <1>3, <1>4, <1>5, <1>6, <1>7, <1>10, FourOnce
<1>12. Len(Letters \o Digits \o f \o n) = Len(Letters) + Len(Digits) + Len(f) + Len(n)
  BY <1>10, FourJoined
<1>13. QED
  BY <1>1, <1>2, <1>3, <1>4, <1>8, <1>11, <1>12

LEMMA PlaceOf ==
  ASSUME NEW key \in Range(Keys) PROVE Place[key] \in 1 .. 91 /\ Keys[Place[key]] = key
<1>1. Place[key] = CHOOSE i \in DOMAIN Keys : Keys[i] = key
  BY DEF Place
<1>2. \E i \in DOMAIN Keys : Keys[i] = key
  BY DEF Range
<1>3. DOMAIN Keys = 1 .. 91
  BY KeysAre
<1>4. QED
  BY <1>1, <1>2, <1>3

Adapters == Desktops \ {"scripted"}

\* No table gives two keys one code.
LEMMA CodesDiffer ==
  ASSUME NEW adapter \in Adapters, NEW j \in Range(Keys), NEW k \in Range(Keys),
         HasKey(adapter, j), KeyCode(adapter, j) = KeyCode(adapter, k)
  PROVE  j = k
<1>1. /\ Place[j] \in 1 .. 91 /\ Keys[Place[j]] = j
      /\ Place[k] \in 1 .. 91 /\ Keys[Place[k]] = k
  BY PlaceOf
<1>2. Codes[adapter][Place[j]] = Codes[adapter][Place[k]]
  BY DEF KeyCode
<1>3. SUFFICES Place[j] = Place[k]
  BY <1>1
<1>4. ASSUME Table(Codes[adapter]) PROVE Place[j] = Place[k]
  <2>1. DOMAIN Codes[adapter] = 1 .. 91
    BY <1>4 DEF Table
  <2>2. QED
    BY <1>1, <1>2, <1>4, <2>1 DEF Table, Once
<1>5. CASE adapter = "x11"
  BY <1>4, <1>5, X11KeysymsOnce DEF Codes
<1>6. CASE adapter = "windows"
  BY <1>4, <1>6, WindowsCodesOnce DEF Codes
<1>7. CASE adapter = "kde"
  BY <1>4, <1>7, KdeCodesOnce DEF Codes
<1>8. CASE adapter = "macos"
  <2>1. Codes[adapter] = MacCodes /\ KeyCode(adapter, j) # NoCode
    BY <1>8 DEF Codes, HasKey
  <2>2. MacCodes[Place[j]] = MacCodes[Place[k]] /\ MacCodes[Place[j]] # NoCode
    BY <1>2, <2>1 DEF KeyCode
  <2>3. QED
    BY <1>1, <2>2, MacCodesOnce
<1>9. CASE adapter = "gnome"
  <2>1. Codes[adapter] = GnomeNames
    BY <1>9 DEF Codes
  <2>2. QED
    BY <1>1, <1>2, <2>1, GnomeNamesOnce DEF Once
<1>10. QED
  BY <1>5, <1>6, <1>7, <1>8, <1>9 DEF Adapters, Desktops

KeysAppleLacks ==
  {"f21", "f22", "f23", "f24", "printscreen", "scrolllock", "numlock", "pause"}

\* The third and fourth parts of a table.
LEMMA FourAt ==
  ASSUME NEW S, NEW a \in Seq(S), NEW b \in Seq(S), NEW c \in Seq(S), NEW d \in Seq(S)
  PROVE  /\ \A i \in 1 .. Len(c) : (a \o b \o c \o d)[Len(a) + Len(b) + i] = c[i]
         /\ \A i \in 1 .. Len(d) : (a \o b \o c \o d)[Len(a) + Len(b) + Len(c) + i] = d[i]
<1> DEFINE ab == a \o b
           l == Len(a) + Len(b)
           m == Len(c)
           n == Len(d)
<1>1. ab \in Seq(S) /\ Len(ab) = l /\ l \in Nat /\ m \in Nat /\ n \in Nat
  BY Joined
<1> HIDE DEF ab, l
<1> DEFINE abc == ab \o c
<1>2. abc \in Seq(S) /\ Len(abc) = l + m
  BY <1>1, Joined
<1>3. \A i \in 1 .. l + m : abc[i] = IF i <= l THEN ab[i] ELSE c[i - l]
  BY <1>1, ConcatProperties
<1> HIDE DEF abc
<1>4. \A i \in 1 .. (l + m) + n : (abc \o d)[i] = IF i <= l + m THEN abc[i] ELSE d[i - (l + m)]
  <2>1. \A i \in 1 .. Len(abc) + Len(d) :
           (abc \o d)[i] = IF i <= Len(abc) THEN abc[i] ELSE d[i - Len(abc)]
    BY <1>2, ConcatProperties
  <2>2. QED
    BY <1>2, <2>1
<1> HIDE DEF m, n
<1>5. ASSUME NEW i \in 1 .. m PROVE (abc \o d)[l + i] = c[i]
  <2>1. l + i \in 1 .. l + m /\ l + i \in 1 .. (l + m) + n /\ l + i <= l + m /\ ~(l + i <= l)
        /\ (l + i) - l = i
    BY <1>1
  <2>2. (abc \o d)[l + i] = abc[l + i]
    BY <2>1, <1>4
  <2>3. abc[l + i] = c[i]
    BY <2>1, <1>3
  <2>4. QED
    BY <2>2, <2>3
<1>6. ASSUME NEW i \in 1 .. n PROVE (abc \o d)[(l + m) + i] = d[i]
  <2>1. (l + m) + i \in 1 .. (l + m) + n /\ ~((l + m) + i <= l + m) /\ ((l + m) + i) - (l + m) = i
    BY <1>1
  <2>2. QED
    BY <2>1, <1>4
<1>7. QED
  BY <1>5, <1>6 DEF ab, abc, l, m, n

LEMMA KeysAt ==
  /\ \A i \in 1 .. 24 : Keys[36 + i] = FunctionKeys[i]
  /\ \A i \in 1 .. 31 : Keys[60 + i] = NamedKeys[i]
<1> DEFINE S == Range(Letters) \cup Range(Digits) \cup Range(FunctionKeys) \cup Range(NamedKeys)
<1>1. Letters \in Seq(Range(Letters)) /\ Len(Letters) = 26
  BY LettersAre
<1>2. Digits \in Seq(Range(Digits)) /\ Len(Digits) = 10
  BY DigitsAre
<1>3. FunctionKeys \in Seq(Range(FunctionKeys)) /\ Len(FunctionKeys) = 24
  BY FunctionKeysAre
<1>4. NamedKeys \in Seq(Range(NamedKeys)) /\ Len(NamedKeys) = 31
  BY NamedKeysAre
<1>5. Range(Letters) \subseteq S /\ Range(Digits) \subseteq S
      /\ Range(FunctionKeys) \subseteq S /\ Range(NamedKeys) \subseteq S
  OBVIOUS
<1> HIDE DEF S
<1>6. /\ Letters \in Seq(S) /\ Digits \in Seq(S)
      /\ FunctionKeys \in Seq(S) /\ NamedKeys \in Seq(S)
  BY <1>1, <1>2, <1>3, <1>4, <1>5, Wider
<1>7. /\ \A i \in 1 .. Len(FunctionKeys) :
           (Letters \o Digits \o FunctionKeys \o NamedKeys)[Len(Letters) + Len(Digits) + i] = FunctionKeys[i]
      /\ \A i \in 1 .. Len(NamedKeys) :
           (Letters \o Digits \o FunctionKeys \o NamedKeys)
             [Len(Letters) + Len(Digits) + Len(FunctionKeys) + i] = NamedKeys[i]
  <2>1. \A i \in 1 .. Len(FunctionKeys) :
          (Letters \o Digits \o FunctionKeys \o NamedKeys)[Len(Letters) + Len(Digits) + i] = FunctionKeys[i]
    <3>1. TAKE i \in 1 .. Len(FunctionKeys)
    <3>2. QED
      BY <1>6, FourAt
  <2>2. \A i \in 1 .. Len(NamedKeys) :
           (Letters \o Digits \o FunctionKeys \o NamedKeys)
             [Len(Letters) + Len(Digits) + Len(FunctionKeys) + i] = NamedKeys[i]
    <3>1. TAKE i \in 1 .. Len(NamedKeys)
    <3>2. QED
      BY <1>6, FourAt
  <2>3. QED
    BY <2>1, <2>2
<1>8. Len(Letters) + Len(Digits) = 36 /\ Len(Letters) + Len(Digits) + Len(FunctionKeys) = 60
  BY <1>1, <1>2, <1>3
<1>9. /\ \A i \in 1 .. 24 : (Letters \o Digits \o FunctionKeys \o NamedKeys)[36 + i] = FunctionKeys[i]
      /\ \A i \in 1 .. 31 : (Letters \o Digits \o FunctionKeys \o NamedKeys)[60 + i] = NamedKeys[i]
  <2>1. \A i \in 1 .. 24 : (Letters \o Digits \o FunctionKeys \o NamedKeys)[36 + i] = FunctionKeys[i]
    BY <1>3, <1>7, <1>8, Zenon
  <2>2. \A i \in 1 .. 31 : (Letters \o Digits \o FunctionKeys \o NamedKeys)[60 + i] = NamedKeys[i]
    BY <1>4, <1>7, <1>8, Zenon
  <2>3. QED
    BY <2>1, <2>2
<1>10. QED
  BY <1>9 DEF Keys

\* A key without a code is one of the eight that Apple's keyboards lack.
LEMMA KeysAreKnown ==
  ASSUME NEW adapter \in Adapters, NEW key \in Range(Keys), ~HasKey(adapter, key)
  PROVE  adapter = "macos" /\ key \in KeysAppleLacks
<1>1. Place[key] \in 1 .. 91 /\ Keys[Place[key]] = key
  BY PlaceOf
<1>2. adapter # "gnome" /\ Codes[adapter][Place[key]] = NoCode
  BY DEF HasKey, KeyCode
<1>3. ASSUME Table(Codes[adapter]) PROVE FALSE
  <2>1. DOMAIN Codes[adapter] = 1 .. 91
    BY <1>3 DEF Table
  <2>2. Codes[adapter][Place[key]] \in Range(Codes[adapter])
    BY <1>1, <2>1 DEF Range
  <2>3. NoCode \in Nat
    BY <1>2, <1>3, <2>2 DEF Table
  <2>4. QED
    BY <2>3 DEF NoCode
<1>4. adapter \notin {"x11", "windows", "kde"}
  BY <1>3, X11KeysymsOnce, WindowsCodesOnce, KdeCodesOnce DEF Codes
<1>5. adapter = "macos"
  BY <1>2, <1>4 DEF Adapters, Desktops
<1>6. Place[key] \in {57, 58, 59, 60, 87, 88, 90, 91}
  <2>1. MacCodes[Place[key]] = NoCode
    BY <1>2, <1>5 DEF Codes
  <2>2. QED
    BY <1>1, <2>1, MacCodesOnce
<1>7. /\ Keys[57] = "f21" /\ Keys[58] = "f22" /\ Keys[59] = "f23" /\ Keys[60] = "f24"
  <2>1. /\ FunctionKeys[21] = "f21" /\ FunctionKeys[22] = "f22"
        /\ FunctionKeys[23] = "f23" /\ FunctionKeys[24] = "f24"
    BY DEF FunctionKeys
  <2>2. 36 + 21 = 57 /\ 36 + 22 = 58 /\ 36 + 23 = 59 /\ 36 + 24 = 60
    OBVIOUS
  <2>3. /\ Keys[36 + 21] = FunctionKeys[21] /\ Keys[36 + 22] = FunctionKeys[22]
        /\ Keys[36 + 23] = FunctionKeys[23] /\ Keys[36 + 24] = FunctionKeys[24]
    BY KeysAt
  <2>4. QED
    BY <2>1, <2>2, <2>3
<1>8. /\ Keys[87] = "printscreen" /\ Keys[88] = "scrolllock" /\ Keys[90] = "numlock"
      /\ Keys[91] = "pause"
  <2>1. /\ NamedKeys[27] = "printscreen" /\ NamedKeys[28] = "scrolllock"
        /\ NamedKeys[30] = "numlock" /\ NamedKeys[31] = "pause"
    BY DEF NamedKeys
  <2>2. 60 + 27 = 87 /\ 60 + 28 = 88 /\ 60 + 30 = 90 /\ 60 + 31 = 91
    OBVIOUS
  <2>3. /\ Keys[60 + 27] = NamedKeys[27] /\ Keys[60 + 28] = NamedKeys[28]
        /\ Keys[60 + 30] = NamedKeys[30] /\ Keys[60 + 31] = NamedKeys[31]
    BY KeysAt
  <2>4. QED
    BY <2>1, <2>2, <2>3
<1>9. key \in KeysAppleLacks
  <2>1. key = Keys[Place[key]]
    BY <1>1
  <2>2. QED
    BY <2>1, <1>6, <1>7, <1>8 DEF KeysAppleLacks
<1>10. QED
  BY <1>5, <1>9

\* On no desktop are two hotkeys one chord.
LEMMA ChordsDiffer ==
  ASSUME NEW adapter \in Adapters, NEW a, NEW b, Takes(adapter, a), Takes(adapter, b),
         Chord(adapter, a) = Chord(adapter, b)
  PROVE  a = b
<1>1. ASSUME NEW name, Takes(adapter, name)
      PROVE  /\ name = Spelled(WordsOf(name), KeyOf(name)) /\ KeyOf(name) \in Range(Keys)
             /\ Last(name) = KeyOf(name)
             /\ Range(Front(name)) = WordsOf(name) \cap ModifierWords
             /\ HasKey(adapter, KeyOf(name))
  <2>1. name # Malformed /\ Normalized(name) = name /\ HasKey(adapter, Last(name))
    BY <1>1 DEF Takes
  <2>2. WellSpelled(name)
    BY <2>1, NormalizedWhenWellSpelled
  <2>3. name = Spelled(WordsOf(name), KeyOf(name)) /\ KeyOf(name) \in Range(Keys)
    BY <2>1, <2>2, NormalizedIs, OneKey
  <2>4. /\ Last(Spelled(WordsOf(name), KeyOf(name))) = KeyOf(name)
        /\ Range(Front(Spelled(WordsOf(name), KeyOf(name)))) = WordsOf(name) \cap ModifierWords
    BY SpelledHas
  <2>5. Last(name) = KeyOf(name) /\ Range(Front(name)) = WordsOf(name) \cap ModifierWords
    BY <2>3, <2>4
  <2>6. QED
    BY <2>1, <2>3, <2>5
<1>2. /\ Range(Front(a)) = Range(Front(b))
      /\ KeyCode(adapter, Last(a)) = KeyCode(adapter, Last(b))
  <2>1. /\ Chord(adapter, a).mods = Chord(adapter, b).mods
        /\ Chord(adapter, a).key = Chord(adapter, b).key
    OBVIOUS
  <2>2. QED
    BY <2>1 DEF Chord
<1>3. KeyOf(a) \in Range(Keys) /\ KeyOf(b) \in Range(Keys) /\ HasKey(adapter, KeyOf(a))
      /\ KeyCode(adapter, KeyOf(a)) = KeyCode(adapter, KeyOf(b))
  BY <1>1, <1>2
<1>4. KeyOf(a) = KeyOf(b)
  BY <1>3, CodesDiffer
<1>5. WordsOf(a) \cap ModifierWords = WordsOf(b) \cap ModifierWords
  BY <1>1, <1>2
<1>6. Ordered(WordsOf(a)) = Ordered(WordsOf(b))
  BY <1>5, OrderedDepends
<1>7. Spelled(WordsOf(a), KeyOf(a)) = Spelled(WordsOf(b), KeyOf(b))
  BY <1>4, <1>6 DEF Spelled
<1>8. a = Spelled(WordsOf(a), KeyOf(a)) /\ b = Spelled(WordsOf(b), KeyOf(b))
  BY <1>1
<1>9. QED
  BY <1>7, <1>8

-----------------------------------------------------------------------------
(* What a text means.                                                      *)

IsText(text) == Len(text.lines) \in Nat /\ DOMAIN text.lines = 1 .. Len(text.lines)

\* The hotkeys of an accepted text are well spelled, and each is there once.
LEMMA AcceptedNames ==
  ASSUME NEW text, IsText(text), Accepted(text)
  PROVE  /\ DOMAIN Names(text) = DOMAIN text.lines
         /\ DOMAIN NormalizedBindings(text) = DOMAIN text.lines
         /\ \A i \in DOMAIN text.lines :
              /\ Names(text)[i] = Normalized(text.lines[i].hotkey)
              /\ NormalizedBindings(text)[i].hotkey = Normalized(text.lines[i].hotkey)
              /\ NormalizedBindings(text)[i].action = NormalizedAction(text.lines[i].action)
              /\ WellSpelled(text.lines[i].hotkey)
              /\ Normalized(Normalized(text.lines[i].hotkey)) = Normalized(text.lines[i].hotkey)
         /\ Once(Names(text))
<1> DEFINE bindings == NormalizedBindings(text)
           n == Len(text.lines)
           f == [i \in 1 .. n |-> Names(text)[i]]
           T == { bindings[i].hotkey : i \in DOMAIN bindings }
<1>1. n \in Nat /\ DOMAIN text.lines = 1 .. n
  BY DEF IsText
<1>2. DOMAIN Names(text) = DOMAIN text.lines /\ DOMAIN bindings = DOMAIN text.lines
  BY DEF Names, NormalizedBindings
<1>3. \A i \in DOMAIN text.lines :
        /\ Names(text)[i] = Normalized(text.lines[i].hotkey)
        /\ bindings[i].hotkey = Normalized(text.lines[i].hotkey)
        /\ bindings[i].action = NormalizedAction(text.lines[i].action)
  BY DEF Names, NormalizedBindings
<1>4. BindingsAccepted(text)
  BY DEF Accepted
<1>5. \A i \in DOMAIN bindings : bindings[i].hotkey # Malformed
  BY <1>4 DEF BindingsAccepted
<1>6. Cardinality(T) = Len(bindings)
  BY <1>4 DEF BindingsAccepted
<1>7. Len(bindings) = n
  BY <1>1, <1>2 DEF NormalizedBindings
<1>8. ASSUME NEW i \in DOMAIN text.lines
      PROVE  /\ WellSpelled(text.lines[i].hotkey)
             /\ Normalized(Normalized(text.lines[i].hotkey)) = Normalized(text.lines[i].hotkey)
  <2> DEFINE hotkey == text.lines[i].hotkey
  <2>1. Normalized(hotkey) # Malformed
    BY <1>2, <1>3, <1>5
  <2> HIDE DEF hotkey
  <2>2. WellSpelled(hotkey)
    BY <2>1, NormalizedWhenWellSpelled
  <2>3. Normalized(hotkey) = Spelled(WordsOf(hotkey), KeyOf(hotkey)) /\ KeyOf(hotkey) \in Range(Keys)
    BY <2>2, NormalizedIs, OneKey
  <2>4. Normalized(Spelled(WordsOf(hotkey), KeyOf(hotkey))) = Spelled(WordsOf(hotkey), KeyOf(hotkey))
    BY <2>3, SpellingsStay
  <2>5. Normalized(Normalized(hotkey)) = Normalized(hotkey)
    BY <2>3, <2>4
  <2>6. QED
    BY <2>2, <2>5 DEF hotkey
<1>9. Once(Names(text))
  <2>1. T = { Names(text)[i] : i \in 1 .. n }
    BY <1>1, <1>2, <1>3
  <2>2. f \in Surjection(1 .. n, T)
    BY <2>1 DEF Surjection
  <2>3. IsFiniteSet(1 .. n) /\ Cardinality(1 .. n) = n
    BY <1>1, FS_Interval
  <2> HIDE DEF f, T, n, bindings
  <2>4. f \in Injection(1 .. n, T)
    BY <1>6, <1>7, <2>2, <2>3, FS_Surjection
  <2>5. \A i, j \in 1 .. n : f[i] = f[j] => i = j
    BY <2>4 DEF Injection, IsInjective
  <2>6. \A i, j \in 1 .. n : Names(text)[i] = Names(text)[j] => i = j
    BY <2>5 DEF f
  <2>7. QED
    BY <1>1, <1>2, <2>6 DEF Once
<1>10. QED
  BY <1>2, <1>3, <1>8, <1>9

\* What ran is what the text says of the hotkey that was asked for.
AsWritten(did, text, hotkey) ==
  LET beside == { i \in DOMAIN text.lines : Meaning(text.lines[i].hotkey) = Meaning(hotkey) }
  IN IF beside = {} THEN did = Nothing
     ELSE \A i \in beside : did = NormalizedAction(text.lines[i].action)

LEMMA DispatchedAsWritten ==
  ASSUME NEW text, IsText(text), Accepted(text), NEW hotkey
  PROVE  AsWritten(Dispatched(hotkey, NormalizedBindings(text)), text, hotkey)
<1> DEFINE bindings == NormalizedBindings(text)
           name == Normalized(hotkey)
           found == { i \in DOMAIN bindings : bindings[i].hotkey = name }
           beside == { i \in DOMAIN text.lines : Meaning(text.lines[i].hotkey) = Meaning(hotkey) }
           did == Dispatched(hotkey, bindings)
<1>1. /\ DOMAIN Names(text) = DOMAIN text.lines /\ DOMAIN bindings = DOMAIN text.lines
      /\ \A i \in DOMAIN text.lines :
           /\ Names(text)[i] = Normalized(text.lines[i].hotkey)
           /\ bindings[i].hotkey = Normalized(text.lines[i].hotkey)
           /\ bindings[i].action = NormalizedAction(text.lines[i].action)
           /\ WellSpelled(text.lines[i].hotkey)
      /\ Once(Names(text))
  BY AcceptedNames
<1>2. \A i \in DOMAIN text.lines :
        Normalized(text.lines[i].hotkey) = name <=> Meaning(text.lines[i].hotkey) = Meaning(hotkey)
  BY <1>1, OneSpellingOneMeaning
<1>3. beside = found
  BY <1>1, <1>2
<1>4. did = IF name = Malformed \/ found = {} THEN Nothing
            ELSE bindings[CHOOSE i \in found : \A j \in found : i <= j].action
  BY DEF Dispatched
<1>5. CASE found = {}
  BY <1>3, <1>4, <1>5 DEF AsWritten
<1>6. CASE found # {}
  <2>1. PICK i \in found : TRUE
    BY <1>6
  <2>2. i \in DOMAIN text.lines /\ Names(text)[i] = name /\ WellSpelled(text.lines[i].hotkey)
    BY <1>1, <2>1
  <2>3. found = {i}
    BY <1>1, <2>1, <2>2 DEF Once
  <2>4. name # Malformed
    BY <1>1, <2>2, NormalizedWhenWellSpelled
  <2>5. i \in Nat
    BY <2>2 DEF IsText
  <2>6. (CHOOSE j \in found : \A k \in found : j <= k) = i
    BY <2>3, <2>5
  <2>7. did = NormalizedAction(text.lines[i].action)
    BY <1>1, <1>4, <1>6, <2>2, <2>4, <2>6
  <2>8. QED
    BY <1>3, <2>3, <2>7 DEF AsWritten
<1>7. QED
  BY <1>5, <1>6

\* The adapter reports a chord that is pressed as the hotkey that was written for it.
LEMMA PressedAsWritten ==
  ASSUME NEW text, IsText(text), Accepted(text), desktop \in Adapters, SetTaken(Names(text)),
         NEW hotkey, Takes(desktop, hotkey)
  PROVE  LET hits == { h \in Captured(Names(text)) : h.chord = Chord(desktop, hotkey) }
         IN AsWritten(IF hits = {} THEN Nothing
                      ELSE Dispatched((CHOOSE h \in hits : TRUE).name, NormalizedBindings(text)),
                      text, hotkey)
<1> DEFINE names == Names(text)
           entries == { [place |-> i, chord |-> Chord(desktop, names[i]), name |-> names[i]] :
                      i \in DOMAIN names }
           last == { g \in entries : \A h \in entries : h.chord = g.chord => h.place <= g.place }
           hits == { h \in Captured(names) : h.chord = Chord(desktop, hotkey) }
<1>1. /\ DOMAIN names = DOMAIN text.lines /\ DOMAIN NormalizedBindings(text) = DOMAIN text.lines
      /\ \A i \in DOMAIN text.lines :
           NormalizedBindings(text)[i].hotkey = names[i]
      /\ Once(names)
  BY AcceptedNames
<1>2. desktop # "scripted" /\ \A i \in DOMAIN names : Takes(desktop, names[i])
  BY DEF Adapters, SetTaken, Range
<1>3. Captured(names) = { [chord |-> g.chord, name |-> g.name] : g \in last }
  BY <1>2 DEF Captured
<1>4. \A i \in DOMAIN names : Chord(desktop, names[i]) = Chord(desktop, hotkey) => names[i] = hotkey
  BY <1>2, ChordsDiffer
<1>5. \A h \in hits : h.name = hotkey /\ \E i \in DOMAIN names : names[i] = hotkey
  <2> SUFFICES ASSUME NEW h \in hits
               PROVE  h.name = hotkey /\ \E i \in DOMAIN names : names[i] = hotkey
    OBVIOUS
  <2>1. PICK g \in last : h = [chord |-> g.chord, name |-> g.name]
    BY <1>3
  <2>2. PICK i \in DOMAIN names :
               g = [place |-> i, chord |-> Chord(desktop, names[i]), name |-> names[i]]
    BY <2>1
  <2>3. h.name = names[i] /\ h.chord = Chord(desktop, names[i])
    BY <2>1, <2>2
  <2>4. QED
    BY <1>4, <2>3
<1>6. ASSUME NEW i \in DOMAIN names, names[i] = hotkey PROVE hits # {}
  <2> DEFINE g == [place |-> i, chord |-> Chord(desktop, names[i]), name |-> names[i]]
  <2>1. i \in Nat
    BY <1>1 DEF IsText
  <2>2. ASSUME NEW h \in entries, h.chord = g.chord PROVE h.place <= g.place
    <3>1. PICK j \in DOMAIN names :
                 h = [place |-> j, chord |-> Chord(desktop, names[j]), name |-> names[j]]
      OBVIOUS
    <3>2. Chord(desktop, names[j]) = Chord(desktop, names[i])
      BY <2>2, <3>1
    <3>3. names[j] = names[i]
      BY <1>4, <1>6, <3>2
    <3>4. j = i
      BY <1>1, <3>3 DEF Once
    <3>5. QED
      BY <2>1, <3>1, <3>4
  <2>3. g \in last
    BY <2>2
  <2>4. [chord |-> g.chord, name |-> g.name] \in Captured(names)
    BY <1>3, <2>3
  <2>5. [chord |-> g.chord, name |-> g.name].chord = Chord(desktop, hotkey)
    BY <1>6
  <2>6. QED
    BY <2>4, <2>5
<1>7. Normalized(hotkey) = hotkey
  BY DEF Takes
<1>8. AsWritten(Dispatched(hotkey, NormalizedBindings(text)), text, hotkey)
  BY DispatchedAsWritten
<1> HIDE DEF names, entries, last, hits
<1>9. CASE hits = {}
  <2>1. ~\E i \in DOMAIN NormalizedBindings(text) : NormalizedBindings(text)[i].hotkey = hotkey
    BY <1>1, <1>6, <1>9
  <2>2. Dispatched(hotkey, NormalizedBindings(text)) = Nothing
    BY <1>7, <2>1 DEF Dispatched
  <2>3. QED
    BY <1>8, <1>9, <2>2 DEF hits, names
<1>10. CASE hits # {}
  <2>1. (CHOOSE h \in hits : TRUE).name = hotkey
    BY <1>5, <1>10
  <2>2. QED
    BY <1>8, <1>10, <2>1 DEF hits, names
<1>11. QED
  BY <1>9, <1>10

-----------------------------------------------------------------------------
(* What runs is what is written.                                           *)

LEMMA StarterIsText ==
  ASSUME NEW chord PROVE IsText(StarterText(chord))
<1> DEFINE zones == <<<<"Left", "left-half">>, <<"Right", "right-half">>, <<"Up", "top-half">>,
                      <<"Down", "bottom-half">>, <<"U", "top-left">>, <<"I", "top-right">>,
                      <<"J", "bottom-left">>, <<"K", "bottom-right">>, <<"D", "left-third">>,
                      <<"F", "center-third">>, <<"G", "right-third">>, <<"E", "left-two-thirds">>,
                      <<"T", "right-two-thirds">>, <<"Return", "maximize">>>>
           others == <<<<<<"C">>, "center">>, <<<<"Backspace">>, "restore">>,
                       <<<<"Shift", "Right">>, "move-to-next-display">>,
                       <<<<"Shift", "Left">>, "move-to-previous-display">>>>
           f == [i \in DOMAIN zones |->
                   [hotkey |-> chord \o <<zones[i][1]>>,
                    action |-> [type |-> "move-to-zone", zone |-> zones[i][2]]]]
           g == [i \in DOMAIN others |->
                   [hotkey |-> chord \o others[i][1],
                    action |-> [type |-> others[i][2], zone |-> ""]]]
<1>1. StarterText(chord).lines = f \o g
  BY DEF StarterText
<1>2. DOMAIN zones = 1 .. 14 /\ DOMAIN others = 1 .. 4
  OBVIOUS
<1> HIDE DEF zones, others
<1>3. DOMAIN f = 1 .. 14 /\ DOMAIN g = 1 .. 4
  BY <1>2
<1> DEFINE S == Range(f) \cup Range(g)
<1>4. (\A i \in 1 .. 14 : f[i] \in S) /\ (\A i \in 1 .. 4 : g[i] \in S)
  BY <1>3 DEF Range
<1>5. f = [i \in 1 .. 14 |-> f[i]] /\ g = [i \in 1 .. 4 |-> g[i]]
  BY <1>2
<1> HIDE DEF f, g, S
<1>6. f \in Seq(S) /\ g \in Seq(S)
  BY <1>4, <1>5, IsASeq
<1>7. f \o g \in Seq(S)
  BY <1>6, Joined
<1> DEFINE lines == f \o g
<1>8. lines \in Seq(S) /\ StarterText(chord).lines = lines
  BY <1>1, <1>7
<1> HIDE DEF lines
<1>9. Len(lines) \in Nat /\ DOMAIN lines = 1 .. Len(lines)
  BY <1>8
<1>10. QED
  BY <1>8, <1>9 DEF IsText

\* What is captured is what was loaded, the desktop takes all of it, and what ran last is
\* what the text said.
MeaningIInv ==
  /\ desktop \in Desktops
  /\ IsText(loaded) /\ IsText(file.text)
  /\ SetTaken(Names(loaded)) /\ held = Captured(Names(loaded))
  /\ WhatIsWrittenRuns

LEMMA MeaningInitially == ConfigInit => MeaningIInv
<1> SUFFICES ASSUME ConfigInit PROVE MeaningIInv
  OBVIOUS
<1>1. desktop \in Desktops /\ file = Missing /\ loaded = Empty /\ held = {} /\ ran = NotRun
  BY DEF ConfigInit
<1>2. Empty.lines = <<>> /\ Missing.text = Empty
  BY DEF Empty, Missing
<1>3. IsText(Empty)
  BY <1>2 DEF IsText
<1>4. DOMAIN Names(Empty) = {}
  BY <1>2 DEF Names
<1>5. SetTaken(Names(Empty))
  BY <1>4 DEF SetTaken, Range
<1>6. Captured(Names(Empty)) = {}
  BY <1>4 DEF Captured
<1>7. WhatIsWrittenRuns
  <2>1. NotRun.lines = <<>> /\ NotRun.did = Nothing
    BY DEF NotRun
  <2>2. QED
    BY <1>1, <2>1 DEF WhatIsWrittenRuns
<1>8. QED
  BY <1>1, <1>2, <1>3, <1>5, <1>6, <1>7 DEF MeaningIInv

LEMMA EmptyIsText == IsText(Empty)
BY DEF Empty, IsText

LEMMA MangledIsText == IsText(Mangled)
<1> DEFINE line == [hotkey |-> <<>>, action |-> Nothing]
<1>1. Mangled.lines = <<line>>
  BY DEF Mangled
<1> HIDE DEF line
<1>2. QED
  BY <1>1 DEF IsText

\* A step that runs nothing, and one that runs what the text says.
LEMMA RunsAsWritten ==
  ASSUME NEW did, NEW text, NEW hotkey, AsWritten(did, text, hotkey),
         ran' = [asked |-> Meaning(hotkey), lines |-> text.lines, did |-> did]
  PROVE  WhatIsWrittenRuns'
<1>1. ran'.asked = Meaning(hotkey) /\ ran'.lines = text.lines /\ ran'.did = did
  OBVIOUS
<1>2. QED
  BY <1>1 DEF WhatIsWrittenRuns, AsWritten

LEMMA NothingRuns == ran' = NotRun => WhatIsWrittenRuns'
<1> SUFFICES ASSUME ran' = NotRun PROVE WhatIsWrittenRuns'
  OBVIOUS
<1>1. ran'.lines = <<>> /\ ran'.did = Nothing
  BY DEF NotRun
<1>2. QED
  BY <1>1 DEF WhatIsWrittenRuns

LEMMA NothingLoaded ==
  ASSUME UNCHANGED <<desktop, loaded, held>>
  PROVE  SetTaken(Names(loaded)) /\ held = Captured(Names(loaded)) =>
           (SetTaken(Names(loaded)) /\ held = Captured(Names(loaded)))'
BY DEF SetTaken, Captured

LEMMA MeaningInduction ==
  MeaningIInv /\ ConfigIInv /\ [ConfigNext]_configVars => MeaningIInv'
<1> SUFFICES ASSUME MeaningIInv, ConfigIInv, [ConfigNext]_configVars PROVE MeaningIInv'
  OBVIOUS
<1>1. /\ desktop \in Desktops /\ IsText(loaded) /\ IsText(file.text)
      /\ SetTaken(Names(loaded)) /\ held = Captured(Names(loaded)) /\ WhatIsWrittenRuns
  BY DEF MeaningIInv
<1>2. config.bindings = NormalizedBindings(loaded) /\ Accepted(loaded)
  BY DEF ConfigIInv, Parsed
<1>3. CASE Load
  <2>1. /\ UNCHANGED <<desktop, file>> /\ loaded' = file.text
        /\ SetTaken(Names(file.text)) /\ held' = Captured(Names(file.text)) /\ ran' = NotRun
    BY <1>3 DEF Load
  <2>2. SetTaken(Names(loaded))' /\ held' = Captured(Names(loaded))'
    BY <2>1 DEF SetTaken, Captured
  <2>3. WhatIsWrittenRuns'
    BY <2>1, NothingRuns
  <2>4. QED
    BY <1>1, <2>1, <2>2, <2>3 DEF MeaningIInv
<1>4. CASE Dispatch
  <2>1. PICK hotkey \in Texts :
               ran' = [asked |-> Meaning(hotkey), lines |-> loaded.lines,
                       did |-> Dispatched(hotkey, config.bindings)]
    BY <1>4 DEF Dispatch
  <2>2. AsWritten(Dispatched(hotkey, config.bindings), loaded, hotkey)
    BY <1>1, <1>2, DispatchedAsWritten
  <2>3. WhatIsWrittenRuns'
    BY <2>1, <2>2, RunsAsWritten
  <2>4. UNCHANGED <<desktop, file, loaded, held>>
    BY <1>4 DEF Dispatch
  <2>5. QED
    BY <1>1, <2>3, <2>4, NothingLoaded DEF MeaningIInv
<1>5. CASE DispatchAlone
  <2> DEFINE read == IF Accepted(file.text) THEN file.text ELSE Empty
  <2>1. PICK hotkey \in Texts :
               ran' = [asked |-> Meaning(hotkey), lines |-> read.lines,
                       did |-> Dispatched(hotkey, NormalizedBindings(read))]
    BY <1>5 DEF DispatchAlone
  <2>2. IsText(read) /\ Accepted(read)
    BY <1>1, EmptyIsText, EmptyIsAccepted
  <2> HIDE DEF read
  <2>3. AsWritten(Dispatched(hotkey, NormalizedBindings(read)), read, hotkey)
    BY <2>2, DispatchedAsWritten
  <2>4. WhatIsWrittenRuns'
    BY <2>1, <2>3, RunsAsWritten
  <2>5. UNCHANGED <<desktop, file, loaded, held>>
    BY <1>5 DEF DispatchAlone
  <2>6. QED
    BY <1>1, <2>4, <2>5, NothingLoaded DEF MeaningIInv
<1>6. CASE PressKeys
  <2>1. PICK hotkey \in Pressed :
               /\ desktop # "scripted" /\ Takes(desktop, hotkey)
               /\ LET hits == { h \in held : h.chord = Chord(desktop, hotkey) }
                  IN ran' = [asked |-> Meaning(hotkey), lines |-> loaded.lines,
                             did |-> IF hits = {} THEN Nothing
                                     ELSE Dispatched((CHOOSE h \in hits : TRUE).name,
                                                     config.bindings)]
    BY <1>6 DEF PressKeys
  <2> DEFINE hits == { h \in Captured(Names(loaded)) : h.chord = Chord(desktop, hotkey) }
             did == IF hits = {} THEN Nothing
                    ELSE Dispatched((CHOOSE h \in hits : TRUE).name, NormalizedBindings(loaded))
  <2>2. ran' = [asked |-> Meaning(hotkey), lines |-> loaded.lines, did |-> did]
    BY <1>1, <1>2, <2>1
  <2>3. desktop \in Adapters
    BY <1>1, <2>1 DEF Adapters
  <2>4. AsWritten(did, loaded, hotkey)
    BY <1>1, <1>2, <2>1, <2>3, PressedAsWritten
  <2> HIDE DEF did
  <2>5. WhatIsWrittenRuns'
    BY <2>2, <2>4, RunsAsWritten
  <2>6. UNCHANGED <<desktop, file, loaded, held>>
    BY <1>6 DEF PressKeys
  <2>7. QED
    BY <1>1, <2>5, <2>6, NothingLoaded DEF MeaningIInv
<1>7. CASE Edit
  <2>1. UNCHANGED <<desktop, loaded, held>> /\ ran' = NotRun
    BY <1>7 DEF Edit
  <2>2. file' = Missing \/ \E text \in Files : file' = [by |-> "user", text |-> text]
    BY <1>7 DEF Edit
  <2>3. IsText(file'.text)
    <3>1. CASE file' = Missing
      BY <3>1, EmptyIsText DEF Missing
    <3>2. CASE \E text \in Files : file' = [by |-> "user", text |-> text]
      <4>1. PICK text \in Files : file' = [by |-> "user", text |-> text]
        BY <3>2
      <4>2. text.lines \in Seq([hotkey : Seq(STRING), action : [type : STRING, zone : STRING]])
        BY FilesOK
      <4>3. IsText(text)
        BY <4>2 DEF IsText
      <4>4. QED
        BY <4>1, <4>3
    <3>3. QED
      BY <2>2, <3>1, <3>2
  <2>4. WhatIsWrittenRuns'
    BY <2>1, NothingRuns
  <2>5. QED
    BY <1>1, <2>1, <2>3, <2>4, NothingLoaded DEF MeaningIInv
<1>8. CASE InitChecks \/ InitOpens \/ InitWrites \/ InitDies \/ UNCHANGED configVars
  <2>1. UNCHANGED <<desktop, loaded, held, ran>>
    BY <1>8 DEF InitChecks, InitOpens, InitWrites, InitDies, configVars
  <2>2. \/ file' = file \/ file' = [by |-> "init", text |-> Empty]
        \/ file' = [by |-> "init", text |-> StarterText(init.chord)]
        \/ file' = [by |-> "both", text |-> Mangled]
    BY <1>8 DEF InitChecks, InitOpens, InitWrites, InitDies, configVars
  <2>3. IsText(file'.text)
    BY <1>1, <2>2, EmptyIsText, MangledIsText, StarterIsText
  <2>4. WhatIsWrittenRuns'
    BY <1>1, <2>1 DEF WhatIsWrittenRuns
  <2>5. QED
    BY <1>1, <2>1, <2>3, <2>4, NothingLoaded DEF MeaningIInv
<1>9. QED
  BY <1>3, <1>4, <1>5, <1>6, <1>7, <1>8 DEF ConfigNext

LEMMA NamesShared ==
  ASSUME desktop \in Desktops, NEW text, IsText(text), Accepted(text), ~SetTaken(Names(text))
  PROVE  /\ desktop = "macos"
         /\ \E name \in Range(Names(text)) : Last(name) \in KeysAppleLacks
<1>1. desktop \in Adapters /\ \E name \in Range(Names(text)) : ~Takes(desktop, name)
  BY DEF SetTaken, Adapters
<1>2. PICK i \in DOMAIN Names(text) : ~Takes(desktop, Names(text)[i])
  BY <1>1 DEF Range
<1> DEFINE hotkey == text.lines[i].hotkey
           name == Names(text)[i]
<1>3. /\ name = Normalized(hotkey) /\ WellSpelled(hotkey) /\ Normalized(name) = name
      /\ name \in Range(Names(text))
  BY AcceptedNames DEF Range
<1> HIDE DEF hotkey, name
<1>4. name = Spelled(WordsOf(hotkey), KeyOf(hotkey)) /\ KeyOf(hotkey) \in Range(Keys)
      /\ name # Malformed
  BY <1>3, NormalizedIs, NormalizedWhenWellSpelled, OneKey
<1>5. Last(name) = KeyOf(hotkey)
  BY <1>4, SpelledHas
<1>6. ~HasKey(desktop, KeyOf(hotkey))
  BY <1>2, <1>3, <1>4, <1>5 DEF Takes, name
<1>7. desktop = "macos" /\ KeyOf(hotkey) \in KeysAppleLacks
  BY <1>1, <1>4, <1>6, KeysAreKnown
<1>8. QED
  BY <1>3, <1>5, <1>7

\* Whatever is written into the config file and with whatever order, case, alias or
\* repeated modifiers: pressing the keys of a hotkey, or naming it to `dispatch` in any other
\* spelling, does what is written beside it and nothing else, on every desktop; a set that
\* the config accepts is refused for its names nowhere but on macOS, for eight keys.
THEOREM ConfigsMeanWhatTheySay == ApplicationSpec => []ConfigRunsAsWritten
<1>1. ConfigIInv /\ MeaningIInv => ConfigRunsAsWritten
  <2> SUFFICES ASSUME ConfigIInv, MeaningIInv PROVE ConfigRunsAsWritten
    OBVIOUS
  <2>1. desktop \in Desktops /\ IsText(loaded) /\ IsText(file.text) /\ WhatIsWrittenRuns
    BY DEF MeaningIInv
  <2>2. config = Parsed(loaded) /\ Accepted(loaded) /\ config.bindings = NormalizedBindings(loaded)
    BY DEF ConfigIInv, Parsed
  <2>3. ConfigTypeOK
    <3>1. \A i \in DOMAIN config.bindings :
            Normalized(config.bindings[i].hotkey) = config.bindings[i].hotkey
      BY <2>1, <2>2, AcceptedNames
    <3>2. init.at \in {"off", "checked", "opened", "shared"}
      BY DEF ConfigIInv, InitIInv
    <3>3. QED
      BY <2>1, <3>1, <3>2 DEF ConfigTypeOK, ConfigIInv
  <2>4. NamesAreShared
    BY <2>1, NamesShared DEF NamesAreShared, KeysAppleLacks
  <2>5. BoundZonesExist
    BY AcceptedZonesExist DEF ConfigIInv, BoundZonesExist
  <2>6. StarterLoads
    BY DEF ConfigIInv, StarterLoads
  <2>7. QED
    BY <2>1, <2>3, <2>4, <2>5, <2>6 DEF ConfigRunsAsWritten
<1>2. ConfigInit => ConfigIInv /\ MeaningIInv
  BY ConfigInitially, MeaningInitially
<1>3. (ConfigIInv /\ MeaningIInv) /\ [ConfigNext]_configVars => (ConfigIInv /\ MeaningIInv)'
  BY ConfigInduction, MeaningInduction
<1>4. ConfigSpec => []ConfigRunsAsWritten
  BY <1>1, <1>2, <1>3, PTL DEF ConfigSpec
<1>5. QED
  BY <1>4, ApplicationFollowsAll, PTL

-----------------------------------------------------------------------------
(***************************************************************************)
(* Dispatch: what a client is told is true, and it is told in time, for    *)
(* any number of clients and any timeouts.                                 *)
(*                                                                         *)
(* The safety of an answer depends on where the request is: it is in the   *)
(* socket, in the queue, with the runner or nowhere, never in two of these *)
(* places, and its reply channel says how far it has come.  The promptness *)
(* of an answer depends on the worker, which lets no time pass while it    *)
(* has something to do (WorkerKeepsUp).                                    *)
(***************************************************************************)

-----------------------------------------------------------------------------
(* Sequences that hold each element at most once.                          *)

In(e, s) == \E i \in DOMAIN s : s[i] = e

\* Appending adds one element, and a new one keeps the sequence free of repetitions.
LEMMA Appending ==
  ASSUME NEW S, NEW s \in Seq(S), NEW e \in S
  PROVE  /\ Append(s, e) \in Seq(S)
         /\ \A d : In(d, Append(s, e)) <=> In(d, s) \/ d = e
         /\ Once(s) /\ ~In(e, s) => Once(Append(s, e))
<1>1. Append(s, e) \in Seq(S) /\ Len(Append(s, e)) = Len(s) + 1
  OBVIOUS
<1>2. \A i \in 1 .. Len(s) + 1 : Append(s, e)[i] = IF i = Len(s) + 1 THEN e ELSE s[i]
  OBVIOUS
<1>3. DOMAIN s = 1 .. Len(s) /\ DOMAIN Append(s, e) = 1 .. Len(s) + 1 /\ Len(s) \in Nat
  BY <1>1
<1>4. ASSUME NEW d PROVE In(d, Append(s, e)) <=> In(d, s) \/ d = e
  BY <1>2, <1>3 DEF In
<1>5. Once(s) /\ ~In(e, s) => Once(Append(s, e))
  BY <1>2, <1>3 DEF In, Once
<1>6. QED
  BY <1>1, <1>4, <1>5

\* Taking the first element leaves the others, and not that one again.
LEMMA Taking ==
  ASSUME NEW S, NEW s \in Seq(S), s # <<>>
  PROVE  /\ Head(s) \in S /\ Tail(s) \in Seq(S)
         /\ In(Head(s), s)
         /\ \A d : In(d, s) <=> In(d, Tail(s)) \/ d = Head(s)
         /\ Once(s) => Once(Tail(s)) /\ ~In(Head(s), Tail(s))
<1>1. /\ Head(s) \in S /\ Tail(s) \in Seq(S)
      /\ Len(s) \in Nat \ {0} /\ DOMAIN s = 1 .. Len(s) /\ Head(s) = s[1]
      /\ Len(Tail(s)) = Len(s) - 1 /\ DOMAIN Tail(s) = 1 .. Len(s) - 1
  OBVIOUS
<1>2. \A i \in 1 .. Len(s) - 1 : Tail(s)[i] = s[i + 1]
  OBVIOUS
<1>3. \A i \in 2 .. Len(s) : i - 1 \in 1 .. Len(s) - 1 /\ Tail(s)[i - 1] = s[i]
  <2> TAKE i \in 2 .. Len(s)
  <2>1. i - 1 \in 1 .. Len(s) - 1 /\ (i - 1) + 1 = i
    BY <1>1
  <2>2. QED
    BY <2>1, <1>2
<1>4. In(Head(s), s)
  BY <1>1 DEF In
<1>5. ASSUME NEW d PROVE In(d, s) <=> In(d, Tail(s)) \/ d = Head(s)
  <2>1. In(d, Tail(s)) => In(d, s)
    BY <1>1, <1>2 DEF In
  <2>2. ASSUME In(d, s), d # Head(s) PROVE In(d, Tail(s))
    <3>1. PICK i \in 1 .. Len(s) : s[i] = d
      BY <2>2, <1>1 DEF In
    <3>2. i \in 2 .. Len(s)
      BY <3>1, <2>2, <1>1
    <3>3. QED
      BY <3>1, <3>2, <1>3, <1>1 DEF In
  <2>3. QED
    BY <2>1, <2>2, <1>4
<1>6. ASSUME Once(s) PROVE Once(Tail(s)) /\ ~In(Head(s), Tail(s))
  <2>1. ASSUME NEW i \in 1 .. Len(s) - 1, NEW j \in 1 .. Len(s) - 1, Tail(s)[i] = Tail(s)[j]
        PROVE  i = j
    <3>1. i + 1 \in DOMAIN s /\ j + 1 \in DOMAIN s /\ s[i + 1] = s[j + 1]
      BY <2>1, <1>1, <1>2
    <3>2. i + 1 = j + 1
      BY <3>1, <1>6 DEF Once
    <3>3. QED
      BY <3>2
  <2>2. ASSUME NEW i \in 1 .. Len(s) - 1, Tail(s)[i] = Head(s) PROVE FALSE
    <3>1. i + 1 \in DOMAIN s /\ 1 \in DOMAIN s /\ s[i + 1] = s[1] /\ i + 1 # 1
      BY <2>2, <1>1, <1>2
    <3>2. QED
      BY <3>1, <1>6 DEF Once
  <2>3. QED
    BY <2>1, <2>2, <1>1 DEF Once, In
<1>7. QED
  BY <1>1, <1>4, <1>5, <1>6

-----------------------------------------------------------------------------
(* The inductive invariant.                                                *)

Holds(c) == runner.does \in {"judge", "run"} /\ runner.for = c

\* A request whose channel is closed, open or not there yet.
Unaccepted(c) ==
  reply[c] = "none" => ~In(c, queue) /\ c \notin pending /\ ~Holds(c) /\ starts[c] = 0
Queued(c) == In(c, queue) => reply[c] = "open" /\ starts[c] = 0 /\ ~Holds(c)
Held(c) == Holds(c) => reply[c] = "open" /\ starts[c] = (IF runner.does = "run" THEN 1 ELSE 0)
Replied(c) == /\ reply[c] \in {"dropped", "expired", "replaced"} => starts[c] = 0
              /\ reply[c] \in Ran => starts[c] = 1
              /\ starts[c] <= 1

\* A request is sent once, and received with its channel still to be made.
Sent(c) == /\ client[c] = "idle" => ~In(c, socket) /\ reply[c] = "none"
           /\ In(c, socket) => reply[c] = "none"

\* What a client was told is what its channel still says.
Told(c) == /\ client[c] \in {"mismatch", "refused", "unreachable"} =>
                reply[c] = "none" /\ ~In(c, socket)
           /\ client[c] = "stopped" => reply[c] = "dropped"
           /\ client[c] \in {"expired", "replaced"} \cup Ran => reply[c] = client[c]

Whereabouts == \A c \in Clients :
  Unaccepted(c) /\ Queued(c) /\ Held(c) /\ Replied(c) /\ Sent(c) /\ Told(c)

\* A client that waits is known to a living worker, and not for longer than its
\* deadline; one that a worker left in the socket was never accepted.
Missed(c) == worker = "killed" \/ (worker = "stopped" /\ deadline[c] = 0)
Known(c) ==
  /\ worker \in {"reply", "receive"}
  /\ \/ In(c, socket) /\ sentAt[c] = now /\ deadline[c] = 0
     \/ c \in pending /\ deadline[c] = sentAt[c] + ActionTimeout /\ now <= deadline[c]
Punctual == \A c \in Clients :
  /\ client[c] = "waiting" => Missed(c) \/ Known(c)
  /\ client[c] = "idle" => deadline[c] = 0
  /\ In(c, socket) => deadline[c] = 0
  /\ client[c] = "no response" => Missed(c)

DispatchIInv == DispatchTypeOK /\ Once(socket) /\ Once(queue) /\ Whereabouts /\ Punctual


LEMMA Emptiness == /\ \A e : ~In(e, <<>>)
                   /\ Once(<<>>)
BY DEF In, Once

\* The invariant holds at the start.
LEMMA Initially == DispatchInit => DispatchIInv
<1> SUFFICES ASSUME DispatchInit PROVE DispatchIInv
  OBVIOUS
<1>1. DispatchTypeOK
  <2>1. 0 \in 0 .. MaxNow /\ 0 \in 0 .. MaxNow + ActionTimeout /\ 0 \in Nat
    BY DispatchConstantsOK
  <2>2. socket \in Seq(Clients) /\ queue \in Seq(Clients \cup {Quit})
    BY DEF DispatchInit
  <2>3. runner \in [does : {"wait", "ended", "killed"}]
    BY DEF DispatchInit
  <2>4. QED
    BY <2>1, <2>2, <2>3 DEF DispatchInit, DispatchTypeOK
<1>2. Whereabouts
  BY Emptiness DEF DispatchInit, Whereabouts, Unaccepted, Queued, Held, Holds, Replied, Ran, Sent, Told
<1>3. Punctual
  BY Emptiness DEF DispatchInit, Punctual
<1>4. QED
  BY <1>1, <1>2, <1>3, Emptiness DEF DispatchIInv, DispatchInit

\* A client sends, gives up or dies.
LEMMA ClientSteps == DispatchIInv /\ (Send \/ GiveUp \/ ClientDies) => DispatchIInv'
<1> SUFFICES ASSUME DispatchIInv, Send \/ GiveUp \/ ClientDies PROVE DispatchIInv'
  OBVIOUS
<1> USE DEF DispatchIInv
<1>1. CASE Send
  <2>1. PICK c \in Clients :
          /\ client[c] = "idle"
          /\ IF worker \in {"reply", "receive"}
             THEN /\ client' = [client EXCEPT ![c] = "waiting"]
                  /\ socket' = Append(socket, c)
             ELSE /\ client' = [client EXCEPT ![c] = "unreachable"]
                  /\ UNCHANGED socket
          /\ sentAt' = [sentAt EXCEPT ![c] = now]
    BY <1>1 DEF Send
  <2>2. UNCHANGED <<now, accepted, worker, runner, stopping, compositor, starts>>
    BY <1>1 DEF Send
  <2>3. socket \in Seq(Clients) /\ ~In(c, socket)
    BY <2>1 DEF DispatchTypeOK, Whereabouts, Sent
  <2>4. /\ socket' \in Seq(Clients) /\ Once(socket')
        /\ \A d : In(d, socket') <=> \/ In(d, socket)
                                     \/ d = c /\ worker \in {"reply", "receive"}
    <3>1. CASE worker \in {"reply", "receive"}
      <4>1. socket' = Append(socket, c)
        BY <2>1, <3>1
      <4>2. QED
        BY <3>1, <4>1, <2>3, Appending
    <3>2. CASE worker \notin {"reply", "receive"}
      BY <2>1, <2>3, <3>2
    <3>3. QED
      BY <3>1, <3>2
  <2>5. DispatchTypeOK'
    BY <2>1, <2>2, <2>4 DEF DispatchTypeOK, accepted, Answers, NothingRan
  <2>6. Whereabouts'
    <3> SUFFICES ASSUME NEW d \in Clients
                 PROVE  (Unaccepted(d) /\ Queued(d) /\ Held(d) /\ Replied(d) /\ Sent(d) /\ Told(d))'
      BY DEF Whereabouts
    <3>1. /\ Unaccepted(d) /\ Queued(d) /\ Held(d) /\ Replied(d) /\ Sent(d) /\ Told(d)
          /\ UNCHANGED <<queue, pending, reply, runner, starts>>
      BY <2>2 DEF Whereabouts, accepted
    <3>2. (Unaccepted(d) /\ Queued(d) /\ Held(d) /\ Replied(d))'
      BY <3>1 DEF Unaccepted, Queued, Held, Holds, Replied
    <3>3. CASE d = c
      <4>1. client'[d] \in {"waiting", "unreachable"} /\ reply'[d] = "none"
            /\ (client'[d] = "unreachable" => ~In(d, socket'))
        BY <2>1, <2>4, <3>1, <3>3 DEF DispatchTypeOK, Sent
      <4>2. QED
        BY <4>1, <3>2 DEF Sent, Told, Ran
    <3>4. CASE d # c
      <4>1. client'[d] = client[d] /\ (In(d, socket') <=> In(d, socket))
        BY <2>1, <2>4, <3>4 DEF DispatchTypeOK
      <4>2. QED
        BY <4>1, <3>1, <3>2 DEF Sent, Told
    <3>5. QED
      BY <3>3, <3>4
  <2>7. Punctual'
    BY <2>1, <2>2, <2>4 DEF Punctual, Missed, Known, DispatchTypeOK, accepted
  <2>8. QED
    BY <2>2, <2>4, <2>5, <2>6, <2>7 DEF accepted
<1>2. CASE GiveUp
  <2>1. PICK c \in Clients : /\ client[c] = "waiting" /\ now >= sentAt[c] + ClientTimeout
                             /\ client' = [client EXCEPT ![c] = "no response"]
    BY <1>2 DEF GiveUp
  <2>2. UNCHANGED <<now, sentAt, socket, accepted, worker, runner, stopping, compositor, starts>>
    BY <1>2 DEF GiveUp
  <2>3. DispatchTypeOK'
    BY <2>1, <2>2 DEF DispatchTypeOK, accepted, Answers, Unsure
  <2>4. Whereabouts'
    <3>1. ASSUME NEW d \in Clients
          PROVE  Unaccepted(d) /\ Queued(d) /\ Held(d) /\ Replied(d) /\ Sent(d) /\ Told(d)
      BY DEF Whereabouts
    <3>2. ASSUME NEW d \in Clients
          PROVE  (Unaccepted(d) /\ Queued(d) /\ Held(d) /\ Replied(d))'
      BY <2>2, <3>1 DEF accepted, Unaccepted, Queued, Held, Holds, Replied
    <3>3. ASSUME NEW d \in Clients
          PROVE  client'[d] = client[d] \/ (d = c /\ client'[d] = "no response")
      BY <2>1 DEF DispatchTypeOK
    <3>4. ASSUME NEW d \in Clients PROVE (Sent(d) /\ Told(d))'
      <4>1. Sent(d) /\ Told(d) /\ (client'[d] = client[d] \/ (d = c /\ client'[d] = "no response"))
        BY <3>1, <3>3
      <4>2. QED
        BY <2>1, <2>2, <4>1 DEF accepted, Sent, Told, Ran
    <3>5. QED
      BY <3>2, <3>4 DEF Whereabouts
  <2>5. ~Known(c)
    <3>1. now \in Nat /\ sentAt[c] \in Nat
      BY DEF DispatchTypeOK
    <3>2. now >= sentAt[c] + ClientTimeout
      BY <2>1
    <3>3. sentAt[c] # now /\ ~(now <= sentAt[c] + ActionTimeout)
      BY <3>1, <3>2, DispatchConstantsOK
    <3>4. QED
      BY <3>3 DEF Known
  <2>6. Punctual'
    BY <2>1, <2>2, <2>5 DEF Punctual, Missed, Known, DispatchTypeOK, accepted
  <2>7. QED
    BY <2>2, <2>3, <2>4, <2>6 DEF accepted
<1>3. CASE ClientDies
  <2>1. PICK c \in Clients : client[c] = "waiting" /\ client' = [client EXCEPT ![c] = "dead"]
    BY <1>3 DEF ClientDies
  <2>2. UNCHANGED <<now, sentAt, socket, accepted, worker, runner, stopping, compositor, starts>>
    BY <1>3 DEF ClientDies
  <2>3. DispatchTypeOK'
    BY <2>1, <2>2 DEF DispatchTypeOK, accepted
  <2>4. Whereabouts'
    BY <2>1, <2>2 DEF Whereabouts, DispatchTypeOK, accepted, Unaccepted, Queued, Held, Holds,
                      Replied, Ran, Sent, Told
  <2>5. Punctual'
    BY <2>1, <2>2 DEF Punctual, Missed, Known, DispatchTypeOK, accepted
  <2>6. QED
    BY <2>2, <2>3, <2>4, <2>5 DEF accepted
<1>4. QED
  BY <1>1, <1>2, <1>3


-----------------------------------------------------------------------------
(* The worker.                                                             *)

\* Every answer the worker has for a pending request is one a client may get.
LEMMA AnswersFit ==
  ASSUME DispatchIInv, NEW c \in Clients, c \in pending
  PROVE  /\ Answer(c) \in Answers
         /\ Answer(c) \notin {"mismatch", "refused", "unreachable", "no response"}
         /\ Answer(c) = "stopped" => reply[c] = "dropped"
         /\ Answer(c) \in {"expired", "replaced"} \cup Ran => reply[c] = Answer(c)
<1>1. reply[c] \in {"open", "dropped", "expired", "replaced"} \cup Ran
  BY DEF DispatchIInv, DispatchTypeOK, Whereabouts, Unaccepted
<1>2. QED
  BY <1>1 DEF Answer, Answers, NothingRan, Ran, Unsure

\* The worker relays results and deadlines that have passed.
LEMMA WorkerRepliesStep == DispatchIInv /\ WorkerReplies => DispatchIInv'
<1> SUFFICES ASSUME DispatchIInv, WorkerReplies PROVE DispatchIInv'
  OBVIOUS
<1> DEFINE done == {c \in pending : Answerable(c)}
<1>1. /\ worker = "reply" /\ worker' = "receive" /\ pending' = pending \ done
      /\ client' = [c \in Clients |-> IF c \in done /\ client[c] = "waiting"
                                      THEN Answer(c) ELSE client[c]]
      /\ UNCHANGED <<now, sentAt, socket, queue, deadline, reply, runner, stopping,
                     compositor, starts>>
  BY DEF WorkerReplies, Respond
<1>2. pending \subseteq Clients
  BY DEF DispatchIInv, DispatchTypeOK
<1>3. DispatchTypeOK'
  <2>1. client' \in [Clients -> Answers \cup {"idle", "waiting", "dead"}]
    BY <1>1, <1>2, AnswersFit DEF DispatchIInv, DispatchTypeOK
  <2>2. QED
    BY <1>1, <2>1 DEF DispatchIInv, DispatchTypeOK
<1>4. ASSUME NEW c \in Clients
      PROVE  (Unaccepted(c) /\ Queued(c) /\ Held(c) /\ Replied(c) /\ Sent(c) /\ Told(c))'
  <2>1. Unaccepted(c) /\ Queued(c) /\ Held(c) /\ Replied(c) /\ Sent(c) /\ Told(c)
    BY DEF DispatchIInv, Whereabouts
  <2>2. (Unaccepted(c) /\ Queued(c) /\ Held(c) /\ Replied(c))'
    BY <1>1, <2>1 DEF Unaccepted, Queued, Held, Holds, Replied
  <2>3. CASE c \in done /\ client[c] = "waiting"
    <3>1. client'[c] = Answer(c) /\ Answer(c) \in Answers
      BY <1>1, <1>2, <2>3, AnswersFit
    <3>2. Told(c)'
      BY <1>1, <1>2, <2>3, <3>1, AnswersFit DEF Told
    <3>3. Sent(c)'
      BY <1>1, <2>1, <3>1 DEF Sent, Answers, NothingRan, Ran, Unsure
    <3>4. QED
      BY <2>2, <3>2, <3>3
  <2>4. CASE ~(c \in done /\ client[c] = "waiting")
    <3>1. client'[c] = client[c]
      BY <1>1, <2>4
    <3>2. QED
      BY <1>1, <2>1, <2>2, <3>1 DEF Sent, Told
  <2>5. QED
    BY <2>3, <2>4
<1>5. ASSUME NEW c \in Clients
      PROVE  /\ client'[c] = "waiting" => Missed(c)' \/ Known(c)'
             /\ client'[c] = "idle" => deadline'[c] = 0
             /\ In(c, socket') => deadline'[c] = 0
             /\ client'[c] = "no response" => Missed(c)'
  <2>1. /\ client[c] = "waiting" => Missed(c) \/ Known(c)
        /\ client[c] = "idle" => deadline[c] = 0
        /\ In(c, socket) => deadline[c] = 0
        /\ client[c] = "no response" => Missed(c)
    BY DEF DispatchIInv, Punctual
  <2>2. CASE c \in done /\ client[c] = "waiting"
    <3>1. client'[c] = Answer(c) /\ Answer(c) \in Answers /\ Answer(c) # "no response"
      BY <1>1, <1>2, <2>2, AnswersFit
    <3>2. QED
      BY <1>1, <2>1, <3>1 DEF Answers, NothingRan, Ran, Unsure
  <2>3. CASE ~(c \in done /\ client[c] = "waiting")
    <3>1. client'[c] = client[c] /\ (client[c] = "waiting" => c \notin done)
      BY <1>1, <2>3
    <3>2. Missed(c) => Missed(c)'
      BY <1>1 DEF Missed
    <3>3. client[c] = "waiting" /\ Known(c) => Known(c)'
      BY <1>1, <3>1 DEF Known
    <3>4. ~Missed(c)
      BY <1>1 DEF Missed
    <3>5. QED
      BY <1>1, <2>1, <3>1, <3>3, <3>4
  <2>4. QED
    BY <2>2, <2>3
<1>6. QED
  BY <1>1, <1>3, <1>4, <1>5 DEF DispatchIInv, Whereabouts, Punctual

\* The worker takes a datagram.
LEMMA WorkerReceivesStep == DispatchIInv /\ WorkerReceives => DispatchIInv'
<1> SUFFICES ASSUME DispatchIInv, NEW foreign \in BOOLEAN,
                    worker = "receive" /\ socket # <<>>,
                    socket' = Tail(socket), worker' = "reply",
                    LET c == Head(socket)
                    IN IF client[c] # "waiting"
                       THEN UNCHANGED <<client, queue, pending, deadline, reply>>
                       ELSE IF foreign \/ ~compositor
                       THEN /\ Respond([d \in {c} |-> "mismatch"])
                            /\ UNCHANGED <<queue, pending, deadline, reply>>
                       ELSE IF runner.does = "ended"
                       THEN /\ Respond([d \in {c} |-> "refused"])
                            /\ UNCHANGED <<queue, pending, deadline, reply>>
                       ELSE /\ queue' = Append(queue, c)
                            /\ pending' = pending \cup {c}
                            /\ deadline' = [deadline EXCEPT ![c] = now + ActionTimeout]
                            /\ reply' = [reply EXCEPT ![c] = "open"]
                            /\ UNCHANGED client,
                    UNCHANGED <<now, sentAt, runner, stopping, compositor, starts>>
             PROVE  DispatchIInv'
  BY DEF WorkerReceives
<1> DEFINE e == Head(socket)
<1>1. DispatchTypeOK /\ Once(socket) /\ Once(queue)
  BY DEF DispatchIInv
<1>2. /\ e \in Clients /\ socket' \in Seq(Clients) /\ In(e, socket)
      /\ \A d : In(d, socket) <=> In(d, socket') \/ d = e
      /\ Once(socket') /\ ~In(e, socket')
  BY <1>1, Taking DEF DispatchTypeOK
<1>3. ASSUME NEW c \in Clients
      PROVE  Unaccepted(c) /\ Queued(c) /\ Held(c) /\ Replied(c) /\ Sent(c) /\ Told(c)
  BY DEF DispatchIInv, Whereabouts
<1>4. ASSUME NEW c \in Clients
      PROVE  /\ client[c] = "waiting" => Known(c)
             /\ client[c] = "idle" => deadline[c] = 0
             /\ In(c, socket) => deadline[c] = 0
             /\ client[c] # "no response"
  BY DEF DispatchIInv, Punctual, Missed
<1>5. /\ reply[e] = "none" /\ ~In(e, queue) /\ e \notin pending /\ ~Holds(e) /\ starts[e] = 0
      /\ client[e] # "idle"
  BY <1>2, <1>3 DEF Sent, Unaccepted
<1> HIDE DEF e
<1>6. CASE client[e] # "waiting" /\ UNCHANGED <<client, queue, pending, deadline, reply>>
  <2>1. DispatchTypeOK'
    BY <1>1, <1>2, <1>6 DEF DispatchTypeOK
  <2>2. ASSUME NEW c \in Clients
        PROVE  (Unaccepted(c) /\ Queued(c) /\ Held(c) /\ Replied(c) /\ Sent(c) /\ Told(c))'
    BY <1>2, <1>3, <1>6 DEF Unaccepted, Queued, Held, Holds, Replied, Sent, Told
  <2>3. Punctual'
    BY <1>2, <1>4, <1>6 DEF Punctual, Known
  <2>4. QED
    BY <1>1, <1>2, <1>6, <2>1, <2>2, <2>3 DEF DispatchIInv, Whereabouts
<1>7. ASSUME NEW answer \in {"mismatch", "refused"},
             Respond([d \in {e} |-> answer]), UNCHANGED <<queue, pending, deadline, reply>>
      PROVE  DispatchIInv'
  <2>1. client' = [c \in Clients |-> IF c = e /\ client[c] = "waiting" THEN answer ELSE client[c]]
    BY <1>7 DEF Respond
  <2>2. DispatchTypeOK'
    BY <1>1, <1>2, <1>7, <2>1 DEF DispatchTypeOK, Answers, NothingRan
  <2>3. ASSUME NEW c \in Clients
        PROVE  (Unaccepted(c) /\ Queued(c) /\ Held(c) /\ Replied(c) /\ Sent(c) /\ Told(c))'
    <3>1. (Unaccepted(c) /\ Queued(c) /\ Held(c) /\ Replied(c))'
      BY <1>3, <1>7 DEF Unaccepted, Queued, Held, Holds, Replied
    <3>2. client'[c] = client[c] \/ (c = e /\ client'[c] = answer)
      BY <2>1
    <3>3. QED
      BY <1>2, <1>3, <1>5, <1>7, <3>1, <3>2 DEF Sent, Told, Ran
  <2>4. Punctual'
    <3>1. ASSUME NEW c \in Clients
          PROVE  /\ client'[c] = "waiting" => Known(c)'
                 /\ client'[c] = "idle" => deadline'[c] = 0
                 /\ In(c, socket') => deadline'[c] = 0
                 /\ client'[c] # "no response"
      <4>1. client'[c] = IF c = e /\ client[c] = "waiting" THEN answer ELSE client[c]
        BY <2>1
      <4>2. QED
        BY <1>2, <1>4, <1>7, <4>1 DEF Known
    <3>2. QED
      BY <3>1 DEF Punctual
  <2>5. QED
    BY <1>1, <1>2, <1>7, <2>2, <2>3, <2>4 DEF DispatchIInv, Whereabouts
<1>8. CASE /\ client[e] = "waiting"
           /\ queue' = Append(queue, e)
           /\ pending' = pending \cup {e}
           /\ deadline' = [deadline EXCEPT ![e] = now + ActionTimeout]
           /\ reply' = [reply EXCEPT ![e] = "open"]
           /\ UNCHANGED client
  <2>1. /\ queue' \in Seq(Clients \cup {Quit}) /\ Once(queue')
        /\ \A d : In(d, queue') <=> In(d, queue) \/ d = e
    <3>1. /\ queue \in Seq(Clients \cup {Quit}) /\ e \in Clients \cup {Quit}
          /\ Once(queue) /\ ~In(e, queue)
      BY <1>1, <1>2, <1>5 DEF DispatchTypeOK
    <3>2. /\ Append(queue, e) \in Seq(Clients \cup {Quit})
          /\ \A d : In(d, Append(queue, e)) <=> In(d, queue) \/ d = e
          /\ Once(queue) /\ ~In(e, queue) => Once(Append(queue, e))
      BY <3>1, Appending
    <3>3. QED
      BY <1>8, <3>1, <3>2
  <2>2. DispatchTypeOK'
    <3>1. now + ActionTimeout \in 0 .. MaxNow + ActionTimeout
      BY <1>1, DispatchConstantsOK DEF DispatchTypeOK
    <3>2. QED
      BY <1>1, <1>2, <1>8, <2>1, <3>1 DEF DispatchTypeOK
  <2>3. ASSUME NEW c \in Clients
        PROVE  (Unaccepted(c) /\ Queued(c) /\ Held(c) /\ Replied(c) /\ Sent(c) /\ Told(c))'
    <3>1. CASE c = e
      <4>1. reply'[c] = "open"
        BY <1>1, <1>8, <3>1 DEF DispatchTypeOK
      <4>2. QED
        BY <1>2, <1>3, <1>5, <1>8, <3>1, <4>1
           DEF Unaccepted, Queued, Held, Holds, Replied, Sent, Told, Ran
    <3>2. CASE c # e
      <4>1. /\ reply'[c] = reply[c] /\ (In(c, queue') <=> In(c, queue))
            /\ (c \in pending' <=> c \in pending) /\ (In(c, socket') <=> In(c, socket))
        BY <1>1, <1>2, <1>8, <2>1, <3>2 DEF DispatchTypeOK
      <4>2. QED
        BY <1>3, <1>8, <4>1 DEF Unaccepted, Queued, Held, Holds, Replied, Sent, Told
    <3>3. QED
      BY <3>1, <3>2
  <2>4. Punctual'
    <3>1. ASSUME NEW c \in Clients, c = e
          PROVE  Known(c)' /\ client'[c] = "waiting" /\ ~In(c, socket')
      <4>1. /\ c \in pending' /\ worker' = "reply" /\ ~In(c, socket') /\ client'[c] = "waiting"
            /\ sentAt'[c] = now /\ now' = now
        <5>1. In(c, socket) /\ c \notin pending /\ Known(c)
          BY <1>2, <1>4, <1>5, <1>8, <3>1
        <5>2. sentAt[c] = now
          BY <5>1 DEF Known
        <5>3. QED
          BY <1>2, <1>8, <3>1, <5>2
      <4>2. deadline'[c] = now + ActionTimeout /\ now <= now + ActionTimeout
        BY <1>1, <1>8, <3>1, DispatchConstantsOK DEF DispatchTypeOK
      <4>3. QED
        BY <4>1, <4>2 DEF Known
    <3>2. ASSUME NEW c \in Clients, c # e
          PROVE  /\ client'[c] = "waiting" => Known(c)'
                 /\ client'[c] = "idle" => deadline'[c] = 0
                 /\ In(c, socket') => deadline'[c] = 0
                 /\ client'[c] # "no response"
      <4>1. deadline'[c] = deadline[c] /\ client'[c] = client[c]
            /\ (c \in pending' <=> c \in pending) /\ (In(c, socket') <=> In(c, socket))
        BY <1>1, <1>2, <1>8, <3>2 DEF DispatchTypeOK
      <4>2. QED
        BY <1>4, <4>1 DEF Known
    <3>3. QED
      BY <3>1, <3>2 DEF Punctual
  <2>5. QED
    BY <1>1, <1>2, <2>1, <2>2, <2>3, <2>4 DEF DispatchIInv, Whereabouts
<1>9. QED
  BY <1>6, <1>7, <1>8 DEF e


\* The worker finds nothing, or ends and lets go of everything.
LEMMA WorkerLeavesStep == DispatchIInv /\ (WorkerIdles \/ WorkerStops) => DispatchIInv'
<1> SUFFICES ASSUME DispatchIInv, WorkerIdles \/ WorkerStops PROVE DispatchIInv'
  OBVIOUS
<1>1. CASE WorkerIdles
  <2>1. /\ worker = "receive" /\ worker' = "reply"
        /\ UNCHANGED <<now, client, sentAt, socket, queue, pending, deadline, reply, runner,
                       stopping, compositor, starts>>
    BY <1>1 DEF WorkerIdles, requests, accepted
  <2>2. DispatchTypeOK'
    BY <2>1 DEF DispatchIInv, DispatchTypeOK
  <2>3. Whereabouts'
    BY <2>1 DEF DispatchIInv, Whereabouts, Unaccepted, Queued, Held, Holds, Replied, Sent, Told
  <2>4. Punctual'
    BY <2>1 DEF DispatchIInv, Punctual, Missed, Known
  <2>5. QED
    BY <2>1, <2>2, <2>3, <2>4 DEF DispatchIInv
<1>2. CASE WorkerStops
  <2>1. /\ worker = "reply" /\ worker' = "stopped" /\ pending' = {} /\ socket' = <<>>
        /\ client' = [c \in Clients |-> IF c \in pending /\ client[c] = "waiting"
                                        THEN "shutting down" ELSE client[c]]
        /\ UNCHANGED <<now, sentAt, queue, deadline, reply, runner, stopping, compositor, starts>>
    BY <1>2 DEF WorkerStops, Respond
  <2>2. DispatchTypeOK'
    <3>1. client' \in [Clients -> Answers \cup {"idle", "waiting", "dead"}]
      BY <2>1 DEF DispatchIInv, DispatchTypeOK, Answers, Unsure
    <3>2. socket' = <<>> /\ pending' = {}
      BY <2>1
    <3>3. socket' \in Seq(Clients) /\ pending' \subseteq Clients
      BY <3>2
    <3>4. QED
      BY <2>1, <3>1, <3>3 DEF DispatchIInv, DispatchTypeOK
  <2>3. ASSUME NEW c \in Clients
        PROVE  (Unaccepted(c) /\ Queued(c) /\ Held(c) /\ Replied(c) /\ Sent(c) /\ Told(c))'
    <3>1. client'[c] = IF c \in pending /\ client[c] = "waiting" THEN "shutting down" ELSE client[c]
      BY <2>1
    <3>2. QED
      BY <2>1, <3>1, Emptiness
         DEF DispatchIInv, Whereabouts, Unaccepted, Queued, Held, Holds, Replied, Sent, Told, Ran
  <2>4. ASSUME NEW c \in Clients
        PROVE  /\ client'[c] = "waiting" => Missed(c)'
               /\ client'[c] = "idle" => deadline'[c] = 0
               /\ ~In(c, socket')
               /\ client'[c] # "no response"
    <3>1. client'[c] = IF c \in pending /\ client[c] = "waiting" THEN "shutting down" ELSE client[c]
      BY <2>1
    <3>2. QED
      BY <2>1, <3>1, Emptiness DEF DispatchIInv, Punctual, Missed, Known
  <2>5. Punctual'
    BY <2>4 DEF Punctual
  <2>6. QED
    BY <2>1, <2>2, <2>3, <2>5, Emptiness DEF DispatchIInv, Whereabouts
<1>3. QED
  BY <1>1, <1>2

-----------------------------------------------------------------------------
(* The runner.  Punctual is none of its business.                          *)

LEMMA PunctualStays ==
  Punctual /\ UNCHANGED <<now, client, sentAt, socket, pending, deadline, worker>> => Punctual'
BY DEF Punctual, Missed, Known

\* The runner takes an instruction.
LEMMA RunnerTakesStep == DispatchIInv /\ RunnerTakes => DispatchIInv'
<1> SUFFICES ASSUME DispatchIInv, RunnerTakes PROVE DispatchIInv'
  OBVIOUS
<1> DEFINE e == Head(queue)
<1>1. /\ runner.does = "wait" /\ queue # <<>> /\ e # Quit
      /\ runner' = [does |-> "judge", for |-> e, at |-> now]
      /\ queue' = Tail(queue)
      /\ UNCHANGED <<now, client, sentAt, socket, pending, deadline, reply, worker, stopping,
                     compositor, starts>>
  BY DEF RunnerTakes, requests
<1>2. DispatchTypeOK /\ Once(socket) /\ Once(queue) /\ Punctual
  BY DEF DispatchIInv
<1>3. /\ e \in Clients /\ queue' \in Seq(Clients \cup {Quit})
      /\ \A d : In(d, queue) <=> In(d, queue') \/ d = e
      /\ Once(queue') /\ ~In(e, queue')
  BY <1>1, <1>2, Taking DEF DispatchTypeOK
<1> HIDE DEF e
<1>4. DispatchTypeOK'
  BY <1>1, <1>2, <1>3 DEF DispatchTypeOK
<1>5. ASSUME NEW c \in Clients
      PROVE  (Unaccepted(c) /\ Queued(c) /\ Held(c) /\ Replied(c) /\ Sent(c) /\ Told(c))'
  <2>1. Unaccepted(c) /\ Queued(c) /\ Held(c) /\ Replied(c) /\ Sent(c) /\ Told(c)
    BY DEF DispatchIInv, Whereabouts
  <2>2. Holds(c)' <=> c = e
    BY <1>1 DEF Holds
  <2>3. runner'.does = "judge"
    BY <1>1
  <2>4. QED
    BY <1>1, <1>3, <2>1, <2>2, <2>3 DEF Unaccepted, Queued, Held, Replied, Sent, Told
<1>6. QED
  BY <1>1, <1>2, <1>3, <1>4, <1>5, PunctualStays DEF DispatchIInv, Whereabouts

\* The runner rejects a request or starts its action.
LEMMA RunnerJudgesStep == DispatchIInv /\ RunnerJudges => DispatchIInv'
<1> SUFFICES ASSUME DispatchIInv, RunnerJudges PROVE DispatchIInv'
  OBVIOUS
<1> DEFINE e == runner.for
           rejection == Rejection(e, runner.at)
<1>1. /\ runner.does = "judge"
      /\ IF rejection # {}
         THEN /\ reply' = [reply EXCEPT ![e] = CHOOSE r \in rejection : TRUE]
              /\ runner' = [does |-> "wait"]
              /\ UNCHANGED starts
         ELSE /\ runner' = [runner EXCEPT !.does = "run"]
              /\ starts' = [starts EXCEPT ![e] = @ + 1]
              /\ UNCHANGED reply
      /\ UNCHANGED <<now, client, sentAt, socket, queue, pending, deadline, worker, stopping,
                     compositor>>
  BY DEF RunnerJudges, requests
<1>2. DispatchTypeOK /\ Once(socket) /\ Once(queue) /\ Punctual
  BY DEF DispatchIInv
<1>3. e \in Clients /\ runner \in [does : {"judge", "run"}, for : Clients, at : 0 .. MaxNow]
  BY <1>1, <1>2 DEF DispatchTypeOK
<1>4. Holds(e) /\ reply[e] = "open" /\ starts[e] = 0
  BY <1>1, <1>3 DEF DispatchIInv, Whereabouts, Held, Holds
<1>5. rejection # {} => (CHOOSE r \in rejection : TRUE) \in {"expired", "replaced"}
  BY DEF Rejection
<1> HIDE DEF rejection
<1>6. CASE rejection # {}
  <2> DEFINE verdict == CHOOSE r \in rejection : TRUE
  <2>1. /\ verdict \in {"expired", "replaced"} /\ UNCHANGED starts
        /\ reply' = [reply EXCEPT ![e] = verdict] /\ runner' = [does |-> "wait"]
    BY <1>1, <1>5, <1>6
  <2> HIDE DEF verdict, e
  <2>2. DispatchTypeOK'
    <3>1. reply' \in [Clients -> {"none", "open", "dropped", "expired", "replaced"} \cup Ran]
      BY <1>2, <1>3, <2>1 DEF DispatchTypeOK
    <3>2. runner' \in [does : {"wait", "ended", "killed"}]
      BY <2>1
    <3>3. QED
      BY <1>1, <1>2, <2>1, <3>1, <3>2 DEF DispatchTypeOK
  <2>3. ASSUME NEW c \in Clients
        PROVE  (Unaccepted(c) /\ Queued(c) /\ Held(c) /\ Replied(c) /\ Sent(c) /\ Told(c))'
    <3>1. Unaccepted(c) /\ Queued(c) /\ Held(c) /\ Replied(c) /\ Sent(c) /\ Told(c)
      BY DEF DispatchIInv, Whereabouts
    <3>2. ~Holds(c)' /\ (c # e => reply'[c] = reply[c]) /\ (c = e => reply'[c] = verdict)
      BY <1>2, <2>1 DEF Holds, DispatchTypeOK
    <3>3. c = e => ~In(c, queue) /\ ~In(c, socket) /\ client[c] # "idle"
                   /\ client[c] \notin {"stopped", "mismatch", "refused", "unreachable",
                                        "expired", "replaced"} \cup Ran
      BY <1>4, <3>1 DEF Queued, Sent, Told, Ran
    <3>4. QED
      BY <1>1, <1>4, <2>1, <3>1, <3>2, <3>3
         DEF Unaccepted, Queued, Held, Replied, Sent, Told, Ran
  <2>4. QED
    BY <1>1, <1>2, <2>2, <2>3, PunctualStays DEF DispatchIInv, Whereabouts
<1>7. CASE rejection = {}
  <2>1. /\ runner' = [runner EXCEPT !.does = "run"] /\ starts' = [starts EXCEPT ![e] = 1]
        /\ UNCHANGED reply
    BY <1>1, <1>4, <1>7
  <2>2. runner' \in [does : {"judge", "run"}, for : Clients, at : 0 .. MaxNow]
        /\ runner'.does = "run" /\ runner'.for = e
    BY <1>3, <2>1
  <2> HIDE DEF e
  <2>3. DispatchTypeOK'
    <3>1. starts' \in [Clients -> Nat]
      BY <1>2, <1>3, <2>1 DEF DispatchTypeOK
    <3>2. runner' \in [does : {"wait", "ended", "killed"}]
                       \cup [does : {"judge", "run"}, for : Clients, at : 0 .. MaxNow]
      BY <2>2
    <3>3. QED
      BY <1>1, <1>2, <2>1, <3>1, <3>2 DEF DispatchTypeOK
  <2>4. ASSUME NEW c \in Clients
        PROVE  (Unaccepted(c) /\ Queued(c) /\ Held(c) /\ Replied(c) /\ Sent(c) /\ Told(c))'
    <3>1. Unaccepted(c) /\ Queued(c) /\ Held(c) /\ Replied(c) /\ Sent(c) /\ Told(c)
      BY DEF DispatchIInv, Whereabouts
    <3>2. (Holds(c)' <=> c = e) /\ (Holds(c) <=> c = e)
      BY <1>1, <2>2 DEF Holds, e
    <3>3. starts'[c] = IF c = e THEN 1 ELSE starts[c]
      BY <1>2, <2>1 DEF DispatchTypeOK
    <3>4. QED
      BY <1>1, <1>4, <2>1, <2>2, <3>1, <3>2, <3>3
         DEF Unaccepted, Queued, Held, Replied, Sent, Told, Ran
  <2>5. QED
    BY <1>1, <1>2, <2>3, <2>4, PunctualStays DEF DispatchIInv, Whereabouts
<1>8. QED
  BY <1>6, <1>7


\* The runner reports the end of an action.
LEMMA RunnerReportsStep == DispatchIInv /\ RunnerReports => DispatchIInv'
<1> SUFFICES ASSUME DispatchIInv, NEW result \in Ran,
                    runner.does = "run",
                    reply' = [reply EXCEPT ![runner.for] = result],
                    runner' = [does |-> "wait"],
                    UNCHANGED <<now, client, sentAt, socket, queue, pending, deadline, worker,
                                stopping, compositor, starts>>
             PROVE  DispatchIInv'
  BY DEF RunnerReports, requests
<1> DEFINE e == runner.for
<1>1. DispatchTypeOK /\ Once(socket) /\ Once(queue) /\ Punctual
  BY DEF DispatchIInv
<1>2. e \in Clients
  BY <1>1 DEF DispatchTypeOK
<1>3. Holds(e) /\ reply[e] = "open" /\ starts[e] = 1
  BY <1>2 DEF DispatchIInv, Whereabouts, Held, Holds
<1>4. DispatchTypeOK'
  <2>1. reply' \in [Clients -> {"none", "open", "dropped", "expired", "replaced"} \cup Ran]
    BY <1>1, <1>2 DEF DispatchTypeOK
  <2>2. runner' \in [does : {"wait", "ended", "killed"}]
    OBVIOUS
  <2>3. QED
    BY <1>1, <2>1, <2>2 DEF DispatchTypeOK
<1>5. ASSUME NEW c \in Clients
      PROVE  (Unaccepted(c) /\ Queued(c) /\ Held(c) /\ Replied(c) /\ Sent(c) /\ Told(c))'
  <2>1. Unaccepted(c) /\ Queued(c) /\ Held(c) /\ Replied(c) /\ Sent(c) /\ Told(c)
    BY DEF DispatchIInv, Whereabouts
  <2>2. ~Holds(c)' /\ reply'[c] = IF c = e THEN result ELSE reply[c]
    BY <1>1 DEF Holds, DispatchTypeOK
  <2>3. c = e => ~In(c, queue) /\ ~In(c, socket) /\ client[c] # "idle"
                 /\ client[c] \notin {"stopped", "mismatch", "refused", "unreachable",
                                      "expired", "replaced"} \cup Ran
    BY <1>3, <2>1 DEF Queued, Sent, Told, Ran
  <2>4. QED
    BY <1>3, <2>1, <2>2, <2>3 DEF Unaccepted, Queued, Held, Replied, Sent, Told, Ran
<1>6. QED
  BY <1>1, <1>4, <1>5, PunctualStays DEF DispatchIInv, Whereabouts

\* The runner quits, and drops what is queued.
LEMMA RunnerEndsStep == DispatchIInv /\ RunnerEnds => DispatchIInv'
<1> SUFFICES ASSUME DispatchIInv, RunnerEnds PROVE DispatchIInv'
  OBVIOUS
<1>1. /\ runner.does = "wait" /\ runner' = [does |-> "ended"] /\ queue' = <<>>
      /\ reply' = [c \in Clients |-> IF In(c, queue) THEN "dropped" ELSE reply[c]]
      /\ UNCHANGED <<now, client, sentAt, socket, pending, deadline, worker, stopping,
                     compositor, starts>>
  BY DEF RunnerEnds, requests, In
<1>2. DispatchTypeOK /\ Once(socket) /\ Once(queue) /\ Punctual
  BY DEF DispatchIInv
<1>3. DispatchTypeOK'
  <2>1. reply' \in [Clients -> {"none", "open", "dropped", "expired", "replaced"} \cup Ran]
    BY <1>1, <1>2 DEF DispatchTypeOK
  <2>2. runner' \in [does : {"wait", "ended", "killed"}] /\ queue' \in Seq(Clients \cup {Quit})
    BY <1>1
  <2>3. QED
    BY <1>1, <1>2, <2>1, <2>2 DEF DispatchTypeOK
<1>4. ASSUME NEW c \in Clients
      PROVE  (Unaccepted(c) /\ Queued(c) /\ Held(c) /\ Replied(c) /\ Sent(c) /\ Told(c))'
  <2>1. Unaccepted(c) /\ Queued(c) /\ Held(c) /\ Replied(c) /\ Sent(c) /\ Told(c)
    BY DEF DispatchIInv, Whereabouts
  <2>2. ~Holds(c)' /\ ~In(c, queue') /\ reply'[c] = IF In(c, queue) THEN "dropped" ELSE reply[c]
    BY <1>1, Emptiness DEF Holds
  <2>3. QED
    BY <1>1, <2>1, <2>2 DEF Unaccepted, Queued, Held, Replied, Sent, Told, Ran
<1>5. QED
  BY <1>1, <1>2, <1>3, <1>4, Emptiness, PunctualStays DEF DispatchIInv, Whereabouts

-----------------------------------------------------------------------------
(* The rest of the world.                                                  *)

\* The user quits: the one instruction that is no request.
LEMMA UserQuitsStep == DispatchIInv /\ UserQuits => DispatchIInv'
<1> SUFFICES ASSUME DispatchIInv, UserQuits PROVE DispatchIInv'
  OBVIOUS
<1>1. /\ ~In(Quit, queue) /\ queue' = Append(queue, Quit)
      /\ UNCHANGED <<now, client, sentAt, socket, pending, deadline, reply, worker, runner,
                     stopping, compositor, starts>>
  BY DEF UserQuits, requests, In
<1>2. DispatchTypeOK /\ Once(socket) /\ Once(queue) /\ Punctual
  BY DEF DispatchIInv
<1>3. /\ queue' \in Seq(Clients \cup {Quit}) /\ Once(queue')
      /\ \A d : In(d, queue') <=> In(d, queue) \/ d = Quit
  <2>1. queue \in Seq(Clients \cup {Quit}) /\ Quit \in Clients \cup {Quit}
    BY <1>2 DEF DispatchTypeOK
  <2>2. /\ Append(queue, Quit) \in Seq(Clients \cup {Quit})
        /\ \A d : In(d, Append(queue, Quit)) <=> In(d, queue) \/ d = Quit
        /\ Once(queue) /\ ~In(Quit, queue) => Once(Append(queue, Quit))
    BY <2>1, Appending
  <2>3. QED
    BY <1>1, <1>2, <2>2
<1>4. DispatchTypeOK'
  BY <1>1, <1>2, <1>3 DEF DispatchTypeOK
<1>5. \A c \in Clients : In(c, queue') <=> In(c, queue)
  BY <1>3, DispatchConstantsOK
<1>6. Whereabouts'
  BY <1>1, <1>5 DEF DispatchIInv, Whereabouts, Unaccepted, Queued, Held, Holds, Replied, Sent, Told
<1>7. QED
  BY <1>1, <1>2, <1>3, <1>4, <1>6, PunctualStays DEF DispatchIInv

\* The session's process is killed: what it held is gone, what it told stays told.
LEMMA CrashStep == DispatchIInv /\ SessionCrashes => DispatchIInv'
<1> SUFFICES ASSUME DispatchIInv, SessionCrashes PROVE DispatchIInv'
  OBVIOUS
<1>1. /\ worker' = "killed" /\ runner' = [does |-> "killed"]
      /\ socket' = <<>> /\ queue' = <<>> /\ pending' = {}
      /\ UNCHANGED <<now, client, sentAt, deadline, reply, stopping, compositor, starts>>
  BY DEF SessionCrashes
<1>2. DispatchTypeOK'
  <2>1. runner' \in [does : {"wait", "ended", "killed"}]
        /\ queue' \in Seq(Clients \cup {Quit}) /\ socket' \in Seq(Clients)
    BY <1>1
  <2>2. QED
    BY <1>1, <2>1 DEF DispatchIInv, DispatchTypeOK
<1>3. ASSUME NEW c \in Clients
      PROVE  (Unaccepted(c) /\ Queued(c) /\ Held(c) /\ Replied(c) /\ Sent(c) /\ Told(c))'
  <2>1. ~Holds(c)' /\ ~In(c, queue') /\ ~In(c, socket')
    BY <1>1, Emptiness DEF Holds
  <2>2. QED
    BY <1>1, <2>1 DEF DispatchIInv, Whereabouts, Unaccepted, Queued, Held, Replied, Sent, Told
<1>4. Punctual'
  BY <1>1, Emptiness DEF DispatchIInv, Punctual, Missed
<1>5. QED
  BY <1>1, <1>2, <1>3, <1>4, Emptiness DEF DispatchIInv, Whereabouts

\* The server is dropped, and the compositor replaced.
LEMMA FlagSteps == DispatchIInv /\ (ServerDrops \/ CompositorReplaced) => DispatchIInv'
<1> SUFFICES ASSUME DispatchIInv, ServerDrops \/ CompositorReplaced PROVE DispatchIInv'
  OBVIOUS
<1>1. /\ stopping' \in BOOLEAN /\ compositor' \in BOOLEAN
      /\ UNCHANGED <<now, client, sentAt, socket, queue, pending, deadline, reply, worker,
                     runner, starts>>
  BY DEF ServerDrops, CompositorReplaced, requests, accepted, DispatchIInv, DispatchTypeOK
<1>2. DispatchTypeOK'
  BY <1>1 DEF DispatchIInv, DispatchTypeOK
<1>3. Whereabouts'
  BY <1>1 DEF DispatchIInv, Whereabouts, Unaccepted, Queued, Held, Holds, Replied, Sent, Told
<1>4. QED
  BY <1>1, <1>2, <1>3, PunctualStays DEF DispatchIInv

\* Time passes only when the worker has nothing to do: nobody waits in the socket,
\* and no deadline is passed.
LEMMA TickStep == DispatchIInv /\ Tick => DispatchIInv'
<1> SUFFICES ASSUME DispatchIInv, Tick PROVE DispatchIInv'
  OBVIOUS
<1>1. /\ now < MaxNow /\ WorkerKeepsUp /\ now' = now + 1
      /\ UNCHANGED <<client, sentAt, socket, queue, pending, deadline, reply, worker, runner,
                     stopping, compositor, starts>>
  BY DEF Tick, requests, accepted
<1>2. DispatchTypeOK'
  <2>1. now' \in 0 .. MaxNow
    BY <1>1, DispatchConstantsOK DEF DispatchIInv, DispatchTypeOK
  <2>2. QED
    BY <1>1, <2>1 DEF DispatchIInv, DispatchTypeOK
<1>3. Whereabouts'
  BY <1>1 DEF DispatchIInv, Whereabouts, Unaccepted, Queued, Held, Holds, Replied, Sent, Told
<1>4. ASSUME NEW c \in Clients, Known(c) PROVE Known(c)'
  <2>1. ~In(c, socket) /\ (c \in pending => now < deadline[c])
    <3>1. socket = <<>> /\ \A d \in pending : ~(now >= deadline[d])
      BY <1>1, <1>4 DEF Known, WorkerKeepsUp, Answerable
    <3>2. now \in Int /\ deadline[c] \in Int
      BY DEF DispatchIInv, DispatchTypeOK
    <3>3. QED
      BY <3>1, <3>2, Emptiness
  <2>2. c \in pending /\ deadline[c] = sentAt[c] + ActionTimeout /\ now + 1 <= deadline[c]
    <3>1. now \in Int /\ deadline[c] \in Int
      BY DEF DispatchIInv, DispatchTypeOK
    <3>2. QED
      BY <1>4, <2>1, <3>1 DEF Known
  <2>3. QED
    BY <1>1, <1>4, <2>2 DEF Known
<1>5. Punctual'
  BY <1>1, <1>4 DEF DispatchIInv, Punctual, Missed
<1>6. QED
  BY <1>1, <1>2, <1>3, <1>5 DEF DispatchIInv

-----------------------------------------------------------------------------
\* Wherever a request is, its channel, its client and the count of its runs agree
\* with it, and no living worker keeps a client beyond its deadline.
THEOREM Invariance == DispatchSpec => []DispatchIInv
<1>1. DispatchIInv /\ [DispatchNext]_dispatchVars => DispatchIInv'
  <2> SUFFICES ASSUME DispatchIInv, [DispatchNext]_dispatchVars PROVE DispatchIInv'
    OBVIOUS
  <2>1. CASE DispatchNext
    BY <2>1, ClientSteps, WorkerRepliesStep, WorkerReceivesStep, WorkerLeavesStep,
       RunnerTakesStep, RunnerJudgesStep, RunnerReportsStep, RunnerEndsStep, UserQuitsStep,
       CrashStep, FlagSteps, TickStep DEF DispatchNext
  <2>2. CASE UNCHANGED dispatchVars
    <3>1. UNCHANGED <<now, client, sentAt, socket, queue, pending, deadline, reply, worker,
                      runner, stopping, compositor, starts>>
      BY <2>2 DEF dispatchVars
    <3>2. DispatchTypeOK'
      BY <3>1 DEF DispatchIInv, DispatchTypeOK
    <3>3. Whereabouts'
      BY <3>1 DEF DispatchIInv, Whereabouts, Unaccepted, Queued, Held, Holds, Replied, Sent, Told
    <3>4. QED
      BY <3>1, <3>2, <3>3, PunctualStays DEF DispatchIInv
  <2>3. QED
    BY <2>1, <2>2
<1>2. QED
  BY Initially, <1>1, PTL DEF DispatchSpec

\* "No action was run" is said of actions that never run, however late, whoever
\* quits, crashes or is replaced; "done" of actions that ran once.
THEOREM AnswersStayTrue == DispatchSpec => []AnswersAreTrue
<1>1. DispatchIInv => AnswersAreTrue
  <2> SUFFICES ASSUME DispatchIInv, NEW c \in Clients
               PROVE  /\ client[c] \in NothingRan => starts[c] = 0
                      /\ client[c] \in Ran => starts[c] = 1
                      /\ starts[c] <= 1
    BY DEF AnswersAreTrue, TruthfulAnswers, DispatchIInv
  <2>1. Unaccepted(c) /\ Replied(c) /\ Told(c)
    BY DEF DispatchIInv, Whereabouts
  <2>2. QED
    BY <2>1 DEF Unaccepted, Replied, Told, NothingRan, Ran
<1>2. QED
  BY Invariance, <1>1, PTL

\* A client times out by itself only if the session crashed, or ended before it
\* received the request, however slow the runner is.
THEOREM AnswersComeInTime == DispatchSpec => []AnsweredInTime
<1>1. DispatchIInv => AnsweredInTime
  BY DEF DispatchIInv, Punctual, Missed, AnsweredInTime
<1>2. QED
  BY Invariance, <1>1, PTL
=============================================================================
