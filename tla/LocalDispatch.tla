---------------------------- MODULE LocalDispatch ----------------------------
(***************************************************************************)
(* Compositor-bound dispatch: session/local_dispatch/mod.rs (the client    *)
(* process and the worker thread of the session) with the part of          *)
(* session/runner.rs that executes remote requests.                        *)
(*                                                                         *)
(* A client sends one datagram to the session's socket and waits.  The     *)
(* worker puts the request into the runner's queue with a deadline and     *)
(* relays the runner's result, or reports a timeout itself; the runner     *)
(* refuses what it takes from the queue too late or for another            *)
(* compositor.  The socket, the queue and the one-slot reply channels are  *)
(* all that the three share.                                               *)
(*                                                                         *)
(* now counts units far longer than the worker's 100 ms pass: time does    *)
(* not advance while the worker has something to do (WorkerKeepsUp).  The  *)
(* runner may take any time.                                               *)
(***************************************************************************)
EXTENDS Integers, Sequences, FiniteSets

CONSTANTS
  Clients,         \* client processes, each with one request
  ActionTimeout,   \* ACTION_TIMEOUT
  ClientTimeout,   \* how long a client waits: ACTION_TIMEOUT and a second
  MaxNow,          \* bound on now
  Quit             \* the instruction that ends the session

ASSUME DispatchConstantsOK ==
  /\ IsFiniteSet(Clients)
  /\ Quit \notin Clients
  /\ ActionTimeout \in Nat \ {0}
  /\ ClientTimeout \in Nat /\ ClientTimeout > ActionTimeout
  /\ MaxNow \in Nat

VARIABLES
  now,
  client,      \* what each client knows: its state or the answer it got
  sentAt,      \* when it sent its request
  socket,      \* datagrams the worker has not received
  queue,       \* the instruction queue of the runner
  pending,     \* the worker's pending responses
  deadline,    \* the deadline of each accepted request
  reply,       \* its reply channel
  worker,      \* where the worker's loop is
  runner,      \* what the runner does
  stopping,    \* Server.stopping
  compositor,  \* whether the compositor's socket is the one the session started with
  starts          \* history variable: how often the action of each request was started

dispatchVars == <<now, client, sentAt, socket, queue, pending, deadline, reply, worker, runner,
          stopping, compositor, starts>>
requests == <<client, sentAt, socket>>
accepted == <<queue, pending, deadline, reply>>

\* Answers of the worker and of the runner, and what a client concludes alone.
NothingRan == {"expired", "replaced", "mismatch", "refused", "stopped", "unreachable"}
Ran == {"done", "failed"}
Unsure == {"timed out", "shutting down", "no response"}
Answers == NothingRan \cup Ran \cup Unsure

DispatchTypeOK ==
  /\ now \in 0 .. MaxNow
  /\ client \in [Clients -> Answers \cup {"idle", "waiting", "dead"}]
  /\ sentAt \in [Clients -> 0 .. MaxNow]
  /\ socket \in Seq(Clients)
  /\ queue \in Seq(Clients \cup {Quit})
  /\ pending \subseteq Clients
  /\ deadline \in [Clients -> 0 .. MaxNow + ActionTimeout]
  /\ reply \in [Clients -> {"none", "open", "dropped", "expired", "replaced"} \cup Ran]
  /\ worker \in {"reply", "receive", "stopped", "killed"}
  /\ runner \in [does : {"wait", "ended", "killed"}]
             \cup [does : {"judge", "run"}, for : Clients, at : 0 .. MaxNow]
  /\ stopping \in BOOLEAN /\ compositor \in BOOLEAN
  /\ starts \in [Clients -> Nat]

-----------------------------------------------------------------------------
(* Clients.                                                                *)

\* dispatch, up to the datagram: without a session there is no socket.
Send == \E c \in Clients :
  /\ client[c] = "idle"
  /\ IF worker \in {"reply", "receive"}
     THEN /\ client' = [client EXCEPT ![c] = "waiting"]
          /\ socket' = Append(socket, c)
     ELSE /\ client' = [client EXCEPT ![c] = "unreachable"]
          /\ UNCHANGED socket
  /\ sentAt' = [sentAt EXCEPT ![c] = now]
  /\ UNCHANGED <<now, accepted, worker, runner, stopping, compositor, starts>>

\* The client's own read timeout.
GiveUp == \E c \in Clients :
  /\ client[c] = "waiting"
  /\ now >= sentAt[c] + ClientTimeout
  /\ client' = [client EXCEPT ![c] = "no response"]
  /\ UNCHANGED <<now, sentAt, socket, accepted, worker, runner, stopping, compositor, starts>>

\* The user interrupts the client.
ClientDies == \E c \in Clients :
  /\ client[c] = "waiting"
  /\ client' = [client EXCEPT ![c] = "dead"]
  /\ UNCHANGED <<now, sentAt, socket, accepted, worker, runner, stopping, compositor, starts>>

-----------------------------------------------------------------------------
(* The worker thread.                                                      *)

\* send_response reaches the clients that still wait.
Respond(answers) ==
  client' = [c \in Clients |-> IF c \in DOMAIN answers /\ client[c] = "waiting"
                               THEN answers[c] ELSE client[c]]

\* Mutant: a timeout is called an expiry.
AnswerExpired(c) == IF reply[c] = "dropped" THEN "stopped"
                    ELSE IF reply[c] # "open" THEN reply[c] ELSE "expired"

Answer(c) == IF reply[c] = "dropped" THEN "stopped"
             ELSE IF reply[c] # "open" THEN reply[c] ELSE "timed out"

\* Mutant: the deadline is left to the runner.
AnswerableOnResult(c) == reply[c] # "open"

Answerable(c) == reply[c] # "open" \/ now >= deadline[c]

\* The top of the loop: every pending request with a result or past its deadline.
WorkerReplies ==
  /\ worker = "reply" /\ ~stopping
  /\ LET done == {c \in pending : Answerable(c)}
     IN /\ Respond([c \in done |-> Answer(c)])
        /\ pending' = pending \ done
  /\ worker' = "receive"
  /\ UNCHANGED <<now, sentAt, socket, queue, deadline, reply, runner, stopping,
                 compositor, starts>>

\* One datagram.  A client that is gone is ignored; one that is foreign, of another
\* identity or malformed, is answered at once; a runner that has ended takes no more
\* instructions.
WorkerReceives == \E foreign \in BOOLEAN :
  /\ worker = "receive" /\ socket # <<>>
  /\ socket' = Tail(socket)
  /\ worker' = "reply"
  /\ LET c == Head(socket)
     IN IF client[c] # "waiting"
        THEN UNCHANGED <<client, queue, pending, deadline, reply>>
        ELSE IF foreign \/ ~compositor
        THEN /\ Respond([d \in {c} |-> "mismatch"])
             /\ UNCHANGED <<queue, pending, deadline, reply>>
        ELSE IF runner.does = "ended"
        THEN /\ Respond([d \in {c} |-> "refused"])
             /\ UNCHANGED <<queue, pending, deadline, reply>>
        ELSE /\ queue' = Append(queue, c)
             /\ pending' = pending \cup {c}
             /\ deadline' = [deadline EXCEPT ![c] = now + ActionTimeout]
             /\ reply' = [reply EXCEPT ![c] = "open"]
             /\ UNCHANGED client
  /\ UNCHANGED <<now, sentAt, runner, stopping, compositor, starts>>

\* Mutant: the socket has no read timeout.
WorkerBlocks == FALSE

\* recv_from times out after IO_TIMEOUT.
WorkerIdles ==
  /\ worker = "receive" /\ socket = <<>>
  /\ worker' = "reply"
  /\ UNCHANGED <<now, requests, accepted, runner, stopping, compositor, starts>>

\* The loop ends: the rest is told so, and the socket is removed with its datagrams.
WorkerStops ==
  /\ worker = "reply" /\ stopping
  /\ Respond([c \in pending |-> "shutting down"])
  /\ pending' = {}
  /\ socket' = <<>>
  /\ worker' = "stopped"
  /\ UNCHANGED <<now, sentAt, queue, deadline, reply, runner, stopping, compositor, starts>>

-----------------------------------------------------------------------------
(* The runner.                                                             *)

\* recv_timeout hands out the next instruction, and the time is read.
RunnerTakes ==
  /\ runner.does = "wait" /\ queue # <<>> /\ Head(queue) # Quit
  /\ runner' = [does |-> "judge", for |-> Head(queue), at |-> now]
  /\ queue' = Tail(queue)
  /\ UNCHANGED <<now, requests, pending, deadline, reply, worker, stopping, compositor, starts>>

Rejection(c, at) == IF at >= deadline[c] THEN {"expired"}
                    ELSE IF ~compositor THEN {"replaced"} ELSE {}

\* A rejected request is answered through its channel; any other one is started.
RunnerJudges ==
  /\ runner.does = "judge"
  /\ LET c == runner.for
         rejection == Rejection(c, runner.at)
     IN IF rejection # {}
        THEN /\ reply' = [reply EXCEPT ![c] = CHOOSE r \in rejection : TRUE]
             /\ runner' = [does |-> "wait"]
             /\ UNCHANGED starts
        ELSE /\ runner' = [runner EXCEPT !.does = "run"]
             /\ starts' = [starts EXCEPT ![c] = @ + 1]
             /\ UNCHANGED reply
  /\ UNCHANGED <<now, requests, queue, pending, deadline, worker, stopping, compositor>>

\* The action ends and its report is sent.
RunnerReports == \E result \in Ran :
  /\ runner.does = "run"
  /\ reply' = [reply EXCEPT ![runner.for] = result]
  /\ runner' = [does |-> "wait"]
  /\ UNCHANGED <<now, requests, queue, pending, deadline, worker, stopping, compositor, starts>>

\* Quit ends run_runtime, which drops the queue and with it the reply channels.
RunnerEnds ==
  /\ runner.does = "wait" /\ queue # <<>> /\ Head(queue) = Quit
  /\ runner' = [does |-> "ended"]
  /\ queue' = <<>>
  /\ reply' = [c \in Clients |-> IF \E i \in DOMAIN queue : queue[i] = c
                                 THEN "dropped" ELSE reply[c]]
  /\ UNCHANGED <<now, requests, pending, deadline, worker, stopping, compositor, starts>>

\* The session drops its server, which waits for the worker.
ServerDrops ==
  /\ runner.does = "ended" /\ ~stopping
  /\ stopping' = TRUE
  /\ UNCHANGED <<now, requests, accepted, worker, runner, compositor, starts>>

-----------------------------------------------------------------------------
(* The rest of the world.                                                  *)

UserQuits ==
  /\ runner.does \in {"wait", "judge", "run"}
  /\ \A i \in DOMAIN queue : queue[i] # Quit
  /\ queue' = Append(queue, Quit)
  /\ UNCHANGED <<now, requests, pending, deadline, reply, worker, runner, stopping,
                 compositor, starts>>

SessionCrashes ==
  /\ worker \in {"reply", "receive"}
  /\ worker' = "killed" /\ runner' = [does |-> "killed"]
  /\ socket' = <<>> /\ queue' = <<>> /\ pending' = {}
  /\ UNCHANGED <<now, client, sentAt, deadline, reply, stopping, compositor, starts>>

CompositorReplaced ==
  /\ compositor
  /\ compositor' = FALSE
  /\ UNCHANGED <<now, requests, accepted, worker, runner, stopping, starts>>

WorkerKeepsUp ==
  worker \in {"reply", "receive"} =>
    ~stopping /\ socket = <<>> /\ \A c \in pending : ~Answerable(c)

Tick ==
  /\ now < MaxNow
  /\ WorkerKeepsUp
  /\ now' = now + 1
  /\ UNCHANGED <<requests, accepted, worker, runner, stopping, compositor, starts>>

DispatchInit ==
  /\ now = 0
  /\ client = [c \in Clients |-> "idle"]
  /\ sentAt = [c \in Clients |-> 0]
  /\ socket = <<>> /\ queue = <<>> /\ pending = {}
  /\ deadline = [c \in Clients |-> 0]
  /\ reply = [c \in Clients |-> "none"]
  /\ worker = "reply" /\ runner = [does |-> "wait"]
  /\ stopping = FALSE /\ compositor = TRUE
  /\ starts = [c \in Clients |-> 0]

DispatchNext ==
  \/ Send \/ GiveUp \/ ClientDies
  \/ WorkerReplies \/ WorkerReceives \/ WorkerIdles \/ WorkerStops
  \/ RunnerTakes \/ RunnerJudges \/ RunnerReports \/ RunnerEnds \/ ServerDrops
  \/ UserQuits \/ SessionCrashes \/ CompositorReplaced \/ Tick

\* Both threads are scheduled, and adapters return.
DispatchFairness ==
  /\ WF_dispatchVars(WorkerReplies \/ WorkerReceives \/ WorkerIdles \/ WorkerStops)
  /\ WF_dispatchVars(RunnerTakes \/ RunnerJudges \/ RunnerReports \/ RunnerEnds \/ ServerDrops)

DispatchSpec == DispatchInit /\ [][DispatchNext]_dispatchVars
FairDispatchSpec == DispatchSpec /\ DispatchFairness

-----------------------------------------------------------------------------
\* What a client is told is so, then and later: "no action was run", "before
\* dispatch" and every refusal mean that the action never runs; a report means
\* that it ran; no request runs twice.
TruthfulAnswers ==
  \A c \in Clients : /\ client[c] \in NothingRan => starts[c] = 0
                     /\ client[c] \in Ran => starts[c] = 1
                     /\ starts[c] <= 1

\* "Every queued action gets its deadline before the client times out": a client
\* waits in vain only if the session crashed, or stopped before it received the
\* request.
AnsweredInTime ==
  \A c \in Clients : client[c] = "no response" =>
    worker = "killed" \/ (worker = "stopped" /\ deadline[c] = 0)

\* Quitting ends the session whatever is queued, pending or arriving.
QuitEnds ==
  (\E i \in DOMAIN queue : queue[i] = Quit) ~> worker \in {"stopped", "killed"}

\* Answers are true, and everything that carries them keeps its type.
AnswersAreTrue == DispatchTypeOK /\ TruthfulAnswers
=============================================================================
