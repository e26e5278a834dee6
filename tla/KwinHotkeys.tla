----------------------------- MODULE KwinHotkeys -----------------------------
(***************************************************************************)
(* Hotkeys on KDE: the App's KwinHotkeySystem (kwin_integration/client.rs),*)
(* the companion service (companion.rs, server.rs, kglobalaccel.rs) and    *)
(* the script inside KWin (kwin-script/contents/code/main.js), each of     *)
(* which can stop, stall and come back without the others.                 *)
(*                                                                         *)
(* The companion handles one D-Bus message at a time, in the order of      *)
(* inbox.  The App blocks in its calls, so a call is one step, unless it   *)
(* is given up: then it stays in the inbox and is handled late.  The       *)
(* script's calls are asynchronous; KWin drops the callback of a call that *)
(* fails, and heard says of a call in flight whether its callback would    *)
(* still be acted on.  A set of hotkeys is a set of keys.                  *)
(*                                                                         *)
(* Whatever goes wrong beyond the protocol's own doing is a Mishap: a      *)
(* crash, a conflict, or a Stall of something that goes on.  There are at  *)
(* most MaxFaults of them; starting an App beside another counts as one.   *)
(***************************************************************************)
EXTENDS Integers, Sequences, FiniteSets, SequencesExt

CONSTANTS
  Apps,          \* App processes
  Keys,          \* accelerators
  Sets,          \* the hotkey sets of the configs
  Contested,     \* accelerators that other programs take now and then
  Connections,   \* unique bus names of App connections, reused when forgotten
  ScriptNames,   \* unique bus names of KWin processes, reused when forgotten
  None,          \* no name, and "nothing known to be registered"
  MaxFaults      \* bound on the faults

ASSUME ConstantsOK ==
  /\ Sets \subseteq SUBSET Keys
  /\ Contested \subseteq Keys
  /\ Connections \cap ScriptNames = {}
  /\ None \notin Connections \cup ScriptNames
  /\ \A keys \in SUBSET Keys : None # keys
  /\ MaxFaults \in Nat

VARIABLES
  app,         \* each App: its connection, what it does, and the set it believes held
  companion,   \* CompanionState
  script,      \* the variables of main.js, and the bus name of KWin
  grabs,       \* the keys KGlobalAccel has grabbed for the script's actions
  taken,       \* the keys other programs own
  inbox,       \* messages on their way to the companion
  faults,      \* how many faults there were
  mishaps      \* history variable: of what kinds, besides crashes

vars == <<app, companion, script, grabs, taken, inbox, faults, mishaps>>
native == <<grabs, taken>>

Ids == Nat \ {0}
Answers == {"ok", "rejected", "unavailable"}
NoPoll == [sender |-> None, heard |-> FALSE]
NoUpdate == [id |-> 0, set |-> {}, assign |-> {}, clear |-> {}, checked |-> FALSE]

Request == [id : Ids, set : SUBSET Keys, controller : Connections \cup {None},
            claimed : BOOLEAN]
Message ==
  [kind : {"register"}, sender : ScriptNames, reset : BOOLEAN, heard : BOOLEAN]
  \cup [kind : {"next"}, sender : ScriptNames, heard : BOOLEAN]
  \cup [kind : {"set"}, sender : ScriptNames, key : Keys, grab : BOOLEAN, heard : BOOLEAN]
  \cup [kind : {"complete"}, sender : ScriptNames, id : Ids, answer : Answers]
  \cup [kind : {"call"}, sender : Connections, app : Apps, set : SUBSET Keys]
  \cup [kind : {"lost"}, sender : Connections, app : Apps]
  \cup [kind : {"lost"}, sender : ScriptNames]

TypeOK ==
  /\ app \in [Apps -> [conn : Connections \cup {None}, held : {None} \cup SUBSET Keys,
                       doing : {"idle", "waiting", "quitting", "gone"},
                       id : Ids \cup {0}, set : SUBSET Keys]]
  /\ companion \in [up : BOOLEAN, script : ScriptNames \cup {None}, fresh : BOOLEAN,
                    controller : Connections \cup {None}, requests : Seq(Request),
                    results : SUBSET [id : Ids, answer : Answers], issued : SUBSET Ids,
                    registered : SUBSET Keys,
                    poll : [sender : ScriptNames \cup {None}, heard : BOOLEAN]]
  /\ script \in [name : ScriptNames \cup {None}, on : BOOLEAN, polling : BOOLEAN,
                 update : [id : Ids \cup {0}, set : SUBSET Keys, assign : SUBSET Keys,
                           clear : SUBSET Keys, checked : BOOLEAN],
                 active : SUBSET Keys, actions : SUBSET Keys]
  /\ grabs \subseteq Keys
  /\ taken \subseteq Contested
  /\ inbox \in Seq(Message)
  /\ faults \in 0 .. MaxFaults
  /\ mishaps \subseteq {"stall", "conflict"}

Calm == UNCHANGED <<faults, mishaps>>
Mishap(kinds, cost) ==
  /\ faults + cost <= MaxFaults
  /\ faults' = faults + cost
  /\ mishaps' = mishaps \cup kinds
Fault == Mishap({}, 1)
Stall == Mishap({"stall"}, 1)

\* What reaches the companion: nothing, while there is none.
Posted(messages) == IF companion.up THEN inbox \o messages ELSE inbox

-----------------------------------------------------------------------------
(* CompanionState.  Each operator returns the state after the method.      *)

Started == [up |-> TRUE, script |-> None, fresh |-> FALSE, controller |-> None,
            requests |-> <<>>, results |-> {}, issued |-> {}, registered |-> {},
            poll |-> NoPoll]

Ready(c) == c.script # None /\ c.fresh

Cleared(c) == [c EXCEPT !.requests = <<>>, !.results = {}, !.registered = {}]

\* ensure_ready: what is left when it fails.
EnsureReady(c) == IF Ready(c) THEN c ELSE [Cleared(c) EXCEPT !.script = None]

\* next_request_id.  The code counts to 2^32; here the ids that this companion has
\* issued and nobody remembers any more come round again.
Remembered(c) == {c.requests[i].id : i \in DOMAIN c.requests}
                 \cup {app[a].id : a \in Apps} \cup {script.update.id}
                 \cup {inbox[i].id : i \in {j \in DOMAIN inbox : inbox[j].kind = "complete"}}

NextId(c) == LET used == c.issued \cap Remembered(c)
             IN CHOOSE id \in 1 .. Cardinality(used) + 1 : id \notin used

EnqueueHotkeys(c, set) ==
  [c EXCEPT !.issued = (@ \cap Remembered(c)) \cup {NextId(c)},
            !.results = {r \in @ : r.id # NextId(c)},
            !.requests = Append(@, [id |-> NextId(c), set |-> set,
                                    controller |-> c.controller, claimed |-> FALSE])]

\* A new or reset script starts over; what it had, or nothing, is restored.
MarkReady(c, sender, reset) ==
  IF ~reset /\ c.script = sender THEN [c EXCEPT !.fresh = TRUE]
  ELSE LET t == [Cleared(c) EXCEPT !.script = sender, !.fresh = TRUE, !.poll = NoPoll]
       IN IF c.registered # {} \/ ~reset THEN EnqueueHotkeys(t, c.registered) ELSE t

OwnerLost(c, owner) ==
  IF c.script = owner THEN [Cleared(c) EXCEPT !.script = None]
  ELSE IF c.controller = owner
  THEN LET t == [Cleared(c) EXCEPT !.controller = None]
       IN IF c.script # None THEN EnqueueHotkeys(t, {}) ELSE t
  ELSE c

Authorized(c, sender) == c.controller \in {None, sender}

RegisterHotkeys(c, sender, set) ==
  EnqueueHotkeys([c EXCEPT !.controller = sender], set)

EnsureScript(c, sender) == Ready(c) /\ c.script = sender

Unclaimed(c) == {i \in DOMAIN c.requests : ~c.requests[i].claimed}
FirstUnclaimed(c) == CHOOSE i \in Unclaimed(c) : \A j \in Unclaimed(c) : i <= j

Claimed(c, id) == {i \in DOMAIN c.requests : c.requests[i].id = id /\ c.requests[i].claimed}

\* Results nobody waits for are left out: no later request has their ids.
Awaited(id) == \E a \in Apps : app[a].doing \in {"waiting", "quitting"} /\ app[a].id = id

\* Mutant: an empty set releases whoever is the controller by then.
CompleteReleasing(c, id, answer) ==
  LET index == CHOOSE i \in Claimed(c, id) : TRUE
      request == c.requests[index]
      t == [c EXCEPT !.requests = RemoveAt(@, index),
                     !.results = IF Awaited(id) THEN @ \cup {[id |-> id, answer |-> answer]}
                                 ELSE @]
  IN IF answer # "ok" THEN t
     ELSE [t EXCEPT !.registered = request.set,
                    !.controller = IF request.set = {} THEN None ELSE @]

\* Mutant: the error of a failed update is not kept with its result.
CompleteErrorless(c, id, answer) ==
  LET index == CHOOSE i \in Claimed(c, id) : TRUE
      request == c.requests[index]
      releases == request.set = {} /\ c.controller = request.controller
      t == [c EXCEPT !.requests = RemoveAt(@, index),
                     !.results = IF Awaited(id) THEN @ \cup {[id |-> id, answer |-> "ok"]}
                                 ELSE @]
  IN IF answer # "ok" THEN t
     ELSE [t EXCEPT !.registered = request.set,
                    !.controller = IF releases THEN None ELSE @]

CompleteRequest(c, id, answer) ==
  LET index == CHOOSE i \in Claimed(c, id) : TRUE
      request == c.requests[index]
      releases == request.set = {} /\ c.controller = request.controller
      t == [c EXCEPT !.requests = RemoveAt(@, index),
                     !.results = IF Awaited(id) THEN @ \cup {[id |-> id, answer |-> answer]}
                                 ELSE @]
  IN IF answer # "ok" THEN t
     ELSE [t EXCEPT !.registered = request.set,
                    !.controller = IF releases THEN None ELSE @]

-----------------------------------------------------------------------------
(* main.js.  A continuation runs on the script and what it sends, which    *)
(* Continue then commits.                                                  *)

Idle(s) == [script |-> s, out |-> <<>>]

Continue(pending, r) ==
  /\ script' = r.script
  /\ inbox' = IF companion.up THEN pending \o r.out ELSE pending

PollRequests(r) ==
  IF r.script.polling THEN r
  ELSE [script |-> [r.script EXCEPT !.polling = TRUE],
        out |-> Append(r.out, [kind |-> "next", sender |-> r.script.name, heard |-> TRUE])]

\* finish of processRequest: report, then poll again.
FinishUpdate(r, answer) ==
  LET update == r.script.update
      done == [r.script EXCEPT !.update = NoUpdate, !.polling = FALSE,
                               !.active = IF answer = "ok" THEN update.set ELSE @]
  IN PollRequests([script |-> done,
                   out |-> Append(r.out, [kind |-> "complete", sender |-> done.name,
                                          id |-> update.id, answer |-> answer])])

\* Mutant: only keys that are not believed active are assigned again.
ConfigureMissing(r) ==
  LET update == r.script.update
      assign == update.assign \ r.script.active
      keys == IF assign # {} THEN assign ELSE update.clear
  IN IF keys = {} THEN FinishUpdate(r, "ok")
     ELSE [script |-> [r.script EXCEPT !.update.assign = assign],
           out |-> Append(r.out, [kind |-> "set", sender |-> r.script.name,
                                  key |-> CHOOSE key \in keys : TRUE,
                                  grab |-> assign # {}, heard |-> TRUE])]

\* configure: the next key, first those to assign, then those to clear.
Configure(r) ==
  LET update == r.script.update
      keys == IF update.assign # {} THEN update.assign ELSE update.clear
  IN IF keys = {} THEN FinishUpdate(r, "ok")
     ELSE [r EXCEPT !.out = Append(@, [kind |-> "set", sender |-> r.script.name,
                                       key |-> CHOOSE key \in keys : TRUE,
                                       grab |-> update.assign # {}, heard |-> TRUE])]

\* The callback of NextRequest, if it is still acted on.
PollAnswered(heard, c) ==
  CASE heard /\ Unclaimed(c) # {} ->
         LET request == c.requests[FirstUnclaimed(c)]
         IN Idle([script EXCEPT !.update = [NoUpdate EXCEPT !.id = request.id,
                                                            !.set = request.set]])
    [] heard /\ Unclaimed(c) = {} -> PollRequests(Idle([script EXCEPT !.polling = FALSE]))
    [] OTHER -> Idle(script)

\* Calls whose callbacks the script no longer acts on.
Unheard(messages, kinds) ==
  [i \in DOMAIN messages |->
     IF messages[i].kind \in kinds THEN [messages[i] EXCEPT !.heard = FALSE]
     ELSE messages[i]]

PollOutstanding ==
  companion.poll.heard \/ \E i \in DOMAIN inbox : inbox[i].kind = "next" /\ inbox[i].heard
RegisterOutstanding == \E i \in DOMAIN inbox : inbox[i].kind = "register" /\ inbox[i].heard
SetOutstanding == \E i \in DOMAIN inbox : inbox[i].kind = "set" /\ inbox[i].heard

Register(reset) ==
  [kind |-> "register", sender |-> script.name, reset |-> reset, heard |-> TRUE]

\* KGlobalAccel tells who owns the keys; then the missing actions are made,
\* which may grab keys already, and the keys are configured one by one.
OwnersChecked ==
  /\ script.update.id # 0
  /\ ~script.update.checked
  /\ script.update.set \cap taken = {}
  /\ \E early \in SUBSET (script.update.set \ script.actions) :
       LET actions == script.actions \cup script.update.set
           s == [script EXCEPT !.actions = actions, !.update.checked = TRUE,
                               !.update.assign = script.update.set,
                               !.update.clear = actions \ script.update.set]
       IN /\ grabs' = grabs \cup early
          /\ Continue(inbox, Configure(Idle(s)))
  /\ Calm
  /\ UNCHANGED <<app, companion, taken>>

OwnersConflict ==
  /\ script.update.id # 0
  /\ ~script.update.checked
  /\ script.update.set \cap taken # {}
  /\ Continue(inbox, FinishUpdate(Idle(script), "rejected"))
  /\ Calm
  /\ UNCHANGED <<app, companion, native>>

\* The 750 ms timer of registerHotkeys.
UpdateTimesOut ==
  /\ script.update.id # 0
  /\ IF script.update.checked /\ ~SetOutstanding THEN Calm ELSE Stall
  /\ Continue(Unheard(inbox, {"set"}), FinishUpdate(Idle(script), "unavailable"))
  /\ UNCHANGED <<app, companion, native>>

\* Mutant: a poll whose callback was dropped is waited for all the same.
RetryUnlessPolling ==
  /\ script.on
  /\ script.update.id = 0
  /\ ~script.polling
  /\ IF PollOutstanding \/ RegisterOutstanding THEN Stall ELSE Calm
  /\ Continue(inbox, [script |-> script, out |-> <<Register(FALSE)>>])
  /\ UNCHANGED <<app, companion, native>>

\* retryCompanion, every two seconds: "Recover a lost poll, never duplicate a
\* healthy one."  A call that is still outstanding after three is a Stall.
RetryCompanion ==
  /\ script.on
  /\ script.update.id = 0
  /\ IF PollOutstanding \/ RegisterOutstanding THEN Stall ELSE Calm
  /\ Continue(Unheard(inbox, {"next"}), [script |-> [script EXCEPT !.polling = FALSE],
                                         out |-> <<Register(FALSE)>>])
  /\ companion' = [companion EXCEPT !.poll.heard = FALSE]
  /\ UNCHANGED <<app, native>>

-----------------------------------------------------------------------------
(* KWin, with the script engine and KGlobalAccel inside.                   *)

\* What a script that ends leaves in flight; its actions and their grabs go.
ScriptEnds(name, announcement) ==
  /\ script' = [script EXCEPT !.on = FALSE, !.name = name, !.polling = FALSE,
                              !.update = NoUpdate, !.active = {}, !.actions = {}]
  /\ grabs' = {}
  /\ inbox' = Unheard(inbox, {"register", "next", "set"})
                \o (IF companion.up THEN announcement ELSE <<>>)
  /\ companion' = [companion EXCEPT !.poll.heard = FALSE]
  /\ UNCHANGED <<app, taken>>

\* The script is switched off, or reloaded: its bus name is KWin's and stays.
ScriptUnloads ==
  /\ script.on
  /\ Fault
  /\ ScriptEnds(script.name, <<>>)

KwinDies ==
  /\ script.name # None
  /\ Fault
  /\ ScriptEnds(None, <<[kind |-> "lost", sender |-> script.name]>>)

\* main.js from the top.
ScriptLoads ==
  LET used == {companion.script} \cup {inbox[i].sender : i \in DOMAIN inbox}
      name == IF script.name # None THEN script.name
              ELSE CHOOSE n \in ScriptNames : n \notin used
  IN /\ ~script.on
     /\ script.name # None \/ ScriptNames \ used # {}
     /\ script' = [script EXCEPT !.on = TRUE, !.name = name]
     /\ inbox' = Posted(<<[kind |-> "register", sender |-> name, reset |-> TRUE,
                           heard |-> TRUE]>>)
     /\ Calm
     /\ UNCHANGED <<app, companion, native>>

KeyTaken == \E key \in Contested \ (grabs \cup taken) :
  /\ Mishap({"conflict"}, 1)
  /\ taken' = taken \cup {key}
  /\ UNCHANGED <<app, companion, script, grabs, inbox>>

KeyFreed == \E key \in taken :
  /\ taken' = taken \ {key}
  /\ Calm
  /\ UNCHANGED <<app, companion, script, grabs, inbox>>

-----------------------------------------------------------------------------
(* The companion's loop: the next message, or the reply it has deferred.   *)

Handling(kind) ==
  /\ companion.up
  /\ inbox # <<>>
  /\ Head(inbox).kind = kind

\* The App's poll for presses fails now.
PollFails(a) ==
  \/ ~companion.up
  \/ ~Ready(companion)
  \/ companion.controller \notin {None, app[a].conn}
  \/ companion.controller # None /\ companion.registered = {}

\* So does its poll for the result of a request.
WaitFails(a) ==
  \/ ~companion.up
  \/ ~Ready(companion)
  \/ /\ \A r \in companion.results : r.id # app[a].id
     /\ \A i \in DOMAIN companion.requests : companion.requests[i].id # app[a].id

\* The App waits for or holds hotkeys and does not know yet that they are lost.
Unaware(a) ==
  \/ app[a].doing = "idle" /\ app[a].held # None /\ PollFails(a)
  \/ app[a].doing = "waiting" /\ WaitFails(a)

\* An App polls every 50 ms for presses while it holds hotkeys, and every 10 ms for
\* a result, while the script retries every two seconds: an App meets an outage
\* before a retry, a new companion or a new KWin can repair it.  Only the reload of
\* a script that the companion knows can outrun it.
AppKeepsUp == \A a \in Apps : ~Unaware(a)

HandleRegister ==
  /\ Handling("register")
  /\ AppKeepsUp \/ (Head(inbox).reset /\ companion.script = Head(inbox).sender)
  /\ companion' = MarkReady(companion, Head(inbox).sender, Head(inbox).reset)
  /\ Continue(Tail(inbox), IF Head(inbox).heard THEN PollRequests(Idle(script))
                           ELSE Idle(script))
  /\ Calm
  /\ UNCHANGED <<app, native>>

\* next_request for a poll that can be answered, with the first unclaimed request
\* or with none; the companion hears from the script.
AnswerPoll(c, pending, heard) ==
  /\ companion' = IF Unclaimed(c) = {} THEN c
                  ELSE [c EXCEPT !.requests[FirstUnclaimed(c)].claimed = TRUE]
  /\ Continue(pending, PollAnswered(heard, c))

HandleNext ==
  LET m == Head(inbox)
      seen == [companion EXCEPT !.fresh = TRUE]
  IN /\ Handling("next")
     /\ \/ /\ ~EnsureScript(companion, m.sender)
           /\ companion' = EnsureReady(companion)
           /\ Continue(Tail(inbox), Idle(script))
        \/ /\ EnsureScript(companion, m.sender)
           /\ companion.poll # NoPoll
           /\ Continue(Tail(inbox), Idle(script))
           /\ UNCHANGED companion
        \/ /\ EnsureScript(companion, m.sender)
           /\ companion.poll = NoPoll
           /\ Unclaimed(companion) # {}
           /\ AnswerPoll(seen, Tail(inbox), m.heard)
        \/ /\ EnsureScript(companion, m.sender)
           /\ companion.poll = NoPoll
           /\ Unclaimed(companion) = {}
           /\ companion' = [seen EXCEPT !.poll = [sender |-> m.sender, heard |-> m.heard]]
           /\ Continue(Tail(inbox), Idle(script))
     /\ Calm
     /\ UNCHANGED <<app, native>>

\* take_next_request_reply: at once for a request, after a second for none.
AnswerDeferred ==
  LET c == [companion EXCEPT !.poll = NoPoll]
  IN /\ companion.up
     /\ companion.poll # NoPoll
     /\ \/ /\ ~EnsureScript(c, companion.poll.sender)
           /\ companion' = EnsureReady(c)
           /\ UNCHANGED <<script, inbox>>
        \/ /\ EnsureScript(c, companion.poll.sender)
           /\ AnswerPoll(c, inbox, companion.poll.heard)
     /\ Calm
     /\ UNCHANGED <<app, native>>

HandleComplete ==
  LET m == Head(inbox)
  IN /\ Handling("complete")
     /\ companion' = IF ~EnsureScript(companion, m.sender) THEN EnsureReady(companion)
                     ELSE IF Claimed(companion, m.id) = {} THEN companion
                     ELSE CompleteRequest(companion, m.id, m.answer)
     /\ inbox' = Tail(inbox)
     /\ Calm
     /\ UNCHANGED <<app, script, native>>

\* set_shortcut: KGlobalAccel is told the key and asked whether it took it.  A
\* failure may leave either, and is not reported to the script's callback.
HandleSet ==
  LET m == Head(inbox)
      applied == IF m.grab THEN grabs \cup {m.key} ELSE grabs \ {m.key}
      can == m.sender = script.name /\ m.key \in script.actions /\ (m.grab => m.key \notin taken)
      rest == [script EXCEPT !.update.assign = @ \ {m.key}, !.update.clear = @ \ {m.key}]
  IN /\ Handling("set")
     /\ \/ /\ ~EnsureScript(companion, m.sender)
           /\ companion' = EnsureReady(companion)
           /\ Continue(Tail(inbox), Idle(script))
           /\ Calm
           /\ UNCHANGED grabs
        \/ /\ EnsureScript(companion, m.sender)
           /\ can
           /\ grabs' = applied
           /\ Continue(Tail(inbox), IF m.heard THEN Configure(Idle(rest)) ELSE Idle(script))
           /\ Calm
           /\ UNCHANGED companion
        \/ /\ EnsureScript(companion, m.sender)
           /\ ~can
           /\ Continue(Tail(inbox), Idle(script))
           /\ Calm
           /\ UNCHANGED <<companion, grabs>>
        \/ /\ EnsureScript(companion, m.sender)
           /\ can
           /\ Stall
           /\ grabs' \in {grabs, applied}
           /\ Continue(Tail(inbox), Idle(script))
           /\ UNCHANGED companion
     /\ UNCHANGED <<app, taken>>

\* A RegisterHotkeys whose caller has given up.
HandleLateCall ==
  LET m == Head(inbox)
  IN /\ Handling("call")
     /\ companion' = IF Ready(companion) /\ Authorized(companion, m.sender)
                     THEN RegisterHotkeys(companion, m.sender, m.set)
                     ELSE EnsureReady(companion)
     /\ inbox' = Tail(inbox)
     /\ Calm
     /\ UNCHANGED <<app, script, native>>

HandleLost ==
  /\ Handling("lost")
  /\ companion' = OwnerLost(companion, Head(inbox).sender)
  /\ inbox' = Tail(inbox)
  /\ Calm
  /\ UNCHANGED <<app, script, native>>

\* More than five seconds without a word from the script.
HeartbeatExpires ==
  /\ Ready(companion)
  /\ Stall
  /\ companion' = [companion EXCEPT !.fresh = FALSE]
  /\ UNCHANGED <<app, script, native, inbox>>

CompanionDies ==
  /\ companion.up
  /\ Fault
  /\ companion' = [Started EXCEPT !.up = FALSE]
  /\ inbox' = <<>>
  /\ UNCHANGED <<app, script, native>>

CompanionStarts ==
  /\ ~companion.up
  /\ companion' = Started
  /\ Calm
  /\ UNCHANGED <<app, script, native, inbox>>

-----------------------------------------------------------------------------
(* KwinHotkeySystem.  A call of an App is handled after all that it sent   *)
(* before.                                                                 *)

Quiet(a) == \A i \in DOMAIN inbox :
              inbox[i].kind = "call" \/ (inbox[i].kind = "lost" /\ inbox[i].sender \in Connections)
                => inbox[i].app # a

InUse == {app[a].conn : a \in Apps} \cup {companion.controller}
         \cup {inbox[i].sender : i \in DOMAIN inbox}
         \cup {companion.requests[i].controller : i \in DOMAIN companion.requests}
FreshConnection == CHOOSE c \in Connections : c \notin InUse
ConnectionOf(a) == IF app[a].conn # None THEN app[a].conn ELSE FreshConnection
CanConnect(a) == app[a].conn # None \/ Connections \ InUse # {}

\* The companion has nothing to forget of a connection that does not control it.
Announced(a, c) ==
  IF c # None /\ c = companion.controller
  THEN <<[kind |-> "lost", sender |-> c, app |-> a]>> ELSE <<>>

Forgotten(a, state) ==
  [app[a] EXCEPT !.conn = None, !.held = None, !.id = 0, !.set = {},
                 !.doing = IF state = "idle" /\ @ = "quitting" THEN "gone" ELSE state]

\* Unavailable: the connection is dropped, and nothing is known to be registered.
Disconnect(a, state) ==
  /\ app' = [app EXCEPT ![a] = Forgotten(a, state)]
  /\ inbox' = Posted(Announced(a, app[a].conn))

CallFails(a, state) ==
  /\ Disconnect(a, state)
  /\ companion' = IF companion.up THEN EnsureReady(companion) ELSE companion
  /\ Calm
  /\ UNCHANGED <<script, native>>

\* register_hotkeys up to the request id.
BeginRequest(a, set, doing) ==
  LET c == ConnectionOf(a)
  IN /\ CanConnect(a)
     /\ companion.up /\ Ready(companion) /\ Authorized(companion, c)
     /\ companion' = RegisterHotkeys(companion, c, set)
     /\ app' = [app EXCEPT ![a] = [@ EXCEPT !.conn = c, !.doing = doing, !.set = set,
                                            !.id = NextId(companion)]]
     /\ Calm
     /\ UNCHANGED <<script, native, inbox>>

AppRegisters(a) == \E set \in Sets :
  /\ app[a].doing = "idle"
  /\ Quiet(a)
  /\ app[a].held # set
  /\ BeginRequest(a, set, "waiting")

AppRegistersInVain(a) ==
  /\ app[a].doing = "idle"
  /\ Quiet(a)
  /\ ~companion.up \/ ~Ready(companion)
  /\ CallFails(a, "idle")

\* Another App controls the companion: Busy is Unavailable, on the same connection.
AppRegistersBusy(a) ==
  /\ app[a].doing = "idle"
  /\ Quiet(a)
  /\ CanConnect(a)
  /\ companion.up /\ Ready(companion) /\ ~Authorized(companion, ConnectionOf(a))
  /\ app' = [app EXCEPT ![a].conn = ConnectionOf(a), ![a].held = None]
  /\ Calm
  /\ UNCHANGED <<companion, script, native, inbox>>

\* No answer for a second: the call is in the inbox, its caller gone.
AppRegistersLate(a) == \E set \in Sets :
  LET c == ConnectionOf(a)
  IN /\ app[a].doing = "idle"
     /\ Quiet(a)
     /\ CanConnect(a)
     /\ companion.up
     /\ Stall
     /\ inbox' = inbox \o <<[kind |-> "call", sender |-> c, app |-> a, set |-> set],
                            [kind |-> "lost", sender |-> c, app |-> a]>>
     /\ app' = [app EXCEPT ![a] = Forgotten(a, "idle")]
     /\ UNCHANGED <<companion, script, native>>

Waiting(a) == app[a].doing \in {"waiting", "quitting"} /\ Quiet(a)
ResultsFor(a) == {r \in companion.results : r.id = app[a].id}
StillQueued(a) == \E i \in DOMAIN companion.requests : companion.requests[i].id = app[a].id

\* wait_for_request: the result ends the wait; so does a request that is unknown.
AppTakesResult(a) == \E r \in ResultsFor(a) :
  /\ Waiting(a)
  /\ companion.up /\ Ready(companion)
  /\ companion' = [companion EXCEPT !.results = @ \ {r}]
  /\ IF app[a].doing = "quitting" \/ r.answer = "unavailable"
     THEN Disconnect(a, "idle")
     ELSE /\ app' = [app EXCEPT ![a] = [@ EXCEPT !.doing = "idle", !.id = 0, !.set = {},
                       !.held = IF r.answer = "ok" THEN app[a].set ELSE app[a].held]]
          /\ UNCHANGED inbox
  /\ Calm
  /\ UNCHANGED <<script, native>>

AppLosesRequest(a) ==
  /\ Waiting(a)
  /\ WaitFails(a)
  /\ CallFails(a, "idle")

\* The request is under way, or will be: giving up on it after a second is a Stall.
Expected(a) ==
  \/ script.update.id = app[a].id
  \/ \E i \in DOMAIN inbox : inbox[i].kind = "complete" /\ inbox[i].id = app[a].id
  \/ /\ \E i \in Unclaimed(companion) : companion.requests[i].id = app[a].id
     /\ script.update.id # 0 \/ PollOutstanding \/ RegisterOutstanding

AppGivesUp(a) ==
  /\ app[a].doing \in {"waiting", "quitting"}
  /\ companion.up /\ Ready(companion) /\ StillQueued(a)
  /\ IF Expected(a) THEN Stall ELSE Calm
  /\ Disconnect(a, "idle")
  /\ UNCHANGED <<companion, script, native>>

\* next_hotkey, called while a set is registered: only a failure changes anything.
AppPolls(a) ==
  /\ app[a].doing = "idle"
  /\ app[a].held # None
  /\ Quiet(a)
  /\ PollFails(a)
  /\ CallFails(a, "idle")

\* Drop releases the keys and waits for it, as far as that is possible.
AppQuits(a) ==
  /\ app[a].doing = "idle"
  /\ Quiet(a)
  /\ app[a].conn # None
  /\ BeginRequest(a, {}, "quitting")

AppQuitsAtOnce(a) ==
  /\ app[a].doing = "idle"
  /\ Quiet(a)
  /\ \/ app[a].conn = None
     \/ ~companion.up \/ ~Ready(companion) \/ ~Authorized(companion, app[a].conn)
  /\ CallFails(a, "gone")

AppDies(a) ==
  /\ app[a].doing # "gone"
  /\ Fault
  /\ Disconnect(a, "gone")
  /\ UNCHANGED <<companion, script, native>>

AppStarts(a) ==
  /\ app[a].doing = "gone"
  /\ app' = [app EXCEPT ![a].doing = "idle"]
  /\ IF \A b \in Apps : app[b].doing = "gone" THEN Calm ELSE Mishap({}, 1)
  /\ UNCHANGED <<companion, script, native, inbox>>

-----------------------------------------------------------------------------
Init ==
  /\ \E first \in Apps :
       app = [a \in Apps |-> [conn |-> None, held |-> None, id |-> 0, set |-> {},
                              doing |-> IF a = first THEN "idle" ELSE "gone"]]
  /\ companion = Started
  /\ script = [name |-> None, on |-> FALSE, polling |-> FALSE, update |-> NoUpdate,
               active |-> {}, actions |-> {}]
  /\ grabs = {}
  /\ taken = {}
  /\ inbox = <<>>
  /\ faults = 0
  /\ mishaps = {}

AppNext(a) ==
  \/ AppRegisters(a)
  \/ AppRegistersInVain(a)
  \/ AppRegistersBusy(a)
  \/ AppRegistersLate(a)
  \/ AppTakesResult(a)
  \/ AppLosesRequest(a)
  \/ AppGivesUp(a)
  \/ AppPolls(a)
  \/ AppQuits(a)
  \/ AppQuitsAtOnce(a)
  \/ AppDies(a)
  \/ AppStarts(a)

Handle ==
  \/ HandleRegister
  \/ HandleNext
  \/ HandleComplete
  \/ HandleSet
  \/ HandleLateCall
  \/ HandleLost

CompanionNext == Handle \/ AnswerDeferred \/ HeartbeatExpires \/ CompanionDies \/ CompanionStarts

ScriptNext == OwnersChecked \/ OwnersConflict \/ UpdateTimesOut \/ RetryCompanion

KwinNext == ScriptUnloads \/ ScriptLoads \/ KwinDies \/ KeyTaken \/ KeyFreed

Next == (\E a \in Apps : AppNext(a)) \/ CompanionNext \/ ScriptNext \/ KwinNext

Spec == Init /\ [][Next]_vars

\* Whoever runs goes on, and what stopped is started again; no Mishap is ever due.
Fairness ==
  /\ WF_vars(Calm /\ Handle)
  /\ WF_vars(AnswerDeferred)
  /\ WF_vars(CompanionStarts)
  /\ WF_vars(OwnersChecked \/ OwnersConflict)
  /\ WF_vars(Calm /\ UpdateTimesOut)
  /\ WF_vars(Calm /\ RetryCompanion)
  /\ WF_vars(ScriptLoads)
  /\ \A a \in Apps :
       /\ WF_vars(AppRegisters(a) \/ AppRegistersInVain(a) \/ AppRegistersBusy(a))
       /\ WF_vars(AppTakesResult(a) \/ AppLosesRequest(a))
       /\ WF_vars(Calm /\ AppGivesUp(a))
       /\ WF_vars(AppPolls(a))
FairSpec == Spec /\ Fairness

-----------------------------------------------------------------------------
(* Safety.                                                                 *)

\* The App holds hotkeys, and its polls succeed.
Served(a) ==
  /\ app[a].doing = "idle" /\ app[a].held \notin {None, {}}
  /\ Quiet(a) /\ ~PollFails(a)

\* An App polls without an error only while it is heard: when it holds hotkeys
\* and its polls succeed, the companion knows it as the controller and has
\* registered exactly its set.  A loss is never silent.
NoSilentLoss ==
  \A a \in Apps : Served(a) => /\ companion.controller = app[a].conn
                               /\ companion.registered = app[a].held

\* The code keeps to that as long as no registration is refused for a conflict,
\* whatever crashes, stalls, or competes for the companion.
NoSilentLossUnrefused == "conflict" \notin mishaps => NoSilentLoss

\* The set a served App holds, after whatever updates failed, timed out, were
\* refused or were repeated, is the set the script delivers and the set that is
\* grabbed, no key more or less, as long as it is the script the companion knows.
HeldIsGrabbed ==
  \A a \in Apps :
    (/\ Served(a) /\ companion.controller = app[a].conn
     /\ script.on /\ script.name = companion.script /\ ~RegisterOutstanding
     /\ script.update.id = 0
     /\ \A i \in DOMAIN inbox : inbox[i].kind # "complete")
      => script.active = app[a].held /\ grabs = app[a].held

\* main.js: "Recover a lost poll, never duplicate a healthy one."  At most one
\* poll can start an update, and none while one is under way: two updates never
\* mix their assignments.
OnePoll ==
  /\ Cardinality({i \in DOMAIN inbox : inbox[i].kind = "next" /\ inbox[i].heard})
       + (IF companion.poll.heard THEN 1 ELSE 0)
       + (IF script.update.id # 0 THEN 1 ELSE 0) <= 1
  /\ PollOutstanding => script.polling

\* An App is told ok only of the set that the companion has registered, or, of no
\* keys, when none are registered for it: no answer to one request is taken for an
\* answer to another.  A refusal may leave the App's set without an owner
\* (NoSilentLossUnrefused): then another App can have replaced it by now.
RegisteredFor(a, set) ==
  \/ companion.registered = set
  \/ companion.controller # app[a].conn /\ (set = {} \/ "conflict" \in mishaps)
AnswersAreTrue ==
  [][\A a \in Apps :
       (app[a].doing = "waiting" /\ app'[a].held \notin {app[a].held, None})
         => RegisteredFor(a, app'[a].held)]_vars

-----------------------------------------------------------------------------
(* Liveness.                                                               *)

\* hotkey_system.rs: "Dropping an implementation releases its registration."
\* When the Apps are gone for good, so are the grabs, whoever died first, unless
\* something stalled.
GrabsReleased ==
  <>[](mishaps \cap {"stall"} = {} /\ \A a \in Apps : app[a].doing = "gone")
    => <>[](grabs = {})

\* Kept running, and wanting one set from some point on, an App gets its hotkeys
\* back after every outage, unless another program keeps one of the keys.
Wants(a, set) ==
  /\ app[a].doing \in {"idle", "waiting"}
  /\ app[a].held \in {None, set}
  /\ app[a].doing = "waiting" => app[a].set = set
CaptureRecovers ==
  \A a \in Apps : \A set \in Sets :
    <>[](taken = {} /\ Wants(a, set) /\ \A b \in Apps \ {a} : app[b].doing = "gone")
      => <>[](/\ app[a].held = set /\ grabs = set
              /\ companion.registered = set
              /\ companion.controller = app[a].conn)

\* No key more or less than the App's set is captured, by updates that never mix.
CaptureIsExact == TypeOK /\ OnePoll /\ HeldIsGrabbed

\* Capture comes to what the Apps want in the end: a set held, or nothing.
CaptureSettles == CaptureRecovers /\ GrabsReleased
=============================================================================
