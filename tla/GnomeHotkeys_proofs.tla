------------------------ MODULE GnomeHotkeys_proofs ------------------------
(***************************************************************************)
(* What an App on GNOME believes captured is captured, and what it is still*)
(* to be handed is current, for any number of Apps, accelerators, hotkey   *)
(* sets and connections.                                                   *)
(*                                                                         *)
(* The service knows its Apps by their connections only, so the invariant  *)
(* says how these are used: by one App each, and never again while a       *)
(* message of a closed one is on its way.  Then nothing late can touch the *)
(* set of an App that is served.                                           *)
(***************************************************************************)
EXTENDS GnomeHotkeys, TLAPS

-----------------------------------------------------------------------------
(* The inductive invariant.                                                *)

Records == [up : BOOLEAN, accelerators : SUBSET Keys, controller : Connections \cup {None}]

\* An App without a connection has nothing, and nothing is on its way to it.
Detached(s) ==
  s.conn = None => s.held = None /\ s.events = <<>> /\ s.socket = <<>> /\ ~s.gone

\* An App on the bus that has no news of a loss.
Confident(s) == s.conn # None /\ ~s.serviceLost /\ ~s.gone

AllCurrent(presses) == \A i \in DOMAIN presses : ~presses[i].lost

\* What such an App holds is what the service has registered for it, one way and the
\* other; what it no longer holds, or holds of nothing, has left no press behind.
Agrees(s, record) ==
  Confident(s) =>
    /\ s.held \notin {None, {}} => record.controller = s.conn /\ record.accelerators = s.held
    /\ record.controller = s.conn => s.held = record.accelerators
    /\ s.held = None \/ (s.held = {} /\ ~s.draining) => s.events = <<>> /\ s.socket = <<>>
    /\ AllCurrent(s.events) /\ AllCurrent(s.socket)

Fits(s, record) == Detached(s) /\ Agrees(s, record)

\* One App per connection, and no message of a closed one from a connection in use.
Exclusive ==
  /\ \A a, b \in Apps : app[a].conn = app[b].conn /\ app[a].conn # None => a = b
  /\ \A a \in Apps, i \in DOMAIN inbox : inbox[i].sender # app[a].conn

Registered(record, set) ==
  /\ set = record.accelerators
  /\ record.accelerators # {} <=> record.controller # None
  /\ ~record.up => record.controller = None

IInv ==
  /\ TypeOK
  /\ Registered(service, grabs)
  /\ \A a \in Apps : Fits(app[a], service)
  /\ Exclusive

-----------------------------------------------------------------------------
(* Presses and messages.                                                   *)

LEMMA GivenUpPresses ==
  ASSUME NEW presses \in Seq(Press)
  PROVE  /\ GivenUp(presses) \in Seq(Press)
         /\ presses = <<>> => GivenUp(presses) = <<>>
<1> DEFINE n == Len(presses)
<1>1. n \in Nat /\ DOMAIN presses = 1 .. n /\ \A i \in 1 .. n : presses[i] \in Press
  OBVIOUS
<1>2. \A i \in 1 .. n : [presses[i] EXCEPT !.lost = TRUE] \in Press
  BY <1>1 DEF Press
<1>3. GivenUp(presses) \in [1 .. n -> Press]
  BY <1>1, <1>2 DEF GivenUp
<1>4. GivenUp(presses) \in Seq(Press)
  BY <1>1, <1>3
<1>5. presses = <<>> => GivenUp(presses) = <<>>
  BY <1>1, <1>3
<1>6. QED
  BY <1>4, <1>5

\* Reading the socket keeps what is current current.
LEMMA CurrentConcatenation ==
  ASSUME NEW p \in Seq(Press), NEW q \in Seq(Press), AllCurrent(p), AllCurrent(q)
  PROVE  /\ p \o q \in Seq(Press) /\ AllCurrent(p \o q)
         /\ p \o q # <<>> => Tail(p \o q) \in Seq(Press) /\ AllCurrent(Tail(p \o q))
         /\ p \o q = <<>> => p = <<>> /\ q = <<>>
<1> DEFINE r == p \o q
<1>1. /\ r \in Seq(Press) /\ Len(r) = Len(p) + Len(q)
      /\ \A i \in 1 .. Len(r) : r[i] = IF i <= Len(p) THEN p[i] ELSE q[i - Len(p)]
  OBVIOUS
<1>2. AllCurrent(r)
  <2>1. \A i \in 1 .. Len(p) : ~p[i].lost
    BY DEF AllCurrent
  <2>2. \A i \in 1 .. Len(q) : ~q[i].lost
    BY DEF AllCurrent
  <2>3. \A i \in 1 .. Len(r) : i <= Len(p) \/ i - Len(p) \in 1 .. Len(q)
    BY <1>1
  <2>4. QED
    BY <1>1, <2>1, <2>2, <2>3 DEF AllCurrent
<1> HIDE DEF r
<1>3. r # <<>> => Tail(r) \in Seq(Press) /\ AllCurrent(Tail(r))
  <2> SUFFICES ASSUME r # <<>> PROVE Tail(r) \in Seq(Press) /\ AllCurrent(Tail(r))
    OBVIOUS
  <2>1. /\ Tail(r) \in Seq(Press) /\ Len(Tail(r)) = Len(r) - 1 /\ Len(r) \in Nat
        /\ \A i \in 1 .. Len(Tail(r)) : Tail(r)[i] = r[i + 1]
    BY <1>1
  <2>2. \A i \in 1 .. Len(Tail(r)) : i + 1 \in DOMAIN r
    BY <1>1, <2>1
  <2>3. QED
    BY <1>2, <2>1, <2>2 DEF AllCurrent
<1>4. r = <<>> => p = <<>> /\ q = <<>>
  <2>1. r = <<>> => Len(r) = 0
    OBVIOUS
  <2>2. QED
    BY <1>1, <2>1
<1>5. QED
  BY <1>1, <1>2, <1>3, <1>4 DEF r

\* A message that is added to the inbox, or taken from it, brings no other sender.
LEMMA PostedMessages ==
  ASSUME NEW q \in Seq(Message), NEW m \in Message
  PROVE  /\ q \o <<m>> \in Seq(Message)
         /\ \A i \in DOMAIN (q \o <<m>>) :
              (i \in DOMAIN q /\ (q \o <<m>>)[i] = q[i]) \/ (q \o <<m>>)[i] = m
<1> DEFINE r == q \o <<m>>
<1>1. /\ r \in Seq(Message) /\ Len(r) = Len(q) + 1 /\ Len(q) \in Nat
      /\ \A i \in 1 .. Len(q) : r[i] = q[i]
      /\ r[Len(q) + 1] = m
  OBVIOUS
<1>2. \A i \in 1 .. Len(r) : i \in 1 .. Len(q) \/ i = Len(q) + 1
  BY <1>1
<1>3. QED
  BY <1>1, <1>2

LEMMA PostedPair ==
  ASSUME NEW q \in Seq(Message), NEW m \in Message, NEW n \in Message
  PROVE  /\ q \o <<m, n>> \in Seq(Message)
         /\ \A i \in DOMAIN (q \o <<m, n>>) :
              (i \in DOMAIN q /\ (q \o <<m, n>>)[i] = q[i]) \/ (q \o <<m, n>>)[i] \in {m, n}
<1> DEFINE p == <<m, n>>
<1>1. p \in Seq(Message) /\ Len(p) = 2 /\ p[1] = m /\ p[2] = n
  OBVIOUS
<1> HIDE DEF p
<1> DEFINE r == q \o p
<1>2. p \in Seq(Message)
  BY <1>1
<1>3. /\ r \in Seq(Message) /\ Len(r) = Len(q) + Len(p) /\ Len(q) \in Nat
      /\ \A i \in 1 .. Len(r) : r[i] = IF i <= Len(q) THEN q[i] ELSE p[i - Len(q)]
  BY <1>2
<1> HIDE DEF r
<1>4. \A i \in 1 .. Len(r) : i \in 1 .. Len(q) \/ i - Len(q) = 1 \/ i - Len(q) = 2
  BY <1>1, <1>3
<1>5. \A i \in 1 .. Len(r) : (i \in 1 .. Len(q) /\ r[i] = q[i]) \/ r[i] \in {m, n}
  BY <1>1, <1>3, <1>4
<1>6. QED
  BY <1>3, <1>5 DEF p, r

LEMMA TakenMessages ==
  ASSUME NEW q \in Seq(Message), q # <<>>
  PROVE  /\ Head(q) \in Message /\ Tail(q) \in Seq(Message)
         /\ 1 \in DOMAIN q /\ Head(q) = q[1]
         /\ \A i \in DOMAIN Tail(q) : i + 1 \in DOMAIN q /\ Tail(q)[i] = q[i + 1]
<1>1. /\ Tail(q) \in Seq(Message) /\ Len(Tail(q)) = Len(q) - 1 /\ Len(q) \in Nat
      /\ \A i \in 1 .. Len(Tail(q)) : Tail(q)[i] = q[i + 1]
  OBVIOUS
<1>2. Len(q) # 0
  OBVIOUS
<1>3. QED
  BY <1>1, <1>2

-----------------------------------------------------------------------------
(* The App's steps, as operators on its state.                             *)

LEMMA UnregisteredFields ==
  ASSUME NEW s \in AppState
  PROVE  LET t == Unregistered(s)
         IN /\ t \in AppState
            /\ t.conn = s.conn /\ t.held = None /\ t.events = GivenUp(s.events)
            /\ t.socket = GivenUp(s.socket) /\ t.gone = s.gone
            /\ t.serviceLost = s.serviceLost
<1>1. GivenUp(s.events) \in Seq(Press) /\ GivenUp(s.socket) \in Seq(Press)
  BY GivenUpPresses DEF AppState
<1>2. Unregistered(s) = [s EXCEPT !.held = None, !.draining = FALSE,
                                  !.events = GivenUp(s.events), !.socket = GivenUp(s.socket)]
  BY DEF Unregistered, AppState
<1>3. QED
  BY <1>1, <1>2 DEF AppState

\* An App that takes its hotkeys for lost and leaves the bus fits whatever is registered.
LEMMA ResetFits ==
  ASSUME NEW s \in AppState
  PROVE  LET t == ResetConnection(Unregistered(s))
         IN /\ t \in AppState /\ t.conn = None
            /\ \A record : Fits(t, record)
<1> DEFINE u == Unregistered(s)
<1> DEFINE t == ResetConnection(u)
<1>1. u \in AppState /\ u.held = None
  BY UnregisteredFields
<1> HIDE DEF u
<1>2. <<>> \in Seq(Press)
  OBVIOUS
<1>3. /\ t.conn = None /\ t.held = None /\ t.events = <<>> /\ t.socket = <<>>
      /\ t.gone = FALSE
  BY <1>1 DEF ResetConnection, AppState
<1>4. t \in AppState
  BY <1>1, <1>2 DEF ResetConnection, AppState
<1> HIDE DEF t
<1>5. \A record : Fits(t, record)
  BY <1>3 DEF Fits, Detached, Agrees, Confident
<1>6. QED
  BY <1>3, <1>4, <1>5 DEF t, u

\* A connection that an App opens is used by nobody, on whatever way.
LEMMA ConnectedIsFresh ==
  ASSUME IInv, NEW a \in Apps, CanConnect(a)
  PROVE  LET s == Connected(a)
         IN /\ s \in AppState /\ s.conn # None /\ s.conn \in Connections
            /\ app[a].conn = s.conn => s = app[a]
            /\ app[a].conn # s.conn => app[a].conn = None
            /\ \A b \in Apps \ {a} : app[b].conn # s.conn
            /\ \A i \in DOMAIN inbox : inbox[i].sender # s.conn
            /\ s.held = app[a].held /\ s.draining = app[a].draining
            /\ Fits(s, service)
<1> DEFINE s == Connected(a)
<1>0. app[a] \in AppState /\ Fits(app[a], service) /\ service \in Records
  BY DEF IInv, TypeOK, Records
<1>1. CASE app[a].conn # None
  <2>1. s = app[a]
    BY <1>1 DEF Connected
  <2>2. s.conn \in Connections
    BY <1>0, <1>1, <2>1 DEF AppState
  <2>3. \A b \in Apps \ {a} : app[b].conn # s.conn
    BY <1>1, <2>1 DEF IInv, Exclusive
  <2>4. \A i \in DOMAIN inbox : inbox[i].sender # s.conn
    BY <2>1 DEF IInv, Exclusive
  <2>5. QED
    BY <1>0, <1>1, <2>1, <2>2, <2>3, <2>4
<1>2. CASE app[a].conn = None
  <2> DEFINE c == CHOOSE c \in Connections : c \notin InUse
  <2>1. c \in Connections /\ c \notin InUse
    BY <1>2 DEF CanConnect
  <2> HIDE DEF c
  <2>2. /\ \A b \in Apps : app[b].conn # c
        /\ service.controller # c
        /\ \A i \in DOMAIN inbox : inbox[i].sender # c
    BY <2>1 DEF InUse
  <2>3. c # None
    BY <2>1, ConstantsOK
  <2>4. s = [app[a] EXCEPT !.conn = c, !.serviceLost = FALSE, !.events = <<>>]
    BY <1>2 DEF Connected, c
  <2>5. /\ s.running = app[a].running /\ s.draining = app[a].draining /\ s.conn = c
        /\ s.held = app[a].held /\ s.serviceLost = FALSE /\ s.events = <<>>
        /\ s.socket = app[a].socket /\ s.gone = app[a].gone
    BY <1>0, <2>4 DEF AppState
  <2>6. <<>> \in Seq(Press)
    OBVIOUS
  <2>7. s \in AppState
    BY <1>0, <2>1, <2>4, <2>6 DEF AppState
  <2>8. app[a].held = None /\ app[a].socket = <<>>
    BY <1>0, <1>2 DEF Fits, Detached
  <2> HIDE DEF s
  <2>9. AllCurrent(s.events) /\ AllCurrent(s.socket)
    BY <2>5, <2>8 DEF AllCurrent
  <2>10. Fits(s, service)
    BY <2>2, <2>3, <2>5, <2>8, <2>9 DEF Fits, Detached, Agrees
  <2>11. QED
    BY <1>2, <2>1, <2>2, <2>3, <2>5, <2>7, <2>10 DEF s
<1>3. QED
  BY <1>1, <1>2

-----------------------------------------------------------------------------
(* A registration.                                                         *)

\* Granted, refused or rolled back: what is grabbed is what is registered.
LEMMA RegistrationKeepsGrabs ==
  ASSUME IInv, NEW sender \in Connections, NEW set \in SUBSET Keys, service.up,
         RegisterHotkeys(sender, set)
  PROVE  /\ service' \in Records /\ grabs' \subseteq Keys
         /\ Registered(service', grabs')
         /\ Busy(sender) \/ Refused(set) # {} => service' = service
         /\ ~(Busy(sender) \/ Refused(set) # {}) =>
              /\ service'.accelerators = set
              /\ service'.controller = IF set = {} THEN None ELSE sender
<1>0. /\ service \in Records /\ grabs \subseteq Keys /\ Registered(service, grabs)
      /\ sender # None
  BY ConstantsOK DEF IInv, TypeOK, Records
<1>1. CASE Busy(sender)
  BY <1>0, <1>1 DEF RegisterHotkeys
<1>2. CASE ~Busy(sender) /\ Refused(set) # {}
  <2>1. PICK granted \in SUBSET (set \ (service.accelerators \cup taken)) :
          RegistrationRefused(set, granted)
    BY <1>2 DEF RegisterHotkeys
  <2>2. grabs' = grabs /\ service' = service
    BY <1>0, <2>1 DEF RegistrationRefused, Registered
  <2>3. QED
    BY <1>0, <1>2, <2>2
<1>3. CASE ~Busy(sender) /\ Refused(set) = {}
  <2>1. RegistrationReplaced(sender, set)
    BY <1>3 DEF RegisterHotkeys
  <2>2. grabs' = set
    BY <1>0, <2>1 DEF RegistrationReplaced, Registered
  <2>3. service' = [up |-> service.up, accelerators |-> set,
                    controller |-> IF set = {} THEN None ELSE sender]
    BY <1>0, <2>1 DEF RegistrationReplaced, Records
  <2>4. service' \in Records
    BY <1>0, <2>3 DEF Records
  <2>5. QED
    BY <1>0, <1>3, <2>2, <2>3, <2>4 DEF Registered
<1>4. QED
  BY <1>1, <1>2, <1>3

\* It takes nothing from an App of another connection, and gives it nothing.
LEMMA RegistrationSparesOthers ==
  ASSUME IInv, NEW sender \in Connections, NEW set \in SUBSET Keys, service.up,
         RegisterHotkeys(sender, set),
         NEW s \in AppState, s.conn # sender, Fits(s, service)
  PROVE  Fits(s, service')
<1>1. CASE Busy(sender) \/ Refused(set) # {}
  BY <1>1, RegistrationKeepsGrabs
<1>2. CASE ~(Busy(sender) \/ Refused(set) # {})
  <2>1. /\ service'.accelerators = set
        /\ service'.controller = IF set = {} THEN None ELSE sender
    BY <1>2, RegistrationKeepsGrabs
  <2>2. service.controller \in {None, sender}
    BY <1>2 DEF Busy
  <2>3. CASE Confident(s)
    <3>1. service.controller # s.conn /\ service'.controller # s.conn
      BY <2>1, <2>2, <2>3 DEF Confident
    <3>2. s.held \in {None, {}}
      BY <2>3, <3>1 DEF Fits, Agrees
    <3>3. QED
      BY <3>1, <3>2 DEF Fits, Agrees
  <2>4. CASE ~Confident(s)
    BY <2>4 DEF Fits, Agrees
  <2>5. QED
    BY <2>3, <2>4
<1>3. QED
  BY <1>1, <1>2

-----------------------------------------------------------------------------
(* What an App becomes.                                                    *)

\* The App leaves its connection, and the others are as they were: the service hears
\* of the connection that closes and of no other.
LEMMA LeavingKeepsExclusive ==
  ASSUME IInv, NEW a \in Apps, NEW t, Becomes(a, t), t \in AppState, t.conn = None
  PROVE  inbox' \in Seq(Message) /\ Exclusive'
<1>0. app \in [Apps -> AppState] /\ inbox \in Seq(Message)
  BY DEF IInv, TypeOK
<1>1. \A b \in Apps : app'[b] = IF b = a THEN t ELSE app[b]
  BY <1>0 DEF Becomes
<1>2. CASE app[a].conn # None /\ service.up
  <2> DEFINE m == [kind |-> "lost", sender |-> app[a].conn]
  <2>1. m \in Message
    BY <1>0, <1>2 DEF AppState, Message
  <2>2. inbox' = inbox \o <<m>>
    BY <1>2 DEF Becomes, Farewell, Posted
  <2>3. /\ inbox' \in Seq(Message)
        /\ \A i \in DOMAIN inbox' : (i \in DOMAIN inbox /\ inbox'[i] = inbox[i]) \/ inbox'[i] = m
    BY <1>0, <2>1, <2>2, PostedMessages
  <2>4. m.sender = app[a].conn
    OBVIOUS
  <2> HIDE DEF m
  <2>5. \A b \in Apps, i \in DOMAIN inbox' : inbox'[i].sender # app'[b].conn
    <3> SUFFICES ASSUME NEW b \in Apps, NEW i \in DOMAIN inbox'
                 PROVE  inbox'[i].sender # app'[b].conn
      OBVIOUS
    <3>1. \A k \in Message : k.sender # None
      BY ConstantsOK DEF Message
    <3>2. inbox'[i] \in Message
      BY <1>0, <2>1, <2>3
    <3>3. CASE b = a
      BY <1>1, <3>1, <3>2, <3>3
    <3>4. CASE b # a
      BY <1>1, <1>2, <2>3, <2>4, <3>4 DEF IInv, Exclusive
    <3>5. QED
      BY <3>3, <3>4
  <2>6. QED
    BY <1>1, <2>3, <2>5 DEF IInv, Exclusive
<1>3. CASE ~(app[a].conn # None /\ service.up)
  <2>1. inbox' = inbox
    BY <1>3 DEF Becomes, Farewell, Posted
  <2>2. \A i \in DOMAIN inbox : inbox[i].sender # None
    BY <1>0, ConstantsOK DEF Message
  <2>3. \A b \in Apps, i \in DOMAIN inbox' : inbox'[i].sender # app'[b].conn
    BY <1>1, <2>1, <2>2 DEF IInv, Exclusive
  <2>4. QED
    BY <1>0, <1>1, <2>1, <2>3 DEF IInv, Exclusive
<1>4. QED
  BY <1>2, <1>3

\* The App goes on with its connection, or with a fresh one.
LEMMA StayingKeepsExclusive ==
  ASSUME IInv, NEW a \in Apps, NEW t, Becomes(a, t), t \in AppState,
         \A b \in Apps \ {a} : app[b].conn # t.conn,
         \A i \in DOMAIN inbox : inbox[i].sender # t.conn,
         app[a].conn \in {None, t.conn}
  PROVE  inbox' = inbox /\ Exclusive'
<1>1. inbox' = inbox
  BY DEF Becomes, Farewell
<1>2. \A b \in Apps : app'[b] = IF b = a THEN t ELSE app[b]
  BY DEF Becomes, IInv, TypeOK
<1>3. QED
  BY <1>1, <1>2 DEF IInv, Exclusive

\* An App that is changed and fits leaves the invariant, if nothing else is.
LEMMA AppKeepsInvariant ==
  ASSUME IInv, NEW a \in Apps, NEW t, Becomes(a, t), t \in AppState, Fits(t, service),
         inbox' \in Seq(Message), Exclusive', Calm \/ Fault,
         UNCHANGED <<service, grabs, taken>>
  PROVE  IInv'
<1>1. app' = [app EXCEPT ![a] = t]
  BY DEF Becomes
<1>2. app' \in [Apps -> AppState] /\ \A b \in Apps : app'[b] = IF b = a THEN t ELSE app[b]
  BY <1>1 DEF IInv, TypeOK
<1>3. \A b \in Apps : Fits(app'[b], service')
  BY <1>2 DEF IInv
<1>4. faults' \in 0 .. MaxFaults
  BY ConstantsOK DEF IInv, TypeOK, Calm, Fault
<1>5. TypeOK'
  BY <1>2, <1>4 DEF IInv, TypeOK
<1>6. QED
  BY <1>3, <1>5 DEF IInv, Registered

LEMMA AppRegistersKeeps ==
  ASSUME IInv, NEW a \in Apps, AppRegisters(a)
  PROVE  IInv'
<1> DEFINE s == Connected(a)
<1>1. PICK set \in Sets :
        /\ Asks(a, set) /\ CanConnect(a) /\ service.up /\ inbox = <<>>
        /\ RegisterHotkeys(s.conn, set)
        /\ Becomes(a, IF Busy(s.conn) THEN Unregistered([s EXCEPT !.events = <<>>])
                      ELSE IF Refused(set) # {} THEN [s EXCEPT !.events = <<>>]
                      ELSE [s EXCEPT !.held = set, !.draining = TRUE])
        /\ Calm /\ UNCHANGED taken
  BY DEF AppRegisters
<1>2. /\ s \in AppState /\ s.conn # None /\ s.conn \in Connections
      /\ app[a].conn \in {None, s.conn}
      /\ \A b \in Apps \ {a} : app[b].conn # s.conn
      /\ \A i \in DOMAIN inbox : inbox[i].sender # s.conn
      /\ s.held = app[a].held /\ s.draining = app[a].draining
      /\ Fits(s, service)
  BY <1>1, ConnectedIsFresh
<1> HIDE DEF s
<1>3. set \in SUBSET Keys
  BY <1>1, ConstantsOK
<1>4. /\ service' \in Records /\ grabs' \subseteq Keys /\ Registered(service', grabs')
      /\ Busy(s.conn) \/ Refused(set) # {} => service' = service
      /\ ~(Busy(s.conn) \/ Refused(set) # {}) =>
           /\ service'.accelerators = set
           /\ service'.controller = IF set = {} THEN None ELSE s.conn
  BY <1>1, <1>2, <1>3, RegistrationKeepsGrabs
<1>5. \A b \in Apps \ {a} : Fits(app[b], service')
  <2> SUFFICES ASSUME NEW b \in Apps \ {a} PROVE Fits(app[b], service')
    OBVIOUS
  <2>1. app[b] \in AppState /\ Fits(app[b], service) /\ app[b].conn # s.conn
    BY <1>2 DEF IInv, TypeOK
  <2>2. QED
    BY <1>1, <1>2, <1>3, <2>1, RegistrationSparesOthers
<1>6. \E t \in AppState : Becomes(a, t) /\ t.conn = s.conn /\ Fits(t, service')
  <2>1. CASE Busy(s.conn)
    <3> DEFINE u == [s EXCEPT !.events = <<>>]
    <3> DEFINE t == Unregistered(u)
    <3>1. <<>> \in Seq(Press) /\ s.socket \in Seq(Press)
      BY <1>2 DEF AppState
    <3>2. /\ u \in AppState /\ u.conn = s.conn /\ u.events = <<>> /\ u.socket = s.socket
          /\ u.gone = s.gone /\ u.serviceLost = s.serviceLost
      BY <1>2, <3>1 DEF AppState
    <3>3. GivenUp(<<>>) = <<>> /\ (s.socket = <<>> => GivenUp(s.socket) = <<>>)
      BY <3>1, GivenUpPresses
    <3> HIDE DEF u
    <3>4. /\ t \in AppState /\ t.conn = u.conn /\ t.held = None /\ t.events = GivenUp(u.events)
          /\ t.socket = GivenUp(u.socket) /\ t.gone = u.gone /\ t.serviceLost = u.serviceLost
      BY <3>2, UnregisteredFields
    <3>5. Confident(s) => s.socket = <<>>
      <4> SUFFICES ASSUME Confident(s) PROVE s.socket = <<>>
        OBVIOUS
      <4>1. service.controller # s.conn
        BY <2>1 DEF Busy
      <4>2. s.held \in {None, {}}
        BY <1>2, <4>1 DEF Fits, Agrees
      <4>3. ~s.draining
        BY <1>1, <1>2 DEF Asks
      <4>4. QED
        BY <1>2, <4>2, <4>3 DEF Fits, Agrees
    <3>6. service' = service /\ service.controller # s.conn
      BY <1>4, <2>1 DEF Busy
    <3>7. /\ t.conn = s.conn /\ t.held = None /\ t.events = <<>> /\ t.gone = s.gone
          /\ t.serviceLost = s.serviceLost /\ (Confident(s) => t.socket = <<>>)
      BY <3>2, <3>3, <3>4, <3>5
    <3>8. Becomes(a, t)
      BY <1>1, <2>1 DEF u
    <3> HIDE DEF t
    <3>9. Fits(t, service')
      BY <1>2, <3>6, <3>7 DEF Fits, Detached, Agrees, Confident, AllCurrent
    <3>10. QED
      BY <3>4, <3>7, <3>8, <3>9
  <2>2. CASE ~Busy(s.conn) /\ Refused(set) # {}
    <3> DEFINE t == [s EXCEPT !.events = <<>>]
    <3>1. /\ t.conn = s.conn /\ t.held = s.held /\ t.events = <<>> /\ t.gone = s.gone
          /\ t.serviceLost = s.serviceLost /\ t.socket = s.socket /\ t.draining = s.draining
      BY <1>2 DEF AppState
    <3>2. <<>> \in Seq(Press)
      OBVIOUS
    <3>3. t \in AppState
      BY <1>2, <3>2 DEF AppState
    <3>4. Becomes(a, t) /\ service' = service
      BY <1>1, <1>4, <2>2
    <3> HIDE DEF t
    <3>5. Fits(t, service')
      BY <1>2, <3>1, <3>4 DEF Fits, Detached, Agrees, Confident, AllCurrent
    <3>6. QED
      BY <3>1, <3>3, <3>4, <3>5
  <2>3. CASE ~Busy(s.conn) /\ Refused(set) = {}
    <3> DEFINE t == [s EXCEPT !.held = set, !.draining = TRUE]
    <3>1. /\ t.conn = s.conn /\ t.held = set /\ t.events = s.events /\ t.gone = s.gone
          /\ t.serviceLost = s.serviceLost /\ t.socket = s.socket /\ t.draining = TRUE
      BY <1>2 DEF AppState
    <3>2. t \in AppState
      BY <1>2, <1>3 DEF AppState
    <3>3. Becomes(a, t)
      BY <1>1, <2>3
    <3>4. set # None
      BY <1>3, ConstantsOK
    <3> HIDE DEF t
    <3>5. Detached(t)
      BY <1>2, <3>1 DEF Detached
    <3>6. Agrees(t, service')
      <4> SUFFICES ASSUME Confident(t) PROVE Agrees(t, service')
        BY DEF Agrees
      <4>1. Confident(s)
        BY <3>1 DEF Confident
      <4>2. AllCurrent(t.events) /\ AllCurrent(t.socket)
        BY <1>2, <3>1, <4>1 DEF Fits, Agrees
      <4>3. service'.accelerators = set
        BY <1>4, <2>3
      <4>4. set # {} => service'.controller = s.conn
        BY <1>4, <2>3
      <4>5. QED
        BY <3>1, <3>4, <4>2, <4>3, <4>4 DEF Agrees
    <3>7. QED
      BY <3>1, <3>2, <3>3, <3>5, <3>6 DEF Fits
  <2>4. QED
    BY <2>1, <2>2, <2>3
<1>7. PICK t \in AppState : Becomes(a, t) /\ t.conn = s.conn /\ Fits(t, service')
  BY <1>6
<1>8. inbox' = inbox /\ Exclusive'
  BY <1>2, <1>7, StayingKeepsExclusive
<1>9. app' = [app EXCEPT ![a] = t]
  BY <1>7 DEF Becomes
<1>10. app' \in [Apps -> AppState] /\ \A b \in Apps : app'[b] = IF b = a THEN t ELSE app[b]
  BY <1>9 DEF IInv, TypeOK
<1>11. \A b \in Apps : Fits(app'[b], service')
  BY <1>5, <1>7, <1>10
<1>12. TypeOK'
  BY <1>1, <1>4, <1>8, <1>10 DEF IInv, TypeOK, Records, Calm
<1>13. QED
  BY <1>4, <1>8, <1>11, <1>12 DEF IInv, Registered

LEMMA AppRegistersInVainKeeps ==
  ASSUME IInv, NEW a \in Apps, AppRegistersInVain(a)
  PROVE  IInv'
<1> DEFINE t == ResetConnection(Unregistered(app[a]))
<1>1. Becomes(a, t) /\ Calm /\ UNCHANGED <<service, grabs, taken>>
  BY DEF AppRegistersInVain
<1>2. t \in AppState /\ t.conn = None /\ Fits(t, service)
  BY ResetFits DEF IInv, TypeOK
<1> HIDE DEF t
<1>3. inbox' \in Seq(Message) /\ Exclusive'
  BY <1>1, <1>2, LeavingKeepsExclusive
<1>4. QED
  BY <1>1, <1>2, <1>3, AppKeepsInvariant

LEMMA AppEndsKeeps ==
  ASSUME IInv, NEW a \in Apps, AppEnds(a)
  PROVE  IInv'
<1> DEFINE s == ResetConnection(Unregistered(app[a]))
<1> DEFINE t == [s EXCEPT !.running = FALSE, !.serviceLost = FALSE]
<1>1. Becomes(a, t) /\ Fault /\ UNCHANGED <<service, grabs, taken>>
  BY DEF AppEnds
<1>2. s \in AppState /\ s.conn = None /\ Fits(s, service)
  BY ResetFits DEF IInv, TypeOK
<1> HIDE DEF s
<1>3. /\ t \in AppState /\ t.conn = s.conn /\ t.held = s.held /\ t.events = s.events
      /\ t.socket = s.socket /\ t.gone = s.gone
  BY <1>2 DEF AppState
<1> HIDE DEF t
<1>4. Fits(t, service)
  BY <1>2, <1>3 DEF Fits, Detached, Agrees, Confident
<1>5. inbox' \in Seq(Message) /\ Exclusive'
  BY <1>1, <1>2, <1>3, LeavingKeepsExclusive
<1>6. QED
  BY <1>1, <1>3, <1>4, <1>5, AppKeepsInvariant

\* The call and the farewell both carry the connection that the App has left.
LEMMA AppRegistersLateKeeps ==
  ASSUME IInv, NEW a \in Apps, AppRegistersLate(a)
  PROVE  IInv'
<1> DEFINE s == Connected(a)
<1> DEFINE t == ResetConnection(Unregistered(s))
<1>1. PICK set \in Sets :
        /\ CanConnect(a) /\ Fault
        /\ app' = [app EXCEPT ![a] = t]
        /\ inbox' = inbox \o <<[kind |-> "register", sender |-> s.conn, set |-> set],
                              [kind |-> "lost", sender |-> s.conn]>>
        /\ UNCHANGED <<service, grabs, taken>>
  BY DEF AppRegistersLate
<1>2. /\ s \in AppState /\ s.conn \in Connections /\ s.conn # None
      /\ \A b \in Apps \ {a} : app[b].conn # s.conn
  BY <1>1, ConnectedIsFresh
<1> HIDE DEF s
<1>3. t \in AppState /\ t.conn = None /\ Fits(t, service)
  BY <1>2, ResetFits
<1> HIDE DEF t
<1> DEFINE m == [kind |-> "register", sender |-> s.conn, set |-> set]
<1> DEFINE n == [kind |-> "lost", sender |-> s.conn]
<1>4. m \in Message /\ n \in Message /\ m.sender = s.conn /\ n.sender = s.conn
  BY <1>2, ConstantsOK DEF Message
<1>5. inbox \in Seq(Message)
  BY DEF IInv, TypeOK
<1>6. inbox' = inbox \o <<m, n>>
  BY <1>1
<1> HIDE DEF m, n
<1>8. /\ inbox' \in Seq(Message)
      /\ \A i \in DOMAIN inbox' :
           (i \in DOMAIN inbox /\ inbox'[i] = inbox[i]) \/ inbox'[i] \in {m, n}
  BY <1>4, <1>5, <1>6, PostedPair
<1>9. app' \in [Apps -> AppState] /\ \A b \in Apps : app'[b] = IF b = a THEN t ELSE app[b]
  BY <1>1, <1>3 DEF IInv, TypeOK
<1>10. \A b \in Apps, i \in DOMAIN inbox' : inbox'[i].sender # app'[b].conn
  <2> SUFFICES ASSUME NEW b \in Apps, NEW i \in DOMAIN inbox'
               PROVE  inbox'[i].sender # app'[b].conn
    OBVIOUS
  <2>1. inbox'[i].sender = s.conn \/ (i \in DOMAIN inbox /\ inbox'[i] = inbox[i])
    BY <1>4, <1>8
  <2>2. \A k \in Message : k.sender # None
    BY ConstantsOK DEF Message
  <2>3. inbox'[i] \in Message
    BY <1>8
  <2>4. CASE b = a
    BY <1>3, <1>9, <2>2, <2>3, <2>4
  <2>5. CASE b # a
    BY <1>2, <1>9, <2>1, <2>5 DEF IInv, Exclusive
  <2>6. QED
    BY <2>4, <2>5
<1>11. Exclusive'
  BY <1>3, <1>9, <1>10 DEF IInv, Exclusive
<1>12. faults' \in 0 .. MaxFaults
  BY <1>1, ConstantsOK DEF IInv, TypeOK, Fault
<1>13. TypeOK'
  BY <1>1, <1>8, <1>9, <1>12 DEF IInv, TypeOK
<1>14. \A b \in Apps : Fits(app'[b], service')
  BY <1>1, <1>3, <1>9 DEF IInv
<1>15. QED
  BY <1>1, <1>11, <1>13, <1>14 DEF IInv, Registered

LEMMA AppPollsKeeps ==
  ASSUME IInv, NEW a \in Apps, AppPolls(a)
  PROVE  IInv'
<1> DEFINE s == Processed(app[a])
<1>0. /\ app[a] \in AppState /\ Fits(app[a], service)
      /\ app[a].events \in Seq(Press) /\ app[a].socket \in Seq(Press)
  BY DEF IInv, TypeOK, AppState
<1>1. /\ app[a].held # None
      /\ s.serviceLost => Becomes(a, ResetConnection(Unregistered(s)))
      /\ ~s.serviceLost /\ s.events = <<>> => Becomes(a, [s EXCEPT !.draining = FALSE])
      /\ ~s.serviceLost /\ s.events # <<>> => Becomes(a, [s EXCEPT !.events = Tail(s.events)])
      /\ Calm /\ UNCHANGED <<service, grabs, taken>>
  BY DEF AppPolls, Processed, AppState
<1>2. <<>> \in Seq(Press) /\ app[a].events \o app[a].socket \in Seq(Press)
  BY <1>0
<1>3. /\ s \in AppState /\ s.conn = app[a].conn /\ s.held = app[a].held
      /\ s.draining = app[a].draining /\ s.socket = <<>> /\ s.gone = FALSE
      /\ s.events = app[a].events \o app[a].socket
      /\ s.serviceLost = (app[a].serviceLost \/ app[a].gone)
  BY <1>0, <1>2 DEF Processed, AppState
<1> HIDE DEF s
<1>4. CASE s.serviceLost
  <2> DEFINE t == ResetConnection(Unregistered(s))
  <2>1. t \in AppState /\ t.conn = None /\ Fits(t, service)
    BY <1>3, ResetFits
  <2>2. Becomes(a, t)
    BY <1>1, <1>4
  <2> HIDE DEF t
  <2>3. inbox' \in Seq(Message) /\ Exclusive'
    BY <2>1, <2>2, LeavingKeepsExclusive
  <2>4. QED
    BY <1>1, <2>1, <2>2, <2>3, AppKeepsInvariant
<1>5. CASE ~s.serviceLost
  <2>1. Confident(app[a]) /\ app[a].conn # None
    BY <1>0, <1>1, <1>3, <1>5 DEF Fits, Detached, Confident
  <2>2. AllCurrent(app[a].events) /\ AllCurrent(app[a].socket)
    BY <1>0, <2>1 DEF Fits, Agrees
  <2>3. /\ AllCurrent(s.events) /\ s.events \in Seq(Press)
        /\ s.events # <<>> => Tail(s.events) \in Seq(Press) /\ AllCurrent(Tail(s.events))
        /\ s.events = <<>> => app[a].events = <<>> /\ app[a].socket = <<>>
    BY <1>0, <1>3, <2>2, CurrentConcatenation
  <2>4. AllCurrent(<<>>)
    BY DEF AllCurrent
  <2>5. \E t \in AppState : Becomes(a, t) /\ t.conn = app[a].conn /\ Fits(t, service)
    <3>1. CASE s.events = <<>>
      <4> DEFINE t == [s EXCEPT !.draining = FALSE]
      <4>1. /\ t \in AppState /\ t.conn = s.conn /\ t.held = s.held /\ t.events = <<>>
            /\ t.socket = <<>> /\ t.gone = FALSE /\ t.serviceLost = s.serviceLost
        BY <1>3, <3>1 DEF AppState
      <4>2. Becomes(a, t)
        BY <1>1, <1>5, <3>1
      <4> HIDE DEF t
      <4>3. Fits(t, service)
        BY <1>0, <1>3, <2>1, <2>4, <4>1 DEF Fits, Detached, Agrees
      <4>4. QED
        BY <1>3, <4>1, <4>2, <4>3
    <3>2. CASE s.events # <<>>
      <4> DEFINE t == [s EXCEPT !.events = Tail(s.events)]
      <4>1. /\ t \in AppState /\ t.conn = s.conn /\ t.held = s.held /\ t.events = Tail(s.events)
            /\ t.socket = <<>> /\ t.gone = FALSE /\ t.serviceLost = s.serviceLost
            /\ t.draining = s.draining
        BY <1>3, <2>3, <3>2 DEF AppState
      <4>2. Becomes(a, t)
        BY <1>1, <1>5, <3>2
      <4> HIDE DEF t
      <4>3. ~(s.held = {} /\ ~s.draining)
        <5>1. <<>> \o <<>> = <<>>
          OBVIOUS
        <5>2. QED
          BY <1>0, <1>3, <2>1, <3>2, <5>1 DEF Fits, Agrees
      <4>4. Fits(t, service)
        BY <1>0, <1>1, <1>3, <2>1, <2>3, <2>4, <3>2, <4>1, <4>3 DEF Fits, Detached, Agrees
      <4>5. QED
        BY <1>3, <4>1, <4>2, <4>4
    <3>3. QED
      BY <3>1, <3>2
  <2>6. PICK t \in AppState : Becomes(a, t) /\ t.conn = app[a].conn /\ Fits(t, service)
    BY <2>5
  <2>7. inbox' = inbox /\ Exclusive'
    <3>1. \A b \in Apps \ {a} : app[b].conn # t.conn
      BY <2>1, <2>6 DEF IInv, Exclusive
    <3>2. \A i \in DOMAIN inbox : inbox[i].sender # t.conn
      BY <2>6 DEF IInv, Exclusive
    <3>3. QED
      BY <2>6, <3>1, <3>2, StayingKeepsExclusive
  <2>8. inbox' \in Seq(Message)
    BY <2>7 DEF IInv, TypeOK
  <2>9. QED
    BY <1>1, <2>6, <2>7, <2>8, AppKeepsInvariant
<1>6. QED
  BY <1>4, <1>5

LEMMA AppStartsKeeps ==
  ASSUME IInv, NEW a \in Apps, AppStarts(a)
  PROVE  IInv'
<1> DEFINE t == [app[a] EXCEPT !.running = TRUE]
<1>1. app' = [app EXCEPT ![a] = t] /\ Calm /\ UNCHANGED <<service, grabs, taken, inbox>>
  BY DEF AppStarts, IInv, TypeOK
<1>2. app[a] \in AppState /\ Fits(app[a], service)
  BY DEF IInv, TypeOK
<1>3. /\ t \in AppState /\ t.conn = app[a].conn /\ t.held = app[a].held
      /\ t.events = app[a].events /\ t.socket = app[a].socket /\ t.gone = app[a].gone
      /\ t.serviceLost = app[a].serviceLost /\ t.draining = app[a].draining
  BY <1>2 DEF AppState
<1> HIDE DEF t
<1>4. Fits(t, service)
  BY <1>2, <1>3 DEF Fits, Detached, Agrees, Confident
<1>5. app' \in [Apps -> AppState] /\ \A b \in Apps : app'[b] = IF b = a THEN t ELSE app[b]
  BY <1>1, <1>3 DEF IInv, TypeOK
<1>6. Exclusive'
  BY <1>1, <1>3, <1>5 DEF IInv, Exclusive
<1>7. TypeOK'
  BY <1>1, <1>5 DEF IInv, TypeOK, Calm
<1>8. \A b \in Apps : Fits(app'[b], service')
  BY <1>1, <1>4, <1>5 DEF IInv
<1>9. QED
  BY <1>1, <1>6, <1>7, <1>8 DEF IInv, Registered

-----------------------------------------------------------------------------
(* The shell's steps.                                                      *)

\* A message is taken from the inbox.
LEMMA TakingKeepsExclusive ==
  ASSUME IInv, inbox # <<>>, inbox' = Tail(inbox), app' = app
  PROVE  inbox' \in Seq(Message) /\ Exclusive'
<1>1. inbox \in Seq(Message)
  BY DEF IInv, TypeOK
<1>2. /\ inbox' \in Seq(Message)
      /\ \A i \in DOMAIN inbox' : i + 1 \in DOMAIN inbox /\ inbox'[i] = inbox[i + 1]
  BY <1>1, TakenMessages
<1>3. QED
  BY <1>2 DEF IInv, Exclusive

LEMMA HandleRegisterKeeps ==
  ASSUME IInv, HandleRegister
  PROVE  IInv'
<1> DEFINE m == Head(inbox)
<1>1. /\ service.up /\ inbox # <<>> /\ m.kind = "register"
      /\ RegisterHotkeys(m.sender, m.set)
      /\ inbox' = Tail(inbox) /\ Calm /\ UNCHANGED <<app, taken>>
  BY DEF HandleRegister
<1>2. inbox \in Seq(Message)
  BY DEF IInv, TypeOK
<1>3. m \in Message /\ 1 \in DOMAIN inbox /\ m = inbox[1]
  BY <1>1, <1>2, TakenMessages
<1>4. \A a \in Apps : app[a].conn # m.sender
  BY <1>3 DEF IInv, Exclusive
<1> HIDE DEF m
<1>5. m.sender \in Connections /\ m.set \in SUBSET Keys
  BY <1>1, <1>3 DEF Message
<1>6. /\ service' \in Records /\ grabs' \subseteq Keys /\ Registered(service', grabs')
  BY <1>1, <1>5, RegistrationKeepsGrabs
<1>7. \A a \in Apps : Fits(app[a], service')
  <2> SUFFICES ASSUME NEW a \in Apps PROVE Fits(app[a], service')
    OBVIOUS
  <2>1. app[a] \in AppState /\ Fits(app[a], service)
    BY DEF IInv, TypeOK
  <2>2. QED
    BY <1>1, <1>4, <1>5, <2>1, RegistrationSparesOthers
<1>8. inbox' \in Seq(Message) /\ Exclusive'
  BY <1>1, TakingKeepsExclusive
<1>9. TypeOK'
  BY <1>1, <1>6, <1>8 DEF IInv, TypeOK, Records, Calm
<1>10. QED
  BY <1>1, <1>6, <1>7, <1>8, <1>9 DEF IInv

\* The controller that has left is no App's connection any more.
LEMMA HandleLostKeeps ==
  ASSUME IInv, HandleLost
  PROVE  IInv'
<1> DEFINE m == Head(inbox)
<1>1. /\ service.up /\ inbox # <<>>
      /\ m.sender = service.controller =>
           /\ grabs' = grabs \ service.accelerators
           /\ service' = [service EXCEPT !.accelerators = {}, !.controller = None]
      /\ m.sender # service.controller => UNCHANGED <<service, grabs>>
      /\ inbox' = Tail(inbox) /\ Calm /\ UNCHANGED <<app, taken>>
  BY DEF HandleLost
<1>2. inbox \in Seq(Message)
  BY DEF IInv, TypeOK
<1>3. 1 \in DOMAIN inbox /\ m = inbox[1]
  BY <1>1, <1>2, TakenMessages
<1>4. \A a \in Apps : app[a].conn # m.sender
  BY <1>3 DEF IInv, Exclusive
<1> HIDE DEF m
<1>5. inbox' \in Seq(Message) /\ Exclusive'
  BY <1>1, TakingKeepsExclusive
<1>6. /\ service \in Records /\ grabs \subseteq Keys /\ Registered(service, grabs)
      /\ \A a \in Apps : Fits(app[a], service)
  BY DEF IInv, TypeOK, Records
<1>7. /\ service' \in Records /\ grabs' \subseteq Keys /\ Registered(service', grabs')
      /\ \A a \in Apps : Fits(app[a], service')
  <2>1. CASE m.sender # service.controller
    BY <1>1, <1>6, <2>1
  <2>2. CASE m.sender = service.controller
    <3>1. /\ service' \in Records
          /\ service'.up = service.up /\ service'.accelerators = {}
          /\ service'.controller = None /\ grabs' = {}
      BY <1>1, <1>6, <2>2 DEF Records, Registered
    <3>2. \A a \in Apps : Fits(app[a], service')
      <4> SUFFICES ASSUME NEW a \in Apps PROVE Fits(app[a], service')
        OBVIOUS
      <4>1. CASE Confident(app[a])
        <5>1. app[a].held \in {None, {}}
          BY <1>4, <1>6, <2>2, <4>1 DEF Fits, Agrees
        <5>2. app[a].conn # None
          BY <4>1 DEF Confident
        <5>3. QED
          BY <1>6, <3>1, <5>1, <5>2 DEF Fits, Agrees
      <4>2. CASE ~Confident(app[a])
        BY <1>6, <4>2 DEF Fits, Agrees
      <4>3. QED
        BY <4>1, <4>2
    <3>3. QED
      BY <3>1, <3>2 DEF Registered
  <2>3. QED
    BY <2>1, <2>2
<1>8. TypeOK'
  BY <1>1, <1>5, <1>7 DEF IInv, TypeOK, Records, Calm
<1>9. QED
  BY <1>1, <1>5, <1>7, <1>8 DEF IInv

LEMMA EmitHotkeyKeeps ==
  ASSUME IInv, EmitHotkey
  PROVE  IInv'
<1>1. PICK key \in service.accelerators \cap grabs : \E a \in Apps :
        /\ service.controller = app[a].conn
        /\ app' = [app EXCEPT ![a].socket = Append(@, [key |-> key, lost |-> FALSE])]
        /\ Calm /\ UNCHANGED <<service, grabs, taken, inbox>>
  BY DEF EmitHotkey
<1>2. PICK a \in Apps :
        /\ service.controller = app[a].conn
        /\ app' = [app EXCEPT ![a].socket = Append(@, [key |-> key, lost |-> FALSE])]
        /\ Calm /\ UNCHANGED <<service, grabs, taken, inbox>>
  BY <1>1
<1> DEFINE press == [key |-> key, lost |-> FALSE]
<1> DEFINE t == [app[a] EXCEPT !.socket = Append(app[a].socket, press)]
<1>3. app[a] \in AppState /\ Fits(app[a], service) /\ app[a].socket \in Seq(Press)
  BY DEF IInv, TypeOK, AppState
<1>4. press \in Press
  BY <1>1 DEF IInv, TypeOK, Press
<1>5. Append(app[a].socket, press) \in Seq(Press)
  BY <1>3, <1>4
<1>6. AllCurrent(app[a].socket) => AllCurrent(Append(app[a].socket, press))
  <2> SUFFICES ASSUME AllCurrent(app[a].socket), NEW i \in DOMAIN Append(app[a].socket, press)
               PROVE  ~Append(app[a].socket, press)[i].lost
    BY DEF AllCurrent
  <2>1. ~press.lost
    OBVIOUS
  <2> HIDE DEF press
  <2>2. (i \in DOMAIN app[a].socket /\ Append(app[a].socket, press)[i] = app[a].socket[i])
        \/ Append(app[a].socket, press)[i] = press
    BY <1>3, <1>4
  <2>3. QED
    BY <2>1, <2>2 DEF AllCurrent
<1>7. app' = [app EXCEPT ![a] = t]
  BY <1>2
<1> HIDE DEF press
<1>8. /\ t \in AppState /\ t.conn = app[a].conn /\ t.held = app[a].held
      /\ t.events = app[a].events /\ t.socket = Append(app[a].socket, press)
      /\ t.gone = app[a].gone /\ t.serviceLost = app[a].serviceLost
      /\ t.draining = app[a].draining
  BY <1>3, <1>5 DEF AppState
<1> HIDE DEF t
<1>9. Fits(t, service)
  <2>1. service.controller # None /\ service.accelerators # {}
    BY <1>1 DEF IInv, Registered
  <2>2. Detached(t)
    BY <1>2, <1>8, <2>1 DEF Detached
  <2>3. Agrees(t, service)
    <3> SUFFICES ASSUME Confident(t) PROVE Agrees(t, service)
      BY DEF Agrees
    <3>1. Confident(app[a])
      BY <1>8 DEF Confident
    <3>2. t.held = service.accelerators
      BY <1>2, <1>3, <1>8, <3>1 DEF Fits, Agrees
    <3>3. t.held # None
      BY <3>2, ConstantsOK DEF IInv, TypeOK
    <3>4. AllCurrent(t.events) /\ AllCurrent(t.socket)
      BY <1>3, <1>6, <1>8, <3>1 DEF Fits, Agrees
    <3>5. QED
      BY <1>2, <1>8, <2>1, <3>2, <3>3, <3>4 DEF Agrees
  <2>4. QED
    BY <2>2, <2>3 DEF Fits
<1>10. app' \in [Apps -> AppState] /\ \A b \in Apps : app'[b] = IF b = a THEN t ELSE app[b]
  BY <1>7, <1>8 DEF IInv, TypeOK
<1>11. Exclusive'
  BY <1>2, <1>8, <1>10 DEF IInv, Exclusive
<1>12. TypeOK'
  BY <1>2, <1>10 DEF IInv, TypeOK, Calm
<1>13. \A b \in Apps : Fits(app'[b], service')
  BY <1>2, <1>9, <1>10 DEF IInv
<1>14. QED
  BY <1>2, <1>11, <1>12, <1>13 DEF IInv, Registered

\* Everybody on the bus hears that the service has gone.
LEMMA DisableKeeps ==
  ASSUME IInv, Disable
  PROVE  IInv'
<1>1. /\ Fault /\ grabs' = grabs \ service.accelerators
      /\ service' = [Service EXCEPT !.up = FALSE] /\ app' = Bereaved /\ inbox' = <<>>
      /\ UNCHANGED taken
  BY DEF Disable
<1>2. \A a \in Apps : app[a] \in AppState /\ Fits(app[a], service)
  BY DEF IInv, TypeOK
<1>3. \A a \in Apps :
        LET t == app'[a]
        IN /\ t \in AppState /\ t.conn = app[a].conn /\ t.held = app[a].held
           /\ t.events = app[a].events /\ t.socket = app[a].socket
           /\ t.gone = (app[a].gone \/ app[a].conn # None)
  BY <1>1, <1>2 DEF Bereaved, AppState
<1>4. \A a \in Apps : Fits(app'[a], service')
  BY <1>2, <1>3 DEF Fits, Detached, Agrees, Confident
<1>5. /\ service' = [up |-> FALSE, accelerators |-> {}, controller |-> None]
      /\ grabs' = {}
  BY <1>1 DEF IInv, Registered, Service
<1>6. Registered(service', grabs')
  BY <1>5 DEF Registered
<1>7. inbox' \in Seq(Message) /\ DOMAIN inbox' = {}
  BY <1>1
<1>8. Exclusive'
  BY <1>3, <1>7 DEF IInv, Exclusive
<1>9. faults' \in 0 .. MaxFaults
  BY <1>1, ConstantsOK DEF IInv, TypeOK, Fault
<1>10. app' \in [Apps -> AppState]
  BY <1>1, <1>3 DEF Bereaved
<1>11. service' \in Records
  BY <1>5 DEF Records
<1>12. TypeOK'
  BY <1>1, <1>5, <1>7, <1>9, <1>10, <1>11 DEF IInv, TypeOK, Records
<1>13. QED
  BY <1>4, <1>6, <1>8, <1>12 DEF IInv

LEMMA EnableKeeps ==
  ASSUME IInv, Enable
  PROVE  IInv'
<1>1. ~service.up /\ service' = Service /\ Calm /\ UNCHANGED <<app, grabs, taken, inbox>>
  BY DEF Enable
<1>2. /\ service.controller = None /\ service.accelerators = {} /\ grabs = {}
  BY <1>1 DEF IInv, Registered
<1>3. /\ service'.up = TRUE /\ service'.accelerators = {} /\ service'.controller = None
      /\ service' \in Records
  BY <1>1 DEF Service, Records
<1>4. \A a \in Apps : Fits(app'[a], service')
  BY <1>1, <1>2, <1>3 DEF IInv, Fits, Agrees
<1>5. TypeOK'
  BY <1>1, <1>3 DEF IInv, TypeOK, Records, Calm
<1>6. QED
  BY <1>1, <1>2, <1>3, <1>4, <1>5 DEF IInv, Registered, Exclusive

-----------------------------------------------------------------------------
(* The theorems.                                                           *)

LEMMA Initialization ==
  ASSUME Init
  PROVE  IInv
<1>1. PICK started \in SUBSET Apps :
        app = [a \in Apps |-> [running |-> a \in started, draining |-> FALSE, conn |-> None,
                               held |-> None, serviceLost |-> FALSE,
                               events |-> <<>>, socket |-> <<>>, gone |-> FALSE]]
  BY DEF Init
<1>2. <<>> \in Seq(Press) /\ <<>> \in Seq(Message) /\ DOMAIN <<>> = {}
  OBVIOUS
<1>3. app \in [Apps -> AppState]
  BY <1>1, <1>2 DEF AppState
<1>4. /\ service \in Records /\ service.accelerators = {} /\ service.controller = None
  <2>1. CASE service = [up |-> TRUE, accelerators |-> {}, controller |-> None]
    BY <2>1 DEF Records
  <2>2. CASE service = [up |-> FALSE, accelerators |-> {}, controller |-> None]
    BY <2>2 DEF Records
  <2>3. QED
    BY <2>1, <2>2 DEF Init, Service
<1>5. TypeOK
  BY <1>2, <1>3, <1>4, ConstantsOK DEF Init, TypeOK, Records
<1>6. \A a \in Apps : Fits(app[a], service)
  BY <1>1 DEF Fits, Detached, Agrees, Confident
<1>7. Exclusive
  BY <1>1, <1>2 DEF Init, Exclusive
<1>8. QED
  BY <1>4, <1>5, <1>6, <1>7 DEF IInv, Init, Registered

LEMMA Induction == IInv /\ [Next]_vars => IInv'
<1> SUFFICES ASSUME IInv, [Next]_vars PROVE IInv'
  OBVIOUS
<1>1. CASE \E a \in Apps : AppNext(a)
  <2>1. PICK a \in Apps : AppNext(a)
    BY <1>1
  <2>2. QED
    BY <2>1, AppRegistersKeeps, AppRegistersInVainKeeps, AppRegistersLateKeeps, AppPollsKeeps,
       AppEndsKeeps, AppStartsKeeps DEF AppNext
<1>2. CASE HandleRegister
  BY <1>2, HandleRegisterKeeps
<1>3. CASE HandleLost
  BY <1>3, HandleLostKeeps
<1>4. CASE EmitHotkey
  BY <1>4, EmitHotkeyKeeps
<1>5. CASE Disable
  BY <1>5, DisableKeeps
<1>6. CASE Enable
  BY <1>6, EnableKeeps
<1>7. CASE KeyTaken \/ KeyFreed
  <2>1. /\ taken' \subseteq Contested /\ faults' \in 0 .. MaxFaults
        /\ UNCHANGED <<app, service, grabs, inbox>>
    BY <1>7, ConstantsOK DEF KeyTaken, KeyFreed, IInv, TypeOK, Calm, Fault
  <2>2. TypeOK'
    BY <2>1 DEF IInv, TypeOK
  <2>3. QED
    BY <2>1, <2>2 DEF IInv, Registered, Exclusive
<1>8. CASE UNCHANGED vars
  <2>1. TypeOK'
    BY <1>8 DEF IInv, TypeOK, vars
  <2>2. QED
    BY <1>8, <2>1 DEF IInv, Registered, Exclusive, vars
<1>9. QED
  BY <1>1, <1>2, <1>3, <1>4, <1>5, <1>6, <1>7, <1>8 DEF Next, ShellNext, Handle

LEMMA ServedIsConfident ==
  ASSUME IInv, NEW a \in Apps, Served(a)
  PROVE  Confident(app[a]) /\ Agrees(app[a], service)
BY DEF IInv, Fits, Detached, Confident, Served

\* The invariant holds throughout: connections are used by one App each, and what an
\* App without news of a loss holds is what the service has registered for it.
THEOREM Invariance == Spec => []IInv
<1>1. Init => IInv
  BY Initialization
<1>2. QED
  BY <1>1, Induction, PTL DEF Spec

\* What the service grabs is what is registered, and an App that believes its hotkeys
\* registered, with nothing on its way that says otherwise, is the controller of that
\* set: a rival, a late call or a disabled extension never takes it away silently.
THEOREM CaptureStaysExact == Spec => []CaptureIsExact
<1>1. IInv => CaptureIsExact
  <2> SUFFICES ASSUME IInv PROVE CaptureIsExact
    OBVIOUS
  <2>1. TypeOK /\ GrabsAreRegistered
    BY DEF IInv, Registered, GrabsAreRegistered
  <2>2. NoSilentLoss
    BY ServedIsConfident DEF NoSilentLoss, Served, Agrees
  <2>3. QED
    BY <2>1, <2>2 DEF CaptureIsExact
<1>2. QED
  BY <1>1, Invariance, PTL

\* An App with hotkeys is never handed a press of before it last lost them.
THEOREM PressesStayCurrent == Spec => []PressesAreCurrent
<1>1. IInv => PressesAreCurrent
  <2> SUFFICES ASSUME IInv, NEW a \in Apps, Served(a)
               PROVE  \A press \in ToSet(app[a].events) \cup ToSet(app[a].socket) : ~press.lost
    BY DEF PressesAreCurrent
  <2>1. AllCurrent(app[a].events) /\ AllCurrent(app[a].socket)
    BY ServedIsConfident DEF Agrees
  <2>2. QED
    BY <2>1 DEF AllCurrent, ToSet
<1>2. QED
  BY <1>1, Invariance, PTL
=============================================================================
