------------------------- MODULE GnomeMoves_proofs -------------------------
(***************************************************************************)
(* Every transition on GNOME has one owner, and what an App is told of it  *)
(* is true, for any number of Apps, windows, frames and connections.       *)
(*                                                                         *)
(* What has to be carried along is how connections are used: a connection  *)
(* belongs to one App at most, its App has one call at a time, which is on *)
(* its way or in progress and never both, and a connection that has closed *)
(* is not used again before the service has heard of it.                   *)
(***************************************************************************)
EXTENDS GnomeMoves, TLAPS

-----------------------------------------------------------------------------
(* The inductive invariant, of the record a turn works on and the inbox.   *)

Lost(c) == [kind |-> "lost", sender |-> c]
Asking(c, q) == \E i \in DOMAIN q : q[i].kind = "move" /\ q[i].sender = c
Leaving(c, q) == \E i \in DOMAIN q : q[i] = Lost(c)
Connected(c, s) == \E a \in Apps : s.app[a].conn = c

\* Calls and the record of the calls' windows know each other.
Recorded(s) ==
  /\ \A c \in Connections : s.call[c].on => s.moves[s.call[c].win] = c
  /\ \A w \in Windows :
       s.moves[w] # None => s.call[s.moves[w]].on /\ s.call[s.moves[w]].win = w
Thawed(s) ==
  \A w \in Windows : s.window[w].frozen => s.moves[w] # None /\ s.call[s.moves[w]].frozen

\* A connection is used by one App, until the App closes it.
Exclusive(s, q) ==
  /\ \A a, b \in Apps : s.app[a].conn = s.app[b].conn /\ s.app[a].conn # None => a = b
  /\ \A a \in Apps : ~Leaving(s.app[a].conn, q)

\* A call is sent once, before its connection closes, and then it goes on.
Ordered(q) == \A i, j \in DOMAIN q :
  q[j].kind = "move" /\ q[i].sender = q[j].sender /\ i # j => i > j /\ q[i].kind = "lost"
OneCall(s, q) ==
  /\ \A c \in Connections : Asking(c, q) => ~s.call[c].on
  /\ \A a \in Apps : s.app[a].asked = None /\ s.app[a].conn # None =>
                       ~s.call[s.app[a].conn].on /\ ~Asking(s.app[a].conn, q)

\* What the service does for a sender that is on the bus, as far as it knows.
Known(c, s, q) == Connected(c, s) \/ Leaving(c, q)
Alive(s, q) == \A c \in Connections :
  c \in s.metrics \/ Asking(c, q) \/ (s.call[c].on /\ s.call[c].alive) => Known(c, s, q)

\* A call is the one that its App waits for.
IsCall(k, request) == k.win = request.win /\ k.target = request.target
MeantBy(me, calls, q) == me.asked # None =>
  /\ me.conn # None
  /\ calls[me.conn].on => IsCall(calls[me.conn], me.asked)
  /\ \A i \in DOMAIN q : q[i].kind = "move" /\ q[i].sender = me.conn => IsCall(q[i], me.asked)
Meant(s, q) == \A a \in Apps : MeantBy(s.app[a], s.call, q)

Fits(s, q) == /\ Recorded(s) /\ Thawed(s)
              /\ Exclusive(s, q) /\ Ordered(q) /\ OneCall(s, q)
              /\ Alive(s, q) /\ Meant(s, q)

\* The service that has ended has nothing in progress, and hears nothing.
Idle == ~up => inbox = <<>> /\ metrics = {} /\ \A c \in Connections : ~call[c].on

IInv == TypeOK /\ Fits(Turn, inbox) /\ Idle

-----------------------------------------------------------------------------
(* What the operations on the record do to its fields.                     *)

Turns == [app : [Apps -> [conn : Connections \cup {None}, asked : Request \cup {None}]],
          told : [Apps -> Answer \cup {None}],
          call : [Connections -> Call \cup {NoCall}],
          moves : [Windows -> Connections \cup {None}],
          metrics : SUBSET Connections,
          window : [Windows -> [frame : Frames \cup {Closed}, maximized : BOOLEAN,
                                actor : BOOLEAN, frozen : BOOLEAN]]]

\* None is no connection and no request, and a call is either on or no call at all.
LEMMA Nothing ==
  /\ None \notin Connections
  /\ \A r \in Request : r.win \in Windows /\ r.target \in Frames
  /\ \A k \in Call \cup {NoCall} : k.on <=> k \in Call
<1>1. \A k \in Call : k.on = TRUE
  BY DEF Call
<1>2. NoCall.on = FALSE
  BY DEF NoCall
<1>3. QED
  BY <1>1, <1>2, ConstantsOK DEF Request

\* A reply changes what its hearers wait for and what they are told, and nothing else.
Heard(a, s, C) == s.app[a].conn \in C /\ s.app[a].asked # None
Kept(kind, c) == IF kind = "unavailable" THEN None ELSE c
LEMMA ReplyFields ==
  ASSUME NEW s \in Turns, NEW C \in SUBSET Connections, NEW answer \in [C -> Answer]
  PROVE  LET t == Reply(s, answer)
         IN /\ t \in Turns
            /\ t.call = s.call /\ t.moves = s.moves
            /\ t.metrics = s.metrics /\ t.window = s.window
            /\ \A a \in Apps :
                 IF Heard(a, s, C)
                 THEN /\ t.told[a] = answer[s.app[a].conn]
                      /\ t.app[a].asked = None
                      /\ t.app[a].conn = Kept(answer[s.app[a].conn].kind, s.app[a].conn)
                 ELSE t.told[a] = s.told[a] /\ t.app[a] = s.app[a]
<1> DEFINE Hears(a) == s.app[a].conn \in DOMAIN answer /\ s.app[a].asked # None
           AnswerTo(a) == answer[s.app[a].conn]
           app2 == [a \in Apps |->
                     IF ~Hears(a) THEN s.app[a]
                     ELSE [asked |-> None,
                           conn |-> IF AnswerTo(a).kind = "unavailable"
                                    THEN None ELSE s.app[a].conn]]
           told2 == [a \in Apps |-> IF Hears(a) THEN AnswerTo(a) ELSE s.told[a]]
           t == [s EXCEPT !.app = app2, !.told = told2]
<1>1. Reply(s, answer) = t
  BY DEF Reply
<1>2. \A a \in Apps : /\ s.app[a] \in [conn : Connections \cup {None}, asked : Request \cup {None}]
                      /\ s.told[a] \in Answer \cup {None}
                      /\ Hears(a) <=> Heard(a, s, C)
                      /\ Hears(a) => AnswerTo(a) \in Answer
  BY DEF Turns, Heard
<1>3. app2 \in [Apps -> [conn : Connections \cup {None}, asked : Request \cup {None}]]
  BY <1>2
<1>4. told2 \in [Apps -> Answer \cup {None}]
  BY <1>2
<1>5. \A a \in Apps :
        IF Heard(a, s, C)
        THEN /\ told2[a] = answer[s.app[a].conn]
             /\ app2[a].asked = None
             /\ app2[a].conn = Kept(answer[s.app[a].conn].kind, s.app[a].conn)
        ELSE told2[a] = s.told[a] /\ app2[a] = s.app[a]
  BY <1>2 DEF Kept
<1> HIDE DEF app2, told2
<1>6. /\ t \in Turns
      /\ t.call = s.call /\ t.moves = s.moves /\ t.metrics = s.metrics /\ t.window = s.window
      /\ t.app = app2 /\ t.told = told2
  BY <1>3, <1>4 DEF Turns
<1>7. QED
  BY <1>1, <1>5, <1>6

LEMMA ReplyAllIs ==
  ASSUME NEW s \in Turns, NEW C \in SUBSET Connections, NEW kind, NEW observed,
         [kind |-> kind, observed |-> observed] \in Answer
  PROVE  /\ [c \in C |-> [kind |-> kind, observed |-> observed]] \in [C -> Answer]
         /\ ReplyAll(s, C, kind, observed) \in Turns
<1>1. [c \in C |-> [kind |-> kind, observed |-> observed]] \in [C -> Answer]
  OBVIOUS
<1>2. QED
  BY <1>1, ReplyFields DEF ReplyAll

\* The verdict is one the executor knows, and says unavailable only of a service that ends.
LEMMA Verdicts ==
  ASSUME NEW k, NEW frame, NEW error \in {"none", "gone", "invalid", "unavailable"}
  PROVE  /\ Verdict(k, frame, error) \in {"ok", "gone", "partial", "invalid", "unavailable"}
         /\ Verdict(k, frame, error) = "unavailable" => error = "unavailable"
         /\ Verdict(k, frame, error) = "ok" => frame = k.target
         /\ Verdict(k, frame, error) = "gone" => frame = Closed \/ error = "gone"
         /\ Verdict(k, frame, error) = "partial" => frame # Closed
         /\ Verdict(k, frame, error) \in {"invalid", "unavailable"} => frame = k.initial
BY DEF Verdict

\* What the end of some calls leaves: no call, no record of it and no frozen window.
FrameOf(s, c) == s.window[s.call[c].win].frame
VerdictOf(s, c, error) == Verdict(s.call[c], FrameOf(s, c), error)
LEMMA FinishFields ==
  ASSUME NEW s \in Turns, NEW C \in SUBSET Connections, \A c \in C : s.call[c].on,
         NEW error \in {"none", "gone", "invalid", "unavailable"}
  PROVE  LET t == Finish(s, C, error)
         IN /\ t \in Turns
            /\ \A c \in Connections : t.call[c] = IF c \in C THEN NoCall ELSE s.call[c]
            /\ \A w \in Windows :
                 /\ t.moves[w] = IF \E c \in C : s.call[c].win = w THEN None ELSE s.moves[w]
                 /\ t.window[w].frame = s.window[w].frame
                 /\ t.window[w].frozen <=>
                      s.window[w].frozen /\ ~(\E c \in C : s.call[c].frozen /\ s.call[c].win = w)
            /\ \A c \in t.metrics :
                 c \in s.metrics \/ (c \in C /\ VerdictOf(s, c, error) = "ok" /\ s.call[c].alive)
            /\ \A a \in Apps :
                 IF Heard(a, s, C)
                 THEN /\ t.told[a].kind = VerdictOf(s, s.app[a].conn, error)
                      /\ t.told[a].observed = FrameOf(s, s.app[a].conn)
                      /\ t.app[a].asked = None
                      /\ t.app[a].conn = Kept(VerdictOf(s, s.app[a].conn, error), s.app[a].conn)
                 ELSE t.told[a] = s.told[a] /\ t.app[a] = s.app[a]
<1> DEFINE moved == {s.call[c].win : c \in C}
           thawed == {s.call[c].win : c \in {d \in C : s.call[d].frozen}}
           call2 == [c \in Connections |-> IF c \in C THEN NoCall ELSE s.call[c]]
           moves2 == [w \in Windows |-> IF w \in moved THEN None ELSE s.moves[w]]
           window2 == [w \in Windows |-> IF w \in thawed
                         THEN [s.window[w] EXCEPT !.frozen = FALSE] ELSE s.window[w]]
           metrics2 == s.metrics \cup {c \in C : VerdictOf(s, c, error) = "ok" /\ s.call[c].alive}
           r == [s EXCEPT !.call = call2, !.moves = moves2, !.window = window2,
                          !.metrics = metrics2]
           answer == [c \in C |-> [kind |-> VerdictOf(s, c, error), observed |-> FrameOf(s, c)]]
<1>1. Finish(s, C, error) = Reply(r, answer)
  BY DEF Finish, Turns, VerdictOf, FrameOf
<1>2. \A c \in C : s.call[c] \in Call
  BY Nothing DEF Turns
<1>3. call2 \in [Connections -> Call \cup {NoCall}]
  BY DEF Turns
<1>4. moves2 \in [Windows -> Connections \cup {None}]
  BY DEF Turns
<1>5. window2 \in [Windows -> [frame : Frames \cup {Closed}, maximized : BOOLEAN,
                               actor : BOOLEAN, frozen : BOOLEAN]]
  BY DEF Turns
<1>6. metrics2 \in SUBSET Connections
  BY DEF Turns
<1>7. answer \in [C -> Answer]
  <2>1. ASSUME NEW c \in C PROVE FrameOf(s, c) \in Frames \cup {Closed}
    BY <1>2 DEF Turns, Call, FrameOf
  <2>2. ASSUME NEW c \in C
        PROVE  VerdictOf(s, c, error) \in {"ok", "gone", "partial", "invalid", "unavailable"}
    BY Verdicts DEF VerdictOf
  <2>3. QED
    BY <2>1, <2>2 DEF Answer
<1>8. \A w \in Windows :
        /\ moves2[w] = IF \E c \in C : s.call[c].win = w THEN None ELSE s.moves[w]
        /\ window2[w].frame = s.window[w].frame
        /\ window2[w].frozen <=>
             s.window[w].frozen /\ ~(\E c \in C : s.call[c].frozen /\ s.call[c].win = w)
  <2> TAKE w \in Windows
  <2>1. w \in moved <=> \E c \in C : s.call[c].win = w
    OBVIOUS
  <2>2. w \in thawed <=> \E c \in C : s.call[c].frozen /\ s.call[c].win = w
    OBVIOUS
  <2>3. s.window[w] \in [frame : Frames \cup {Closed}, maximized : BOOLEAN,
                         actor : BOOLEAN, frozen : BOOLEAN]
    BY DEF Turns
  <2> HIDE DEF moved, thawed
  <2>4. QED
    BY <2>1, <2>2, <2>3
<1>9. \A c \in Connections : call2[c] = IF c \in C THEN NoCall ELSE s.call[c]
  OBVIOUS
<1>10. \A c \in C : answer[c] = [kind |-> VerdictOf(s, c, error), observed |-> FrameOf(s, c)]
  OBVIOUS
<1> HIDE DEF call2, moves2, window2, metrics2, answer
<1>11. /\ r \in Turns /\ r.app = s.app /\ r.told = s.told
       /\ r.call = call2 /\ r.moves = moves2 /\ r.window = window2 /\ r.metrics = metrics2
  BY <1>3, <1>4, <1>5, <1>6 DEF Turns
<1> HIDE DEF r
<1>12. /\ Reply(r, answer) \in Turns
       /\ Reply(r, answer).call = call2 /\ Reply(r, answer).moves = moves2
       /\ Reply(r, answer).window = window2 /\ Reply(r, answer).metrics = metrics2
       /\ \A a \in Apps :
            IF Heard(a, s, C)
            THEN /\ Reply(r, answer).told[a] = answer[s.app[a].conn]
                 /\ Reply(r, answer).app[a].asked = None
                 /\ Reply(r, answer).app[a].conn = Kept(answer[s.app[a].conn].kind, s.app[a].conn)
            ELSE Reply(r, answer).told[a] = s.told[a] /\ Reply(r, answer).app[a] = s.app[a]
  BY <1>7, <1>11, ReplyFields DEF Heard
<1>14. \A c \in metrics2 :
          c \in s.metrics \/ (c \in C /\ VerdictOf(s, c, error) = "ok" /\ s.call[c].alive)
  BY DEF metrics2
<1>13. \A a \in Apps : Heard(a, s, C) =>
         /\ answer[s.app[a].conn].kind = VerdictOf(s, s.app[a].conn, error)
         /\ answer[s.app[a].conn].observed = FrameOf(s, s.app[a].conn)
  <2> TAKE a \in Apps
  <2> HAVE Heard(a, s, C)
  <2>1. s.app[a].conn \in C
    BY DEF Heard
  <2>2. answer[s.app[a].conn] = [kind |-> VerdictOf(s, s.app[a].conn, error),
                                 observed |-> FrameOf(s, s.app[a].conn)]
    BY <1>10, <2>1
  <2>3. QED
    BY <2>2
<1> DEFINE t == Reply(r, answer)
<1>15. \A a \in Apps :
         IF Heard(a, s, C)
         THEN /\ t.told[a].kind = VerdictOf(s, s.app[a].conn, error)
              /\ t.told[a].observed = FrameOf(s, s.app[a].conn)
              /\ t.app[a].asked = None
              /\ t.app[a].conn = Kept(VerdictOf(s, s.app[a].conn, error), s.app[a].conn)
         ELSE t.told[a] = s.told[a] /\ t.app[a] = s.app[a]
  BY <1>12, <1>13
<1> HIDE DEF t
<1>16. /\ t \in Turns
       /\ \A c \in Connections : t.call[c] = IF c \in C THEN NoCall ELSE s.call[c]
       /\ \A w \in Windows :
            /\ t.moves[w] = IF \E c \in C : s.call[c].win = w THEN None ELSE s.moves[w]
            /\ t.window[w].frame = s.window[w].frame
            /\ t.window[w].frozen <=>
                 s.window[w].frozen /\ ~(\E c \in C : s.call[c].frozen /\ s.call[c].win = w)
       /\ t.metrics = metrics2
  BY <1>8, <1>9, <1>12 DEF t
<1>17. Finish(s, C, error) = t
  BY <1>1 DEF t
<1>18. QED
  BY <1>14, <1>15, <1>16, <1>17

-----------------------------------------------------------------------------
(* The operations preserve the invariant of the record.                    *)

\* Replies to senders that have no call left, of a service that goes on.
LEMMA ReplyFits ==
  ASSUME NEW s \in Turns, NEW q \in Seq(Message), Fits(s, q),
         NEW C \in SUBSET Connections, NEW answer \in [C -> Answer],
         \A c \in C : /\ answer[c].kind # "unavailable"
                      /\ ~s.call[c].on /\ ~Asking(c, q)
  PROVE  Reply(s, answer) \in Turns /\ Fits(Reply(s, answer), q)
<1> DEFINE t == Reply(s, answer)
<1>1. /\ t \in Turns
      /\ t.call = s.call /\ t.moves = s.moves /\ t.metrics = s.metrics /\ t.window = s.window
      /\ \A a \in Apps :
           IF Heard(a, s, C)
           THEN /\ t.app[a].asked = None
                /\ t.app[a].conn = Kept(answer[s.app[a].conn].kind, s.app[a].conn)
           ELSE t.app[a] = s.app[a]
  BY ReplyFields
<1> HIDE DEF t
<1>2. \A a \in Apps :
        /\ t.app[a].conn = s.app[a].conn
        /\ t.app[a].asked = IF Heard(a, s, C) THEN None ELSE s.app[a].asked
  BY <1>1 DEF Heard, Kept
<1>3. \A c : Connected(c, t) <=> Connected(c, s)
  BY <1>2 DEF Connected
<1>4. Recorded(t) /\ Thawed(t)
  BY <1>1 DEF Fits, Recorded, Thawed
<1>5. Exclusive(t, q)
  BY <1>2 DEF Fits, Exclusive
<1>6. OneCall(t, q)
  BY <1>1, <1>2 DEF Fits, OneCall, Heard
<1>7. Alive(t, q)
  BY <1>1, <1>3 DEF Fits, Alive, Known
<1>8. Meant(t, q)
  <2>1. \A a \in Apps : t.app[a].asked # None => t.app[a] = s.app[a]
    BY <1>1
  <2>2. Meant(s, q)
    BY DEF Fits
  <2>3. QED
    BY <1>1, <2>1, <2>2 DEF Meant, MeantBy
<1>9. QED
  BY <1>1, <1>4, <1>5, <1>6, <1>7, <1>8 DEF Fits, t

\* The end of calls, of a service that goes on.
LEMMA FinishFits ==
  ASSUME NEW s \in Turns, NEW q \in Seq(Message), Fits(s, q),
         NEW C \in SUBSET Connections, \A c \in C : s.call[c].on,
         NEW error \in {"none", "gone", "invalid"}
  PROVE  Finish(s, C, error) \in Turns /\ Fits(Finish(s, C, error), q)
<1> DEFINE t == Finish(s, C, error)
<1>1. /\ t \in Turns
      /\ \A c \in Connections : t.call[c] = IF c \in C THEN NoCall ELSE s.call[c]
      /\ \A w \in Windows :
           /\ t.moves[w] = IF \E c \in C : s.call[c].win = w THEN None ELSE s.moves[w]
           /\ t.window[w].frozen <=>
                s.window[w].frozen /\ ~(\E c \in C : s.call[c].frozen /\ s.call[c].win = w)
      /\ \A c \in t.metrics : c \in s.metrics \/ (c \in C /\ s.call[c].alive)
      /\ \A a \in Apps :
           IF Heard(a, s, C)
           THEN /\ t.app[a].asked = None
                /\ t.app[a].conn = Kept(VerdictOf(s, s.app[a].conn, error), s.app[a].conn)
           ELSE t.app[a] = s.app[a]
  BY FinishFields
<1>2. \A c : VerdictOf(s, c, error) # "unavailable"
  BY Verdicts DEF VerdictOf
<1> HIDE DEF t
<1>3. \A a \in Apps :
        /\ t.app[a].conn = s.app[a].conn
        /\ t.app[a].asked = IF Heard(a, s, C) THEN None ELSE s.app[a].asked
  <2> TAKE a \in Apps
  <2>1. VerdictOf(s, s.app[a].conn, error) # "unavailable"
    BY <1>2
  <2>2. CASE Heard(a, s, C)
    BY <1>1, <2>1, <2>2 DEF Kept
  <2>3. CASE ~Heard(a, s, C)
    BY <1>1, <2>3
  <2>4. QED
    BY <2>2, <2>3
<1>4. \A c : Connected(c, t) <=> Connected(c, s)
  BY <1>3 DEF Connected
<1>5. \A c \in C : ~t.call[c].on /\ ~Asking(c, q)
  BY <1>1, Nothing DEF Fits, OneCall, NoCall, Call
<1>6. \A c \in Connections : s.call[c].on => s.call[c].win \in Windows
  <2>1. \A c \in Connections : s.call[c].on => s.call[c] \in Call
    BY Nothing DEF Turns
  <2>2. \A k \in Call : k.win \in Windows
    BY DEF Call
  <2>3. QED
    BY <2>1, <2>2
<1>7. \A w \in Windows : s.moves[w] \in Connections \cup {None}
  BY DEF Turns
<1>8. \A w \in Windows : (\E c \in C : s.call[c].win = w) <=> s.moves[w] \in C
  <2>1. \A c \in C : s.call[c].on /\ s.moves[s.call[c].win] = c
    BY DEF Fits, Recorded
  <2>2. \A w \in Windows : s.moves[w] \in C => s.call[s.moves[w]].win = w
    BY Nothing DEF Fits, Recorded
  <2>3. QED
    BY <2>1, <2>2
<1>9. Recorded(t)
  <2>1. ASSUME NEW c \in Connections, t.call[c].on PROVE t.moves[t.call[c].win] = c
    <3>1. c \notin C /\ t.call[c] = s.call[c]
      BY <2>1, <1>1, <1>5
    <3>2. s.call[c].win \in Windows /\ s.moves[s.call[c].win] = c
      BY <3>1, <2>1, <1>6 DEF Fits, Recorded
    <3>3. QED
      BY <3>1, <3>2, <1>1, <1>8
  <2>2. ASSUME NEW w \in Windows, t.moves[w] # None
        PROVE  t.call[t.moves[w]].on /\ t.call[t.moves[w]].win = w
    <3>1. t.moves[w] = s.moves[w] /\ s.moves[w] \notin C /\ s.moves[w] \in Connections
      BY <2>2, <1>1, <1>7, <1>8
    <3>2. QED
      BY <3>1, <1>1, <2>2 DEF Fits, Recorded
  <2>3. QED
    BY <2>1, <2>2 DEF Recorded
<1>10. Thawed(t)
  <2> SUFFICES ASSUME NEW w \in Windows, t.window[w].frozen
               PROVE  t.moves[w] # None /\ t.call[t.moves[w]].frozen
    BY DEF Thawed
  <2>1. /\ s.window[w].frozen /\ ~(\E c \in C : s.call[c].frozen /\ s.call[c].win = w)
        /\ s.moves[w] # None /\ s.call[s.moves[w]].frozen
    BY <1>1 DEF Fits, Thawed
  <2>2. s.moves[w] \in Connections /\ s.call[s.moves[w]].win = w
    BY <2>1, <1>7 DEF Fits, Recorded
  <2>3. s.moves[w] \notin C
    BY <2>1, <2>2
  <2>4. QED
    BY <2>1, <2>2, <2>3, <1>1, <1>8
<1>11. Exclusive(t, q)
  BY <1>3 DEF Fits, Exclusive
<1>12. OneCall(t, q)
  <2>1. \A c \in Connections : t.call[c].on => s.call[c].on
    BY <1>1, <1>5
  <2>2. \A c \in Connections : Asking(c, q) => ~t.call[c].on
    BY <2>1 DEF Fits, OneCall
  <2>3. ASSUME NEW a \in Apps, t.app[a].asked = None, t.app[a].conn # None
        PROVE  ~t.call[t.app[a].conn].on /\ ~Asking(t.app[a].conn, q)
    <3>1. s.app[a].conn \in Connections /\ t.app[a].conn = s.app[a].conn
      BY <1>3, <2>3 DEF Turns
    <3>2. CASE s.app[a].conn \in C
      BY <1>5, <3>1, <3>2
    <3>3. CASE s.app[a].conn \notin C
      BY <1>3, <2>1, <2>3, <3>1, <3>3 DEF Fits, OneCall, Heard
    <3>4. QED
      BY <3>2, <3>3
  <2>4. QED
    BY <2>2, <2>3 DEF OneCall
<1>13. Alive(t, q)
  <2> SUFFICES ASSUME NEW c \in Connections,
                      c \in t.metrics \/ Asking(c, q) \/ (t.call[c].on /\ t.call[c].alive)
               PROVE  Known(c, s, q)
    BY <1>4 DEF Alive, Known
  <2>1. c \in s.metrics \/ Asking(c, q) \/ (s.call[c].on /\ s.call[c].alive)
    BY <1>1, <1>5
  <2>2. QED
    BY <2>1 DEF Fits, Alive
<1>14. Meant(t, q)
  <2> SUFFICES ASSUME NEW a \in Apps, t.app[a].asked # None
               PROVE  MeantBy(t.app[a], t.call, q)
    BY DEF Meant, MeantBy
  <2>1. t.app[a] = s.app[a] /\ s.app[a].conn \notin C
    BY <1>1, <1>3 DEF Heard
  <2>2. MeantBy(s.app[a], s.call, q)
    BY DEF Fits, Meant
  <2>3. s.app[a].conn \in Connections
    BY <2>1, <2>2 DEF MeantBy, Turns
  <2>4. t.call[t.app[a].conn] = s.call[s.app[a].conn]
    BY <2>1, <2>3, <1>1
  <2>5. QED
    BY <2>1, <2>2, <2>4 DEF MeantBy
<1>15. QED
  BY <1>1, <1>9, <1>10, <1>11, <1>12, <1>13, <1>14 DEF Fits, t

\* A call begins for a window that no other call moves.
LEMMA BeginFits ==
  ASSUME NEW s \in Turns, NEW q \in Seq(Message), Fits(s, q),
         NEW c \in Connections, NEW w \in Windows, NEW target \in Frames,
         NEW animated \in BOOLEAN,
         s.moves[w] = None, s.window[w].frame \in Frames,
         ~s.call[c].on, ~Asking(c, q), Known(c, s, q),
         \A a \in Apps : s.app[a].conn = c =>
           /\ s.app[a].asked # None
           /\ w = s.app[a].asked.win /\ target = s.app[a].asked.target
  PROVE  LET t == Begin(s, c, w, target, animated)
         IN /\ t \in Turns /\ Fits(t, q)
            /\ t.app = s.app /\ t.told = s.told
            /\ t.call[c].on /\ t.call[c].win = w
            /\ \A d \in Connections : d # c => t.call[d] = s.call[d]
            /\ \A v \in Windows : t.window[v].frame = s.window[v].frame
<1> DEFINE k == [on |-> TRUE, win |-> w, target |-> target, initial |-> s.window[w].frame,
                 actor |-> s.window[w].actor, animated |-> animated, frozen |-> animated,
                 alive |-> TRUE, late |-> FALSE, phase |-> "restoring"]
           moves2 == [s.moves EXCEPT ![w] = c]
           window2 == [s.window EXCEPT ![w].frozen = @ \/ animated, ![w].maximized = FALSE]
           call2 == [s.call EXCEPT ![c] = k]
           t == Begin(s, c, w, target, animated)
<1>1. /\ k \in Call /\ k.on /\ k.win = w /\ k.target = target /\ k.frozen = animated /\ k.alive
      /\ moves2 \in [Windows -> Connections \cup {None}]
      /\ call2 \in [Connections -> Call \cup {NoCall}]
      /\ window2 \in [Windows -> [frame : Frames \cup {Closed}, maximized : BOOLEAN,
                                  actor : BOOLEAN, frozen : BOOLEAN]]
  <2>1. s.window[w] \in [frame : Frames \cup {Closed}, maximized : BOOLEAN,
                         actor : BOOLEAN, frozen : BOOLEAN]
    BY DEF Turns
  <2>2. k \in Call
    BY <2>1 DEF Call
  <2>3. QED
    BY <2>1, <2>2 DEF Turns
<1>2. /\ call2[c] = k /\ moves2[w] = c
      /\ \A d \in Connections : d # c => call2[d] = s.call[d]
      /\ \A v \in Windows : v # w => moves2[v] = s.moves[v] /\ window2[v] = s.window[v]
      /\ window2[w].frame = s.window[w].frame
      /\ window2[w].frozen => s.window[w].frozen \/ animated
  BY DEF Turns
<1>3. t = [s EXCEPT !.moves = moves2, !.window = window2, !.call = call2]
  BY DEF Begin, Turns
<1> HIDE DEF k, moves2, window2, call2, t
<1>4. /\ t \in Turns
      /\ t.app = s.app /\ t.told = s.told /\ t.metrics = s.metrics
      /\ t.moves = moves2 /\ t.window = window2 /\ t.call = call2
  BY <1>1, <1>3 DEF Turns
<1>5. Recorded(t)
  <2>1. \A d \in Connections : d # c /\ s.call[d].on => s.call[d].win # w
    BY ConstantsOK DEF Fits, Recorded
  <2>2. \A d \in Connections : s.call[d].on => s.call[d].win \in Windows
    <3>1. \A d \in Connections : s.call[d].on => s.call[d] \in Call
      BY Nothing DEF Turns
    <3>2. QED
      BY <3>1 DEF Call
  <2>3. \A v \in Windows : s.moves[v] # c
    BY Nothing DEF Fits, Recorded
  <2>4. \A v \in Windows : s.moves[v] \in Connections \cup {None}
    BY DEF Turns
  <2>5. ASSUME NEW d \in Connections, t.call[d].on PROVE t.moves[t.call[d].win] = d
    <3>1. CASE d = c
      BY <3>1, <1>1, <1>2, <1>4
    <3>2. CASE d # c
      <4>1. t.call[d] = s.call[d]
        BY <3>2, <1>2, <1>4
      <4>2. s.call[d].win \in Windows /\ s.call[d].win # w /\ s.moves[s.call[d].win] = d
        BY <2>5, <3>2, <4>1, <2>1, <2>2 DEF Fits, Recorded
      <4>3. QED
        BY <4>1, <4>2, <1>2, <1>4
    <3>3. QED
      BY <3>1, <3>2
  <2>6. ASSUME NEW v \in Windows, t.moves[v] # None
        PROVE  t.call[t.moves[v]].on /\ t.call[t.moves[v]].win = v
    <3>1. CASE v = w
      BY <3>1, <1>1, <1>2, <1>4
    <3>2. CASE v # w
      <4>1. t.moves[v] = s.moves[v] /\ s.moves[v] \in Connections /\ s.moves[v] # c
        BY <2>6, <3>2, <1>2, <1>4, <2>3, <2>4
      <4>2. QED
        BY <2>6, <4>1, <1>2, <1>4 DEF Fits, Recorded
    <3>3. QED
      BY <3>1, <3>2
  <2>7. QED
    BY <2>5, <2>6 DEF Recorded
<1>6. Thawed(t)
  <2> SUFFICES ASSUME NEW v \in Windows, t.window[v].frozen
               PROVE  t.moves[v] # None /\ t.call[t.moves[v]].frozen
    BY DEF Thawed
  <2>1. CASE v = w
    <3>1. ~s.window[w].frozen
      BY DEF Fits, Thawed
    <3>2. QED
      BY <2>1, <3>1, <1>1, <1>2, <1>4, ConstantsOK
  <2>2. CASE v # w
    <3>1. s.moves[v] # None /\ s.call[s.moves[v]].frozen /\ s.call[s.moves[v]].on
      BY <2>2, <1>2, <1>4 DEF Fits, Thawed, Recorded
    <3>2. s.moves[v] \in Connections /\ s.moves[v] # c
      BY <3>1 DEF Turns
    <3>3. QED
      BY <2>2, <3>1, <3>2, <1>2, <1>4
  <2>3. QED
    BY <2>1, <2>2
<1>7. Exclusive(t, q) /\ Ordered(q)
  BY <1>4 DEF Fits, Exclusive
<1>8. OneCall(t, q)
  <2>1. \A d \in Connections : Asking(d, q) => ~t.call[d].on
    BY <1>2, <1>4 DEF Fits, OneCall
  <2>2. ASSUME NEW a \in Apps, t.app[a].asked = None, t.app[a].conn # None
        PROVE  ~t.call[t.app[a].conn].on /\ ~Asking(t.app[a].conn, q)
    <3>1. t.app[a] = s.app[a] /\ s.app[a].conn \in Connections /\ s.app[a].conn # c
      BY <2>2, <1>4 DEF Turns
    <3>2. QED
      BY <2>2, <3>1, <1>2, <1>4 DEF Fits, OneCall
  <2>3. QED
    BY <2>1, <2>2 DEF OneCall
<1>9. Alive(t, q)
  <2>1. \A d : Known(d, t, q) <=> Known(d, s, q)
    BY <1>4 DEF Known, Connected
  <2>2. QED
    BY <2>1, <1>2, <1>4 DEF Fits, Alive
<1>10. Meant(t, q)
  <2> SUFFICES ASSUME NEW a \in Apps, s.app[a].asked # None PROVE MeantBy(s.app[a], call2, q)
    BY <1>4 DEF Meant, MeantBy
  <2>1. MeantBy(s.app[a], s.call, q) /\ s.app[a].conn \in Connections
    BY DEF Fits, Meant, MeantBy, Turns
  <2>2. CASE s.app[a].conn = c
    <3>1. IsCall(k, s.app[a].asked)
      BY <2>2, <1>1 DEF IsCall
    <3>2. QED
      BY <2>1, <2>2, <3>1, <1>2 DEF MeantBy
  <2>3. CASE s.app[a].conn # c
    <3>1. call2[s.app[a].conn] = s.call[s.app[a].conn]
      BY <2>1, <2>3, <1>2
    <3>2. QED
      BY <2>1, <3>1 DEF MeantBy
  <2>4. QED
    BY <2>2, <2>3
<1>11. Fits(t, q)
  BY <1>5, <1>6, <1>7, <1>8, <1>9, <1>10 DEF Fits
<1>12. /\ t.call[c].on /\ t.call[c].win = w
       /\ \A d \in Connections : d # c => t.call[d] = s.call[d]
       /\ \A v \in Windows : t.window[v].frame = s.window[v].frame
  BY <1>1, <1>2, <1>4
<1>13. QED
  BY <1>4, <1>11, <1>12 DEF t

\* Steps that change neither who owns a transition nor what it is for.
LEMMA LikeFits ==
  ASSUME NEW s \in Turns, NEW t \in Turns, NEW q \in Seq(Message), Fits(s, q),
         t.app = s.app, t.moves = s.moves, t.metrics \subseteq s.metrics,
         \A c \in Connections :
           /\ t.call[c].on <=> s.call[c].on
           /\ s.call[c].on => /\ t.call[c].win = s.call[c].win
                              /\ t.call[c].target = s.call[c].target
                              /\ t.call[c].alive => s.call[c].alive,
         \A w \in Windows : t.window[w].frozen =>
           s.window[w].frozen /\ t.call[s.moves[w]].frozen = s.call[s.moves[w]].frozen
  PROVE  Fits(t, q)
<1>1. Recorded(t)
  <2>1. \A w \in Windows : s.moves[w] \in Connections \cup {None}
    BY DEF Turns
  <2>2. QED
    BY <2>1 DEF Fits, Recorded
<1>2. Thawed(t)
  BY DEF Fits, Thawed
<1>3. Exclusive(t, q) /\ Ordered(q)
  BY DEF Fits, Exclusive
<1>4. OneCall(t, q)
  <2>1. \A a \in Apps : s.app[a].conn \in Connections \cup {None}
    BY DEF Turns
  <2>2. QED
    BY <2>1 DEF Fits, OneCall
<1>5. Alive(t, q)
  <2>1. \A c : Known(c, t, q) <=> Known(c, s, q)
    BY DEF Known, Connected
  <2>2. QED
    BY <2>1 DEF Fits, Alive
<1>6. Meant(t, q)
  <2> SUFFICES ASSUME NEW a \in Apps, s.app[a].asked # None PROVE MeantBy(s.app[a], t.call, q)
    BY DEF Meant, MeantBy
  <2>1. MeantBy(s.app[a], s.call, q) /\ s.app[a].conn \in Connections
    BY DEF Fits, Meant, MeantBy, Turns
  <2>2. QED
    BY <2>1 DEF MeantBy, IsCall
<1>7. QED
  BY <1>1, <1>2, <1>3, <1>4, <1>5, <1>6 DEF Fits

\* A frame is asked for, or the call ends.
LEMMA RequestFits ==
  ASSUME NEW s \in Turns, NEW q \in Seq(Message), Fits(s, q),
         NEW c \in Connections, s.call[c].on, NEW works \in BOOLEAN
  PROVE  /\ RequestFrame(s, c, works) \in Turns /\ Fits(RequestFrame(s, c, works), q)
         /\ works => RequestFrame(s, c, works).told = s.told
         /\ works => RequestFrame(s, c, works).window = s.window
<1>1. CASE works
  <2> DEFINE k == [s.call[c] EXCEPT !.phase = "requested"]
             call2 == [s.call EXCEPT ![c] = k]
             t == [s EXCEPT !.call = call2]
  <2>1. RequestFrame(s, c, works) = t
    BY <1>1 DEF RequestFrame, Turns
  <2>2. s.call[c] \in Call
    BY Nothing DEF Turns
  <2>3. /\ k \in Call /\ k.on = s.call[c].on /\ k.win = s.call[c].win
        /\ k.target = s.call[c].target /\ k.alive = s.call[c].alive /\ k.frozen = s.call[c].frozen
    BY <2>2 DEF Call
  <2> HIDE DEF k
  <2>4. /\ call2 \in [Connections -> Call \cup {NoCall}] /\ call2[c] = k
        /\ \A d \in Connections : d # c => call2[d] = s.call[d]
    BY <2>3 DEF Turns
  <2> HIDE DEF call2
  <2>5. /\ t \in Turns /\ t.call = call2 /\ t.app = s.app /\ t.moves = s.moves
        /\ t.metrics = s.metrics /\ t.window = s.window /\ t.told = s.told
    BY <2>4 DEF Turns
  <2> HIDE DEF t
  <2>6. \A w \in Windows : t.window[w].frozen =>
          s.window[w].frozen /\ t.call[s.moves[w]].frozen = s.call[s.moves[w]].frozen
    <3>1. \A w \in Windows : s.window[w].frozen => s.moves[w] \in Connections
      BY DEF Fits, Thawed, Turns
    <3>2. QED
      BY <3>1, <2>3, <2>4, <2>5
  <2>7. \A d \in Connections :
          /\ t.call[d].on <=> s.call[d].on
          /\ s.call[d].on => /\ t.call[d].win = s.call[d].win
                             /\ t.call[d].target = s.call[d].target
                             /\ t.call[d].alive => s.call[d].alive
    BY <2>3, <2>4, <2>5
  <2>8. t.app = s.app /\ t.moves = s.moves /\ t.metrics \subseteq s.metrics
    BY <2>5
  <2>9. Fits(t, q)
    BY <2>5, <2>6, <2>7, <2>8, LikeFits
  <2>10. QED
    BY <2>1, <2>5, <2>9
<1>2. CASE ~works
  <2>1. RequestFrame(s, c, works) = Finish(s, {c}, "invalid")
    BY <1>2 DEF RequestFrame
  <2>2. {c} \in SUBSET Connections /\ \A d \in {c} : s.call[d].on
    OBVIOUS
  <2>3. QED
    BY <1>2, <2>1, <2>2, FinishFits
<1>3. QED
  BY <1>1, <1>2

\* Supersede ends the call that moves the window, if there is one.
LEMMA SupersedeFits ==
  ASSUME NEW s \in Turns, NEW q \in Seq(Message), Fits(s, q), NEW w \in Windows
  PROVE  LET t == Supersede(s, w)
         IN /\ t \in Turns /\ Fits(t, q)
            /\ t.moves[w] = None
            /\ \A c \in Connections : ~s.call[c].on => ~t.call[c].on
            /\ \A a \in Apps : t.app[a].conn = s.app[a].conn
            /\ \A a \in Apps : t.app[a].conn # s.moves[w] => t.app[a] = s.app[a]
            /\ \A v \in Windows : t.window[v].frame = s.window[v].frame
<1>1. CASE s.moves[w] = None
  BY <1>1 DEF Supersede
<1>2. CASE s.moves[w] # None
  <2> DEFINE c == s.moves[w]
             t == Finish(s, {c}, "invalid")
  <2>1. c \in Connections /\ s.call[c].on /\ s.call[c].win = w
    BY <1>2 DEF Turns, Fits, Recorded
  <2>2. {c} \in SUBSET Connections /\ \A d \in {c} : s.call[d].on
    BY <2>1
  <2> HIDE DEF c
  <2>3. /\ t \in Turns
        /\ \A d \in Connections : t.call[d] = IF d \in {c} THEN NoCall ELSE s.call[d]
        /\ \A v \in Windows :
             /\ t.moves[v] = IF \E d \in {c} : s.call[d].win = v THEN None ELSE s.moves[v]
             /\ t.window[v].frame = s.window[v].frame
        /\ \A a \in Apps :
             IF Heard(a, s, {c})
             THEN t.app[a].conn = Kept(VerdictOf(s, s.app[a].conn, "invalid"), s.app[a].conn)
             ELSE t.app[a] = s.app[a]
    BY <2>2, FinishFields
  <2>4. Fits(t, q)
    BY <2>2, FinishFits
  <2> HIDE DEF t
  <2>5. \A d : Kept(VerdictOf(s, d, "invalid"), d) = d
    BY Verdicts DEF Kept, VerdictOf
  <2>6. \A d \in Connections : ~s.call[d].on => ~t.call[d].on
    BY <2>3 DEF NoCall
  <2>7. \A a \in Apps : /\ t.app[a].conn = s.app[a].conn
                        /\ s.app[a].conn # c => t.app[a] = s.app[a]
    <3> TAKE a \in Apps
    <3>1. Kept(VerdictOf(s, s.app[a].conn, "invalid"), s.app[a].conn) = s.app[a].conn
      BY <2>5
    <3>2. QED
      BY <3>1, <2>3 DEF Heard
  <2>8. Supersede(s, w) = t
    BY <1>2 DEF Supersede, t, c
  <2>9. QED
    BY <2>1, <2>3, <2>4, <2>6, <2>7, <2>8 DEF c
<1>3. QED
  BY <1>1, <1>2

-----------------------------------------------------------------------------
(* The inbox.                                                              *)

\* What is in an inbox from which the first message is taken.
LEMMA Taking ==
  ASSUME NEW q \in Seq(Message), q # <<>>
  PROVE  /\ Head(q) \in Message /\ Tail(q) \in Seq(Message)
         /\ 1 \in DOMAIN q /\ q[1] = Head(q)
         /\ \A i \in DOMAIN Tail(q) : i + 1 \in DOMAIN q /\ i + 1 # 1 /\ Tail(q)[i] = q[i + 1]
         /\ \A i \in DOMAIN q : i = 1 \/ (i - 1 \in DOMAIN Tail(q) /\ Tail(q)[i - 1] = q[i])
         /\ DOMAIN q \subseteq Nat /\ DOMAIN Tail(q) \subseteq Nat \ {0}
<1>1. /\ Head(q) \in Message /\ Tail(q) \in Seq(Message)
      /\ Len(q) \in Nat \ {0} /\ DOMAIN q = 1 .. Len(q) /\ Head(q) = q[1]
      /\ Len(Tail(q)) = Len(q) - 1 /\ DOMAIN Tail(q) = 1 .. Len(q) - 1
  OBVIOUS
<1>2. \A i \in 1 .. Len(q) - 1 : Tail(q)[i] = q[i + 1]
  OBVIOUS
<1>3. ASSUME NEW i \in DOMAIN q, i # 1
      PROVE  i - 1 \in DOMAIN Tail(q) /\ Tail(q)[i - 1] = q[i]
  <2>1. i - 1 \in 1 .. Len(q) - 1 /\ (i - 1) + 1 = i
    BY <1>1, <1>3
  <2>2. QED
    BY <2>1, <1>1, <1>2
<1>4. QED
  BY <1>1, <1>2, <1>3

LEMMA TakingMeans ==
  ASSUME NEW q \in Seq(Message), q # <<>>, NEW c
  PROVE  /\ Asking(c, q) <=> Asking(c, Tail(q)) \/ (Head(q).kind = "move" /\ Head(q).sender = c)
         /\ Leaving(c, q) <=> Leaving(c, Tail(q)) \/ Head(q) = Lost(c)
<1>1. Asking(c, q) <=> Asking(c, Tail(q)) \/ (Head(q).kind = "move" /\ Head(q).sender = c)
  <2>1. Asking(c, Tail(q)) => Asking(c, q)
    <3> HAVE Asking(c, Tail(q))
    <3>1. PICK i \in DOMAIN Tail(q) : Tail(q)[i].kind = "move" /\ Tail(q)[i].sender = c
      BY DEF Asking
    <3>2. i + 1 \in DOMAIN q /\ q[i + 1].kind = "move" /\ q[i + 1].sender = c
      BY <3>1, Taking
    <3>3. QED
      BY <3>2 DEF Asking
  <2>2. (Head(q).kind = "move" /\ Head(q).sender = c) => Asking(c, q)
    BY Taking DEF Asking
  <2>3. ASSUME Asking(c, q), ~((Head(q).kind = "move" /\ Head(q).sender = c)) PROVE Asking(c, Tail(q))
    <3>1. PICK i \in DOMAIN q : q[i].kind = "move" /\ q[i].sender = c
      BY <2>3 DEF Asking
    <3>2. i # 1
      BY <2>3, <3>1, Taking
    <3>3. i - 1 \in DOMAIN Tail(q) /\ Tail(q)[i - 1].kind = "move" /\ Tail(q)[i - 1].sender = c
      BY <3>1, <3>2, Taking
    <3>4. QED
      BY <3>3 DEF Asking
  <2>4. QED
    BY <2>1, <2>2, <2>3
<1>2. Leaving(c, q) <=> Leaving(c, Tail(q)) \/ Head(q) = Lost(c)
  <2>1. Leaving(c, Tail(q)) => Leaving(c, q)
    <3> HAVE Leaving(c, Tail(q))
    <3>1. PICK i \in DOMAIN Tail(q) : Tail(q)[i] = Lost(c)
      BY DEF Leaving
    <3>2. i + 1 \in DOMAIN q /\ q[i + 1] = Lost(c)
      BY <3>1, Taking
    <3>3. QED
      BY <3>2 DEF Leaving
  <2>2. (Head(q) = Lost(c)) => Leaving(c, q)
    BY Taking DEF Leaving
  <2>3. ASSUME Leaving(c, q), ~((Head(q) = Lost(c))) PROVE Leaving(c, Tail(q))
    <3>1. PICK i \in DOMAIN q : q[i] = Lost(c)
      BY <2>3 DEF Leaving
    <3>2. i # 1
      BY <2>3, <3>1, Taking
    <3>3. i - 1 \in DOMAIN Tail(q) /\ Tail(q)[i - 1] = Lost(c)
      BY <3>1, <3>2, Taking
    <3>4. QED
      BY <3>3 DEF Leaving
  <2>4. QED
    BY <2>1, <2>2, <2>3
<1>3. QED
  BY <1>1, <1>2

\* What is in an inbox to which a message is added.
LEMMA Adding ==
  ASSUME NEW q \in Seq(Message), NEW m \in Message
  PROVE  /\ Append(q, m) \in Seq(Message)
         /\ Len(q) \in Nat /\ DOMAIN q = 1 .. Len(q)
         /\ DOMAIN Append(q, m) = 1 .. Len(q) + 1
         /\ \A i \in 1 .. Len(q) : i \in 1 .. Len(q) + 1 /\ i # Len(q) + 1
                                   /\ Append(q, m)[i] = q[i]
         /\ \A i \in 1 .. Len(q) + 1 : i = Len(q) + 1 \/ i \in 1 .. Len(q)
         /\ Append(q, m)[Len(q) + 1] = m
<1>1. Append(q, m) \in Seq(Message) /\ Len(q) \in Nat /\ DOMAIN q = 1 .. Len(q)
  OBVIOUS
<1>2. DOMAIN Append(q, m) = 1 .. Len(q) + 1
  OBVIOUS
<1>3. \A i \in 1 .. Len(q) + 1 : Append(q, m)[i] = IF i = Len(q) + 1 THEN m ELSE q[i]
  OBVIOUS
<1>4. QED
  BY <1>1, <1>2, <1>3

LEMMA AddingMeans ==
  ASSUME NEW q \in Seq(Message), NEW m \in Message, NEW c
  PROVE  /\ Asking(c, Append(q, m)) <=> Asking(c, q) \/ (m.kind = "move" /\ m.sender = c)
         /\ Leaving(c, Append(q, m)) <=> Leaving(c, q) \/ m = Lost(c)
<1>1. Len(q) + 1 \in 1 .. Len(q) + 1
  BY Adding
<1>2. Asking(c, Append(q, m)) <=> Asking(c, q) \/ (m.kind = "move" /\ m.sender = c)
  BY <1>1, Adding DEF Asking
<1>3. Leaving(c, Append(q, m)) <=> Leaving(c, q) \/ m = Lost(c)
  BY <1>1, Adding DEF Leaving
<1>4. QED
  BY <1>2, <1>3

\* The kinds of messages.
LEMMA Messages ==
  /\ \A m \in Message : m.sender \in Connections
  /\ \A m \in Message : m.kind = "move" => m.win \in Windows /\ m.target \in Frames
  /\ \A m \in Message : m.kind = "lost" <=> m = Lost(m.sender)
  /\ \A m \in Message : m.kind \in {"move", "lost"}
  /\ \A c \in Connections : Lost(c) \in Message
<1>1. \A m \in [kind : {"move"}, sender : Connections, win : Windows, target : Frames] :
        /\ m.kind = "move" /\ m.sender \in Connections /\ m.win \in Windows /\ m.target \in Frames
        /\ m.kind # "lost"
  OBVIOUS
<1>2. \A m \in [kind : {"lost"}, sender : Connections] :
        /\ m.kind = "lost" /\ m.sender \in Connections /\ m = Lost(m.sender)
  BY DEF Lost
<1>3. \A c : Lost(c).kind = "lost" /\ Lost(c).sender = c
  BY DEF Lost
<1>4. \A c \in Connections : Lost(c) \in [kind : {"lost"}, sender : Connections]
  BY DEF Lost
<1>5. QED
  BY <1>1, <1>2, <1>3, <1>4 DEF Message

\* An inbox without its first message fits, but for those whose leave that was.
LEMMA TailFits ==
  ASSUME NEW s \in Turns, NEW q \in Seq(Message), q # <<>>, Fits(s, q)
  PROVE  /\ Recorded(s) /\ Thawed(s)
         /\ Exclusive(s, Tail(q)) /\ Ordered(Tail(q)) /\ OneCall(s, Tail(q)) /\ Meant(s, Tail(q))
         /\ ~Asking(Head(q).sender, Tail(q))
<1>1. Recorded(s) /\ Thawed(s)
  BY DEF Fits
<1>2. Exclusive(s, Tail(q))
  BY TakingMeans DEF Fits, Exclusive
<1>3. Ordered(Tail(q))
  <2> SUFFICES ASSUME NEW i \in DOMAIN Tail(q), NEW j \in DOMAIN Tail(q),
                      Tail(q)[j].kind = "move", Tail(q)[i].sender = Tail(q)[j].sender, i # j
               PROVE  i > j /\ Tail(q)[i].kind = "lost"
    BY DEF Ordered
  <2>1. /\ i + 1 \in DOMAIN q /\ j + 1 \in DOMAIN q /\ i \in Nat /\ j \in Nat
        /\ Tail(q)[i] = q[i + 1] /\ Tail(q)[j] = q[j + 1]
    BY Taking
  <2>2. i + 1 # j + 1
    BY <2>1
  <2>3. i + 1 > j + 1 /\ q[i + 1].kind = "lost"
    BY <2>1, <2>2 DEF Fits, Ordered
  <2>4. QED
    BY <2>1, <2>3
<1>4. OneCall(s, Tail(q))
  BY TakingMeans DEF Fits, OneCall
<1>5. Meant(s, Tail(q))
  <2> SUFFICES ASSUME NEW a \in Apps PROVE MeantBy(s.app[a], s.call, Tail(q))
    BY DEF Meant
  <2>1. MeantBy(s.app[a], s.call, q)
    BY DEF Fits, Meant
  <2>2. ASSUME NEW i \in DOMAIN Tail(q), s.app[a].asked # None,
               Tail(q)[i].kind = "move", Tail(q)[i].sender = s.app[a].conn
        PROVE  IsCall(Tail(q)[i], s.app[a].asked)
    <3>1. i + 1 \in DOMAIN q /\ Tail(q)[i] = q[i + 1]
      BY Taking
    <3>2. QED
      BY <2>1, <2>2, <3>1 DEF MeantBy
  <2>3. QED
    BY <2>1, <2>2 DEF MeantBy
<1>6. ~Asking(Head(q).sender, Tail(q))
  <2> SUFFICES ASSUME Asking(Head(q).sender, Tail(q)) PROVE FALSE
    OBVIOUS
  <2>1. PICK i \in DOMAIN Tail(q) : Tail(q)[i].kind = "move" /\ Tail(q)[i].sender = Head(q).sender
    BY DEF Asking
  <2>2. /\ i + 1 \in DOMAIN q /\ 1 \in DOMAIN q /\ i \in Nat \ {0}
        /\ q[i + 1].kind = "move" /\ q[i + 1].sender = q[1].sender
    BY <2>1, Taking
  <2>3. 1 # i + 1 /\ ~(1 > i + 1)
    BY <2>2
  <2>4. QED
    BY <2>2, <2>3 DEF Fits, Ordered
<1>7. QED
  BY <1>1, <1>2, <1>3, <1>4, <1>5, <1>6

\* A call is taken from the inbox.
LEMMA MoveTaken ==
  ASSUME NEW s \in Turns, NEW q \in Seq(Message), q # <<>>, Fits(s, q), Head(q).kind = "move"
  PROVE  LET m == Head(q)
         IN /\ Fits(s, Tail(q))
            /\ ~s.call[m.sender].on /\ ~Asking(m.sender, Tail(q)) /\ Known(m.sender, s, Tail(q))
            /\ \A a \in Apps : s.app[a].conn = m.sender =>
                 s.app[a].asked # None /\ IsCall(m, s.app[a].asked)
<1> DEFINE m == Head(q)
<1>1. m \in Message /\ m.sender \in Connections /\ Asking(m.sender, q)
  BY Taking, TakingMeans, Messages
<1>2. \A c : Leaving(c, q) <=> Leaving(c, Tail(q))
  <2>1. \A c : m # Lost(c)
    BY DEF Lost
  <2>2. QED
    BY <2>1, TakingMeans
<1>3. \A c : Known(c, s, Tail(q)) <=> Known(c, s, q)
  BY <1>2 DEF Known
<1>4. Alive(s, Tail(q))
  BY <1>3, TakingMeans DEF Fits, Alive
<1>5. Fits(s, Tail(q)) /\ ~Asking(m.sender, Tail(q))
  BY <1>4, TailFits DEF Fits
<1>6. ~s.call[m.sender].on /\ Known(m.sender, s, Tail(q))
  BY <1>1, <1>3 DEF Fits, OneCall, Alive
<1>7. ASSUME NEW a \in Apps, s.app[a].conn = m.sender
      PROVE  s.app[a].asked # None /\ IsCall(m, s.app[a].asked)
  <2>1. s.app[a].conn # None
    BY <1>1, <1>7, Nothing
  <2>2. s.app[a].asked # None
    BY <1>1, <1>7, <2>1 DEF Fits, OneCall
  <2>3. 1 \in DOMAIN q /\ q[1] = m
    BY Taking
  <2>4. QED
    BY <1>7, <2>2, <2>3 DEF Fits, Meant, MeantBy
<1>8. QED
  BY <1>5, <1>6, <1>7

\* The service hears that a sender has left.
LEMMA LostTaken ==
  ASSUME NEW s \in Turns, NEW t \in Turns, NEW q \in Seq(Message), q # <<>>, Fits(s, q),
         Head(q).kind = "lost",
         t.app = s.app, t.moves = s.moves, t.window = s.window,
         t.metrics = s.metrics \ {Head(q).sender},
         \A c \in Connections :
           /\ t.call[c].on <=> s.call[c].on
           /\ s.call[c].on => /\ t.call[c].win = s.call[c].win
                              /\ t.call[c].target = s.call[c].target
                              /\ t.call[c].frozen = s.call[c].frozen
                              /\ t.call[c].alive => s.call[c].alive /\ c # Head(q).sender
  PROVE  Fits(t, Tail(q))
<1> DEFINE c == Head(q).sender
<1>1. Head(q) = Lost(c) /\ Tail(q) \in Seq(Message)
  BY Taking, Messages
<1>2. \A d : d # c => (Leaving(d, q) <=> Leaving(d, Tail(q)))
  <2>1. \A d : d # c => Head(q) # Lost(d)
    BY DEF Lost
  <2>2. QED
    BY <2>1, TakingMeans
<1>3. Recorded(t) /\ Thawed(t) /\ Exclusive(t, Tail(q)) /\ Ordered(Tail(q))
  <2>1. Recorded(t)
    <3>1. \A w \in Windows : s.moves[w] \in Connections \cup {None}
      BY DEF Turns
    <3>2. QED
      BY <3>1 DEF Fits, Recorded
  <2>2. Thawed(t)
    <3>1. \A w \in Windows : s.moves[w] \in Connections \cup {None}
      BY DEF Turns
    <3>2. QED
      BY <3>1 DEF Fits, Thawed, Recorded
  <2>3. QED
    BY <2>1, <2>2, TailFits DEF Exclusive
<1>4. OneCall(t, Tail(q))
  <2>1. \A a \in Apps : s.app[a].conn \in Connections \cup {None}
    BY DEF Turns
  <2>2. OneCall(s, Tail(q))
    BY TailFits
  <2>3. QED
    BY <2>1, <2>2 DEF OneCall
<1>5. Alive(t, Tail(q))
  <2> SUFFICES ASSUME NEW d \in Connections,
                      d \in t.metrics \/ Asking(d, Tail(q)) \/ (t.call[d].on /\ t.call[d].alive)
               PROVE  Known(d, t, Tail(q))
    BY DEF Alive
  <2>1. d # c
    BY TailFits
  <2>2. d \in s.metrics \/ Asking(d, q) \/ (s.call[d].on /\ s.call[d].alive)
    BY TakingMeans
  <2>3. Known(d, s, q)
    BY <2>2 DEF Fits, Alive
  <2>4. QED
    BY <2>1, <2>3, <1>2 DEF Known, Connected
<1>6. Meant(t, Tail(q))
  <2> SUFFICES ASSUME NEW a \in Apps, s.app[a].asked # None PROVE MeantBy(s.app[a], t.call, Tail(q))
    BY DEF Meant, MeantBy
  <2>1. MeantBy(s.app[a], s.call, Tail(q))
    BY TailFits DEF Meant
  <2>2. s.app[a].conn \in Connections
    BY <2>1 DEF MeantBy, Turns
  <2>3. QED
    BY <2>1, <2>2 DEF MeantBy, IsCall
<1>7. QED
  BY <1>3, <1>4, <1>5, <1>6 DEF Fits

\* An App sends a call, on a connection that nothing else uses.
LEMMA MoveSent ==
  ASSUME NEW s \in Turns, NEW t \in Turns, NEW q \in Seq(Message), Fits(s, q),
         NEW a \in Apps, NEW c \in Connections, NEW w \in Windows, NEW target \in Frames,
         ~s.call[c].on, ~Asking(c, q), ~Leaving(c, q),
         \A b \in Apps : s.app[b].conn = c => b = a,
         s.app[a].conn \in {c, None},
         t.call = s.call, t.moves = s.moves, t.window = s.window, t.metrics = s.metrics,
         t.app = [s.app EXCEPT ![a] = [conn |-> c, asked |-> [win |-> w, target |-> target]]]
  PROVE  LET m == [kind |-> "move", sender |-> c, win |-> w, target |-> target]
         IN m \in Message /\ Fits(t, Append(q, m))
<1> DEFINE m == [kind |-> "move", sender |-> c, win |-> w, target |-> target]
           r == Append(q, m)
<1>1. m \in Message /\ m.kind = "move" /\ m.sender = c /\ \A d : m # Lost(d)
  <2>1. m \in [kind : {"move"}, sender : Connections, win : Windows, target : Frames]
    OBVIOUS
  <2>2. m.kind = "move" /\ \A d : Lost(d).kind = "lost"
    BY DEF Lost
  <2>3. QED
    BY <2>1, <2>2 DEF Message
<1>2. /\ t.app[a].conn = c /\ t.app[a].asked = [win |-> w, target |-> target]
      /\ t.app[a].asked # None
      /\ \A b \in Apps : b # a => t.app[b] = s.app[b]
  <2>1. [win |-> w, target |-> target] \in Request
    BY DEF Request
  <2>2. a \in DOMAIN s.app
    BY DEF Turns
  <2>3. [win |-> w, target |-> target] # None
    BY ConstantsOK, <2>1
  <2>4. QED
    BY <2>2, <2>3
<1>3. \A d : /\ Asking(d, r) <=> Asking(d, q) \/ d = c
             /\ Leaving(d, r) <=> Leaving(d, q)
  BY <1>1, AddingMeans
<1> HIDE DEF r
<1>4. Recorded(t) /\ Thawed(t)
  BY DEF Fits, Recorded, Thawed
<1>5. Exclusive(t, r)
  BY <1>2, <1>3, Nothing DEF Fits, Exclusive
<1>6. Ordered(r)
  <2> SUFFICES ASSUME NEW i \in DOMAIN r, NEW j \in DOMAIN r,
                      r[j].kind = "move", r[i].sender = r[j].sender, i # j
               PROVE  i > j /\ r[i].kind = "lost"
    BY DEF Ordered
  <2>1. i \in 1 .. Len(q) + 1 /\ j \in 1 .. Len(q) + 1
    BY <1>1, Adding DEF r
  <2>2. \A d \in DOMAIN q : q[d] \in Message
    BY Adding
  <2>3. \A d \in 1 .. Len(q) : d \in DOMAIN q /\ r[d] = q[d] /\ q[d].sender # c
    <3> TAKE d \in 1 .. Len(q)
    <3>1. d \in DOMAIN q /\ r[d] = q[d]
      BY <1>1, Adding DEF r
    <3>2. q[d].kind = "move" \/ q[d] = Lost(q[d].sender)
      BY <3>1, <2>2, Messages
    <3>3. QED
      BY <3>1, <3>2 DEF Asking, Leaving
  <2>4. r[Len(q) + 1] = m
    BY <1>1, Adding DEF r
  <2>5. i # Len(q) + 1
    BY <2>1, <2>3, <2>4, <1>1, Adding
  <2>6. j # Len(q) + 1
    BY <2>1, <2>3, <2>4, <1>1, Adding
  <2>7. i \in 1 .. Len(q) /\ j \in 1 .. Len(q)
    BY <1>1, <2>1, <2>5, <2>6, Adding
  <2>8. QED
    BY <2>3, <2>7 DEF Fits, Ordered
<1>7. OneCall(t, r)
  <2>1. \A d \in Connections : Asking(d, r) => ~t.call[d].on
    BY <1>3 DEF Fits, OneCall
  <2>2. ASSUME NEW b \in Apps, t.app[b].asked = None, t.app[b].conn # None
        PROVE  ~t.call[t.app[b].conn].on /\ ~Asking(t.app[b].conn, r)
    <3>1. b # a /\ t.app[b] = s.app[b] /\ s.app[b].conn # c
      BY <1>2, <2>2
    <3>2. QED
      BY <2>2, <3>1, <1>3 DEF Fits, OneCall
  <2>3. QED
    BY <2>1, <2>2 DEF OneCall
<1>8. Alive(t, r)
  <2> SUFFICES ASSUME NEW d \in Connections,
                      d \in t.metrics \/ Asking(d, r) \/ (t.call[d].on /\ t.call[d].alive)
               PROVE  Known(d, t, r)
    BY DEF Alive
  <2>1. CASE d = c
    BY <2>1, <1>2 DEF Known, Connected
  <2>2. CASE d # c
    <3>1. Known(d, s, q)
      BY <2>2, <1>3 DEF Fits, Alive
    <3>2. \A b \in Apps : s.app[b].conn = d => t.app[b].conn = d
      BY <2>2, <1>2, Nothing
    <3>3. QED
      BY <3>1, <3>2, <1>3 DEF Known, Connected
  <2>3. QED
    BY <2>1, <2>2
<1>9. Meant(t, r)
  <2> SUFFICES ASSUME NEW b \in Apps PROVE MeantBy(t.app[b], t.call, r)
    BY DEF Meant
  <2>1. \A i \in DOMAIN r : (i \in DOMAIN q /\ r[i] = q[i]) \/ r[i] = m
    BY <1>1, Adding DEF r
  <2>2. CASE b = a
    <3>1. IsCall(m, t.app[a].asked)
      BY <1>2 DEF IsCall
    <3>2. \A i \in DOMAIN r : r[i].kind = "move" /\ r[i].sender = c => r[i] = m
      BY <2>1 DEF Asking
    <3>3. QED
      BY <2>2, <3>1, <3>2, <1>2, Nothing DEF MeantBy
  <2>3. CASE b # a
    <3>1. t.app[b] = s.app[b] /\ s.app[b].conn # c /\ MeantBy(s.app[b], s.call, q)
      BY <2>3, <1>2 DEF Fits, Meant
    <3>2. QED
      BY <3>1, <2>1, <1>1 DEF MeantBy
  <2>4. QED
    BY <2>2, <2>3
<1>10. QED
  BY <1>1, <1>4, <1>5, <1>6, <1>7, <1>8, <1>9 DEF Fits, r

\* An App closes its connection, and the service will hear of it.
LEMMA LostSent ==
  ASSUME NEW s \in Turns, NEW t \in Turns, NEW q \in Seq(Message), Fits(s, q),
         NEW a \in Apps, s.app[a].conn # None,
         t.call = s.call, t.moves = s.moves, t.window = s.window, t.metrics = s.metrics,
         t.app = [s.app EXCEPT ![a] = [conn |-> None, asked |-> None]]
  PROVE  LET m == Lost(s.app[a].conn)
         IN m \in Message /\ Fits(t, Append(q, m))
<1> DEFINE c == s.app[a].conn
           m == Lost(c)
           r == Append(q, m)
<1>1. c \in Connections /\ m \in Message /\ m.kind = "lost" /\ m.sender = c
  <2>1. c \in Connections
    BY DEF Turns
  <2>2. QED
    BY <2>1, Messages DEF Lost
<1>2. /\ t.app[a].conn = None /\ t.app[a].asked = None
      /\ \A b \in Apps : b # a => t.app[b] = s.app[b] /\ s.app[b].conn # c
  <2>1. t.app[a] = [conn |-> None, asked |-> None] /\ \A b \in Apps : b # a => t.app[b] = s.app[b]
    BY DEF Turns
  <2>2. \A b \in Apps : b # a => s.app[b].conn # c
    BY DEF Fits, Exclusive
  <2>3. QED
    BY <2>1, <2>2
<1>3. \A d : /\ Asking(d, r) <=> Asking(d, q)
             /\ Leaving(d, r) <=> Leaving(d, q) \/ d = c
  <2>1. \A d : m = Lost(d) <=> d = c
    BY DEF Lost
  <2>2. QED
    BY <1>1, <2>1, AddingMeans
<1> HIDE DEF r, m
<1>4. Recorded(t) /\ Thawed(t)
  BY DEF Fits, Recorded, Thawed
<1>5. Exclusive(t, r)
  <2>1. ~Leaving(None, r)
    <3>1. ~Leaving(None, q)
      <4>1. \A i \in DOMAIN q : q[i].sender \in Connections
        BY Adding, <1>1, Messages
      <4>2. QED
        BY <4>1, Nothing DEF Leaving, Lost
    <3>2. QED
      BY <1>1, <1>3, <3>1, Nothing
  <2>2. QED
    BY <1>2, <1>3, <2>1 DEF Fits, Exclusive
<1>6. Ordered(r)
  <2> SUFFICES ASSUME NEW i \in DOMAIN r, NEW j \in DOMAIN r,
                      r[j].kind = "move", r[i].sender = r[j].sender, i # j
               PROVE  i > j /\ r[i].kind = "lost"
    BY DEF Ordered
  <2>1. i \in 1 .. Len(q) + 1 /\ j \in 1 .. Len(q) + 1 /\ Len(q) \in Nat
    BY <1>1, Adding DEF r
  <2>2. r[Len(q) + 1] = m
    BY <1>1, Adding DEF r
  <2>3. j \in 1 .. Len(q)
    BY <2>1, <2>2, <1>1
  <2>4. CASE i = Len(q) + 1
    BY <2>1, <2>2, <2>3, <2>4, <1>1
  <2>5. CASE i # Len(q) + 1
    <3>1. i \in 1 .. Len(q)
      BY <2>1, <2>5
    <3>2. i \in DOMAIN q /\ j \in DOMAIN q /\ r[i] = q[i] /\ r[j] = q[j]
      BY <2>3, <3>1, <1>1, Adding DEF r
    <3>3. QED
      BY <3>2 DEF Fits, Ordered
  <2>6. QED
    BY <2>4, <2>5
<1>7. OneCall(t, r)
  BY <1>2, <1>3 DEF Fits, OneCall
<1>8. Alive(t, r)
  <2> SUFFICES ASSUME NEW d \in Connections,
                      d \in t.metrics \/ Asking(d, r) \/ (t.call[d].on /\ t.call[d].alive)
               PROVE  Known(d, t, r)
    BY DEF Alive
  <2>1. Known(d, s, q)
    BY <1>3 DEF Fits, Alive
  <2>2. CASE d = c
    BY <2>2, <1>3 DEF Known
  <2>3. CASE d # c
    <3>1. \A b \in Apps : s.app[b].conn = d => t.app[b].conn = d
      BY <2>3, <1>2
    <3>2. QED
      BY <2>1, <3>1, <1>3 DEF Known, Connected
  <2>4. QED
    BY <2>2, <2>3
<1>9. Meant(t, r)
  <2> SUFFICES ASSUME NEW b \in Apps, t.app[b].asked # None PROVE MeantBy(t.app[b], t.call, r)
    BY DEF Meant, MeantBy
  <2>1. t.app[b] = s.app[b] /\ MeantBy(s.app[b], s.call, q)
    BY <1>2 DEF Fits, Meant
  <2>2. \A i \in DOMAIN r : (i \in DOMAIN q /\ r[i] = q[i]) \/ r[i] = m
    BY <1>1, Adding DEF r
  <2>3. QED
    BY <2>1, <2>2, <1>1 DEF MeantBy
<1>10. QED
  BY <1>1, <1>4, <1>5, <1>6, <1>7, <1>8, <1>9 DEF Fits, r, m

-----------------------------------------------------------------------------
(* Answers are true: those given so far in a turn that began as s0.        *)

Truth(a, answer, s0, s) ==
  LET frame == s.window[s0.app[a].asked.win].frame
      mine == s0.call[s0.app[a].conn]
  IN /\ answer.kind = "ok" => frame = s0.app[a].asked.target
     /\ answer.kind = "gone" => frame = Closed
     /\ answer.kind = "partial" => frame = answer.observed /\ frame # Closed
     /\ answer.kind \notin {"ok", "gone", "partial"} => (mine.on => frame = mine.initial)
Sound(s0, s) == \A a \in Apps : s.told[a] # None => Truth(a, s.told[a], s0, s)

\* What a call that ends tells its App is true.
LEMMA FinishSound ==
  ASSUME NEW s0 \in Turns, NEW s \in Turns, NEW q \in Seq(Message), Fits(s, q),
         NEW C \in SUBSET Connections, \A c \in C : s.call[c].on,
         NEW error \in {"none", "gone", "invalid", "unavailable"},
         error = "gone" => \A c \in C : FrameOf(s, c) = Closed,
         Sound(s0, s),
         \A a \in Apps : s.told[a] # None => s0.app[a].asked # None,
         \A a \in Apps : Heard(a, s, C) => s.app[a] = s0.app[a],
         \A c \in C : s0.call[c].on => s0.call[c] = s.call[c]
  PROVE  /\ Sound(s0, Finish(s, C, error))
         /\ \A a \in Apps : Finish(s, C, error).told[a] # None => s0.app[a].asked # None
<1> DEFINE t == Finish(s, C, error)
<1>1. /\ \A w \in Windows : t.window[w].frame = s.window[w].frame
      /\ \A a \in Apps :
           IF Heard(a, s, C)
           THEN /\ t.told[a].kind = VerdictOf(s, s.app[a].conn, error)
                /\ t.told[a].observed = FrameOf(s, s.app[a].conn)
           ELSE t.told[a] = s.told[a]
  BY FinishFields
<1> HIDE DEF t
<1>2. \A a \in Apps : s0.app[a].asked # None => s0.app[a].asked.win \in Windows
  BY Nothing DEF Turns
<1>3. ASSUME NEW a \in Apps, t.told[a] # None PROVE Truth(a, t.told[a], s0, t)
  <2>1. CASE Heard(a, s, C)
    <3> DEFINE c == s.app[a].conn
    <3>1. /\ c \in C /\ c \in Connections /\ s.call[c].on
          /\ s0.app[a] = s.app[a] /\ s.app[a].asked # None
      BY <2>1 DEF Heard
    <3>2. s.call[c].win = s.app[a].asked.win /\ s.call[c].target = s.app[a].asked.target
      BY <3>1 DEF Fits, Meant, MeantBy, IsCall
    <3>3. t.window[s0.app[a].asked.win].frame = FrameOf(s, c)
      BY <1>1, <1>2, <3>1, <3>2 DEF FrameOf
    <3>4. t.told[a].kind = VerdictOf(s, c, error) /\ t.told[a].observed = FrameOf(s, c)
      BY <1>1, <2>1
    <3> HIDE DEF c
    <3>5. /\ VerdictOf(s, c, error) \in {"ok", "gone", "partial", "invalid", "unavailable"}
          /\ VerdictOf(s, c, error) = "ok" => FrameOf(s, c) = s.call[c].target
          /\ VerdictOf(s, c, error) = "gone" => FrameOf(s, c) = Closed
          /\ VerdictOf(s, c, error) = "partial" => FrameOf(s, c) # Closed
          /\ VerdictOf(s, c, error) \in {"invalid", "unavailable"} =>
               FrameOf(s, c) = s.call[c].initial
      BY <3>1, Verdicts DEF VerdictOf
    <3>6. s0.app[a].conn = c /\ (s0.call[c].on => s0.call[c] = s.call[c])
      BY <3>1 DEF c
    <3>7. QED
      BY <3>1, <3>2, <3>3, <3>4, <3>5, <3>6 DEF Truth
  <2>2. CASE ~Heard(a, s, C)
    <3>1. t.told[a] = s.told[a] /\ Truth(a, s.told[a], s0, s) /\ s0.app[a].asked # None
      BY <1>1, <1>3, <2>2 DEF Sound
    <3>2. t.window[s0.app[a].asked.win].frame = s.window[s0.app[a].asked.win].frame
      BY <1>1, <1>2, <3>1
    <3>3. QED
      BY <3>1, <3>2 DEF Truth
  <2>3. QED
    BY <2>1, <2>2
<1>4. ASSUME NEW a \in Apps, t.told[a] # None PROVE s0.app[a].asked # None
  BY <1>1, <1>4 DEF Heard
<1>5. QED
  BY <1>3, <1>4 DEF Sound, t

\* What Apps without a call in progress are told is true if it is the same for all.
LEMMA ReplySound ==
  ASSUME NEW s0 \in Turns, NEW s \in Turns,
         NEW C \in SUBSET Connections, NEW answer \in [C -> Answer],
         Sound(s0, s),
         \A a \in Apps : Heard(a, s, C) => Truth(a, answer[s.app[a].conn], s0, s)
  PROVE  Sound(s0, Reply(s, answer))
<1> DEFINE t == Reply(s, answer)
<1>1. /\ t.window = s.window
      /\ \A a \in Apps :
           IF Heard(a, s, C)
           THEN t.told[a] = answer[s.app[a].conn]
           ELSE t.told[a] = s.told[a]
  BY ReplyFields
<1> HIDE DEF t
<1>2. \A x : \A a \in Apps : Truth(a, x, s0, t) <=> Truth(a, x, s0, s)
  BY <1>1 DEF Truth
<1>3. QED
  BY <1>1, <1>2 DEF Sound, t

\* A frame is asked for, or a true answer is given.
LEMMA RequestSound ==
  ASSUME NEW s0 \in Turns, NEW s \in Turns, NEW q \in Seq(Message), Fits(s, q),
         NEW c \in Connections, s.call[c].on, NEW works \in BOOLEAN,
         Sound(s0, s),
         \A a \in Apps : s.told[a] # None => s0.app[a].asked # None,
         \A a \in Apps : s.app[a].conn = c => s.app[a] = s0.app[a],
         s0.call[c].on => s0.call[c] = s.call[c]
  PROVE  Sound(s0, RequestFrame(s, c, works))
<1>1. CASE works
  <2> DEFINE t == RequestFrame(s, c, works)
  <2>1. t.told = s.told /\ t.window = s.window
    BY <1>1, RequestFits
  <2> HIDE DEF t
  <2>2. Sound(s0, t)
    BY <2>1 DEF Sound, Truth
  <2>3. QED
    BY <2>2 DEF t
<1>2. CASE ~works
  <2>1. RequestFrame(s, c, works) = Finish(s, {c}, "invalid")
    BY <1>2 DEF RequestFrame
  <2>2. \A a \in Apps : Heard(a, s, {c}) => s.app[a] = s0.app[a]
    BY DEF Heard
  <2>3. QED
    BY <2>1, <2>2, FinishSound
<1>3. QED
  BY <1>1, <1>2

-----------------------------------------------------------------------------
(* The steps.                                                              *)

\* The record that a turn starts from.
LEMMA TurnIs ==
  ASSUME IInv
  PROVE  /\ Turn \in Turns /\ inbox \in Seq(Message)
         /\ Turn.app = app /\ Turn.call = call /\ Turn.moves = moves
         /\ Turn.metrics = metrics /\ Turn.window = window
         /\ \A a \in Apps : Turn.told[a] = None
         /\ Sound(Turn, Turn)
<1>1. Silence \in [Apps -> Answer \cup {None}] /\ \A a \in Apps : Silence[a] = None
  BY DEF Silence
<1>2. Turn \in Turns
  BY <1>1 DEF IInv, TypeOK, Turn, Turns
<1>3. /\ Turn.app = app /\ Turn.call = call /\ Turn.moves = moves
      /\ Turn.metrics = metrics /\ Turn.window = window /\ Turn.told = Silence
  BY DEF Turn
<1>4. QED
  BY <1>1, <1>2, <1>3 DEF IInv, TypeOK, Sound

\* What a turn that keeps the invariant of the record leaves.
LEMMA TurnEnds ==
  ASSUME IInv, NEW t \in Turns, Fits(t, inbox'), inbox' \in Seq(Message),
         Return(t), up' \in BOOLEAN, Calm \/ Fault, Idle', Sound(Turn, t)
  PROVE  IInv' /\ AnswersTrue
<1>1. /\ app' = t.app /\ told' = t.told /\ call' = t.call /\ moves' = t.moves
      /\ metrics' = t.metrics /\ window' = t.window
  BY DEF Return
<1>2. faults' \in 0 .. MaxFaults
  BY ConstantsOK DEF IInv, TypeOK, Calm, Fault
<1>3. TypeOK'
  BY <1>1, <1>2 DEF TypeOK, Turns
<1>4. Turn'.app = t.app /\ Turn'.call = t.call /\ Turn'.moves = t.moves
      /\ Turn'.metrics = t.metrics /\ Turn'.window = t.window
  BY <1>1 DEF Turn
<1>5. Fits(Turn', inbox')
  BY <1>4 DEF Fits, Recorded, Thawed, Exclusive, OneCall, Alive, Known, Connected, Meant
<1>6. AnswersTrue
  <2>1. \A a \in Apps : told'[a] # None => Truth(a, told'[a], Turn, t)
    BY <1>1 DEF Sound
  <2>2. Turn.app = app /\ Turn.call = call
    BY TurnIs
  <2>3. QED
    BY <1>1, <2>1, <2>2 DEF AnswersTrue, Truth
<1>7. QED
  BY <1>3, <1>5, <1>6 DEF IInv

\* Steps in which nobody is told anything.
LEMMA SilentStep ==
  ASSUME IInv, NEW t \in Turns, Fits(t, inbox'), inbox' \in Seq(Message),
         app' = t.app, call' = t.call, moves' = t.moves, metrics' = t.metrics,
         window' = t.window, told' = Silence, t.told = Silence,
         up' \in BOOLEAN, Calm \/ Fault, Idle'
  PROVE  IInv' /\ AnswersTrue
<1>1. Return(t)
  BY DEF Return
<1>2. Sound(Turn, t)
  BY DEF Sound, Silence
<1>3. QED
  BY <1>1, <1>2, TurnEnds

\* The service goes on, so that it is not idle; or it does nothing while it is.
LEMMA StillIdle ==
  ASSUME IInv
  PROVE  /\ up /\ up' = up => Idle'
         /\ \A c \in Connections : call[c].on => up
         /\ \A w \in Windows : moves[w] # None => up
         /\ \A c \in metrics : up
<1>1. \A w \in Windows : moves[w] # None => moves[w] \in Connections /\ call[moves[w]].on
  BY TurnIs DEF IInv, TypeOK, Fits, Recorded
<1>2. QED
  BY <1>1 DEF IInv, Idle

\* A call in progress is a call, of a window.
LEMMA CallsAre ==
  ASSUME IInv, NEW c \in Connections, call[c].on
  PROVE  call[c] \in Call /\ call[c].win \in Windows
<1>1. call[c] \in Call
  BY Nothing DEF IInv, TypeOK
<1>2. \A k \in Call : k.win \in Windows
  BY DEF Call
<1>3. QED
  BY <1>1, <1>2

\* The service takes a MoveWindow from the inbox.
LEMMA HandleMoveStep == ASSUME IInv, HandleMove PROVE IInv' /\ AnswersTrue
<1>1. PICK eligible \in BOOLEAN, animated \in BOOLEAN, works \in BOOLEAN :
        LET m == Head(inbox)
            s == [Turn EXCEPT !.metrics = @ \ {m.sender}]
            begun == Begin(Supersede(s, m.win), m.sender, m.win, m.target, animated)
        IN /\ up /\ inbox # <<>> /\ m.kind = "move"
           /\ \/ /\ window[m.win].frame = Closed
                 /\ Return(ReplyAll(s, {m.sender}, "gone", Closed))
                 /\ Calm
              \/ /\ window[m.win].frame # Closed /\ ~eligible
                 /\ Return(ReplyAll(s, {m.sender}, "invalid", window[m.win].frame))
                 /\ Calm
              \/ /\ window[m.win].frame # Closed /\ eligible
                 /\ animated => CanAnimate(m.win, m.target)
                 /\ IF window[m.win].maximized /\ window[m.win].actor
                    THEN Return(begun) /\ Calm
                    ELSE Return(RequestFrame(begun, m.sender, works)) /\ Works(works)
           /\ inbox' = Tail(inbox)
           /\ UNCHANGED up
  BY DEF HandleMove
<1> DEFINE m == Head(inbox)
           c == m.sender
           w == m.win
           s == [Turn EXCEPT !.metrics = @ \ {c}]
           q == Tail(inbox)
<1>2. m \in Message /\ c \in Connections /\ w \in Windows /\ m.target \in Frames /\ q \in Seq(Message)
  BY <1>1, TurnIs, Taking, Messages
<1>3. /\ s \in Turns /\ s.app = app /\ s.call = call /\ s.moves = moves /\ s.window = window
      /\ s.metrics \subseteq Turn.metrics /\ s.told = Turn.told
  BY TurnIs DEF Turns
<1> HIDE DEF s
<1>4. Fits(s, inbox)
  <2>1. Fits(Turn, inbox)
    BY DEF IInv
  <2>2. QED
    BY <2>1, <1>3, TurnIs, LikeFits
<1>5. /\ Fits(s, q) /\ ~s.call[c].on /\ ~Asking(c, q) /\ Known(c, s, q)
      /\ \A a \in Apps : s.app[a].conn = c => s.app[a].asked # None /\ IsCall(m, s.app[a].asked)
  BY <1>1, <1>3, <1>4, TurnIs, MoveTaken
<1>6. Sound(Turn, s) /\ \A a \in Apps : s.told[a] = None
  BY <1>3, TurnIs DEF Sound
<1>7. Idle' /\ up' \in BOOLEAN /\ inbox' = q
  BY <1>1, StillIdle
<1>8. window[w].frame \in Frames \cup {Closed}
  BY <1>2 DEF IInv, TypeOK
<1>9. ASSUME NEW kind \in {"gone", "invalid"}, NEW observed \in Frames \cup {Closed},
             kind = "gone" => window[w].frame = Closed,
             Return(ReplyAll(s, {c}, kind, observed)), Calm
      PROVE  IInv' /\ AnswersTrue
  <2> DEFINE answer == [d \in {c} |-> [kind |-> kind, observed |-> observed]]
  <2>1. [kind |-> kind, observed |-> observed] \in Answer
    BY DEF Answer
  <2>2. answer \in [{c} -> Answer] /\ {c} \in SUBSET Connections
    BY <2>1, <1>2
  <2>3. \A d \in {c} : answer[d].kind = kind /\ answer[d].observed = observed
    OBVIOUS
  <2> HIDE DEF answer
  <2>4. Reply(s, answer) \in Turns /\ Fits(Reply(s, answer), q)
    <3>1. \A d \in {c} : answer[d].kind # "unavailable" /\ ~s.call[d].on /\ ~Asking(d, q)
      BY <2>3, <1>5
    <3>2. QED
      BY <1>2, <1>3, <1>5, <2>2, <3>1, ReplyFits
  <2>5. Sound(Turn, Reply(s, answer))
    <3>1. ASSUME NEW a \in Apps, Heard(a, s, {c})
          PROVE  Truth(a, answer[s.app[a].conn], Turn, s)
      <4>1. s.app[a].conn = c /\ IsCall(m, s.app[a].asked)
        BY <3>1, <1>5 DEF Heard
      <4>2. answer[s.app[a].conn].kind = kind
        BY <4>1, <2>3
      <4>3. Turn.app[a].asked.win = w /\ ~Turn.call[Turn.app[a].conn].on /\ s.window = window
        BY <4>1, <1>3, <1>5, TurnIs DEF IsCall
      <4>4. QED
        BY <4>2, <4>3, <1>9 DEF Truth
    <3>2. QED
      BY <3>1, <1>3, <1>6, <2>2, TurnIs, ReplySound
  <2>6. Return(Reply(s, answer))
    BY <1>9 DEF ReplyAll, answer
  <2>7. QED
    BY <1>2, <1>7, <1>9, <2>4, <2>5, <2>6, TurnEnds
<1>10. ASSUME window[w].frame # Closed,
              LET begun == Begin(Supersede(s, w), c, w, m.target, animated)
              IN IF window[w].maximized /\ window[w].actor
                 THEN Return(begun) /\ Calm
                 ELSE Return(RequestFrame(begun, c, works)) /\ Works(works)
       PROVE  IInv' /\ AnswersTrue
  <2> HIDE DEF q, w, c, m
  <2> DEFINE u == Supersede(s, w)
             begun == Begin(u, c, w, m.target, animated)
             last == RequestFrame(begun, c, works)
  <2>1. /\ u \in Turns /\ Fits(u, q) /\ u.moves[w] = None /\ ~u.call[c].on
        /\ \A a \in Apps : u.app[a].conn = s.app[a].conn
        /\ \A a \in Apps : u.app[a].conn # s.moves[w] => u.app[a] = s.app[a]
        /\ \A v \in Windows : u.window[v].frame = s.window[v].frame
    BY <1>2, <1>3, <1>5, SupersedeFits
  <2>2. s.moves[w] # c /\ (s.moves[w] # None => s.moves[w] \in Connections /\ s.call[s.moves[w]].on)
    BY <1>2, <1>3, <1>5, Nothing DEF Fits, Recorded, Turns
  <2>3. \A a \in Apps : u.app[a].conn = c => u.app[a] = s.app[a]
    BY <2>1, <2>2
  <2>4. Sound(Turn, u) /\ \A a \in Apps : u.told[a] # None => Turn.app[a].asked # None
    <3>1. CASE s.moves[w] = None
      BY <3>1, <1>6 DEF Supersede
    <3>2. CASE s.moves[w] # None
      <4> DEFINE C == {s.moves[w]}
      <4>1. C \in SUBSET Connections /\ \A d \in C : s.call[d].on
        BY <2>2, <3>2
      <4>2. u = Finish(s, C, "invalid")
        BY <3>2 DEF Supersede
      <4>3. /\ \A a \in Apps : s.told[a] # None => Turn.app[a].asked # None
            /\ \A a \in Apps : Heard(a, s, C) => s.app[a] = Turn.app[a]
            /\ \A d \in C : Turn.call[d].on => Turn.call[d] = s.call[d]
        BY <1>3, <1>6, TurnIs
      <4> HIDE DEF C, u
      <4>4. QED
        BY <4>1, <4>2, <4>3, <1>2, <1>3, <1>5, <1>6, TurnIs, FinishSound
    <3>3. QED
      BY <3>1, <3>2
  <2>5. Known(c, u, q)
    BY <1>5, <2>1 DEF Known, Connected
  <2>6. \A a \in Apps : u.app[a].conn = c =>
          u.app[a].asked # None /\ w = u.app[a].asked.win /\ m.target = u.app[a].asked.target
    BY <1>5, <2>1, <2>3 DEF IsCall, w
  <2>7. u.window[w].frame \in Frames
    BY <1>2, <1>3, <1>8, <1>10, <2>1
  <2> HIDE DEF u
  <2>8. /\ begun \in Turns /\ Fits(begun, q)
        /\ begun.app = u.app /\ begun.told = u.told
        /\ begun.call[c].on /\ begun.call[c].win = w
        /\ \A v \in Windows : begun.window[v].frame = u.window[v].frame
    BY <1>2, <1>5, <2>1, <2>5, <2>6, <2>7, BeginFits
  <2> HIDE DEF begun
  <2>9. Sound(Turn, begun) /\ \A a \in Apps : begun.told[a] # None => Turn.app[a].asked # None
    <3>1. \A a \in Apps : Turn.app[a].asked # None => Turn.app[a].asked.win \in Windows
      BY TurnIs, Nothing DEF Turns
    <3>2. QED
      BY <3>1, <2>4, <2>8 DEF Sound, Truth
  <2>10. CASE window[w].maximized /\ window[w].actor
    <3>1. Return(begun) /\ Calm
      BY <1>10, <2>10 DEF begun, u
    <3>2. QED
      BY <3>1, <2>8, <2>9, <1>2, <1>7, TurnEnds
  <2>11. CASE ~(window[w].maximized /\ window[w].actor)
    <3>1. Return(last) /\ (Calm \/ Fault)
      BY <1>10, <2>11 DEF begun, u, Works
    <3>2. last \in Turns /\ Fits(last, q)
      BY <1>2, <2>8, RequestFits
    <3>3. /\ \A a \in Apps : begun.app[a].conn = c => begun.app[a] = Turn.app[a]
          /\ Turn.call[c].on => Turn.call[c] = begun.call[c]
      BY <2>1, <2>3, <2>8, <1>3, <1>5, TurnIs
    <3>4. Sound(Turn, last)
      BY <3>3, <1>2, <2>8, <2>9, TurnIs, RequestSound
    <3>5. QED
      BY <3>1, <3>2, <3>4, <1>2, <1>7, TurnEnds
  <2>12. QED
    BY <2>10, <2>11
<1>11. QED
  BY <1>1, <1>8, <1>9, <1>10 DEF s

\* The service hears that a sender has left.
LEMMA HandleLostStep == ASSUME IInv, HandleLost PROVE IInv' /\ AnswersTrue
<1> DEFINE c == Head(inbox).sender
           call2 == IF \E w \in Windows : moves[w] = c
                    THEN [call EXCEPT ![c].alive = FALSE] ELSE call
           t == [Turn EXCEPT !.metrics = @ \ {c}, !.call = call2]
<1>1. /\ up /\ inbox # <<>> /\ Head(inbox).kind = "lost"
      /\ metrics' = metrics \ {c} /\ call' = call2
      /\ inbox' = Tail(inbox) /\ told' = Silence /\ Calm
      /\ app' = app /\ up' = up /\ moves' = moves /\ window' = window
  BY DEF HandleLost
<1>2. c \in Connections /\ Tail(inbox) \in Seq(Message)
  BY <1>1, TurnIs, Taking, Messages
<1>3. /\ \A d \in Connections : call[d] \in Call \cup {NoCall}
      /\ \A d \in Connections : call[d].on <=> call[d] \in Call
  BY TurnIs, Nothing DEF Turns
<1>4. call[c].on => \E w \in Windows : moves[w] = c
  <2>1. call[c].on => call[c].win \in Windows /\ moves[call[c].win] = c
    BY <1>2, <1>3, TurnIs DEF IInv, Fits, Recorded, Call
  <2>2. QED
    BY <2>1
<1>5. (\E w \in Windows : moves[w] = c) => call[c].on
  BY <1>2, TurnIs, Nothing DEF IInv, Fits, Recorded
<1>6. \A d \in Connections :
        /\ call2[d] \in Call \cup {NoCall}
        /\ call2[d].on <=> call[d].on
        /\ call[d].on => /\ call2[d].win = call[d].win /\ call2[d].target = call[d].target
                         /\ call2[d].frozen = call[d].frozen
                         /\ call2[d].alive => call[d].alive /\ d # c
  <2>1. CASE call[c].on
    <3> DEFINE k == [call[c] EXCEPT !.alive = FALSE]
    <3>1. /\ k \in Call /\ k.on /\ k.win = call[c].win /\ k.target = call[c].target
          /\ k.frozen = call[c].frozen /\ ~k.alive
      BY <1>2, <1>3, <2>1 DEF Call
    <3>2. call2 = [call EXCEPT ![c] = k]
      BY <2>1, <1>4
    <3> HIDE DEF k, call2
    <3>3. call2[c] = k /\ \A d \in Connections : d # c => call2[d] = call[d]
      BY <3>2, <1>2 DEF IInv, TypeOK
    <3>4. QED
      BY <2>1, <3>1, <3>3, <1>3
  <2>2. CASE ~call[c].on
    <3>1. call2 = call
      BY <2>2, <1>5
    <3>2. QED
      BY <2>2, <3>1, <1>3
  <2>3. QED
    BY <2>1, <2>2
<1>7. call2 \in [Connections -> Call \cup {NoCall}]
  <2>1. call2 = [d \in Connections |-> call2[d]]
    BY DEF IInv, TypeOK
  <2>2. QED
    BY <2>1, <1>6
<1> HIDE DEF call2
<1>8. /\ t \in Turns /\ t.app = app /\ t.moves = moves /\ t.window = window
      /\ t.metrics = metrics \ {c} /\ t.call = call2 /\ t.told = Turn.told
  BY <1>7, TurnIs DEF Turns
<1> HIDE DEF t, c
<1>9. Fits(t, Tail(inbox))
  <2>1. Fits(Turn, inbox)
    BY DEF IInv
  <2>2. /\ t.app = Turn.app /\ t.moves = Turn.moves /\ t.window = Turn.window
        /\ t.metrics = Turn.metrics \ {Head(inbox).sender}
        /\ \A d \in Connections :
             /\ t.call[d].on <=> Turn.call[d].on
             /\ Turn.call[d].on =>
                  /\ t.call[d].win = Turn.call[d].win /\ t.call[d].target = Turn.call[d].target
                  /\ t.call[d].frozen = Turn.call[d].frozen
                  /\ t.call[d].alive => Turn.call[d].alive /\ d # Head(inbox).sender
    BY <1>6, <1>8, TurnIs DEF c
  <2>3. QED
    BY <1>1, <1>8, <2>1, <2>2, TurnIs, LostTaken
<1>10. t.told = Silence
  BY <1>8 DEF Turn
<1>11. QED
  BY <1>1, <1>2, <1>8, <1>9, <1>10, SilentStep, StillIdle

\* The window of a call acknowledges its restore.
LEMMA RestoreAcknowledgedStep ==
  ASSUME IInv, NEW c \in Connections, RestoreAcknowledged(c)
  PROVE  IInv' /\ AnswersTrue
<1>1. PICK frame \in Frames, works \in BOOLEAN :
        /\ call[c].on
        /\ Return(RequestFrame([Turn EXCEPT !.window[call[c].win].frame = frame], c, works))
        /\ Works(works)
        /\ UNCHANGED <<up, inbox>>
  BY DEF RestoreAcknowledged
<1> DEFINE w == call[c].win
           s == [Turn EXCEPT !.window[w].frame = frame]
           t == RequestFrame(s, c, works)
<1>2. w \in Windows
  BY <1>1, CallsAre
<1>3. /\ s \in Turns /\ s.app = app /\ s.call = call /\ s.moves = moves /\ s.metrics = metrics
      /\ s.told = Turn.told
      /\ \A v \in Windows : s.window[v].frozen = window[v].frozen
  <2> DEFINE window2 == [window EXCEPT ![w].frame = frame]
  <2>1. s = [Turn EXCEPT !.window = window2]
    BY TurnIs DEF Turn
  <2>2. /\ window2 \in [Windows -> [frame : Frames \cup {Closed}, maximized : BOOLEAN,
                                    actor : BOOLEAN, frozen : BOOLEAN]]
        /\ \A v \in Windows : window2[v].frozen = window[v].frozen
    BY <1>2 DEF IInv, TypeOK
  <2> HIDE DEF window2
  <2>3. QED
    BY <2>1, <2>2, TurnIs DEF Turns
<1> HIDE DEF s
<1>4. Fits(s, inbox)
  <2>1. Fits(Turn, inbox)
    BY DEF IInv
  <2>2. QED
    BY <2>1, <1>3, TurnIs, LikeFits
<1>5. t \in Turns /\ Fits(t, inbox)
  BY <1>1, <1>3, <1>4, TurnIs, RequestFits
<1>6. Sound(Turn, t)
  <2>1. /\ Sound(Turn, s)
        /\ \A a \in Apps : s.told[a] # None => Turn.app[a].asked # None
        /\ \A a \in Apps : s.app[a].conn = c => s.app[a] = Turn.app[a]
        /\ Turn.call[c].on => Turn.call[c] = s.call[c]
    BY <1>3, TurnIs DEF Sound
  <2>2. QED
    BY <2>1, <1>1, <1>3, <1>4, TurnIs, RequestSound
<1>7. Return(t) /\ (Calm \/ Fault) /\ inbox' = inbox /\ up' = up
  BY <1>1 DEF s, Works
<1>8. Idle' /\ up' \in BOOLEAN
  BY <1>1, <1>7, StillIdle DEF IInv, TypeOK
<1>9. QED
  BY <1>5, <1>6, <1>7, <1>8, TurnIs, TurnEnds

\* Every step that only ends one call.
LEMMA EndStep ==
  ASSUME IInv, NEW c \in Connections, call[c].on, NEW error \in {"none", "invalid"},
         Return(Finish(Turn, {c}, error)), Calm, UNCHANGED <<up, inbox>>
  PROVE  IInv' /\ AnswersTrue
<1> DEFINE t == Finish(Turn, {c}, error)
           C == {c}
<1>1. C \in SUBSET Connections /\ \A d \in C : Turn.call[d].on
  BY TurnIs
<1>2. t \in Turns /\ Fits(t, inbox)
  BY <1>1, TurnIs, FinishFits DEF IInv
<1>3. Sound(Turn, t)
  BY <1>1, TurnIs, FinishSound DEF IInv
<1> HIDE DEF t
<1>4. Idle' /\ up' \in BOOLEAN /\ inbox' = inbox
  BY StillIdle DEF IInv, TypeOK
<1>5. QED
  BY <1>2, <1>3, <1>4, TurnIs, TurnEnds DEF t

\* The 16 ms timer finds the window at its target.
LEMMA TargetReachedStep ==
  ASSUME IInv, NEW c \in Connections, TargetReached(c)
  PROVE  IInv' /\ AnswersTrue
<1> DEFINE k == call[c]
           w == k.win
           t == [Turn EXCEPT !.call[c].phase = "animating", !.call[c].frozen = FALSE,
                             !.window[w].frozen = FALSE]
<1>1. /\ k.on /\ Calm /\ up' = up /\ inbox' = inbox
      /\ IF k.animated THEN Return(t) ELSE Return(Finish(Turn, {c}, "none"))
  BY DEF TargetReached
<1>2. CASE ~k.animated
  BY <1>1, <1>2, EndStep
<1>3. CASE k.animated
  <2> DEFINE k2 == [k EXCEPT !.phase = "animating", !.frozen = FALSE]
             call2 == [call EXCEPT ![c] = k2]
             window2 == [window EXCEPT ![w].frozen = FALSE]
  <2>1. k \in Call /\ w \in Windows
    BY <1>1, CallsAre
  <2>2. k2 \in Call /\ k2.on /\ k2.win = w /\ k2.target = k.target /\ k2.alive = k.alive
    BY <2>1 DEF Call
  <2>3. t = [Turn EXCEPT !.call = call2, !.window = window2]
    BY TurnIs DEF Turn, IInv, TypeOK
  <2>4. /\ window2 \in [Windows -> [frame : Frames \cup {Closed}, maximized : BOOLEAN,
                                    actor : BOOLEAN, frozen : BOOLEAN]]
        /\ \A v \in Windows : window2[v].frozen => window[v].frozen /\ v # w
    BY <2>1 DEF IInv, TypeOK
  <2> HIDE DEF k2
  <2>5. /\ call2 \in [Connections -> Call \cup {NoCall}] /\ call2[c] = k2
        /\ \A d \in Connections : d # c => call2[d] = call[d]
    BY <2>2 DEF IInv, TypeOK
  <2> HIDE DEF call2, window2, t
  <2>6. /\ t \in Turns /\ t.app = app /\ t.moves = moves /\ t.metrics = metrics
        /\ t.call = call2 /\ t.window = window2 /\ t.told = Turn.told
    BY <2>3, <2>4, <2>5, TurnIs DEF Turns
  <2>7. Fits(Turn, inbox)
    BY DEF IInv
  <2>8. \A v \in Windows : t.window[v].frozen =>
          Turn.window[v].frozen /\ t.call[Turn.moves[v]].frozen = Turn.call[Turn.moves[v]].frozen
    <3> SUFFICES ASSUME NEW v \in Windows, window2[v].frozen
                 PROVE  window[v].frozen /\ call2[moves[v]] = call[moves[v]]
      BY <2>6, TurnIs
    <3>1. window[v].frozen /\ v # w
      BY <2>4
    <3>2. moves[v] \in Connections /\ call[moves[v]].win = v
      BY <3>1, <2>7, TurnIs DEF Fits, Thawed, Recorded, Turns
    <3>3. QED
      BY <3>1, <3>2, <2>5
  <2>9. \A d \in Connections :
          /\ t.call[d].on <=> Turn.call[d].on
          /\ Turn.call[d].on => /\ t.call[d].win = Turn.call[d].win
                                /\ t.call[d].target = Turn.call[d].target
                                /\ t.call[d].alive => Turn.call[d].alive
    BY <1>1, <2>2, <2>5, <2>6, TurnIs
  <2>10. t.app = Turn.app /\ t.moves = Turn.moves /\ t.metrics \subseteq Turn.metrics
    BY <2>6, TurnIs
  <2>11. Fits(t, inbox)
    BY <2>6, <2>7, <2>8, <2>9, <2>10, TurnIs, LikeFits
  <2>12. Sound(Turn, t)
    BY <2>6, TurnIs DEF Sound
  <2>13. Return(t) /\ Idle' /\ up' \in BOOLEAN
    BY <1>1, <1>3, StillIdle DEF IInv, TypeOK
  <2>14. QED
    BY <1>1, <2>6, <2>11, <2>12, <2>13, TurnIs, TurnEnds
<1>4. QED
  BY <1>2, <1>3

\* A call waits half a second.
LEMMA HalfSecondPassesStep ==
  ASSUME IInv, NEW c \in Connections, HalfSecondPasses(c)
  PROVE  IInv' /\ AnswersTrue
<1> DEFINE k == [call[c] EXCEPT !.late = TRUE]
           call2 == [call EXCEPT ![c] = k]
           t == [Turn EXCEPT !.call = call2]
<1>1. /\ call[c].on /\ call' = call2 /\ told' = Silence /\ Calm
      /\ app' = app /\ up' = up /\ moves' = moves /\ metrics' = metrics /\ window' = window
      /\ inbox' = inbox
  BY DEF HalfSecondPasses
<1>2. /\ k \in Call /\ k.on /\ k.win = call[c].win /\ k.target = call[c].target
      /\ k.frozen = call[c].frozen /\ k.alive = call[c].alive
  BY <1>1, CallsAre DEF Call
<1> HIDE DEF k
<1>3. /\ call2 \in [Connections -> Call \cup {NoCall}] /\ call2[c] = k
      /\ \A d \in Connections : d # c => call2[d] = call[d]
  BY <1>2 DEF IInv, TypeOK
<1> HIDE DEF call2
<1>4. /\ t \in Turns /\ t.app = app /\ t.moves = moves /\ t.metrics = metrics
      /\ t.call = call2 /\ t.window = window /\ t.told = Turn.told
  BY <1>3, TurnIs DEF Turns
<1> HIDE DEF t
<1>5. Fits(Turn, inbox)
  BY DEF IInv
<1>6. \A w \in Windows : t.window[w].frozen =>
        Turn.window[w].frozen /\ t.call[Turn.moves[w]].frozen = Turn.call[Turn.moves[w]].frozen
  <2>1. \A w \in Windows : window[w].frozen => moves[w] \in Connections
    BY <1>5, TurnIs DEF Fits, Thawed, Turns
  <2>2. QED
    BY <2>1, <1>2, <1>3, <1>4, TurnIs
<1>7. \A d \in Connections :
        /\ t.call[d].on <=> Turn.call[d].on
        /\ Turn.call[d].on => /\ t.call[d].win = Turn.call[d].win
                              /\ t.call[d].target = Turn.call[d].target
                              /\ t.call[d].alive => Turn.call[d].alive
  BY <1>1, <1>2, <1>3, <1>4, TurnIs
<1>8. t.app = Turn.app /\ t.moves = Turn.moves /\ t.metrics \subseteq Turn.metrics
  BY <1>4, TurnIs
<1>9. Fits(t, inbox)
  BY <1>4, <1>5, <1>6, <1>7, <1>8, TurnIs, LikeFits
<1>10. Idle' /\ up' \in BOOLEAN /\ t.told = Silence
  BY <1>1, <1>4, StillIdle DEF IInv, TypeOK, Turn
<1>11. QED
  BY <1>1, <1>4, <1>9, <1>10, TurnIs, SilentStep

\* Steps that only change windows, and never freeze one.
LEMMA WindowStep ==
  ASSUME IInv,
         window' \in [Windows -> [frame : Frames \cup {Closed}, maximized : BOOLEAN,
                                  actor : BOOLEAN, frozen : BOOLEAN]],
         \A w \in Windows : window'[w].frozen => window[w].frozen,
         told' = Silence, Calm, UNCHANGED <<app, up, call, moves, metrics, inbox>>
  PROVE  IInv' /\ AnswersTrue
<1> DEFINE t == [Turn EXCEPT !.window = window']
<1>1. /\ t \in Turns /\ t.app = app /\ t.moves = moves /\ t.metrics = metrics
      /\ t.call = call /\ t.window = window' /\ t.told = Turn.told
  BY TurnIs DEF Turns
<1> HIDE DEF t
<1>2. Fits(Turn, inbox)
  BY DEF IInv
<1>3. Fits(t, inbox)
  BY <1>1, <1>2, TurnIs, LikeFits
<1>4. Idle' /\ up' \in BOOLEAN /\ t.told = Silence /\ inbox' = inbox
  BY <1>1 DEF IInv, TypeOK, Idle, Turn
<1>5. QED
  BY <1>1, <1>3, <1>4, TurnIs, SilentStep

LEMMA WindowChangesStep ==
  ASSUME IInv, NEW w \in Windows, WindowChanges(w) \/ WindowCloses(w)
  PROVE  IInv' /\ AnswersTrue
<1>1. /\ told' = Silence /\ Calm /\ UNCHANGED <<app, up, call, moves, metrics, inbox>>
  BY DEF WindowChanges, WindowCloses
<1>2. \/ \E frame \in Frames, maximized \in BOOLEAN :
           window' = [window EXCEPT ![w].frame = frame, ![w].maximized = maximized]
      \/ window' = [window EXCEPT ![w].frame = Closed]
  BY DEF WindowChanges, WindowCloses
<1>3. CASE \E frame \in Frames, maximized \in BOOLEAN :
             window' = [window EXCEPT ![w].frame = frame, ![w].maximized = maximized]
  <2>1. PICK frame \in Frames, maximized \in BOOLEAN :
          window' = [window EXCEPT ![w].frame = frame, ![w].maximized = maximized]
    BY <1>3
  <2>2. window' \in [Windows -> [frame : Frames \cup {Closed}, maximized : BOOLEAN,
                                 actor : BOOLEAN, frozen : BOOLEAN]]
    BY <2>1 DEF IInv, TypeOK
  <2>3. \A v \in Windows : window'[v].frozen => window[v].frozen
    BY <2>1 DEF IInv, TypeOK
  <2>4. QED
    BY <1>1, <2>2, <2>3, WindowStep
<1>4. CASE window' = [window EXCEPT ![w].frame = Closed]
  <2>1. window' \in [Windows -> [frame : Frames \cup {Closed}, maximized : BOOLEAN,
                                 actor : BOOLEAN, frozen : BOOLEAN]]
    BY <1>4 DEF IInv, TypeOK
  <2>2. \A v \in Windows : window'[v].frozen => window[v].frozen
    BY <1>4 DEF IInv, TypeOK
  <2>3. QED
    BY <1>1, <2>1, <2>2, WindowStep
<1>5. QED
  BY <1>2, <1>3, <1>4

\* The actor of a closed window goes.
LEMMA ActorDestroyedStep ==
  ASSUME IInv, NEW w \in Windows, ActorDestroyed(w)
  PROVE  IInv' /\ AnswersTrue
<1> DEFINE c == moves[w]
           s == [Turn EXCEPT !.window[w].actor = FALSE, !.window[w].frozen = FALSE]
           t == IF c # None /\ call[c].actor THEN Finish(s, {c}, "gone") ELSE s
           window2 == [window EXCEPT ![w].actor = FALSE, ![w].frozen = FALSE]
<1>1. /\ window[w].frame = Closed /\ Return(t) /\ Calm /\ up' = up /\ inbox' = inbox
  BY DEF ActorDestroyed
<1>2. s = [Turn EXCEPT !.window = window2]
  BY TurnIs DEF Turn, IInv, TypeOK
<1>3. /\ window2 \in [Windows -> [frame : Frames \cup {Closed}, maximized : BOOLEAN,
                                  actor : BOOLEAN, frozen : BOOLEAN]]
      /\ \A v \in Windows : window2[v].frozen => window[v].frozen
      /\ window2[w].frame = Closed
  BY <1>1 DEF IInv, TypeOK
<1> HIDE DEF window2, s
<1>4. /\ s \in Turns /\ s.app = app /\ s.moves = moves /\ s.metrics = metrics
      /\ s.call = call /\ s.window = window2 /\ s.told = Turn.told
  BY <1>2, <1>3, TurnIs DEF Turns
<1>5. Fits(Turn, inbox)
  BY DEF IInv
<1>6. Fits(s, inbox)
  BY <1>3, <1>4, <1>5, TurnIs, LikeFits
<1>7. Sound(Turn, s)
  BY <1>4, TurnIs DEF Sound
<1>8. Idle' /\ up' \in BOOLEAN
  <2>1. CASE up
    BY <2>1, <1>1, StillIdle
  <2>2. CASE ~up
    <3>1. c = None
      BY <2>2, StillIdle
    <3>2. Return(s)
      BY <1>1, <3>1
    <3>3. call' = call /\ metrics' = metrics
      BY <1>4, <3>2 DEF Return
    <3>4. inbox = <<>> /\ metrics = {} /\ \A d \in Connections : ~call[d].on
      BY <2>2 DEF IInv, Idle
    <3>5. inbox' = inbox
      BY <1>1
    <3>6. Idle'
      BY <3>3, <3>4, <3>5 DEF Idle
    <3>7. QED
      BY <3>6, <1>1 DEF IInv, TypeOK
  <2>3. QED
    BY <2>1, <2>2, <1>1 DEF IInv, TypeOK
<1>9. CASE c # None /\ call[c].actor
  <2> DEFINE C == {c}
  <2>1. c \in Connections /\ call[c].on /\ call[c].win = w
    BY <1>5, <1>9, TurnIs DEF Fits, Recorded, Turns
  <2>2. C \in SUBSET Connections /\ \A d \in C : s.call[d].on
    BY <2>1, <1>4
  <2>3. \A d \in C : FrameOf(s, d) = Closed
    BY <2>1, <1>3, <1>4 DEF FrameOf
  <2>4. Finish(s, C, "gone") \in Turns /\ Fits(Finish(s, C, "gone"), inbox)
    BY <2>2, <1>4, <1>6, TurnIs, FinishFits
  <2>5. Sound(Turn, Finish(s, C, "gone"))
    <3>1. /\ \A a \in Apps : s.told[a] # None => Turn.app[a].asked # None
          /\ \A a \in Apps : Heard(a, s, C) => s.app[a] = Turn.app[a]
          /\ \A d \in C : Turn.call[d].on => Turn.call[d] = s.call[d]
      BY <1>4, TurnIs
    <3> HIDE DEF C
    <3>2. QED
      BY <3>1, <2>2, <2>3, <1>4, <1>6, <1>7, TurnIs, FinishSound
  <2>6. t = Finish(s, C, "gone")
    BY <1>9
  <2> HIDE DEF t, C
  <2>7. QED
    BY <2>4, <2>5, <2>6, <1>1, <1>8, TurnIs, TurnEnds
<1>10. CASE ~(c # None /\ call[c].actor)
  <2>1. t = s
    BY <1>10
  <2> HIDE DEF t
  <2>2. QED
    BY <2>1, <1>1, <1>4, <1>6, <1>7, <1>8, TurnIs, TurnEnds
<1>11. QED
  BY <1>9, <1>10

\* The connection an App sends a call on is its own or new.
LEMMA ConnectionFits ==
  ASSUME IInv, NEW a \in Apps, app[a].asked = None,
         app[a].conn # None \/ Connections \ InUse # {}
  PROVE  LET c == ConnectionOf(a)
         IN /\ c \in Connections /\ ~call[c].on /\ ~Asking(c, inbox) /\ ~Leaving(c, inbox)
            /\ \A b \in Apps : app[b].conn = c => b = a
            /\ app[a].conn \in {c, None}
<1>1. CASE app[a].conn # None
  <2>1. ConnectionOf(a) = app[a].conn
    BY <1>1 DEF ConnectionOf
  <2>2. app[a].conn \in Connections
    BY <1>1 DEF IInv, TypeOK
  <2>3. Fits(Turn, inbox) /\ Turn.app = app /\ Turn.call = call
    BY TurnIs DEF IInv
  <2>4. /\ ~call[app[a].conn].on /\ ~Asking(app[a].conn, inbox) /\ ~Leaving(app[a].conn, inbox)
        /\ \A b \in Apps : app[b].conn = app[a].conn => b = a
    BY <1>1, <2>3 DEF Fits, Exclusive, OneCall
  <2>5. QED
    BY <2>1, <2>2, <2>4
<1>2. CASE app[a].conn = None
  <2> DEFINE c == ConnectionOf(a)
  <2>1. c = CHOOSE d \in Connections : d \notin InUse
    BY <1>2 DEF ConnectionOf
  <2>2. \E d \in Connections : d \notin InUse
    BY <1>2
  <2>3. c \in Connections /\ c \notin InUse
    BY <2>1, <2>2
  <2> HIDE DEF c
  <2>4. /\ \A b \in Apps : app[b].conn # c
        /\ \A i \in DOMAIN inbox : inbox[i].sender # c
        /\ ~call[c].on
    BY <2>3 DEF InUse
  <2>5. ~Asking(c, inbox) /\ ~Leaving(c, inbox)
    <3>1. \A i \in DOMAIN inbox : inbox[i] # Lost(c)
      BY <2>4 DEF Lost
    <3>2. QED
      BY <2>4, <3>1 DEF Asking, Leaving
  <2>6. QED
    BY <1>2, <2>3, <2>4, <2>5 DEF c
<1>3. QED
  BY <1>1, <1>2

LEMMA AppMovesStep ==
  ASSUME IInv, NEW a \in Apps, AppMoves(a)
  PROVE  IInv' /\ AnswersTrue
<1>1. PICK w \in Windows, target \in Targets :
        /\ up /\ app[a].asked = None
        /\ app[a].conn # None \/ Connections \ InUse # {}
        /\ app' = [app EXCEPT ![a] = [conn |-> ConnectionOf(a),
                                      asked |-> [win |-> w, target |-> target]]]
        /\ inbox' = Append(inbox, [kind |-> "move", sender |-> ConnectionOf(a), win |-> w,
                                   target |-> target])
        /\ told' = Silence /\ Calm
        /\ UNCHANGED <<up, call, moves, metrics, window>>
  BY DEF AppMoves
<1> DEFINE c == ConnectionOf(a)
           m == [kind |-> "move", sender |-> c, win |-> w, target |-> target]
           app2 == [app EXCEPT ![a] = [conn |-> c, asked |-> [win |-> w, target |-> target]]]
           t == [Turn EXCEPT !.app = app2]
<1>2. /\ c \in Connections /\ ~call[c].on /\ ~Asking(c, inbox) /\ ~Leaving(c, inbox)
      /\ \A b \in Apps : app[b].conn = c => b = a
      /\ app[a].conn \in {c, None}
  BY <1>1, ConnectionFits
<1>3. app' = app2 /\ inbox' = Append(inbox, m)
  BY <1>1
<1> HIDE DEF c
<1>4. app2 \in [Apps -> [conn : Connections \cup {None}, asked : Request \cup {None}]]
  <2>1. [conn |-> c, asked |-> [win |-> w, target |-> target]]
          \in [conn : Connections \cup {None}, asked : Request \cup {None}]
    BY <1>2, ConstantsOK DEF Request
  <2>2. QED
    BY <2>1 DEF IInv, TypeOK
<1>5. /\ t \in Turns /\ t.app = app2 /\ t.moves = moves /\ t.metrics = metrics
      /\ t.call = call /\ t.window = window /\ t.told = Turn.told
  BY <1>4, TurnIs DEF Turns
<1> HIDE DEF t
<1>6. m \in Message /\ Fits(t, Append(inbox, m))
  <2>1. Fits(Turn, inbox) /\ target \in Frames
    BY ConstantsOK DEF IInv
  <2>2. t.app = [Turn.app EXCEPT ![a] = [conn |-> c, asked |-> [win |-> w, target |-> target]]]
    BY <1>5, TurnIs
  <2>3. QED
    BY <2>1, <2>2, <1>2, <1>5, TurnIs, MoveSent
<1>7. Append(inbox, m) \in Seq(Message)
  BY <1>6, TurnIs, Adding
<1> HIDE DEF m, app2
<1>8. Idle' /\ up' \in BOOLEAN /\ t.told = Silence
  BY <1>1, <1>5, StillIdle DEF IInv, TypeOK, Turn
<1>9. QED
  BY <1>1, <1>3, <1>5, <1>6, <1>7, <1>8, SilentStep

\* Another call of an App ends what is kept of the transition before.
LEMMA AppReadsStep ==
  ASSUME IInv, NEW a \in Apps, AppReads(a)
  PROVE  IInv' /\ AnswersTrue
<1> DEFINE t == [Turn EXCEPT !.metrics = metrics \ {app[a].conn}]
<1>1. /\ up /\ metrics' = metrics \ {app[a].conn} /\ told' = Silence /\ Calm
      /\ UNCHANGED <<app, up, call, moves, window, inbox>>
  BY DEF AppReads
<1>2. /\ t \in Turns /\ t.app = app /\ t.moves = moves /\ t.metrics = metrics \ {app[a].conn}
      /\ t.call = call /\ t.window = window /\ t.told = Turn.told
  BY TurnIs DEF Turns
<1> HIDE DEF t
<1>3. Fits(t, inbox)
  <2>1. Fits(Turn, inbox)
    BY DEF IInv
  <2>2. t.app = Turn.app /\ t.moves = Turn.moves /\ t.metrics \subseteq Turn.metrics
    BY <1>2, TurnIs
  <2>3. QED
    BY <1>2, <2>1, <2>2, TurnIs, LikeFits
<1>4. Idle' /\ up' \in BOOLEAN /\ t.told = Silence /\ inbox' = inbox
  BY <1>1, <1>2, StillIdle DEF IInv, TypeOK, Turn
<1>5. QED
  BY <1>1, <1>2, <1>3, <1>4, TurnIs, SilentStep

LEMMA AppGivesUpStep ==
  ASSUME IInv, NEW a \in Apps, AppGivesUp(a)
  PROVE  IInv' /\ AnswersTrue
<1> DEFINE m == Lost(app[a].conn)
           app2 == [app EXCEPT ![a] = [conn |-> None, asked |-> None]]
           t == [Turn EXCEPT !.app = app2]
<1>1. /\ app[a].conn # None /\ Fault /\ app' = app2 /\ told' = Silence
      /\ inbox' = IF up THEN Append(inbox, m) ELSE inbox
      /\ UNCHANGED <<up, call, moves, metrics, window>>
  BY DEF AppGivesUp, Lost
<1>2. app2 \in [Apps -> [conn : Connections \cup {None}, asked : Request \cup {None}]]
  BY DEF IInv, TypeOK
<1>3. /\ t \in Turns /\ t.app = app2 /\ t.moves = moves /\ t.metrics = metrics
      /\ t.call = call /\ t.window = window /\ t.told = Turn.told
  BY <1>2, TurnIs DEF Turns
<1> HIDE DEF t
<1>4. m \in Message /\ Fits(t, Append(inbox, m))
  <2>1. Fits(Turn, inbox)
    BY DEF IInv
  <2>2. t.app = [Turn.app EXCEPT ![a] = [conn |-> None, asked |-> None]]
    BY <1>3, TurnIs
  <2>3. QED
    BY <2>1, <2>2, <1>1, <1>3, TurnIs, LostSent
<1>5. Append(inbox, m) \in Seq(Message)
  BY <1>4, TurnIs, Adding
<1>6. up' \in BOOLEAN /\ t.told = Silence
  BY <1>1, <1>3 DEF IInv, TypeOK, Turn
<1>7. CASE up
  <2>1. inbox' = Append(inbox, m) /\ Idle'
    BY <1>1, <1>7, StillIdle
  <2> HIDE DEF m, app2
  <2>2. QED
    BY <2>1, <1>1, <1>3, <1>4, <1>5, <1>6, SilentStep
<1>8. CASE ~up
  <2>1. inbox = <<>> /\ metrics = {} /\ \A c \in Connections : ~call[c].on
    BY <1>8 DEF IInv, Idle
  <2>2. inbox' = <<>> /\ Idle'
    BY <1>1, <1>8, <2>1 DEF Idle
  <2>3. \A d : ~Asking(d, <<>>) /\ ~Leaving(d, <<>>)
    BY DEF Asking, Leaving
  <2>4. Fits(Turn, inbox) /\ Turn.app = app /\ Turn.call = call
    BY TurnIs DEF IInv
  <2>5. /\ t.app[a].conn = None /\ t.app[a].asked = None
        /\ \A b \in Apps : b # a => t.app[b] = app[b]
    BY <1>3 DEF IInv, TypeOK
  <2> HIDE DEF app2, m
  <2>6. Recorded(t) /\ Thawed(t) /\ Ordered(<<>>)
    BY <1>3, <2>4, TurnIs DEF Fits, Recorded, Thawed, Ordered
  <2>7. Exclusive(t, <<>>)
    BY <2>3, <2>4, <2>5 DEF Fits, Exclusive
  <2>8. OneCall(t, <<>>)
    BY <2>1, <2>3, <2>4, <2>5, <1>3 DEF Fits, OneCall
  <2>9. Alive(t, <<>>)
    BY <2>1, <2>3, <1>3 DEF Alive
  <2>10. Meant(t, <<>>)
    <3>1. \A b \in Apps : t.app[b].asked # None => MeantBy(app[b], call, inbox) /\ b # a
      BY <2>4, <2>5 DEF Fits, Meant
    <3>2. QED
      BY <3>1, <2>1, <2>5, <1>3 DEF Meant, MeantBy
  <2>11. Fits(t, <<>>)
    BY <2>6, <2>7, <2>8, <2>9, <2>10 DEF Fits
  <2>12. QED
    BY <2>2, <2>11, <1>1, <1>3, <1>6, SilentStep
<1>9. QED
  BY <1>7, <1>8

LEMMA EnableStep == ASSUME IInv, Enable PROVE IInv' /\ AnswersTrue
<1>1. /\ up' = TRUE /\ told' = Silence /\ Calm
      /\ UNCHANGED <<app, call, moves, metrics, window, inbox>>
  BY DEF Enable
<1>2. Fits(Turn, inbox) /\ Idle' /\ Turn.told = Silence
  BY <1>1 DEF IInv, Idle, Turn
<1>3. QED
  BY <1>1, <1>2, TurnIs, SilentStep

\* The service ends, and everything it had begun or had still to begin.
LEMMA DisableStep == ASSUME IInv, Disable PROVE IInv' /\ AnswersTrue
<1> DEFINE begun == {moves[w] : w \in Windows} \ {None}
           unmet == {inbox[i].sender : i \in {j \in DOMAIN inbox : inbox[j].kind = "move"}}
           ended == Finish(Turn, begun, "unavailable")
           s == [ended EXCEPT !.metrics = {}]
           no == [kind |-> "unavailable", observed |-> Closed]
           answer == [c \in unmet |-> no]
           t == Reply(s, answer)
<1>1. up /\ Fault /\ up' = FALSE /\ Return(t) /\ inbox' = <<>>
  BY DEF Disable, ReplyAll
<1>2. Fits(Turn, inbox)
  BY DEF IInv
<1>3. begun \in SUBSET Connections /\ \A c \in begun : Turn.call[c].on
  BY <1>2, TurnIs DEF Fits, Recorded, Turns
<1>4. \A c \in Connections : call[c].on => c \in begun /\ call[c].win \in Windows
  <2> SUFFICES ASSUME NEW c \in Connections, call[c].on
               PROVE  c \in begun /\ call[c].win \in Windows
    OBVIOUS
  <2>1. call[c].win \in Windows /\ moves[call[c].win] = c
    BY <1>2, CallsAre, TurnIs DEF Fits, Recorded
  <2>2. QED
    BY <2>1, Nothing
<1>5. \A w \in Windows : moves[w] # None =>
        /\ moves[w] \in begun /\ call[moves[w]].win = w
        /\ window[w].frozen => call[moves[w]].frozen
  BY <1>2, TurnIs DEF Fits, Recorded, Thawed
<1>6. unmet \in SUBSET Connections /\ \A c \in unmet : Asking(c, inbox)
  <2>1. \A i \in DOMAIN inbox : inbox[i] \in Message
    BY TurnIs
  <2>2. QED
    BY <2>1, Messages DEF Asking
<1>7. answer \in [unmet -> Answer] /\ \A c \in unmet : answer[c].kind = "unavailable"
  <2>1. no \in Answer
    BY DEF Answer
  <2>2. QED
    BY <2>1
<1> HIDE DEF answer, unmet
<1>8. \A w \in Windows : window[w].frozen => moves[w] # None
  BY <1>2, TurnIs DEF Fits, Thawed
<1> HIDE DEF begun
<1>9. /\ ended \in Turns
      /\ \A c \in Connections : ended.call[c] = IF c \in begun THEN NoCall ELSE call[c]
      /\ \A w \in Windows :
           /\ ended.moves[w] = IF \E c \in begun : call[c].win = w THEN None ELSE moves[w]
           /\ ended.window[w].frozen <=>
                window[w].frozen /\ ~(\E c \in begun : call[c].frozen /\ call[c].win = w)
      /\ \A a \in Apps :
           IF Heard(a, Turn, begun)
           THEN /\ ended.app[a].asked = None
                /\ ended.app[a].conn = Kept(VerdictOf(Turn, app[a].conn, "unavailable"), app[a].conn)
           ELSE ended.app[a] = app[a]
  BY <1>3, TurnIs, FinishFields
<1>10. Sound(Turn, ended)
  <2>1. /\ \A a \in Apps : Turn.told[a] # None => Turn.app[a].asked # None
        /\ Sound(Turn, Turn)
    BY TurnIs
  <2>2. QED
    BY <2>1, <1>2, <1>3, TurnIs, FinishSound
<1> HIDE DEF ended
<1>11. /\ \A c \in Connections : ~ended.call[c].on
       /\ \A w \in Windows : ended.moves[w] = None /\ ~ended.window[w].frozen
       /\ \A a \in Apps : /\ ended.app[a].conn \in {app[a].conn, None}
                          /\ ended.app[a].asked # None => ended.app[a] = app[a]
  <2>1. \A c \in Connections : ~ended.call[c].on
    BY <1>4, <1>9 DEF NoCall
  <2>2. \A w \in Windows : ended.moves[w] = None /\ ~ended.window[w].frozen
    BY <1>5, <1>8, <1>9
  <2>3. \A a \in Apps : /\ ended.app[a].conn \in {app[a].conn, None}
                        /\ ended.app[a].asked # None => ended.app[a] = app[a]
    <3> TAKE a \in Apps
    <3>1. Kept(VerdictOf(Turn, app[a].conn, "unavailable"), app[a].conn) \in {app[a].conn, None}
      BY DEF Kept
    <3>2. QED
      BY <3>1, <1>9
  <2>4. QED
    BY <2>1, <2>2, <2>3
<1>12. /\ s \in Turns /\ s.app = ended.app /\ s.moves = ended.moves /\ s.call = ended.call
       /\ s.window = ended.window /\ s.told = ended.told /\ s.metrics = {}
  BY <1>9 DEF Turns
<1> HIDE DEF s
<1>13. /\ t \in Turns
       /\ t.call = s.call /\ t.moves = s.moves /\ t.metrics = s.metrics /\ t.window = s.window
       /\ \A a \in Apps :
            IF Heard(a, s, unmet)
            THEN /\ t.app[a].asked = None
                 /\ t.app[a].conn = Kept(answer[s.app[a].conn].kind, s.app[a].conn)
            ELSE t.app[a] = s.app[a]
  BY <1>6, <1>7, <1>12, ReplyFields
<1>14. Sound(Turn, t)
  <2>1. Sound(Turn, s)
    BY <1>10, <1>12 DEF Sound, Truth
  <2>2. ASSUME NEW a \in Apps, Heard(a, s, unmet)
        PROVE  Truth(a, answer[s.app[a].conn], Turn, s)
    <3>1. s.app[a].conn \in unmet /\ s.app[a].asked # None
      BY <2>2 DEF Heard
    <3>2. s.app[a] = Turn.app[a]
      BY <3>1, <1>11, <1>12, TurnIs
    <3>3. ~Turn.call[Turn.app[a].conn].on
      BY <3>1, <3>2, <1>2, <1>6 DEF Fits, OneCall
    <3>4. QED
      BY <3>1, <3>3, <1>7 DEF Truth
  <2>3. QED
    BY <2>1, <2>2, <1>6, <1>7, <1>12, TurnIs, ReplySound
<1> HIDE DEF t
<1>15. \A a \in Apps : /\ t.app[a].conn \in {app[a].conn, None}
                       /\ t.app[a].asked # None => t.app[a] = app[a]
  <2> TAKE a \in Apps
  <2>1. s.app[a].conn \in {app[a].conn, None} /\ (s.app[a].asked # None => s.app[a] = app[a])
    BY <1>11, <1>12
  <2>2. Kept(answer[s.app[a].conn].kind, s.app[a].conn) \in {s.app[a].conn, None}
    BY DEF Kept
  <2>3. QED
    BY <2>1, <2>2, <1>13
<1>16. \A d : ~Asking(d, <<>>) /\ ~Leaving(d, <<>>)
  BY DEF Asking, Leaving
<1>17. Fits(t, <<>>)
  <2>1. Recorded(t) /\ Thawed(t) /\ Ordered(<<>>)
    BY <1>11, <1>12, <1>13 DEF Recorded, Thawed, Ordered
  <2>2. Exclusive(t, <<>>)
    <3>1. \A a, b \in Apps : app[a].conn = app[b].conn /\ app[a].conn # None => a = b
      BY <1>2, TurnIs DEF Fits, Exclusive
    <3>2. QED
      BY <3>1, <1>15, <1>16 DEF Exclusive
  <2>3. OneCall(t, <<>>)
    <3>1. \A a \in Apps : t.app[a].conn # None => t.app[a].conn \in Connections
      BY <1>13 DEF Turns
    <3>2. QED
      BY <3>1, <1>11, <1>12, <1>13, <1>16 DEF OneCall
  <2>4. Alive(t, <<>>)
    BY <1>11, <1>12, <1>13, <1>16 DEF Alive
  <2>5. Meant(t, <<>>)
    <3> SUFFICES ASSUME NEW a \in Apps, t.app[a].asked # None
                 PROVE  MeantBy(t.app[a], t.call, <<>>)
      BY DEF Meant, MeantBy
    <3>1. t.app[a] = app[a] /\ MeantBy(app[a], call, inbox)
      BY <1>2, <1>15, TurnIs DEF Fits, Meant
    <3>2. t.app[a].conn \in Connections
      BY <3>1, <1>13 DEF MeantBy, Turns
    <3>3. QED
      BY <3>1, <3>2, <1>11, <1>12, <1>13 DEF MeantBy
  <2>6. QED
    BY <2>1, <2>2, <2>3, <2>4, <2>5 DEF Fits
<1>18. Idle'
  <2>1. call' = t.call /\ metrics' = t.metrics
    BY <1>1 DEF Return
  <2>2. QED
    BY <2>1, <1>1, <1>11, <1>12, <1>13 DEF Idle
<1>19. Fits(t, inbox') /\ inbox' \in Seq(Message) /\ up' \in BOOLEAN /\ Return(t) /\ Fault
  <2>1. Fits(t, inbox') /\ inbox' \in Seq(Message)
    BY <1>1, <1>17
  <2>2. QED
    BY <2>1, <1>1
<1>20. t \in Turns
  BY <1>13
<1>21. QED
  BY <1>14, <1>18, <1>19, <1>20, TurnEnds

-----------------------------------------------------------------------------
(* The theorems.                                                           *)

LEMMA Initially == Init => IInv
<1> SUFFICES ASSUME Init PROVE IInv
  OBVIOUS
<1>1. TypeOK
  <2>1. told \in [Apps -> Answer \cup {None}]
    BY DEF Init, Silence
  <2>2. app \in [Apps -> [conn : Connections \cup {None}, asked : Request \cup {None}]]
    BY DEF Init
  <2>3. window \in [Windows -> [frame : Frames \cup {Closed}, maximized : BOOLEAN,
                                actor : BOOLEAN, frozen : BOOLEAN]]
    <3>1. [frame : Frames, maximized : BOOLEAN, actor : BOOLEAN, frozen : {FALSE}]
            \subseteq [frame : Frames \cup {Closed}, maximized : BOOLEAN,
                       actor : BOOLEAN, frozen : BOOLEAN]
      OBVIOUS
    <3>2. QED
      BY <3>1 DEF Init
  <2>4. faults \in 0 .. MaxFaults /\ inbox \in Seq(Message)
    BY ConstantsOK DEF Init
  <2>5. QED
    BY <2>1, <2>2, <2>3, <2>4 DEF Init, TypeOK
<1>2. \A d : ~Asking(d, inbox) /\ ~Leaving(d, inbox)
  BY DEF Init, Asking, Leaving
<1>3. /\ \A c \in Connections : ~call[c].on
      /\ \A a \in Apps : app[a].conn = None /\ app[a].asked = None
      /\ \A w \in Windows : moves[w] = None /\ ~window[w].frozen
      /\ metrics = {} /\ inbox = <<>> /\ up
  BY DEF Init, NoCall
<1>4. Turn.app = app /\ Turn.call = call /\ Turn.moves = moves
      /\ Turn.metrics = metrics /\ Turn.window = window
  BY DEF Turn
<1>5. Fits(Turn, inbox)
  BY <1>2, <1>3, <1>4 DEF Fits, Recorded, Thawed, Exclusive, Ordered, OneCall, Alive, Meant, MeantBy
<1>6. QED
  BY <1>1, <1>3, <1>5 DEF IInv, Idle

\* Every step keeps the invariant, and what it tells is true.
LEMMA Steps == ASSUME IInv, Next PROVE IInv' /\ AnswersTrue
<1>1. ASSUME NEW c \in Connections, CallNext(c) PROVE IInv' /\ AnswersTrue
  <2>1. CASE RestoreAcknowledged(c)
    BY <2>1, RestoreAcknowledgedStep
  <2>2. CASE TargetReached(c)
    BY <2>2, TargetReachedStep
  <2>3. CASE TimesOut(c)
    <3>1. /\ call[c].on /\ Return(Finish(Turn, {c}, "invalid")) /\ Calm
          /\ UNCHANGED <<up, inbox>>
      BY <2>3 DEF TimesOut
    <3>2. QED
      BY <3>1, EndStep
  <2>4. CASE HalfSecondPasses(c)
    BY <2>4, HalfSecondPassesStep
  <2>5. CASE AnimationStops(c)
    <3>1. PICK completed \in BOOLEAN :
            /\ call[c].on
            /\ Return(Finish(Turn, {c}, IF completed THEN "none" ELSE "invalid")) /\ Calm
            /\ UNCHANGED <<up, inbox>>
      BY <2>5 DEF AnimationStops
    <3>2. (IF completed THEN "none" ELSE "invalid") \in {"none", "invalid"}
      OBVIOUS
    <3>3. QED
      BY <3>1, <3>2, EndStep
  <2>6. QED
    BY <1>1, <2>1, <2>2, <2>3, <2>4, <2>5 DEF CallNext
<1>2. ASSUME NEW w \in Windows, WindowNext(w) PROVE IInv' /\ AnswersTrue
  <2>1. WindowChanges(w) \/ WindowCloses(w) \/ ActorDestroyed(w)
    BY <1>2 DEF WindowNext
  <2>2. CASE WindowChanges(w) \/ WindowCloses(w)
    BY <2>2, WindowChangesStep
  <2>3. CASE ActorDestroyed(w)
    BY <2>3, ActorDestroyedStep
  <2>4. QED
    BY <2>1, <2>2, <2>3
<1>3. ASSUME NEW a \in Apps, AppNext(a) PROVE IInv' /\ AnswersTrue
  BY <1>3, AppMovesStep, AppReadsStep, AppGivesUpStep DEF AppNext
<1>4. QED
  <2>1. CASE HandleMove
    BY <2>1, HandleMoveStep
  <2>2. CASE HandleLost
    BY <2>2, HandleLostStep
  <2>3. CASE Disable
    BY <2>3, DisableStep
  <2>4. CASE Enable
    BY <2>4, EnableStep
  <2>5. QED
    BY <1>1, <1>2, <1>3, <2>1, <2>2, <2>3, <2>4 DEF Next, Handle

\* A step that changes nothing keeps it too.
LEMMA Stutter == IInv /\ UNCHANGED vars => IInv'
<1> SUFFICES ASSUME IInv, UNCHANGED vars PROVE IInv'
  OBVIOUS
<1>1. TypeOK' /\ Idle'
  BY DEF vars, IInv, TypeOK, Idle
<1>2. Turn' = Turn /\ inbox' = inbox
  BY DEF vars, Turn, Silence
<1>3. Fits(Turn', inbox')
  BY <1>2 DEF IInv
<1>4. QED
  BY <1>1, <1>3 DEF IInv

LEMMA Means == IInv => TransitionsAreOwned
<1> SUFFICES ASSUME IInv PROVE TransitionsAreOwned
  OBVIOUS
<1>1. Fits(Turn, inbox) /\ TypeOK
  BY DEF IInv
<1>2. MovesAreOnRecord
  BY <1>1, TurnIs, StillIdle DEF MovesAreOnRecord, Fits, Recorded
<1>3. FrozenOnlyForMove
  BY <1>1, TurnIs DEF FrozenOnlyForMove, Fits, Thawed
<1>4. MetricsOfTheLiving
  <2>1. \A c \in metrics : Known(c, Turn, inbox)
    BY <1>1, TurnIs DEF Fits, Alive, IInv, TypeOK
  <2>2. QED
    BY <2>1, TurnIs DEF MetricsOfTheLiving, Known, Connected, Leaving, Lost
<1>5. QED
  BY <1>1, <1>2, <1>3, <1>4 DEF TransitionsAreOwned

\* The invariant always holds.
THEOREM Invariance == Spec => []IInv
<1>1. IInv /\ [Next]_vars => IInv'
  BY Steps, Stutter
<1>2. QED
  BY Initially, <1>1, PTL DEF Spec

\* Every transition that runs is the one on record for its window, a window is frozen
\* only for it, and nothing is kept for senders that have gone.
THEOREM TransitionsStayOwned == Spec => []TransitionsAreOwned
BY Invariance, Means, PTL

\* What an App is told of its move is true of the window, at the step that tells it.
THEOREM AnswersStayTrue == Spec => AnswersAreTrue
<1>1. IInv /\ [Next]_vars => [AnswersTrue]_vars
  BY Steps
<1>2. QED
  BY Invariance, <1>1, PTL DEF Spec, AnswersAreTrue
=============================================================================
