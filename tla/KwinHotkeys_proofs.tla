------------------------ MODULE KwinHotkeys_proofs ------------------------
(***************************************************************************)
(* On KDE, what an App believes captured is captured, no key more or less, *)
(* and it is told the truth of its requests, for any number of Apps, keys, *)
(* hotkey sets, names and faults.                                          *)
(*                                                                         *)
(* Three parties hold a part of that: the App its belief, the companion    *)
(* the registered set and the queue of requests, the script the update it  *)
(* works on.  The invariant has a group of parts for each of the links:    *)
(* the channel from the script to the companion, the bus names, the queue, *)
(* and what the App believes against what the queue will still do.         *)
(***************************************************************************)
EXTENDS KwinHotkeys, TLAPS, FiniteSetTheorems, WellFoundedInduction

-----------------------------------------------------------------------------
(* Types.                                                                  *)

Names == ScriptNames \cup {None}
Controllers == Connections \cup {None}

AppRecords == [conn : Controllers, held : {None} \cup SUBSET Keys,
               doing : {"idle", "waiting", "quitting", "gone"},
               id : Ids \cup {0}, set : SUBSET Keys]
Results == [id : Ids, answer : Answers]
Polls == [sender : Names, heard : BOOLEAN]
Companions == [up : BOOLEAN, script : Names, fresh : BOOLEAN, controller : Controllers,
               requests : Seq(Request), results : SUBSET Results, issued : SUBSET Ids,
               registered : SUBSET Keys, poll : Polls]
Updates == [id : Ids \cup {0}, set : SUBSET Keys, assign : SUBSET Keys,
            clear : SUBSET Keys, checked : BOOLEAN]
Scripts == [name : Names, on : BOOLEAN, polling : BOOLEAN, update : Updates,
            active : SUBSET Keys, actions : SUBSET Keys]

LEMMA TypesNamed ==
  TypeOK <=> /\ app \in [Apps -> AppRecords]
             /\ companion \in Companions
             /\ script \in Scripts
             /\ grabs \subseteq Keys
             /\ taken \subseteq Contested
             /\ inbox \in Seq(Message)
             /\ faults \in 0 .. MaxFaults
             /\ mishaps \subseteq {"stall", "conflict"}
BY DEF TypeOK, AppRecords, Companions, Updates, Scripts, Names, Controllers, Results, Polls

\* The fields of a message, by its kind.
LEMMA MessageFields ==
  ASSUME NEW m \in Message
  PROVE  /\ m.kind \in {"register", "next", "set", "complete", "call", "lost"}
         /\ m.sender \in ScriptNames \cup Connections
         /\ m.kind \in {"register", "next", "set", "complete"} => m.sender \in ScriptNames
         /\ m.kind \in {"register", "next", "set"} => m.heard \in BOOLEAN
         /\ m.kind = "register" => m.reset \in BOOLEAN
         /\ m.kind = "set" => m.key \in Keys /\ m.grab \in BOOLEAN
         /\ m.kind = "complete" => m.id \in Ids /\ m.answer \in Answers
         /\ m.kind = "call" => m.sender \in Connections /\ m.app \in Apps /\ m.set \in SUBSET Keys
         /\ m.kind = "lost" /\ m.sender \in Connections => m.app \in Apps
BY ConstantsOK DEF Message

-----------------------------------------------------------------------------
(* Sequences.                                                              *)

LEMMA TailFacts ==
  ASSUME NEW S, NEW q \in Seq(S), q # <<>>
  PROVE  /\ Head(q) = q[1] /\ Head(q) \in S
         /\ Len(q) \in Nat \ {0} /\ DOMAIN q = 1 .. Len(q)
         /\ Tail(q) \in Seq(S) /\ DOMAIN Tail(q) = 1 .. Len(q) - 1
         /\ Len(Tail(q)) = Len(q) - 1
         /\ \A i \in DOMAIN Tail(q) : i + 1 \in DOMAIN q /\ Tail(q)[i] = q[i + 1]
OBVIOUS

LEMMA ConcatFacts ==
  ASSUME NEW S, NEW q \in Seq(S), NEW r \in Seq(S)
  PROVE  /\ q \o r \in Seq(S)
         /\ Len(q) \in Nat /\ Len(r) \in Nat /\ Len(q \o r) = Len(q) + Len(r)
         /\ DOMAIN q = 1 .. Len(q) /\ DOMAIN r = 1 .. Len(r)
         /\ DOMAIN (q \o r) = 1 .. Len(q) + Len(r)
         /\ \A i \in DOMAIN q : i \in DOMAIN (q \o r) /\ (q \o r)[i] = q[i]
         /\ \A i \in DOMAIN r : Len(q) + i \in DOMAIN (q \o r) /\ (q \o r)[Len(q) + i] = r[i]
         /\ \A i \in DOMAIN (q \o r) : i \in DOMAIN q \/ i - Len(q) \in DOMAIN r
OBVIOUS

\* The requests without the one at index: those before it, and those behind it.
LEMMA RemoveAtFacts ==
  ASSUME NEW S, NEW q \in Seq(S), NEW index \in DOMAIN q
  PROVE  /\ RemoveAt(q, index) \in Seq(S)
         /\ Len(q) \in Nat \ {0} /\ DOMAIN q = 1 .. Len(q) /\ index \in 1 .. Len(q)
         /\ DOMAIN RemoveAt(q, index) = 1 .. Len(q) - 1
         /\ \A i \in 1 .. Len(q) - 1 :
              RemoveAt(q, index)[i] = IF i < index THEN q[i] ELSE q[i + 1]
<1>1. Len(q) \in Nat \ {0} /\ DOMAIN q = 1 .. Len(q) /\ index \in 1 .. Len(q)
  OBVIOUS
<1> DEFINE before == SubSeq(q, 1, index - 1)
           behind == SubSeq(q, index + 1, Len(q))
<1>2. /\ before \in Seq(S) /\ Len(before) = index - 1
      /\ \A i \in 1 .. index - 1 : before[i] = q[i]
  BY <1>1
<1>3. /\ behind \in Seq(S) /\ Len(behind) = Len(q) - index
      /\ \A i \in 1 .. Len(q) - index : behind[i] = q[index + i]
  BY <1>1
<1> HIDE DEF before, behind
<1> DEFINE n == Len(q)
<1>a. n \in Nat \ {0} /\ index \in 1 .. n /\ index - 1 + (n - index) = n - 1
  BY <1>1
<1> HIDE DEF n
<1>b. /\ Len(before) = index - 1 /\ Len(behind) = n - index
      /\ DOMAIN before = 1 .. index - 1 /\ DOMAIN behind = 1 .. n - index
  BY <1>2, <1>3 DEF n
<1>c. /\ before \o behind \in Seq(S)
      /\ Len(before \o behind) = Len(before) + Len(behind)
      /\ DOMAIN (before \o behind) = 1 .. Len(before) + Len(behind)
      /\ \A i \in DOMAIN before : (before \o behind)[i] = before[i]
      /\ \A i \in DOMAIN behind : (before \o behind)[Len(before) + i] = behind[i]
  <2>1. before \in Seq(S) /\ behind \in Seq(S)
    BY <1>2, <1>3
  <2>2. QED
    BY <2>1, ConcatFacts
<1>4. /\ before \o behind \in Seq(S) /\ Len(before \o behind) = Len(q) - 1
      /\ DOMAIN (before \o behind) = 1 .. Len(q) - 1
      /\ \A i \in 1 .. index - 1 : (before \o behind)[i] = before[i]
      /\ \A i \in 1 .. Len(q) - index : (before \o behind)[index - 1 + i] = behind[i]
  BY <1>a, <1>b, <1>c DEF n
<1>5. \A i \in 1 .. Len(q) - 1 : ~(i < index) =>
        /\ i - index + 1 \in 1 .. Len(q) - index
        /\ index - 1 + (i - index + 1) = i /\ index + (i - index + 1) = i + 1
  BY <1>1
<1>6. \A i \in 1 .. Len(q) - 1 : i < index => i \in 1 .. index - 1
  BY <1>1
<1>7. RemoveAt(q, index) = before \o behind
  BY DEF RemoveAt, before, behind
<1>8. ASSUME NEW i \in 1 .. Len(q) - 1
      PROVE  (before \o behind)[i] = IF i < index THEN q[i] ELSE q[i + 1]
  <2>1. CASE i < index
    BY <2>1, <1>6, <1>4, <1>2
  <2>2. CASE ~(i < index)
    <3> DEFINE k == i - index + 1
    <3>1. k \in 1 .. Len(q) - index /\ index - 1 + k = i /\ index + k = i + 1
      BY <2>2, <1>5
    <3> HIDE DEF k
    <3>2. (before \o behind)[i] = behind[k] /\ behind[k] = q[i + 1]
      BY <3>1, <1>4, <1>3
    <3>3. QED
      BY <3>2, <2>2
  <2>3. QED
    BY <2>1, <2>2
<1>9. QED
  BY <1>1, <1>4, <1>7, <1>8

-----------------------------------------------------------------------------
(* The channel: what the script has sent, and what it still acts on.       *)

HeardNext(q, i) == q[i].kind = "next" /\ q[i].heard
HeardSet(q, i) == q[i].kind = "set" /\ q[i].heard

\* Messages that end a turn of the script: what is behind one belongs to a later turn.
Past(q, i) == \/ q[i].kind \in {"register", "complete"}
              \/ q[i].kind = "set" /\ ~q[i].heard

\* Only the script that runs is heard.
HeardByOne(q, s, p) ==
  /\ \A i \in DOMAIN q : q[i].kind \in {"register", "next", "set"} /\ q[i].heard
                           => s.on /\ q[i].sender = s.name
  /\ p.heard => s.on /\ p.sender = s.name

\* A turn is over before the next poll, and a registration opens a turn.
InTurn(q, s, p) ==
  /\ \A i \in DOMAIN q : Past(q, i) =>
       /\ s.update.id = 0 /\ ~p.heard
       /\ \A j \in DOMAIN q : HeardNext(q, j) => i < j
  /\ \A i, j \in DOMAIN q :
       i < j /\ q[i].kind = "register" => q[j].kind \notin {"complete", "set"}
  /\ \A i, j \in DOMAIN q : q[i].kind = "complete" /\ q[j].kind = "complete" => i = j

\* One poll or one update at a time, and the script knows.
OneTurn(q, s, p) ==
  /\ \A i, j \in DOMAIN q : HeardNext(q, i) /\ HeardNext(q, j) => i = j
  /\ p.heard \/ s.update.id # 0 => \A i \in DOMAIN q : ~HeardNext(q, i)
  /\ p.heard => s.update.id = 0
  /\ p.heard \/ s.update.id # 0 \/ (\E i \in DOMAIN q : HeardNext(q, i)) => s.polling

\* The one key being set is the next of the update.
NextKeys(update) == IF update.assign # {} THEN update.assign ELSE update.clear
OneKey(q, s) ==
  \A i \in DOMAIN q : HeardSet(q, i) =>
    /\ s.update.checked
    /\ q[i].key \in NextKeys(s.update) /\ q[i].grab = (s.update.assign # {})
    /\ \A j \in DOMAIN q : HeardSet(q, j) => i = j

Channel(q, s, p) ==
  HeardByOne(q, s, p) /\ InTurn(q, s, p) /\ OneTurn(q, s, p) /\ OneKey(q, s)

\* What an update has left to do: the keys done are grabbed, or not grabbed.
UpdateFits(s, g) ==
  /\ s.update.id = 0 => s.update = NoUpdate
  /\ ~s.update.checked => s.update.assign = {} /\ s.update.clear = {}
  /\ s.update.checked =>
       /\ s.update.set \subseteq s.actions
       /\ s.update.assign \subseteq s.update.set
       /\ s.update.clear \subseteq s.actions \ s.update.set
       /\ s.update.set \ s.update.assign \subseteq g
       /\ ((s.actions \ s.update.set) \ s.update.clear) \cap g = {}
  /\ g \subseteq s.actions
  /\ s.on => s.name # None
  /\ ~s.on => s.actions = {} /\ s.active = {} /\ s.update.id = 0

\* What nobody waits for any more is followed by what makes up for it.
Leftovers(q, s) ==
  s.on => \A i \in DOMAIN q :
    /\ q[i].kind = "register" /\ ~q[i].heard =>
         \E j \in DOMAIN q : i < j /\ q[j].kind = "register" /\ q[j].heard
    /\ q[i].kind = "set" /\ ~q[i].heard /\ q[i].sender = s.name =>
         \E j \in DOMAIN q :
           /\ i < j
           /\ \/ /\ q[j].kind = "complete" /\ q[j].sender = s.name
                 /\ q[j].answer = "unavailable"
              \/ q[j].kind = "register" /\ q[j].reset

\* r is q, but its calls of these kinds are no longer heard.
Silenced(q, r, kinds) ==
  /\ DOMAIN r = DOMAIN q
  /\ \A i \in DOMAIN q :
       /\ r[i].kind = q[i].kind /\ r[i].sender = q[i].sender
       /\ q[i].kind \notin kinds => r[i] = q[i]
       /\ q[i].kind \in kinds => ~r[i].heard
       /\ q[i].kind = "register" => r[i].reset = q[i].reset

LEMMA UnheardIsSilenced ==
  ASSUME NEW q \in Seq(Message), NEW kinds \in SUBSET {"register", "next", "set"}
  PROVE  Unheard(q, kinds) \in Seq(Message) /\ Silenced(q, Unheard(q, kinds), kinds)
<1> DEFINE silent(m) == [m EXCEPT !.heard = FALSE]
           r == Unheard(q, kinds)
<1>1. ASSUME NEW m \in Message, m.kind \in kinds
      PROVE  /\ silent(m) \in Message /\ silent(m).kind = m.kind
             /\ silent(m).sender = m.sender /\ silent(m).heard = FALSE
             /\ m.kind = "register" => silent(m).reset = m.reset
  <2>1. m.kind \in {"register", "next", "set"}
    BY <1>1
  <2>2. CASE m.kind = "register"
    <3>1. m \in [kind : {"register"}, sender : ScriptNames, reset : BOOLEAN, heard : BOOLEAN]
      BY <2>2 DEF Message
    <3>2. silent(m) \in [kind : {"register"}, sender : ScriptNames, reset : BOOLEAN,
                         heard : BOOLEAN]
      BY <3>1
    <3>3. QED
      BY <3>1, <3>2 DEF Message
  <2>3. CASE m.kind = "next"
    <3>1. m \in [kind : {"next"}, sender : ScriptNames, heard : BOOLEAN]
      BY <2>3 DEF Message
    <3>2. silent(m) \in [kind : {"next"}, sender : ScriptNames, heard : BOOLEAN]
      BY <3>1
    <3>3. QED
      BY <3>1, <3>2 DEF Message
  <2>4. CASE m.kind = "set"
    <3>1. m \in [kind : {"set"}, sender : ScriptNames, key : Keys, grab : BOOLEAN,
                 heard : BOOLEAN]
      BY <2>4 DEF Message
    <3>2. silent(m) \in [kind : {"set"}, sender : ScriptNames, key : Keys, grab : BOOLEAN,
                         heard : BOOLEAN]
      BY <3>1
    <3>3. QED
      BY <3>1, <3>2 DEF Message
  <2>5. QED
    BY <2>1, <2>2, <2>3, <2>4
<1>2. /\ Len(q) \in Nat /\ DOMAIN q = 1 .. Len(q)
      /\ \A i \in 1 .. Len(q) : q[i] \in Message
  OBVIOUS
<1>3. r = [i \in 1 .. Len(q) |-> IF q[i].kind \in kinds THEN silent(q[i]) ELSE q[i]]
  BY <1>2 DEF Unheard
<1> HIDE DEF silent, r
<1>4. r \in [1 .. Len(q) -> Message]
  BY <1>1, <1>2, <1>3
<1>5. r \in Seq(Message) /\ DOMAIN r = DOMAIN q
  BY <1>2, <1>4
<1>6. Silenced(q, r, kinds)
  BY <1>1, <1>2, <1>3, <1>5 DEF Silenced
<1>7. QED
  BY <1>5, <1>6 DEF r

\* The companion reads a message.
LEMMA ChannelTail ==
  ASSUME NEW q \in Seq(Message), NEW s \in Scripts, NEW p \in Polls, q # <<>>,
         Channel(q, s, p)
  PROVE  Channel(Tail(q), s, p)
<1> DEFINE r == Tail(q)
           n == Len(q)
<1>1. /\ n \in Nat \ {0} /\ DOMAIN q = 1 .. n /\ DOMAIN r = 1 .. n - 1
      /\ \A i \in DOMAIN r : i + 1 \in DOMAIN q /\ r[i] = q[i + 1]
  BY TailFacts
<1>2. \A i, j \in DOMAIN r : (i + 1 < j + 1 => i < j) /\ (i < j => i + 1 < j + 1)
                               /\ (i + 1 = j + 1 => i = j)
  BY <1>1
<1> HIDE DEF r, n
<1>3. HeardByOne(r, s, p)
  BY <1>1 DEF Channel, HeardByOne
<1>4. InTurn(r, s, p)
  BY <1>1, <1>2 DEF Channel, InTurn, Past, HeardNext
<1>5. OneTurn(r, s, p)
  BY <1>1, <1>2 DEF Channel, OneTurn, HeardNext
<1>6. OneKey(r, s)
  BY <1>1, <1>2 DEF Channel, OneKey, HeardSet
<1>7. QED
  BY <1>3, <1>4, <1>5, <1>6 DEF Channel, r

LEMMA LeftoversTail ==
  ASSUME NEW q \in Seq(Message), NEW s \in Scripts, q # <<>>, Leftovers(q, s)
  PROVE  Leftovers(Tail(q), s)
<1> DEFINE r == Tail(q)
           n == Len(q)
<1>1. /\ n \in Nat \ {0} /\ DOMAIN q = 1 .. n /\ DOMAIN r = 1 .. n - 1
      /\ \A i \in DOMAIN r : i + 1 \in DOMAIN q /\ r[i] = q[i + 1]
  BY TailFacts
<1>2. \A i \in DOMAIN r : \A j \in DOMAIN q :
        i + 1 < j => j - 1 \in DOMAIN r /\ i < j - 1 /\ r[j - 1] = q[j]
  BY <1>1
<1> HIDE DEF r, n
<1>3. Leftovers(r, s)
  BY <1>1, <1>2 DEF Leftovers
<1>4. QED
  BY <1>3 DEF r

\* What the Apps and KWin's end add says nothing of a turn.
LEMMA ChannelAside ==
  ASSUME NEW q \in Seq(Message), NEW s \in Scripts, NEW p \in Polls, NEW out \in Seq(Message),
         \A i \in DOMAIN out : out[i].kind \in {"call", "lost"}, Channel(q, s, p)
  PROVE  Channel(q \o out, s, p)
<1> DEFINE r == q \o out
           n == Len(q)
<1>1. /\ n \in Nat /\ DOMAIN q = 1 .. n
      /\ \A i \in DOMAIN q : i \in DOMAIN r /\ r[i] = q[i]
      /\ \A i \in DOMAIN r : i \in DOMAIN q \/ r[i].kind \in {"call", "lost"}
  <2>1. \A i \in DOMAIN r : i \in DOMAIN q \/ (i - n \in DOMAIN out /\ r[i] = out[i - n])
    <3>1. \A i \in DOMAIN r : n + (i - n) = i
      BY ConcatFacts
    <3>2. QED
      BY <3>1, ConcatFacts
  <2>2. \A i \in DOMAIN out : out[i].kind \in {"call", "lost"}
    OBVIOUS
  <2>3. QED
    BY <2>1, <2>2, ConcatFacts
<1> HIDE DEF r, n
<1>2. HeardByOne(r, s, p)
  BY <1>1 DEF Channel, HeardByOne
<1>3. InTurn(r, s, p)
  BY <1>1 DEF Channel, InTurn, Past, HeardNext
<1>4. OneTurn(r, s, p)
  BY <1>1 DEF Channel, OneTurn, HeardNext
<1>5. OneKey(r, s)
  BY <1>1 DEF Channel, OneKey, HeardSet
<1>6. QED
  BY <1>2, <1>3, <1>4, <1>5 DEF Channel, r

\* Leftovers keep what follows them, and what is sent is heard or not the script's.
LEMMA LeftoversConcat ==
  ASSUME NEW q \in Seq(Message), NEW s \in Scripts, NEW out \in Seq(Message),
         \A i \in DOMAIN out : out[i].kind \in {"register", "set"} => out[i].heard,
         Leftovers(q, s)
  PROVE  Leftovers(q \o out, s)
<1> DEFINE r == q \o out
           n == Len(q)
<1>1. /\ n \in Nat /\ DOMAIN q = 1 .. n
      /\ \A i \in DOMAIN q : i \in DOMAIN r /\ r[i] = q[i]
      /\ \A i \in DOMAIN r : i \in DOMAIN q \/ (r[i].kind \in {"register", "set"} => r[i].heard)
  <2>1. \A i \in DOMAIN r : i \in DOMAIN q \/ (i - n \in DOMAIN out /\ r[i] = out[i - n])
    <3>1. \A i \in DOMAIN r : n + (i - n) = i
      BY ConcatFacts
    <3>2. QED
      BY <3>1, ConcatFacts
  <2>2. \A i \in DOMAIN out : out[i].kind \in {"register", "set"} => out[i].heard
    OBVIOUS
  <2>3. QED
    BY <2>1, <2>2, ConcatFacts
<1> HIDE DEF r, n
<1>2. Leftovers(r, s)
  BY <1>1 DEF Leftovers
<1>3. QED
  BY <1>2 DEF r

-----------------------------------------------------------------------------
(* The continuations of main.js.                                           *)

NextCall(s) == [kind |-> "next", sender |-> s.name, heard |-> TRUE]
CompleteCall(s, answer) ==
  [kind |-> "complete", sender |-> s.name, id |-> s.update.id, answer |-> answer]
SetCall(s) ==
  [kind |-> "set", sender |-> s.name, key |-> CHOOSE key \in NextKeys(s.update) : TRUE,
   grab |-> s.update.assign # {}, heard |-> TRUE]

LEMMA PollShape ==
  ASSUME NEW s \in Scripts, s.name # None
  PROVE  /\ PollRequests(Idle(s)).script \in Scripts
         /\ PollRequests(Idle(s)).out \in Seq(Message)
         /\ PollRequests(Idle(s)).script = [s EXCEPT !.polling = TRUE]
         /\ s.polling => PollRequests(Idle(s)).out = <<>>
         /\ ~s.polling => PollRequests(Idle(s)).out = <<NextCall(s)>>
<1>1. NextCall(s) \in Message
  BY DEF NextCall, Message, Scripts, Names
<1>2. [s EXCEPT !.polling = TRUE] \in Scripts
  BY DEF Scripts
<1>3. s.polling => s = [s EXCEPT !.polling = TRUE]
  BY DEF Scripts
<1> DEFINE r == Idle(s)
<1>a. r.script = s /\ r.out = <<>>
  BY DEF Idle
<1>b. PollRequests(r) = IF s.polling THEN r
                        ELSE [script |-> [s EXCEPT !.polling = TRUE],
                              out |-> Append(<<>>, NextCall(s))]
  BY <1>a DEF PollRequests, NextCall
<1> HIDE DEF r
<1> DEFINE z == PollRequests(r)
           t == [s EXCEPT !.polling = TRUE]
<1>4. ASSUME s.polling
      PROVE  /\ z.script \in Scripts /\ z.out \in Seq(Message) /\ z.script = t
             /\ s.polling => z.out = <<>>
             /\ ~s.polling => z.out = <<NextCall(s)>>
  <2>1. z = r
    BY <1>4, <1>b
  <2>2. QED
    BY <2>1, <1>a, <1>2, <1>3, <1>4
<1>5. ASSUME ~s.polling
      PROVE  /\ z.script \in Scripts /\ z.out \in Seq(Message) /\ z.script = t
             /\ s.polling => z.out = <<>>
             /\ ~s.polling => z.out = <<NextCall(s)>>
  <2>1. z.script = t /\ z.out = Append(<<>>, NextCall(s))
    BY <1>5, <1>b
  <2>2. Append(<<>>, NextCall(s)) = <<NextCall(s)>> /\ <<NextCall(s)>> \in Seq(Message)
    BY <1>1
  <2> HIDE DEF z, t
  <2>3. z.script = t /\ z.out = <<NextCall(s)>> /\ z.out \in Seq(Message)
    BY <2>1, <2>2
  <2>4. z.script \in Scripts
    BY <2>1, <1>2 DEF t
  <2>5. QED
    BY <2>3, <2>4, <1>5
<1>6. /\ z.script \in Scripts /\ z.out \in Seq(Message) /\ z.script = t
      /\ s.polling => z.out = <<>>
      /\ ~s.polling => z.out = <<NextCall(s)>>
  BY <1>4, <1>5
<1>7. QED
  BY <1>6 DEF r, z, t

LEMMA FinishShape ==
  ASSUME NEW s \in Scripts, NEW answer \in Answers, s.name # None, s.update.id # 0
  PROVE  /\ FinishUpdate(Idle(s), answer).script =
              [s EXCEPT !.update = NoUpdate, !.polling = TRUE,
                        !.active = IF answer = "ok" THEN s.update.set ELSE @]
         /\ FinishUpdate(Idle(s), answer).script \in Scripts
         /\ FinishUpdate(Idle(s), answer).out = <<CompleteCall(s, answer), NextCall(s)>>
         /\ FinishUpdate(Idle(s), answer).out \in Seq(Message)
<1> DEFINE done == [s EXCEPT !.update = NoUpdate, !.polling = FALSE,
                             !.active = IF answer = "ok" THEN s.update.set ELSE @]
           polled == [s EXCEPT !.update = NoUpdate, !.polling = TRUE,
                               !.active = IF answer = "ok" THEN s.update.set ELSE @]
           f == FinishUpdate(Idle(s), answer)
<1>1. NoUpdate \in Updates
  BY DEF NoUpdate, Updates
<1>2. done \in Scripts /\ polled \in Scripts /\ done.name = s.name /\ done.polling = FALSE
  BY <1>1 DEF Scripts, Updates
<1>3. [done EXCEPT !.polling = TRUE] = polled
  BY <1>1 DEF Scripts
<1>4. CompleteCall(s, answer) \in Message /\ NextCall(s) \in Message
  BY DEF CompleteCall, NextCall, Message, Scripts, Updates, Names
<1> DEFINE r == [script |-> done, out |-> <<CompleteCall(s, answer)>>]
<1>5. f = PollRequests(r)
  BY <1>2 DEF FinishUpdate, Idle, CompleteCall
<1> HIDE DEF done, f
<1>a. r.script = done /\ r.out = <<CompleteCall(s, answer)>>
  OBVIOUS
<1>b. PollRequests(r) = [script |-> [done EXCEPT !.polling = TRUE],
                         out |-> Append(<<CompleteCall(s, answer)>>, NextCall(s))]
  BY <1>2, <1>a DEF PollRequests, NextCall
<1> HIDE DEF r
<1>6. /\ f.script = [done EXCEPT !.polling = TRUE]
      /\ f.out = <<CompleteCall(s, answer), NextCall(s)>>
  <2>1. /\ f.script = [done EXCEPT !.polling = TRUE]
        /\ f.out = Append(<<CompleteCall(s, answer)>>, NextCall(s))
    BY <1>5, <1>b
  <2> DEFINE m1 == CompleteCall(s, answer)
             m2 == NextCall(s)
  <2>a. m1 \in Message /\ m2 \in Message
    BY <1>4
  <2> HIDE DEF m1, m2
  <2> DEFINE a == Append(<<m1>>, m2)
             b == <<m1, m2>>
  <2>b. a \in Seq(Message) /\ Len(a) = 2 /\ a[1] = m1 /\ a[2] = m2
    BY <2>a
  <2>c. b \in Seq(Message) /\ Len(b) = 2 /\ b[1] = m1 /\ b[2] = m2
    BY <2>a
  <2> HIDE DEF a, b
  <2>d. a \in [1 .. 2 -> Message] /\ b \in [1 .. 2 -> Message]
    BY <2>b, <2>c
  <2>e. \A i \in 1 .. 2 : a[i] = b[i]
    BY <2>b, <2>c
  <2>f. a = b
    BY <2>d, <2>e
  <2>2. Append(<<m1>>, m2) = <<m1, m2>>
    BY <2>f DEF a, b
  <2>3. QED
    BY <2>1, <2>2 DEF m1, m2
<1>7. f.out \in Seq(Message)
  BY <1>4, <1>6
<1>8. QED
  BY <1>2, <1>3, <1>6, <1>7 DEF f

LEMMA ConfigureShape ==
  ASSUME NEW s \in Scripts, s.name # None, s.update.id # 0
  PROVE  /\ NextKeys(s.update) = {} => Configure(Idle(s)) = FinishUpdate(Idle(s), "ok")
         /\ NextKeys(s.update) # {} => /\ Configure(Idle(s)).script = s
                                       /\ Configure(Idle(s)).out = <<SetCall(s)>>
                                       /\ SetCall(s) \in Message
                                       /\ Configure(Idle(s)).out \in Seq(Message)
<1> DEFINE keys == NextKeys(s.update)
<1>1. keys \subseteq Keys
  BY DEF NextKeys, Scripts, Updates
<1>2. CASE keys = {}
  BY <1>2 DEF Configure, Idle, NextKeys
<1>3. CASE keys # {}
  <2>1. (CHOOSE key \in keys : TRUE) \in Keys
    BY <1>1, <1>3
  <2>2. SetCall(s) \in Message
    BY <2>1 DEF SetCall, Message, Scripts, Names
  <2>3. Configure(Idle(s)) = [Idle(s) EXCEPT !.out = Append(@, SetCall(s))]
    BY <1>3 DEF Configure, Idle, NextKeys, SetCall
  <2>4. Configure(Idle(s)).script = s /\ Configure(Idle(s)).out = <<SetCall(s)>>
    BY <2>3 DEF Idle
  <2>5. QED
    BY <2>2, <2>4, <1>3
<1>4. QED
  BY <1>2, <1>3

\* One message, or two, behind the others.
LEMMA OneBehind ==
  ASSUME NEW q \in Seq(Message), NEW m \in Message
  PROVE  /\ Len(q) \in Nat /\ DOMAIN q = 1 .. Len(q) /\ q \o <<m>> \in Seq(Message)
         /\ DOMAIN (q \o <<m>>) = 1 .. Len(q) + 1
         /\ \A i \in DOMAIN q : (q \o <<m>>)[i] = q[i] /\ i < Len(q) + 1
         /\ (q \o <<m>>)[Len(q) + 1] = m
         /\ \A i \in DOMAIN (q \o <<m>>) : i \in DOMAIN q \/ i = Len(q) + 1
OBVIOUS

LEMMA TwoBehind ==
  ASSUME NEW q \in Seq(Message), NEW m1 \in Message, NEW m2 \in Message
  PROVE  /\ Len(q) \in Nat /\ DOMAIN q = 1 .. Len(q) /\ q \o <<m1, m2>> \in Seq(Message)
         /\ DOMAIN (q \o <<m1, m2>>) = 1 .. Len(q) + 2
         /\ \A i \in DOMAIN q : (q \o <<m1, m2>>)[i] = q[i] /\ i < Len(q) + 1
         /\ (q \o <<m1, m2>>)[Len(q) + 1] = m1 /\ (q \o <<m1, m2>>)[Len(q) + 2] = m2
         /\ \A i \in DOMAIN (q \o <<m1, m2>>) :
              i \in DOMAIN q \/ i = Len(q) + 1 \/ i = Len(q) + 2
OBVIOUS

\* While an update is under way, nothing in the channel belongs to a past turn.
LEMMA UpdateIsTheTurn ==
  ASSUME NEW q, NEW s, NEW p, Channel(q, s, p), s.update.id # 0
  PROVE  /\ ~p.heard
         /\ \A i \in DOMAIN q : ~Past(q, i) /\ ~HeardNext(q, i)
BY DEF Channel, InTurn, OneTurn

\* finish: the report ends the turn, and the poll behind it opens the next.
LEMMA ChannelFinishes ==
  ASSUME NEW q \in Seq(Message), NEW r \in Seq(Message), NEW s \in Scripts, NEW p \in Polls,
         NEW answer \in Answers, s.on, s.name # None, s.update.id # 0,
         Channel(q, s, p), Silenced(q, r, {"set"})
  PROVE  Channel(r \o FinishUpdate(Idle(s), answer).out,
                 FinishUpdate(Idle(s), answer).script, p)
<1> DEFINE f == FinishUpdate(Idle(s), answer)
           m1 == CompleteCall(s, answer)
           m2 == NextCall(s)
           n == Len(r)
           t == r \o f.out
           z == f.script
<1>1. /\ z.update.id = 0 /\ z.on /\ z.name = s.name /\ z.polling /\ f.out = <<m1, m2>>
  <2>1. /\ z = [s EXCEPT !.update = NoUpdate, !.polling = TRUE,
                         !.active = IF answer = "ok" THEN s.update.set ELSE @]
        /\ f.out = <<m1, m2>>
    BY FinishShape
  <2> HIDE DEF z, f, m1, m2
  <2>2. NoUpdate.id = 0
    BY DEF NoUpdate
  <2>3. QED
    BY <2>1, <2>2 DEF Scripts
<1>2. m1 \in Message /\ m2 \in Message /\ m1.kind = "complete" /\ m2.kind = "next"
      /\ m2.heard /\ m2.sender = s.name
  BY DEF CompleteCall, NextCall, Message, Scripts, Updates, Names
<1>3. /\ n \in Nat /\ DOMAIN r = 1 .. n
      /\ \A i \in DOMAIN r : t[i] = r[i] /\ i < n + 1 /\ i < n + 2 /\ i # n + 2 /\ i # n + 1
      /\ n + 1 < n + 2 /\ n + 1 # n + 2
      /\ t[n + 1] = m1 /\ t[n + 2] = m2
      /\ \A i \in DOMAIN t : i \in DOMAIN r \/ i = n + 1 \/ i = n + 2
  BY <1>1, <1>2, TwoBehind
<1>4. ~p.heard /\ \A i \in DOMAIN r :
        /\ r[i].kind \notin {"register", "complete"} /\ ~HeardNext(r, i) /\ ~HeardSet(r, i)
        /\ ~(r[i].kind \in {"register", "next", "set"} /\ r[i].heard)
  BY UpdateIsTheTurn DEF Silenced, Past, HeardNext, HeardSet
<1> HIDE DEF f, m1, m2, n, t, z
<1>5. HeardByOne(t, z, p)
  BY <1>1, <1>2, <1>3, <1>4 DEF HeardByOne
<1>6. InTurn(t, z, p)
  BY <1>1, <1>2, <1>3, <1>4 DEF InTurn, Past, HeardNext, HeardSet
<1>7. OneTurn(t, z, p)
  BY <1>1, <1>2, <1>3, <1>4 DEF OneTurn, HeardNext
<1>8. OneKey(t, z)
  BY <1>1, <1>2, <1>3, <1>4 DEF OneKey, HeardSet
<1>9. QED
  BY <1>5, <1>6, <1>7, <1>8 DEF Channel, t, z, f

\* The next key of an update is set.
LEMMA ChannelSets ==
  ASSUME NEW q \in Seq(Message), NEW s \in Scripts, NEW p \in Polls, s.on,
         s.update.id # 0, s.update.checked, NextKeys(s.update) # {}, SetCall(s) \in Message,
         Channel(q, s, p), \A i \in DOMAIN q : ~HeardSet(q, i)
  PROVE  Channel(q \o <<SetCall(s)>>, s, p)
<1> DEFINE m == SetCall(s)
           n == Len(q)
           t == q \o <<m>>
<1>1. m.kind = "set" /\ m.heard /\ m.sender = s.name /\ m.key \in NextKeys(s.update)
      /\ m.grab = (s.update.assign # {})
  BY DEF SetCall
<1>2. /\ n \in Nat /\ DOMAIN q = 1 .. n
      /\ \A i \in DOMAIN q : t[i] = q[i] /\ i < n + 1 /\ i # n + 1
      /\ t[n + 1] = m
      /\ \A i \in DOMAIN t : i \in DOMAIN q \/ i = n + 1
  BY OneBehind
<1>3. ~p.heard /\ \A i \in DOMAIN q : ~Past(q, i) /\ ~HeardNext(q, i)
  BY UpdateIsTheTurn
<1>4. \A i \in DOMAIN q : ~HeardSet(q, i) /\ q[i].kind \notin {"register", "complete"}
  BY <1>3 DEF Past
<1> HIDE DEF m, n, t
<1>5. HeardByOne(t, s, p)
  BY <1>1, <1>2 DEF Channel, HeardByOne
<1>6. InTurn(t, s, p)
  BY <1>1, <1>2, <1>3, <1>4 DEF InTurn, Past, HeardNext, HeardSet
<1>7. OneTurn(t, s, p)
  BY <1>1, <1>2, <1>3, <1>4 DEF Channel, OneTurn, HeardNext
<1>8. OneKey(t, s)
  BY <1>1, <1>2, <1>3, <1>4 DEF OneKey, HeardSet
<1>9. QED
  BY <1>5, <1>6, <1>7, <1>8 DEF Channel, t, m

LEMMA ChannelConfigures ==
  ASSUME NEW q \in Seq(Message), NEW s \in Scripts, NEW p \in Polls, s.on, s.name # None,
         s.update.id # 0, s.update.checked,
         Channel(q, s, p), \A i \in DOMAIN q : ~HeardSet(q, i)
  PROVE  Channel(q \o Configure(Idle(s)).out, Configure(Idle(s)).script, p)
<1>1. CASE NextKeys(s.update) = {}
  <2>1. Silenced(q, q, {"set"})
    BY DEF Silenced, HeardSet
  <2>2. "ok" \in Answers
    BY DEF Answers
  <2>3. Channel(q \o FinishUpdate(Idle(s), "ok").out, FinishUpdate(Idle(s), "ok").script, p)
    BY <2>1, <2>2, ChannelFinishes
  <2>4. QED
    BY <1>1, <2>3, ConfigureShape
<1>2. CASE NextKeys(s.update) # {}
  BY <1>2, ConfigureShape, ChannelSets
<1>3. QED
  BY <1>1, <1>2

\* Between two turns, the script registers.
RegisterCall(name, reset) ==
  [kind |-> "register", sender |-> name, reset |-> reset, heard |-> TRUE]

LEMMA ChannelRegisters ==
  ASSUME NEW q \in Seq(Message), NEW s \in Scripts, NEW p \in Polls, NEW reset \in BOOLEAN,
         s.on, s.name # None, s.update.id = 0, ~p.heard, Channel(q, s, p),
         \A i \in DOMAIN q : ~HeardNext(q, i)
  PROVE  Channel(q \o <<RegisterCall(s.name, reset)>>, s, p)
<1> DEFINE m == RegisterCall(s.name, reset)
           n == Len(q)
           t == q \o <<m>>
<1>1. m \in Message /\ m.kind = "register" /\ m.sender = s.name
  BY DEF RegisterCall, Message, Scripts, Names
<1>2. /\ n \in Nat /\ DOMAIN q = 1 .. n
      /\ \A i \in DOMAIN q : t[i] = q[i] /\ i < n + 1 /\ i # n + 1 /\ ~(n + 1 < i)
      /\ t[n + 1] = m /\ ~(n + 1 < n + 1)
      /\ \A i \in DOMAIN t : i \in DOMAIN q \/ i = n + 1
  BY <1>1, OneBehind
<1>3. \A i \in DOMAIN q : ~HeardNext(q, i)
  OBVIOUS
<1> HIDE DEF m, n, t
<1>4. HeardByOne(t, s, p)
  BY <1>1, <1>2 DEF Channel, HeardByOne
<1>5. InTurn(t, s, p)
  BY <1>1, <1>2, <1>3 DEF Channel, InTurn, Past, HeardNext
<1>6. OneTurn(t, s, p)
  BY <1>1, <1>2, <1>3 DEF Channel, OneTurn, HeardNext
<1>7. OneKey(t, s)
  BY <1>1, <1>2 DEF Channel, OneKey, HeardSet
<1>8. QED
  BY <1>4, <1>5, <1>6, <1>7 DEF Channel, t, m

\* Between two turns, it polls.
LEMMA ChannelPolls ==
  ASSUME NEW q \in Seq(Message), NEW s \in Scripts, NEW p \in Polls, NEW z \in Scripts,
         s.on, s.name # None, ~s.polling, s.update.id = 0, Channel(q, s, p),
         z = [s EXCEPT !.polling = TRUE]
  PROVE  Channel(q \o <<NextCall(s)>>, z, p)
<1> DEFINE m == NextCall(s)
           n == Len(q)
           t == q \o <<m>>
<1>1. m \in Message /\ m.kind = "next" /\ m.sender = s.name /\ m.heard
  BY DEF NextCall, Message, Scripts, Names
<1>2. /\ n \in Nat /\ DOMAIN q = 1 .. n
      /\ \A i \in DOMAIN q : t[i] = q[i] /\ i < n + 1 /\ i # n + 1 /\ ~(n + 1 < i)
      /\ t[n + 1] = m /\ ~(n + 1 < n + 1)
      /\ \A i \in DOMAIN t : i \in DOMAIN q \/ i = n + 1
  BY <1>1, OneBehind
<1>3. ~p.heard /\ \A i \in DOMAIN q : ~HeardNext(q, i)
  BY DEF Channel, OneTurn
<1>4. z.on = s.on /\ z.name = s.name /\ z.update = s.update /\ z.polling
  BY DEF Scripts
<1> HIDE DEF m, n, t
<1>5. HeardByOne(t, z, p)
  BY <1>1, <1>2, <1>4 DEF Channel, HeardByOne
<1>6. InTurn(t, z, p)
  BY <1>1, <1>2, <1>3, <1>4 DEF Channel, InTurn, Past, HeardNext
<1>7. OneTurn(t, z, p)
  BY <1>1, <1>2, <1>3, <1>4 DEF Channel, OneTurn, HeardNext
<1>8. OneKey(t, z)
  BY <1>1, <1>2, <1>4 DEF Channel, OneKey, HeardSet
<1>9. QED
  BY <1>5, <1>6, <1>7, <1>8 DEF Channel, t, m

\* PollRequests, whichever way.
LEMMA ChannelPollRequests ==
  ASSUME NEW q \in Seq(Message), NEW s \in Scripts, NEW p \in Polls,
         s.on, s.name # None, s.update.id = 0, Channel(q, s, p)
  PROVE  Channel(q \o PollRequests(Idle(s)).out, PollRequests(Idle(s)).script, p)
<1>1. CASE s.polling
  <2>1. q \o <<>> = q
    OBVIOUS
  <2>2. s = [s EXCEPT !.polling = TRUE]
    BY <1>1 DEF Scripts
  <2>3. PollRequests(Idle(s)).script = s /\ PollRequests(Idle(s)).out = <<>>
    BY <1>1, <2>2, PollShape
  <2>4. QED
    BY <2>1, <2>3
<1>2. CASE ~s.polling
  <2> DEFINE z == PollRequests(Idle(s)).script
  <2>1. z \in Scripts /\ z = [s EXCEPT !.polling = TRUE]
        /\ PollRequests(Idle(s)).out = <<NextCall(s)>>
    BY <1>2, PollShape
  <2> HIDE DEF z
  <2>2. Channel(q \o <<NextCall(s)>>, z, p)
    BY <1>2, <2>1, ChannelPolls
  <2>3. QED
    BY <2>1, <2>2 DEF z
<1>3. QED
  BY <1>1, <1>2

\* The channel says little of the script, and of a poll nobody hears.
LEMMA ChannelStates ==
  ASSUME NEW q, NEW s, NEW p, NEW s2, NEW p2, Channel(q, s, p),
         s2.on = s.on, s2.name = s.name, s2.update.id = s.update.id,
         p2 = p \/ ~p2.heard,
         \/ s2.polling = s.polling
         \/ s.update.id = 0 /\ ~p2.heard /\ \A i \in DOMAIN q : ~HeardNext(q, i),
         s2.update = s.update \/ \A i \in DOMAIN q : ~HeardSet(q, i)
  PROVE  Channel(q, s2, p2)
<1>1. HeardByOne(q, s2, p2)
  BY DEF Channel, HeardByOne
<1>2. InTurn(q, s2, p2)
  BY DEF Channel, InTurn
<1>3. OneTurn(q, s2, p2)
  BY DEF Channel, OneTurn
<1>4. OneKey(q, s2)
  BY DEF Channel, OneKey
<1>5. QED
  BY <1>1, <1>2, <1>3, <1>4 DEF Channel

\* A turn is open when nothing of a past one, and no other poll or key, is under way.
LEMMA ChannelOpen ==
  ASSUME NEW q, NEW s, NEW p,
         \A i \in DOMAIN q : ~Past(q, i) /\ ~HeardNext(q, i) /\ ~HeardSet(q, i),
         p.heard => s.on /\ p.sender = s.name /\ s.update.id = 0,
         p.heard \/ s.update.id # 0 => s.polling
  PROVE  Channel(q, s, p)
<1>1. HeardByOne(q, s, p)
  BY DEF HeardByOne, Past, HeardNext, HeardSet
<1>2. InTurn(q, s, p)
  BY DEF InTurn, Past
<1>3. OneTurn(q, s, p)
  BY DEF OneTurn
<1>4. OneKey(q, s)
  BY DEF OneKey
<1>5. QED
  BY <1>1, <1>2, <1>3, <1>4 DEF Channel

\* A script that ends, and one that retries, hear nothing of their calls.
LEMMA ChannelEnds ==
  ASSUME NEW q, NEW s, NEW p, NEW r, NEW s2, NEW p2, Channel(q, s, p),
         Silenced(q, r, {"register", "next", "set"}), s2.update.id = 0, ~p2.heard
  PROVE  Channel(r, s2, p2)
<1>1. \A i \in DOMAIN r : r[i].kind = q[i].kind
                           /\ ~(r[i].kind \in {"register", "next", "set"} /\ r[i].heard)
  BY DEF Silenced
<1>2. DOMAIN r = DOMAIN q
  BY DEF Silenced
<1>3. HeardByOne(r, s2, p2)
  BY <1>1 DEF HeardByOne
<1>4. InTurn(r, s2, p2)
  BY <1>1, <1>2 DEF Channel, InTurn, HeardNext
<1>5. OneTurn(r, s2, p2)
  BY <1>1 DEF OneTurn, HeardNext
<1>6. OneKey(r, s2)
  BY <1>1 DEF OneKey, HeardSet
<1>7. QED
  BY <1>3, <1>4, <1>5, <1>6 DEF Channel

LEMMA ChannelRetries ==
  ASSUME NEW q, NEW s, NEW p, NEW r, NEW s2, NEW p2, Channel(q, s, p),
         Silenced(q, r, {"next"}), s.update.id = 0, s2.update = s.update,
         s2.on = s.on, s2.name = s.name, ~p2.heard
  PROVE  Channel(r, s2, p2) /\ \A i \in DOMAIN r : ~HeardNext(r, i)
<1>1. \A i \in DOMAIN r : r[i].kind = q[i].kind /\ (r[i].kind # "next" => r[i] = q[i])
                           /\ ~(r[i].kind = "next" /\ r[i].heard)
  BY DEF Silenced
<1>2. DOMAIN r = DOMAIN q
  BY DEF Silenced
<1>3. HeardByOne(r, s2, p2)
  BY <1>1, <1>2 DEF Channel, HeardByOne
<1>4. InTurn(r, s2, p2)
  BY <1>1, <1>2 DEF Channel, InTurn, HeardNext
<1>5. OneTurn(r, s2, p2)
  BY <1>1 DEF OneTurn, HeardNext
<1>6. OneKey(r, s2)
  BY <1>1, <1>2 DEF Channel, OneKey, HeardSet
<1>7. QED
  BY <1>1, <1>3, <1>4, <1>5, <1>6 DEF Channel, HeardNext

\* The update and the leftovers.
LEMMA FinishFits ==
  ASSUME NEW s \in Scripts, NEW answer \in Answers, NEW g, s.name # None, s.update.id # 0, s.on,
         UpdateFits(s, g)
  PROVE  UpdateFits(FinishUpdate(Idle(s), answer).script, g)
<1> DEFINE z == FinishUpdate(Idle(s), answer).script
<1>1. z = [s EXCEPT !.update = NoUpdate, !.polling = TRUE,
                    !.active = IF answer = "ok" THEN s.update.set ELSE @]
  BY FinishShape
<1> HIDE DEF z
<1>2. z.update = NoUpdate /\ z.on = s.on /\ z.name = s.name /\ z.actions = s.actions
  BY <1>1 DEF Scripts
<1>3. NoUpdate.id = 0 /\ NoUpdate.assign = {} /\ NoUpdate.clear = {} /\ ~NoUpdate.checked
  BY DEF NoUpdate
<1>4. UpdateFits(z, g)
  BY <1>2, <1>3 DEF UpdateFits
<1>5. QED
  BY <1>4 DEF z

LEMMA ConfigureFits ==
  ASSUME NEW s \in Scripts, NEW g, s.name # None, s.update.id # 0, s.on, UpdateFits(s, g)
  PROVE  /\ UpdateFits(Configure(Idle(s)).script, g)
         /\ Configure(Idle(s)).script \in Scripts
         /\ Configure(Idle(s)).out \in Seq(Message)
         /\ Configure(Idle(s)).script.on /\ Configure(Idle(s)).script.name = s.name
<1>1. "ok" \in Answers
  BY DEF Answers
<1>2. CASE NextKeys(s.update) = {}
  <2> DEFINE f == FinishUpdate(Idle(s), "ok")
  <2>1. Configure(Idle(s)) = f
    BY <1>2, ConfigureShape
  <2>2. UpdateFits(f.script, g)
    BY <1>1, FinishFits
  <2>3. /\ f.script \in Scripts /\ f.out \in Seq(Message)
        /\ f.script = [s EXCEPT !.update = NoUpdate, !.polling = TRUE,
                                !.active = IF "ok" = "ok" THEN s.update.set ELSE @]
    BY <1>1, FinishShape
  <2> HIDE DEF f
  <2>4. f.script.on /\ f.script.name = s.name
    BY <2>3 DEF Scripts
  <2>5. QED
    BY <2>1, <2>2, <2>3, <2>4
<1>3. CASE NextKeys(s.update) # {}
  BY <1>3, ConfigureShape
<1>4. QED
  BY <1>2, <1>3

\* Another script state says nothing of the leftovers, while it is the same script.
LEMMA LeftoversStates ==
  ASSUME NEW q, NEW s, NEW s2, Leftovers(q, s), s2.on = s.on, s2.name = s.name
  PROVE  Leftovers(q, s2)
BY DEF Leftovers

LEMMA LeftoversRetries ==
  ASSUME NEW q, NEW r, NEW s, Leftovers(q, s), Silenced(q, r, {"next"})
  PROVE  Leftovers(r, s)
<1>1. DOMAIN r = DOMAIN q
      /\ \A i \in DOMAIN r : r[i].kind = q[i].kind /\ (r[i].kind # "next" => r[i] = q[i])
  BY DEF Silenced
<1>2. QED
  BY <1>1 DEF Leftovers

\* An update that ends with a call of its own on the way is reported unavailable.
LEMMA LeftoversFinish ==
  ASSUME NEW q \in Seq(Message), NEW r \in Seq(Message), NEW s \in Scripts,
         NEW answer \in Answers, s.on, s.name # None, s.update.id # 0, Leftovers(q, s),
         Silenced(q, r, {"set"}),
         answer = "unavailable" \/ \A i \in DOMAIN q : ~HeardSet(q, i)
  PROVE  Leftovers(r \o FinishUpdate(Idle(s), answer).out,
                   FinishUpdate(Idle(s), answer).script)
<1> DEFINE f == FinishUpdate(Idle(s), answer)
           z == f.script
           m1 == CompleteCall(s, answer)
           m2 == NextCall(s)
           n == Len(r)
           t == r \o f.out
<1>1. /\ z = [s EXCEPT !.update = NoUpdate, !.polling = TRUE,
                       !.active = IF answer = "ok" THEN s.update.set ELSE @]
      /\ f.out = <<m1, m2>>
  BY FinishShape
<1>2. m1 \in Message /\ m2 \in Message /\ m1.kind = "complete" /\ m2.kind = "next"
      /\ m1.sender = s.name /\ m1.answer = answer
  BY DEF CompleteCall, NextCall, Message, Scripts, Updates, Names
<1>3. /\ n \in Nat /\ DOMAIN r = 1 .. n /\ n + 1 \in DOMAIN t
      /\ \A i \in DOMAIN r : i \in DOMAIN t /\ t[i] = r[i] /\ i < n + 1
      /\ t[n + 1] = m1 /\ t[n + 2] = m2
      /\ \A i \in DOMAIN t : i \in DOMAIN r \/ i = n + 1 \/ i = n + 2
  BY <1>1, <1>2, TwoBehind
<1> HIDE DEF f, z, m1, m2, n, t
<1>4. z.on /\ z.name = s.name
  BY <1>1 DEF Scripts
<1>5. DOMAIN r = DOMAIN q /\ \A i \in DOMAIN q :
        /\ r[i].kind = q[i].kind /\ r[i].sender = q[i].sender
        /\ r[i].kind # "set" => r[i] = q[i]
  BY DEF Silenced
<1>6. ASSUME NEW i \in DOMAIN t, t[i].kind = "register", ~t[i].heard
      PROVE  \E j \in DOMAIN t : i < j /\ t[j].kind = "register" /\ t[j].heard
  <2>1. i \in DOMAIN r /\ t[i] = r[i] /\ r[i] = q[i]
    BY <1>2, <1>3, <1>5, <1>6
  <2>2. PICK j \in DOMAIN q : i < j /\ q[j].kind = "register" /\ q[j].heard
    BY <1>5, <1>6, <2>1 DEF Leftovers
  <2>3. t[j] = q[j] /\ j \in DOMAIN t
    BY <1>3, <1>5, <2>2
  <2>4. QED
    BY <2>2, <2>3
<1>7. ASSUME NEW i \in DOMAIN t, t[i].kind = "set", ~t[i].heard, t[i].sender = s.name
      PROVE  \E j \in DOMAIN t :
               /\ i < j
               /\ \/ /\ t[j].kind = "complete" /\ t[j].sender = s.name
                     /\ t[j].answer = "unavailable"
                  \/ t[j].kind = "register" /\ t[j].reset
  <2>1. i \in DOMAIN r /\ t[i] = r[i] /\ i < n + 1
    BY <1>2, <1>3, <1>7
  <2>2. CASE HeardSet(q, i)
    BY <2>1, <2>2, <1>2, <1>3, <1>5
  <2>3. CASE ~HeardSet(q, i)
    <3>1. q[i].kind = "set" /\ ~q[i].heard /\ q[i].sender = s.name
      BY <2>1, <2>3, <1>5, <1>7 DEF HeardSet
    <3>2. PICK j \in DOMAIN q :
            /\ i < j
            /\ \/ /\ q[j].kind = "complete" /\ q[j].sender = s.name
                  /\ q[j].answer = "unavailable"
               \/ q[j].kind = "register" /\ q[j].reset
      BY <3>1, <2>1, <1>5 DEF Leftovers
    <3>3. t[j] = q[j] /\ j \in DOMAIN t
      BY <1>3, <1>5, <3>2
    <3>4. QED
      BY <3>2, <3>3
  <2>4. QED
    BY <2>2, <2>3
<1>8. Leftovers(t, z)
  BY <1>4, <1>6, <1>7 DEF Leftovers
<1>9. QED
  BY <1>8 DEF t, z, f

\* The registration of a script that starts makes up for all that is left of earlier ones.
LEMMA LeftoversStart ==
  ASSUME NEW q \in Seq(Message), NEW s, NEW m \in Message, m.kind = "register", m.reset, m.heard
  PROVE  Leftovers(q \o <<m>>, s)
<1> DEFINE n == Len(q)
           t == q \o <<m>>
<1>1. /\ n \in Nat /\ n + 1 \in DOMAIN t
      /\ \A i \in DOMAIN q : t[i] = q[i] /\ i < n + 1
      /\ t[n + 1] = m
      /\ \A i \in DOMAIN t : i \in DOMAIN q \/ i = n + 1
  BY OneBehind
<1> HIDE DEF n, t
<1>2. Leftovers(t, s)
  BY <1>1 DEF Leftovers
<1>3. QED
  BY <1>2 DEF t

-----------------------------------------------------------------------------
(* CompanionState.                                                         *)

\* Without a script nothing is queued, answered or registered, and a companion that
\* is down knows of none.
Sound(c) ==
  /\ c \in Companions
  /\ IsFiniteSet(c.issued)
  /\ c.script = None => c.requests = <<>> /\ c.results = {} /\ c.registered = {}
  /\ ~c.up => c.script = None /\ c.poll = NoPoll

\* There is always an id that is neither issued nor remembered, or no longer both.
LEMMA NextIdIsFresh ==
  ASSUME NEW c \in Companions, IsFiniteSet(c.issued)
  PROVE  NextId(c) \in Ids /\ NextId(c) \notin c.issued \cap Remembered(c)
<1> DEFINE used == c.issued \cap Remembered(c)
           n == Cardinality(used)
<1>1. IsFiniteSet(used) /\ n \in Nat
  BY FS_Subset, FS_CardinalityType
<1> HIDE DEF used
<1>2. \E id \in 1 .. n + 1 : id \notin used
  <2>1. SUFFICES ASSUME 1 .. n + 1 \subseteq used
                 PROVE  FALSE
    OBVIOUS
  <2>2. Cardinality(1 .. n + 1) <= n
    BY <1>1, <2>1, FS_Subset
  <2>3. Cardinality(1 .. n + 1) = n + 1
    <3>1. 1 \in Int /\ n + 1 \in Int /\ ~(1 > n + 1) /\ n + 1 - 1 + 1 = n + 1
      BY <1>1
    <3>2. QED
      BY <3>1, FS_Interval
  <2>4. QED
    BY <1>1, <2>2, <2>3
<1>3. NextId(c) = CHOOSE id \in 1 .. n + 1 : id \notin used
  BY DEF NextId, used
<1>4. NextId(c) \in 1 .. n + 1 /\ NextId(c) \notin used
  BY <1>2, <1>3
<1>5. QED
  BY <1>1, <1>4 DEF used, Ids

NewRequest(c, set) ==
  [id |-> NextId(c), set |-> set, controller |-> c.controller, claimed |-> FALSE]

LEMMA EnqueueShape ==
  ASSUME NEW c \in Companions, IsFiniteSet(c.issued), NEW set \in SUBSET Keys,
         c.script # None, c.up
  PROVE  LET d == EnqueueHotkeys(c, set)
         IN /\ Sound(d)
            /\ NewRequest(c, set) \in Request
            /\ d.up /\ d.poll = c.poll /\ d.script = c.script /\ d.fresh = c.fresh
            /\ d.controller = c.controller /\ d.registered = c.registered
            /\ d.issued = (c.issued \cap Remembered(c)) \cup {NextId(c)}
            /\ d.results = {r \in c.results : r.id # NextId(c)}
            /\ d.requests = Append(c.requests, NewRequest(c, set))
<1> DEFINE d == EnqueueHotkeys(c, set)
           issued == (c.issued \cap Remembered(c)) \cup {NextId(c)}
           results == {r \in c.results : r.id # NextId(c)}
           request == NewRequest(c, set)
           requests == Append(c.requests, request)
<1>1. NextId(c) \in Ids
  BY NextIdIsFresh
<1>2. request \in Request
  BY <1>1 DEF NewRequest, Request, Companions, Controllers
<1>3. issued \in SUBSET Ids /\ IsFiniteSet(issued)
  <2>1. IsFiniteSet(c.issued \cap Remembered(c))
    BY FS_Subset
  <2>2. IsFiniteSet(issued)
    BY <2>1, FS_AddElement
  <2>3. QED
    BY <1>1, <2>2 DEF Companions
<1>4. results \in SUBSET Results
  BY DEF Companions
<1>5. requests \in Seq(Request)
  BY <1>2 DEF Companions
<1>6. d = [c EXCEPT !.issued = issued, !.results = results, !.requests = requests]
  BY DEF EnqueueHotkeys, NewRequest
<1> HIDE DEF d, issued, results, request, requests
<1>7. d \in Companions
  BY <1>3, <1>4, <1>5, <1>6 DEF Companions
<1>8. /\ d.up /\ d.poll = c.poll /\ d.script = c.script /\ d.fresh = c.fresh
      /\ d.controller = c.controller /\ d.registered = c.registered
      /\ d.issued = issued /\ d.results = results /\ d.requests = requests
  BY <1>6 DEF Companions
<1>9. Sound(d)
  BY <1>3, <1>7, <1>8 DEF Sound
<1>10. QED
  BY <1>2, <1>8, <1>9 DEF d, issued, results, request, requests

LEMMA ClearedShape ==
  ASSUME NEW c \in Companions
  PROVE  /\ Cleared(c) \in Companions
         /\ Cleared(c).up = c.up /\ Cleared(c).poll = c.poll /\ Cleared(c).script = c.script
         /\ Cleared(c).fresh = c.fresh /\ Cleared(c).controller = c.controller
         /\ Cleared(c).issued = c.issued
         /\ Cleared(c).requests = <<>> /\ Cleared(c).results = {} /\ Cleared(c).registered = {}
<1> DEFINE d == Cleared(c)
           e == <<>>
<1>1. d = [c EXCEPT !.requests = e, !.results = {}, !.registered = {}]
  BY DEF Cleared
<1>2. e \in Seq(Request)
  OBVIOUS
<1> HIDE DEF d, e
<1>3. /\ d \in Companions
      /\ d.up = c.up /\ d.poll = c.poll /\ d.script = c.script
      /\ d.fresh = c.fresh /\ d.controller = c.controller /\ d.issued = c.issued
      /\ d.requests = e /\ d.results = {} /\ d.registered = {}
  BY <1>1, <1>2 DEF Companions
<1>4. QED
  BY <1>3 DEF d, e

\* What a companion that finds its script gone keeps.
Reset(c, d) ==
  /\ d.up = c.up /\ d.poll = c.poll /\ d.script = None /\ d.controller = c.controller
  /\ d.requests = <<>> /\ d.results = {} /\ d.registered = {} /\ d.issued = c.issued

LEMMA ResetIsSound ==
  ASSUME NEW c, Sound(c)
  PROVE  Sound([Cleared(c) EXCEPT !.script = None]) /\ Reset(c, [Cleared(c) EXCEPT !.script = None])
<1> DEFINE t == Cleared(c)
           d == [t EXCEPT !.script = None]
<1>1. /\ c \in Companions /\ t \in Companions
      /\ t.up = c.up /\ t.poll = c.poll /\ t.controller = c.controller /\ t.issued = c.issued
      /\ t.requests = <<>> /\ t.results = {} /\ t.registered = {}
  BY ClearedShape DEF Sound
<1> HIDE DEF t
<1>2. d \in Companions /\ Reset(c, d)
  BY <1>1 DEF Companions, Names, Reset
<1>3. Sound(d)
  BY <1>2 DEF Sound, Reset
<1>4. QED
  BY <1>2, <1>3 DEF t

LEMMA EnsureReadyShape ==
  ASSUME NEW c, Sound(c)
  PROVE  /\ Sound(EnsureReady(c))
         /\ IF Ready(c) THEN EnsureReady(c) = c ELSE Reset(c, EnsureReady(c))
<1>1. CASE Ready(c)
  BY <1>1 DEF EnsureReady
<1>2. CASE ~Ready(c)
  BY <1>2, ResetIsSound DEF EnsureReady
<1>3. QED
  BY <1>1, <1>2

\* The ids that are remembered outside the queue.
RememberedElsewhere ==
  {app[a].id : a \in Apps} \cup {script.update.id}
    \cup {inbox[i].id : i \in {j \in DOMAIN inbox : inbox[j].kind = "complete"}}

Entry(id, set, controller) ==
  [id |-> id, set |-> set, controller |-> controller, claimed |-> FALSE]

\* d is c with a request of the set queued under the id x, in the controller's name.
Enqueued(c, d, set, controller, x) ==
  /\ x \in Ids /\ x \notin c.issued \cap RememberedElsewhere
  /\ \A i \in DOMAIN c.requests : c.requests[i].id \in c.issued => c.requests[i].id # x
  /\ d.up = c.up /\ d.poll = c.poll /\ d.script = c.script /\ d.fresh = c.fresh
  /\ d.controller = controller /\ d.registered = c.registered
  /\ x \in d.issued
  /\ \A y \in Ids : y \in d.issued => y \in c.issued \/ y = x
  /\ \A y \in c.issued :
       y \in RememberedElsewhere \/ (\E i \in DOMAIN c.requests : c.requests[i].id = y)
         => y \in d.issued
  /\ d.results = {r \in c.results : r.id # x}
  /\ d.requests = Append(c.requests, Entry(x, set, controller))

LEMMA EnqueueIsEnqueued ==
  ASSUME NEW c \in Companions, IsFiniteSet(c.issued), NEW set \in SUBSET Keys,
         c.script # None, c.up
  PROVE  /\ Sound(EnqueueHotkeys(c, set))
         /\ Enqueued(c, EnqueueHotkeys(c, set), set, c.controller, NextId(c))
<1> DEFINE d == EnqueueHotkeys(c, set)
           x == NextId(c)
<1>1. x \in Ids /\ x \notin c.issued \cap Remembered(c)
  BY NextIdIsFresh
<1>2. /\ Sound(d)
      /\ d.up /\ d.poll = c.poll /\ d.script = c.script /\ d.fresh = c.fresh
      /\ d.controller = c.controller /\ d.registered = c.registered
      /\ d.issued = (c.issued \cap Remembered(c)) \cup {x}
      /\ d.results = {r \in c.results : r.id # x}
      /\ d.requests = Append(c.requests, NewRequest(c, set))
  BY EnqueueShape
<1>3. NewRequest(c, set) = Entry(x, set, c.controller)
  BY DEF NewRequest, Entry
<1> HIDE DEF d, x
<1>4. \A y : y \in Remembered(c) <=>
        y \in RememberedElsewhere \/ \E i \in DOMAIN c.requests : y = c.requests[i].id
  BY DEF Remembered, RememberedElsewhere
<1>5. Enqueued(c, d, set, c.controller, x)
  BY <1>1, <1>2, <1>3, <1>4 DEF Enqueued
<1>6. QED
  BY <1>2, <1>5 DEF d, x

LEMMA RegisterShape ==
  ASSUME NEW c, Sound(c), NEW sender \in Connections, NEW set \in SUBSET Keys,
         c.script # None
  PROVE  /\ Sound(RegisterHotkeys(c, sender, set))
         /\ Enqueued(c, RegisterHotkeys(c, sender, set), set, sender, NextId(c))
<1> DEFINE t == [c EXCEPT !.controller = sender]
           d == RegisterHotkeys(c, sender, set)
<1>1. c \in Companions /\ IsFiniteSet(c.issued) /\ c.up
  BY DEF Sound, Companions
<1>2. /\ t \in Companions /\ t.controller = sender
      /\ t.up = c.up /\ t.poll = c.poll /\ t.script = c.script /\ t.fresh = c.fresh
      /\ t.registered = c.registered /\ t.issued = c.issued /\ t.results = c.results
      /\ t.requests = c.requests
  BY <1>1 DEF Companions, Controllers
<1>3. d = EnqueueHotkeys(t, set)
  BY DEF RegisterHotkeys
<1> HIDE DEF t, d
<1>4. Remembered(t) = Remembered(c)
  BY <1>2 DEF Remembered
<1>5. NextId(t) = NextId(c)
  BY <1>2, <1>4 DEF NextId
<1>6. Sound(d) /\ Enqueued(t, d, set, sender, NextId(c))
  BY <1>1, <1>2, <1>3, <1>5, EnqueueIsEnqueued
<1>7. Enqueued(c, d, set, sender, NextId(c))
  BY <1>2, <1>6 DEF Enqueued
<1>8. QED
  BY <1>6, <1>7 DEF d

\* d starts over with one request, that of the set, or with none.
StartsOver(c, d, set) ==
  /\ d.up = c.up /\ d.registered = {} /\ d.results = {}
  /\ \E x \in Ids :
       /\ x \notin c.issued \cap RememberedElsewhere
       /\ x \in d.issued
       /\ \A y \in Ids : y \in d.issued => y \in c.issued \/ y = x
       /\ \A y \in c.issued : y \in RememberedElsewhere => y \in d.issued
       /\ d.requests = <<Entry(x, set, d.controller)>>

LEMMA ClearedEnqueue ==
  ASSUME NEW c \in Companions, NEW t \in Companions, NEW set \in SUBSET Keys,
         IsFiniteSet(c.issued), t.script # None, t.up, t.up = c.up,
         t.requests = <<>>, t.results = {}, t.registered = {}, t.issued = c.issued
  PROVE  LET d == EnqueueHotkeys(t, set)
         IN /\ Sound(d) /\ StartsOver(c, d, set)
            /\ d.poll = t.poll /\ d.script = t.script /\ d.fresh = t.fresh
            /\ d.controller = t.controller
<1> DEFINE d == EnqueueHotkeys(t, set)
           x == NextId(t)
<1>1. Sound(d) /\ Enqueued(t, d, set, t.controller, x)
  BY EnqueueIsEnqueued
<1> HIDE DEF d, x
<1>2. x \in Ids /\ Entry(x, set, t.controller) \in Request
  BY <1>1 DEF Enqueued, Entry, Request, Companions, Controllers
<1>3. Append(<<>>, Entry(x, set, t.controller)) = <<Entry(x, set, t.controller)>>
  OBVIOUS
<1>4. d.requests = <<Entry(x, set, d.controller)>>
  BY <1>1, <1>3 DEF Enqueued
<1>5. StartsOver(c, d, set)
  BY <1>1, <1>2, <1>4 DEF Enqueued, StartsOver
<1>6. QED
  BY <1>1, <1>5 DEF Enqueued, d

LEMMA MarkReadyShape ==
  ASSUME NEW c, Sound(c), c.up, NEW sender \in ScriptNames, NEW reset \in BOOLEAN
  PROVE  LET d == MarkReady(c, sender, reset)
         IN /\ Sound(d) /\ d.up /\ d.script = sender /\ d.controller = c.controller
            /\ IF ~reset /\ c.script = sender
               THEN /\ d.requests = c.requests /\ d.results = c.results
                    /\ d.issued = c.issued /\ d.registered = c.registered /\ d.poll = c.poll
               ELSE /\ d.poll = NoPoll /\ d.registered = {}
                    /\ \/ (c.registered # {} \/ ~reset) /\ StartsOver(c, d, c.registered)
                       \/ /\ reset /\ c.registered = {} /\ d.requests = <<>>
                          /\ d.results = {} /\ d.issued = c.issued
<1> DEFINE d == MarkReady(c, sender, reset)
           u == Cleared(c)
           t == [u EXCEPT !.script = sender, !.fresh = TRUE, !.poll = NoPoll]
<1>1. c \in Companions /\ IsFiniteSet(c.issued) /\ c.registered \in SUBSET Keys /\ sender # None
      /\ sender \in Names /\ NoPoll \in Polls
  BY ConstantsOK DEF Sound, Companions, Names, NoPoll, Polls
<1>2. CASE ~reset /\ c.script = sender
  <2> DEFINE e == [c EXCEPT !.fresh = TRUE]
  <2>1. d = e
    BY <1>2 DEF MarkReady
  <2>2. /\ e \in Companions /\ e.up = c.up /\ e.script = c.script /\ e.controller = c.controller
        /\ e.requests = c.requests /\ e.results = c.results
        /\ e.issued = c.issued /\ e.registered = c.registered /\ e.poll = c.poll
    BY <1>1 DEF Companions
  <2> HIDE DEF d, e
  <2>3. Sound(e)
    BY <2>2 DEF Sound
  <2>4. QED
    BY <1>2, <2>1, <2>2, <2>3 DEF d
<1>3. CASE ~(~reset /\ c.script = sender)
  <2>1. /\ u \in Companions /\ u.up = c.up /\ u.controller = c.controller
        /\ u.issued = c.issued /\ u.requests = <<>> /\ u.results = {} /\ u.registered = {}
    BY <1>1, ClearedShape
  <2>2. d = IF c.registered # {} \/ ~reset THEN EnqueueHotkeys(t, c.registered) ELSE t
    BY <1>3 DEF MarkReady
  <2> HIDE DEF u, d
  <2>3. /\ t \in Companions /\ t.up = c.up /\ t.controller = c.controller
        /\ t.issued = c.issued /\ t.requests = <<>> /\ t.results = {} /\ t.registered = {}
        /\ t.script = sender /\ t.poll = NoPoll
    BY <1>1, <2>1 DEF Companions
  <2> HIDE DEF t
  <2>4. CASE c.registered # {} \/ ~reset
    <3> DEFINE e == EnqueueHotkeys(t, c.registered)
    <3>1. /\ Sound(e) /\ StartsOver(c, e, c.registered)
          /\ e.poll = t.poll /\ e.script = t.script /\ e.controller = t.controller
      BY <1>1, <2>3, ClearedEnqueue
    <3>2. e = d
      BY <2>2, <2>4
    <3> HIDE DEF e
    <3>3. d.up /\ d.registered = {}
      BY <3>1, <3>2 DEF StartsOver
    <3>4. QED
      BY <1>3, <2>3, <2>4, <3>1, <3>2, <3>3 DEF d
  <2>5. CASE ~(c.registered # {} \/ ~reset)
    <3>1. d = t /\ reset /\ c.registered = {}
      BY <2>2, <2>5
    <3>2. Sound(d)
      BY <1>1, <2>3, <3>1 DEF Sound
    <3>3. QED
      BY <1>3, <2>3, <3>1, <3>2 DEF d
  <2>6. QED
    BY <2>4, <2>5
<1>4. QED
  BY <1>2, <1>3

\* The companion forgets its script, or its controller, or nothing.
LEMMA OwnerLostShape ==
  ASSUME NEW c, Sound(c), c.up, NEW owner, owner # None
  PROVE  LET d == OwnerLost(c, owner)
         IN /\ Sound(d) /\ d.up /\ d.poll = c.poll
            /\ CASE c.script = owner -> Reset(c, d)
                 [] c.script # owner /\ c.controller = owner ->
                      /\ d.controller = None /\ d.script = c.script
                      /\ d.registered = {} /\ d.results = {}
                      /\ c.script # None => StartsOver(c, d, {})
                      /\ c.script = None => d.requests = <<>>
                 [] OTHER -> d = c
<1> DEFINE d == OwnerLost(c, owner)
           u == Cleared(c)
           t == [u EXCEPT !.controller = None]
<1>1. c \in Companions /\ IsFiniteSet(c.issued) /\ {} \in SUBSET Keys
  BY DEF Sound
<1>2. CASE c.script = owner
  BY <1>2, ResetIsSound DEF OwnerLost, Reset
<1>3. CASE c.script # owner /\ c.controller = owner
  <2>1. /\ u \in Companions /\ u.up = c.up /\ u.script = c.script /\ u.poll = c.poll
        /\ u.issued = c.issued /\ u.requests = <<>> /\ u.results = {} /\ u.registered = {}
    BY <1>1, ClearedShape
  <2>2. d = IF c.script # None THEN EnqueueHotkeys(t, {}) ELSE t
    BY <1>3 DEF OwnerLost
  <2> HIDE DEF u, d
  <2>3. /\ t \in Companions /\ t.up = c.up /\ t.controller = None
        /\ t.issued = c.issued /\ t.requests = <<>> /\ t.results = {} /\ t.registered = {}
        /\ t.script = c.script /\ t.poll = c.poll
    BY <1>1, <2>1 DEF Companions, Controllers
  <2> HIDE DEF t
  <2>4. CASE c.script # None
    <3> DEFINE e == EnqueueHotkeys(t, {})
    <3>1. /\ Sound(e) /\ StartsOver(c, e, {})
          /\ e.poll = t.poll /\ e.script = t.script /\ e.controller = t.controller
      BY <1>1, <2>3, <2>4, ClearedEnqueue
    <3>2. e = d
      BY <2>2, <2>4
    <3> HIDE DEF e
    <3>3. d.up /\ d.registered = {} /\ d.results = {}
      BY <3>1, <3>2 DEF StartsOver
    <3>4. QED
      BY <1>3, <2>3, <2>4, <3>1, <3>2, <3>3 DEF d
  <2>5. CASE c.script = None
    <3>1. d = t
      BY <2>2, <2>5
    <3>2. Sound(d)
      BY <1>1, <2>3, <3>1 DEF Sound
    <3>3. QED
      BY <1>3, <2>3, <2>5, <3>1, <3>2 DEF d
  <2>6. QED
    BY <2>4, <2>5
<1>4. CASE c.script # owner /\ c.controller # owner
  BY <1>4 DEF OwnerLost
<1>5. QED
  BY <1>2, <1>3, <1>4

\* d is c, with the claimed request at index answered and, if the answer is ok, in effect.
Completed(c, d, id, answer, index) ==
  /\ index \in DOMAIN c.requests
  /\ c.requests[index].id = id /\ c.requests[index].claimed
  /\ d.up = c.up /\ d.poll = c.poll /\ d.script = c.script /\ d.fresh = c.fresh
  /\ d.issued = c.issued
  /\ d.requests = RemoveAt(c.requests, index)
  /\ d.results = IF Awaited(id) THEN c.results \cup {[id |-> id, answer |-> answer]}
                 ELSE c.results
  /\ d.registered = IF answer = "ok" THEN c.requests[index].set ELSE c.registered
  /\ d.controller = IF /\ answer = "ok" /\ c.requests[index].set = {}
                       /\ c.controller = c.requests[index].controller
                    THEN None ELSE c.controller

LEMMA CompleteShape ==
  ASSUME NEW c, Sound(c), NEW id \in Ids, NEW answer \in Answers, Claimed(c, id) # {}
  PROVE  /\ Sound(CompleteRequest(c, id, answer))
         /\ \E index \in DOMAIN c.requests :
              Completed(c, CompleteRequest(c, id, answer), id, answer, index)
<1> DEFINE d == CompleteRequest(c, id, answer)
           index == CHOOSE i \in Claimed(c, id) : TRUE
           request == c.requests[index]
           requests == RemoveAt(c.requests, index)
           results == IF Awaited(id) THEN c.results \cup {[id |-> id, answer |-> answer]}
                      ELSE c.results
           t == [c EXCEPT !.requests = requests, !.results = results]
           releases == request.set = {} /\ c.controller = request.controller
           e == [t EXCEPT !.registered = request.set,
                          !.controller = IF releases THEN None ELSE @]
<1>1. c \in Companions /\ IsFiniteSet(c.issued)
  BY DEF Sound
<1>2. index \in Claimed(c, id)
  OBVIOUS
<1>3. index \in DOMAIN c.requests /\ request.id = id /\ request.claimed
  BY <1>2 DEF Claimed
<1>4. c.requests \in Seq(Request) /\ request \in Request
  BY <1>1, <1>3 DEF Companions
<1>5. request.set \in SUBSET Keys
  BY <1>4 DEF Request
<1>6. requests \in Seq(Request)
  BY <1>3, <1>4, RemoveAtFacts
<1>7. results \in SUBSET Results
  BY <1>1 DEF Companions, Results
<1>8. c.script # None /\ c.up
  BY <1>1, <1>3 DEF Sound, Companions
<1>9. d = IF answer # "ok" THEN t ELSE e
  BY DEF CompleteRequest
<1> HIDE DEF d, index, request, requests, results
<1>10. /\ t \in Companions /\ t.up = c.up /\ t.poll = c.poll /\ t.script = c.script
       /\ t.fresh = c.fresh /\ t.issued = c.issued /\ t.registered = c.registered
       /\ t.controller = c.controller /\ t.requests = requests /\ t.results = results
  BY <1>1, <1>6, <1>7 DEF Companions
<1> HIDE DEF t
<1>11. /\ e \in Companions /\ e.up = c.up /\ e.poll = c.poll /\ e.script = c.script
       /\ e.fresh = c.fresh /\ e.issued = c.issued /\ e.registered = request.set
       /\ e.controller = (IF releases THEN None ELSE c.controller)
       /\ e.requests = requests /\ e.results = results
  BY <1>5, <1>10 DEF Companions, Controllers
<1> HIDE DEF e
<1>12. Sound(d)
  BY <1>1, <1>8, <1>9, <1>10, <1>11 DEF Sound
<1>13. /\ d.up = c.up /\ d.poll = c.poll /\ d.script = c.script
       /\ d.fresh = c.fresh /\ d.issued = c.issued
       /\ d.requests = requests /\ d.results = results
       /\ d.registered = IF answer = "ok" THEN request.set ELSE c.registered
       /\ d.controller = IF /\ answer = "ok" /\ request.set = {}
                            /\ c.controller = request.controller
                         THEN None ELSE c.controller
  BY <1>9, <1>10, <1>11
<1>14. Completed(c, d, id, answer, index)
  BY <1>3, <1>13 DEF Completed, request, requests, results
<1>15. QED
  BY <1>3, <1>12, <1>14 DEF d

-----------------------------------------------------------------------------
(* The invariant of the channel.                                           *)

Channels ==
  /\ Channel(inbox, script, companion.poll)
  /\ UpdateFits(script, grabs)
  /\ Leftovers(inbox, script)

ChannelInv ==
  /\ TypeOK
  /\ Sound(companion)
  /\ ~companion.up => inbox = <<>>
  /\ Channels

FaultsTyped == faults \in 0 .. MaxFaults /\ mishaps \subseteq {"stall", "conflict"}

LEMMA ChannelInvNamed ==
  ChannelInv <=> /\ app \in [Apps -> AppRecords] /\ Sound(companion) /\ script \in Scripts
                 /\ grabs \subseteq Keys /\ taken \subseteq Contested /\ inbox \in Seq(Message)
                 /\ FaultsTyped
                 /\ ~companion.up => inbox = <<>>
                 /\ Channel(inbox, script, companion.poll)
                 /\ UpdateFits(script, grabs)
                 /\ Leftovers(inbox, script)
BY TypesNamed DEF ChannelInv, Channels, FaultsTyped, Sound

LEMMA ChannelStep ==
  ASSUME app' \in [Apps -> AppRecords], Sound(companion'), script' \in Scripts,
         grabs' \subseteq Keys, taken' \subseteq Contested, inbox' \in Seq(Message),
         FaultsTyped', ~companion'.up => inbox' = <<>>,
         Channel(inbox', script', companion'.poll), UpdateFits(script', grabs'),
         Leftovers(inbox', script')
  PROVE  ChannelInv'
<1>1. TypeOK'
  BY DEF TypeOK, AppRecords, Sound, Companions, Updates, Scripts, Names, Controllers, Results,
         Polls, FaultsTyped
<1>2. QED
  BY <1>1 DEF ChannelInv, Channels

LEMMA FaultsStayTyped ==
  ASSUME FaultsTyped, Calm \/ Fault \/ Stall \/ Mishap({"conflict"}, 1) \/ Mishap({}, 1)
  PROVE  FaultsTyped'
<1>1. ASSUME NEW kinds \in SUBSET {"stall", "conflict"}, Mishap(kinds, 1)
      PROVE  FaultsTyped'
  BY <1>1, ConstantsOK DEF FaultsTyped, Mishap
<1>2. CASE Calm
  BY <1>2 DEF FaultsTyped, Calm
<1>3. CASE Fault
  BY <1>1, <1>3 DEF Fault
<1>4. CASE Stall
  BY <1>1, <1>4 DEF Stall
<1>5. CASE Mishap({"conflict"}, 1)
  BY <1>1, <1>5
<1>6. CASE Mishap({}, 1)
  BY <1>1, <1>6
<1>7. QED
  BY <1>2, <1>3, <1>4, <1>5, <1>6

LEMMA InboxCases ==
  ASSUME NEW out
  PROVE  Posted(out) = IF companion.up THEN inbox \o out ELSE inbox
BY DEF Posted

\* An App acts: what it sends is no turn of the script's.
LEMMA AppActs ==
  ASSUME ChannelInv, app' \in [Apps -> AppRecords], Sound(companion'),
         companion'.up = companion.up, companion'.poll = companion.poll,
         UNCHANGED <<script, grabs, taken>>, FaultsTyped',
         NEW out \in Seq(Message), \A i \in DOMAIN out : out[i].kind \in {"call", "lost"},
         inbox' = Posted(out)
  PROVE  ChannelInv'
<1>1. /\ script \in Scripts /\ grabs \subseteq Keys /\ taken \subseteq Contested
      /\ inbox \in Seq(Message) /\ Sound(companion)
      /\ ~companion.up => inbox = <<>>
      /\ Channel(inbox, script, companion.poll) /\ UpdateFits(script, grabs)
      /\ Leftovers(inbox, script)
  BY ChannelInvNamed
<1>2. \A i \in DOMAIN out : out[i].kind \in {"call", "lost"}
  OBVIOUS
<1>3. companion.poll \in Polls
  BY <1>1 DEF Sound, Companions
<1>4. CASE companion.up
  <2>1. inbox' = inbox \o out
    BY <1>4 DEF Posted
  <2>2. inbox \o out \in Seq(Message)
    BY <1>1
  <2>3. Channel(inbox \o out, script, companion.poll)
    BY <1>1, <1>2, <1>3, ChannelAside
  <2>4. \A i \in DOMAIN out : out[i].kind \in {"register", "set"} => out[i].heard
    BY <1>2
  <2>5. Leftovers(inbox \o out, script)
    BY <1>1, <2>4, LeftoversConcat
  <2>6. script' = script /\ grabs' = grabs /\ taken' = taken
    OBVIOUS
  <2>7. /\ inbox' \in Seq(Message) /\ script' \in Scripts /\ grabs' \subseteq Keys
        /\ taken' \subseteq Contested
        /\ ~companion'.up => inbox' = <<>>
        /\ Channel(inbox', script', companion'.poll) /\ UpdateFits(script', grabs')
        /\ Leftovers(inbox', script')
    BY <1>1, <1>4, <2>1, <2>2, <2>3, <2>5, <2>6
  <2>8. QED
    BY <2>7, ChannelStep
<1>5. CASE ~companion.up
  <2>1. inbox' = inbox
    BY <1>5 DEF Posted
  <2>2. script' = script /\ grabs' = grabs /\ taken' = taken
    OBVIOUS
  <2>3. /\ inbox' \in Seq(Message) /\ script' \in Scripts /\ grabs' \subseteq Keys
        /\ taken' \subseteq Contested
        /\ ~companion'.up => inbox' = <<>>
        /\ Channel(inbox', script', companion'.poll) /\ UpdateFits(script', grabs')
        /\ Leftovers(inbox', script')
    BY <1>1, <1>5, <2>1, <2>2
  <2>4. QED
    BY <2>3, ChannelStep
<1>6. QED
  BY <1>4, <1>5

LEMMA AppActsQuietly ==
  ASSUME ChannelInv, app' \in [Apps -> AppRecords], Sound(companion'),
         companion'.up = companion.up, companion'.poll = companion.poll,
         UNCHANGED <<script, grabs, taken, inbox>>, FaultsTyped'
  PROVE  ChannelInv'
<1>1. /\ <<>> \in Seq(Message)
      /\ \A i \in DOMAIN <<>> : <<>>[i].kind \in {"call", "lost"}
  OBVIOUS
<1>2. inbox \in Seq(Message)
  BY ChannelInvNamed
<1>3. inbox' = Posted(<<>>)
  BY <1>2 DEF Posted
<1>4. QED
  BY <1>1, <1>3, AppActs

LEMMA ForgottenTyped ==
  ASSUME NEW a \in Apps, app \in [Apps -> AppRecords], NEW state \in {"idle", "gone"}
  PROVE  /\ Forgotten(a, state) \in AppRecords
         /\ [app EXCEPT ![a] = Forgotten(a, state)] \in [Apps -> AppRecords]
         /\ Forgotten(a, state).conn = None /\ Forgotten(a, state).held = None
         /\ Forgotten(a, state).id = 0 /\ Forgotten(a, state).doing \in {"idle", "gone"}
<1> DEFINE r == app[a]
           d == IF state = "idle" /\ r.doing = "quitting" THEN "gone" ELSE state
           f == Forgotten(a, state)
<1>1. r \in AppRecords /\ d \in {"idle", "gone"}
  OBVIOUS
<1>2. f = [r EXCEPT !.conn = None, !.held = None, !.id = 0, !.set = {}, !.doing = d]
  BY DEF Forgotten
<1> HIDE DEF r, d, f
<1>3. f \in AppRecords /\ f.conn = None /\ f.held = None /\ f.id = 0 /\ f.doing = d
  BY <1>1, <1>2 DEF AppRecords, Controllers
<1>4. [app EXCEPT ![a] = f] \in [Apps -> AppRecords]
  BY <1>3
<1>5. QED
  BY <1>1, <1>3, <1>4 DEF f

LEMMA ConnectionTyped ==
  ASSUME NEW a \in Apps, app \in [Apps -> AppRecords], CanConnect(a)
  PROVE  /\ ConnectionOf(a) \in Connections /\ ConnectionOf(a) # None
         /\ app[a].conn # None => ConnectionOf(a) = app[a].conn
         /\ app[a].conn = None => ConnectionOf(a) \notin InUse
BY ConstantsOK DEF ConnectionOf, CanConnect, FreshConnection, AppRecords, Controllers

LEMMA AnnouncedTyped ==
  ASSUME NEW a \in Apps, NEW c \in Controllers
  PROVE  /\ Announced(a, c) \in Seq(Message)
         /\ \A i \in DOMAIN Announced(a, c) : Announced(a, c)[i].kind \in {"call", "lost"}
<1> DEFINE m == [kind |-> "lost", sender |-> c, app |-> a]
<1>1. CASE c # None /\ c = companion.controller
  <2>1. m \in Message /\ m.kind = "lost"
    BY <1>1 DEF Message, Controllers
  <2>2. Announced(a, c) = <<m>>
    BY <1>1 DEF Announced
  <2> HIDE DEF m
  <2>3. QED
    BY <2>1, <2>2
<1>2. CASE ~(c # None /\ c = companion.controller)
  <2>1. Announced(a, c) = <<>>
    BY <1>2 DEF Announced
  <2>2. QED
    BY <2>1
<1>3. QED
  BY <1>1, <1>2

\* The App drops its connection, and the companion may find its script gone.
LEMMA AppDisconnects ==
  ASSUME ChannelInv, NEW a \in Apps, NEW state \in {"idle", "gone"}, Disconnect(a, state),
         Sound(companion'), companion'.up = companion.up, companion'.poll = companion.poll,
         UNCHANGED <<script, grabs, taken>>, FaultsTyped'
  PROVE  ChannelInv'
<1>1. app \in [Apps -> AppRecords] /\ app[a].conn \in Controllers
  BY ChannelInvNamed DEF AppRecords
<1>2. app' = [app EXCEPT ![a] = Forgotten(a, state)]
      /\ inbox' = Posted(Announced(a, app[a].conn))
  BY DEF Disconnect
<1>3. app' \in [Apps -> AppRecords]
  BY <1>1, <1>2, ForgottenTyped
<1> DEFINE out == Announced(a, app[a].conn)
<1>4. out \in Seq(Message) /\ \A i \in DOMAIN out : out[i].kind \in {"call", "lost"}
  BY <1>1, AnnouncedTyped
<1>5. inbox' = Posted(out)
  BY <1>2
<1> HIDE DEF out
<1>6. QED
  BY <1>3, <1>4, <1>5, AppActs

LEMMA CallFailing ==
  ASSUME ChannelInv, NEW a \in Apps, NEW state \in {"idle", "gone"}, CallFails(a, state)
  PROVE  /\ Sound(companion') /\ companion'.up = companion.up
         /\ companion'.poll = companion.poll /\ FaultsTyped'
         /\ UNCHANGED <<script, grabs, taken>> /\ Disconnect(a, state)
         /\ companion' = companion \/ Reset(companion, companion')
         /\ Ready(companion) => companion' = companion
<1>1. Sound(companion) /\ FaultsTyped
  BY ChannelInvNamed
<1>2. companion' = (IF companion.up THEN EnsureReady(companion) ELSE companion)
      /\ Calm /\ UNCHANGED <<script, native>> /\ Disconnect(a, state)
  BY DEF CallFails
<1>3. FaultsTyped'
  BY <1>1, <1>2, FaultsStayTyped
<1>4. companion' = companion \/ (companion' = EnsureReady(companion))
  BY <1>2
<1>5. /\ Sound(companion') /\ companion'.up = companion.up
      /\ companion'.poll = companion.poll
      /\ companion' = companion \/ Reset(companion, companion')
      /\ Ready(companion) => companion' = companion
  BY <1>1, <1>4, EnsureReadyShape DEF Reset
<1>6. QED
  BY <1>2, <1>3, <1>5 DEF native

LEMMA CallFailsKeepsChannel ==
  ASSUME ChannelInv, NEW a \in Apps, NEW state \in {"idle", "gone"}, CallFails(a, state)
  PROVE  ChannelInv'
BY CallFailing, AppDisconnects

\* A request begins: what it does to the App and to the queue.
LEMMA BeginShape ==
  ASSUME ChannelInv, NEW a \in Apps, NEW set \in SUBSET Keys,
         NEW doing \in {"waiting", "quitting"}, BeginRequest(a, set, doing)
  PROVE  /\ companion.up /\ Ready(companion) /\ companion.script # None
         /\ CanConnect(a) /\ Authorized(companion, ConnectionOf(a))
         /\ Sound(companion')
         /\ Enqueued(companion, companion', set, ConnectionOf(a), NextId(companion))
         /\ app' \in [Apps -> AppRecords]
         /\ UNCHANGED <<script, grabs, taken, inbox>> /\ FaultsTyped'
         /\ mishaps' = mishaps
<1> DEFINE c == ConnectionOf(a)
           x == NextId(companion)
<1>1. app \in [Apps -> AppRecords] /\ Sound(companion) /\ FaultsTyped
  BY ChannelInvNamed
<1>2. /\ CanConnect(a) /\ companion.up /\ Ready(companion)
      /\ Authorized(companion, c) /\ companion' = RegisterHotkeys(companion, c, set)
      /\ app' = [app EXCEPT ![a] = [@ EXCEPT !.conn = c, !.doing = doing, !.set = set, !.id = x]]
      /\ Calm /\ UNCHANGED <<script, native, inbox>>
  BY DEF BeginRequest
<1>3. c \in Connections
  BY <1>1, <1>2, ConnectionTyped
<1>4. companion.script # None
  BY <1>2 DEF Ready
<1>5. Sound(companion') /\ Enqueued(companion, companion', set, c, x)
  BY <1>1, <1>2, <1>3, <1>4, RegisterShape
<1>6. x \in Ids
  BY <1>5 DEF Enqueued
<1> HIDE DEF c, x
<1>7. app' \in [Apps -> AppRecords]
  <2> DEFINE r == app[a]
             z == [r EXCEPT !.conn = c, !.doing = doing, !.set = set, !.id = x]
  <2>1. r \in AppRecords
    BY <1>1
  <2>2. app' = [app EXCEPT ![a] = z]
    BY <1>2
  <2> HIDE DEF r
  <2>3. z \in AppRecords
    BY <2>1, <1>3, <1>6 DEF AppRecords, Controllers
  <2> HIDE DEF z
  <2>4. QED
    BY <1>1, <2>2, <2>3
<1>8. FaultsTyped'
  BY <1>1, <1>2, FaultsStayTyped
<1>9. mishaps' = mishaps
  BY <1>2 DEF Calm
<1>10. QED
  BY <1>2, <1>4, <1>5, <1>7, <1>8, <1>9 DEF c, x, native

LEMMA BeginKeepsChannel ==
  ASSUME ChannelInv, NEW a \in Apps, NEW set \in SUBSET Keys,
         NEW doing \in {"waiting", "quitting"}, BeginRequest(a, set, doing)
  PROVE  ChannelInv'
<1>1. companion'.up = companion.up /\ companion'.poll = companion.poll
  BY BeginShape DEF Enqueued
<1>2. QED
  BY <1>1, BeginShape, AppActsQuietly

\* A result is taken.
LEMMA TakesShape ==
  ASSUME ChannelInv, NEW a \in Apps, NEW r \in ResultsFor(a),
         companion' = [companion EXCEPT !.results = @ \ {r}]
  PROVE  /\ Sound(companion') /\ companion'.up = companion.up
         /\ companion'.poll = companion.poll /\ companion'.script = companion.script
         /\ companion'.fresh = companion.fresh
         /\ companion'.controller = companion.controller
         /\ companion'.requests = companion.requests
         /\ companion'.results = companion.results \ {r}
         /\ companion'.issued = companion.issued
         /\ companion'.registered = companion.registered
         /\ r \in companion.results /\ r \in Results /\ r.id = app[a].id
<1>1. Sound(companion) /\ companion \in Companions
  BY ChannelInvNamed DEF Sound
<1>2. r \in companion.results /\ r.id = app[a].id
  BY DEF ResultsFor
<1>3. /\ companion' \in Companions /\ companion'.up = companion.up
      /\ companion'.poll = companion.poll /\ companion'.script = companion.script
      /\ companion'.fresh = companion.fresh
      /\ companion'.controller = companion.controller
      /\ companion'.requests = companion.requests
      /\ companion'.results = companion.results \ {r}
      /\ companion'.issued = companion.issued
      /\ companion'.registered = companion.registered
  BY <1>1 DEF Companions
<1>4. Sound(companion')
  BY <1>1, <1>3 DEF Sound
<1>5. r \in Results
  BY <1>1, <1>2 DEF Companions
<1>6. QED
  BY <1>2, <1>3, <1>4, <1>5

\* The App's record when a result ends its wait.
Settled(a, r) ==
  [app[a] EXCEPT !.doing = "idle", !.id = 0, !.set = {},
                 !.held = IF r.answer = "ok" THEN app[a].set ELSE app[a].held]

LEMMA SettledTyped ==
  ASSUME NEW a \in Apps, NEW r, app \in [Apps -> AppRecords]
  PROVE  /\ Settled(a, r) \in AppRecords
         /\ [app EXCEPT ![a] = Settled(a, r)] \in [Apps -> AppRecords]
         /\ Settled(a, r).doing = "idle" /\ Settled(a, r).id = 0
         /\ Settled(a, r).conn = app[a].conn
         /\ Settled(a, r).held = IF r.answer = "ok" THEN app[a].set ELSE app[a].held
<1> DEFINE y == app[a]
           held == IF r.answer = "ok" THEN y.set ELSE y.held
           z == Settled(a, r)
<1>1. y \in AppRecords
  OBVIOUS
<1>2. held \in {None} \cup SUBSET Keys
  BY <1>1 DEF AppRecords
<1>3. z = [y EXCEPT !.doing = "idle", !.id = 0, !.set = {}, !.held = held]
  BY DEF Settled
<1> HIDE DEF held, z
<1>4. z \in AppRecords /\ z.doing = "idle" /\ z.id = 0 /\ z.conn = y.conn /\ z.held = held
  BY <1>1, <1>2, <1>3 DEF AppRecords
<1>5. [app EXCEPT ![a] = z] \in [Apps -> AppRecords]
  BY <1>4
<1>6. QED
  BY <1>4, <1>5 DEF z, held

\* What taking the result r does.
ResultTaken(a, r) ==
  /\ Waiting(a) /\ companion.up /\ Ready(companion)
  /\ companion' = [companion EXCEPT !.results = @ \ {r}]
  /\ IF app[a].doing = "quitting" \/ r.answer = "unavailable"
     THEN Disconnect(a, "idle")
     ELSE app' = [app EXCEPT ![a] = Settled(a, r)] /\ inbox' = inbox
  /\ Calm
  /\ UNCHANGED <<script, native>>

LEMMA TakesAResult ==
  ASSUME NEW a \in Apps, AppTakesResult(a)
  PROVE  \E r \in ResultsFor(a) : ResultTaken(a, r)
<1>1. PICK r \in ResultsFor(a) :
        /\ Waiting(a) /\ companion.up /\ Ready(companion)
        /\ companion' = [companion EXCEPT !.results = @ \ {r}]
        /\ IF app[a].doing = "quitting" \/ r.answer = "unavailable"
           THEN Disconnect(a, "idle")
           ELSE /\ app' = [app EXCEPT ![a] = [@ EXCEPT !.doing = "idle", !.id = 0, !.set = {},
                             !.held = IF r.answer = "ok" THEN app[a].set ELSE app[a].held]]
                /\ UNCHANGED inbox
        /\ Calm
        /\ UNCHANGED <<script, native>>
  BY Zenon DEF AppTakesResult
<1> DEFINE z == [app EXCEPT ![a] = [@ EXCEPT !.doing = "idle", !.id = 0, !.set = {},
                             !.held = IF r.answer = "ok" THEN app[a].set ELSE app[a].held]]
<1>2. z = [app EXCEPT ![a] = Settled(a, r)]
  BY Zenon DEF Settled
<1> HIDE DEF z
<1>3. app[a].doing = "quitting" \/ r.answer = "unavailable" \/ (app' = z /\ inbox' = inbox)
  BY <1>1 DEF z
<1>4. ResultTaken(a, r)
  BY <1>1, <1>2, <1>3 DEF ResultTaken
<1>5. QED
  BY <1>4

LEMMA TakesKeepsChannel ==
  ASSUME ChannelInv, NEW a \in Apps, AppTakesResult(a)
  PROVE  ChannelInv'
<1>1. PICK r \in ResultsFor(a) : ResultTaken(a, r)
  BY TakesAResult
<1>2. Sound(companion') /\ companion'.up = companion.up /\ companion'.poll = companion.poll
  BY <1>1, TakesShape DEF ResultTaken
<1>3. app \in [Apps -> AppRecords] /\ FaultsTyped
  BY ChannelInvNamed
<1>4. FaultsTyped'
  BY <1>1, <1>3, FaultsStayTyped DEF ResultTaken
<1>5. UNCHANGED <<script, grabs, taken>>
  BY <1>1 DEF native, ResultTaken
<1>6. CASE app[a].doing = "quitting" \/ r.answer = "unavailable"
  BY <1>1, <1>2, <1>4, <1>5, <1>6, AppDisconnects DEF ResultTaken
<1>7. CASE ~(app[a].doing = "quitting" \/ r.answer = "unavailable")
  <2>1. app' = [app EXCEPT ![a] = Settled(a, r)]
    BY <1>1, <1>7 DEF ResultTaken
  <2>2. app' \in [Apps -> AppRecords]
    BY <2>1, <1>3, SettledTyped
  <2>3. UNCHANGED <<script, grabs, taken, inbox>>
    BY <1>1, <1>5, <1>7 DEF ResultTaken
  <2>4. QED
    BY <1>2, <1>4, <2>2, <2>3, AppActsQuietly
<1>8. QED
  BY <1>6, <1>7

\* The App gives a call up: its message and its end are on their way.
LateCall(a, set) ==
  <<[kind |-> "call", sender |-> ConnectionOf(a), app |-> a, set |-> set],
    [kind |-> "lost", sender |-> ConnectionOf(a), app |-> a]>>

LEMMA LateCallTyped ==
  ASSUME NEW a \in Apps, NEW set \in SUBSET Keys, ConnectionOf(a) \in Connections
  PROVE  /\ LateCall(a, set) \in Seq(Message)
         /\ \A i \in DOMAIN LateCall(a, set) : LateCall(a, set)[i].kind \in {"call", "lost"}
<1> DEFINE m1 == [kind |-> "call", sender |-> ConnectionOf(a), app |-> a, set |-> set]
           m2 == [kind |-> "lost", sender |-> ConnectionOf(a), app |-> a]
<1>1. m1 \in Message /\ m2 \in Message /\ m1.kind = "call" /\ m2.kind = "lost"
  BY DEF Message
<1>2. LateCall(a, set) = <<m1, m2>>
  BY DEF LateCall
<1> HIDE DEF m1, m2
<1>3. <<m1, m2>> \in Seq(Message) /\ \A i \in DOMAIN <<m1, m2>> : <<m1, m2>>[i] \in {m1, m2}
  BY <1>1
<1>4. QED
  BY <1>1, <1>2, <1>3

LEMMA LateKeepsChannel ==
  ASSUME ChannelInv, NEW a \in Apps, AppRegistersLate(a)
  PROVE  ChannelInv'
<1>1. PICK set \in Sets :
        /\ CanConnect(a) /\ companion.up /\ Stall
        /\ inbox' = inbox \o LateCall(a, set)
        /\ app' = [app EXCEPT ![a] = Forgotten(a, "idle")]
        /\ UNCHANGED <<companion, script, native>>
  BY DEF AppRegistersLate, LateCall
<1>2. app \in [Apps -> AppRecords] /\ FaultsTyped /\ Sound(companion) /\ set \in SUBSET Keys
  BY ChannelInvNamed, ConstantsOK
<1>3. app' \in [Apps -> AppRecords] /\ ConnectionOf(a) \in Connections
  BY <1>1, <1>2, ForgottenTyped, ConnectionTyped
<1> DEFINE out == LateCall(a, set)
<1>4. out \in Seq(Message) /\ \A i \in DOMAIN out : out[i].kind \in {"call", "lost"}
  BY <1>2, <1>3, LateCallTyped
<1>5. inbox' = Posted(out) /\ FaultsTyped'
  BY <1>1, <1>2, FaultsStayTyped DEF Posted
<1>6. UNCHANGED <<script, grabs, taken>> /\ companion' = companion
  BY <1>1 DEF native
<1> HIDE DEF out
<1>7. QED
  BY <1>2, <1>3, <1>4, <1>5, <1>6, AppActs

LEMMA AppKeepsChannel ==
  ASSUME ChannelInv, NEW a \in Apps, AppNext(a)
  PROVE  ChannelInv'
<1>1. app \in [Apps -> AppRecords] /\ FaultsTyped /\ Sound(companion) /\ {} \in SUBSET Keys
  BY ChannelInvNamed
<1>2. CASE AppRegisters(a)
  <2>1. PICK set \in Sets : BeginRequest(a, set, "waiting")
    BY <1>2 DEF AppRegisters
  <2>2. set \in SUBSET Keys
    BY ConstantsOK
  <2>3. QED
    BY <2>1, <2>2, BeginKeepsChannel
<1>3. CASE AppQuits(a)
  BY <1>1, <1>3, BeginKeepsChannel DEF AppQuits
<1>4. CASE AppRegistersInVain(a)
  BY <1>4, CallFailsKeepsChannel DEF AppRegistersInVain
<1>5. CASE AppLosesRequest(a)
  BY <1>5, CallFailsKeepsChannel DEF AppLosesRequest
<1>6. CASE AppPolls(a)
  BY <1>6, CallFailsKeepsChannel DEF AppPolls
<1>7. CASE AppQuitsAtOnce(a)
  BY <1>7, CallFailsKeepsChannel DEF AppQuitsAtOnce
<1>8. CASE AppRegistersLate(a)
  BY <1>8, LateKeepsChannel
<1>9. CASE AppTakesResult(a)
  BY <1>9, TakesKeepsChannel
<1>10. CASE AppGivesUp(a)
  <2>1. Disconnect(a, "idle") /\ UNCHANGED <<companion, script, native>> /\ (Stall \/ Calm)
    BY <1>10 DEF AppGivesUp
  <2>2. FaultsTyped' /\ companion' = companion /\ UNCHANGED <<script, grabs, taken>>
    BY <1>1, <2>1, FaultsStayTyped DEF native
  <2>3. QED
    BY <1>1, <2>1, <2>2, AppDisconnects
<1>11. CASE AppDies(a)
  <2>1. Disconnect(a, "gone") /\ UNCHANGED <<companion, script, native>> /\ Fault
    BY <1>11 DEF AppDies
  <2>2. FaultsTyped' /\ companion' = companion /\ UNCHANGED <<script, grabs, taken>>
    BY <1>1, <2>1, FaultsStayTyped DEF native
  <2>3. QED
    BY <1>1, <2>1, <2>2, AppDisconnects
<1>12. CASE AppRegistersBusy(a)
  <2>1. /\ CanConnect(a) /\ Calm /\ UNCHANGED <<companion, script, native, inbox>>
        /\ app' = [app EXCEPT ![a].conn = ConnectionOf(a), ![a].held = None]
    BY <1>12 DEF AppRegistersBusy
  <2>2. ConnectionOf(a) \in Connections
    BY <1>1, <2>1, ConnectionTyped
  <2>3. app' \in [Apps -> AppRecords]
    BY <1>1, <2>1, <2>2 DEF AppRecords, Controllers
  <2>4. FaultsTyped' /\ companion' = companion /\ UNCHANGED <<script, grabs, taken, inbox>>
    BY <1>1, <2>1, FaultsStayTyped DEF native
  <2>5. QED
    BY <1>1, <2>3, <2>4, AppActsQuietly
<1>13. CASE AppStarts(a)
  <2>1. /\ Calm \/ Mishap({}, 1)
        /\ UNCHANGED <<companion, script, native, inbox>>
        /\ app' = [app EXCEPT ![a].doing = "idle"]
    BY <1>13 DEF AppStarts
  <2>2. app' \in [Apps -> AppRecords]
    BY <1>1, <2>1 DEF AppRecords
  <2>3. FaultsTyped' /\ companion' = companion /\ UNCHANGED <<script, grabs, taken, inbox>>
    BY <1>1, <2>1, FaultsStayTyped DEF native
  <2>4. QED
    BY <1>1, <2>2, <2>3, AppActsQuietly
<1>14. QED
  BY <1>2, <1>3, <1>4, <1>5, <1>6, <1>7, <1>8, <1>9, <1>10, <1>11, <1>12, <1>13 DEF AppNext

-----------------------------------------------------------------------------
(* The script and the companion take their turns.                          *)

\* What a continuation of the script leaves.
LEMMA Continuing ==
  ASSUME ChannelInv, app' = app, taken' \subseteq Contested, grabs' \subseteq Keys, FaultsTyped',
         Sound(companion'), companion'.up = companion.up,
         NEW pending \in Seq(Message), companion.up \/ pending = <<>>,
         NEW r, Continue(pending, r), r.script \in Scripts, r.out \in Seq(Message),
         Channel(pending \o r.out, r.script, companion'.poll),
         UpdateFits(r.script, grabs'), Leftovers(pending \o r.out, r.script)
  PROVE  ChannelInv'
<1>1. app' \in [Apps -> AppRecords] /\ script' = r.script
      /\ inbox' = IF companion.up THEN pending \o r.out ELSE pending
  BY ChannelInvNamed DEF Continue
<1>2. CASE companion.up
  <2>1. inbox' = pending \o r.out
    BY <1>1, <1>2
  <2>2. pending \o r.out \in Seq(Message)
    OBVIOUS
  <2> DEFINE q == pending \o r.out
  <2>3. q \in Seq(Message) /\ Channel(q, r.script, companion'.poll) /\ Leftovers(q, r.script)
        /\ inbox' = q
    BY <2>1, <2>2
  <2> HIDE DEF q
  <2>4. QED
    BY <1>1, <1>2, <2>3, ChannelStep
<1>3. CASE ~companion.up
  <2>1. inbox' = <<>> /\ companion'.poll = NoPoll
    BY <1>1, <1>3 DEF Sound
  <2> DEFINE q == <<>>
  <2>2. q \in Seq(Message) /\ DOMAIN q = {}
    OBVIOUS
  <2> HIDE DEF q
  <2>3. r.script.update.id # 0 => r.script.polling
    BY DEF Channel, OneTurn
  <2>4. Channel(q, r.script, NoPoll)
    BY <2>2, <2>3, ChannelOpen DEF NoPoll
  <2>5. Leftovers(q, r.script)
    BY <2>2 DEF Leftovers
  <2>6. inbox' = q
    BY <2>1 DEF q
  <2>7. inbox' \in Seq(Message) /\ Leftovers(inbox', r.script)
        /\ Channel(inbox', r.script, companion'.poll)
    BY <2>1, <2>2, <2>4, <2>5, <2>6
  <2>8. ~companion'.up => inbox' = <<>>
    BY <2>1
  <2>9. QED
    BY <1>1, <2>7, <2>8, ChannelStep
<1>4. QED
  BY <1>2, <1>3

\* A message of the inbox is handled.
LEMMA HandlingFacts ==
  ASSUME ChannelInv, NEW kind, Handling(kind)
  PROVE  /\ companion.up /\ inbox # <<>> /\ Head(inbox).kind = kind /\ Head(inbox) \in Message
         /\ Head(inbox) = inbox[1] /\ 1 \in DOMAIN inbox
         /\ Tail(inbox) \in Seq(Message)
         /\ Channel(Tail(inbox), script, companion.poll) /\ Leftovers(Tail(inbox), script)
         /\ companion.poll \in Polls /\ FaultsTyped
         /\ \A i \in DOMAIN Tail(inbox) :
              i + 1 \in DOMAIN inbox /\ Tail(inbox)[i] = inbox[i + 1] /\ i + 1 # 1 /\ 1 < i + 1
<1>1. /\ inbox \in Seq(Message) /\ script \in Scripts /\ companion.poll \in Polls /\ FaultsTyped
      /\ Channel(inbox, script, companion.poll) /\ Leftovers(inbox, script)
  BY ChannelInvNamed DEF Sound, Companions
<1>2. companion.up /\ inbox # <<>> /\ Head(inbox).kind = kind
  BY DEF Handling
<1>3. Channel(Tail(inbox), script, companion.poll) /\ Leftovers(Tail(inbox), script)
  BY <1>1, <1>2, ChannelTail, LeftoversTail
<1>4. /\ Head(inbox) = inbox[1] /\ Head(inbox) \in Message /\ Tail(inbox) \in Seq(Message)
      /\ Len(inbox) \in Nat \ {0} /\ DOMAIN inbox = 1 .. Len(inbox)
      /\ DOMAIN Tail(inbox) = 1 .. Len(inbox) - 1
      /\ \A i \in DOMAIN Tail(inbox) : i + 1 \in DOMAIN inbox /\ Tail(inbox)[i] = inbox[i + 1]
  BY <1>1, <1>2, TailFacts
<1>5. 1 \in DOMAIN inbox /\ \A i \in DOMAIN Tail(inbox) : i + 1 # 1 /\ 1 < i + 1
  BY <1>4
<1>6. QED
  BY <1>1, <1>2, <1>3, <1>4, <1>5

LEMMA OpenIsRunning ==
  ASSUME ChannelInv
  PROVE  /\ script.on => script.name # None /\ script.name \in ScriptNames
         /\ script.update.id # 0 => script.on
         /\ script.update.id = 0 => script.update = NoUpdate
         /\ script.update.checked => script.update.id # 0
         /\ \A i \in DOMAIN inbox : HeardSet(inbox, i) => script.update.checked
BY ChannelInvNamed DEF UpdateFits, Scripts, Names, Channel, OneKey, NoUpdate

\* finish of an update, with the calls of the script that are still on the way dropped.
LEMMA FinishKeepsChannel ==
  ASSUME ChannelInv, UNCHANGED <<app, companion, grabs, taken>>, FaultsTyped',
         NEW pending \in Seq(Message), Silenced(inbox, pending, {"set"}),
         inbox = <<>> => pending = <<>>,
         NEW answer \in Answers, script.update.id # 0,
         answer = "unavailable" \/ \A i \in DOMAIN inbox : ~HeardSet(inbox, i),
         Continue(pending, FinishUpdate(Idle(script), answer))
  PROVE  ChannelInv'
<1> DEFINE f == FinishUpdate(Idle(script), answer)
<1>1. /\ script \in Scripts /\ inbox \in Seq(Message) /\ Sound(companion) /\ companion.poll \in Polls
      /\ grabs \subseteq Keys /\ taken \subseteq Contested
      /\ Channel(inbox, script, companion.poll) /\ UpdateFits(script, grabs)
      /\ Leftovers(inbox, script)
  BY ChannelInvNamed DEF Sound, Companions
<1>2. companion.up \/ pending = <<>>
  BY ChannelInvNamed
<1>3. script.on /\ script.name # None
  BY OpenIsRunning
<1>4. f.script \in Scripts /\ f.out \in Seq(Message)
  BY <1>1, <1>3, FinishShape
<1>5. Channel(pending \o f.out, f.script, companion.poll)
  BY <1>1, <1>3, ChannelFinishes
<1>6. UpdateFits(f.script, grabs)
  BY <1>1, <1>3, FinishFits
<1>7. Leftovers(pending \o f.out, f.script)
  BY <1>1, <1>3, LeftoversFinish
<1>8. Continue(pending, f)
  OBVIOUS
<1>9. /\ app' = app /\ taken' \subseteq Contested /\ grabs' \subseteq Keys
      /\ Sound(companion') /\ companion'.up = companion.up /\ companion'.poll = companion.poll
      /\ UpdateFits(f.script, grabs')
  BY <1>1, <1>6
<1> HIDE DEF f
<1>10. Channel(pending \o f.out, f.script, companion'.poll)
  BY <1>5, <1>9
<1>11. QED
  BY <1>2, <1>4, <1>7, <1>8, <1>9, <1>10, Continuing

LEMMA LeftoversConfigure ==
  ASSUME NEW q \in Seq(Message), NEW s \in Scripts, s.on, s.name # None, s.update.id # 0,
         Leftovers(q, s), \A i \in DOMAIN q : ~HeardSet(q, i)
  PROVE  Leftovers(q \o Configure(Idle(s)).out, Configure(Idle(s)).script)
<1>1. CASE NextKeys(s.update) = {}
  <2>1. Silenced(q, q, {"set"}) /\ "ok" \in Answers
    BY DEF Silenced, HeardSet, Answers
  <2>2. Leftovers(q \o FinishUpdate(Idle(s), "ok").out, FinishUpdate(Idle(s), "ok").script)
    BY <2>1, LeftoversFinish
  <2>3. QED
    BY <1>1, <2>2, ConfigureShape
<1>2. CASE NextKeys(s.update) # {}
  <2> DEFINE m == SetCall(s)
             out == <<m>>
  <2>1. /\ Configure(Idle(s)).script = s /\ Configure(Idle(s)).out = out /\ m \in Message
    BY <1>2, ConfigureShape
  <2>2. m.heard
    BY DEF SetCall
  <2> HIDE DEF m
  <2>3. out \in Seq(Message) /\ \A i \in DOMAIN out : out[i] = m
    BY <2>1
  <2> HIDE DEF out
  <2>4. Leftovers(q \o out, s)
    BY <2>2, <2>3, LeftoversConcat
  <2>5. QED
    BY <2>1, <2>4
<1>3. QED
  BY <1>1, <1>2

\* configure, with the next key or none left, of the script s.
LEMMA ConfigureKeepsChannel ==
  ASSUME ChannelInv, UNCHANGED <<app, companion, taken>>, grabs' \subseteq Keys, FaultsTyped',
         NEW pending \in Seq(Message), companion.up \/ pending = <<>>,
         \A i \in DOMAIN pending : ~HeardSet(pending, i),
         NEW s \in Scripts, s.on = script.on, s.name = script.name, s.polling = script.polling,
         s.update.id = script.update.id, s.update.checked, script.update.id # 0,
         Channel(pending, script, companion.poll), Leftovers(pending, script),
         UpdateFits(s, grabs'),
         Continue(pending, Configure(Idle(s)))
  PROVE  ChannelInv'
<1> DEFINE f == Configure(Idle(s))
<1>1. /\ Sound(companion) /\ companion.poll \in Polls /\ taken \subseteq Contested
  BY ChannelInvNamed DEF Sound, Companions
<1>2. s.on /\ s.name # None
  BY OpenIsRunning
<1>3. Channel(pending, s, companion.poll) /\ Leftovers(pending, s)
  BY ChannelStates, LeftoversStates
<1>4. Channel(pending \o f.out, f.script, companion.poll)
  BY <1>1, <1>2, <1>3, ChannelConfigures
<1>5. Leftovers(pending \o f.out, f.script)
  BY <1>2, <1>3, LeftoversConfigure
<1>6. UpdateFits(f.script, grabs') /\ f.script \in Scripts /\ f.out \in Seq(Message)
  BY <1>2, ConfigureFits
<1>7. Continue(pending, f)
  OBVIOUS
<1> HIDE DEF f
<1>8. /\ app' = app /\ taken' \subseteq Contested
      /\ Sound(companion') /\ companion'.up = companion.up
      /\ Channel(pending \o f.out, f.script, companion'.poll)
  BY <1>1, <1>4
<1>9. QED
  BY <1>5, <1>6, <1>7, <1>8, Continuing

\* The script goes on as s, whose keys to assign and to clear are known.
LEMMA OwnersCheckedShape ==
  ASSUME ChannelInv, OwnersChecked
  PROVE  /\ script.update.id # 0 /\ ~script.update.checked /\ taken' = taken
         /\ UNCHANGED <<app, companion>> /\ grabs' \subseteq Keys /\ FaultsTyped'
         /\ mishaps' = mishaps
         /\ \E s \in Scripts :
              /\ s.on = script.on /\ s.name = script.name /\ s.polling = script.polling
              /\ s.active = script.active
              /\ s.update.id = script.update.id /\ s.update.set = script.update.set
              /\ s.update.checked /\ UpdateFits(s, grabs')
              /\ Continue(inbox, Configure(Idle(s)))
<1> DEFINE set == script.update.set
           actions == script.actions \cup set
           s == [script EXCEPT !.actions = actions, !.update.checked = TRUE,
                               !.update.assign = set, !.update.clear = actions \ set]
<1>1. /\ script.update.id # 0 /\ ~script.update.checked
      /\ Calm /\ UNCHANGED <<app, companion, taken>>
  BY DEF OwnersChecked
<1>2. PICK early \in SUBSET (set \ script.actions) :
        grabs' = grabs \cup early /\ Continue(inbox, Configure(Idle(s)))
  BY DEF OwnersChecked
<1>3. /\ script \in Scripts /\ set \in SUBSET Keys /\ script.actions \in SUBSET Keys
      /\ grabs \subseteq Keys /\ FaultsTyped /\ UpdateFits(script, grabs)
  BY ChannelInvNamed DEF Scripts, Updates
<1>4. actions \in SUBSET Keys /\ actions \ set \in SUBSET Keys /\ set \subseteq actions
      /\ early \subseteq set /\ script.actions \subseteq actions
  BY <1>3
<1>5. /\ s \in Scripts /\ s.on = script.on /\ s.name = script.name
      /\ s.polling = script.polling /\ s.update.id = script.update.id /\ s.update.checked
      /\ s.update.set = set /\ s.actions = actions /\ s.update.assign = set
      /\ s.update.clear = actions \ set /\ s.active = script.active
  <2> HIDE DEF actions, set
  <2>1. script.update \in Updates
    BY <1>3 DEF Scripts
  <2>2. set = script.update.set
    BY DEF set
  <2>3. QED
    BY <1>3, <1>4, <2>1, <2>2 DEF Scripts, Updates
<1> HIDE DEF s, actions
<1>6. script.on
  BY <1>1, OpenIsRunning
<1>7. UpdateFits(s, grabs')
  BY <1>1, <1>2, <1>3, <1>4, <1>5, <1>6 DEF UpdateFits
<1>8. grabs' \subseteq Keys /\ FaultsTyped'
  BY <1>1, <1>2, <1>3, <1>4, FaultsStayTyped
<1>9. s.update.set = script.update.set
  BY <1>5
<1> HIDE DEF set
<1>10. QED
  BY <1>1, <1>2, <1>5, <1>7, <1>8, <1>9 DEF Calm

LEMMA OwnersCheckedKeepsChannel ==
  ASSUME ChannelInv, OwnersChecked
  PROVE  ChannelInv'
<1>1. /\ script.update.id # 0 /\ ~script.update.checked /\ taken' = taken
      /\ UNCHANGED <<app, companion>> /\ grabs' \subseteq Keys /\ FaultsTyped'
  BY OwnersCheckedShape
<1>2. PICK s \in Scripts :
        /\ s.on = script.on /\ s.name = script.name /\ s.polling = script.polling
        /\ s.update.id = script.update.id /\ s.update.checked /\ UpdateFits(s, grabs')
        /\ Continue(inbox, Configure(Idle(s)))
  BY OwnersCheckedShape
<1>3. /\ inbox \in Seq(Message) /\ Channel(inbox, script, companion.poll)
      /\ Leftovers(inbox, script)
  BY ChannelInvNamed
<1>4. companion.up \/ inbox = <<>>
  BY ChannelInvNamed
<1>5. \A i \in DOMAIN inbox : ~HeardSet(inbox, i)
  BY <1>1, OpenIsRunning
<1>6. QED
  BY <1>1, <1>2, <1>3, <1>4, <1>5, ConfigureKeepsChannel

LEMMA OwnersConflictKeepsChannel ==
  ASSUME ChannelInv, OwnersConflict
  PROVE  ChannelInv'
<1>1. /\ script.update.id # 0 /\ ~script.update.checked /\ Calm
      /\ UNCHANGED <<app, companion, grabs, taken>>
      /\ Continue(inbox, FinishUpdate(Idle(script), "rejected"))
  BY DEF OwnersConflict, native
<1>2. inbox \in Seq(Message) /\ FaultsTyped' /\ "rejected" \in Answers
  BY <1>1, ChannelInvNamed, FaultsStayTyped DEF Answers
<1>3. \A i \in DOMAIN inbox : ~HeardSet(inbox, i)
  BY <1>1, OpenIsRunning
<1>4. Silenced(inbox, inbox, {"set"})
  BY <1>3 DEF Silenced, HeardSet
<1>5. QED
  BY <1>1, <1>2, <1>3, <1>4, FinishKeepsChannel

LEMMA EmptyUnheard ==
  ASSUME NEW kinds
  PROVE  Unheard(<<>>, kinds) = <<>>
BY DEF Unheard

LEMMA UpdateTimesOutKeepsChannel ==
  ASSUME ChannelInv, UpdateTimesOut
  PROVE  ChannelInv'
<1> DEFINE pending == Unheard(inbox, {"set"})
<1>1. /\ script.update.id # 0 /\ (Calm \/ Stall)
      /\ UNCHANGED <<app, companion, grabs, taken>>
      /\ Continue(pending, FinishUpdate(Idle(script), "unavailable"))
  BY DEF UpdateTimesOut, native
<1>2. inbox \in Seq(Message) /\ FaultsTyped' /\ "unavailable" \in Answers
  BY <1>1, ChannelInvNamed, FaultsStayTyped DEF Answers
<1>3. pending \in Seq(Message) /\ Silenced(inbox, pending, {"set"})
  BY <1>2, UnheardIsSilenced
<1>4. inbox = <<>> => pending = <<>>
  BY EmptyUnheard
<1> HIDE DEF pending
<1>5. QED
  BY <1>1, <1>2, <1>3, <1>4, FinishKeepsChannel

\* The companion's deferred reply is one that nobody hears any more.
LEMMA PollDropped ==
  ASSUME Sound(companion), companion' = [companion EXCEPT !.poll.heard = FALSE]
  PROVE  /\ Sound(companion') /\ companion'.up = companion.up
         /\ companion'.script = companion.script /\ companion'.fresh = companion.fresh
         /\ companion'.controller = companion.controller
         /\ companion'.requests = companion.requests
         /\ companion'.results = companion.results
         /\ companion'.issued = companion.issued
         /\ companion'.registered = companion.registered
         /\ ~companion'.poll.heard /\ companion'.poll \in Polls
<1> DEFINE p == companion.poll
           z == [p EXCEPT !.heard = FALSE]
<1>1. companion \in Companions /\ p \in Polls
  BY DEF Sound, Companions
<1>2. z \in Polls /\ ~z.heard /\ (p = NoPoll => z = NoPoll)
  <2>1. \A y \in Polls : [y EXCEPT !.heard = FALSE] \in Polls
                         /\ [y EXCEPT !.heard = FALSE].heard = FALSE
    BY DEF Polls
  <2>2. [NoPoll EXCEPT !.heard = FALSE] = NoPoll
    <3>1. \A y \in Polls : y.heard = FALSE => [y EXCEPT !.heard = FALSE] = y
      BY DEF Polls
    <3>2. NoPoll \in Polls /\ NoPoll.heard = FALSE
      BY DEF NoPoll, Polls, Names
    <3>3. QED
      BY <3>1, <3>2
  <2> HIDE DEF p
  <2>3. QED
    BY <1>1, <2>1, <2>2
<1>3. companion' = [companion EXCEPT !.poll = z]
  BY <1>1 DEF Companions
<1> HIDE DEF p, z
<1>4. /\ companion' \in Companions /\ companion'.up = companion.up
      /\ companion'.script = companion.script /\ companion'.fresh = companion.fresh
      /\ companion'.controller = companion.controller
      /\ companion'.requests = companion.requests
      /\ companion'.results = companion.results
      /\ companion'.issued = companion.issued
      /\ companion'.registered = companion.registered
      /\ companion'.poll = z
  BY <1>1, <1>2, <1>3 DEF Companions
<1>5. Sound(companion')
  BY <1>2, <1>4 DEF Sound, p
<1>6. QED
  BY <1>2, <1>4, <1>5

LEMMA RetryKeepsChannel ==
  ASSUME ChannelInv, RetryCompanion
  PROVE  ChannelInv'
<1> DEFINE pending == Unheard(inbox, {"next"})
           m == RegisterCall(script.name, FALSE)
           s == [script EXCEPT !.polling = FALSE]
           r == [script |-> s, out |-> <<m>>]
<1>1. /\ script.on /\ script.update.id = 0 /\ (Calm \/ Stall)
      /\ companion' = [companion EXCEPT !.poll.heard = FALSE]
      /\ UNCHANGED <<app, grabs, taken>>
      /\ Continue(pending, r)
  BY DEF RetryCompanion, native, Register, RegisterCall
<1>2. /\ inbox \in Seq(Message) /\ FaultsTyped' /\ script \in Scripts /\ Sound(companion)
      /\ Channel(inbox, script, companion.poll) /\ Leftovers(inbox, script)
      /\ UpdateFits(script, grabs) /\ companion.poll \in Polls
  BY <1>1, ChannelInvNamed, FaultsStayTyped DEF Sound, Companions
<1>3. script.name # None /\ script.name \in ScriptNames
  BY <1>1, OpenIsRunning
<1>4. pending \in Seq(Message) /\ Silenced(inbox, pending, {"next"})
  BY <1>2, UnheardIsSilenced
<1>5. companion.up \/ pending = <<>>
  BY ChannelInvNamed, EmptyUnheard
<1>6. /\ Sound(companion') /\ companion'.up = companion.up
      /\ ~companion'.poll.heard /\ companion'.poll \in Polls
  BY <1>1, <1>2, PollDropped
<1>7. /\ s \in Scripts /\ s.on = script.on /\ s.name = script.name /\ s.update = script.update
      /\ s.actions = script.actions /\ s.active = script.active
  BY <1>2 DEF Scripts
<1> HIDE DEF pending, s
<1>8. Channel(pending, s, companion'.poll) /\ \A i \in DOMAIN pending : ~HeardNext(pending, i)
  BY <1>1, <1>2, <1>4, <1>6, <1>7, ChannelRetries
<1>9. Channel(pending \o <<m>>, s, companion'.poll)
  BY <1>1, <1>3, <1>4, <1>6, <1>7, <1>8, ChannelRegisters
<1>10. m \in Message /\ m.heard
  BY <1>3 DEF RegisterCall, Message
<1>11. Leftovers(pending, s)
  BY <1>2, <1>4, <1>7, LeftoversRetries, LeftoversStates
<1> DEFINE out == <<m>>
<1>12. out \in Seq(Message) /\ \A i \in DOMAIN out : out[i].heard
  <2> HIDE DEF m
  <2>1. QED
    BY <1>10
<1>13. Leftovers(pending \o out, s)
  BY <1>4, <1>7, <1>11, <1>12, LeftoversConcat
<1>14. UpdateFits(s, grabs)
  BY <1>2, <1>7 DEF UpdateFits
<1>15. r.script = s /\ r.out = out
  OBVIOUS
<1>16. grabs' \subseteq Keys /\ taken' \subseteq Contested /\ grabs' = grabs /\ app' = app
  BY <1>1, ChannelInvNamed
<1> HIDE DEF r, m, out
<1>17. Channel(pending \o r.out, r.script, companion'.poll)
       /\ Leftovers(pending \o r.out, r.script) /\ UpdateFits(r.script, grabs')
       /\ r.script \in Scripts /\ r.out \in Seq(Message) /\ Continue(pending, r)
  BY <1>1, <1>7, <1>9, <1>12, <1>13, <1>14, <1>15, <1>16 DEF out, r
<1>18. QED
  BY <1>2, <1>4, <1>5, <1>6, <1>16, <1>17, Continuing

\* KWin, and the scripts inside it.
LEMMA ScriptEndsKeepsChannel ==
  ASSUME ChannelInv, NEW name \in Names, NEW out \in Seq(Message),
         \A i \in DOMAIN out : out[i].kind \in {"call", "lost"},
         ScriptEnds(name, out), FaultsTyped'
  PROVE  ChannelInv'
<1> DEFINE r == Unheard(inbox, {"register", "next", "set"})
           s == [script EXCEPT !.on = FALSE, !.name = name, !.polling = FALSE,
                               !.update = NoUpdate, !.active = {}, !.actions = {}]
<1>1. /\ script' = s /\ grabs' = {}
      /\ inbox' = r \o (IF companion.up THEN out ELSE <<>>)
      /\ companion' = [companion EXCEPT !.poll.heard = FALSE]
      /\ app' = app /\ taken' = taken
  BY DEF ScriptEnds
<1>2. /\ inbox \in Seq(Message) /\ script \in Scripts /\ Sound(companion)
      /\ Channel(inbox, script, companion.poll) /\ taken \subseteq Contested
      /\ app \in [Apps -> AppRecords]
  BY ChannelInvNamed
<1>3. r \in Seq(Message) /\ Silenced(inbox, r, {"register", "next", "set"})
  BY <1>2, UnheardIsSilenced
<1>4. ~companion.up => inbox = <<>> /\ r = <<>>
  BY ChannelInvNamed, EmptyUnheard
<1>5. /\ Sound(companion') /\ companion'.up = companion.up
      /\ ~companion'.poll.heard /\ companion'.poll \in Polls
  BY <1>1, <1>2, PollDropped
<1>6. NoUpdate \in Updates /\ NoUpdate.id = 0 /\ ~NoUpdate.checked /\ NoUpdate.assign = {}
      /\ NoUpdate.clear = {}
  BY DEF NoUpdate, Updates
<1>7. s \in Scripts /\ ~s.on /\ s.update = NoUpdate /\ s.actions = {} /\ s.active = {}
  BY <1>2, <1>6 DEF Scripts
<1> DEFINE e == IF companion.up THEN out ELSE <<>>
<1>8. e \in Seq(Message) /\ \A i \in DOMAIN e : e[i].kind \in {"call", "lost"}
  <2>1. CASE companion.up
    BY <2>1
  <2>2. CASE ~companion.up
    <3>1. e = <<>>
      BY <2>2
    <3>2. QED
      BY <3>1
  <2>3. QED
    BY <2>1, <2>2
<1>9. ~companion.up => e = <<>>
  OBVIOUS
<1> HIDE DEF r, s, e
<1>10. Channel(r, s, companion'.poll)
  BY <1>2, <1>3, <1>5, <1>6, <1>7, ChannelEnds
<1>11. Channel(r \o e, s, companion'.poll)
  BY <1>3, <1>5, <1>7, <1>8, <1>10, ChannelAside
<1>12. Leftovers(r \o e, s) /\ UpdateFits(s, {})
  BY <1>6, <1>7 DEF Leftovers, UpdateFits
<1>13. r \o e \in Seq(Message) /\ inbox' = r \o e /\ (~companion.up => r \o e = <<>>)
  <2>1. r \o e \in Seq(Message)
    BY <1>3, <1>8
  <2>2. inbox' = r \o e
    BY <1>1 DEF e
  <2>3. ~companion.up => r \o e = <<>>
    BY <1>4, <1>9
  <2>4. QED
    BY <2>1, <2>2, <2>3
<1> DEFINE q == r \o e
<1>14. q \in Seq(Message) /\ inbox' = q /\ Channel(q, s, companion'.poll) /\ Leftovers(q, s)
       /\ (~companion.up => q = <<>>)
  BY <1>11, <1>12, <1>13
<1> HIDE DEF q
<1>15. QED
  BY <1>1, <1>2, <1>5, <1>7, <1>12, <1>14, ChannelStep

LEMMA ChannelStarts ==
  ASSUME NEW q, NEW s, NEW p, NEW s2, Channel(q, s, p), ~s.on, s2.update = s.update,
         s2.polling = s.polling
  PROVE  Channel(q, s2, p) /\ ~p.heard /\ \A i \in DOMAIN q : ~HeardNext(q, i)
<1>1. ~p.heard
      /\ \A i \in DOMAIN q : ~(q[i].kind \in {"register", "next", "set"} /\ q[i].heard)
  BY DEF Channel, HeardByOne
<1>2. HeardByOne(q, s2, p)
  BY <1>1 DEF HeardByOne
<1>3. InTurn(q, s2, p)
  BY DEF Channel, InTurn
<1>4. OneTurn(q, s2, p)
  BY DEF Channel, OneTurn
<1>5. OneKey(q, s2)
  BY DEF Channel, OneKey
<1>6. QED
  BY <1>1, <1>2, <1>3, <1>4, <1>5 DEF Channel, HeardNext

\* What a script that starts is called.
StartName ==
  IF script.name # None THEN script.name
  ELSE CHOOSE n \in ScriptNames :
         n \notin {companion.script} \cup {inbox[i].sender : i \in DOMAIN inbox}

LEMMA LoadsShape ==
  ASSUME ChannelInv, ScriptLoads
  PROVE  /\ ~script.on /\ StartName \in ScriptNames /\ StartName # None
         /\ script.name # None => StartName = script.name
         /\ script.name = None => /\ StartName # companion.script
                                  /\ \A i \in DOMAIN inbox : inbox[i].sender # StartName
         /\ script' = [script EXCEPT !.on = TRUE, !.name = StartName]
         /\ inbox' = Posted(<<RegisterCall(StartName, TRUE)>>)
         /\ Calm /\ UNCHANGED <<app, companion, grabs, taken>>
<1> DEFINE used == {companion.script} \cup {inbox[i].sender : i \in DOMAIN inbox}
<1>1. /\ ~script.on /\ (script.name # None \/ ScriptNames \ used # {})
      /\ script' = [script EXCEPT !.on = TRUE, !.name = StartName]
      /\ inbox' = Posted(<<RegisterCall(StartName, TRUE)>>)
      /\ Calm /\ UNCHANGED <<app, companion, native>>
  BY DEF ScriptLoads, StartName, RegisterCall
<1>2. script.name \in Names
  BY ChannelInvNamed DEF Scripts
<1>3. CASE script.name # None
  BY <1>1, <1>2, <1>3 DEF StartName, Names, native
<1>4. CASE script.name = None
  <2>1. StartName = CHOOSE n \in ScriptNames : n \notin used
    BY <1>4 DEF StartName
  <2>2. StartName \in ScriptNames /\ StartName \notin used
    BY <1>1, <1>4, <2>1
  <2>3. QED
    BY <1>1, <1>4, <2>2, ConstantsOK DEF native
<1>5. QED
  BY <1>3, <1>4

LEMMA LoadsKeepsChannel ==
  ASSUME ChannelInv, ScriptLoads
  PROVE  ChannelInv'
<1> DEFINE s == [script EXCEPT !.on = TRUE, !.name = StartName]
           m == RegisterCall(StartName, TRUE)
           r == [script |-> s, out |-> <<m>>]
<1>1. /\ inbox \in Seq(Message) /\ script \in Scripts /\ Sound(companion)
      /\ companion.poll \in Polls /\ taken \subseteq Contested /\ grabs \subseteq Keys
      /\ app \in [Apps -> AppRecords] /\ FaultsTyped
      /\ Channel(inbox, script, companion.poll) /\ UpdateFits(script, grabs)
  BY ChannelInvNamed DEF Sound, Companions
<1>2. ~script.on /\ StartName \in ScriptNames /\ StartName # None /\ script' = s
      /\ Calm /\ UNCHANGED <<app, companion, grabs, taken>>
      /\ inbox' = Posted(<<m>>)
  BY LoadsShape
<1>3. FaultsTyped'
  BY <1>1, <1>2, FaultsStayTyped
<1>4. /\ s \in Scripts /\ s.on /\ s.name = StartName /\ s.update = script.update
      /\ s.polling = script.polling /\ s.actions = script.actions /\ s.active = script.active
  BY <1>1, <1>2 DEF Scripts, Names
<1>5. Continue(inbox, r)
  BY <1>2 DEF Continue, Posted
<1>6. m \in Message /\ m.kind = "register" /\ m.reset /\ m.heard /\ m = RegisterCall(s.name, TRUE)
  BY <1>2, <1>4 DEF RegisterCall, Message
<1> HIDE DEF s, m
<1>7. script.update.id = 0
  BY <1>1, <1>2 DEF UpdateFits
<1>8. Channel(inbox, s, companion.poll) /\ ~companion.poll.heard
      /\ \A i \in DOMAIN inbox : ~HeardNext(inbox, i)
  BY <1>1, <1>2, <1>4, ChannelStarts
<1>9. Channel(inbox \o <<m>>, s, companion.poll)
  BY <1>1, <1>2, <1>4, <1>6, <1>7, <1>8, ChannelRegisters
<1>10. Leftovers(inbox \o <<m>>, s)
  BY <1>1, <1>6, LeftoversStart
<1>11. UpdateFits(s, grabs)
  BY <1>1, <1>2, <1>4 DEF UpdateFits
<1> DEFINE out == <<m>>
<1>12. r.script = s /\ r.out = out /\ out \in Seq(Message)
  <2>1. m \in Message
    BY <1>6
  <2>2. out \in Seq(Message)
    BY <2>1
  <2> HIDE DEF out
  <2>3. r.script = s /\ r.out = out
    BY DEF out
  <2>4. QED
    BY <2>2, <2>3
<1>13. companion.up \/ inbox = <<>>
  BY ChannelInvNamed
<1> HIDE DEF r, out
<1>14. /\ Channel(inbox \o r.out, r.script, companion'.poll)
       /\ Leftovers(inbox \o r.out, r.script) /\ UpdateFits(r.script, grabs')
       /\ r.script \in Scripts /\ r.out \in Seq(Message)
       /\ Sound(companion') /\ companion'.up = companion.up /\ app' = app
       /\ taken' \subseteq Contested /\ grabs' \subseteq Keys
  BY <1>1, <1>2, <1>4, <1>9, <1>10, <1>11, <1>12 DEF out
<1>15. QED
  BY <1>1, <1>3, <1>5, <1>13, <1>14, Continuing

LEMMA KwinKeepsChannel ==
  ASSUME ChannelInv, KwinNext
  PROVE  ChannelInv'
<1>1. /\ app \in [Apps -> AppRecords] /\ Sound(companion) /\ script \in Scripts
      /\ grabs \subseteq Keys /\ taken \subseteq Contested /\ inbox \in Seq(Message)
      /\ FaultsTyped
      /\ Channel(inbox, script, companion.poll) /\ UpdateFits(script, grabs)
      /\ Leftovers(inbox, script)
  BY ChannelInvNamed
<1>2. ~companion.up => inbox = <<>>
  BY ChannelInvNamed
<1>3. CASE ScriptUnloads
  <2>1. script.on /\ Fault /\ ScriptEnds(script.name, <<>>)
    BY <1>3 DEF ScriptUnloads
  <2>2. script.name \in Names /\ FaultsTyped'
    BY <1>1, <2>1, FaultsStayTyped DEF Scripts
  <2>3. <<>> \in Seq(Message) /\ \A i \in DOMAIN <<>> : <<>>[i].kind \in {"call", "lost"}
    OBVIOUS
  <2>4. QED
    BY <2>1, <2>2, <2>3, ScriptEndsKeepsChannel
<1>4. CASE KwinDies
  <2> DEFINE m == [kind |-> "lost", sender |-> script.name]
             out == <<m>>
  <2>1. script.name # None /\ Fault /\ ScriptEnds(None, out)
    BY <1>4 DEF KwinDies
  <2>2. None \in Names /\ FaultsTyped'
    BY <1>1, <2>1, FaultsStayTyped DEF Names
  <2>3. m \in Message /\ m.kind = "lost"
    BY <1>1, <2>1 DEF Message, Scripts, Names
  <2> HIDE DEF m
  <2>4. out \in Seq(Message) /\ \A i \in DOMAIN out : out[i].kind \in {"call", "lost"}
    BY <2>3
  <2> HIDE DEF out
  <2>5. QED
    BY <2>1, <2>2, <2>4, ScriptEndsKeepsChannel
<1>5. CASE ScriptLoads
  BY <1>5, LoadsKeepsChannel
<1>6. CASE KeyTaken
  <2>1. PICK key \in Contested \ (grabs \cup taken) :
          /\ Mishap({"conflict"}, 1) /\ taken' = taken \cup {key}
          /\ UNCHANGED <<app, companion, script, grabs, inbox>>
    BY <1>6 DEF KeyTaken
  <2>2. FaultsTyped' /\ taken' \subseteq Contested
    BY <1>1, <2>1, FaultsStayTyped
  <2>3. app' = app /\ companion' = companion /\ script' = script /\ grabs' = grabs
        /\ inbox' = inbox
    BY <2>1
  <2>4. QED
    BY <1>1, <1>2, <2>2, <2>3, ChannelStep
<1>7. CASE KeyFreed
  <2>1. PICK key \in taken :
          /\ taken' = taken \ {key} /\ Calm
          /\ UNCHANGED <<app, companion, script, grabs, inbox>>
    BY <1>7 DEF KeyFreed
  <2>2. FaultsTyped' /\ taken' \subseteq Contested
    BY <1>1, <2>1, FaultsStayTyped
  <2>3. app' = app /\ companion' = companion /\ script' = script /\ grabs' = grabs
        /\ inbox' = inbox
    BY <2>1
  <2>4. QED
    BY <1>1, <1>2, <2>2, <2>3, ChannelStep
<1>8. QED
  BY <1>3, <1>4, <1>5, <1>6, <1>7 DEF KwinNext

\* The companion and its messages.
LEMMA FirstExists ==
  ASSUME NEW S \in SUBSET Nat, S # {}
  PROVE  \E i \in S : \A j \in S : i <= j
<1>1. IsWellFoundedOn(OpToRel(<, Nat), Nat)
  BY NatLessThanWellFounded
<1>2. PICK i \in S : \A j \in S : ~(<<j, i>> \in OpToRel(<, Nat))
  BY <1>1, WFMin
<1>3. \A j \in S : ~(j < i)
  BY <1>2 DEF OpToRel
<1>4. QED
  BY <1>3

\* d is c, with the first unclaimed request claimed.
ClaimsFirst(c, d, f) ==
  /\ f \in DOMAIN c.requests /\ ~c.requests[f].claimed
  /\ \A j \in DOMAIN c.requests : j < f => c.requests[j].claimed
  /\ d.up = c.up /\ d.script = c.script /\ d.fresh = c.fresh /\ d.controller = c.controller
  /\ d.results = c.results /\ d.issued = c.issued /\ d.registered = c.registered
  /\ d.poll = c.poll
  /\ DOMAIN d.requests = DOMAIN c.requests
  /\ \A j \in DOMAIN c.requests :
       /\ d.requests[j].id = c.requests[j].id /\ d.requests[j].set = c.requests[j].set
       /\ d.requests[j].controller = c.requests[j].controller
       /\ d.requests[j].claimed = (c.requests[j].claimed \/ j = f)

LEMMA ClaimShape ==
  ASSUME NEW c, Sound(c), Unclaimed(c) # {}
  PROVE  LET d == [c EXCEPT !.requests[FirstUnclaimed(c)].claimed = TRUE]
         IN Sound(d) /\ ClaimsFirst(c, d, FirstUnclaimed(c))
<1> DEFINE f == FirstUnclaimed(c)
           d == [c EXCEPT !.requests[f].claimed = TRUE]
           rs == c.requests
<1>1. c \in Companions /\ rs \in Seq(Request)
  BY DEF Sound, Companions
<1>2. Len(rs) \in Nat /\ DOMAIN rs = 1 .. Len(rs) /\ \A j \in DOMAIN rs : rs[j] \in Request
  BY <1>1
<1>3. f \in Unclaimed(c) /\ \A j \in Unclaimed(c) : f <= j
  <2>1. Unclaimed(c) \in SUBSET Nat
    BY <1>2 DEF Unclaimed
  <2>2. \E i \in Unclaimed(c) : \A j \in Unclaimed(c) : i <= j
    BY <2>1, FirstExists
  <2>3. QED
    BY <2>2 DEF FirstUnclaimed
<1>4. /\ f \in DOMAIN rs /\ ~rs[f].claimed
      /\ \A j \in DOMAIN rs : j < f => rs[j].claimed
  BY <1>2, <1>3 DEF Unclaimed
<1> HIDE DEF f
<1> DEFINE z == [rs[f] EXCEPT !.claimed = TRUE]
           qs == [rs EXCEPT ![f] = z]
<1>5. /\ z \in Request /\ z.id = rs[f].id /\ z.set = rs[f].set
      /\ z.controller = rs[f].controller /\ z.claimed = TRUE
  <2>1. \A y \in Request :
          LET x == [y EXCEPT !.claimed = TRUE]
          IN /\ x \in Request /\ x.id = y.id /\ x.set = y.set
             /\ x.controller = y.controller /\ x.claimed = TRUE
    BY DEF Request
  <2>2. rs[f] \in Request
    BY <1>2, <1>4
  <2>3. QED
    BY <2>1, <2>2
<1>6. d = [c EXCEPT !.requests = qs]
  OBVIOUS
<1> HIDE DEF z, d
<1>7. /\ qs \in Seq(Request) /\ DOMAIN qs = DOMAIN rs /\ qs[f] = z
      /\ \A j \in DOMAIN rs : j # f => qs[j] = rs[j]
  BY <1>1, <1>2, <1>4, <1>5
<1> HIDE DEF qs
<1>8. /\ d \in Companions
      /\ d.up = c.up /\ d.script = c.script /\ d.fresh = c.fresh /\ d.controller = c.controller
      /\ d.results = c.results /\ d.issued = c.issued /\ d.registered = c.registered
      /\ d.poll = c.poll /\ d.requests = qs
  BY <1>1, <1>6, <1>7 DEF Companions
<1>9. rs # <<>> /\ c.script # None
  BY <1>2, <1>4 DEF Sound
<1>10. Sound(d)
  BY <1>8, <1>9 DEF Sound
<1>11. \A j \in DOMAIN rs : rs[j].claimed \in BOOLEAN
  BY <1>2 DEF Request
<1>12. ClaimsFirst(c, d, f)
  BY <1>4, <1>5, <1>7, <1>8, <1>11 DEF ClaimsFirst
<1>13. QED
  BY <1>10, <1>12 DEF f, d

\* A continuation of a script that does nothing.
LEMMA IdleKeepsChannel ==
  ASSUME ChannelInv, app' = app, taken' \subseteq Contested, grabs' \subseteq Keys, FaultsTyped',
         Sound(companion'), companion'.up = companion.up,
         NEW pending \in Seq(Message), companion.up \/ pending = <<>>,
         NEW s \in Scripts, Continue(pending, Idle(s)),
         Channel(pending, s, companion'.poll), UpdateFits(s, grabs'), Leftovers(pending, s)
  PROVE  ChannelInv'
<1> DEFINE r == Idle(s)
<1>1. r.script = s /\ r.out = <<>>
  BY DEF Idle
<1>2. pending \o <<>> = pending /\ <<>> \in Seq(Message)
  OBVIOUS
<1>3. Continue(pending, r)
  OBVIOUS
<1> HIDE DEF r
<1>4. /\ Channel(pending \o r.out, r.script, companion'.poll) /\ UpdateFits(r.script, grabs')
      /\ Leftovers(pending \o r.out, r.script) /\ r.script \in Scripts /\ r.out \in Seq(Message)
  BY <1>1, <1>2
<1>5. QED
  BY <1>3, <1>4, Continuing

\* A poll is answered, with a request or with none.
LEMMA AnswerKeepsChannel ==
  ASSUME ChannelInv, UNCHANGED <<app, grabs, taken>>, FaultsTyped',
         NEW c, Sound(c), c.up, companion.up, ~c.poll.heard,
         NEW pending \in Seq(Message), NEW heard \in BOOLEAN, AnswerPoll(c, pending, heard),
         Channel(pending, script, c.poll), Leftovers(pending, script),
         heard => /\ script.on /\ script.update.id = 0 /\ script.polling
                  /\ \A i \in DOMAIN pending :
                       ~Past(pending, i) /\ ~HeardNext(pending, i) /\ ~HeardSet(pending, i)
  PROVE  /\ ChannelInv'
         /\ IF Unclaimed(c) = {} THEN companion' = c
            ELSE ClaimsFirst(c, companion', FirstUnclaimed(c))
         /\ script' = IF heard /\ Unclaimed(c) # {}
                      THEN [script EXCEPT !.update =
                              [NoUpdate EXCEPT !.id = c.requests[FirstUnclaimed(c)].id,
                                               !.set = c.requests[FirstUnclaimed(c)].set]]
                      ELSE script
<1>1. /\ script \in Scripts /\ UpdateFits(script, grabs) /\ grabs \subseteq Keys
      /\ taken \subseteq Contested /\ c.poll \in Polls
  BY ChannelInvNamed DEF Sound, Companions
<1>2. /\ companion' = IF Unclaimed(c) = {} THEN c
                      ELSE [c EXCEPT !.requests[FirstUnclaimed(c)].claimed = TRUE]
      /\ Continue(pending, PollAnswered(heard, c))
  BY DEF AnswerPoll
<1>3. Sound(companion') /\ companion'.up = companion.up /\ companion'.poll = c.poll
      /\ IF Unclaimed(c) = {} THEN companion' = c
         ELSE ClaimsFirst(c, companion', FirstUnclaimed(c))
  BY <1>2, ClaimShape DEF ClaimsFirst, Sound, Companions
<1>4. grabs' \subseteq Keys /\ taken' \subseteq Contested /\ grabs' = grabs /\ app' = app
  BY <1>1
<1>5. CASE heard /\ Unclaimed(c) # {}
  <2> DEFINE y == c.requests[FirstUnclaimed(c)]
             u == [NoUpdate EXCEPT !.id = y.id, !.set = y.set]
             s == [script EXCEPT !.update = u]
  <2>1. PollAnswered(heard, c) = Idle(s)
    BY <1>5 DEF PollAnswered
  <2>2. y \in Request
    BY <1>3, <1>5 DEF ClaimsFirst, Sound, Companions
  <2>3. NoUpdate \in Updates /\ ~NoUpdate.checked /\ NoUpdate.assign = {} /\ NoUpdate.clear = {}
    BY DEF NoUpdate, Updates
  <2>4. u \in Updates /\ u.id = y.id /\ u.id # 0 /\ ~u.checked /\ u.assign = {} /\ u.clear = {}
    <3> HIDE DEF y
    <3>1. QED
      BY <2>2, <2>3 DEF Request, Updates, Ids
  <2> HIDE DEF u
  <2>5. /\ s \in Scripts /\ s.update = u /\ s.on = script.on /\ s.name = script.name
        /\ s.polling = script.polling /\ s.actions = script.actions /\ s.active = script.active
    BY <1>1, <2>4 DEF Scripts
  <2> HIDE DEF s
  <2>6. Channel(pending, s, c.poll)
    BY <1>5, <2>5, ChannelOpen
  <2>7. UpdateFits(s, grabs)
    BY <1>1, <1>5, <2>4, <2>5 DEF UpdateFits
  <2>8. Leftovers(pending, s)
    BY <2>5, LeftoversStates
  <2>9. ChannelInv'
    BY <1>2, <1>3, <1>4, <2>1, <2>5, <2>6, <2>7, <2>8, IdleKeepsChannel
  <2>10. script' = s
    BY <1>2, <2>1 DEF Continue, Idle
  <2>11. QED
    BY <1>3, <1>5, <2>9, <2>10 DEF s, u
<1>6. CASE heard /\ Unclaimed(c) = {}
  <2> DEFINE s == [script EXCEPT !.polling = FALSE]
             r == PollRequests(Idle(s))
  <2>1. PollAnswered(heard, c) = r
    BY <1>6 DEF PollAnswered
  <2>2. /\ s \in Scripts /\ s.update = script.update /\ s.on = script.on
        /\ s.name = script.name
        /\ s.polling = FALSE /\ s.actions = script.actions /\ s.active = script.active
    BY <1>1 DEF Scripts
  <2>3. [s EXCEPT !.polling = TRUE] = script
    BY <1>1, <1>6 DEF Scripts
  <2> HIDE DEF s
  <2>4. s.on /\ s.name # None /\ s.update.id = 0
    BY <1>6, <2>2, OpenIsRunning
  <2>5. Channel(pending, s, c.poll)
    BY <1>6, <2>2, ChannelOpen
  <2>6. Channel(pending \o r.out, r.script, c.poll)
    BY <1>1, <2>2, <2>4, <2>5, ChannelPollRequests
  <2>7. /\ r.script = script /\ r.out = <<NextCall(s)>> /\ r.out \in Seq(Message)
    BY <2>2, <2>3, <2>4, PollShape
  <2>8. \A i \in DOMAIN r.out : r.out[i].kind \in {"register", "set"} => r.out[i].heard
    <3>1. NextCall(s).kind = "next"
      BY DEF NextCall
    <3>2. DOMAIN r.out = {1} /\ r.out[1] = NextCall(s)
      BY <2>7
    <3>3. QED
      BY <3>1, <3>2
  <2> HIDE DEF r
  <2>9. Leftovers(pending \o r.out, r.script)
    BY <1>1, <2>7, <2>8, LeftoversConcat
  <2>10. ChannelInv'
    BY <1>1, <1>2, <1>3, <1>4, <2>1, <2>6, <2>7, <2>9, Continuing
  <2>11. script' = script
    BY <1>2, <2>1, <2>7 DEF Continue
  <2>12. QED
    BY <1>3, <1>6, <2>10, <2>11
<1>7. CASE ~heard
  <2>1. PollAnswered(heard, c) = Idle(script)
    BY <1>7 DEF PollAnswered
  <2>2. ChannelInv'
    BY <1>1, <1>2, <1>3, <1>4, <2>1, IdleKeepsChannel
  <2>3. script' = script
    BY <1>2, <2>1 DEF Continue, Idle
  <2>4. QED
    BY <1>3, <1>7, <2>2, <2>3
<1>8. QED
  BY <1>5, <1>6, <1>7

\* Only the companion's own state changes, and what it has read.
LEMMA ReadKeepsChannel ==
  ASSUME ChannelInv, UNCHANGED <<app, script, taken>>, grabs' \subseteq Keys,
         UpdateFits(script, grabs'), FaultsTyped',
         Sound(companion'), companion'.up = companion.up,
         companion'.poll = companion.poll \/ ~companion'.poll.heard,
         companion.up, inbox # <<>>, inbox' = Tail(inbox)
  PROVE  ChannelInv'
<1>1. /\ app \in [Apps -> AppRecords] /\ script \in Scripts /\ taken \subseteq Contested
      /\ inbox \in Seq(Message) /\ Channel(inbox, script, companion.poll)
      /\ Leftovers(inbox, script) /\ companion.poll \in Polls
  BY ChannelInvNamed DEF Sound, Companions
<1>2. Tail(inbox) \in Seq(Message)
  BY <1>1, TailFacts
<1>3. Channel(Tail(inbox), script, companion.poll) /\ Leftovers(Tail(inbox), script)
  BY <1>1, ChannelTail, LeftoversTail
<1>4. Channel(Tail(inbox), script, companion'.poll)
  BY <1>3, ChannelStates
<1>5. app' = app /\ script' = script /\ taken' = taken
  OBVIOUS
<1>6. ~companion'.up => inbox' = <<>>
  OBVIOUS
<1>7. QED
  BY <1>1, <1>2, <1>3, <1>4, <1>5, <1>6, ChannelStep

LEMMA SeenShape ==
  ASSUME NEW c, Sound(c), NEW p \in Polls, c.up
  PROVE  LET seen == [c EXCEPT !.fresh = TRUE, !.poll = p]
         IN /\ Sound(seen) /\ seen.up = c.up /\ seen.poll = p /\ seen.script = c.script
            /\ seen.fresh /\ seen.controller = c.controller /\ seen.requests = c.requests
            /\ seen.results = c.results /\ seen.issued = c.issued
            /\ seen.registered = c.registered
<1> DEFINE seen == [c EXCEPT !.fresh = TRUE, !.poll = p]
<1>1. c \in Companions
  BY DEF Sound
<1>2. /\ seen \in Companions
      /\ seen.up = c.up /\ seen.poll = p /\ seen.script = c.script
      /\ seen.fresh /\ seen.controller = c.controller /\ seen.requests = c.requests
      /\ seen.results = c.results /\ seen.issued = c.issued
      /\ seen.registered = c.registered
  BY <1>1 DEF Companions
<1> HIDE DEF seen
<1>3. Sound(seen)
  BY <1>2 DEF Sound
<1>4. QED
  BY <1>2, <1>3 DEF seen

LEMMA HandleRegisterKeepsChannel ==
  ASSUME ChannelInv, HandleRegister
  PROVE  ChannelInv'
<1> DEFINE m == Head(inbox)
<1>1. /\ Handling("register") /\ companion' = MarkReady(companion, m.sender, m.reset)
      /\ Continue(Tail(inbox), IF m.heard THEN PollRequests(Idle(script)) ELSE Idle(script))
      /\ Calm /\ UNCHANGED <<app, grabs, taken>>
  BY DEF HandleRegister, native
<1>2. /\ companion.up /\ m.kind = "register" /\ m \in Message /\ m = inbox[1]
      /\ 1 \in DOMAIN inbox /\ Tail(inbox) \in Seq(Message)
      /\ Channel(Tail(inbox), script, companion.poll) /\ Leftovers(Tail(inbox), script)
      /\ companion.poll \in Polls /\ FaultsTyped
  BY <1>1, HandlingFacts
<1>3. m.sender \in ScriptNames /\ m.reset \in BOOLEAN /\ m.heard \in BOOLEAN
  BY <1>2, MessageFields
<1>4. /\ script \in Scripts /\ UpdateFits(script, grabs) /\ grabs \subseteq Keys
      /\ taken \subseteq Contested /\ Sound(companion)
      /\ Channel(inbox, script, companion.poll)
  BY ChannelInvNamed
<1>5. FaultsTyped' /\ app' = app /\ grabs' = grabs /\ taken' = taken
  BY <1>1, <1>2, FaultsStayTyped
<1> HIDE DEF m
<1>6. /\ Sound(companion') /\ companion'.up
      /\ companion'.poll = companion.poll \/ companion'.poll = NoPoll
  BY <1>1, <1>2, <1>3, <1>4, MarkReadyShape
<1>7. companion'.poll = companion.poll \/ ~companion'.poll.heard
  BY <1>6 DEF NoPoll
<1>8. companion'.poll \in Polls
  BY <1>6 DEF Sound, Companions
<1>9. Channel(Tail(inbox), script, companion'.poll)
  BY <1>2, <1>7, ChannelStates
<1>10. companion'.up = companion.up
  BY <1>2, <1>6
<1>11. CASE m.heard
  <2> DEFINE r == PollRequests(Idle(script))
  <2>1. script.on /\ script.update.id = 0
    BY <1>2, <1>4, <1>11 DEF Channel, HeardByOne, InTurn, Past
  <2>2. script.name # None
    BY <2>1, OpenIsRunning
  <2>3. Channel(Tail(inbox) \o r.out, r.script, companion'.poll)
    BY <1>2, <1>4, <1>8, <1>9, <2>1, <2>2, ChannelPollRequests
  <2>4. /\ r.script \in Scripts /\ r.out \in Seq(Message)
        /\ r.script = [script EXCEPT !.polling = TRUE]
        /\ r.out = <<>> \/ r.out = <<NextCall(script)>>
    BY <1>4, <2>2, PollShape
  <2>5. \A i \in DOMAIN r.out : r.out[i].kind \in {"register", "set"} => r.out[i].heard
    <3>1. NextCall(script).kind = "next"
      BY DEF NextCall
    <3>2. DOMAIN r.out = {} \/ (DOMAIN r.out = {1} /\ r.out[1] = NextCall(script))
      BY <2>4
    <3>3. QED
      BY <3>1, <3>2
  <2>6. Continue(Tail(inbox), r)
    BY <1>1, <1>11
  <2> HIDE DEF r
  <2>7. /\ r.script.on = script.on /\ r.script.name = script.name
        /\ r.script.update = script.update
        /\ r.script.actions = script.actions /\ r.script.active = script.active
    BY <1>4, <2>4 DEF Scripts
  <2>8. UpdateFits(r.script, grabs') /\ Leftovers(Tail(inbox), r.script)
    BY <1>2, <1>4, <1>5, <2>7, LeftoversStates DEF UpdateFits
  <2>9. Leftovers(Tail(inbox) \o r.out, r.script)
    BY <1>2, <2>4, <2>5, <2>8, LeftoversConcat
  <2>10. QED
    BY <1>2, <1>4, <1>5, <1>6, <1>10, <2>3, <2>4, <2>6, <2>8, <2>9, Continuing
<1>12. CASE ~m.heard
  <2>1. Continue(Tail(inbox), Idle(script))
    BY <1>1, <1>12
  <2>2. UpdateFits(script, grabs') /\ grabs' \subseteq Keys /\ taken' \subseteq Contested
    BY <1>4, <1>5
  <2>3. QED
    BY <1>2, <1>4, <1>5, <1>6, <1>9, <1>10, <2>1, <2>2, IdleKeepsChannel
<1>13. QED
  BY <1>11, <1>12

\* A message that only lets the companion find its script gone.
LEMMA EnsureKeepsChannel ==
  ASSUME ChannelInv, NEW kind, Handling(kind), UNCHANGED <<app, script, grabs, taken>>, Calm,
         companion' = EnsureReady(companion) \/ companion' = companion, inbox' = Tail(inbox)
  PROVE  ChannelInv'
<1>1. Sound(companion) /\ UpdateFits(script, grabs) /\ grabs \subseteq Keys /\ FaultsTyped
  BY ChannelInvNamed
<1>2. Sound(companion') /\ companion'.up = companion.up /\ companion'.poll = companion.poll
  BY <1>1, EnsureReadyShape DEF Reset
<1>3. companion.up /\ inbox # <<>>
  BY HandlingFacts
<1>4. FaultsTyped'
  BY <1>1, FaultsStayTyped
<1>5. UpdateFits(script, grabs') /\ grabs' \subseteq Keys
  BY <1>1
<1>6. QED
  BY <1>2, <1>3, <1>4, <1>5, ReadKeepsChannel

LEMMA IdleContinuation ==
  ASSUME NEW pending \in Seq(Message), Continue(pending, Idle(script))
  PROVE  inbox' = pending /\ script' = script
BY DEF Continue, Idle

\* What a poll that is heard opens.
LEMMA HeardPollOpens ==
  ASSUME ChannelInv, NEW kind, Handling(kind), HeardNext(inbox, 1)
  PROVE  /\ script.on /\ script.update.id = 0 /\ script.polling /\ ~companion.poll.heard
         /\ Head(inbox).sender = script.name
         /\ \A i \in DOMAIN inbox : ~HeardSet(inbox, i) /\ ~Past(inbox, i)
         /\ \A i \in DOMAIN Tail(inbox) :
              /\ ~Past(Tail(inbox), i) /\ ~HeardNext(Tail(inbox), i)
              /\ ~HeardSet(Tail(inbox), i)
<1>1. /\ Head(inbox) = inbox[1] /\ 1 \in DOMAIN inbox
      /\ \A i \in DOMAIN Tail(inbox) :
           i + 1 \in DOMAIN inbox /\ Tail(inbox)[i] = inbox[i + 1] /\ i + 1 # 1 /\ 1 < i + 1
  BY HandlingFacts
<1>2. Channel(inbox, script, companion.poll) /\ inbox \in Seq(Message)
  BY ChannelInvNamed
<1>3. script.on /\ script.polling /\ inbox[1].sender = script.name
  BY <1>1, <1>2 DEF Channel, HeardByOne, OneTurn, HeardNext
<1>4. script.update.id = 0 /\ ~companion.poll.heard
  BY <1>1, <1>2 DEF Channel, OneTurn
<1>5. ~script.update.checked
  BY <1>4, OpenIsRunning DEF NoUpdate
<1>6. \A i \in DOMAIN inbox : ~HeardSet(inbox, i)
  BY <1>5, OpenIsRunning
<1>7. \A i \in DOMAIN inbox : ~Past(inbox, i)
  <2>1. SUFFICES ASSUME NEW i \in DOMAIN inbox, Past(inbox, i)
                 PROVE  FALSE
    OBVIOUS
  <2>2. i < 1
    BY <1>1, <1>2, <2>1 DEF Channel, InTurn
  <2>3. i \in Nat /\ i >= 1
    BY <1>2
  <2>4. QED
    BY <2>2, <2>3
<1>8. \A i \in DOMAIN inbox : HeardNext(inbox, i) => i = 1
  BY <1>1, <1>2 DEF Channel, OneTurn
<1>9. \A i \in DOMAIN Tail(inbox) :
        ~Past(Tail(inbox), i) /\ ~HeardNext(Tail(inbox), i) /\ ~HeardSet(Tail(inbox), i)
  BY <1>1, <1>6, <1>7, <1>8 DEF Past, HeardNext, HeardSet
<1>10. QED
  BY <1>1, <1>3, <1>4, <1>6, <1>7, <1>9

LEMMA DeferredPollOpens ==
  ASSUME ChannelInv, companion.poll.heard
  PROVE  /\ script.on /\ script.update.id = 0 /\ script.polling
         /\ companion.poll.sender = script.name
         /\ \A i \in DOMAIN inbox :
              ~Past(inbox, i) /\ ~HeardNext(inbox, i) /\ ~HeardSet(inbox, i)
<1>1. Channel(inbox, script, companion.poll)
  BY ChannelInvNamed
<1>2. /\ script.on /\ companion.poll.sender = script.name /\ script.update.id = 0
      /\ script.polling
      /\ \A i \in DOMAIN inbox : ~HeardNext(inbox, i) /\ ~Past(inbox, i)
  BY <1>1 DEF Channel, HeardByOne, InTurn, OneTurn
<1>3. ~script.update.checked
  BY <1>2, OpenIsRunning DEF NoUpdate
<1>4. QED
  BY <1>2, <1>3, OpenIsRunning

\* What the companion's answer to a poll did; heard is whether the script got it.
Answering(c, heard) ==
  /\ IF Unclaimed(c) = {} THEN companion' = c
     ELSE ClaimsFirst(c, companion', FirstUnclaimed(c))
  /\ script' = IF heard /\ Unclaimed(c) # {}
               THEN [script EXCEPT !.update =
                       [NoUpdate EXCEPT !.id = c.requests[FirstUnclaimed(c)].id,
                                        !.set = c.requests[FirstUnclaimed(c)].set]]
               ELSE script

\* The companion has found its script gone, whatever else it did to its deferred reply.
Emptied(c, d) ==
  /\ d.up = c.up /\ d.script = None /\ d.controller = c.controller /\ d.issued = c.issued
  /\ d.requests = <<>> /\ d.results = {} /\ d.registered = {}

\* c is the companion, but for its word from the script and its deferred reply.
SameCore(c) ==
  /\ c.up = companion.up /\ c.script = companion.script
  /\ c.controller = companion.controller /\ c.requests = companion.requests
  /\ c.results = companion.results /\ c.issued = companion.issued
  /\ c.registered = companion.registered

\* A poll is read: it is of no use, or it is deferred, or answered.
LEMMA HandleNextShape ==
  ASSUME ChannelInv, HandleNext
  PROVE  /\ ChannelInv'
         /\ companion.up /\ Head(inbox).kind = "next" /\ inbox # <<>>
         /\ UNCHANGED <<app, grabs, taken>> /\ Calm
         /\ \/ /\ companion' = EnsureReady(companion)
               /\ inbox' = Tail(inbox) /\ script' = script
            \/ /\ SameCore(companion') /\ inbox' = Tail(inbox) /\ script' = script
               /\ Sound(companion')
            \/ \E c : /\ Sound(c) /\ SameCore(c) /\ companion.script = Head(inbox).sender
                      /\ Unclaimed(c) # {} /\ Answering(c, Head(inbox).heard)
                      /\ inbox' = Tail(inbox) /\ Ready(companion)
                      /\ Head(inbox).heard =>
                           /\ script.on /\ script.update.id = 0 /\ Head(inbox).sender = script.name
                           /\ \A i \in DOMAIN inbox : ~Past(inbox, i)
<1> DEFINE m == Head(inbox)
           seen == [companion EXCEPT !.fresh = TRUE]
<1>1. Handling("next") /\ Calm /\ UNCHANGED <<app, grabs, taken>>
  BY DEF HandleNext, native
<1>2. /\ companion.up /\ m.kind = "next" /\ m \in Message /\ m = inbox[1] /\ inbox # <<>>
      /\ 1 \in DOMAIN inbox /\ Tail(inbox) \in Seq(Message)
      /\ Channel(Tail(inbox), script, companion.poll) /\ Leftovers(Tail(inbox), script)
      /\ companion.poll \in Polls /\ FaultsTyped
  BY <1>1, HandlingFacts
<1>3. m.sender \in ScriptNames /\ m.heard \in BOOLEAN
  BY <1>2, MessageFields
<1>4. /\ script \in Scripts /\ UpdateFits(script, grabs) /\ grabs \subseteq Keys
      /\ taken \subseteq Contested /\ Sound(companion) /\ companion \in Companions
      /\ Channel(inbox, script, companion.poll)
  BY ChannelInvNamed DEF Sound
<1>5. FaultsTyped' /\ app' = app /\ grabs' = grabs /\ taken' = taken
  BY <1>1, <1>2, FaultsStayTyped
<1>6. CASE companion' = EnsureReady(companion) /\ Continue(Tail(inbox), Idle(script))
  <2>1. inbox' = Tail(inbox) /\ script' = script
    BY <1>2, <1>6, IdleContinuation
  <2>2. QED
    BY <1>1, <1>2, <1>6, <2>1, EnsureKeepsChannel
<1>7. CASE companion' = companion /\ Continue(Tail(inbox), Idle(script))
  <2>1. inbox' = Tail(inbox) /\ script' = script
    BY <1>2, <1>7, IdleContinuation
  <2>2. SameCore(companion') /\ Sound(companion')
    BY <1>4, <1>7 DEF SameCore
  <2>3. QED
    BY <1>1, <1>2, <1>7, <2>1, <2>2, EnsureKeepsChannel
<1>8. CASE /\ EnsureScript(companion, m.sender) /\ companion.poll = NoPoll
           /\ Unclaimed(companion) # {} /\ AnswerPoll(seen, Tail(inbox), m.heard)
  <2> DEFINE kept == [companion EXCEPT !.fresh = TRUE, !.poll = companion.poll]
  <2>1. seen = kept
    BY <1>4 DEF Companions
  <2>a. /\ Sound(kept) /\ SameCore(kept) /\ kept.poll = companion.poll
    BY <1>2, <1>4, SeenShape DEF SameCore
  <2> HIDE DEF seen, kept
  <2>2. /\ Sound(seen) /\ SameCore(seen) /\ seen.poll = companion.poll
    BY <2>1, <2>a
  <2>3. Unclaimed(seen) = Unclaimed(companion)
    BY <2>2 DEF Unclaimed, SameCore
  <2>4. m.heard => HeardNext(inbox, 1)
    BY <1>2 DEF HeardNext
  <2>5. m.heard => /\ script.on /\ script.update.id = 0 /\ script.polling
                   /\ m.sender = script.name
                   /\ \A i \in DOMAIN inbox : ~Past(inbox, i)
                   /\ \A i \in DOMAIN Tail(inbox) :
                        ~Past(Tail(inbox), i) /\ ~HeardNext(Tail(inbox), i)
                        /\ ~HeardSet(Tail(inbox), i)
    BY <1>1, <2>4, HeardPollOpens
  <2>6. ~seen.poll.heard /\ seen.up /\ Channel(Tail(inbox), script, seen.poll)
    BY <1>2, <1>8, <2>2 DEF NoPoll, SameCore
  <2>7. AnswerPoll(seen, Tail(inbox), m.heard)
    BY <1>8
  <2> HIDE DEF m
  <2>8. ChannelInv' /\ Answering(seen, m.heard)
    <3>1. UNCHANGED <<app, grabs, taken>> /\ FaultsTyped'
      BY <1>5
    <3>2. QED
      BY <1>2, <1>3, <2>2, <2>5, <2>6, <2>7, <3>1, AnswerKeepsChannel DEF Answering
  <2>9. inbox' = Tail(inbox)
    <3>1. Continue(Tail(inbox), PollAnswered(m.heard, seen))
      BY <2>7 DEF AnswerPoll
    <3>2. PollAnswered(m.heard, seen).out = <<>>
      BY <1>3, <1>8, <2>3 DEF PollAnswered, Idle
    <3>3. Tail(inbox) \o <<>> = Tail(inbox)
      BY <1>2
    <3>4. QED
      BY <3>1, <3>2, <3>3 DEF Continue
  <2>10. companion.script = m.sender /\ Ready(companion)
    BY <1>8 DEF EnsureScript
  <2>11. Unclaimed(seen) # {}
    BY <1>8, <2>3
  <2>12. QED
    BY <1>1, <1>2, <2>2, <2>5, <2>8, <2>9, <2>10, <2>11 DEF m
<1>9. CASE /\ EnsureScript(companion, m.sender) /\ companion.poll = NoPoll
           /\ Unclaimed(companion) = {}
           /\ companion' = [seen EXCEPT !.poll = [sender |-> m.sender, heard |-> m.heard]]
           /\ Continue(Tail(inbox), Idle(script))
  <2> DEFINE p == [sender |-> m.sender, heard |-> m.heard]
  <2>1. p \in Polls
    BY <1>3 DEF Polls, Names
  <2>2. companion' = [companion EXCEPT !.fresh = TRUE, !.poll = p]
    BY <1>9
  <2>3. p.sender = m.sender /\ p.heard = m.heard
    OBVIOUS
  <2> HIDE DEF p
  <2>4. /\ Sound(companion') /\ companion'.up = companion.up /\ companion'.poll = p
        /\ SameCore(companion')
    BY <1>2, <1>4, <2>1, <2>2, SeenShape DEF SameCore
  <2>5. inbox' = Tail(inbox) /\ script' = script
    BY <1>2, <1>9, IdleContinuation
  <2>6. Channel(Tail(inbox), script, p)
    <3>1. CASE m.heard
      <4>1. HeardNext(inbox, 1)
        BY <1>2, <3>1 DEF HeardNext
      <4>2. QED
        BY <1>1, <2>3, <4>1, HeardPollOpens, ChannelOpen
    <3>2. CASE ~m.heard
      BY <1>2, <2>3, <3>2, ChannelStates
    <3>3. QED
      BY <3>1, <3>2
  <2>7. /\ app' \in [Apps -> AppRecords] /\ script' \in Scripts /\ grabs' \subseteq Keys
        /\ taken' \subseteq Contested /\ inbox' \in Seq(Message)
        /\ UpdateFits(script', grabs') /\ Leftovers(inbox', script')
        /\ Channel(inbox', script', companion'.poll) /\ companion'.up
    BY <1>2, <1>4, <1>5, <2>4, <2>5, <2>6, ChannelInvNamed
  <2>8. ChannelInv'
    BY <1>5, <2>4, <2>7, ChannelStep
  <2>9. QED
    BY <1>1, <1>2, <2>4, <2>5, <2>8
<1>10. QED
  BY <1>6, <1>7, <1>8, <1>9 DEF HandleNext

LEMMA AnswerDeferredShape ==
  ASSUME ChannelInv, AnswerDeferred
  PROVE  /\ ChannelInv'
         /\ companion.up /\ UNCHANGED <<app, grabs, taken>> /\ Calm
         /\ \/ /\ Emptied(companion, companion') \/ SameCore(companion')
               /\ UNCHANGED <<script, inbox>>
            \/ /\ SameCore(companion') /\ script' = script
               /\ companion.script = companion.poll.sender
               /\ inbox' = inbox \/ inbox' = inbox \o <<NextCall(script)>>
            \/ \E c : /\ Sound(c) /\ SameCore(c) /\ companion.script = companion.poll.sender
                      /\ Unclaimed(c) # {} /\ Answering(c, companion.poll.heard)
                      /\ inbox' = inbox
                      /\ companion.poll.heard =>
                           /\ script.on /\ script.update.id = 0
                           /\ companion.poll.sender = script.name
                           /\ \A i \in DOMAIN inbox : ~Past(inbox, i)
<1> DEFINE c == [companion EXCEPT !.poll = NoPoll]
           p == companion.poll
<1>1. /\ companion.up /\ p # NoPoll /\ Calm /\ UNCHANGED <<app, grabs, taken>>
  BY DEF AnswerDeferred, native
<1>2. /\ app \in [Apps -> AppRecords] /\ script \in Scripts /\ UpdateFits(script, grabs)
      /\ grabs \subseteq Keys /\ inbox \in Seq(Message)
      /\ taken \subseteq Contested /\ Sound(companion) /\ companion \in Companions
      /\ p \in Polls /\ Channel(inbox, script, p) /\ Leftovers(inbox, script) /\ FaultsTyped
  BY ChannelInvNamed DEF Sound, Companions
<1>3. FaultsTyped' /\ app' = app /\ grabs' = grabs /\ taken' = taken
  BY <1>1, <1>2, FaultsStayTyped
<1>4. NoPoll \in Polls /\ ~NoPoll.heard
  BY DEF NoPoll, Polls, Names
<1>5. Sound(c) /\ SameCore(c) /\ c.poll = NoPoll
  <2>1. /\ c \in Companions /\ SameCore(c) /\ c.poll = NoPoll
    BY <1>2, <1>4 DEF Companions, SameCore
  <2> HIDE DEF c
  <2>2. Sound(c)
    BY <1>2, <2>1 DEF Sound, SameCore
  <2>3. QED
    BY <2>1, <2>2
<1>6. CASE companion' = EnsureReady(c) /\ UNCHANGED <<script, inbox>>
  <2> HIDE DEF c
  <2>1. /\ Sound(companion') /\ companion'.up = companion.up /\ companion'.poll = NoPoll
        /\ Emptied(companion, companion') \/ SameCore(companion')
    <3>1. companion' = c \/ Reset(c, companion')
      BY <1>5, <1>6, EnsureReadyShape
    <3>2. Sound(companion')
      BY <1>5, <1>6, EnsureReadyShape
    <3>3. companion'.up = companion.up /\ companion'.poll = NoPoll
      BY <1>5, <3>1 DEF Reset, SameCore
    <3>4. companion' = c => SameCore(companion')
      BY <1>5 DEF SameCore
    <3>5. Reset(c, companion') => Emptied(companion, companion')
      BY <1>5 DEF Reset, Emptied, SameCore
    <3>6. QED
      BY <3>1, <3>2, <3>3, <3>4, <3>5
  <2>2. Channel(inbox, script, companion'.poll)
    BY <1>2, <1>4, <2>1, ChannelStates
  <2>3. script' = script /\ inbox' = inbox
    BY <1>6
  <2>4. /\ app' \in [Apps -> AppRecords] /\ script' \in Scripts /\ grabs' \subseteq Keys
        /\ taken' \subseteq Contested /\ inbox' \in Seq(Message)
        /\ UpdateFits(script', grabs') /\ Leftovers(inbox', script')
        /\ Channel(inbox', script', companion'.poll) /\ companion'.up
    BY <1>1, <1>2, <1>3, <2>1, <2>2, <2>3
  <2>5. ChannelInv'
    BY <1>3, <2>1, <2>4, ChannelStep
  <2>6. QED
    BY <1>1, <1>6, <2>1, <2>5
<1>7. CASE EnsureScript(c, p.sender) /\ AnswerPoll(c, inbox, p.heard)
  <2> HIDE DEF c
  <2>1. companion.script = p.sender
    BY <1>5, <1>7 DEF EnsureScript, SameCore
  <2>2. p.heard \in BOOLEAN
    BY <1>2 DEF Polls
  <2>3. p.heard => /\ script.on /\ script.update.id = 0 /\ script.polling
                   /\ p.sender = script.name
                   /\ \A i \in DOMAIN inbox :
                        ~Past(inbox, i) /\ ~HeardNext(inbox, i) /\ ~HeardSet(inbox, i)
    BY DeferredPollOpens
  <2>4. Channel(inbox, script, c.poll) /\ ~c.poll.heard /\ c.up
    BY <1>1, <1>2, <1>4, <1>5, ChannelStates DEF SameCore
  <2> HIDE DEF p
  <2>5. ChannelInv' /\ Answering(c, p.heard)
    <3>1. UNCHANGED <<app, grabs, taken>>
      BY <1>3
    <3>2. QED
      BY <1>1, <1>2, <1>3, <1>5, <1>7, <2>2, <2>3, <2>4, <3>1, AnswerKeepsChannel DEF Answering
  <2>6. Continue(inbox, PollAnswered(p.heard, c))
    BY <1>7 DEF AnswerPoll
  <2>7. inbox \o <<>> = inbox
    BY <1>2
  <2>8. CASE Unclaimed(c) # {}
    <3>1. PollAnswered(p.heard, c).out = <<>>
      BY <2>2, <2>8 DEF PollAnswered, Idle
    <3>2. inbox' = inbox
      BY <2>6, <2>7, <3>1 DEF Continue
    <3>3. QED
      BY <1>1, <1>5, <2>1, <2>3, <2>5, <2>8, <3>2 DEF p
  <2>9. CASE Unclaimed(c) = {}
    <3>1. companion' = c /\ script' = script
      BY <2>5, <2>9 DEF Answering
    <3>2. inbox' = inbox \/ inbox' = inbox \o <<NextCall(script)>>
      <4>1. CASE ~p.heard
        <5>1. PollAnswered(p.heard, c).out = <<>>
          BY <2>2, <4>1 DEF PollAnswered, Idle
        <5>2. QED
          BY <2>6, <2>7, <5>1 DEF Continue
      <4>2. CASE p.heard
        <5> DEFINE s == [script EXCEPT !.polling = FALSE]
        <5>1. PollAnswered(p.heard, c) = PollRequests(Idle(s))
          BY <2>9, <4>2 DEF PollAnswered
        <5>2. s \in Scripts /\ s.name = script.name /\ ~s.polling
          BY <1>2 DEF Scripts
        <5>3. s.name # None
          BY <2>3, <4>2, <5>2, OpenIsRunning
        <5>4. NextCall(s) = NextCall(script)
          BY <5>2 DEF NextCall
        <5> HIDE DEF s
        <5>5. PollRequests(Idle(s)).out = <<NextCall(script)>>
          BY <5>2, <5>3, <5>4, PollShape
        <5>6. QED
          BY <1>1, <2>6, <5>1, <5>5 DEF Continue
      <4>3. QED
        BY <4>1, <4>2
    <3>3. SameCore(companion')
      BY <1>5, <3>1
    <3>4. QED
      BY <1>1, <2>1, <2>5, <3>1, <3>2, <3>3 DEF p
  <2>10. QED
    BY <2>8, <2>9
<1>8. QED
  BY <1>6, <1>7 DEF AnswerDeferred

\* A report, a late call and a lost name only change the companion.
LEMMA HandleCompleteKeepsChannel ==
  ASSUME ChannelInv, HandleComplete
  PROVE  ChannelInv'
<1> DEFINE m == Head(inbox)
<1>1. Handling("complete") /\ Calm /\ UNCHANGED <<app, script, grabs, taken>> /\ inbox' = Tail(inbox)
  BY DEF HandleComplete, native
<1>2. /\ companion.up /\ inbox # <<>> /\ m.kind = "complete" /\ m \in Message /\ FaultsTyped
  BY <1>1, HandlingFacts
<1>3. m.id \in Ids /\ m.answer \in Answers
  BY <1>2, MessageFields
<1>4. Sound(companion) /\ UpdateFits(script, grabs) /\ grabs \subseteq Keys
  BY ChannelInvNamed
<1>5. FaultsTyped' /\ UpdateFits(script, grabs') /\ grabs' \subseteq Keys /\ UNCHANGED <<app, script, taken>>
  BY <1>1, <1>2, <1>4, FaultsStayTyped
<1>6. CASE companion' = EnsureReady(companion) \/ companion' = companion
  BY <1>1, <1>6, EnsureKeepsChannel
<1>7. CASE Claimed(companion, m.id) # {} /\ companion' = CompleteRequest(companion, m.id, m.answer)
  <2>1. Sound(companion') /\ companion'.up = companion.up /\ companion'.poll = companion.poll
    <3> HIDE DEF m
    <3>1. companion' = CompleteRequest(companion, m.id, m.answer) /\ Claimed(companion, m.id) # {}
      BY <1>7
    <3>2. Sound(companion') /\ \E i \in DOMAIN companion.requests :
                                Completed(companion, companion', m.id, m.answer, i)
      BY <1>3, <1>4, <3>1, CompleteShape
    <3>3. QED
      BY <3>2 DEF Completed
  <2>2. QED
    BY <1>1, <1>2, <1>5, <2>1, ReadKeepsChannel
<1>8. QED
  BY <1>6, <1>7 DEF HandleComplete

LEMMA HandleLateCallKeepsChannel ==
  ASSUME ChannelInv, HandleLateCall
  PROVE  ChannelInv'
<1> DEFINE m == Head(inbox)
<1>1. Handling("call") /\ Calm /\ UNCHANGED <<app, script, grabs, taken>> /\ inbox' = Tail(inbox)
  BY DEF HandleLateCall, native
<1>2. /\ companion.up /\ inbox # <<>> /\ m.kind = "call" /\ m \in Message /\ FaultsTyped
  BY <1>1, HandlingFacts
<1>3. m.sender \in Connections /\ m.set \in SUBSET Keys
  BY <1>2, MessageFields
<1>4. Sound(companion) /\ UpdateFits(script, grabs) /\ grabs \subseteq Keys
  BY ChannelInvNamed
<1>5. FaultsTyped' /\ UpdateFits(script, grabs') /\ grabs' \subseteq Keys /\ UNCHANGED <<app, script, taken>>
  BY <1>1, <1>2, <1>4, FaultsStayTyped
<1>6. CASE companion' = EnsureReady(companion)
  BY <1>1, <1>6, EnsureKeepsChannel
<1>7. CASE Ready(companion) /\ companion' = RegisterHotkeys(companion, m.sender, m.set)
  <2>1. /\ Sound(companion')
        /\ Enqueued(companion, companion', m.set, m.sender, NextId(companion))
    BY <1>3, <1>4, <1>7, RegisterShape DEF Ready
  <2>2. companion'.up = companion.up /\ companion'.poll = companion.poll
    BY <2>1 DEF Enqueued
  <2>3. QED
    BY <1>1, <1>2, <1>5, <2>1, <2>2, ReadKeepsChannel
<1>8. QED
  BY <1>6, <1>7 DEF HandleLateCall

LEMMA HandleLostKeepsChannel ==
  ASSUME ChannelInv, HandleLost
  PROVE  ChannelInv'
<1> DEFINE m == Head(inbox)
<1>1. Handling("lost") /\ Calm /\ UNCHANGED <<app, script, grabs, taken>> /\ inbox' = Tail(inbox)
  BY DEF HandleLost, native
<1>2. /\ companion.up /\ inbox # <<>> /\ m.kind = "lost" /\ m \in Message /\ FaultsTyped
  BY <1>1, HandlingFacts
<1>3. m.sender # None
  BY <1>2, MessageFields, ConstantsOK
<1>4. Sound(companion) /\ UpdateFits(script, grabs) /\ grabs \subseteq Keys
  BY ChannelInvNamed
<1>5. FaultsTyped' /\ UpdateFits(script, grabs') /\ grabs' \subseteq Keys /\ UNCHANGED <<app, script, taken>>
  BY <1>1, <1>2, <1>4, FaultsStayTyped
<1>6. companion' = OwnerLost(companion, m.sender)
  BY DEF HandleLost
<1>7. Sound(companion') /\ companion'.up = companion.up /\ companion'.poll = companion.poll
  BY <1>2, <1>3, <1>4, <1>6, OwnerLostShape
<1>8. QED
  BY <1>1, <1>2, <1>5, <1>7, ReadKeepsChannel

\* A key is set, or cleared, for the update under way or for one that is over.
LEMMA SameUpdate ==
  ASSUME NEW u \in Updates, NEW v \in Updates, u.id = v.id, u.set = v.set,
         u.assign = v.assign, u.clear = v.clear, u.checked = v.checked
  PROVE  u = v
BY DEF Updates

LEMMA SetFits ==
  ASSUME NEW s \in Scripts, NEW g \in SUBSET Keys, NEW h \in SUBSET Keys, NEW key \in Keys,
         NEW grab \in BOOLEAN, UpdateFits(s, g),
         h = g \/ h = IF grab THEN g \cup {key} ELSE g \ {key},
         key \in s.actions,
         s.update.checked => key \in NextKeys(s.update) /\ grab = (s.update.assign # {}),
         NEW z \in Scripts,
         z.update.id = s.update.id, z.update.set = s.update.set,
         z.update.checked = s.update.checked,
         z.update.assign = s.update.assign \ {key}, z.update.clear = s.update.clear \ {key},
         z.on = s.on, z.name = s.name, z.active = s.active, z.actions = s.actions
  PROVE  /\ UpdateFits(s, h)
         /\ (h = IF grab THEN g \cup {key} ELSE g \ {key}) => UpdateFits(z, h)
<1>1. /\ z.update.id = s.update.id /\ z.update.set = s.update.set
      /\ z.update.checked = s.update.checked
      /\ z.update.assign = s.update.assign \ {key} /\ z.update.clear = s.update.clear \ {key}
      /\ z.on = s.on /\ z.name = s.name /\ z.active = s.active /\ z.actions = s.actions
  OBVIOUS
<1>2. s.update \in Updates /\ z.update \in Updates
  BY DEF Scripts
<1> HIDE DEF Scripts
<1>3. s.update.id = 0 => z.update = NoUpdate /\ ~s.update.checked
  <2>1. SUFFICES ASSUME s.update.id = 0
                 PROVE  z.update = NoUpdate /\ ~s.update.checked
    OBVIOUS
  <2>2. s.update = NoUpdate
    BY <2>1 DEF UpdateFits
  <2>3. NoUpdate \in Updates
    BY DEF NoUpdate, Updates
  <2>4. /\ z.update.id = NoUpdate.id /\ z.update.set = NoUpdate.set
        /\ z.update.assign = NoUpdate.assign /\ z.update.clear = NoUpdate.clear
        /\ z.update.checked = NoUpdate.checked
    BY <1>1, <2>2 DEF NoUpdate
  <2>5. z.update = NoUpdate
    BY <1>2, <2>3, <2>4, SameUpdate
  <2>6. QED
    BY <2>2, <2>5 DEF NoUpdate
<1>4. h \subseteq s.actions
  BY DEF UpdateFits
<1>5. UpdateFits(s, h)
  BY <1>4 DEF UpdateFits, NextKeys
<1>6. ASSUME h = IF grab THEN g \cup {key} ELSE g \ {key}
      PROVE  UpdateFits(z, h)
  BY <1>1, <1>3, <1>4, <1>6 DEF UpdateFits, NextKeys
<1>7. QED
  BY <1>5, <1>6

\* What handling it does: nothing, or only a key is touched, or the update goes on.
SetRead == companion' = companion /\ inbox' = Tail(inbox) /\ script' = script
SetGoesOn ==
  /\ companion' = companion /\ script.update.id # 0
  /\ \E s \in Scripts :
       /\ s.on = script.on /\ s.name = script.name /\ s.active = script.active
       /\ s.update.id = script.update.id /\ s.update.set = script.update.set
       /\ s.update.checked /\ UpdateFits(s, grabs')
       /\ Continue(Tail(inbox), Configure(Idle(s)))

LEMMA HandleSetShape ==
  ASSUME ChannelInv, HandleSet
  PROVE  /\ ChannelInv' /\ Handling("set") /\ UNCHANGED <<app, taken>> /\ mishaps \subseteq mishaps'
         /\ \/ /\ companion' = EnsureReady(companion) /\ inbox' = Tail(inbox)
               /\ UNCHANGED <<script, grabs>>
            \/ SetRead /\ grabs' = grabs
            \/ /\ SetRead /\ Head(inbox).sender = script.name
               /\ companion.script = script.name /\ script.actions # {}
            \/ SetGoesOn
<1> DEFINE m == Head(inbox)
           applied == IF m.grab THEN grabs \cup {m.key} ELSE grabs \ {m.key}
           can == /\ m.sender = script.name /\ m.key \in script.actions
                  /\ (m.grab => m.key \notin taken)
           rest == [script EXCEPT !.update.assign = @ \ {m.key}, !.update.clear = @ \ {m.key}]
<1>1. Handling("set") /\ UNCHANGED <<app, taken>>
  BY DEF HandleSet
<1>2. /\ companion.up /\ inbox # <<>> /\ m.kind = "set" /\ m \in Message /\ FaultsTyped
      /\ m = inbox[1] /\ 1 \in DOMAIN inbox
      /\ Tail(inbox) \in Seq(Message)
      /\ Channel(Tail(inbox), script, companion.poll) /\ Leftovers(Tail(inbox), script)
      /\ \A i \in DOMAIN Tail(inbox) :
           i + 1 \in DOMAIN inbox /\ Tail(inbox)[i] = inbox[i + 1] /\ i + 1 # 1 /\ 1 < i + 1
  BY <1>1, HandlingFacts
<1>3. m.key \in Keys /\ m.grab \in BOOLEAN /\ m.heard \in BOOLEAN
  BY <1>2, MessageFields
<1>4. /\ script \in Scripts /\ grabs \subseteq Keys /\ taken \subseteq Contested
      /\ UpdateFits(script, grabs) /\ Channel(inbox, script, companion.poll)
      /\ Sound(companion)
  BY ChannelInvNamed
<1>5. script.update.checked => /\ HeardSet(inbox, 1) /\ m.key \in NextKeys(script.update)
                               /\ m.grab = (script.update.assign # {})
  <2>1. SUFFICES ASSUME script.update.checked
                 PROVE  /\ HeardSet(inbox, 1) /\ m.key \in NextKeys(script.update)
                        /\ m.grab = (script.update.assign # {})
    OBVIOUS
  <2>2. script.update.id # 0
    BY <2>1, OpenIsRunning
  <2>3. ~Past(inbox, 1)
    BY <1>2, <1>4, <2>2, UpdateIsTheTurn
  <2>4. HeardSet(inbox, 1)
    BY <1>2, <2>3 DEF Past, HeardSet
  <2>5. QED
    BY <1>2, <1>4, <2>4 DEF Channel, OneKey
<1>6. rest \in Scripts
  <2>1. script.update \in Updates
    BY <1>4 DEF Scripts
  <2>2. /\ script.update.assign \ {m.key} \in SUBSET Keys
        /\ script.update.clear \ {m.key} \in SUBSET Keys
    BY <2>1 DEF Updates
  <2> DEFINE u == [script.update EXCEPT !.assign = @ \ {m.key}, !.clear = @ \ {m.key}]
  <2>3. u \in Updates
    BY <2>1, <2>2 DEF Updates
  <2>4. rest = [script EXCEPT !.update = u]
    BY <1>4 DEF Scripts
  <2> HIDE DEF u, rest
  <2>5. QED
    BY <1>4, <2>3, <2>4 DEF Scripts
<1>7. applied \in SUBSET Keys
  BY <1>3, <1>4
<1>8. ASSUME m.key \in script.actions, NEW h \in SUBSET Keys, h = grabs \/ h = applied
      PROVE  UpdateFits(script, h) /\ (h = applied => UpdateFits(rest, h))
  <2> DEFINE key == m.key
             grab == m.grab
  <2>1. /\ key \in Keys /\ grab \in BOOLEAN /\ key \in script.actions
        /\ script.update.checked => key \in NextKeys(script.update) /\ grab = (script.update.assign # {})
    BY <1>3, <1>5, <1>8
  <2>2. h = grabs \/ h = IF grab THEN grabs \cup {key} ELSE grabs \ {key}
    BY <1>8
  <2>3. /\ rest.update.id = script.update.id /\ rest.update.set = script.update.set
        /\ rest.update.checked = script.update.checked
        /\ rest.update.assign = script.update.assign \ {key}
        /\ rest.update.clear = script.update.clear \ {key}
        /\ rest.on = script.on /\ rest.name = script.name /\ rest.active = script.active
        /\ rest.actions = script.actions
    BY <1>4 DEF Scripts, Updates
  <2>4. applied = IF grab THEN grabs \cup {key} ELSE grabs \ {key}
    OBVIOUS
  <2>5. /\ grabs \in SUBSET Keys /\ h \in SUBSET Keys /\ script \in Scripts
        /\ rest \in Scripts /\ UpdateFits(script, grabs)
    BY <1>4, <1>6
  <2> HIDE DEF key, grab, rest, applied
  <2>6. /\ UpdateFits(script, h)
        /\ (h = IF grab THEN grabs \cup {key} ELSE grabs \ {key}) => UpdateFits(rest, h)
    BY ONLY <2>1, <2>2, <2>3, <2>5, SetFits
  <2>7. QED
    BY <2>4, <2>6
<1> DEFINE done ==
             \/ /\ companion' = EnsureReady(companion) /\ inbox' = Tail(inbox)
                /\ UNCHANGED <<script, grabs>>
             \/ SetRead /\ grabs' = grabs
             \/ /\ SetRead /\ Head(inbox).sender = script.name
                /\ companion.script = script.name /\ script.actions # {}
             \/ SetGoesOn
<1>9. ASSUME companion' = EnsureReady(companion), Continue(Tail(inbox), Idle(script)), Calm,
             UNCHANGED grabs
      PROVE  ChannelInv' /\ done
  <2>1. inbox' = Tail(inbox) /\ script' = script
    BY <1>2, <1>9, IdleContinuation
  <2>2. ChannelInv'
    BY <1>1, <1>9, <2>1, EnsureKeepsChannel
  <2>3. QED
    BY <1>9, <2>1, <2>2
<1>10. ASSUME UNCHANGED companion, FaultsTyped', Continue(Tail(inbox), Idle(script)),
              grabs' = grabs \/ (/\ m.key \in script.actions /\ grabs' = applied
                                /\ m.sender = script.name /\ companion.script = script.name)
       PROVE  ChannelInv' /\ done
  <2>1. inbox' = Tail(inbox) /\ script' = script
    BY <1>2, <1>10, IdleContinuation
  <2>2. grabs' \subseteq Keys /\ UpdateFits(script, grabs')
    BY <1>4, <1>7, <1>8, <1>10
  <2>3. ChannelInv'
    BY <1>1, <1>2, <1>4, <1>10, <2>1, <2>2, ReadKeepsChannel
  <2>4. done
    BY <1>10, <2>1 DEF SetRead
  <2>5. QED
    BY <2>3, <2>4
<1>11. ASSUME can, m.heard, grabs' = applied, Calm, UNCHANGED companion,
              Continue(Tail(inbox), Configure(Idle(rest)))
       PROVE  ChannelInv' /\ done
  <2>1. HeardSet(inbox, 1) /\ m.key \in script.actions
    BY <1>2, <1>11 DEF HeardSet
  <2>2. script.update.checked /\ script.update.id # 0
    BY <1>2, <2>1, OpenIsRunning
  <2>3. \A i \in DOMAIN Tail(inbox) : ~HeardSet(Tail(inbox), i)
    <3>1. \A i \in DOMAIN inbox : HeardSet(inbox, i) => i = 1
      BY <1>2, <1>4, <2>1 DEF Channel, OneKey
    <3>2. QED
      BY <1>2, <3>1 DEF HeardSet
  <2>4. /\ rest.on = script.on /\ rest.name = script.name /\ rest.polling = script.polling
        /\ rest.update.id = script.update.id /\ rest.update.checked = script.update.checked
        /\ rest.update.set = script.update.set /\ rest.active = script.active
    BY <1>4 DEF Scripts, Updates
  <2>5. UpdateFits(rest, grabs') /\ grabs' \subseteq Keys
    BY <1>7, <1>8, <1>11, <2>1
  <2>6. FaultsTyped'
    BY <1>2, <1>11, FaultsStayTyped
  <2>7. Continue(Tail(inbox), Configure(Idle(rest)))
    BY <1>11
  <2> HIDE DEF rest, m, applied
  <2>8. ChannelInv'
    BY <1>1, <1>2, <1>6, <1>11, <2>2, <2>3, <2>4, <2>5, <2>6, <2>7, ConfigureKeepsChannel
  <2>9. SetGoesOn
    BY <1>6, <1>11, <2>2, <2>4, <2>5, <2>7 DEF SetGoesOn
  <2>10. QED
    BY <2>8, <2>9
<1>12. Calm \/ Stall => FaultsTyped' /\ mishaps \subseteq mishaps'
  BY <1>2, FaultsStayTyped DEF Calm, Stall, Mishap
<1>13. /\ \/ /\ companion' = EnsureReady(companion)
             /\ Continue(Tail(inbox), Idle(script))
             /\ Calm
             /\ UNCHANGED grabs
          \/ /\ can /\ grabs' = applied /\ EnsureScript(companion, m.sender)
             /\ Continue(Tail(inbox), IF m.heard THEN Configure(Idle(rest)) ELSE Idle(script))
             /\ Calm
             /\ UNCHANGED companion
          \/ /\ Continue(Tail(inbox), Idle(script))
             /\ Calm
             /\ UNCHANGED <<companion, grabs>>
          \/ /\ can /\ Stall /\ EnsureScript(companion, m.sender)
             /\ grabs' \in {grabs, applied}
             /\ Continue(Tail(inbox), Idle(script))
             /\ UNCHANGED companion
  BY DEF HandleSet
<1>14. can /\ EnsureScript(companion, m.sender) =>
         m.sender = script.name /\ companion.script = script.name /\ m.key \in script.actions
  BY DEF EnsureScript
<1>15. ChannelInv' /\ done /\ mishaps \subseteq mishaps'
  <2> HIDE DEF rest, applied, m, done
  <2>1. QED
    BY <1>9, <1>10, <1>11, <1>12, <1>13, <1>14
<1>16. QED
  BY <1>1, <1>15

LEMMA HeartbeatKeepsChannel ==
  ASSUME ChannelInv, HeartbeatExpires
  PROVE  ChannelInv'
<1>1. /\ companion' = [companion EXCEPT !.fresh = FALSE] /\ Stall
      /\ UNCHANGED <<app, script, grabs, taken, inbox>>
  BY DEF HeartbeatExpires, native
<1>2. Sound(companion) /\ companion \in Companions /\ FaultsTyped
  BY ChannelInvNamed DEF Sound
<1>3. /\ companion' \in Companions /\ companion'.up = companion.up
      /\ companion'.poll = companion.poll /\ companion'.script = companion.script
      /\ companion'.requests = companion.requests /\ companion'.results = companion.results
      /\ companion'.registered = companion.registered /\ companion'.issued = companion.issued
  BY <1>1, <1>2 DEF Companions
<1>4. Sound(companion')
  BY <1>2, <1>3 DEF Sound
<1>5. FaultsTyped' /\ app' \in [Apps -> AppRecords]
  BY <1>1, <1>2, ChannelInvNamed, FaultsStayTyped
<1>6. QED
  BY <1>1, <1>3, <1>4, <1>5, AppActsQuietly

LEMMA StartedIsSound ==
  /\ Sound(Started) /\ Started.up /\ Started.poll = NoPoll /\ ~Started.poll.heard
  /\ Sound([Started EXCEPT !.up = FALSE])
  /\ [Started EXCEPT !.up = FALSE].poll = NoPoll /\ ~[Started EXCEPT !.up = FALSE].up
<1>1. NoPoll \in Polls /\ ~NoPoll.heard
  BY DEF NoPoll, Polls, Names
<1>2. <<>> \in Seq(Request) /\ IsFiniteSet({})
  BY FS_EmptySet
<1>3. Started \in Companions
  BY <1>1, <1>2 DEF Started, Companions, Names, Controllers
<1>4. [Started EXCEPT !.up = FALSE] \in Companions
  BY <1>3 DEF Companions
<1>5. QED
  BY <1>1, <1>2, <1>3, <1>4 DEF Sound, Started

LEMMA EmptyChannel ==
  ASSUME NEW q \in Seq(Message), NEW s, NEW p, NEW p2, Channel(q, s, p), Leftovers(q, s), ~p2.heard
  PROVE  Channel(<<>>, s, p2) /\ Leftovers(<<>>, s)
<1>1. DOMAIN <<>> = {}
  OBVIOUS
<1>2. s.update.id # 0 => s.polling
  BY DEF Channel, OneTurn
<1>3. HeardByOne(<<>>, s, p2) /\ InTurn(<<>>, s, p2) /\ OneKey(<<>>, s) /\ Leftovers(<<>>, s)
  BY <1>1 DEF HeardByOne, InTurn, OneKey, Leftovers
<1>4. OneTurn(<<>>, s, p2)
  BY <1>1, <1>2 DEF OneTurn
<1>5. QED
  BY <1>3, <1>4 DEF Channel

LEMMA CompanionRestarts ==
  ASSUME ChannelInv, CompanionDies \/ CompanionStarts
  PROVE  ChannelInv'
<1>1. /\ UNCHANGED <<app, script, grabs, taken>> /\ inbox' = <<>>
      /\ Sound(companion') /\ ~companion'.poll.heard
      /\ Calm \/ Fault
  <2>1. CASE CompanionDies
    BY <2>1, StartedIsSound DEF CompanionDies, native
  <2>2. CASE CompanionStarts
    BY <2>2, ChannelInvNamed, StartedIsSound DEF CompanionStarts, native
  <2>3. QED
    BY <2>1, <2>2
<1>2. /\ app' \in [Apps -> AppRecords] /\ script' \in Scripts /\ grabs' \subseteq Keys
      /\ taken' \subseteq Contested /\ inbox' \in Seq(Message) /\ FaultsTyped
      /\ UpdateFits(script', grabs')
  BY <1>1, ChannelInvNamed
<1>3. FaultsTyped'
  BY <1>1, <1>2, FaultsStayTyped
<1>4. Channel(<<>>, script, companion'.poll) /\ Leftovers(<<>>, script)
  <2>1. inbox \in Seq(Message) /\ Channel(inbox, script, companion.poll) /\ Leftovers(inbox, script)
    BY ChannelInvNamed
  <2>2. QED
    BY <1>1, <2>1, EmptyChannel
<1>5. Channel(inbox', script', companion'.poll) /\ Leftovers(inbox', script')
  BY <1>1, <1>4
<1>6. QED
  BY <1>1, <1>2, <1>3, <1>5, ChannelStep

LEMMA InitialChannel ==
  ASSUME Init
  PROVE  ChannelInv
<1>1. app \in [Apps -> AppRecords]
  BY DEF Init, AppRecords, Controllers
<1>2. Sound(companion) /\ ~companion.poll.heard
  BY StartedIsSound DEF Init
<1>3. NoUpdate \in Updates
  BY DEF NoUpdate, Updates
<1>4. script \in Scripts
  BY <1>3 DEF Init, Scripts, Names
<1>5. /\ grabs \subseteq Keys /\ taken \subseteq Contested /\ inbox \in Seq(Message)
      /\ inbox = <<>> /\ grabs = {}
  BY DEF Init
<1>6. FaultsTyped
  BY ConstantsOK DEF Init, FaultsTyped
<1>7. /\ ~script.on /\ script.update = NoUpdate /\ script.actions = {} /\ script.active = {}
      /\ ~script.polling
  BY DEF Init
<1>8. /\ NoUpdate.id = 0 /\ NoUpdate.assign = {} /\ NoUpdate.clear = {} /\ ~NoUpdate.checked
  BY DEF NoUpdate
<1>9. UpdateFits(script, grabs) /\ Leftovers(inbox, script)
  BY <1>5, <1>7, <1>8 DEF UpdateFits, Leftovers
<1>10. DOMAIN <<>> = {}
  OBVIOUS
<1>11. Channel(inbox, script, companion.poll)
  BY <1>2, <1>5, <1>7, <1>8, <1>10, ChannelOpen
<1>12. QED
  BY <1>1, <1>2, <1>4, <1>5, <1>6, <1>9, <1>11, ChannelInvNamed

LEMMA StutteringKeepsChannel ==
  ASSUME ChannelInv, UNCHANGED vars
  PROVE  ChannelInv'
BY DEF vars, ChannelInv, TypeOK, Channels

LEMMA NextKeepsChannel ==
  ASSUME ChannelInv, Next
  PROVE  ChannelInv'
<1>1. CASE \E a \in Apps : AppNext(a)
  BY <1>1, AppKeepsChannel
<1>2. CASE CompanionNext
  BY <1>2, HandleRegisterKeepsChannel, HandleNextShape, HandleCompleteKeepsChannel,
     HandleSetShape, HandleLateCallKeepsChannel, HandleLostKeepsChannel,
     AnswerDeferredShape, HeartbeatKeepsChannel, CompanionRestarts
     DEF CompanionNext, Handle
<1>3. CASE ScriptNext
  BY <1>3, OwnersCheckedKeepsChannel, OwnersConflictKeepsChannel,
     UpdateTimesOutKeepsChannel, RetryKeepsChannel DEF ScriptNext
<1>4. CASE KwinNext
  BY <1>4, KwinKeepsChannel
<1>5. QED
  BY <1>1, <1>2, <1>3, <1>4 DEF Next

\* One poll at a time, counted.
LEMMA ChannelGivesOnePoll ==
  ASSUME ChannelInv
  PROVE  OnePoll
<1> DEFINE polls == {i \in DOMAIN inbox : inbox[i].kind = "next" /\ inbox[i].heard}
<1>1. Channel(inbox, script, companion.poll) /\ companion.poll \in Polls /\ inbox \in Seq(Message)
  BY ChannelInvNamed DEF Sound, Companions
<1>2. \A i, j \in polls : i = j
  BY <1>1 DEF Channel, OneTurn, HeardNext
<1>3. companion.poll.heard \/ script.update.id # 0 => polls = {}
  BY <1>1 DEF Channel, OneTurn, HeardNext
<1>4. ~(companion.poll.heard /\ script.update.id # 0)
  BY <1>1 DEF Channel, OneTurn
<1>5. polls = {} \/ \E i \in DOMAIN inbox : polls = {i}
  BY <1>2
<1>6. Cardinality({}) = 0 /\ \A i : Cardinality({i}) = 1
  BY FS_EmptySet, FS_Singleton
<1>7. Cardinality(polls) \in {0, 1} /\ (polls = {} => Cardinality(polls) = 0)
  BY <1>5, <1>6
<1>8. PollOutstanding => script.polling
  BY <1>1 DEF Channel, OneTurn, HeardNext, PollOutstanding
<1> HIDE DEF polls
<1>9. Cardinality(polls) + (IF companion.poll.heard THEN 1 ELSE 0)
        + (IF script.update.id # 0 THEN 1 ELSE 0) <= 1
  BY <1>3, <1>4, <1>7
<1>10. QED
  BY <1>8, <1>9 DEF OnePoll, polls

LEMMA ChannelStays ==
  Spec => []ChannelInv
<1>1. Init => ChannelInv
  BY InitialChannel
<1>2. ChannelInv /\ [Next]_vars => ChannelInv'
  BY NextKeepsChannel, StutteringKeepsChannel
<1>3. QED
  BY <1>1, <1>2, PTL DEF Spec

\* Two updates never mix: at most one poll is out, or one update under way, and the
\* script knows of it.
THEOREM UpdatesNeverMix ==
  Spec => [](TypeOK /\ OnePoll)
<1>1. ChannelInv => TypeOK /\ OnePoll
  BY ChannelGivesOnePoll DEF ChannelInv
<1>2. QED
  BY <1>1, ChannelStays, PTL

-----------------------------------------------------------------------------
(* What the inbox says of reports, resets and lost connections.            *)

Says(q, sender, x, answers) ==
  \E i \in DOMAIN q : /\ q[i].kind = "complete" /\ q[i].sender = sender
                      /\ q[i].id = x /\ q[i].answer \in answers
Resets(q) == \E i \in DOMAIN q : q[i].kind = "register" /\ q[i].reset
LostIn(q, c) == \E i \in DOMAIN q : q[i].kind = "lost" /\ q[i].sender = c
CalledIn(q, c) == \E i \in DOMAIN q : q[i].kind = "call" /\ q[i].sender = c
LostFirst(q, c) == q # <<>> /\ Head(q).kind = "lost" /\ Head(q).sender = c
Unused(q, c) == \A i \in DOMAIN q : q[i].sender # c

\* A call that was given up is followed by the end of its connection.
Paired(q) ==
  \A i \in DOMAIN q : q[i].kind = "call" =>
    /\ i + 1 \in DOMAIN q /\ q[i + 1].kind = "lost" /\ q[i + 1].sender = q[i].sender
    /\ \A j \in DOMAIN q : q[j].kind = "call" /\ q[j].sender = q[i].sender => i = j

\* r says what q says, and names no more connections.
SameNames(q, r) ==
  /\ \A c \in Connections : LostIn(r, c) <=> LostIn(q, c)
  /\ \A c : CalledIn(r, c) <=> CalledIn(q, c)
  /\ \A c \in Connections : LostFirst(q, c) => LostFirst(r, c)
  /\ \A c \in Connections : Unused(q, c) => Unused(r, c)
  /\ Paired(q) => Paired(r)
SameWord(q, r) ==
  /\ SameNames(q, r)
  /\ Resets(r) <=> Resets(q)
  /\ \A s, x, answers : Says(r, s, x, answers) <=> Says(q, s, x, answers)

LEMMA SilencedWord ==
  ASSUME NEW q \in Seq(Message), NEW r \in Seq(Message),
         NEW kinds \in SUBSET {"register", "next", "set"}, Silenced(q, r, kinds)
  PROVE  SameWord(q, r)
<1>1. /\ DOMAIN r = DOMAIN q
      /\ \A i \in DOMAIN q : /\ r[i].kind = q[i].kind /\ r[i].sender = q[i].sender
                             /\ q[i].kind \in {"complete", "call", "lost"} => r[i] = q[i]
                             /\ q[i].kind = "register" => r[i].reset = q[i].reset
  BY DEF Silenced
<1>2. Len(q) \in Nat /\ DOMAIN q = 1 .. Len(q) /\ Len(r) \in Nat /\ DOMAIN r = 1 .. Len(r)
  OBVIOUS
<1>3. /\ q # <<>> => 1 \in DOMAIN q /\ Head(q) = q[1]
      /\ 1 \in DOMAIN q => r # <<>> /\ Head(r) = r[1]
  BY <1>1, <1>2
<1>4. \A c : (LostIn(r, c) <=> LostIn(q, c)) /\ (CalledIn(r, c) <=> CalledIn(q, c))
             /\ (Unused(q, c) => Unused(r, c))
  BY <1>1 DEF LostIn, CalledIn, Unused
<1>5. \A c : LostFirst(q, c) => LostFirst(r, c)
  BY <1>1, <1>3 DEF LostFirst
<1>6. Paired(q) => Paired(r)
  BY <1>1 DEF Paired
<1>7. Resets(r) <=> Resets(q)
  BY <1>1 DEF Resets
<1>8. ASSUME NEW s, NEW x, NEW answers
      PROVE  Says(r, s, x, answers) <=> Says(q, s, x, answers)
  BY <1>1 DEF Says
<1>9. QED
  BY <1>4, <1>5, <1>6, <1>7, <1>8 DEF SameWord, SameNames

\* What is behind q, by its parts.
LEMMA BehindWord ==
  ASSUME NEW q \in Seq(Message), NEW out \in Seq(Message)
  PROVE  /\ \A c : LostIn(q \o out, c) <=> LostIn(q, c) \/ LostIn(out, c)
         /\ \A c : CalledIn(q \o out, c) <=> CalledIn(q, c) \/ CalledIn(out, c)
         /\ \A c : LostFirst(q, c) => LostFirst(q \o out, c)
         /\ \A c : Unused(q, c) /\ Unused(out, c) => Unused(q \o out, c)
         /\ Resets(q \o out) <=> Resets(q) \/ Resets(out)
         /\ \A s, x, answers : Says(q \o out, s, x, answers)
                                 <=> Says(q, s, x, answers) \/ Says(out, s, x, answers)
<1> DEFINE r == q \o out
           n == Len(q)
<1>1. /\ n \in Nat /\ DOMAIN q = 1 .. n
      /\ \A i \in DOMAIN q : i \in DOMAIN r /\ r[i] = q[i]
      /\ \A i \in DOMAIN out : n + i \in DOMAIN r /\ r[n + i] = out[i]
      /\ \A i \in DOMAIN r : i \in DOMAIN q \/ i - n \in DOMAIN out
      /\ r \in Seq(Message)
  BY ConcatFacts
<1>2. \A i \in DOMAIN r : i - n \in DOMAIN out => r[i] = out[i - n]
  BY <1>1
<1>3. /\ q # <<>> => 1 \in DOMAIN q /\ Head(q) = q[1]
      /\ 1 \in DOMAIN r => r # <<>> /\ Head(r) = r[1]
  BY <1>1
<1> HIDE DEF r, n
<1>4. \A c : LostIn(r, c) <=> LostIn(q, c) \/ LostIn(out, c)
  BY <1>1, <1>2 DEF LostIn
<1>5. \A c : CalledIn(r, c) <=> CalledIn(q, c) \/ CalledIn(out, c)
  BY <1>1, <1>2 DEF CalledIn
<1>6. \A c : LostFirst(q, c) => LostFirst(r, c)
  BY <1>1, <1>3 DEF LostFirst
<1>7. \A c : Unused(q, c) /\ Unused(out, c) => Unused(r, c)
  BY <1>1, <1>2 DEF Unused
<1>8. Resets(r) <=> Resets(q) \/ Resets(out)
  BY <1>1, <1>2 DEF Resets
<1>9. ASSUME NEW s, NEW x, NEW answers
      PROVE  Says(r, s, x, answers) <=> Says(q, s, x, answers) \/ Says(out, s, x, answers)
  <2>1. Says(q, s, x, answers) => Says(r, s, x, answers)
    BY <1>1 DEF Says
  <2>2. Says(out, s, x, answers) => Says(r, s, x, answers)
    BY <1>1 DEF Says
  <2>3. Says(r, s, x, answers) => Says(q, s, x, answers) \/ Says(out, s, x, answers)
    BY <1>1, <1>2 DEF Says
  <2>4. QED
    BY <2>1, <2>2, <2>3
<1>10. QED
  BY <1>4, <1>5, <1>6, <1>7, <1>8, <1>9 DEF r

LEMMA PairedBehind ==
  ASSUME NEW q \in Seq(Message), NEW out \in Seq(Message), Paired(q),
         \A i \in DOMAIN out : out[i].kind # "call"
  PROVE  Paired(q \o out)
<1> DEFINE r == q \o out
           n == Len(q)
<1>1. /\ n \in Nat /\ DOMAIN q = 1 .. n
      /\ \A i \in DOMAIN q : i \in DOMAIN r /\ r[i] = q[i]
      /\ \A i \in DOMAIN r : i \in DOMAIN q \/ r[i].kind # "call"
  <2>1. \A i \in DOMAIN r : i \in DOMAIN q \/ (i - n \in DOMAIN out /\ r[i] = out[i - n])
    <3>1. \A i \in DOMAIN r : i \in DOMAIN q \/ i - n \in DOMAIN out
      BY ConcatFacts
    <3>2. /\ n \in Nat /\ \A i \in DOMAIN out : n + i \in DOMAIN r /\ r[n + i] = out[i]
      BY ConcatFacts
    <3>3. DOMAIN r \subseteq Int
      BY ConcatFacts
    <3> HIDE DEF r, n
    <3>4. \A i \in DOMAIN r : n + (i - n) = i
      BY <3>2, <3>3
    <3>5. QED
      BY <3>1, <3>2, <3>4
  <2>2. QED
    BY <2>1, ConcatFacts
<1> HIDE DEF r, n
<1>2. QED
  BY <1>1 DEF Paired, r

\* What is sent by a script, and says nothing new.
LEMMA PlusWord ==
  ASSUME NEW q \in Seq(Message), NEW out \in Seq(Message),
         \A i \in DOMAIN out : /\ out[i].sender \notin Connections
                               /\ out[i].kind \in {"next", "set", "register", "lost"}
                               /\ out[i].kind = "register" => ~out[i].reset
  PROVE  SameWord(q, q \o out)
<1>1. /\ \A c \in Connections : ~LostIn(out, c) /\ Unused(out, c)
      /\ \A c : ~CalledIn(out, c)
      /\ ~Resets(out) /\ \A s, x, answers : ~Says(out, s, x, answers)
  BY DEF LostIn, CalledIn, Unused, Resets, Says
<1>2. Paired(q) => Paired(q \o out)
  BY PairedBehind
<1>3. SameNames(q, q \o out)
  BY <1>1, <1>2, BehindWord DEF SameNames
<1>4. Resets(q \o out) <=> Resets(q)
  BY <1>1, BehindWord
<1>5. \A s, x, answers : Says(q \o out, s, x, answers) <=> Says(q, s, x, answers)
  BY <1>1, BehindWord
<1>6. QED
  BY <1>3, <1>4, <1>5 DEF SameWord

LEMMA SameWordTwice ==
  ASSUME NEW q, NEW r, NEW t, SameWord(q, r), SameWord(r, t)
  PROVE  SameWord(q, t)
BY DEF SameWord, SameNames

\* The first message is read.
LEMMA TailWord ==
  ASSUME NEW q \in Seq(Message), q # <<>>
  PROVE  /\ \A c : LostIn(Tail(q), c) => LostIn(q, c)
         /\ \A c : LostIn(q, c) => LostIn(Tail(q), c) \/ LostFirst(q, c)
         /\ \A c : CalledIn(Tail(q), c) => CalledIn(q, c)
         /\ \A c : CalledIn(q, c) => CalledIn(Tail(q), c)
                                     \/ (Head(q).kind = "call" /\ Head(q).sender = c)
         /\ \A c : Unused(q, c) => Unused(Tail(q), c)
         /\ Resets(Tail(q)) => Resets(q)
         /\ Resets(q) => Resets(Tail(q)) \/ (Head(q).kind = "register" /\ Head(q).reset)
         /\ \A s, x, answers : Says(Tail(q), s, x, answers) => Says(q, s, x, answers)
         /\ \A s, x, answers : Says(q, s, x, answers) =>
              \/ Says(Tail(q), s, x, answers)
              \/ /\ Head(q).kind = "complete" /\ Head(q).sender = s
                 /\ Head(q).id = x /\ Head(q).answer \in answers
         /\ Paired(q) => Paired(Tail(q))
<1> DEFINE r == Tail(q)
<1>1. /\ Head(q) = q[1] /\ 1 \in DOMAIN q
      /\ \A i \in DOMAIN r : i + 1 \in DOMAIN q /\ r[i] = q[i + 1]
      /\ \A i \in DOMAIN q : i = 1 \/ (i - 1 \in DOMAIN r /\ r[i - 1] = q[i])
  BY TailFacts
<1>2. \A i \in DOMAIN r : \A j \in DOMAIN r : i + 1 = j + 1 => i = j
  BY TailFacts
<1>3. \A i \in DOMAIN r : (i + 1) + 1 \in DOMAIN q => i + 1 \in DOMAIN r /\ r[i + 1] = q[(i + 1) + 1]
  BY TailFacts
<1> HIDE DEF r
<1>4. \A c : LostIn(r, c) => LostIn(q, c)
  BY <1>1 DEF LostIn
<1>5. \A c : LostIn(q, c) => LostIn(r, c) \/ LostFirst(q, c)
  BY <1>1 DEF LostIn, LostFirst
<1>6. \A c : CalledIn(r, c) => CalledIn(q, c)
  BY <1>1 DEF CalledIn
<1>7. \A c : CalledIn(q, c) => CalledIn(r, c) \/ (Head(q).kind = "call" /\ Head(q).sender = c)
  BY <1>1 DEF CalledIn
<1>8. \A c : Unused(q, c) => Unused(r, c)
  BY <1>1 DEF Unused
<1>9. Resets(r) => Resets(q)
  BY <1>1 DEF Resets
<1>10. Resets(q) => Resets(r) \/ (Head(q).kind = "register" /\ Head(q).reset)
  BY <1>1 DEF Resets
<1>11. ASSUME NEW s, NEW x, NEW answers
       PROVE  /\ Says(r, s, x, answers) => Says(q, s, x, answers)
              /\ Says(q, s, x, answers) =>
                   \/ Says(r, s, x, answers)
                   \/ /\ Head(q).kind = "complete" /\ Head(q).sender = s
                      /\ Head(q).id = x /\ Head(q).answer \in answers
  <2>1. Says(r, s, x, answers) => Says(q, s, x, answers)
    BY <1>1 DEF Says
  <2>2. Says(q, s, x, answers) =>
                   \/ Says(r, s, x, answers)
                   \/ /\ Head(q).kind = "complete" /\ Head(q).sender = s
                      /\ Head(q).id = x /\ Head(q).answer \in answers
    BY <1>1 DEF Says
  <2>3. QED
    BY <2>1, <2>2
<1>12. Paired(q) => Paired(r)
  BY <1>1, <1>2, <1>3 DEF Paired
<1>13. QED
  BY <1>4, <1>5, <1>6, <1>7, <1>8, <1>9, <1>10, <1>11, <1>12 DEF r

\* The companion has read what says nothing.
LEMMA ReadWord ==
  ASSUME NEW q \in Seq(Message), q # <<>>,
         Head(q).kind \in {"next", "set"} \/ (Head(q).kind = "register" /\ ~Head(q).reset)
  PROVE  SameWord(q, Tail(q))
<1>1. \A c : ~LostFirst(q, c)
  BY DEF LostFirst
<1>2. SameNames(q, Tail(q))
  BY <1>1, TailWord DEF SameNames
<1>3. Resets(Tail(q)) <=> Resets(q)
  BY TailWord
<1>4. \A s, x, answers : Says(Tail(q), s, x, answers) <=> Says(q, s, x, answers)
  BY TailWord
<1>5. QED
  BY <1>2, <1>3, <1>4 DEF SameWord

\* At most one report is on its way, and none while an update is under way or may begin.
LEMMA OneReport ==
  ASSUME NEW q, NEW s, NEW p, Channel(q, s, p)
  PROVE  /\ \A n1, n2, x, y, b1, b2 : Says(q, n1, x, b1) /\ Says(q, n2, y, b2)
                                        => x = y /\ n1 = n2 /\ Says(q, n1, x, b1 \cap b2)
         /\ s.update.id # 0 => \A n, x, b : ~Says(q, n, x, b)
<1>1. \A i, j \in DOMAIN q : q[i].kind = "complete" /\ q[j].kind = "complete" => i = j
  BY DEF Channel, InTurn
<1>2. ASSUME NEW n1, NEW n2, NEW x, NEW y, NEW b1, NEW b2, Says(q, n1, x, b1), Says(q, n2, y, b2)
      PROVE  x = y /\ n1 = n2 /\ Says(q, n1, x, b1 \cap b2)
  <2>1. PICK i \in DOMAIN q : /\ q[i].kind = "complete" /\ q[i].sender = n1 /\ q[i].id = x
                              /\ q[i].answer \in b1
    BY <1>2 DEF Says
  <2>2. PICK j \in DOMAIN q : /\ q[j].kind = "complete" /\ q[j].sender = n2 /\ q[j].id = y
                              /\ q[j].answer \in b2
    BY <1>2 DEF Says
  <2>3. i = j
    BY <1>1, <2>1, <2>2
  <2>4. QED
    BY <2>1, <2>2, <2>3 DEF Says
<1>3. s.update.id # 0 => \A n, x, b : ~Says(q, n, x, b)
  BY UpdateIsTheTurn DEF Says, Past
<1>4. QED
  BY <1>2, <1>3

-----------------------------------------------------------------------------
(* The queue of requests, and what the Apps believe.  w stands for app, c  *)
(* for companion, s for script, g for grabs, q for inbox.                  *)

\* Connections belong to one App each, and are not named any more when given up, but
\* for the news of their end.
Connected(w, c, q) ==
  /\ \A a, b \in Apps : w[a].conn = w[b].conn /\ w[a].conn # None => a = b
  /\ \A a \in Apps : w[a].conn # None => Unused(q, w[a].conn)
  /\ Paired(q)
  /\ \A a \in Apps :
       /\ w[a].doing \in {"idle", "gone"} <=> w[a].id = 0
       /\ w[a].doing \in {"waiting", "quitting"} => w[a].conn # None
       /\ w[a].doing = "gone" => w[a].conn = None
       /\ w[a].conn = None => w[a].held = None
  /\ c.controller # None => /\ c.up
                            /\ \/ \E a \in Apps : w[a].conn = c.controller
                               \/ LostIn(q, c.controller)

\* A request with this id is being worked on, or its report is on its way.
InHand(c, s, q, x) == s.update.id = x \/ Says(q, c.script, x, Answers)

\* The requests that can still have an effect.
Live(c, s, q) == {i \in DOMAIN c.requests :
                    ~c.requests[i].claimed \/ InHand(c, s, q, c.requests[i].id)}

\* The script is the one that the companion knows, and is not to be reset.
Current(c, s, q) == c.script = s.name /\ s.on /\ ~Resets(q)

Distinct(c) ==
  /\ \A i, j \in DOMAIN c.requests : c.requests[i].id = c.requests[j].id => i = j
  /\ \A i \in DOMAIN c.requests : c.requests[i].id \in c.issued
  /\ \A r \in c.results : /\ \A i \in DOMAIN c.requests : r.id # c.requests[i].id
                          /\ \A t \in c.results : r.id = t.id => r = t

\* What is in hand was claimed before everything that is not, and a report of ok
\* tells the truth.
Claims(c, s, g, q) ==
  /\ s.update.id # 0 => c.script = s.name
  /\ \A x \in Ids : InHand(c, s, q, x) =>
       /\ x \in c.issued
       /\ \A i \in DOMAIN c.requests : c.requests[i].id = x =>
            c.requests[i].claimed /\ (s.update.id = x => c.requests[i].set = s.update.set)
       /\ (\A i \in DOMAIN c.requests : c.requests[i].id # x) => c.registered = {}
  /\ \A x \in Ids : Says(q, c.script, x, {"ok"}) /\ Current(c, s, q) =>
       \A i \in DOMAIN c.requests : c.requests[i].id = x =>
         s.active = c.requests[i].set /\ g = c.requests[i].set
  /\ \A i, j \in DOMAIN c.requests :
       InHand(c, s, q, c.requests[i].id) /\ ~c.requests[j].claimed => i < j

\* An App waits for its own request.
Waits(w, c) ==
  \A a \in Apps : w[a].doing = "waiting" =>
    /\ w[a].id \in c.issued
    /\ \A i \in DOMAIN c.requests : c.requests[i].id = w[a].id =>
         c.requests[i].set = w[a].set /\ c.requests[i].controller = w[a].conn
    /\ \A b \in Apps : w[b].doing = "waiting" /\ w[a].id = w[b].id => a = b

\* Behind the first request, there is at most one for each connection: the one its
\* App waits for.
Ranks(w, c, q, live) ==
  /\ \A i, j \in DOMAIN c.requests : i < j => c.requests[j].controller # None
  /\ \A i, j \in live : i < j => c.requests[j].controller = c.controller
  /\ \A i, j \in DOMAIN c.requests :
       1 < i /\ 1 < j /\ c.requests[i].controller = c.requests[j].controller => i = j
  /\ \A a \in Apps : \A i \in DOMAIN c.requests :
       1 < i /\ c.requests[i].controller = w[a].conn => c.requests[i].id = w[a].id
  /\ \A i \in DOMAIN c.requests : 1 < i => ~CalledIn(q, c.requests[i].controller)

Known(w, c, a) == \/ \E i \in DOMAIN c.requests : c.requests[i].id = w[a].id
                  \/ \E r \in c.results : r.id = w[a].id
Answered(w, c, a, answers) == \E r \in c.results : r.id = w[a].id /\ r.answer \in answers

\* The App takes the hotkeys S for captured, or is about to.
Believes(w, c, a, S) ==
  \/ w[a].doing = "idle" /\ w[a].held = S
  \/ /\ w[a].doing = "waiting" /\ w[a].held = S
     /\ Known(w, c, a) /\ ~Answered(w, c, a, {"ok", "unavailable"})
  \/ w[a].doing = "waiting" /\ w[a].set = S /\ Answered(w, c, a, {"ok"})

NoHolder(w, c) == \A a \in Apps : \A S \in SUBSET Keys : S # {} => ~Believes(w, c, a, S)

\* The controller's hotkeys are about to be released.
Releasing(c, live) ==
  /\ c.controller # None /\ 1 \in live
  /\ c.requests[1].set = {} /\ c.requests[1].controller = c.controller
OwnRelease(w, c) ==
  \E a \in Apps : w[a].conn = c.controller /\ w[a].id = c.requests[1].id

\* When a release or a restoration would undo what somebody believes, nobody does.
Restores(w, c, q, live) ==
  /\ (/\ Releasing(c, live) /\ ~OwnRelease(w, c)
      /\ ~LostIn(q, c.controller) \/ CalledIn(q, c.controller)) => NoHolder(w, c)
  /\ Releasing(c, live) /\ (\E i \in live : 1 < i) => NoHolder(w, c)
  /\ \A i \in live : c.requests[i].controller \notin {None, c.controller}
       => NoHolder(w, c) /\ c.registered = {}

\* What the script delivers and what is grabbed is what is registered, unless the
\* App's own request is about to change it.
Good(c, s, g) == s.active = c.registered /\ g = c.registered
Changing(w, c, s, q, a) ==
  /\ w[a].id # 0
  /\ \/ s.update.id = w[a].id /\ s.update.checked
     \/ Says(q, c.script, w[a].id, {"ok", "unavailable"})
Delivered(w, c, s, g, q, a) == Current(c, s, q) => Good(c, s, g) \/ Changing(w, c, s, q, a)

\* The set is registered, or will be again; only the App's own request may change that.
Kept(w, c, live, a, S) ==
  c.registered = S /\ \A i \in live : c.requests[i].id = w[a].id
Restored(w, c, live, a, S) ==
  /\ c.registered = {}
  /\ \A i, j \in live : i < j => c.requests[j].id = w[a].id
  /\ \A i \in live : c.requests[i].id = w[a].id \/ c.requests[i].set \in {{}, S}

Beliefs(w, c, s, g, q, live) ==
  \A a \in Apps : \A S \in SUBSET Keys :
    S # {} /\ Believes(w, c, a, S) /\ c.controller \in {None, w[a].conn} =>
      \/ Kept(w, c, live, a, S) /\ Delivered(w, c, s, g, q, a)
      \/ Restored(w, c, live, a, S)

\* An answer of ok to the controller is still in effect when it is taken.
OkIsSo(w, c) ==
  \A a \in Apps :
    w[a].doing = "waiting" /\ Answered(w, c, a, {"ok"}) /\ c.controller = w[a].conn
      => w[a].set # {} /\ c.registered = w[a].set

\* As long as no registration was refused, an App that holds hotkeys, or is about to,
\* controls the companion, whose requests are its own.
Unrejected(c, q) == /\ \A x : ~Says(q, c.script, x, {"rejected"})
                    /\ \A t \in c.results : t.answer # "rejected"
Owning(w, c) ==
  \A a \in Apps :
    /\ w[a].doing = "idle" /\ w[a].held \notin {None, {}} => c.controller = w[a].conn
    /\ w[a].doing = "waiting" /\ (\E i \in DOMAIN c.requests : c.requests[i].id = w[a].id)
         => c.controller = w[a].conn
    /\ w[a].doing = "waiting" /\ Answered(w, c, a, {"ok"}) /\ w[a].set # {}
         => c.controller = w[a].conn
Informed(w, c, a) == w[a].doing = "idle" \/ (w[a].doing = "waiting" /\ Known(w, c, a))
Releases(w, c, live) ==
  \A a \in Apps : Informed(w, c, a) /\ w[a].conn = c.controller /\ c.controller # None =>
    \A i \in live : c.requests[i].set = {} /\ c.requests[i].controller = c.controller
                      => c.requests[i].id = w[a].id
Single(c, q, live) ==
  /\ \A i \in live : c.requests[i].controller \in {None, c.controller}
  /\ Releasing(c, live) /\ (\E i \in live : 1 < i) => LostFirst(q, c.controller)
Owned(w, c, q, live) ==
  Unrejected(c, q) /\ Owning(w, c) /\ Releases(w, c, live) /\ Single(c, q, live)

\* The controller knows what it has, or waits for it.
Aware(w, c) ==
  \A a \in Apps : w[a].doing = "idle" /\ w[a].conn = c.controller /\ c.controller # None
    => w[a].held \notin {None, {}}

\* free says that no registration was refused.
InOrder(free, w, c, s, g, q) ==
  /\ Claims(c, s, g, q)
  /\ Waits(w, c)
  /\ Ranks(w, c, q, Live(c, s, q))
  /\ Restores(w, c, q, Live(c, s, q))
  /\ Beliefs(w, c, s, g, q, Live(c, s, q))
  /\ OkIsSo(w, c)
  /\ free => Owned(w, c, q, Live(c, s, q))

Queue(free, w, c, s, g, q) ==
  /\ Connected(w, c, q)
  /\ Distinct(c)
  /\ free => Aware(w, c)
  /\ c.script # None => InOrder(free, w, c, s, g, q)

-----------------------------------------------------------------------------
(* The names.                                                              *)

\* Whoever reads or sends, the connections stay who they are.
LEMMA ConnectedStays ==
  ASSUME NEW w \in [Apps -> AppRecords], NEW c, NEW d, NEW q, NEW r, Connected(w, c, q),
         Paired(r), \A x \in Connections : Unused(q, x) => Unused(r, x),
         d.controller = c.controller \/ d.controller = None \/ LostIn(r, d.controller),
         LostIn(q, c.controller) => d.controller = None \/ LostIn(r, d.controller),
         d.controller # None => d.up
  PROVE  Connected(w, d, r)
<1>1. \A a \in Apps : w[a].conn # None => w[a].conn \in Connections
  BY DEF AppRecords, Controllers
<1>2. \A a \in Apps : w[a].conn # None => Unused(r, w[a].conn)
  BY <1>1 DEF Connected
<1>3. d.controller # None => \/ \E a \in Apps : w[a].conn = d.controller
                             \/ LostIn(r, d.controller)
  BY DEF Connected
<1>4. QED
  BY <1>2, <1>3 DEF Connected

LEMMA ConnectedInWord ==
  ASSUME NEW w \in [Apps -> AppRecords], NEW c \in Companions, NEW d, NEW q, NEW r,
         Connected(w, c, q), SameNames(q, r), d.controller \in {c.controller, None},
         d.up = c.up
  PROVE  Connected(w, d, r)
<1>1. c.controller \in Connections \cup {None}
  BY DEF Companions, Controllers
<1>2. c.controller # None => (LostIn(q, c.controller) => LostIn(r, c.controller))
  BY <1>1 DEF SameNames
<1>3. Paired(r) /\ \A x \in Connections : Unused(q, x) => Unused(r, x)
  BY DEF SameNames, Connected
<1>4. d.controller = c.controller \/ d.controller = None
  OBVIOUS
<1>5. LostIn(q, c.controller) => d.controller = None \/ LostIn(r, d.controller)
  BY <1>2, <1>4
<1>6. d.controller # None => d.up
  BY <1>4 DEF Connected
<1>7. QED
  BY <1>3, <1>4, <1>5, <1>6, ConnectedStays

\* One App changes.
Standing(rec) ==
  /\ rec.doing \in {"idle", "gone"} <=> rec.id = 0
  /\ rec.doing \in {"waiting", "quitting"} => rec.conn # None
  /\ rec.doing = "gone" => rec.conn = None
  /\ rec.conn = None => rec.held = None

LEMMA ConnectedMoves ==
  ASSUME NEW w \in [Apps -> AppRecords], NEW c, NEW d, NEW q, NEW r, Connected(w, c, q),
         NEW a \in Apps, NEW rec \in AppRecords, NEW v, v = [w EXCEPT ![a] = rec],
         Standing(rec),
         rec.conn # None => /\ Unused(r, rec.conn)
                            /\ \A b \in Apps : w[b].conn = rec.conn => b = a,
         \A b \in Apps : b # a /\ w[b].conn # None => Unused(r, w[b].conn),
         Paired(r), d.controller # None => d.up,
         d.controller # None => \/ rec.conn = d.controller
                                \/ \E b \in Apps : b # a /\ w[b].conn = d.controller
                                \/ LostIn(r, d.controller)
  PROVE  Connected(v, d, r)
<1>1. /\ v[a] = rec
      /\ \A b \in Apps : b # a => v[b] = w[b]
  OBVIOUS
<1>2. \A b, e \in Apps : v[b].conn = v[e].conn /\ v[b].conn # None => b = e
  BY <1>1 DEF Connected
<1>3. \A b \in Apps : v[b].conn # None => Unused(r, v[b].conn)
  BY <1>1
<1>4. ASSUME NEW b \in Apps
      PROVE  /\ v[b].doing \in {"idle", "gone"} <=> v[b].id = 0
             /\ v[b].doing \in {"waiting", "quitting"} => v[b].conn # None
             /\ v[b].doing = "gone" => v[b].conn = None
             /\ v[b].conn = None => v[b].held = None
  <2>1. CASE b = a
    BY <1>1, <2>1 DEF Standing
  <2>2. CASE b # a
    BY <1>1, <2>2 DEF Connected
  <2>3. QED
    BY <2>1, <2>2
<1>5. d.controller # None => \/ \E b \in Apps : v[b].conn = d.controller
                             \/ LostIn(r, d.controller)
  BY <1>1
<1>6. QED
  BY <1>2, <1>3, <1>4, <1>5 DEF Connected

\* r says of reports what q says.
SaysSame(q, r) == \A n, x, answers : Says(r, n, x, answers) <=> Says(q, n, x, answers)

\* r is q, and tells of the end of x if that is the controller.
EndTold(q, r, x) ==
  /\ \A c : LostIn(q, c) => LostIn(r, c)
  /\ companion.up /\ x # None /\ x = companion.controller => LostIn(r, x)
  /\ \A c : LostIn(r, c) => LostIn(q, c) \/ c = x
  /\ \A c : CalledIn(r, c) <=> CalledIn(q, c)
  /\ \A c : LostFirst(q, c) => LostFirst(r, c)
  /\ \A c : Unused(q, c) /\ c # x => Unused(r, c)
  /\ Resets(r) <=> Resets(q)
  /\ SaysSame(q, r)
  /\ Paired(q) => Paired(r)

LEMMA AnnouncedWord ==
  ASSUME NEW q \in Seq(Message), NEW a \in Apps, NEW x \in Controllers, NEW r,
         r = IF companion.up THEN q \o Announced(a, x) ELSE q
  PROVE  EndTold(q, r, x)
<1> DEFINE out == Announced(a, x)
<1>1. /\ out \in Seq(Message) /\ \A i \in DOMAIN out : out[i].kind \in {"call", "lost"}
  BY AnnouncedTyped
<1>2. \/ out = <<>>
      \/ /\ x # None /\ x = companion.controller
         /\ out = <<[kind |-> "lost", sender |-> x, app |-> a]>>
  BY DEF Announced
<1>3. x # None /\ x = companion.controller => out = <<[kind |-> "lost", sender |-> x, app |-> a]>>
  BY DEF Announced
<1> DEFINE m == [kind |-> "lost", sender |-> x, app |-> a]
<1>4. m.kind = "lost" /\ m.sender = x
  OBVIOUS
<1> HIDE DEF m
<1>5. out = <<>> \/ out = <<m>>
  BY <1>2 DEF m
<1>6. DOMAIN out = {} \/ (DOMAIN out = {1} /\ out[1] = m)
  BY <1>5
<1>7. x # None /\ x = companion.controller => 1 \in DOMAIN out /\ out[1] = m
  BY <1>3 DEF m
<1>8. r = q \/ r = q \o out
  OBVIOUS
<1>9. companion.up => r = q \o out
  OBVIOUS
<1> HIDE DEF out
<1>10. /\ \A c : LostIn(out, c) => c = x
       /\ \A c : ~CalledIn(out, c)
       /\ ~Resets(out) /\ \A s, y, answers : ~Says(out, s, y, answers)
       /\ \A c : c # x => Unused(out, c)
       /\ x # None /\ x = companion.controller => LostIn(out, x)
       /\ \A i \in DOMAIN out : out[i].kind # "call"
  BY <1>4, <1>6, <1>7 DEF LostIn, CalledIn, Resets, Says, Unused
<1>11. Paired(q) => Paired(r)
  BY <1>1, <1>8, <1>10, PairedBehind
<1>12. /\ \A c : LostIn(q, c) => LostIn(r, c)
       /\ \A c : LostIn(r, c) => LostIn(q, c) \/ c = x
       /\ companion.up /\ x # None /\ x = companion.controller => LostIn(r, x)
  BY <1>1, <1>8, <1>9, <1>10, BehindWord
<1>13. /\ \A c : CalledIn(r, c) <=> CalledIn(q, c)
       /\ \A c : LostFirst(q, c) => LostFirst(r, c)
       /\ \A c : Unused(q, c) /\ c # x => Unused(r, c)
  BY <1>1, <1>8, <1>10, BehindWord
<1>14. Resets(r) <=> Resets(q)
  BY <1>1, <1>8, <1>10, BehindWord
<1>15. ASSUME NEW s, NEW y, NEW answers
       PROVE  Says(r, s, y, answers) <=> Says(q, s, y, answers)
  BY <1>1, <1>8, <1>10, BehindWord
<1>16. QED
  BY <1>11, <1>12, <1>13, <1>14, <1>15 DEF EndTold, SaysSame

\* r is q, and x calls and ends.
CallLeft(q, r, x) ==
  /\ \A c : LostIn(r, c) <=> LostIn(q, c) \/ c = x
  /\ \A c : CalledIn(r, c) <=> CalledIn(q, c) \/ c = x
  /\ \A c : LostFirst(q, c) => LostFirst(r, c)
  /\ \A c : Unused(q, c) /\ c # x => Unused(r, c)
  /\ Resets(r) <=> Resets(q)
  /\ SaysSame(q, r)
  /\ Paired(q) /\ Unused(q, x) => Paired(r)

LEMMA LateWord ==
  ASSUME NEW q \in Seq(Message), NEW a \in Apps, NEW set \in SUBSET Keys,
         ConnectionOf(a) \in Connections, NEW r, r = q \o LateCall(a, set)
  PROVE  CallLeft(q, r, ConnectionOf(a))
<1> DEFINE x == ConnectionOf(a)
           m1 == [kind |-> "call", sender |-> x, app |-> a, set |-> set]
           m2 == [kind |-> "lost", sender |-> x, app |-> a]
           out == <<m1, m2>>
           n == Len(q)
<1>1. m1.kind = "call" /\ m1.sender = x /\ m2.kind = "lost" /\ m2.sender = x
  OBVIOUS
<1>2. out = LateCall(a, set)
  BY DEF LateCall
<1>3. out \in Seq(Message)
  BY <1>2, LateCallTyped
<1> HIDE DEF m1, m2
<1>4. DOMAIN out = {1, 2} /\ out[1] = m1 /\ out[2] = m2
  OBVIOUS
<1>5. /\ n \in Nat /\ DOMAIN q = 1 .. n /\ DOMAIN r = 1 .. n + 2
      /\ \A i \in DOMAIN q : i \in DOMAIN r /\ r[i] = q[i]
      /\ r[n + 1] = m1 /\ r[n + 2] = m2
      /\ \A i \in DOMAIN r : i \in DOMAIN q \/ i = n + 1 \/ i = n + 2
  <2>1. r = q \o out
    BY <1>2
  <2>2. \A i \in DOMAIN out : n + i \in DOMAIN r /\ r[n + i] = out[i]
    BY <1>3, <2>1, ConcatFacts
  <2>3. r[n + 1] = m1 /\ r[n + 2] = m2
    BY <1>4, <2>2
  <2>4. Len(out) = 2
    BY <1>3, <1>4
  <2>5. n \in Nat /\ DOMAIN q = 1 .. n /\ DOMAIN r = 1 .. n + 2
    BY <1>3, <2>1, <2>4, ConcatFacts
  <2>6. \A i \in DOMAIN q : i \in DOMAIN r /\ r[i] = q[i]
    BY <1>3, <2>1, ConcatFacts
  <2> HIDE DEF n
  <2>7. \A i \in 1 .. n + 2 : i \in 1 .. n \/ i = n + 1 \/ i = n + 2
    BY <2>5
  <2>8. \A i \in DOMAIN r : i \in DOMAIN q \/ i = n + 1 \/ i = n + 2
    BY <2>5, <2>7
  <2>9. QED
    BY <2>3, <2>5, <2>6, <2>8
<1>6. r = q \o out
  BY <1>2
<1> HIDE DEF out, n, x
<1>7. /\ \A c : LostIn(out, c) <=> c = x
      /\ \A c : CalledIn(out, c) <=> c = x
      /\ ~Resets(out) /\ \A s, y, answers : ~Says(out, s, y, answers)
      /\ \A c : c # x => Unused(out, c)
  BY <1>1, <1>4 DEF LostIn, CalledIn, Resets, Says, Unused
<1>8. /\ \A c : LostIn(r, c) <=> LostIn(q, c) \/ c = x
      /\ \A c : CalledIn(r, c) <=> CalledIn(q, c) \/ c = x
  BY <1>3, <1>6, <1>7, BehindWord
<1>9. /\ \A c : LostFirst(q, c) => LostFirst(r, c)
      /\ \A c : Unused(q, c) /\ c # x => Unused(r, c)
      /\ Resets(r) <=> Resets(q)
  BY <1>3, <1>6, <1>7, BehindWord
<1>10. ASSUME NEW s, NEW y, NEW answers
       PROVE  Says(r, s, y, answers) <=> Says(q, s, y, answers)
  BY <1>3, <1>6, <1>7, BehindWord
<1>11. ASSUME Paired(q), Unused(q, x)
       PROVE  Paired(r)
  <2>1. SUFFICES ASSUME NEW i \in DOMAIN r, r[i].kind = "call"
                 PROVE  /\ i + 1 \in DOMAIN r /\ r[i + 1].kind = "lost"
                        /\ r[i + 1].sender = r[i].sender
                        /\ \A j \in DOMAIN r : r[j].kind = "call" /\ r[j].sender = r[i].sender
                                                 => i = j
    BY DEF Paired
  <2>2. CASE i \in DOMAIN q
    <3>1. /\ q[i].kind = "call" /\ r[i] = q[i]
      BY <1>5, <2>1, <2>2
    <3>2. /\ i + 1 \in DOMAIN q /\ q[i + 1].kind = "lost" /\ q[i + 1].sender = q[i].sender
          /\ \A j \in DOMAIN q : q[j].kind = "call" /\ q[j].sender = q[i].sender => i = j
      BY <1>11, <2>2, <3>1 DEF Paired
    <3>3. q[i].sender # x
      BY <1>11, <2>2 DEF Unused
    <3>4. \A j \in DOMAIN r : r[j].kind = "call" /\ r[j].sender = r[i].sender => j \in DOMAIN q
      BY <1>1, <1>5, <3>1, <3>3
    <3>5. QED
      BY <1>5, <3>1, <3>2, <3>4
  <2>3. CASE i = n + 1
    <3>1. r[i] = m1 /\ r[i].sender = x
      BY <1>1, <1>5, <2>3
    <3>2. i + 1 = n + 2 /\ i + 1 \in DOMAIN r /\ r[i + 1] = m2
      BY <1>5, <2>3
    <3>3. \A j \in DOMAIN r : r[j].kind = "call" /\ r[j].sender = x => j = n + 1
      BY <1>1, <1>5, <1>11 DEF Unused
    <3>4. QED
      BY <1>1, <2>3, <3>1, <3>2, <3>3
  <2>4. CASE i = n + 2
    BY <1>1, <1>5, <2>1, <2>4
  <2>5. QED
    BY <1>5, <2>2, <2>3, <2>4
<1>12. QED
  BY <1>8, <1>9, <1>10, <1>11 DEF x, CallLeft, SaysSame

-----------------------------------------------------------------------------
(* The companion's queue stays as it is, but for what can still come of it.*)

Kin(c, d) ==
  /\ d.script = c.script /\ d.controller = c.controller /\ d.results = c.results
  /\ d.issued = c.issued /\ d.registered = c.registered
  /\ DOMAIN d.requests = DOMAIN c.requests
  /\ \A i \in DOMAIN c.requests :
       /\ d.requests[i].id = c.requests[i].id /\ d.requests[i].set = c.requests[i].set
       /\ d.requests[i].controller = c.requests[i].controller

\* What the companion must still hear of its controller and of late calls.
Heeds(c, q, r) ==
  /\ c.controller # None => /\ LostIn(q, c.controller) => LostIn(r, c.controller)
                            /\ LostFirst(q, c.controller) => LostFirst(r, c.controller)
  /\ \A x : CalledIn(r, x) => CalledIn(q, x)

Same(c, d) == Kin(c, d) /\ \A i \in DOMAIN c.requests : d.requests[i].claimed = c.requests[i].claimed

LEMMA KinBeliefs ==
  ASSUME NEW w, NEW c, NEW d, Kin(c, d)
  PROVE  /\ \A a : Known(w, d, a) <=> Known(w, c, a)
         /\ \A a, answers : Answered(w, d, a, answers) <=> Answered(w, c, a, answers)
         /\ \A a, S : Believes(w, d, a, S) <=> Believes(w, c, a, S)
         /\ NoHolder(w, c) => NoHolder(w, d)
<1>1. \A a : Known(w, d, a) <=> Known(w, c, a)
  BY DEF Kin, Known
<1>2. \A a, answers : Answered(w, d, a, answers) <=> Answered(w, c, a, answers)
  BY DEF Kin, Answered
<1>3. \A a, S : Believes(w, d, a, S) <=> Believes(w, c, a, S)
  BY <1>1, <1>2 DEF Believes
<1>4. NoHolder(w, c) => NoHolder(w, d)
  BY <1>3 DEF NoHolder
<1>5. QED
  BY <1>1, <1>2, <1>3, <1>4

LEMMA DistinctKin ==
  ASSUME NEW c, NEW d, Kin(c, d), Distinct(c)
  PROVE  Distinct(d)
BY DEF Kin, Distinct

\* The queue is worked on: no request comes to life again.
LEMMA Working ==
  ASSUME NEW free, NEW w, NEW c, NEW d, NEW s, NEW z, NEW g, NEW h, NEW q, NEW r,
         InOrder(free, w, c, s, g, q), Kin(c, d), Live(d, z, r) \subseteq Live(c, s, q),
         Heeds(c, q, r), Claims(d, z, h, r),
         free => \A x : Says(r, d.script, x, {"rejected"}) => Says(q, c.script, x, {"rejected"}),
         \A a \in Apps : \A S \in SUBSET Keys :
           S # {} /\ Kept(w, c, Live(c, s, q), a, S) /\ Delivered(w, c, s, g, q, a)
             => Delivered(w, d, z, h, r, a)
  PROVE  InOrder(free, w, d, z, h, r)
<1> DEFINE live == Live(c, s, q)
           left == Live(d, z, r)
<1>1. left \subseteq live /\ live \subseteq DOMAIN c.requests
  BY DEF Live
<1>2. /\ Waits(w, c) /\ Ranks(w, c, q, live) /\ Restores(w, c, q, live)
      /\ Beliefs(w, c, s, g, q, live) /\ OkIsSo(w, c)
  BY DEF InOrder
<1>3. \A a \in Apps : \A S \in SUBSET Keys :
        S # {} /\ Kept(w, c, live, a, S) /\ Delivered(w, c, s, g, q, a)
          => Delivered(w, d, z, h, r, a)
  OBVIOUS
<1> HIDE DEF live, left
<1>4. /\ \A a : Known(w, d, a) <=> Known(w, c, a)
      /\ \A a, answers : Answered(w, d, a, answers) <=> Answered(w, c, a, answers)
      /\ \A a, S : Believes(w, d, a, S) <=> Believes(w, c, a, S)
      /\ NoHolder(w, c) => NoHolder(w, d)
  BY KinBeliefs
<1>5. Waits(w, d)
  BY <1>2 DEF Waits, Kin
<1>6. Ranks(w, d, r, left)
  BY <1>1, <1>2 DEF Ranks, Kin, Heeds
<1>7. Releasing(d, left) => Releasing(c, live)
  BY <1>1 DEF Releasing, Kin
<1>8. Releasing(d, left) => (OwnRelease(w, d) <=> OwnRelease(w, c))
  BY <1>1 DEF Releasing, OwnRelease, Kin
<1>9. Restores(w, d, r, left)
  <2>1. (/\ Releasing(d, left) /\ ~OwnRelease(w, d)
         /\ ~LostIn(r, d.controller) \/ CalledIn(r, d.controller)) => NoHolder(w, d)
    BY <1>2, <1>4, <1>7, <1>8 DEF Restores, Kin, Releasing, Heeds
  <2>2. Releasing(d, left) /\ (\E i \in left : 1 < i) => NoHolder(w, d)
    BY <1>1, <1>2, <1>4, <1>7 DEF Restores
  <2>3. \A i \in left : d.requests[i].controller \notin {None, d.controller}
          => NoHolder(w, d) /\ d.registered = {}
    BY <1>1, <1>2, <1>4 DEF Restores, Kin
  <2>4. QED
    BY <2>1, <2>2, <2>3 DEF Restores
<1>10. Beliefs(w, d, z, h, r, left)
  <2>1. SUFFICES ASSUME NEW a \in Apps, NEW S \in SUBSET Keys, S # {},
                        Believes(w, d, a, S), d.controller \in {None, w[a].conn}
                 PROVE  \/ Kept(w, d, left, a, S) /\ Delivered(w, d, z, h, r, a)
                        \/ Restored(w, d, left, a, S)
    BY DEF Beliefs
  <2>2. Believes(w, c, a, S) /\ c.controller \in {None, w[a].conn}
    BY <1>4, <2>1 DEF Kin
  <2>3. CASE Kept(w, c, live, a, S) /\ Delivered(w, c, s, g, q, a)
    <3>1. Kept(w, d, left, a, S)
      BY <1>1, <2>3 DEF Kept, Kin
    <3>2. Delivered(w, d, z, h, r, a)
      BY <1>3, <2>1, <2>3
    <3>3. QED
      BY <3>1, <3>2
  <2>4. CASE Restored(w, c, live, a, S)
    BY <1>1, <2>4 DEF Restored, Kin
  <2>5. QED
    BY <1>2, <2>1, <2>2, <2>3, <2>4 DEF Beliefs
<1>11. OkIsSo(w, d)
  BY <1>2, <1>4 DEF OkIsSo, Kin
<1>12. ASSUME free
       PROVE  Owned(w, d, r, left)
  <2>1. Owned(w, c, q, live)
    BY <1>12 DEF InOrder, live
  <2>2. Unrejected(d, r)
    BY <1>12, <2>1 DEF Owned, Unrejected, Kin
  <2>3. Owning(w, d)
    BY <1>4, <2>1 DEF Owned, Owning, Kin
  <2>4. Releases(w, d, left)
    <3>1. \A a : Informed(w, d, a) => Informed(w, c, a)
      BY <1>4 DEF Informed
    <3>2. QED
      BY <1>1, <2>1, <3>1 DEF Owned, Releases, Kin
  <2>5. Single(d, r, left)
    <3>1. \A i \in left : d.requests[i].controller \in {None, d.controller}
      BY <1>1, <2>1 DEF Owned, Single, Kin
    <3>2. Releasing(d, left) => d.controller = c.controller /\ c.controller # None
      BY DEF Releasing, Kin
    <3>3. Releasing(d, left) /\ (\E i \in left : 1 < i) => LostFirst(r, d.controller)
      BY <1>1, <1>7, <2>1, <3>2 DEF Owned, Single, Heeds
    <3>4. QED
      BY <3>1, <3>3 DEF Single
  <2>6. QED
    BY <2>2, <2>3, <2>4, <2>5 DEF Owned
<1>13. QED
  BY <1>5, <1>6, <1>9, <1>10, <1>11, <1>12 DEF InOrder, left

LEMMA HeedsInWord ==
  ASSUME NEW c \in Companions, NEW q, NEW r, SameWord(q, r)
  PROVE  Heeds(c, q, r) /\ SaysSame(q, r)
<1>1. c.controller # None => c.controller \in Connections
  BY DEF Companions, Controllers
<1>2. QED
  BY <1>1 DEF SameWord, SameNames, Heeds, SaysSame

LEMMA LiveShrinks ==
  ASSUME NEW c, NEW d, NEW s, NEW z, NEW q, NEW r, Same(c, d),
         \A x \in Ids : InHand(d, z, r, x) => InHand(c, s, q, x),
         \A i \in DOMAIN c.requests : c.requests[i].id \in Ids
  PROVE  Live(d, z, r) \subseteq Live(c, s, q)
BY DEF Live, Same, Kin

\* While a set is kept, what is in hand is the App's own request.
LEMMA KeptInHand ==
  ASSUME NEW w, NEW c, NEW s, NEW g, NEW q, NEW a, NEW S, S # {}, NEW x \in Ids,
         Claims(c, s, g, q), Kept(w, c, Live(c, s, q), a, S), InHand(c, s, q, x)
  PROVE  x = w[a].id /\ \E i \in DOMAIN c.requests : c.requests[i].id = x
<1>1. PICK i \in DOMAIN c.requests : c.requests[i].id = x
  BY DEF Claims, Kept
<1>2. i \in Live(c, s, q)
  BY <1>1 DEF Live
<1>3. QED
  BY <1>1, <1>2 DEF Kept

\* Nothing that matters changes.
LEMMA Aside ==
  ASSUME NEW free, NEW w, NEW c, NEW d, NEW s, NEW z, NEW g, NEW q, NEW r,
         InOrder(free, w, c, s, g, q), Same(c, d), SaysSame(q, r), Resets(r) <=> Resets(q),
         Heeds(c, q, r), z.update = s.update, z.active = s.active, z.name = s.name, z.on = s.on,
         \A i \in DOMAIN c.requests : c.requests[i].id \in Ids
  PROVE  InOrder(free, w, d, z, g, r)
<1>1. d.script = c.script /\ Kin(c, d)
  BY DEF Same, Kin
<1>2. \A x : InHand(d, z, r, x) <=> InHand(c, s, q, x)
  BY <1>1 DEF InHand, SaysSame
<1>3. Current(d, z, r) <=> Current(c, s, q)
  BY <1>1 DEF Current
<1>4. Live(d, z, r) \subseteq Live(c, s, q)
  BY <1>2, LiveShrinks
<1>5. Claims(d, z, g, r)
  <2>1. Claims(c, s, g, q)
    BY DEF InOrder
  <2>2. z.update.id # 0 => d.script = z.name
    BY <1>1, <2>1 DEF Claims
  <2>3. \A x \in Ids : InHand(d, z, r, x) =>
          /\ x \in d.issued
          /\ \A i \in DOMAIN d.requests : d.requests[i].id = x =>
               d.requests[i].claimed /\ (z.update.id = x => d.requests[i].set = z.update.set)
          /\ (\A i \in DOMAIN d.requests : d.requests[i].id # x) => d.registered = {}
    BY <1>2, <2>1 DEF Claims, Same, Kin
  <2>4. \A x \in Ids : Says(r, d.script, x, {"ok"}) /\ Current(d, z, r) =>
          \A i \in DOMAIN d.requests : d.requests[i].id = x =>
            z.active = d.requests[i].set /\ g = d.requests[i].set
    BY <1>1, <1>3, <2>1 DEF Claims, Same, Kin, SaysSame
  <2>5. \A i, j \in DOMAIN d.requests :
          InHand(d, z, r, d.requests[i].id) /\ ~d.requests[j].claimed => i < j
    BY <1>2, <2>1 DEF Claims, Same, Kin
  <2>6. QED
    BY <2>2, <2>3, <2>4, <2>5 DEF Claims
<1>6. \A a : Delivered(w, c, s, g, q, a) => Delivered(w, d, z, g, r, a)
  BY <1>1, <1>3 DEF Delivered, Good, Changing, SaysSame, Kin
<1>7. \A a \in Apps : \A S \in SUBSET Keys :
        S # {} /\ Kept(w, c, Live(c, s, q), a, S) /\ Delivered(w, c, s, g, q, a)
          => Delivered(w, d, z, g, r, a)
  BY <1>6
<1>8. free => \A x : Says(r, d.script, x, {"rejected"}) => Says(q, c.script, x, {"rejected"})
  BY <1>1 DEF SaysSame
<1>9. QED
  BY <1>1, <1>4, <1>5, <1>7, <1>8, Working

\* The script that the companion knows is gone, or is to be reset.
LEMMA NotCurrent ==
  ASSUME NEW free, NEW w, NEW c, NEW d, NEW s, NEW z, NEW g, NEW h, NEW q, NEW r,
         InOrder(free, w, c, s, g, q), Same(c, d), Heeds(c, q, r), ~Current(d, z, r),
         \A n, x, answers : Says(r, n, x, answers) => Says(q, n, x, answers),
         z.update.id = 0 \/ (z.update = s.update /\ z.name = s.name),
         \A i \in DOMAIN c.requests : c.requests[i].id \in Ids
  PROVE  InOrder(free, w, d, z, h, r)
<1>1. d.script = c.script /\ Kin(c, d)
  BY DEF Same, Kin
<1>2. \A x \in Ids : InHand(d, z, r, x) => InHand(c, s, q, x)
  BY <1>1 DEF InHand, Ids
<1>3. \A x \in Ids : z.update.id = x => s.update = z.update
  BY DEF Ids
<1>4. Live(d, z, r) \subseteq Live(c, s, q)
  BY <1>2, LiveShrinks
<1>5. Claims(d, z, h, r)
  <2>1. Claims(c, s, g, q)
    BY DEF InOrder
  <2>2. z.update.id # 0 => d.script = z.name
    BY <1>1, <2>1 DEF Claims
  <2>3. \A x \in Ids : InHand(d, z, r, x) =>
          /\ x \in d.issued
          /\ \A i \in DOMAIN d.requests : d.requests[i].id = x =>
               d.requests[i].claimed /\ (z.update.id = x => d.requests[i].set = z.update.set)
          /\ (\A i \in DOMAIN d.requests : d.requests[i].id # x) => d.registered = {}
    BY <1>2, <1>3, <2>1 DEF Claims, Same, Kin
  <2>4. \A i, j \in DOMAIN d.requests :
          InHand(d, z, r, d.requests[i].id) /\ ~d.requests[j].claimed => i < j
    BY <1>2, <2>1 DEF Claims, Same, Kin
  <2>5. QED
    BY <2>2, <2>3, <2>4 DEF Claims
<1>6. \A a : Delivered(w, d, z, h, r, a)
  BY DEF Delivered
<1>7. \A a \in Apps : \A S \in SUBSET Keys :
        S # {} /\ Kept(w, c, Live(c, s, q), a, S) /\ Delivered(w, c, s, g, q, a)
          => Delivered(w, d, z, h, r, a)
  BY <1>6
<1>8. free => \A x : Says(r, d.script, x, {"rejected"}) => Says(q, c.script, x, {"rejected"})
  BY <1>1
<1>9. QED
  BY <1>1, <1>4, <1>5, <1>7, <1>8, Working

\* An update goes on.
LEMMA GoesOn ==
  ASSUME NEW free, NEW w, NEW c, NEW d, NEW s, NEW z, NEW g, NEW h, NEW q, NEW r, NEW p,
         InOrder(free, w, c, s, g, q), Channel(q, s, p), Same(c, d), SameWord(q, r),
         Heeds(c, q, r),
         s.update.id \in Ids, z.update.id = s.update.id, z.update.set = s.update.set,
         z.update.checked, z.name = s.name, z.on = s.on,
         \A i \in DOMAIN c.requests : c.requests[i].id \in Ids
  PROVE  InOrder(free, w, d, z, h, r)
<1>1. d.script = c.script /\ Kin(c, d)
  BY DEF Same, Kin
<1>2. \A n, x, answers : ~Says(q, n, x, answers) /\ ~Says(r, n, x, answers)
  BY OneReport DEF SameWord, Ids
<1>3. \A x : InHand(d, z, r, x) <=> InHand(c, s, q, x)
  BY <1>2 DEF InHand
<1>4. Live(d, z, r) \subseteq Live(c, s, q)
  BY <1>3, LiveShrinks
<1>5. Claims(c, s, g, q)
  BY DEF InOrder
<1>6. Claims(d, z, h, r)
  <2>1. z.update.id # 0 => d.script = z.name
    BY <1>1, <1>5 DEF Claims
  <2>2. \A x \in Ids : InHand(d, z, r, x) =>
          /\ x \in d.issued
          /\ \A i \in DOMAIN d.requests : d.requests[i].id = x =>
               d.requests[i].claimed /\ (z.update.id = x => d.requests[i].set = z.update.set)
          /\ (\A i \in DOMAIN d.requests : d.requests[i].id # x) => d.registered = {}
    BY <1>3, <1>5 DEF Claims, Same, Kin
  <2>3. \A i, j \in DOMAIN d.requests :
          InHand(d, z, r, d.requests[i].id) /\ ~d.requests[j].claimed => i < j
    BY <1>3, <1>5 DEF Claims, Same, Kin
  <2>4. QED
    BY <1>2, <2>1, <2>2, <2>3 DEF Claims
<1>7. ASSUME NEW a, NEW S, S # {}, Kept(w, c, Live(c, s, q), a, S)
      PROVE  Delivered(w, d, z, h, r, a)
  <2>1. InHand(c, s, q, s.update.id)
    BY DEF InHand
  <2>2. s.update.id = w[a].id
    BY <1>5, <1>7, <2>1, KeptInHand
  <2>3. Changing(w, d, z, r, a)
    BY <2>2 DEF Changing, Ids
  <2>4. QED
    BY <2>3 DEF Delivered
<1>8. \A a \in Apps : \A S \in SUBSET Keys :
        S # {} /\ Kept(w, c, Live(c, s, q), a, S) /\ Delivered(w, c, s, g, q, a)
          => Delivered(w, d, z, h, r, a)
  BY <1>7
<1>9. free => \A x : Says(r, d.script, x, {"rejected"}) => Says(q, c.script, x, {"rejected"})
  BY <1>1 DEF SameWord
<1>10. QED
  BY <1>1, <1>4, <1>6, <1>8, <1>9, Working

\* An update ends with a report.
LEMMA Reports ==
  ASSUME NEW free, NEW w, NEW c, NEW d, NEW s, NEW z, NEW g, NEW h, NEW q, NEW r, NEW p,
         NEW answer \in Answers,
         InOrder(free, w, c, s, g, q), Channel(q, s, p), Same(c, d), Heeds(c, q, r),
         Resets(r) <=> Resets(q),
         \A n, x, answers : Says(r, n, x, answers) <=>
           Says(q, n, x, answers) \/ (n = s.name /\ x = s.update.id /\ answer \in answers),
         s.update.id \in Ids, z.update.id = 0, z.name = s.name, z.on = s.on,
         answer = "ok" => z.active = s.update.set /\ h = s.update.set,
         answer = "rejected" => ~free /\ ~s.update.checked /\ z.active = s.active /\ h = g,
         \A i \in DOMAIN c.requests : c.requests[i].id \in Ids
  PROVE  InOrder(free, w, d, z, h, r)
<1>1. d.script = c.script /\ Kin(c, d)
  BY DEF Same, Kin
<1>2. \A n, x, answers : ~Says(q, n, x, answers)
  BY OneReport DEF Ids
<1>3. \A n, x, answers : Says(r, n, x, answers) <=> n = s.name /\ x = s.update.id /\ answer \in answers
  BY <1>2
<1>4. Claims(c, s, g, q)
  BY DEF InOrder
<1>5. c.script = s.name
  BY <1>4 DEF Claims, Ids
<1>6. \A x \in Ids : InHand(d, z, r, x) => x = s.update.id /\ InHand(c, s, q, x)
  BY <1>1, <1>3 DEF InHand, Ids
<1>7. Live(d, z, r) \subseteq Live(c, s, q)
  BY <1>6, LiveShrinks
<1>8. Current(d, z, r) <=> Current(c, s, q)
  BY <1>1 DEF Current
<1>9. Claims(d, z, h, r)
  <2>1. \A x \in Ids : InHand(d, z, r, x) =>
          /\ x \in d.issued
          /\ \A i \in DOMAIN d.requests : d.requests[i].id = x =>
               d.requests[i].claimed /\ (z.update.id = x => d.requests[i].set = z.update.set)
          /\ (\A i \in DOMAIN d.requests : d.requests[i].id # x) => d.registered = {}
    BY <1>4, <1>6 DEF Claims, Same, Kin, Ids
  <2>2. \A x \in Ids : Says(r, d.script, x, {"ok"}) /\ Current(d, z, r) =>
          \A i \in DOMAIN d.requests : d.requests[i].id = x =>
            z.active = d.requests[i].set /\ h = d.requests[i].set
    <3>1. SUFFICES ASSUME NEW x \in Ids, Says(r, d.script, x, {"ok"}),
                          NEW i \in DOMAIN d.requests, d.requests[i].id = x
                   PROVE  z.active = d.requests[i].set /\ h = d.requests[i].set
      OBVIOUS
    <3>2. x = s.update.id /\ answer = "ok"
      BY <1>3, <3>1
    <3>3. InHand(c, s, q, x)
      BY <3>2 DEF InHand
    <3>4. d.requests[i].set = s.update.set
      BY <1>4, <3>1, <3>2, <3>3 DEF Claims, Same, Kin
    <3>5. QED
      BY <3>2, <3>4
  <2>3. \A i, j \in DOMAIN d.requests :
          InHand(d, z, r, d.requests[i].id) /\ ~d.requests[j].claimed => i < j
    BY <1>4, <1>6 DEF Claims, Same, Kin
  <2>4. QED
    BY <2>1, <2>2, <2>3 DEF Claims
<1>10. ASSUME NEW a, NEW S, S # {}, Kept(w, c, Live(c, s, q), a, S), Delivered(w, c, s, g, q, a)
       PROVE  Delivered(w, d, z, h, r, a)
  <2>1. InHand(c, s, q, s.update.id)
    BY DEF InHand
  <2>2. s.update.id = w[a].id
    BY <1>4, <1>10, <2>1, KeptInHand
  <2>3. CASE answer \in {"ok", "unavailable"}
    <3>1. Says(r, d.script, w[a].id, {"ok", "unavailable"})
      BY <1>1, <1>3, <1>5, <2>2, <2>3
    <3>2. Changing(w, d, z, r, a)
      BY <2>2, <3>1 DEF Changing, Ids
    <3>3. QED
      BY <3>2 DEF Delivered
  <2>4. CASE answer = "rejected"
    <3>1. ~Changing(w, c, s, q, a)
      BY <1>2, <2>4 DEF Changing
    <3>2. Current(d, z, r) => Good(c, s, g)
      BY <1>8, <1>10, <3>1 DEF Delivered
    <3>3. Good(c, s, g) => Good(d, z, h)
      BY <1>1, <2>4 DEF Good, Kin
    <3>4. QED
      BY <3>2, <3>3 DEF Delivered
  <2>5. QED
    BY <2>3, <2>4 DEF Answers
<1>11. \A a \in Apps : \A S \in SUBSET Keys :
         S # {} /\ Kept(w, c, Live(c, s, q), a, S) /\ Delivered(w, c, s, g, q, a)
           => Delivered(w, d, z, h, r, a)
  BY <1>10
<1>12. free => \A x : Says(r, d.script, x, {"rejected"}) => Says(q, c.script, x, {"rejected"})
  BY <1>3
<1>13. QED
  BY <1>1, <1>7, <1>9, <1>11, <1>12, Working

\* A key of an update that was given up is set all the same: the update's report, or a
\* reset, is still to come.
LEMMA SetsLate ==
  ASSUME NEW free, NEW w, NEW c, NEW d, NEW s, NEW g, NEW h, NEW q, NEW r, NEW p,
         InOrder(free, w, c, s, g, q), Channel(q, s, p), Same(c, d), SameWord(q, r),
         Heeds(c, q, r),
         Resets(r) \/ \E y \in Ids : Says(q, c.script, y, {"unavailable"}),
         \A i \in DOMAIN c.requests : c.requests[i].id \in Ids
  PROVE  InOrder(free, w, d, s, h, r)
<1>1. d.script = c.script /\ Kin(c, d)
  BY DEF Same, Kin
<1>2. SaysSame(q, r)
  BY DEF SameWord, SaysSame
<1>3. CASE Resets(r)
  <2>1. ~Current(d, s, r)
    BY <1>3 DEF Current
  <2>2. \A n, x, answers : Says(r, n, x, answers) => Says(q, n, x, answers)
    BY <1>2 DEF SaysSame
  <2>3. QED
    BY <2>1, <2>2, NotCurrent
<1>4. CASE \E y \in Ids : Says(q, c.script, y, {"unavailable"})
  <2>1. PICK y \in Ids : Says(q, c.script, y, {"unavailable"})
    BY <1>4
  <2>2. \A x : ~Says(r, d.script, x, {"ok"})
    <3>1. SUFFICES ASSUME NEW x, Says(r, d.script, x, {"ok"})
                   PROVE  FALSE
      OBVIOUS
    <3>2. Says(q, c.script, x, {"ok"})
      BY <1>1, <1>2, <3>1 DEF SaysSame
    <3>3. Says(q, c.script, x, {"ok"} \cap {"unavailable"})
      BY <2>1, <3>2, OneReport
    <3>4. QED
      BY <3>3 DEF Says
  <2>3. \A x : InHand(d, s, r, x) <=> InHand(c, s, q, x)
    BY <1>1, <1>2 DEF InHand, SaysSame
  <2>4. Live(d, s, r) \subseteq Live(c, s, q)
    BY <2>3, LiveShrinks
  <2>5. Claims(c, s, g, q)
    BY DEF InOrder
  <2>6. Claims(d, s, h, r)
    <3>1. s.update.id # 0 => d.script = s.name
      BY <1>1, <2>5 DEF Claims
    <3>2. \A x \in Ids : InHand(d, s, r, x) =>
            /\ x \in d.issued
            /\ \A i \in DOMAIN d.requests : d.requests[i].id = x =>
                 d.requests[i].claimed /\ (s.update.id = x => d.requests[i].set = s.update.set)
            /\ (\A i \in DOMAIN d.requests : d.requests[i].id # x) => d.registered = {}
      BY <2>3, <2>5 DEF Claims, Same, Kin
    <3>3. \A i, j \in DOMAIN d.requests :
            InHand(d, s, r, d.requests[i].id) /\ ~d.requests[j].claimed => i < j
      BY <2>3, <2>5 DEF Claims, Same, Kin
    <3>4. QED
      BY <2>2, <3>1, <3>2, <3>3 DEF Claims
  <2>7. Says(q, c.script, y, Answers) /\ Says(r, d.script, y, {"ok", "unavailable"})
    <3>1. Says(q, c.script, y, Answers) /\ Says(q, c.script, y, {"ok", "unavailable"})
      BY <2>1 DEF Says, Answers
    <3>2. QED
      BY <1>1, <1>2, <3>1 DEF SaysSame
  <2>8. InHand(c, s, q, y)
    BY <2>7 DEF InHand
  <2>9. ASSUME NEW a, NEW S, S # {}, Kept(w, c, Live(c, s, q), a, S)
        PROVE  Delivered(w, d, s, h, r, a)
    <3>1. y = w[a].id
      BY <2>5, <2>8, <2>9, KeptInHand
    <3>2. Changing(w, d, s, r, a)
      BY <2>7, <3>1 DEF Changing, Ids
    <3>3. QED
      BY <3>2 DEF Delivered
  <2>10. \A a \in Apps : \A S \in SUBSET Keys :
           S # {} /\ Kept(w, c, Live(c, s, q), a, S) /\ Delivered(w, c, s, g, q, a)
             => Delivered(w, d, s, h, r, a)
    BY <2>9
  <2>11. free => \A x : Says(r, d.script, x, {"rejected"}) => Says(q, c.script, x, {"rejected"})
    BY <1>1 DEF SameWord
  <2>12. QED
    BY <1>1, <2>4, <2>6, <2>10, <2>11, Working
<1>5. QED
  BY <1>3, <1>4

\* A report is dropped: nothing is claimed under its id, or it is another script's.
LEMMA Drops ==
  ASSUME NEW free, NEW w, NEW c, NEW s, NEW g, NEW q \in Seq(Message), q # <<>>,
         InOrder(free, w, c, s, g, q), Head(q).kind = "complete", Head(q).id \in Ids,
         Head(q).sender # c.script \/ Claimed(c, Head(q).id) = {},
         \A i \in DOMAIN c.requests : c.requests[i].id \in Ids
  PROVE  InOrder(free, w, c, s, g, Tail(q))
<1> DEFINE m == Head(q)
           r == Tail(q)
<1>1. /\ \A n, x, answers : Says(r, n, x, answers) => Says(q, n, x, answers)
      /\ \A n, x, answers : Says(q, n, x, answers) =>
           \/ Says(r, n, x, answers)
           \/ m.sender = n /\ m.id = x /\ m.answer \in answers
      /\ Resets(r) <=> Resets(q)
  BY TailWord
<1>2. /\ \A x : LostIn(q, x) => LostIn(r, x)
      /\ \A x : CalledIn(r, x) => CalledIn(q, x)
  BY TailWord DEF LostFirst
<1>3. Heeds(c, q, r) /\ Same(c, c) /\ Kin(c, c)
  BY <1>2 DEF Heeds, Same, Kin, LostFirst
<1> HIDE DEF m, r
<1>4. \A x : InHand(c, s, r, x) => InHand(c, s, q, x)
  BY <1>1 DEF InHand
<1>5. Live(c, s, r) \subseteq Live(c, s, q)
  BY <1>3, <1>4, LiveShrinks
<1>6. Claims(c, s, g, q)
  BY DEF InOrder
<1>7. Current(c, s, r) <=> Current(c, s, q)
  BY <1>1 DEF Current
<1>8. Claims(c, s, g, r)
  <2>1. \A x \in Ids : InHand(c, s, r, x) =>
          /\ x \in c.issued
          /\ \A i \in DOMAIN c.requests : c.requests[i].id = x =>
               c.requests[i].claimed /\ (s.update.id = x => c.requests[i].set = s.update.set)
          /\ (\A i \in DOMAIN c.requests : c.requests[i].id # x) => c.registered = {}
    BY <1>4, <1>6 DEF Claims
  <2>2. \A x \in Ids : Says(r, c.script, x, {"ok"}) /\ Current(c, s, r) =>
          \A i \in DOMAIN c.requests : c.requests[i].id = x =>
            s.active = c.requests[i].set /\ g = c.requests[i].set
    BY <1>1, <1>6, <1>7 DEF Claims
  <2>3. \A i, j \in DOMAIN c.requests :
          InHand(c, s, r, c.requests[i].id) /\ ~c.requests[j].claimed => i < j
    BY <1>4, <1>6 DEF Claims
  <2>4. QED
    BY <1>6, <2>1, <2>2, <2>3 DEF Claims
<1>9. ASSUME NEW a, NEW S, S # {}, Kept(w, c, Live(c, s, q), a, S), Delivered(w, c, s, g, q, a)
      PROVE  Delivered(w, c, s, g, r, a)
  <2>1. SUFFICES ASSUME Current(c, s, r), Changing(w, c, s, q, a)
                 PROVE  Changing(w, c, s, r, a)
    BY <1>7, <1>9 DEF Delivered
  <2>2. SUFFICES ASSUME Says(q, c.script, w[a].id, {"ok", "unavailable"})
                 PROVE  Says(r, c.script, w[a].id, {"ok", "unavailable"})
    BY <2>1 DEF Changing
  <2>3. SUFFICES ASSUME m.sender = c.script, m.id = w[a].id
                 PROVE  FALSE
    BY <1>1, <2>2
  <2>4. m.id \in Ids /\ Claimed(c, m.id) = {}
    BY <2>3 DEF m
  <2>5. Says(q, c.script, m.id, Answers)
    BY <2>2, <2>3 DEF Says, Answers
  <2>6. InHand(c, s, q, m.id)
    BY <2>5 DEF InHand
  <2>7. PICK i \in DOMAIN c.requests : c.requests[i].id = m.id
    BY <1>6, <1>9, <2>4, <2>6, KeptInHand
  <2>8. c.requests[i].claimed
    BY <1>6, <2>4, <2>6, <2>7 DEF Claims
  <2>9. QED
    BY <2>4, <2>7, <2>8 DEF Claimed
<1>10. \A a \in Apps : \A S \in SUBSET Keys :
         S # {} /\ Kept(w, c, Live(c, s, q), a, S) /\ Delivered(w, c, s, g, q, a)
           => Delivered(w, c, s, g, r, a)
  BY <1>9
<1>11. free => \A x : Says(r, c.script, x, {"rejected"}) => Says(q, c.script, x, {"rejected"})
  BY <1>1
<1>12. InOrder(free, w, c, s, g, r)
  BY <1>3, <1>5, <1>8, <1>10, <1>11, Working
<1>13. QED
  BY <1>12 DEF r

\* A request is claimed, and the script hears of it, or does not.
LEMMA Claiming ==
  ASSUME NEW free, NEW w, NEW c, NEW d, NEW s, NEW z, NEW g, NEW q, NEW r, NEW f,
         NEW heard \in BOOLEAN,
         InOrder(free, w, c, s, g, q), Distinct(c), ClaimsFirst(c, d, f), SameWord(q, r),
         Heeds(c, q, r),
         z.active = s.active, z.name = s.name, z.on = s.on,
         heard => /\ c.script = s.name /\ s.update.id = 0
                  /\ \A n, x, answers : ~Says(q, n, x, answers)
                  /\ z.update.id = c.requests[f].id /\ z.update.set = c.requests[f].set,
         ~heard => z.update = s.update,
         DOMAIN c.requests \subseteq Nat,
         \A i \in DOMAIN c.requests : c.requests[i].id \in Ids
  PROVE  InOrder(free, w, d, z, g, r)
<1>1. Kin(c, d) /\ d.script = c.script /\ f \in DOMAIN c.requests
  BY DEF ClaimsFirst, Kin
<1>2. SaysSame(q, r) /\ (Resets(r) <=> Resets(q))
  BY DEF SameWord, SaysSame
<1>3. Claims(c, s, g, q)
  BY DEF InOrder
<1>4. \A x \in Ids : InHand(d, z, r, x) => InHand(c, s, q, x) \/ (heard /\ x = c.requests[f].id)
  BY <1>1, <1>2 DEF InHand, SaysSame, Ids
<1>5. ~c.requests[f].claimed
  BY DEF ClaimsFirst
<1>6. Live(d, z, r) \subseteq Live(c, s, q)
  <2>1. SUFFICES ASSUME NEW i \in DOMAIN c.requests, i \in Live(d, z, r)
                 PROVE  i \in Live(c, s, q)
    BY <1>1 DEF Live, Kin
  <2>2. c.requests[i].claimed => InHand(c, s, q, c.requests[i].id)
    <3>1. SUFFICES ASSUME c.requests[i].claimed
                   PROVE  InHand(c, s, q, c.requests[i].id)
      OBVIOUS
    <3>2. d.requests[i].claimed /\ d.requests[i].id = c.requests[i].id
      BY <3>1 DEF ClaimsFirst
    <3>3. InHand(d, z, r, c.requests[i].id)
      BY <2>1, <3>2 DEF Live
    <3>4. i # f
      BY <1>5, <3>1
    <3>5. c.requests[i].id # c.requests[f].id
      BY <1>1, <3>4 DEF Distinct
    <3>6. QED
      BY <1>4, <3>3, <3>5
  <2>3. QED
    BY <2>2 DEF Live
<1>7. Current(d, z, r) <=> Current(c, s, q)
  BY <1>1, <1>2 DEF Current
<1>8. heard => \A x \in Ids : ~InHand(c, s, q, x)
  BY DEF InHand, Ids
<1>9. Claims(d, z, g, r)
  <2>1. z.update.id # 0 => d.script = z.name
    BY <1>1, <1>3 DEF Claims
  <2>2. ASSUME NEW x \in Ids, InHand(d, z, r, x)
        PROVE  /\ x \in d.issued
               /\ \A i \in DOMAIN d.requests : d.requests[i].id = x =>
                    d.requests[i].claimed /\ (z.update.id = x => d.requests[i].set = z.update.set)
               /\ (\A i \in DOMAIN d.requests : d.requests[i].id # x) => d.registered = {}
    <3>1. CASE heard
      <4>1. x = c.requests[f].id
        BY <1>4, <1>8, <2>2, <3>1
      <4>2. x \in d.issued
        BY <1>1, <4>1 DEF Distinct, Kin
      <4>3. \A i \in DOMAIN d.requests : d.requests[i].id = x => i = f
        BY <1>1, <4>1 DEF Distinct, Kin
      <4>4. d.requests[f].claimed /\ d.requests[f].set = c.requests[f].set /\ d.requests[f].id = x
        BY <1>1, <4>1 DEF ClaimsFirst
      <4>5. QED
        BY <1>1, <3>1, <4>2, <4>3, <4>4 DEF Kin
    <3>2. CASE ~heard
      <4>1. InHand(c, s, q, x)
        BY <1>4, <2>2, <3>2
      <4>2. /\ x \in c.issued
            /\ \A i \in DOMAIN c.requests : c.requests[i].id = x =>
                 c.requests[i].claimed /\ (s.update.id = x => c.requests[i].set = s.update.set)
            /\ (\A i \in DOMAIN c.requests : c.requests[i].id # x) => c.registered = {}
        BY <1>3, <4>1 DEF Claims
      <4>3. d.issued = c.issued /\ d.registered = c.registered /\ DOMAIN d.requests = DOMAIN c.requests
        BY <1>1 DEF Kin
      <4>4. \A i \in DOMAIN c.requests :
              /\ d.requests[i].id = c.requests[i].id /\ d.requests[i].set = c.requests[i].set
              /\ c.requests[i].claimed => d.requests[i].claimed
        BY DEF ClaimsFirst
      <4>5. z.update = s.update
        BY <3>2
      <4>6. \A i \in DOMAIN d.requests : d.requests[i].id = x =>
              d.requests[i].claimed /\ (z.update.id = x => d.requests[i].set = z.update.set)
        BY <4>2, <4>3, <4>4, <4>5
      <4>7. (\A i \in DOMAIN d.requests : d.requests[i].id # x) => d.registered = {}
        BY <4>2, <4>3, <4>4
      <4>8. QED
        BY <4>2, <4>3, <4>6, <4>7
    <3>3. QED
      BY <3>1, <3>2
  <2>3. \A x \in Ids : Says(r, d.script, x, {"ok"}) /\ Current(d, z, r) =>
          \A i \in DOMAIN d.requests : d.requests[i].id = x =>
            z.active = d.requests[i].set /\ g = d.requests[i].set
    BY <1>1, <1>2, <1>3, <1>7 DEF Claims, Kin, SaysSame
  <2>4. ASSUME NEW i \in DOMAIN d.requests, NEW j \in DOMAIN d.requests,
               InHand(d, z, r, d.requests[i].id), ~d.requests[j].claimed
        PROVE  i < j
    <3>1. i \in DOMAIN c.requests /\ j \in DOMAIN c.requests /\ ~c.requests[j].claimed /\ j # f
      BY <2>4 DEF ClaimsFirst
    <3>2. InHand(d, z, r, c.requests[i].id)
      BY <1>1, <2>4, <3>1 DEF Kin
    <3>3. CASE InHand(c, s, q, c.requests[i].id)
      BY <1>3, <3>1, <3>3 DEF Claims
    <3>4. CASE heard /\ c.requests[i].id = c.requests[f].id
      <4>1. i = f
        BY <1>1, <3>1, <3>4 DEF Distinct
      <4>2. ~(j < f)
        BY <3>1 DEF ClaimsFirst
      <4>3. QED
        BY <1>1, <3>1, <4>1, <4>2
    <3>5. QED
      BY <1>4, <3>1, <3>2, <3>3, <3>4
  <2>5. QED
    BY <2>1, <2>2, <2>3, <2>4 DEF Claims
<1>10. ASSUME NEW a, Delivered(w, c, s, g, q, a)
       PROVE  Delivered(w, d, z, g, r, a)
  <2>1. SUFFICES ASSUME Current(d, z, r), ~Good(d, z, g)
                 PROVE  Changing(w, d, z, r, a)
    BY DEF Delivered
  <2>2. ~Good(c, s, g)
    BY <1>1, <2>1 DEF Good, Kin
  <2>3. Changing(w, c, s, q, a)
    BY <1>7, <1>10, <2>1, <2>2 DEF Delivered
  <2>4. ~heard
    BY <2>3 DEF Changing
  <2>5. QED
    BY <1>1, <1>2, <2>3, <2>4 DEF Changing, SaysSame
<1>11. \A a \in Apps : \A S \in SUBSET Keys :
         S # {} /\ Kept(w, c, Live(c, s, q), a, S) /\ Delivered(w, c, s, g, q, a)
           => Delivered(w, d, z, g, r, a)
  BY <1>10
<1>12. free => \A x : Says(r, d.script, x, {"rejected"}) => Says(q, c.script, x, {"rejected"})
  BY <1>1 DEF SameWord
<1>13. QED
  BY <1>1, <1>6, <1>9, <1>11, <1>12, Working

-----------------------------------------------------------------------------
(* The steps of the script.                                                *)

Unrefused == "conflict" \notin mishaps
Queued == /\ Queue(Unrefused, app, companion, script, grabs, inbox)
          /\ Unrefused => taken = {}

\* What a step makes of it, before it adds to the mishaps.
QueueKept == Queue(Unrefused, app', companion', script', grabs', inbox')

LEMMA RequestsTyped ==
  ASSUME NEW c, Sound(c)
  PROVE  /\ c \in Companions /\ c.requests \in Seq(Request)
         /\ Len(c.requests) \in Nat /\ DOMAIN c.requests = 1 .. Len(c.requests)
         /\ DOMAIN c.requests \subseteq Nat
         /\ \A i \in DOMAIN c.requests :
              /\ c.requests[i] \in Request /\ c.requests[i].id \in Ids
              /\ c.requests[i].set \in SUBSET Keys
              /\ c.requests[i].controller \in Controllers
         /\ c.controller \in Controllers
<1>1. c \in Companions /\ c.requests \in Seq(Request) /\ c.controller \in Controllers
  BY DEF Sound, Companions
<1>2. /\ Len(c.requests) \in Nat /\ DOMAIN c.requests = 1 .. Len(c.requests)
      /\ DOMAIN c.requests \subseteq Nat
      /\ \A i \in DOMAIN c.requests : c.requests[i] \in Request
  BY <1>1
<1>3. \A i \in DOMAIN c.requests : /\ c.requests[i].id \in Ids
                                   /\ c.requests[i].set \in SUBSET Keys
                                   /\ c.requests[i].controller \in Controllers
  BY <1>2 DEF Request, Controllers
<1>4. QED
  BY <1>1, <1>2, <1>3

\* Neither an App nor the queue is concerned.
LEMMA CoreStays ==
  ASSUME ChannelInv, Queued, app' = app, Same(companion, companion'),
         companion'.up = companion.up, SameNames(inbox, inbox'),
         companion.script # None => InOrder(Unrefused, app, companion', script', grabs', inbox')
  PROVE  QueueKept
<1>1. /\ Connected(app, companion, inbox) /\ Distinct(companion)
      /\ Unrefused => Aware(app, companion)
  BY DEF Queued, Queue
<1>2. companion \in Companions /\ app \in [Apps -> AppRecords]
  BY ChannelInvNamed, RequestsTyped
<1>3. /\ Kin(companion, companion') /\ companion'.controller = companion.controller
      /\ companion'.script = companion.script
  BY DEF Same, Kin
<1>4. Connected(app, companion', inbox')
  BY <1>1, <1>2, <1>3, ConnectedInWord
<1>5. Distinct(companion')
  BY <1>1, <1>3, DistinctKin
<1>6. Unrefused => Aware(app, companion')
  BY <1>1, <1>3 DEF Aware
<1>7. Queue(Unrefused, app, companion', script', grabs', inbox')
  BY <1>3, <1>4, <1>5, <1>6 DEF Queue
<1>8. QED
  BY <1>7 DEF QueueKept

LEMMA QueuedNow ==
  ASSUME ChannelInv, Queued
  PROVE  /\ companion.script # None => InOrder(Unrefused, app, companion, script, grabs, inbox)
         /\ Connected(app, companion, inbox) /\ Distinct(companion)
         /\ Unrefused => Aware(app, companion) /\ taken = {}
         /\ Same(companion, companion)
         /\ companion \in Companions /\ inbox \in Seq(Message) /\ script \in Scripts
         /\ Channel(inbox, script, companion.poll)
         /\ app \in [Apps -> AppRecords] /\ Sound(companion)
         /\ DOMAIN companion.requests \subseteq Nat
         /\ \A i \in DOMAIN companion.requests : companion.requests[i].id \in Ids
<1>1. /\ inbox \in Seq(Message) /\ Sound(companion) /\ script \in Scripts
      /\ app \in [Apps -> AppRecords] /\ Channel(inbox, script, companion.poll)
  BY ChannelInvNamed
<1>2. Same(companion, companion)
  BY DEF Same, Kin
<1>3. /\ companion \in Companions /\ DOMAIN companion.requests \subseteq Nat
      /\ \A i \in DOMAIN companion.requests : companion.requests[i].id \in Ids
  BY <1>1, RequestsTyped
<1>4. QED
  BY <1>1, <1>2, <1>3 DEF Queued, Queue

\* finish: what its report says.
LEMMA FinishWord ==
  ASSUME NEW q \in Seq(Message), NEW s \in Scripts, s.name # None, s.update.id # 0,
         NEW answer \in Answers
  PROVE  LET f == FinishUpdate(Idle(s), answer)
         IN /\ SameNames(q, q \o f.out)
            /\ Resets(q \o f.out) <=> Resets(q)
            /\ \A n, x, answers : Says(q \o f.out, n, x, answers) <=>
                 \/ Says(q, n, x, answers)
                 \/ n = s.name /\ x = s.update.id /\ answer \in answers
<1> DEFINE m1 == CompleteCall(s, answer)
           m2 == NextCall(s)
           out == <<m1, m2>>
<1>1. FinishUpdate(Idle(s), answer).out = out /\ out \in Seq(Message)
  BY FinishShape
<1>2. s.name \notin Connections
  BY ConstantsOK DEF Scripts, Names
<1>3. /\ m1.kind = "complete" /\ m1.sender = s.name /\ m1.id = s.update.id /\ m1.answer = answer
      /\ m2.kind = "next" /\ m2.sender = s.name
  BY DEF CompleteCall, NextCall
<1> HIDE DEF m1, m2
<1>4. DOMAIN out = {1, 2} /\ out[1] = m1 /\ out[2] = m2
  OBVIOUS
<1> HIDE DEF out
<1>5. /\ \A c \in Connections : ~LostIn(out, c) /\ Unused(out, c)
      /\ \A c : ~CalledIn(out, c)
      /\ ~Resets(out)
      /\ \A i \in DOMAIN out : out[i].kind # "call"
  BY <1>2, <1>3, <1>4 DEF LostIn, CalledIn, Unused, Resets
<1>6. \A n, x, answers : Says(out, n, x, answers) <=> n = s.name /\ x = s.update.id /\ answer \in answers
  BY <1>3, <1>4 DEF Says
<1>7. Paired(q) => Paired(q \o out)
  BY <1>1, <1>5, PairedBehind
<1>8. SameNames(q, q \o out)
  BY <1>1, <1>5, <1>7, BehindWord DEF SameNames
<1>9. Resets(q \o out) <=> Resets(q)
  BY <1>1, <1>5, BehindWord
<1>10. \A n, x, answers : Says(q \o out, n, x, answers) <=>
         Says(q, n, x, answers) \/ (n = s.name /\ x = s.update.id /\ answer \in answers)
  BY <1>1, <1>6, BehindWord
<1>11. QED
  BY <1>1, <1>8, <1>9, <1>10

LEMMA NamesTwice ==
  ASSUME NEW q, NEW r, NEW t, SameNames(q, r), SameNames(r, t)
  PROVE  SameNames(q, t)
BY DEF SameNames

LEMMA HeedsInNames ==
  ASSUME NEW c \in Companions, NEW q, NEW r, SameNames(q, r)
  PROVE  Heeds(c, q, r)
BY DEF Companions, Controllers, SameNames, Heeds

\* finish, of the script s, whose update is the script's.
LEMMA FinishKeepsQueue ==
  ASSUME ChannelInv, Queued, app' = app, companion' = companion,
         NEW pending \in Seq(Message), SameWord(inbox, pending),
         NEW answer \in Answers, script.update.id # 0,
         NEW s \in Scripts, s.on = script.on, s.name = script.name, s.active = script.active,
         s.update.id = script.update.id, s.update.set = script.update.set,
         answer = "ok" => grabs' = script.update.set,
         answer = "rejected" => ~Unrefused /\ ~script.update.checked /\ grabs' = grabs,
         Continue(pending, FinishUpdate(Idle(s), answer))
  PROVE  QueueKept
<1> DEFINE f == FinishUpdate(Idle(s), answer)
<1>1. /\ script.on /\ s.name # None /\ s.update.id \in Ids
  BY OpenIsRunning DEF Scripts, Updates
<1>2. /\ f.script = [s EXCEPT !.update = NoUpdate, !.polling = TRUE,
                              !.active = IF answer = "ok" THEN s.update.set ELSE @]
      /\ f.out \in Seq(Message)
  BY <1>1, FinishShape
<1>3. /\ f.script.update.id = 0 /\ f.script.name = s.name /\ f.script.on = s.on
      /\ f.script.active = IF answer = "ok" THEN s.update.set ELSE s.active
  BY <1>2 DEF Scripts, NoUpdate
<1>4. /\ SameNames(pending, pending \o f.out)
      /\ Resets(pending \o f.out) <=> Resets(pending)
      /\ \A n, x, answers : Says(pending \o f.out, n, x, answers) <=>
           Says(pending, n, x, answers) \/ (n = s.name /\ x = s.update.id /\ answer \in answers)
  BY <1>1, FinishWord DEF Ids
<1>5. script' = f.script /\ inbox' = IF companion.up THEN pending \o f.out ELSE pending
  BY DEF Continue
<1> HIDE DEF f
<1>6. SameNames(inbox, pending) /\ (Resets(pending) <=> Resets(inbox))
      /\ \A n, x, answers : Says(pending, n, x, answers) <=> Says(inbox, n, x, answers)
  BY DEF SameWord
<1>7. SameNames(inbox, inbox')
  BY <1>4, <1>5, <1>6, NamesTwice
<1>8. ASSUME companion.script # None
      PROVE  InOrder(Unrefused, app, companion', script', grabs', inbox')
  <2>1. companion.up /\ InOrder(Unrefused, app, companion, script, grabs, inbox)
    BY <1>8, QueuedNow DEF Sound
  <2>2. inbox' = pending \o f.out
    BY <1>5, <2>1
  <2>3. /\ Resets(inbox') <=> Resets(inbox)
        /\ \A n, x, answers : Says(inbox', n, x, answers) <=>
             Says(inbox, n, x, answers) \/ (n = script.name /\ x = script.update.id /\ answer \in answers)
    BY <1>4, <1>6, <2>2
  <2>4. Heeds(companion, inbox, inbox')
    BY <1>7, QueuedNow, HeedsInNames
  <2>5. /\ Channel(inbox, script, companion.poll) /\ Same(companion, companion)
        /\ \A i \in DOMAIN companion.requests : companion.requests[i].id \in Ids
    BY QueuedNow
  <2>6. /\ script.update.id \in Ids /\ script'.update.id = 0 /\ script'.name = script.name
        /\ script'.on = script.on
        /\ answer = "ok" => script'.active = script.update.set /\ grabs' = script.update.set
        /\ answer = "rejected" =>
             ~Unrefused /\ ~script.update.checked /\ script'.active = script.active /\ grabs' = grabs
    BY <1>1, <1>3, <1>5
  <2>7. Same(companion, companion')
    BY <2>5
  <2>8. InOrder(Unrefused, app, companion', script', grabs', inbox')
    BY <2>1, <2>3, <2>4, <2>5, <2>6, <2>7, Reports
  <2>9. QED
    BY <2>8
<1>9. Same(companion, companion') /\ companion'.up = companion.up
  BY QueuedNow
<1>10. QED
  BY <1>7, <1>8, <1>9, CoreStays

\* configure, of the script s, whose update is the script's and has been checked.
LEMMA ConfigureKeepsQueue ==
  ASSUME ChannelInv, Queued, app' = app, companion' = companion,
         NEW pending \in Seq(Message), SameWord(inbox, pending), script.update.id # 0,
         NEW s \in Scripts, s.on = script.on, s.name = script.name, s.active = script.active,
         s.update.id = script.update.id, s.update.set = script.update.set, s.update.checked,
         UpdateFits(s, grabs'), Continue(pending, Configure(Idle(s)))
  PROVE  QueueKept
<1>1. /\ script.on /\ s.name # None /\ s.update.id \in Ids
  BY OpenIsRunning DEF Scripts, Updates
<1>2. CASE NextKeys(s.update) = {}
  <2>1. Continue(pending, FinishUpdate(Idle(s), "ok"))
    BY <1>1, <1>2, ConfigureShape
  <2>2. grabs' = script.update.set
    BY <1>2 DEF UpdateFits, NextKeys
  <2>3. "ok" \in Answers
    BY DEF Answers
  <2>4. QED
    BY <2>1, <2>2, <2>3, FinishKeepsQueue
<1>3. CASE NextKeys(s.update) # {}
  <2> DEFINE m == SetCall(s)
             out == <<m>>
  <2>1. /\ Configure(Idle(s)).script = s /\ Configure(Idle(s)).out = out
        /\ m \in Message
    BY <1>1, <1>3, ConfigureShape
  <2>2. m.kind = "set" /\ m.sender = s.name /\ s.name \notin Connections
    BY ConstantsOK DEF SetCall, Scripts, Names
  <2> HIDE DEF m
  <2>3. out \in Seq(Message) /\ \A i \in DOMAIN out : out[i] = m
    BY <2>1
  <2>4. SameWord(pending, pending \o out)
    BY <2>2, <2>3, PlusWord
  <2>5. script' = s /\ inbox' = IF companion.up THEN pending \o out ELSE pending
    BY <2>1 DEF Continue
  <2> HIDE DEF out
  <2>6. SameWord(inbox, inbox')
    BY <2>4, <2>5, SameWordTwice
  <2>7. SameNames(inbox, inbox')
    BY <2>6 DEF SameWord
  <2>8. ASSUME companion.script # None
        PROVE  InOrder(Unrefused, app, companion', script', grabs', inbox')
    <3>1. InOrder(Unrefused, app, companion, script, grabs, inbox) /\ Heeds(companion, inbox, inbox')
      BY <2>7, <2>8, QueuedNow, HeedsInNames
    <3>2. /\ Channel(inbox, script, companion.poll) /\ Same(companion, companion')
          /\ \A i \in DOMAIN companion.requests : companion.requests[i].id \in Ids
      BY QueuedNow
    <3>3. /\ script.update.id \in Ids /\ script'.update.id = script.update.id
          /\ script'.update.set = script.update.set /\ script'.update.checked
          /\ script'.name = script.name /\ script'.on = script.on
      BY <1>1, <2>5
    <3>4. QED
      BY <2>6, <3>1, <3>2, <3>3, GoesOn
  <2>9. Same(companion, companion') /\ companion'.up = companion.up
    BY QueuedNow
  <2>10. QED
    BY <2>7, <2>8, <2>9, CoreStays
<1>4. QED
  BY <1>2, <1>3

LEMMA WordItself ==
  ASSUME NEW q
  PROVE  SameWord(q, q) /\ SameNames(q, q)
BY DEF SameWord, SameNames

LEMMA OwnersCheckedKeepsQueue ==
  ASSUME ChannelInv, Queued, OwnersChecked
  PROVE  QueueKept
<1>1. /\ script.update.id # 0 /\ app' = app /\ companion' = companion
      /\ inbox \in Seq(Message) /\ SameWord(inbox, inbox)
  BY OwnersCheckedShape, QueuedNow, WordItself
<1>2. PICK s \in Scripts :
        /\ s.on = script.on /\ s.name = script.name /\ s.active = script.active
        /\ s.update.id = script.update.id /\ s.update.set = script.update.set
        /\ s.update.checked /\ UpdateFits(s, grabs')
        /\ Continue(inbox, Configure(Idle(s)))
  BY OwnersCheckedShape
<1>3. QED
  BY <1>1, <1>2, ConfigureKeepsQueue

LEMMA OwnersConflictKeepsQueue ==
  ASSUME ChannelInv, Queued, OwnersConflict
  PROVE  QueueKept
<1>1. /\ script.update.id # 0 /\ ~script.update.checked
      /\ app' = app /\ companion' = companion /\ grabs' = grabs
      /\ Continue(inbox, FinishUpdate(Idle(script), "rejected"))
  BY DEF OwnersConflict, native
<1>2. /\ inbox \in Seq(Message) /\ script \in Scripts /\ SameWord(inbox, inbox)
      /\ "rejected" \in Answers
  BY QueuedNow, WordItself DEF Answers
<1>3. ~Unrefused
  BY QueuedNow DEF OwnersConflict
<1>4. QED
  BY <1>1, <1>2, <1>3, FinishKeepsQueue

LEMMA UpdateTimesOutKeepsQueue ==
  ASSUME ChannelInv, Queued, UpdateTimesOut
  PROVE  QueueKept
<1> DEFINE pending == Unheard(inbox, {"set"})
<1>1. /\ script.update.id # 0 /\ app' = app /\ companion' = companion
      /\ Continue(pending, FinishUpdate(Idle(script), "unavailable"))
  BY DEF UpdateTimesOut
<1>2. inbox \in Seq(Message) /\ script \in Scripts /\ "unavailable" \in Answers
  BY QueuedNow DEF Answers
<1>3. pending \in Seq(Message) /\ Silenced(inbox, pending, {"set"})
  BY <1>2, UnheardIsSilenced
<1> HIDE DEF pending
<1>4. SameWord(inbox, pending)
  BY <1>2, <1>3, SilencedWord
<1>5. QED
  BY <1>1, <1>2, <1>3, <1>4, FinishKeepsQueue

LEMMA DroppedIsSame ==
  ASSUME ChannelInv, companion' = [companion EXCEPT !.poll.heard = FALSE]
  PROVE  Same(companion, companion') /\ companion'.up = companion.up
<1>1. Sound(companion)
  BY ChannelInvNamed
<1>2. QED
  BY <1>1, PollDropped DEF Same, Kin

LEMMA RetryKeepsQueue ==
  ASSUME ChannelInv, Queued, RetryCompanion
  PROVE  QueueKept
<1> DEFINE pending == Unheard(inbox, {"next"})
           m == RegisterCall(script.name, FALSE)
           s == [script EXCEPT !.polling = FALSE]
           out == <<m>>
<1>1. /\ script.on /\ app' = app /\ grabs' = grabs
      /\ companion' = [companion EXCEPT !.poll.heard = FALSE]
      /\ script' = s /\ inbox' = IF companion.up THEN pending \o out ELSE pending
  BY DEF RetryCompanion, native, Register, RegisterCall, Continue
<1>2. inbox \in Seq(Message) /\ script \in Scripts
  BY QueuedNow
<1>3. script.name \in ScriptNames /\ script.name \notin Connections
  BY <1>1, OpenIsRunning, ConstantsOK
<1>4. pending \in Seq(Message) /\ Silenced(inbox, pending, {"next"})
  BY <1>2, UnheardIsSilenced
<1>5. SameWord(inbox, pending)
  BY <1>2, <1>4, SilencedWord
<1>6. m \in Message /\ m.kind = "register" /\ m.sender = script.name /\ ~m.reset
  BY <1>3 DEF RegisterCall, Message
<1>7. /\ s.update = script.update /\ s.active = script.active /\ s.name = script.name
      /\ s.on = script.on
  BY <1>2 DEF Scripts
<1> HIDE DEF pending, m, s
<1>8. out \in Seq(Message) /\ \A i \in DOMAIN out : out[i] = m
  BY <1>6
<1> HIDE DEF out
<1>9. SameWord(pending, pending \o out)
  BY <1>3, <1>4, <1>6, <1>8, PlusWord
<1>10. SameWord(inbox, inbox')
  BY <1>1, <1>5, <1>9, SameWordTwice
<1>11. SameNames(inbox, inbox') /\ SaysSame(inbox, inbox') /\ (Resets(inbox') <=> Resets(inbox))
       /\ Heeds(companion, inbox, inbox')
  BY <1>10, QueuedNow, HeedsInWord DEF SameWord
<1>12. Same(companion, companion') /\ companion'.up = companion.up
  BY <1>1, DroppedIsSame
<1>13. ASSUME companion.script # None
       PROVE  InOrder(Unrefused, app, companion', script', grabs', inbox')
  <2>1. /\ InOrder(Unrefused, app, companion, script, grabs, inbox)
        /\ \A i \in DOMAIN companion.requests : companion.requests[i].id \in Ids
    BY <1>13, QueuedNow
  <2>2. /\ script'.update = script.update /\ script'.active = script.active
        /\ script'.name = script.name /\ script'.on = script.on
    BY <1>1, <1>7
  <2>3. InOrder(Unrefused, app, companion', script', grabs, inbox')
    BY <1>11, <1>12, <2>1, <2>2, Aside
  <2>4. QED
    BY <1>1, <2>3
<1>14. QED
  BY <1>1, <1>11, <1>12, <1>13, CoreStays

\* The script that runs, or is to be asked next, is not the one that the companion knows.
LEMMA ScriptChangeKeepsQueue ==
  ASSUME ChannelInv, Queued, app' = app, Same(companion, companion'),
         companion'.up = companion.up, SameNames(inbox, inbox'),
         ~script'.on \/ (companion.up => Resets(inbox')),
         \A n, x, answers : Says(inbox', n, x, answers) => Says(inbox, n, x, answers),
         script'.update.id = 0
  PROVE  QueueKept
<1>1. Heeds(companion, inbox, inbox')
  BY QueuedNow, HeedsInNames
<1>2. ASSUME companion.script # None
      PROVE  InOrder(Unrefused, app, companion', script', grabs', inbox')
  <2>1. /\ InOrder(Unrefused, app, companion, script, grabs, inbox) /\ companion.up
        /\ \A i \in DOMAIN companion.requests : companion.requests[i].id \in Ids
    BY <1>2, QueuedNow DEF Sound
  <2>2. ~Current(companion', script', inbox')
    BY <2>1 DEF Current
  <2>3. \A n, x, answers : Says(inbox', n, x, answers) => Says(inbox, n, x, answers)
    OBVIOUS
  <2>4. QED
    BY <1>1, <2>1, <2>2, <2>3, NotCurrent
<1>3. QED
  BY <1>2, CoreStays

LEMMA ScriptEndsKeepsQueue ==
  ASSUME ChannelInv, Queued, NEW name \in Names, NEW out \in Seq(Message),
         \A i \in DOMAIN out : out[i].kind = "lost" /\ out[i].sender \notin Connections,
         ScriptEnds(name, out)
  PROVE  QueueKept
<1> DEFINE r == Unheard(inbox, {"register", "next", "set"})
           s == [script EXCEPT !.on = FALSE, !.name = name, !.polling = FALSE,
                               !.update = NoUpdate, !.active = {}, !.actions = {}]
<1>1. /\ script' = s /\ app' = app
      /\ inbox' = r \o (IF companion.up THEN out ELSE <<>>)
      /\ companion' = [companion EXCEPT !.poll.heard = FALSE]
  BY DEF ScriptEnds
<1>2. inbox \in Seq(Message) /\ script \in Scripts
  BY QueuedNow
<1>3. r \in Seq(Message) /\ Silenced(inbox, r, {"register", "next", "set"})
  BY <1>2, UnheardIsSilenced
<1>4. SameWord(inbox, r)
  BY <1>2, <1>3, SilencedWord
<1>5. ~s.on /\ s.update.id = 0
  BY <1>2 DEF Scripts, NoUpdate
<1> HIDE DEF r, s
<1>6. SameWord(r, r \o out)
  BY <1>3, PlusWord
<1>7. inbox' = r \o out \/ inbox' = r
  <2>1. CASE companion.up
    BY <1>1, <2>1
  <2>2. CASE ~companion.up
    <3>1. inbox' = r \o <<>>
      BY <1>1, <2>2
    <3>2. QED
      BY <1>3, <3>1
  <2>3. QED
    BY <2>1, <2>2
<1>8. SameWord(inbox, inbox')
  BY <1>4, <1>6, <1>7, SameWordTwice
<1>9. SameNames(inbox, inbox')
      /\ \A n, x, answers : Says(inbox', n, x, answers) => Says(inbox, n, x, answers)
  BY <1>8 DEF SameWord
<1>10. Same(companion, companion') /\ companion'.up = companion.up
  BY <1>1, DroppedIsSame
<1>11. ~script'.on /\ script'.update.id = 0
  BY <1>1, <1>5
<1>12. QED
  BY <1>1, <1>9, <1>10, <1>11, ScriptChangeKeepsQueue

LEMMA LoadsKeepsQueue ==
  ASSUME ChannelInv, Queued, ScriptLoads
  PROVE  QueueKept
<1> DEFINE m == RegisterCall(StartName, TRUE)
           out == <<m>>
<1>1. /\ ~script.on /\ StartName \in ScriptNames
      /\ script' = [script EXCEPT !.on = TRUE, !.name = StartName]
      /\ inbox' = IF companion.up THEN inbox \o out ELSE inbox
      /\ app' = app /\ companion' = companion
  BY LoadsShape DEF Posted
<1>2. /\ inbox \in Seq(Message) /\ script \in Scripts /\ UpdateFits(script, grabs)
  BY QueuedNow, ChannelInvNamed
<1>3. script'.update.id = 0
  BY <1>1, <1>2 DEF UpdateFits, Scripts
<1>4. /\ m \in Message /\ m.kind = "register" /\ m.sender = StartName /\ m.reset
      /\ StartName \notin Connections
  BY <1>1, ConstantsOK DEF RegisterCall, Message
<1> HIDE DEF m
<1>5. out \in Seq(Message) /\ DOMAIN out = {1} /\ out[1] = m
  BY <1>4
<1> HIDE DEF out
<1>6. /\ \A c \in Connections : ~LostIn(out, c) /\ Unused(out, c)
      /\ \A c : ~CalledIn(out, c)
      /\ Resets(out) /\ \A n, x, answers : ~Says(out, n, x, answers)
      /\ \A i \in DOMAIN out : out[i].kind # "call"
  BY <1>4, <1>5 DEF LostIn, CalledIn, Unused, Resets, Says
<1>7. Paired(inbox) => Paired(inbox \o out)
  BY <1>2, <1>5, <1>6, PairedBehind
<1>8. SameNames(inbox, inbox \o out)
  BY <1>2, <1>5, <1>6, <1>7, BehindWord DEF SameNames
<1>9. SameNames(inbox, inbox')
  BY <1>1, <1>8, WordItself
<1>10. \A n, x, answers : Says(inbox', n, x, answers) => Says(inbox, n, x, answers)
  BY <1>1, <1>2, <1>5, <1>6, BehindWord
<1>11. companion.up => Resets(inbox')
  BY <1>1, <1>2, <1>5, <1>6, BehindWord
<1>12. Same(companion, companion') /\ companion'.up = companion.up
  BY <1>1, QueuedNow
<1>13. QED
  BY <1>1, <1>3, <1>9, <1>10, <1>11, <1>12, ScriptChangeKeepsQueue

LEMMA ScriptKeepsQueue ==
  ASSUME ChannelInv, Queued, ScriptNext \/ KwinNext
  PROVE  QueueKept
<1>1. CASE ScriptNext
  BY <1>1, OwnersCheckedKeepsQueue, OwnersConflictKeepsQueue, UpdateTimesOutKeepsQueue,
     RetryKeepsQueue DEF ScriptNext
<1>2. CASE ScriptUnloads
  <2>1. script.name \in Names /\ <<>> \in Seq(Message)
        /\ \A i \in DOMAIN <<>> : <<>>[i].kind = "lost" /\ <<>>[i].sender \notin Connections
    BY ChannelInvNamed DEF Scripts
  <2>2. ScriptEnds(script.name, <<>>)
    BY <1>2 DEF ScriptUnloads
  <2>3. QED
    BY <2>1, <2>2, ScriptEndsKeepsQueue
<1>3. CASE KwinDies
  <2> DEFINE m == [kind |-> "lost", sender |-> script.name]
             out == <<m>>
  <2>1. script.name \in ScriptNames /\ script.name \notin Connections
    BY <1>3, ChannelInvNamed, ConstantsOK DEF KwinDies, Scripts, Names
  <2>2. m \in Message /\ m.kind = "lost" /\ m.sender = script.name
    BY <2>1 DEF Message
  <2>3. ScriptEnds(None, out)
    BY <1>3 DEF KwinDies
  <2> HIDE DEF m
  <2>4. out \in Seq(Message) /\ \A i \in DOMAIN out : out[i] = m
    BY <2>2
  <2> HIDE DEF out
  <2>5. None \in Names /\ \A i \in DOMAIN out : out[i].kind = "lost" /\ out[i].sender \notin Connections
    BY <2>1, <2>2, <2>4 DEF Names
  <2>6. QED
    BY <2>3, <2>4, <2>5, ScriptEndsKeepsQueue
<1>4. CASE ScriptLoads
  BY <1>4, LoadsKeepsQueue
<1>5. CASE KeyTaken \/ KeyFreed
  <2>1. UNCHANGED <<app, companion, script, grabs, inbox>>
    BY <1>5 DEF KeyTaken, KeyFreed
  <2>2. QED
    BY <2>1 DEF QueueKept, Queued
<1>6. QED
  BY <1>1, <1>2, <1>3, <1>4, <1>5 DEF KwinNext

-----------------------------------------------------------------------------
(* The steps of the companion.                                             *)

\* There is no script, and nothing is queued.
LEMMA QueueEmptied ==
  ASSUME Connected(app', companion', inbox'), Unrefused => Aware(app', companion'),
         companion'.script = None,
         companion'.requests = <<>>, companion'.results = {}
  PROVE  QueueKept
<1>1. DOMAIN companion'.requests = {}
  OBVIOUS
<1>2. Distinct(companion')
  BY <1>1 DEF Distinct
<1>3. Queue(Unrefused, app', companion', script', grabs', inbox')
  BY <1>2 DEF Queue
<1>4. QED
  BY <1>3 DEF QueueKept

\* A message is read that does not end the controller's connection.
LEMMA ConnectedRead ==
  ASSUME NEW w \in [Apps -> AppRecords], NEW c \in Companions, NEW d, NEW q \in Seq(Message),
         q # <<>>, Connected(w, c, q), d.controller \in {c.controller, None}, d.up = c.up,
         c.controller # None => ~LostFirst(q, c.controller)
  PROVE  Connected(w, d, Tail(q))
<1>1. Paired(Tail(q)) /\ \A x \in Connections : Unused(q, x) => Unused(Tail(q), x)
  BY TailWord DEF Connected
<1>2. LostIn(q, c.controller) => d.controller = None \/ LostIn(Tail(q), d.controller)
  BY TailWord
<1>3. d.controller = c.controller \/ d.controller = None
  OBVIOUS
<1>4. d.controller # None => d.up
  BY <1>3 DEF Connected
<1>5. QED
  BY <1>1, <1>2, <1>3, <1>4, ConnectedStays

LEMMA CoreKeepsQueue ==
  ASSUME ChannelInv, Queued, UNCHANGED <<app, script, grabs>>, SameCore(companion'),
         SameWord(inbox, inbox')
  PROVE  QueueKept
<1>1. Same(companion, companion') /\ companion'.up = companion.up
  BY DEF SameCore, Same, Kin
<1>2. SameNames(inbox, inbox') /\ SaysSame(inbox, inbox') /\ (Resets(inbox') <=> Resets(inbox))
      /\ Heeds(companion, inbox, inbox')
  BY QueuedNow, HeedsInWord DEF SameWord
<1>3. ASSUME companion.script # None
      PROVE  InOrder(Unrefused, app, companion', script', grabs', inbox')
  <2>1. /\ InOrder(Unrefused, app, companion, script, grabs, inbox)
        /\ \A i \in DOMAIN companion.requests : companion.requests[i].id \in Ids
    BY <1>3, QueuedNow
  <2>2. InOrder(Unrefused, app, companion', script, grabs, inbox')
    BY <1>1, <1>2, <2>1, Aside
  <2>3. QED
    BY <2>2
<1>4. QED
  BY <1>1, <1>2, <1>3, CoreStays

\* The answer to a poll.
LEMMA AnswerKeepsQueue ==
  ASSUME ChannelInv, Queued, UNCHANGED <<app, grabs>>, NEW c, Sound(c), SameCore(c),
         Unclaimed(c) # {}, NEW heard \in BOOLEAN, Answering(c, heard), SameWord(inbox, inbox'),
         heard => /\ companion.script = script.name /\ script.update.id = 0
                  /\ \A i \in DOMAIN inbox : ~Past(inbox, i)
  PROVE  QueueKept
<1> DEFINE f == FirstUnclaimed(c)
<1>1. /\ ClaimsFirst(c, companion', f)
      /\ script' = IF heard THEN [script EXCEPT !.update =
                                    [NoUpdate EXCEPT !.id = c.requests[f].id,
                                                     !.set = c.requests[f].set]]
                   ELSE script
  BY DEF Answering
<1> HIDE DEF f
<1>2. /\ Same(companion, c) /\ Kin(companion, c) /\ c.up = companion.up /\ c.script = companion.script
      /\ c.controller = companion.controller
  BY DEF SameCore, Same, Kin
<1>3. f \in DOMAIN c.requests
  BY <1>1 DEF ClaimsFirst
<1>4. /\ c \in Companions /\ DOMAIN c.requests \subseteq Nat
      /\ \A i \in DOMAIN c.requests : c.requests[i].id \in Ids
  BY RequestsTyped
<1>5. c.script # None
  <2>1. c.script = None => DOMAIN c.requests = {}
    BY DEF Sound
  <2>2. QED
    BY <1>3, <2>1
<1>6. /\ InOrder(Unrefused, app, companion, script, grabs, inbox) /\ Distinct(companion)
      /\ Connected(app, companion, inbox)
      /\ script \in Scripts /\ companion \in Companions /\ app \in [Apps -> AppRecords]
      /\ \A i \in DOMAIN companion.requests : companion.requests[i].id \in Ids
  BY <1>2, <1>5, QueuedNow
<1>7. /\ SaysSame(inbox, inbox) /\ SameNames(inbox, inbox') /\ Heeds(companion, inbox, inbox)
      /\ Heeds(c, inbox, inbox')
  BY <1>4, <1>6, WordItself, HeedsInWord DEF SameWord
<1>8. InOrder(Unrefused, app, c, script, grabs, inbox)
  BY <1>2, <1>6, <1>7, Aside
<1>9. Distinct(c)
  BY <1>2, <1>6, DistinctKin
<1>10. /\ script'.active = script.active /\ script'.name = script.name /\ script'.on = script.on
       /\ heard => script'.update.id = c.requests[f].id /\ script'.update.set = c.requests[f].set
       /\ ~heard => script'.update = script.update
  <2> DEFINE u == [NoUpdate EXCEPT !.id = c.requests[f].id, !.set = c.requests[f].set]
  <2>1. u.id = c.requests[f].id /\ u.set = c.requests[f].set
    BY DEF NoUpdate
  <2>2. script' = IF heard THEN [script EXCEPT !.update = u] ELSE script
    BY <1>1
  <2> HIDE DEF u
  <2>3. QED
    BY <1>6, <2>1, <2>2 DEF Scripts
<1>11. heard => \A n, x, answers : ~Says(inbox, n, x, answers)
  BY DEF Says, Past
<1>12. heard => c.script = script.name
  BY <1>2
<1>13. InOrder(Unrefused, app, companion', script', grabs, inbox')
  BY <1>1, <1>4, <1>7, <1>8, <1>9, <1>10, <1>11, <1>12, Claiming
<1>14. Kin(c, companion') /\ companion'.up = c.up /\ companion'.controller = c.controller
  BY <1>1 DEF ClaimsFirst, Kin
<1>15. Connected(app, companion', inbox') /\ Distinct(companion')
  BY <1>2, <1>6, <1>7, <1>9, <1>14, ConnectedInWord, DistinctKin
<1>16. Unrefused => Aware(app, companion')
  BY <1>2, <1>5, <1>14, QueuedNow DEF Aware
<1>17. Queue(Unrefused, app', companion', script', grabs', inbox')
  BY <1>13, <1>15, <1>16 DEF Queue
<1>18. QED
  BY <1>17 DEF QueueKept

\* The companion finds its script gone.
LEMMA EmptiedKeepsQueue ==
  ASSUME ChannelInv, Queued, app' = app, Emptied(companion, companion'), SameNames(inbox, inbox')
  PROVE  QueueKept
<1>1. Connected(app, companion', inbox')
  BY QueuedNow, ConnectedInWord DEF Emptied
<1>2. Unrefused => Aware(app, companion')
  BY QueuedNow DEF Emptied, Aware
<1>3. QED
  BY <1>1, <1>2, QueueEmptied DEF Emptied

\* A message without effect but that the companion may find its script gone.
LEMMA EnsureKeepsQueue ==
  ASSUME ChannelInv, Queued, UNCHANGED <<app, script, grabs>>,
         companion' = EnsureReady(companion), SameWord(inbox, inbox')
  PROVE  QueueKept
<1>1. Sound(companion)
  BY QueuedNow
<1>2. CASE Ready(companion)
  <2>1. SameCore(companion')
    BY <1>1, <1>2, EnsureReadyShape DEF SameCore
  <2>2. QED
    BY <2>1, CoreKeepsQueue
<1>3. CASE ~Ready(companion)
  <2>1. Emptied(companion, companion')
    BY <1>1, <1>3, EnsureReadyShape DEF Reset, Emptied
  <2>2. QED
    BY <2>1, EmptiedKeepsQueue DEF SameWord
<1>4. QED
  BY <1>2, <1>3

LEMMA HandleNextKeepsQueue ==
  ASSUME ChannelInv, Queued, HandleNext
  PROVE  QueueKept
<1> DEFINE m == Head(inbox)
<1>1. /\ m.kind = "next" /\ inbox # <<>> /\ UNCHANGED <<app, grabs>>
      /\ \/ /\ companion' = EnsureReady(companion)
            /\ inbox' = Tail(inbox) /\ script' = script
         \/ /\ SameCore(companion') /\ inbox' = Tail(inbox) /\ script' = script
         \/ \E c : /\ Sound(c) /\ SameCore(c) /\ companion.script = m.sender
                   /\ Unclaimed(c) # {} /\ Answering(c, m.heard) /\ inbox' = Tail(inbox)
                   /\ m.heard => /\ script.update.id = 0 /\ m.sender = script.name
                                 /\ \A i \in DOMAIN inbox : ~Past(inbox, i)
  BY HandleNextShape
<1>2. inbox \in Seq(Message) /\ m \in Message
  BY <1>1, QueuedNow
<1>3. m.heard \in BOOLEAN
  BY <1>1, <1>2, MessageFields
<1>4. SameWord(inbox, Tail(inbox))
  BY <1>1, <1>2, ReadWord
<1> HIDE DEF m
<1>5. CASE companion' = EnsureReady(companion) /\ inbox' = Tail(inbox) /\ script' = script
  BY <1>1, <1>4, <1>5, EnsureKeepsQueue
<1>6. CASE SameCore(companion') /\ inbox' = Tail(inbox) /\ script' = script
  BY <1>1, <1>4, <1>6, CoreKeepsQueue
<1>7. ASSUME NEW c, Sound(c), SameCore(c), companion.script = m.sender,
             Unclaimed(c) # {}, Answering(c, m.heard), inbox' = Tail(inbox),
             m.heard => /\ script.update.id = 0 /\ m.sender = script.name
                        /\ \A i \in DOMAIN inbox : ~Past(inbox, i)
      PROVE  QueueKept
  <2>1. m.heard => /\ companion.script = script.name /\ script.update.id = 0
                   /\ \A i \in DOMAIN inbox : ~Past(inbox, i)
    BY <1>7
  <2>2. SameWord(inbox, inbox')
    BY <1>4, <1>7
  <2>3. QED
    BY <1>1, <1>3, <1>7, <2>1, <2>2, AnswerKeepsQueue
<1>8. QED
  BY <1>1, <1>5, <1>6, <1>7

LEMMA AnswerDeferredKeepsQueue ==
  ASSUME ChannelInv, Queued, AnswerDeferred
  PROVE  QueueKept
<1> DEFINE p == companion.poll
<1>1. /\ UNCHANGED <<app, grabs>>
      /\ \/ /\ Emptied(companion, companion') \/ SameCore(companion')
            /\ UNCHANGED <<script, inbox>>
         \/ /\ SameCore(companion') /\ script' = script
            /\ companion.script = p.sender
            /\ inbox' = inbox \/ inbox' = inbox \o <<NextCall(script)>>
         \/ \E c : /\ Sound(c) /\ SameCore(c) /\ companion.script = p.sender
                   /\ Unclaimed(c) # {} /\ Answering(c, p.heard) /\ inbox' = inbox
                   /\ p.heard => /\ script.update.id = 0 /\ p.sender = script.name
                                 /\ \A i \in DOMAIN inbox : ~Past(inbox, i)
  BY AnswerDeferredShape
<1>2. p \in Polls /\ p.heard \in BOOLEAN /\ inbox \in Seq(Message) /\ script \in Scripts
  BY QueuedNow DEF Companions, Polls
<1>3. SameWord(inbox, inbox) /\ SameNames(inbox, inbox)
  BY WordItself
<1> HIDE DEF p
<1>4. CASE Emptied(companion, companion') /\ inbox' = inbox
  BY <1>1, <1>3, <1>4, EmptiedKeepsQueue
<1>5. CASE SameCore(companion') /\ script' = script /\ inbox' = inbox
  BY <1>1, <1>3, <1>5, CoreKeepsQueue
<1>6. CASE SameCore(companion') /\ script' = script /\ companion.script = p.sender
           /\ inbox' = inbox \o <<NextCall(script)>>
  <2> DEFINE n == NextCall(script)
             out == <<n>>
  <2>1. inbox' \in Seq(Message)
    BY AnswerDeferredShape, ChannelInvNamed DEF ChannelInv, TypeOK
  <2>2. CASE script.name \in ScriptNames
    <3>1. n \in Message /\ n.kind = "next" /\ n.sender \notin Connections
      BY <2>2, ConstantsOK DEF NextCall, Message
    <3> HIDE DEF n
    <3>2. out \in Seq(Message) /\ \A i \in DOMAIN out : out[i] = n
      BY <3>1
    <3> HIDE DEF out
    <3>3. SameWord(inbox, inbox \o out)
      BY <1>2, <3>1, <3>2, PlusWord
    <3>4. SameWord(inbox, inbox')
      BY <1>6, <3>3 DEF n, out
    <3>5. QED
      BY <1>1, <1>6, <3>4, CoreKeepsQueue
  <2>3. CASE script.name = None
    <3>1. out[1] = n /\ n.kind = "next" /\ n.sender = None /\ Len(out) = 1
      BY <2>3 DEF NextCall
    <3>2. inbox' = inbox \o out
      BY <1>6
    <3>3. Len(inbox) \in Nat /\ Len(inbox) + 1 \in DOMAIN inbox' /\ inbox'[Len(inbox) + 1] = out[1]
      BY <1>2, <3>1, <3>2
    <3>4. inbox'[Len(inbox) + 1] \in Message
      BY <2>1, <3>3
    <3>5. n \in Message
      BY <3>1, <3>3, <3>4
    <3>6. n.sender \in ScriptNames
      BY <3>1, <3>5, MessageFields
    <3>7. QED
      BY <3>1, <3>6, ConstantsOK
  <2>4. QED
    BY <1>2, <2>2, <2>3 DEF Scripts, Names
<1>7. ASSUME NEW c, Sound(c), SameCore(c), companion.script = p.sender,
             Unclaimed(c) # {}, Answering(c, p.heard), inbox' = inbox,
             p.heard => /\ script.update.id = 0 /\ p.sender = script.name
                        /\ \A i \in DOMAIN inbox : ~Past(inbox, i)
      PROVE  QueueKept
  <2>1. p.heard => /\ companion.script = script.name /\ script.update.id = 0
                   /\ \A i \in DOMAIN inbox : ~Past(inbox, i)
    BY <1>7
  <2>2. SameWord(inbox, inbox')
    BY <1>3, <1>7
  <2>3. QED
    BY <1>1, <1>2, <1>7, <2>1, <2>2, AnswerKeepsQueue
<1>8. QED
  BY <1>1, <1>4, <1>5, <1>6, <1>7

LEMMA HandleSetKeepsQueue ==
  ASSUME ChannelInv, Queued, HandleSet
  PROVE  QueueKept
<1> DEFINE m == Head(inbox)
<1>1. /\ Handling("set") /\ app' = app
      /\ \/ /\ companion' = EnsureReady(companion) /\ inbox' = Tail(inbox)
            /\ UNCHANGED <<script, grabs>>
         \/ SetRead /\ grabs' = grabs
         \/ /\ SetRead /\ m.sender = script.name
            /\ companion.script = script.name /\ script.actions # {}
         \/ SetGoesOn
  BY HandleSetShape
<1>2. /\ companion.up /\ inbox # <<>> /\ m.kind = "set" /\ m = inbox[1] /\ 1 \in DOMAIN inbox
      /\ Tail(inbox) \in Seq(Message) /\ m \in Message
  BY <1>1, HandlingFacts
<1>3. inbox \in Seq(Message) /\ Channel(inbox, script, companion.poll) /\ Leftovers(inbox, script)
      /\ UpdateFits(script, grabs)
  BY ChannelInvNamed
<1>4. SameWord(inbox, Tail(inbox))
  BY <1>2, <1>3, ReadWord
<1> HIDE DEF m
<1>5. CASE companion' = EnsureReady(companion) /\ inbox' = Tail(inbox) /\ UNCHANGED <<script, grabs>>
  BY <1>1, <1>4, <1>5, EnsureKeepsQueue
<1>6. CASE SetRead /\ grabs' = grabs
  BY <1>1, <1>4, <1>6, CoreKeepsQueue DEF SetRead, SameCore
<1>7. CASE SetGoesOn
  <2>1. script.update.id # 0 /\ companion' = companion
    BY <1>7 DEF SetGoesOn
  <2>2. PICK s \in Scripts :
          /\ s.on = script.on /\ s.name = script.name /\ s.active = script.active
          /\ s.update.id = script.update.id /\ s.update.set = script.update.set
          /\ s.update.checked /\ UpdateFits(s, grabs')
          /\ Continue(Tail(inbox), Configure(Idle(s)))
    BY <1>7 DEF SetGoesOn
  <2>3. QED
    BY <1>1, <1>2, <1>4, <2>1, <2>2, ConfigureKeepsQueue
<1>8. CASE SetRead /\ m.sender = script.name /\ companion.script = script.name /\ script.actions # {}
  <2>1. script.on /\ companion' = companion /\ inbox' = Tail(inbox) /\ script' = script
    BY <1>3, <1>8 DEF UpdateFits, SetRead
  <2>2. SameWord(inbox, inbox') /\ SameNames(inbox, inbox')
    BY <1>4, <2>1 DEF SameWord
  <2>3. /\ Same(companion, companion') /\ companion'.up = companion.up
        /\ Heeds(companion, inbox, inbox')
        /\ \A i \in DOMAIN companion.requests : companion.requests[i].id \in Ids
    BY <2>1, <2>2, QueuedNow, HeedsInNames
  <2>4. ASSUME companion.script # None
        PROVE  InOrder(Unrefused, app, companion', script', grabs', inbox')
    <3>1. InOrder(Unrefused, app, companion, script, grabs, inbox)
      BY <2>4, QueuedNow
    <3>2. CASE script.update.id # 0
      <4>1. ~Past(inbox, 1)
        BY <1>2, <1>3, <3>2, UpdateIsTheTurn
      <4>2. HeardSet(inbox, 1)
        BY <1>2, <4>1 DEF Past, HeardSet
      <4>3. script.update.checked
        BY <1>2, <4>2, OpenIsRunning
      <4>4. script.update.id \in Ids
        BY <3>2, ChannelInvNamed DEF Scripts, Updates
      <4>5. /\ script'.update.id = script.update.id /\ script'.update.set = script.update.set
            /\ script'.update.checked /\ script'.name = script.name /\ script'.on = script.on
        BY <2>1, <4>3
      <4>6. QED
        BY <1>3, <2>2, <2>3, <3>1, <4>4, <4>5, GoesOn
    <3>3. CASE script.update.id = 0
      <4>1. ~script.update.checked
        BY <3>3, OpenIsRunning
      <4>2. ~HeardSet(inbox, 1)
        BY <1>2, <4>1, OpenIsRunning
      <4>3. inbox[1].kind = "set" /\ ~inbox[1].heard /\ inbox[1].sender = script.name
        BY <1>2, <1>8, <4>2 DEF HeardSet
      <4>4. PICK j \in DOMAIN inbox :
              /\ 1 < j
              /\ \/ /\ inbox[j].kind = "complete" /\ inbox[j].sender = script.name
                    /\ inbox[j].answer = "unavailable"
                 \/ inbox[j].kind = "register" /\ inbox[j].reset
        BY <1>2, <1>3, <2>1, <4>3 DEF Leftovers
      <4>5. CASE inbox[j].kind = "register" /\ inbox[j].reset
        <5>1. Resets(inbox)
          BY <4>5 DEF Resets
        <5>2. Resets(inbox')
          BY <2>2, <5>1 DEF SameWord
        <5>3. InOrder(Unrefused, app, companion', script, grabs', inbox')
          BY <1>3, <2>2, <2>3, <3>1, <5>2, SetsLate
        <5>4. QED
          BY <2>1, <5>3
      <4>6. CASE /\ inbox[j].kind = "complete" /\ inbox[j].sender = script.name
                 /\ inbox[j].answer = "unavailable"
        <5>1. inbox[j] \in Message
          BY <1>3
        <5>2. inbox[j].id \in Ids
          BY <4>6, <5>1, MessageFields
        <5>3. Says(inbox, companion.script, inbox[j].id, {"unavailable"})
          BY <1>8, <4>6 DEF Says
        <5>4. \E y \in Ids : Says(inbox, companion.script, y, {"unavailable"})
          BY <5>2, <5>3
        <5>5. InOrder(Unrefused, app, companion', script, grabs', inbox')
          BY <1>3, <2>2, <2>3, <3>1, <5>4, SetsLate
        <5>6. QED
          BY <2>1, <5>5
      <4>7. QED
        BY <4>4, <4>5, <4>6
    <3>4. QED
      BY <3>2, <3>3
  <2>5. QED
    BY <1>1, <2>2, <2>3, <2>4, CoreStays
<1>9. QED
  BY <1>1, <1>5, <1>6, <1>7, <1>8

LEMMA HeartbeatKeepsQueue ==
  ASSUME ChannelInv, Queued, HeartbeatExpires
  PROVE  QueueKept
<1>1. /\ companion' = [companion EXCEPT !.fresh = FALSE]
      /\ UNCHANGED <<app, script, grabs, inbox>>
  BY DEF HeartbeatExpires, native
<1>2. companion \in Companions
  BY QueuedNow
<1>3. SameCore(companion')
  BY <1>1, <1>2 DEF Companions, SameCore
<1>4. SameWord(inbox, inbox')
  BY <1>1, WordItself
<1>5. QED
  BY <1>1, <1>3, <1>4, CoreKeepsQueue

LEMMA RestartKeepsQueue ==
  ASSUME ChannelInv, Queued, CompanionDies \/ CompanionStarts
  PROVE  QueueKept
<1>1. /\ app' = app /\ inbox' = <<>>
      /\ companion'.script = None /\ companion'.controller = None
      /\ companion'.requests = <<>> /\ companion'.results = {}
  <2>1. CASE CompanionDies
    BY <2>1 DEF CompanionDies, Started
  <2>2. CASE CompanionStarts
    BY <2>2, ChannelInvNamed DEF CompanionStarts, Started
  <2>3. QED
    BY <2>1, <2>2
<1>2. DOMAIN <<>> = {}
  OBVIOUS
<1>3. Paired(inbox') /\ \A x : Unused(inbox', x)
  BY <1>1, <1>2 DEF Paired, Unused
<1>4. Connected(app, companion, inbox) /\ app \in [Apps -> AppRecords]
  BY QueuedNow
<1>5. Connected(app', companion', inbox')
  BY <1>1, <1>3, <1>4 DEF Connected
<1>6. Aware(app', companion')
  BY <1>1 DEF Aware
<1>7. QED
  BY <1>1, <1>5, <1>6, QueueEmptied

\* A message is read that is none of the queue's business.
LEMMA ReadAside ==
  ASSUME ChannelInv, Queued, UNCHANGED <<app, script, grabs>>, inbox # <<>>,
         Head(inbox).kind \in {"call", "lost"},
         companion.controller # None => ~LostFirst(inbox, companion.controller),
         companion' = companion \/ companion' = EnsureReady(companion), inbox' = Tail(inbox)
  PROVE  QueueKept
<1>1. /\ app \in [Apps -> AppRecords] /\ inbox \in Seq(Message) /\ companion \in Companions
      /\ Sound(companion) /\ Connected(app, companion, inbox)
  BY QueuedNow
<1>2. CASE companion' = companion
  <2>1. Connected(app, companion, Tail(inbox))
    BY <1>1, ConnectedRead
  <2>2. /\ SaysSame(inbox, Tail(inbox)) /\ (Resets(Tail(inbox)) <=> Resets(inbox))
    BY <1>1, TailWord DEF SaysSame
  <2>3. Heeds(companion, inbox, Tail(inbox))
    BY <1>1, TailWord DEF Heeds
  <2>4. companion.script # None => InOrder(Unrefused, app, companion, script, grabs, Tail(inbox))
    <3>1. SUFFICES ASSUME companion.script # None
                   PROVE  InOrder(Unrefused, app, companion, script, grabs, Tail(inbox))
      OBVIOUS
    <3>2. /\ InOrder(Unrefused, app, companion, script, grabs, inbox) /\ Same(companion, companion)
          /\ \A i \in DOMAIN companion.requests : companion.requests[i].id \in Ids
      BY <3>1, QueuedNow
    <3>3. QED
      BY <2>2, <2>3, <3>2, Aside
  <2>5. Queue(Unrefused, app, companion, script, grabs, Tail(inbox))
    BY <2>1, <2>4, QueuedNow DEF Queue, Queued
  <2>6. QED
    BY <1>2, <2>5 DEF QueueKept
<1>3. CASE companion' = EnsureReady(companion) /\ companion' # companion
  <2>1. Reset(companion, companion')
    BY <1>1, <1>3, EnsureReadyShape
  <2>2. Connected(app, companion', Tail(inbox))
    BY <1>1, <2>1, ConnectedRead DEF Reset
  <2>3. Unrefused => Aware(app, companion')
    BY <2>1, QueuedNow DEF Reset, Aware
  <2>4. QED
    BY <2>1, <2>2, <2>3, QueueEmptied DEF Reset
<1>4. QED
  BY <1>2, <1>3

\* An id that is issued afresh is nowhere in hand, and nobody waits for it.
LEMMA FreshId ==
  ASSUME ChannelInv, Queued, companion.script # None,
         NEW x \in Ids, x \notin companion.issued \cap RememberedElsewhere
  PROVE  /\ ~InHand(companion, script, inbox, x)
         /\ \A y \in Ids : InHand(companion, script, inbox, y) =>
              y \in companion.issued /\ y \in RememberedElsewhere
         /\ \A a \in Apps : app[a].doing = "waiting" =>
              app[a].id # x /\ app[a].id \in companion.issued
<1>1. InOrder(Unrefused, app, companion, script, grabs, inbox)
  BY QueuedNow
<1>2. Claims(companion, script, grabs, inbox) /\ Waits(app, companion)
  BY <1>1 DEF InOrder
<1>3. \A y \in Ids : InHand(companion, script, inbox, y) => y \in companion.issued
  BY <1>2 DEF Claims
<1>4. \A y \in Ids : InHand(companion, script, inbox, y) => y \in RememberedElsewhere
  BY DEF InHand, Says, RememberedElsewhere
<1>5. \A a \in Apps : app[a].id \in RememberedElsewhere
  BY DEF RememberedElsewhere
<1>6. QED
  BY <1>2, <1>3, <1>4, <1>5 DEF Waits

\* No request is refused, and no App holds hotkeys but the controller.
Undisputed(w, d, r) ==
  /\ Aware(w, d)
  /\ \A x : ~Says(r, d.script, x, {"rejected"})
  /\ \A a \in Apps : w[a].doing = "idle" /\ w[a].held \notin {None, {}}
       => d.controller = w[a].conn

\* The set is what every App would have that believes to hold hotkeys.
Wanted(w, d, set) ==
  \A a \in Apps : w[a].doing = "idle" /\ w[a].held \in SUBSET Keys /\ w[a].held # {} =>
    /\ d.controller \in {None, w[a].conn} => set \in {{}, w[a].held}
    /\ d.controller # None => set # {}

\* The queue starts over, with one request that nothing is known of yet.
LEMMA StartingOver ==
  ASSUME NEW free, NEW w \in [Apps -> AppRecords], NEW c, NEW d, NEW s, NEW g, NEW r, NEW set \in SUBSET Keys,
         StartsOver(c, d, set), s.update.id # 0 => d.script = s.name,
         \A y \in Ids : InHand(d, s, r, y) => y \in c.issued /\ y \in RememberedElsewhere,
         \A a \in Apps : w[a].doing = "waiting" =>
           /\ w[a].id \in Ids /\ w[a].id \in c.issued /\ w[a].id \in RememberedElsewhere
           /\ \A b \in Apps : w[b].doing = "waiting" /\ w[a].id = w[b].id => a = b,
         Wanted(w, d, set), free => Undisputed(w, d, r)
  PROVE  InOrder(free, w, d, s, g, r) /\ Distinct(d)
<1>1. PICK x \in Ids :
        /\ x \notin c.issued \cap RememberedElsewhere
        /\ x \in d.issued
        /\ \A y \in c.issued : y \in RememberedElsewhere => y \in d.issued
        /\ d.requests = <<Entry(x, set, d.controller)>>
  BY DEF StartsOver
<1> DEFINE e == Entry(x, set, d.controller)
<1>2. e.id = x /\ e.set = set /\ e.controller = d.controller /\ ~e.claimed
  BY DEF Entry
<1> HIDE DEF e
<1>3. DOMAIN d.requests = {1} /\ d.requests[1] = e
  BY <1>1 DEF e
<1>4. d.registered = {} /\ d.results = {}
  BY DEF StartsOver
<1>5. ~InHand(d, s, r, x)
  BY <1>1
<1>6. Claims(d, s, g, r)
  <2>1. \A y \in Ids : InHand(d, s, r, y) => y # x /\ y \in d.issued
    BY <1>1, <1>5
  <2>2. \A y \in Ids : Says(r, d.script, y, {"ok"}) => y # x
    <3>1. \A y : Says(r, d.script, y, {"ok"}) => InHand(d, s, r, y)
      BY DEF Says, InHand, Answers
    <3>2. QED
      BY <1>5, <3>1
  <2>3. QED
    BY <1>2, <1>3, <1>4, <1>5, <2>1, <2>2 DEF Claims
<1>7. \A a \in Apps : w[a].doing = "waiting" => w[a].id # x /\ w[a].id \in d.issued
  BY <1>1
<1>8. Waits(w, d)
  BY <1>2, <1>3, <1>7 DEF Waits
<1>9. Live(d, s, r) \subseteq {1}
  BY <1>3 DEF Live
<1>10. Ranks(w, d, r, Live(d, s, r))
  BY <1>3, <1>9 DEF Ranks
<1>11. \A a \in Apps : \A S \in SUBSET Keys :
         Believes(w, d, a, S) => w[a].doing = "idle" /\ w[a].held = S
  BY <1>2, <1>3, <1>4, <1>7 DEF Believes, Known, Answered
<1>12. Restores(w, d, r, Live(d, s, r))
  <2>1. Releasing(d, Live(d, s, r)) => NoHolder(w, d)
    BY <1>2, <1>3, <1>11 DEF Releasing, NoHolder, Wanted
  <2>2. QED
    BY <1>2, <1>3, <1>9, <2>1 DEF Restores
<1>13. Beliefs(w, d, s, g, r, Live(d, s, r))
  <2>1. SUFFICES ASSUME NEW a \in Apps, NEW S \in SUBSET Keys, S # {}, Believes(w, d, a, S),
                        d.controller \in {None, w[a].conn}
                 PROVE  Restored(w, d, Live(d, s, r), a, S)
    BY DEF Beliefs
  <2>2. set \in {{}, S}
    BY <1>11, <2>1 DEF Wanted
  <2>3. QED
    BY <1>2, <1>3, <1>4, <1>9, <2>2 DEF Restored
<1>14. OkIsSo(w, d)
  BY <1>4 DEF OkIsSo, Answered
<1>15. Distinct(d)
  BY <1>1, <1>2, <1>3, <1>4 DEF Distinct
<1>16. ASSUME free
       PROVE  Owned(w, d, r, Live(d, s, r))
  <2>1. Undisputed(w, d, r)
    BY <1>16
  <2>2. Unrejected(d, r)
    BY <1>4, <2>1 DEF Unrejected, Undisputed
  <2>3. Owning(w, d)
    BY <1>2, <1>3, <1>4, <1>7, <2>1 DEF Owning, Undisputed, Answered
  <2>4. \A a \in Apps : w[a].held \in SUBSET Keys \/ w[a].held = None
    BY DEF AppRecords
  <2>5. \A a \in Apps : Informed(w, d, a) /\ w[a].conn = d.controller /\ d.controller # None
          => set # {}
    BY <1>2, <1>3, <1>4, <1>7, <2>1, <2>4 DEF Informed, Known, Undisputed, Aware, Wanted
  <2>6. Releases(w, d, Live(d, s, r))
    BY <1>2, <1>3, <1>9, <2>5 DEF Releases
  <2>7. Single(d, r, Live(d, s, r))
    BY <1>2, <1>3, <1>9 DEF Single
  <2>8. QED
    BY <2>2, <2>3, <2>6, <2>7 DEF Owned
<1>17. QED
  BY <1>6, <1>8, <1>10, <1>12, <1>13, <1>14, <1>15, <1>16 DEF InOrder

LEMMA HandleLostKeepsQueue ==
  ASSUME ChannelInv, Queued, HandleLost
  PROVE  QueueKept
<1> DEFINE owner == Head(inbox).sender
<1>1. /\ Handling("lost") /\ UNCHANGED <<app, script, grabs>> /\ inbox' = Tail(inbox)
      /\ companion' = OwnerLost(companion, owner)
  BY DEF HandleLost, native
<1>2. /\ companion.up /\ inbox # <<>> /\ Head(inbox).kind = "lost" /\ Head(inbox) \in Message
  BY <1>1, HandlingFacts
<1>3. owner \in Connections \cup ScriptNames /\ owner # None
  BY <1>2, MessageFields, ConstantsOK
<1>4. /\ app \in [Apps -> AppRecords] /\ inbox \in Seq(Message) /\ companion \in Companions
      /\ Sound(companion) /\ Connected(app, companion, inbox) /\ Distinct(companion)
  BY QueuedNow
<1>5. LostFirst(inbox, owner) /\ \A x : LostFirst(inbox, x) => x = owner
  BY <1>2 DEF LostFirst
<1> HIDE DEF owner
<1>6. /\ companion'.up
      /\ CASE companion.script = owner -> Reset(companion, companion')
           [] companion.script # owner /\ companion.controller = owner ->
                /\ companion'.controller = None /\ companion'.script = companion.script
                /\ companion'.registered = {} /\ companion'.results = {}
                /\ companion.script # None => StartsOver(companion, companion', {})
                /\ companion.script = None => companion'.requests = <<>>
           [] OTHER -> companion' = companion
  BY <1>1, <1>2, <1>3, <1>4, OwnerLostShape
<1>7. CASE companion.script = owner
  <2>1. Reset(companion, companion')
    BY <1>6, <1>7
  <2>2. owner \notin Connections
    BY <1>3, <1>4, <1>7, ConstantsOK DEF Companions, Names
  <2>3. companion.controller # owner
    BY <1>3, <1>4, <2>2 DEF Companions, Controllers
  <2>4. Connected(app, companion', Tail(inbox))
    BY <1>2, <1>4, <1>5, <2>1, <2>3, ConnectedRead DEF Reset
  <2>5. Unrefused => Aware(app, companion')
    BY <2>1, QueuedNow DEF Reset, Aware
  <2>6. QED
    BY <1>1, <2>1, <2>4, <2>5, QueueEmptied DEF Reset
<1>8. CASE companion.script # owner /\ companion.controller = owner
  <2>1. /\ companion'.controller = None /\ companion'.script = companion.script
        /\ companion'.registered = {} /\ companion'.results = {}
        /\ companion.script # None => StartsOver(companion, companion', {})
        /\ companion.script = None => companion'.requests = <<>>
    BY <1>6, <1>8
  <2>2. Connected(app, companion', Tail(inbox))
    <3>1. /\ Paired(Tail(inbox)) /\ \A x : Unused(inbox, x) => Unused(Tail(inbox), x)
      BY <1>2, <1>4, TailWord DEF Connected
    <3>2. QED
      BY <1>4, <2>1, <3>1, ConnectedStays
  <2>3. CASE companion.script = None
    <3>1. Aware(app, companion')
      BY <2>1 DEF Aware
    <3>2. QED
      BY <1>1, <2>1, <2>2, <2>3, <3>1, QueueEmptied
  <2>4. CASE companion.script # None
    <3>1. InOrder(Unrefused, app, companion, script, grabs, inbox)
      BY <2>4, QueuedNow
    <3>2. Claims(companion, script, grabs, inbox) /\ Waits(app, companion)
      BY <3>1 DEF InOrder
    <3>3. \A y \in Ids : InHand(companion', script, Tail(inbox), y) =>
            y \in companion.issued /\ y \in RememberedElsewhere
      <4>1. \A y : InHand(companion', script, Tail(inbox), y) =>
              InHand(companion, script, inbox, y)
        BY <1>2, <1>4, <2>1, TailWord DEF InHand
      <4>2. \A y \in Ids : InHand(companion, script, inbox, y) => y \in RememberedElsewhere
        BY DEF InHand, Says, RememberedElsewhere
      <4>3. QED
        BY <3>2, <4>1, <4>2 DEF Claims
    <3>4. \A a \in Apps : app[a].doing = "waiting" =>
            /\ app[a].id \in Ids /\ app[a].id \in companion.issued
            /\ app[a].id \in RememberedElsewhere
            /\ \A b \in Apps : app[b].doing = "waiting" /\ app[a].id = app[b].id => a = b
      <4>1. \A a \in Apps : app[a].id \in RememberedElsewhere
        BY DEF RememberedElsewhere
      <4>2. companion.issued \subseteq Ids
        BY <1>4 DEF Companions
      <4>3. QED
        BY <3>2, <4>1, <4>2 DEF Waits
    <3>5. script.update.id # 0 => companion'.script = script.name
      BY <2>1, <3>2 DEF Claims
    <3>6. StartsOver(companion, companion', {}) /\ {} \in SUBSET Keys
      BY <2>1, <2>4
    <3>7. Wanted(app, companion', {})
      BY <2>1 DEF Wanted
    <3>8. ASSUME Unrefused
          PROVE  Undisputed(app, companion', Tail(inbox))
      <4>1. Unrejected(companion, inbox) /\ Owning(app, companion)
        BY <3>1, <3>8 DEF InOrder, Owned
      <4>2. \A x : ~Says(Tail(inbox), companion'.script, x, {"rejected"})
        BY <1>2, <1>4, <2>1, <4>1, TailWord DEF Unrejected
      <4>3. Aware(app, companion')
        BY <2>1 DEF Aware
      <4>4. ~Unused(inbox, owner)
        BY <1>2, <1>4 DEF Unused, owner
      <4>5. \A a \in Apps : app[a].conn # owner
        BY <1>3, <1>4, <4>4 DEF Connected
      <4>6. QED
        BY <1>8, <4>1, <4>2, <4>3, <4>5 DEF Undisputed, Owning
    <3>9. InOrder(Unrefused, app, companion', script, grabs, Tail(inbox)) /\ Distinct(companion')
      BY <1>4, <3>3, <3>4, <3>5, <3>6, <3>7, <3>8, StartingOver
    <3>10. Aware(app, companion')
      BY <2>1 DEF Aware
    <3>11. Queue(Unrefused, app, companion', script, grabs, Tail(inbox))
      BY <2>2, <3>9, <3>10 DEF Queue
    <3>12. QED
      BY <1>1, <3>11 DEF QueueKept
  <2>5. QED
    BY <2>3, <2>4
<1>9. CASE companion.script # owner /\ companion.controller # owner
  <2>1. companion' = companion
    BY <1>6, <1>9
  <2>2. companion.controller # None => ~LostFirst(inbox, companion.controller)
    BY <1>5, <1>9
  <2>3. QED
    BY <1>1, <1>2, <2>1, <2>2, ReadAside
<1>10. QED
  BY <1>7, <1>8, <1>9

\* The App waits for the request, or has nothing to do with it.
Joins(w, v, b, set, mine, x) ==
  \/ v[b] = w[b] /\ v[b].conn # mine
  \/ /\ v[b].conn = mine /\ v[b].id = x /\ v[b].set = set
     /\ v[b].doing \in {"waiting", "quitting"} /\ v[b].held = w[b].held
     /\ w[b].doing = "idle" /\ w[b].id = 0
     /\ w[b].held \in SUBSET Keys => w[b].conn = mine

\* The caller is an App without a request, or is lost by now.
Entitled(w, v, c, r, mine) ==
  \/ LostFirst(r, mine) /\ \A b \in Apps : v[b].conn # mine
  \/ \E a \in Apps :
       /\ v[a].conn = mine /\ w[a].doing = "idle" /\ w[a].id = 0
       /\ \/ w[a].conn = mine
          \/ \A i \in DOMAIN c.requests : c.requests[i].controller # mine

\* The request of the set joins the queue of c under the id x, in the name of the
\* connection mine; the Apps of w become those of v, and the inbox q becomes r.
Joining(free, w, v, c, d, s, g, q, r, set, mine, x) ==
  /\ InOrder(free, w, c, s, g, q)
  /\ Distinct(c)
  /\ Enqueued(c, d, set, mine, x)
  /\ c.controller \in {None, mine}
  /\ ~InHand(c, s, q, x)
  /\ \A y \in Ids : InHand(c, s, q, y) => y \in RememberedElsewhere
  /\ \A b \in Apps : w[b].doing = "waiting" => w[b].id # x /\ w[b].id \in RememberedElsewhere
  /\ SaysSame(q, r)
  /\ Resets(r) <=> Resets(q)
  /\ \A y : CalledIn(r, y) => CalledIn(q, y)
  /\ ~CalledIn(r, mine)
  /\ \A b \in Apps : Joins(w, v, b, set, mine, x)
  /\ \A b, e \in Apps : v[b].conn = mine /\ v[e].conn = mine => b = e
  /\ \A i \in DOMAIN c.requests : 1 < i => c.requests[i].controller # mine
  /\ c.controller = mine /\ Releasing(c, Live(c, s, q)) => NoHolder(w, c)
  /\ OwnRelease(v, d) \/ c.requests # <<>> \/ LostIn(r, mine)
  /\ c.requests \in Seq(Request)
  /\ Entitled(w, v, c, r, mine)
  /\ \A b \in Apps : w[b].conn = None => w[b].held = None /\ w[b].doing # "waiting"

LEMMA Enqueuing ==
  ASSUME NEW free, NEW w, NEW v, NEW c \in Companions, NEW d, NEW s, NEW g, NEW q, NEW r,
         NEW set, NEW mine \in Connections, NEW x \in Ids,
         Joining(free, w, v, c, d, s, g, q, r, set, mine, x)
  PROVE  InOrder(free, v, d, s, g, r) /\ Distinct(d)
<1> /\ InOrder(free, w, c, s, g, q)
    /\ Distinct(c)
    /\ Enqueued(c, d, set, mine, x)
    /\ c.controller \in {None, mine}
    /\ ~InHand(c, s, q, x)
    /\ \A y \in Ids : InHand(c, s, q, y) => y \in RememberedElsewhere
    /\ \A b \in Apps : w[b].doing = "waiting" => w[b].id # x /\ w[b].id \in RememberedElsewhere
    /\ SaysSame(q, r)
    /\ Resets(r) <=> Resets(q)
    /\ \A y : CalledIn(r, y) => CalledIn(q, y)
    /\ ~CalledIn(r, mine)
    /\ \A b \in Apps : Joins(w, v, b, set, mine, x)
    /\ \A b, e \in Apps : v[b].conn = mine /\ v[e].conn = mine => b = e
    /\ \A i \in DOMAIN c.requests : 1 < i => c.requests[i].controller # mine
    /\ c.controller = mine /\ Releasing(c, Live(c, s, q)) => NoHolder(w, c)
    /\ OwnRelease(v, d) \/ c.requests # <<>> \/ LostIn(r, mine)
    /\ c.requests \in Seq(Request)
    /\ Entitled(w, v, c, r, mine)
    /\ \A b \in Apps : w[b].conn = None => w[b].held = None /\ w[b].doing # "waiting"
  BY DEF Joining
<1> \A b \in Apps : \/ v[b] = w[b] /\ v[b].conn # mine
                    \/ /\ v[b].conn = mine /\ v[b].id = x /\ v[b].set = set
                       /\ v[b].doing \in {"waiting", "quitting"} /\ v[b].held = w[b].held
                       /\ w[b].doing = "idle" /\ w[b].id = 0
                       /\ w[b].held \in SUBSET Keys => w[b].conn = mine
  BY DEF Joins
<1> DEFINE n == Len(c.requests)
           e == Entry(x, set, mine)
           live == Live(c, s, q)
           grown == Live(d, s, r)
<1>1. /\ n \in Nat /\ DOMAIN c.requests = 1 .. n /\ DOMAIN d.requests = 1 .. n + 1
      /\ \A i \in DOMAIN c.requests : i \in DOMAIN d.requests /\ d.requests[i] = c.requests[i]
      /\ d.requests[n + 1] = e
      /\ d.controller = mine /\ d.registered = c.registered /\ d.script = c.script
      /\ d.results = {t \in c.results : t.id # x} /\ x \in d.issued
      /\ \A i \in DOMAIN c.requests : c.requests[i] \in Request
  BY DEF Enqueued
<1>2. e.id = x /\ e.set = set /\ e.controller = mine /\ ~e.claimed
  BY DEF Entry
<1> HIDE DEF e, n, live, grown
<1>3. /\ \A i \in DOMAIN d.requests : i \in DOMAIN c.requests \/ i = n + 1
      /\ n + 1 \in DOMAIN d.requests /\ n + 1 \notin DOMAIN c.requests
      /\ \A i \in DOMAIN c.requests : i < n + 1 /\ 1 <= i /\ ~(n + 1 < i)
  BY <1>1
<1>4. \A i \in DOMAIN c.requests : c.requests[i].id # x /\ c.requests[i].id \in Ids
  BY <1>1 DEF Enqueued, Distinct, Request
<1>5. \A y : InHand(d, s, r, y) <=> InHand(c, s, q, y)
  BY <1>1 DEF InHand, SaysSame
<1>6. /\ \A i \in DOMAIN c.requests : i \in grown <=> i \in live
      /\ n + 1 \in grown /\ grown \subseteq DOMAIN d.requests /\ live \subseteq DOMAIN c.requests
  BY <1>1, <1>2, <1>3, <1>5 DEF Live, live, grown
<1>7. /\ Claims(c, s, g, q) /\ Waits(w, c) /\ Ranks(w, c, q, live)
      /\ Restores(w, c, q, live) /\ Beliefs(w, c, s, g, q, live) /\ OkIsSo(w, c)
  BY DEF InOrder, live
<1>8. \A y \in c.issued :
        y \in RememberedElsewhere \/ (\E i \in DOMAIN c.requests : c.requests[i].id = y)
          => y \in d.issued
  BY DEF Enqueued
<1>9. Distinct(d)
  <2>1. \A i, j \in DOMAIN d.requests : d.requests[i].id = d.requests[j].id => i = j
    BY <1>1, <1>2, <1>3, <1>4 DEF Distinct
  <2>2. \A i \in DOMAIN d.requests : d.requests[i].id \in d.issued
    BY <1>1, <1>2, <1>3, <1>8 DEF Distinct
  <2>3. \A t \in d.results : /\ \A i \in DOMAIN d.requests : t.id # d.requests[i].id
                             /\ \A u \in d.results : t.id = u.id => t = u
    BY <1>1, <1>2, <1>3 DEF Distinct
  <2>4. QED
    BY <2>1, <2>2, <2>3 DEF Distinct
<1>10. Current(d, s, r) <=> Current(c, s, q)
  BY <1>1 DEF Current
<1>11. Claims(d, s, g, r)
  <2>1. \A y \in Ids : InHand(d, s, r, y) =>
          /\ y \in d.issued
          /\ \A i \in DOMAIN d.requests : d.requests[i].id = y =>
               d.requests[i].claimed /\ (s.update.id = y => d.requests[i].set = s.update.set)
          /\ (\A i \in DOMAIN d.requests : d.requests[i].id # y) => d.registered = {}
    <3>1. SUFFICES ASSUME NEW y \in Ids, InHand(c, s, q, y)
                   PROVE  /\ y \in d.issued
                          /\ \A i \in DOMAIN d.requests : d.requests[i].id = y =>
                               d.requests[i].claimed /\ (s.update.id = y => d.requests[i].set = s.update.set)
                          /\ (\A i \in DOMAIN d.requests : d.requests[i].id # y) => d.registered = {}
      BY <1>5
    <3>2. /\ y \in c.issued
          /\ \A i \in DOMAIN c.requests : c.requests[i].id = y =>
               c.requests[i].claimed /\ (s.update.id = y => c.requests[i].set = s.update.set)
          /\ (\A i \in DOMAIN c.requests : c.requests[i].id # y) => c.registered = {}
      BY <1>7, <3>1 DEF Claims
    <3>3. y # x /\ y \in RememberedElsewhere
      BY <3>1
    <3>4. y \in d.issued
      BY <1>8, <3>2, <3>3
    <3>5. QED
      BY <1>1, <1>2, <1>3, <3>2, <3>3, <3>4
  <2>2. \A y \in Ids : Says(r, d.script, y, {"ok"}) /\ Current(d, s, r) =>
          \A i \in DOMAIN d.requests : d.requests[i].id = y =>
            s.active = d.requests[i].set /\ g = d.requests[i].set
    <3>1. \A y : Says(r, d.script, y, {"ok"}) => Says(q, c.script, y, {"ok"})
      BY <1>1 DEF SaysSame
    <3>2. \A y : Says(q, c.script, y, {"ok"}) => InHand(c, s, q, y)
      BY DEF Says, InHand, Answers
    <3>3. \A y : Says(r, d.script, y, {"ok"}) => y # x
      BY <3>1, <3>2
    <3>4. QED
      BY <1>1, <1>2, <1>3, <1>7, <1>10, <3>1, <3>3 DEF Claims
  <2>3. \A i, j \in DOMAIN d.requests :
          InHand(d, s, r, d.requests[i].id) /\ ~d.requests[j].claimed => i < j
    <3>1. SUFFICES ASSUME NEW i \in DOMAIN d.requests, NEW j \in DOMAIN d.requests,
                          InHand(c, s, q, d.requests[i].id), ~d.requests[j].claimed
                   PROVE  i < j
      BY <1>5
    <3>2. i \in DOMAIN c.requests
      BY <1>1, <1>2, <1>3, <3>1
    <3>3. QED
      BY <1>1, <1>3, <1>7, <3>1, <3>2 DEF Claims
  <2>4. QED
    BY <1>1, <1>7, <2>1, <2>2, <2>3 DEF Claims
<1>12. \A b \in Apps : v[b].doing = "waiting" =>
         \/ v[b] = w[b] /\ v[b].conn # mine
         \/ v[b].conn = mine /\ v[b].id = x /\ v[b].set = set
  OBVIOUS
<1>13. Waits(v, d)
  <2>1. \A b \in Apps : w[b].doing = "waiting" => w[b].id \in d.issued /\ w[b].id # x
    BY <1>7, <1>8 DEF Waits
  <2>2. SUFFICES ASSUME NEW a \in Apps, v[a].doing = "waiting"
                 PROVE  /\ v[a].id \in d.issued
                        /\ \A i \in DOMAIN d.requests : d.requests[i].id = v[a].id =>
                             d.requests[i].set = v[a].set /\ d.requests[i].controller = v[a].conn
                        /\ \A b \in Apps : v[b].doing = "waiting" /\ v[a].id = v[b].id => a = b
    BY DEF Waits
  <2>3. CASE v[a] = w[a] /\ v[a].conn # mine
    <3>1. /\ v[a].id \in d.issued /\ v[a].id # x
          /\ \A i \in DOMAIN c.requests : c.requests[i].id = v[a].id =>
               c.requests[i].set = v[a].set /\ c.requests[i].controller = v[a].conn
          /\ \A b \in Apps : w[b].doing = "waiting" /\ v[a].id = w[b].id => a = b
      BY <1>7, <2>1, <2>2, <2>3 DEF Waits
    <3>2. QED
      BY <1>1, <1>2, <1>3, <1>12, <3>1
  <2>4. CASE v[a].conn = mine /\ v[a].id = x /\ v[a].set = set
    <3>1. \A i \in DOMAIN d.requests : d.requests[i].id = x => i = n + 1
      BY <1>1, <1>3, <1>4
    <3>2. \A b \in Apps : v[b].doing = "waiting" /\ v[b].id = x => v[b].conn = mine
      BY <1>12, <2>1
    <3>3. QED
      BY <1>1, <1>2, <2>4, <3>1, <3>2
  <2>5. QED
    BY <1>12, <2>2, <2>3, <2>4
<1>14. \A i, j \in DOMAIN c.requests : i < j => c.requests[j].controller # None
  BY <1>7 DEF Ranks
<1>15. mine # None
  BY ConstantsOK
<1>16. Ranks(v, d, r, grown)
  <2>1. \A i, j \in DOMAIN d.requests : i < j => d.requests[j].controller # None
    <3>1. SUFFICES ASSUME NEW i \in DOMAIN d.requests, NEW j \in DOMAIN d.requests, i < j
                   PROVE  d.requests[j].controller # None
      OBVIOUS
    <3>2. CASE j = n + 1
      BY <1>1, <1>2, <1>15, <3>2
    <3>3. CASE j \in DOMAIN c.requests
      <4>1. i \in DOMAIN c.requests
        BY <1>3, <3>1, <3>3
      <4>2. QED
        BY <1>1, <1>14, <3>1, <3>3, <4>1
    <3>4. QED
      BY <1>3, <3>2, <3>3
  <2>2. \A i, j \in grown : i < j => d.requests[j].controller = d.controller
    <3>1. SUFFICES ASSUME NEW i \in grown, NEW j \in grown, i < j
                   PROVE  d.requests[j].controller = mine
      BY <1>1
    <3>2. CASE j = n + 1
      BY <1>1, <1>2, <3>2
    <3>3. CASE j \in DOMAIN c.requests
      <4>1. i \in DOMAIN c.requests
        BY <1>3, <1>6, <3>1, <3>3
      <4>2. c.requests[j].controller = c.controller /\ c.requests[j].controller # None
        BY <1>6, <1>7, <1>14, <3>1, <3>3, <4>1 DEF Ranks
      <4>3. QED
        BY <1>1, <3>3, <4>2
    <3>4. QED
      BY <1>3, <1>6, <3>2, <3>3
  <2>3. \A i, j \in DOMAIN d.requests :
          1 < i /\ 1 < j /\ d.requests[i].controller = d.requests[j].controller => i = j
    <3>1. \A i \in DOMAIN c.requests : 1 < i => c.requests[i].controller # mine
      OBVIOUS
    <3>2. QED
      BY <1>1, <1>2, <1>3, <1>7, <3>1 DEF Ranks
  <2>4. \A a \in Apps : \A i \in DOMAIN d.requests :
          1 < i /\ d.requests[i].controller = v[a].conn => d.requests[i].id = v[a].id
    <3>1. \A i \in DOMAIN c.requests : 1 < i => c.requests[i].controller # mine
      OBVIOUS
    <3>2. SUFFICES ASSUME NEW a \in Apps, NEW i \in DOMAIN d.requests, 1 < i,
                          d.requests[i].controller = v[a].conn
                   PROVE  d.requests[i].id = v[a].id
      OBVIOUS
    <3>3. CASE v[a] = w[a] /\ v[a].conn # mine
      <4>1. i \in DOMAIN c.requests
        BY <1>1, <1>2, <1>3, <3>2, <3>3
      <4>2. QED
        BY <1>1, <1>7, <3>2, <3>3, <4>1 DEF Ranks
    <3>4. CASE v[a].conn = mine /\ v[a].id = x
      <4>1. i = n + 1
        BY <1>1, <1>3, <3>1, <3>2, <3>4
      <4>2. QED
        BY <1>1, <1>2, <3>4, <4>1
    <3>5. QED
      BY <3>3, <3>4
  <2>5. \A i \in DOMAIN d.requests : 1 < i => ~CalledIn(r, d.requests[i].controller)
    BY <1>1, <1>2, <1>3, <1>7 DEF Ranks
  <2>6. QED
    BY <2>1, <2>2, <2>3, <2>4, <2>5 DEF Ranks
<1>17. ASSUME NEW b \in Apps, NEW S \in SUBSET Keys, Believes(v, d, b, S)
       PROVE  /\ Believes(w, c, b, S)
              /\ v[b].conn = mine => v[b].id = x /\ w[b].id = 0 /\ w[b].conn = mine
                                     /\ w[b].doing = "idle" /\ w[b].held = S
  <2>1. \A answers : ~(v[b].id = x /\ Answered(v, d, b, answers))
    BY <1>1 DEF Answered
  <2>2. CASE v[b] = w[b] /\ v[b].conn # mine
    <3>1. w[b].doing = "waiting" => w[b].id # x
      OBVIOUS
    <3>2. w[b].doing = "waiting" => (Known(v, d, b) => Known(w, c, b))
      BY <1>1, <1>2, <1>3, <2>2, <3>1 DEF Known
    <3>3. \A answers : w[b].doing = "waiting" => (Answered(v, d, b, answers) <=> Answered(w, c, b, answers))
      BY <1>1, <2>2, <3>1 DEF Answered
    <3>4. Believes(w, c, b, S)
      BY <1>17, <2>2, <3>2, <3>3 DEF Believes
    <3>5. QED
      BY <2>2, <3>4
  <2>3. CASE /\ v[b].conn = mine /\ v[b].id = x /\ v[b].held = w[b].held
             /\ v[b].doing \in {"waiting", "quitting"}
             /\ w[b].doing = "idle" /\ w[b].id = 0 /\ (w[b].held \in SUBSET Keys => w[b].conn = mine)
    <3>1. w[b].held = S
      BY <1>17, <2>1, <2>3 DEF Believes
    <3>2. QED
      BY <2>3, <3>1 DEF Believes
  <2>4. QED
    BY <2>2, <2>3
<1>18. NoHolder(w, c) => NoHolder(v, d)
  BY <1>17 DEF NoHolder
<1>19. Releasing(d, grown) /\ c.requests # <<>> => NoHolder(w, c)
  <2>1. SUFFICES ASSUME Releasing(d, grown), c.requests # <<>>
                 PROVE  NoHolder(w, c)
    OBVIOUS
  <2>2. 1 \in DOMAIN c.requests
    BY <1>1, <2>1 DEF n
  <2>3. 1 \in live /\ c.requests[1].set = {} /\ c.requests[1].controller = mine
    BY <1>1, <1>6, <2>1, <2>2 DEF Releasing
  <2>4. CASE c.controller = mine
    BY <1>15, <2>3, <2>4 DEF Releasing, live
  <2>5. CASE c.controller = None
    BY <1>7, <1>15, <2>3, <2>5 DEF Restores
  <2>6. QED
    BY <2>4, <2>5
<1>20. Restores(v, d, r, grown)
  <2>1. (/\ Releasing(d, grown) /\ ~OwnRelease(v, d)
         /\ ~LostIn(r, d.controller) \/ CalledIn(r, d.controller)) => NoHolder(v, d)
    BY <1>1, <1>18, <1>19
  <2>2. Releasing(d, grown) /\ (\E i \in grown : 1 < i) => NoHolder(v, d)
    <3>1. c.requests = <<>> => n = 0
      BY DEF n
    <3>2. c.requests = <<>> => ~\E i \in grown : 1 < i
      BY <1>1, <1>6, <3>1
    <3>3. QED
      BY <1>18, <1>19, <3>2
  <2>3. \A i \in grown : d.requests[i].controller \notin {None, d.controller}
          => NoHolder(v, d) /\ d.registered = {}
    BY <1>1, <1>2, <1>3, <1>6, <1>7, <1>18 DEF Restores
  <2>4. QED
    BY <2>1, <2>2, <2>3 DEF Restores
<1>21. Beliefs(v, d, s, g, r, grown)
  <2>1. SUFFICES ASSUME NEW a \in Apps, NEW S \in SUBSET Keys, S # {}, Believes(v, d, a, S),
                        d.controller \in {None, v[a].conn}
                 PROVE  \/ Kept(v, d, grown, a, S) /\ Delivered(v, d, s, g, r, a)
                        \/ Restored(v, d, grown, a, S)
    BY DEF Beliefs
  <2>2. v[a].conn = mine
    BY <1>1, <1>15, <2>1
  <2>3. /\ Believes(w, c, a, S) /\ v[a].id = x /\ w[a].id = 0 /\ w[a].conn = mine
        /\ c.controller \in {None, w[a].conn}
    BY <1>17, <2>1, <2>2
  <2>4. \A i \in live : c.requests[i].id # w[a].id
    BY <1>4, <1>6, <2>3 DEF Ids
  <2>5. CASE Kept(w, c, live, a, S) /\ Delivered(w, c, s, g, q, a)
    <3>1. live = {}
      BY <2>4, <2>5 DEF Kept
    <3>2. Kept(v, d, grown, a, S)
      BY <1>1, <1>2, <1>3, <1>6, <2>3, <2>5, <3>1 DEF Kept
    <3>3. Delivered(v, d, s, g, r, a)
      BY <1>1, <1>10, <2>3, <2>5 DEF Delivered, Good, Changing
    <3>4. QED
      BY <3>2, <3>3
  <2>6. CASE Restored(w, c, live, a, S)
    <3>1. \A i, j \in live : ~(i < j)
      BY <2>4, <2>6 DEF Restored
    <3>2. \A i \in live : c.requests[i].set \in {{}, S}
      BY <2>4, <2>6 DEF Restored
    <3>3. \A i, j \in grown : i < j => j = n + 1
      BY <1>3, <1>6, <3>1
    <3>4. QED
      BY <1>1, <1>2, <1>3, <1>6, <2>3, <2>6, <3>2, <3>3 DEF Restored
  <2>7. QED
    BY <1>7, <2>1, <2>3, <2>5, <2>6 DEF Beliefs
<1>22. OkIsSo(v, d)
  <2>1. \A a \in Apps : v[a].conn = mine => v[a].id = x
    OBVIOUS
  <2>2. \A a \in Apps : v[a].conn = mine => ~Answered(v, d, a, {"ok"})
    BY <1>1, <2>1 DEF Answered
  <2>3. QED
    BY <1>1, <2>2 DEF OkIsSo
<1>23. ASSUME free
       PROVE  Owned(v, d, r, grown)
  <2>1. Unrejected(c, q) /\ Owning(w, c) /\ Releases(w, c, live) /\ Single(c, q, live)
    BY <1>23 DEF InOrder, Owned, live
  <2>2. Unrejected(d, r)
    BY <1>1, <2>1 DEF Unrejected, SaysSame
  <2>3. \A b \in Apps : w[b].conn # mine =>
          /\ ~(w[b].doing = "idle" /\ w[b].held \notin {None, {}})
          /\ ~(w[b].doing = "waiting" /\ \E i \in DOMAIN c.requests : c.requests[i].id = w[b].id)
          /\ ~(w[b].doing = "waiting" /\ Answered(w, c, b, {"ok"}) /\ w[b].set # {})
    BY <2>1 DEF Owning
  <2>4. Owning(v, d)
    <3>1. SUFFICES ASSUME NEW b \in Apps, v[b] = w[b], v[b].conn # mine
                   PROVE  /\ ~(v[b].doing = "idle" /\ v[b].held \notin {None, {}})
                          /\ ~(v[b].doing = "waiting"
                               /\ \E i \in DOMAIN d.requests : d.requests[i].id = v[b].id)
                          /\ ~(v[b].doing = "waiting" /\ Answered(v, d, b, {"ok"}))
                                \/ v[b].set = {}
      BY <1>1 DEF Owning
    <3>2. v[b].doing = "waiting" => v[b].id # x
      BY <3>1
    <3>3. Answered(v, d, b, {"ok"}) => Answered(w, c, b, {"ok"})
      BY <1>1, <3>1 DEF Answered
    <3>4. v[b].doing = "waiting" /\ (\E i \in DOMAIN d.requests : d.requests[i].id = v[b].id)
            => \E i \in DOMAIN c.requests : c.requests[i].id = w[b].id
      BY <1>1, <1>2, <1>3, <3>1, <3>2
    <3>5. QED
      BY <2>3, <3>1, <3>3, <3>4
  <2>5. ~LostFirst(r, mine) \/ (\E b \in Apps : v[b].conn = mine)
          => \A i \in live : c.requests[i].set = {} => c.requests[i].controller # mine
    <3>1. SUFFICES ASSUME ~LostFirst(r, mine) \/ (\E b \in Apps : v[b].conn = mine),
                          NEW i \in live, c.requests[i].set = {}, c.requests[i].controller = mine
                   PROVE  FALSE
      OBVIOUS
    <3>2. PICK a \in Apps : /\ v[a].conn = mine /\ w[a].doing = "idle" /\ w[a].id = 0
                            /\ \/ w[a].conn = mine
                               \/ \A j \in DOMAIN c.requests : c.requests[j].controller # mine
      BY <3>1 DEF Entitled
    <3>3. i \in DOMAIN c.requests /\ c.requests[i].id \in Ids
      BY <1>4, <1>6
    <3>4. w[a].conn = mine
      BY <3>1, <3>2, <3>3
    <3>5. c.controller = mine
      BY <1>15, <2>1, <3>1 DEF Single
    <3>6. c.requests[i].id = w[a].id
      BY <1>15, <2>1, <3>1, <3>2, <3>4, <3>5 DEF Releases, Informed
    <3>7. QED
      BY <3>2, <3>3, <3>6 DEF Ids
  <2>6. Releases(v, d, grown)
    <3>1. SUFFICES ASSUME NEW b \in Apps, v[b].conn = mine, NEW i \in grown,
                          d.requests[i].set = {}, d.requests[i].controller = mine
                   PROVE  d.requests[i].id = v[b].id
      BY <1>1 DEF Releases
    <3>2. CASE i = n + 1
      BY <1>1, <1>2, <3>1, <3>2
    <3>3. CASE i \in DOMAIN c.requests
      BY <1>1, <1>6, <2>5, <3>1, <3>3
    <3>4. QED
      BY <1>3, <1>6, <3>2, <3>3
  <2>7. Single(d, r, grown)
    <3>1. \A i \in grown : d.requests[i].controller \in {None, d.controller}
      <4>1. \A i \in live : c.requests[i].controller \in {None, mine}
        BY <2>1 DEF Single
      <4>2. QED
        BY <1>1, <1>2, <1>3, <1>6, <4>1
    <3>2. Releasing(d, grown) /\ (\E i \in grown : 1 < i) => LostFirst(r, d.controller)
      <4>1. SUFFICES ASSUME Releasing(d, grown), NEW i \in grown, 1 < i
                     PROVE  LostFirst(r, mine)
        BY <1>1
      <4>2. 1 \in DOMAIN c.requests
        BY <1>1, <1>6, <4>1
      <4>3. 1 \in live /\ c.requests[1].set = {} /\ c.requests[1].controller = mine
        BY <1>1, <1>6, <4>1, <4>2 DEF Releasing
      <4>4. QED
        BY <2>5, <4>3
    <3>3. QED
      BY <3>1, <3>2 DEF Single
  <2>8. QED
    BY <2>2, <2>4, <2>6, <2>7 DEF Owned
<1>24. QED
  BY <1>9, <1>11, <1>13, <1>16, <1>20, <1>21, <1>22, <1>23 DEF InOrder, grown

\* The App's connection is its own.
LEMMA OwnConnection ==
  ASSUME ChannelInv, Queued, NEW a \in Apps, CanConnect(a)
  PROVE  /\ ConnectionOf(a) \in Connections /\ ConnectionOf(a) # None
         /\ \A b \in Apps : app[b].conn = ConnectionOf(a) => b = a
         /\ Unused(inbox, ConnectionOf(a))
         /\ app[a].conn # None => ConnectionOf(a) = app[a].conn
         /\ app[a].conn = None =>
              /\ companion.controller # ConnectionOf(a)
              /\ \A i \in DOMAIN companion.requests :
                   companion.requests[i].controller # ConnectionOf(a)
<1>1. app \in [Apps -> AppRecords] /\ Connected(app, companion, inbox)
  BY QueuedNow
<1>2. /\ ConnectionOf(a) \in Connections /\ ConnectionOf(a) # None
      /\ app[a].conn # None => ConnectionOf(a) = app[a].conn
      /\ app[a].conn = None => ConnectionOf(a) \notin InUse
  BY <1>1, ConnectionTyped
<1>3. CASE app[a].conn # None
  BY <1>1, <1>2, <1>3 DEF Connected
<1>4. CASE app[a].conn = None
  BY <1>2, <1>4 DEF InUse, Unused
<1>5. QED
  BY <1>2, <1>3, <1>4

\* The App's record when it waits for a request.
Begun(a, set, doing) ==
  [app[a] EXCEPT !.conn = ConnectionOf(a), !.doing = doing, !.set = set, !.id = NextId(companion)]

LEMMA BeginsRecord ==
  ASSUME NEW a, NEW set, NEW doing, BeginRequest(a, set, doing)
  PROVE  app' = [app EXCEPT ![a] = Begun(a, set, doing)]
<1> DEFINE z == [app EXCEPT ![a] = [@ EXCEPT !.conn = ConnectionOf(a), !.doing = doing,
                                             !.set = set, !.id = NextId(companion)]]
<1>1. z = [app EXCEPT ![a] = Begun(a, set, doing)]
  BY Zenon DEF Begun
<1>2. app' = z
  BY Zenon DEF BeginRequest
<1> HIDE DEF z
<1>3. QED
  BY <1>1, <1>2

LEMMA BeginKeepsQueue ==
  ASSUME ChannelInv, Queued, NEW a \in Apps, NEW set \in SUBSET Keys,
         NEW doing \in {"waiting", "quitting"}, app[a].doing = "idle",
         BeginRequest(a, set, doing)
  PROVE  QueueKept
<1> DEFINE mine == ConnectionOf(a)
           x == NextId(companion)
           z == Begun(a, set, doing)
<1>1. app' = [app EXCEPT ![a] = z]
  BY BeginsRecord
<1>2. /\ companion.script # None /\ CanConnect(a) /\ Authorized(companion, mine)
      /\ Enqueued(companion, companion', set, mine, x)
      /\ app' \in [Apps -> AppRecords]
      /\ UNCHANGED <<script, grabs, inbox>>
  BY BeginShape
<1>3. /\ InOrder(Unrefused, app, companion, script, grabs, inbox) /\ Distinct(companion)
      /\ Connected(app, companion, inbox) /\ companion \in Companions /\ Sound(companion)
      /\ app \in [Apps -> AppRecords]
      /\ \A i \in DOMAIN companion.requests : companion.requests[i].id \in Ids
      /\ companion.requests \in Seq(Request)
  BY <1>2, QueuedNow, RequestsTyped
<1>4. /\ mine \in Connections /\ mine # None
      /\ \A b \in Apps : app[b].conn = mine => b = a
      /\ Unused(inbox, mine)
      /\ app[a].conn # None => mine = app[a].conn
      /\ app[a].conn = None =>
           /\ companion.controller # mine
           /\ \A i \in DOMAIN companion.requests : companion.requests[i].controller # mine
  BY <1>2, OwnConnection
<1>5. app[a] \in AppRecords
  BY <1>3
<1>6. x \in Ids /\ x \notin companion.issued \cap RememberedElsewhere
  BY <1>2 DEF Enqueued
<1>7. companion.controller \in {None, mine}
  BY <1>2 DEF Authorized
<1>8. app[a].id = 0 /\ (app[a].conn = None => app[a].held = None)
  BY <1>3 DEF Connected
<1> HIDE DEF mine, x
<1>9. /\ z \in AppRecords /\ z.conn = mine /\ z.doing = doing /\ z.set = set /\ z.id = x
      /\ z.held = app[a].held
  BY <1>4, <1>5, <1>6 DEF AppRecords, Controllers, Begun, mine, x
<1> HIDE DEF z
<1>10. app'[a] = z /\ \A b \in Apps : b # a => app'[b] = app[b]
  BY <1>1, <1>3
<1>11. ~InHand(companion, script, inbox, x)
       /\ (\A y \in Ids : InHand(companion, script, inbox, y) => y \in RememberedElsewhere)
       /\ \A b \in Apps : app[b].doing = "waiting" => app[b].id # x
  BY <1>2, <1>6, FreshId
<1>12. \A b \in Apps : app[b].id \in RememberedElsewhere
  BY DEF RememberedElsewhere
<1>13. \A b \in Apps : app[b].doing = "waiting" => app[b].id # x /\ app[b].id \in RememberedElsewhere
  BY <1>11, <1>12
<1>14. SaysSame(inbox, inbox) /\ ~CalledIn(inbox, mine) /\ ~LostIn(inbox, mine)
  BY <1>4 DEF SaysSame, Unused, CalledIn, LostIn
<1>15. \A b \in Apps : Joins(app, app', b, set, mine, x)
  <2>1. app[a].held \in SUBSET Keys => app[a].conn = mine
    BY <1>4, <1>8, ConstantsOK
  <2>2. \A b \in Apps : b # a => app'[b] = app[b] /\ app'[b].conn # mine
    BY <1>4, <1>10
  <2>3. QED
    BY <1>8, <1>9, <1>10, <2>1, <2>2 DEF Joins
<1>16. \A b, e \in Apps : app'[b].conn = mine /\ app'[e].conn = mine => b = e
  BY <1>4, <1>10
<1>17. \A i \in DOMAIN companion.requests : 1 < i => companion.requests[i].controller # mine
  <2>1. Ranks(app, companion, inbox, Live(companion, script, inbox))
    BY <1>3 DEF InOrder
  <2>2. \A i \in DOMAIN companion.requests :
          1 < i /\ companion.requests[i].controller = app[a].conn => companion.requests[i].id = 0
    BY <1>8, <2>1 DEF Ranks
  <2>3. QED
    BY <1>3, <1>4, <2>2 DEF Ids
<1>18. ASSUME companion.controller = mine, Releasing(companion, Live(companion, script, inbox))
       PROVE  NoHolder(app, companion)
  <2>1. companion.requests[1].id # 0
    BY <1>3, <1>18 DEF Releasing, Live, Ids
  <2>2. ~OwnRelease(app, companion)
    BY <1>4, <1>8, <1>18, <2>1 DEF OwnRelease
  <2>3. Restores(app, companion, inbox, Live(companion, script, inbox))
    BY <1>3 DEF InOrder
  <2>4. QED
    BY <1>14, <1>18, <2>2, <2>3 DEF Restores
<1>19. OwnRelease(app', companion') \/ companion.requests # <<>> \/ LostIn(inbox, mine)
  <2>1. SUFFICES ASSUME companion.requests = <<>>
                 PROVE  OwnRelease(app', companion')
    OBVIOUS
  <2> DEFINE e == Entry(x, set, mine)
  <2>2. companion'.requests = Append(<<>>, e) /\ companion'.controller = mine
    BY <1>2, <2>1 DEF Enqueued
  <2>3. e.id = x
    BY DEF Entry
  <2>4. e \in Request
    BY <1>4, <1>6 DEF Entry, Request
  <2> HIDE DEF e
  <2>5. companion'.requests[1] = e
    BY <2>2, <2>4
  <2>6. QED
    BY <1>9, <1>10, <2>2, <2>3, <2>5 DEF OwnRelease
<1>20. \A y : CalledIn(inbox, y) => CalledIn(inbox, y)
  OBVIOUS
<1>21. Resets(inbox) <=> Resets(inbox)
  OBVIOUS
<1>22. Entitled(app, app', companion, inbox, mine)
  BY <1>4, <1>8, <1>9, <1>10 DEF Entitled
<1>23. \A b \in Apps : app[b].conn = None => app[b].held = None /\ app[b].doing # "waiting"
  BY <1>3 DEF Connected
<1>24. InOrder(Unrefused, app', companion', script, grabs, inbox) /\ Distinct(companion')
  <2>1. companion.controller = mine /\ Releasing(companion, Live(companion, script, inbox))
          => NoHolder(app, companion)
    BY <1>18
  <2>2. Joining(Unrefused, app, app', companion, companion', script, grabs, inbox, inbox, set, mine, x)
    BY <1>2, <1>3, <1>7, <1>11, <1>13, <1>14, <1>15, <1>16, <1>17, <1>19, <1>20, <1>21, <1>22, <1>23,
       <2>1 DEF Joining
  <2> DEFINE v == app'
             d == companion'
  <2>3. Joining(Unrefused, app, v, companion, d, script, grabs, inbox, inbox, set, mine, x)
    BY <2>2
  <2> HIDE DEF v, d
  <2>4. InOrder(Unrefused, v, d, script, grabs, inbox) /\ Distinct(d)
    BY <1>3, <1>4, <1>6, <2>3, Enqueuing
  <2>5. QED
    BY <2>4 DEF v, d
<1>25. Connected(app', companion', inbox)
  <2>1. Standing(z)
    BY <1>4, <1>6, <1>9 DEF Standing, Ids
  <2>2. companion'.controller = mine /\ companion'.up
    BY <1>2, <1>3 DEF Enqueued, Sound
  <2>3. \A b \in Apps : b # a /\ app[b].conn # None => Unused(inbox, app[b].conn)
    BY <1>3 DEF Connected
  <2>4. Paired(inbox)
    BY <1>3 DEF Connected
  <2>5. z.conn # None => Unused(inbox, z.conn) /\ \A b \in Apps : app[b].conn = z.conn => b = a
    BY <1>4, <1>9
  <2>6. app' = [app EXCEPT ![a] = z]
    BY <1>1
  <2>7. z.conn = companion'.controller
    BY <1>9, <2>2
  <2>8. QED
    BY <1>3, <1>9, <2>1, <2>2, <2>3, <2>4, <2>5, <2>6, <2>7, ConnectedMoves
<1>26. Aware(app', companion')
  <2>1. \A b \in Apps : app'[b].conn = mine => app'[b].doing # "idle"
    BY <1>4, <1>9, <1>10
  <2>2. QED
    BY <1>2, <2>1 DEF Enqueued, Aware
<1>27. Queue(Unrefused, app', companion', script', grabs', inbox')
  BY <1>2, <1>24, <1>25, <1>26 DEF Queue
<1>28. QED
  BY <1>27 DEF QueueKept

\* A late call is followed by the end of its connection, and is its only call.
LEMMA CallFirst ==
  ASSUME NEW q \in Seq(Message), q # <<>>, Head(q).kind = "call", Paired(q)
  PROVE  /\ CalledIn(q, Head(q).sender) /\ ~CalledIn(Tail(q), Head(q).sender)
         /\ LostIn(Tail(q), Head(q).sender) /\ LostFirst(Tail(q), Head(q).sender)
<1> DEFINE m == Head(q)
           r == Tail(q)
<1>1. /\ m = q[1] /\ 1 \in DOMAIN q
      /\ \A i \in DOMAIN r : i + 1 \in DOMAIN q /\ r[i] = q[i + 1]
      /\ \A i \in DOMAIN q : i = 1 \/ (i - 1 \in DOMAIN r /\ r[i - 1] = q[i])
      /\ DOMAIN r \subseteq Nat /\ 0 \notin DOMAIN r
  BY TailFacts
<1> HIDE DEF r, m
<1>2. q[1].kind = "call"
  BY <1>1 DEF m
<1>3. /\ 2 \in DOMAIN q /\ q[2].kind = "lost" /\ q[2].sender = m.sender
      /\ \A j \in DOMAIN q : q[j].kind = "call" /\ q[j].sender = m.sender => 1 = j
  <2>1. /\ 1 + 1 \in DOMAIN q /\ q[1 + 1].kind = "lost" /\ q[1 + 1].sender = q[1].sender
        /\ \A j \in DOMAIN q : q[j].kind = "call" /\ q[j].sender = q[1].sender => 1 = j
    BY <1>1, <1>2, Zenon DEF Paired
  <2>2. QED
    BY <1>1, <2>1
<1>4. CalledIn(q, m.sender)
  BY <1>1, <1>2 DEF CalledIn
<1>5. \A i \in DOMAIN r : i + 1 # 1
  BY <1>1
<1>6. ~CalledIn(r, m.sender)
  BY <1>1, <1>3, <1>5 DEF CalledIn
<1>7. 1 \in DOMAIN r /\ r[1] = q[2]
  BY <1>1, <1>3
<1>8. LostFirst(r, m.sender)
  <2>1. r \in Seq(Message)
    BY DEF r
  <2>2. r # <<>> /\ Head(r) = r[1]
    BY <1>7, <2>1
  <2>3. QED
    BY <1>3, <1>7, <2>2 DEF LostFirst
<1>9. LostIn(r, m.sender)
  BY <1>3, <1>7 DEF LostIn
<1>10. QED
  BY <1>4, <1>6, <1>9, <1>8 DEF r, m

LEMMA HandleLateCallKeepsQueue ==
  ASSUME ChannelInv, Queued, HandleLateCall
  PROVE  QueueKept
<1> DEFINE m == Head(inbox)
           mine == m.sender
           set == m.set
           x == NextId(companion)
           r == Tail(inbox)
<1>1. /\ Handling("call") /\ UNCHANGED <<app, script, grabs>> /\ inbox' = r
      /\ companion' = IF Ready(companion) /\ Authorized(companion, mine)
                      THEN RegisterHotkeys(companion, mine, set) ELSE EnsureReady(companion)
  BY DEF HandleLateCall, native
<1>2. /\ companion.up /\ inbox # <<>> /\ m.kind = "call" /\ m \in Message
  BY <1>1, HandlingFacts
<1>3. mine \in Connections /\ set \in SUBSET Keys
  BY <1>2, MessageFields
<1>4. /\ app \in [Apps -> AppRecords] /\ inbox \in Seq(Message) /\ companion \in Companions
      /\ Sound(companion) /\ Connected(app, companion, inbox) /\ Distinct(companion)
  BY QueuedNow
<1>5. CASE companion' = EnsureReady(companion)
  <2>1. companion.controller # None => ~LostFirst(inbox, companion.controller)
    BY <1>2 DEF LostFirst
  <2>2. Head(inbox).kind \in {"call", "lost"} /\ inbox' = Tail(inbox)
    BY <1>1, <1>2
  <2>3. QED
    BY <1>1, <1>2, <1>5, <2>1, <2>2, ReadAside
<1>6. CASE /\ Ready(companion) /\ Authorized(companion, mine)
           /\ companion' = RegisterHotkeys(companion, mine, set)
  <2>1. companion.script # None /\ companion.controller \in {None, mine}
    BY <1>6 DEF Ready, Authorized
  <2>2. Enqueued(companion, companion', set, mine, x)
    BY <1>3, <1>4, <1>6, <2>1, RegisterShape
  <2>3. x \in Ids /\ x \notin companion.issued \cap RememberedElsewhere
    BY <2>2 DEF Enqueued
  <2>4. InOrder(Unrefused, app, companion, script, grabs, inbox)
    BY <2>1, QueuedNow
  <2>5. companion.requests \in Seq(Request)
    BY <1>4, RequestsTyped
  <2>6. CalledIn(inbox, mine) /\ ~CalledIn(r, mine) /\ LostIn(r, mine) /\ LostFirst(r, mine)
    BY <1>2, <1>4, CallFirst DEF Connected
  <2> HIDE DEF mine, set, x, r
  <2>7. \A b \in Apps : app[b].conn # mine
    BY <1>3, <1>4, <2>6, ConstantsOK DEF Connected, Unused, CalledIn
  <2>8. /\ SaysSame(inbox, r) /\ (Resets(r) <=> Resets(inbox))
        /\ \A y : CalledIn(r, y) => CalledIn(inbox, y)
    BY <1>2, <1>4, TailWord DEF SaysSame, r
  <2>9. ~InHand(companion, script, inbox, x)
        /\ (\A y \in Ids : InHand(companion, script, inbox, y) => y \in RememberedElsewhere)
        /\ \A b \in Apps : app[b].doing = "waiting" => app[b].id # x
    BY <2>1, <2>3, FreshId
  <2>10. \A b \in Apps : app[b].id \in RememberedElsewhere
    BY DEF RememberedElsewhere
  <2>11. \A b \in Apps : app[b].doing = "waiting" => app[b].id # x /\ app[b].id \in RememberedElsewhere
    BY <2>9, <2>10
  <2>12. \A b \in Apps : Joins(app, app, b, set, mine, x)
    BY <2>7 DEF Joins
  <2>13. \A i \in DOMAIN companion.requests : 1 < i => companion.requests[i].controller # mine
    BY <2>4, <2>6 DEF InOrder, Ranks
  <2>14. companion.controller = mine /\ Releasing(companion, Live(companion, script, inbox))
           => NoHolder(app, companion)
    <3>1. Restores(app, companion, inbox, Live(companion, script, inbox))
      BY <2>4 DEF InOrder
    <3>2. companion.controller = mine => ~OwnRelease(app, companion)
      BY <2>7 DEF OwnRelease
    <3>3. QED
      BY <2>6, <3>1, <3>2 DEF Restores
  <2>15. Entitled(app, app, companion, r, mine)
    BY <2>6, <2>7 DEF Entitled
  <2>16. \A b \in Apps : app[b].conn = None => app[b].held = None /\ app[b].doing # "waiting"
    BY <1>4 DEF Connected
  <2> DEFINE d == companion'
  <2>17. Joining(Unrefused, app, app, companion, d, script, grabs, inbox, r, set, mine, x)
    BY <1>4, <2>1, <2>2, <2>4, <2>5, <2>6, <2>7, <2>8, <2>9, <2>11, <2>12, <2>13, <2>14,
       <2>15, <2>16 DEF Joining
  <2>18. d.controller = mine /\ d.up
    BY <1>2, <2>2 DEF Enqueued
  <2> HIDE DEF d
  <2>19. InOrder(Unrefused, app, d, script, grabs, r) /\ Distinct(d)
    BY <1>3, <1>4, <2>3, <2>17, Enqueuing DEF mine
  <2>20. Connected(app, d, r)
    <3>1. Paired(r) /\ \A y \in Connections : Unused(inbox, y) => Unused(r, y)
      BY <1>2, <1>4, TailWord DEF Connected, r
    <3>2. QED
      BY <1>4, <2>6, <2>18, <3>1, ConnectedStays
  <2>21. Aware(app, d)
    BY <2>7, <2>18 DEF Aware
  <2>22. Queue(Unrefused, app, d, script, grabs, r)
    BY <2>19, <2>20, <2>21 DEF Queue
  <2>23. QED
    BY <1>1, <2>22 DEF QueueKept, d, r
<1>7. QED
  BY <1>1, <1>5, <1>6

\* The one report is read: nothing is in hand any more.
LEMMA LastReport ==
  ASSUME NEW q \in Seq(Message), q # <<>>, NEW s, NEW p, Channel(q, s, p),
         Head(q).kind = "complete"
  PROVE  /\ s.update.id = 0 /\ \A n, x, answers : ~Says(Tail(q), n, x, answers)
         /\ Says(q, Head(q).sender, Head(q).id, {Head(q).answer})
<1> DEFINE r == Tail(q)
<1>1. /\ Head(q) = q[1] /\ 1 \in DOMAIN q
      /\ \A i \in DOMAIN r : i + 1 \in DOMAIN q /\ r[i] = q[i + 1] /\ i + 1 # 1
  BY TailFacts
<1> HIDE DEF r
<1>2. q[1].kind = "complete"
  BY <1>1
<1>3. Past(q, 1)
  BY <1>2 DEF Past
<1>4. s.update.id = 0 /\ \A j \in DOMAIN q : q[j].kind = "complete" => j = 1
  BY <1>1, <1>2, <1>3 DEF Channel, InTurn
<1>5. \A n, x, answers : ~Says(r, n, x, answers)
  BY <1>1, <1>4 DEF Says
<1>6. Says(q, Head(q).sender, Head(q).id, {Head(q).answer})
  BY <1>1, <1>2 DEF Says
<1>7. QED
  BY <1>4, <1>5, <1>6 DEF r

\* Where the request at i was before the one at index was answered.
Place(index, i) == IF i < index THEN i ELSE i + 1

LEMMA PlaceFacts ==
  ASSUME NEW c, c.requests \in Seq(Request), NEW d, NEW id, NEW answer, NEW index,
         Completed(c, d, id, answer, index)
  PROVE  /\ \A i \in DOMAIN d.requests :
              /\ Place(index, i) \in DOMAIN c.requests /\ Place(index, i) # index
              /\ d.requests[i] = c.requests[Place(index, i)]
              /\ index < Place(index, i) => 1 < Place(index, i)
              /\ index < Place(index, i) /\ 1 = i => index = 1
              /\ 1 < i => 1 < Place(index, i)
              /\ \A j \in DOMAIN d.requests :
                   /\ i < j => Place(index, i) < Place(index, j)
                   /\ Place(index, i) = Place(index, j) => i = j
         /\ index # 1 => 1 < index
         /\ \A i \in DOMAIN c.requests : index < i => i # index
<1> DEFINE n == Len(c.requests)
<1>1. /\ index \in DOMAIN c.requests /\ d.requests = RemoveAt(c.requests, index)
  BY DEF Completed
<1>2. /\ n \in Nat \ {0} /\ DOMAIN c.requests = 1 .. n /\ index \in 1 .. n
      /\ DOMAIN d.requests = 1 .. n - 1
      /\ \A i \in 1 .. n - 1 :
           d.requests[i] = IF i < index THEN c.requests[i] ELSE c.requests[i + 1]
  BY <1>1, RemoveAtFacts
<1> HIDE DEF n
<1>3. \A i \in 1 .. n - 1 : d.requests[i] = c.requests[Place(index, i)]
  BY <1>2 DEF Place
<1>4. \A i \in 1 .. n - 1 :
        /\ Place(index, i) \in 1 .. n /\ Place(index, i) # index
        /\ index < Place(index, i) => 1 < Place(index, i)
        /\ index < Place(index, i) /\ 1 = i => index = 1
        /\ 1 < i => 1 < Place(index, i)
  BY <1>2 DEF Place
<1>5. \A i, j \in 1 .. n - 1 :
        /\ i < j => Place(index, i) < Place(index, j)
        /\ Place(index, i) = Place(index, j) => i = j
  BY <1>2 DEF Place
<1>6. index # 1 => 1 < index
  BY <1>2
<1>7. \A i \in DOMAIN c.requests : index < i => i # index
  BY <1>2
<1>8. QED
  BY <1>2, <1>3, <1>4, <1>5, <1>6, <1>7

\* What an App believes after a request is answered, it believed before, or has just
\* been told.
LEMMA ToldNow ==
  ASSUME NEW c, NEW d, NEW id, NEW answer, NEW index, Completed(c, d, id, answer, index),
         c.requests \in Seq(Request), NEW a \in Apps
  PROVE  /\ \A answers : Answered(app, c, a, answers) => Answered(app, d, a, answers)
         /\ \A answers : Answered(app, d, a, answers) =>
              Answered(app, c, a, answers) \/ (app[a].id = id /\ answer \in answers)
         /\ Awaited(id) /\ app[a].id = id =>
              \A answers : answer \in answers => Answered(app, d, a, answers)
         /\ \A S : Believes(app, d, a, S) =>
              \/ Believes(app, c, a, S)
              \/ app[a].doing = "waiting" /\ app[a].id = id /\ answer = "ok" /\ app[a].set = S
<1> DEFINE new == [id |-> id, answer |-> answer]
<1>1. new.id = id /\ new.answer = answer
  OBVIOUS
<1>2. /\ d.results = (IF Awaited(id) THEN c.results \cup {new} ELSE c.results)
      /\ index \in DOMAIN c.requests /\ c.requests[index].id = id
  BY DEF Completed
<1>3. \A i \in DOMAIN d.requests : \E j \in DOMAIN c.requests : d.requests[i] = c.requests[j]
  BY PlaceFacts
<1> HIDE DEF new
<1>4. \A answers : Answered(app, c, a, answers) => Answered(app, d, a, answers)
  BY <1>2 DEF Answered
<1>5. \A answers : Answered(app, d, a, answers) =>
        Answered(app, c, a, answers) \/ (app[a].id = id /\ answer \in answers)
  BY <1>1, <1>2 DEF Answered
<1>6. Awaited(id) /\ app[a].id = id => \A answers : answer \in answers => Answered(app, d, a, answers)
  BY <1>1, <1>2 DEF Answered
<1>7. Known(app, d, a) => Known(app, c, a)
  BY <1>1, <1>2, <1>3 DEF Known
<1>8. ASSUME NEW S, Believes(app, d, a, S)
      PROVE  \/ Believes(app, c, a, S)
             \/ app[a].doing = "waiting" /\ app[a].id = id /\ answer = "ok" /\ app[a].set = S
  <2>1. CASE app[a].doing = "idle" /\ app[a].held = S
    BY <2>1 DEF Believes
  <2>2. CASE /\ app[a].doing = "waiting" /\ app[a].held = S
             /\ Known(app, d, a) /\ ~Answered(app, d, a, {"ok", "unavailable"})
    BY <1>4, <1>7, <2>2 DEF Believes
  <2>3. CASE app[a].doing = "waiting" /\ app[a].set = S /\ Answered(app, d, a, {"ok"})
    BY <1>5, <2>3 DEF Believes
  <2>4. QED
    BY <1>8, <2>1, <2>2, <2>3 DEF Believes
<1>9. QED
  BY <1>4, <1>5, <1>6, <1>8

\* The answered request leaves the queue, and what is still live was behind it.
LEMMA Completing ==
  ASSUME app \in [Apps -> AppRecords], NEW c, Sound(c), NEW d, NEW s, NEW g,
         NEW q \in Seq(Message), q # <<>>, NEW p, Channel(q, s, p),
         InOrder(Unrefused, app, c, s, g, q), Distinct(c), Connected(app, c, q),
         NEW id \in Ids, NEW answer \in Answers, NEW index, Completed(c, d, id, answer, index),
         Head(q).kind = "complete", Head(q).sender = c.script, Head(q).id = id,
         Head(q).answer = answer
  PROVE  InOrder(Unrefused, app, d, s, g, Tail(q)) /\ Distinct(d)
<1> DEFINE r == Tail(q)
           live == Live(c, s, q)
           left == Live(d, s, r)
           was(i) == Place(index, i)
           request == c.requests[index]
<1>1. /\ c.requests \in Seq(Request) /\ c.controller \in Controllers
      /\ \A i \in DOMAIN c.requests : c.requests[i].id \in Ids /\ c.requests[i].set \in SUBSET Keys
  BY RequestsTyped
<1>2. /\ index \in DOMAIN c.requests /\ request.id = id /\ request.claimed
      /\ d.up = c.up /\ d.script = c.script /\ d.issued = c.issued
      /\ d.registered = (IF answer = "ok" THEN request.set ELSE c.registered)
      /\ d.controller = (IF answer = "ok" /\ request.set = {} /\ c.controller = request.controller
                         THEN None ELSE c.controller)
  BY DEF Completed
<1>3. /\ \A i \in DOMAIN d.requests :
           /\ was(i) \in DOMAIN c.requests /\ was(i) # index
           /\ d.requests[i] = c.requests[was(i)]
           /\ index < was(i) => 1 < was(i)
           /\ index < was(i) /\ 1 = i => index = 1
           /\ 1 < i => 1 < was(i)
           /\ \A j \in DOMAIN d.requests :
                /\ i < j => was(i) < was(j)
                /\ was(i) = was(j) => i = j
      /\ index # 1 => 1 < index
      /\ \A i \in DOMAIN c.requests : index < i => i # index
  BY <1>1, PlaceFacts
<1>4. s.update.id = 0 /\ (\A n, x, answers : ~Says(r, n, x, answers)) /\ Says(q, c.script, id, {answer})
  BY LastReport
<1>5. /\ \A y \in Connections : LostIn(q, y) => LostIn(r, y)
      /\ \A y : CalledIn(r, y) => CalledIn(q, y)
      /\ Resets(r) <=> Resets(q)
  BY TailWord DEF LostFirst
<1>6. /\ Claims(c, s, g, q) /\ Waits(app, c) /\ Ranks(app, c, q, live)
      /\ Restores(app, c, q, live) /\ Beliefs(app, c, s, g, q, live) /\ OkIsSo(app, c)
  BY DEF InOrder
<1>7. Current(d, s, r) <=> Current(c, s, q)
  BY <1>2, <1>5 DEF Current
<1>8. InHand(c, s, q, id)
  BY <1>4 DEF InHand, Says
<1>9. index \in live
  BY <1>2, <1>8 DEF Live
<1>10. \A y \in Ids : ~InHand(d, s, r, y)
  BY <1>4 DEF InHand, Ids
<1> HIDE DEF r, was, request
<1>11. /\ left \subseteq DOMAIN d.requests /\ live \subseteq DOMAIN c.requests
       /\ \A i \in left : was(i) \in live /\ index < was(i)
  <2>1. left \subseteq DOMAIN d.requests /\ live \subseteq DOMAIN c.requests
    BY DEF Live
  <2>2. \A i \in left : ~c.requests[was(i)].claimed
    BY <1>1, <1>3, <1>10 DEF Live
  <2>3. InHand(c, s, q, c.requests[index].id)
    BY <1>2, <1>8 DEF request
  <2>4. \A i \in left : index < was(i)
    BY <1>2, <1>3, <1>6, <2>1, <2>2, <2>3 DEF Claims
  <2>5. \A i \in left : was(i) \in live
    BY <1>3, <2>1, <2>2 DEF Live
  <2>6. QED
    BY <2>1, <2>4, <2>5
<1> HIDE DEF live, left
<1>12. \A i \in left : /\ c.requests[was(i)].controller = c.controller
                       /\ c.controller # None /\ 1 < was(i) /\ was(i) \in DOMAIN c.requests
                       /\ i \in DOMAIN d.requests /\ d.requests[i] = c.requests[was(i)]
  BY <1>2, <1>3, <1>6, <1>9, <1>11 DEF Ranks
<1>13. \A i, j \in left : i = j
  BY <1>3, <1>6, <1>12 DEF Ranks
<1>14. Distinct(d)
  <2>1. \A i, j \in DOMAIN d.requests : d.requests[i].id = d.requests[j].id => i = j
    BY <1>3 DEF Distinct
  <2>2. \A i \in DOMAIN d.requests : d.requests[i].id \in d.issued /\ d.requests[i].id # id
    BY <1>2, <1>3 DEF Distinct, request
  <2>3. \A t \in d.results : t \in c.results \/ t.id = id
    BY DEF Completed
  <2>4. \A t \in c.results : t.id # id
    BY <1>2 DEF Distinct, request
  <2>5. \A t, u \in d.results : t.id = u.id => t = u
    <3> DEFINE new == [id |-> id, answer |-> answer]
    <3>1. new.id = id
      OBVIOUS
    <3>2. \A t \in d.results : t \in c.results \/ t = new
      BY DEF Completed
    <3> HIDE DEF new
    <3>3. QED
      BY <2>4, <3>1, <3>2 DEF Distinct
  <2>6. \A t \in d.results : \A i \in DOMAIN d.requests : t.id # d.requests[i].id
    BY <1>3, <2>2, <2>3 DEF Distinct
  <2>7. QED
    BY <2>1, <2>2, <2>5, <2>6 DEF Distinct
<1>15. Claims(d, s, g, r)
  BY <1>1, <1>3, <1>4, <1>10 DEF Claims
<1>16. Waits(app, d)
  BY <1>2, <1>3, <1>6 DEF Waits
<1>17. Ranks(app, d, r, left)
  <2>1. \A i, j \in DOMAIN d.requests : i < j => d.requests[j].controller # None
    BY <1>3, <1>6 DEF Ranks
  <2>2. \A i, j \in left : i < j => d.requests[j].controller = d.controller
    <3>1. \A i \in left : ~(i < i)
      BY <1>1, <1>2, <1>11, RemoveAtFacts DEF Completed
    <3>2. QED
      BY <1>13, <3>1
  <2>3. \A i, j \in DOMAIN d.requests :
          1 < i /\ 1 < j /\ d.requests[i].controller = d.requests[j].controller => i = j
    BY <1>3, <1>6 DEF Ranks
  <2>4. \A a \in Apps : \A i \in DOMAIN d.requests :
          1 < i /\ d.requests[i].controller = app[a].conn => d.requests[i].id = app[a].id
    BY <1>3, <1>6 DEF Ranks
  <2>5. \A i \in DOMAIN d.requests : 1 < i => ~CalledIn(r, d.requests[i].controller)
    BY <1>3, <1>5, <1>6 DEF Ranks
  <2>6. QED
    BY <2>1, <2>2, <2>3, <2>4, <2>5 DEF Ranks
\* When the controller's own hotkeys were released, and something is still queued, nobody
\* believes in hotkeys.
<1>18. ASSUME d.controller # c.controller, NEW i \in left
       PROVE  NoHolder(app, c) /\ Releasing(c, live) /\ \E j \in live : 1 < j
  <2>1. /\ answer = "ok" /\ request.set = {} /\ c.controller = request.controller
        /\ c.controller # None
    BY <1>2, <1>12, <1>18
  <2>2. index = 1
    <3>1. SUFFICES ASSUME 1 < index
                   PROVE  FALSE
      BY <1>3
    <3>2. was(i) = index
      BY <1>2, <1>6, <1>12, <2>1, <3>1 DEF Ranks, request
    <3>3. QED
      BY <1>3, <1>12, <3>2
  <2>3. Releasing(c, live)
    BY <1>9, <2>1, <2>2 DEF Releasing, request
  <2>4. was(i) \in live /\ 1 < was(i)
    BY <1>11, <1>12
  <2>5. QED
    BY <1>6, <2>3, <2>4 DEF Restores
\* Unless a request was refused, that does not happen.
<1>19. ASSUME Unrefused
       PROVE  /\ Unrejected(c, q) /\ Owning(app, c) /\ Releases(app, c, live)
              /\ answer # "rejected"
              /\ d.controller # c.controller => left = {}
  <2>1. /\ Unrejected(c, q) /\ Owning(app, c) /\ Releases(app, c, live)
        /\ Single(c, q, live)
    BY <1>19 DEF InOrder, Owned, live
  <2>2. ~LostFirst(q, c.controller)
    BY DEF LostFirst
  <2>3. answer # "rejected"
    BY <1>4, <2>1 DEF Unrejected
  <2>4. d.controller # c.controller => left = {}
    BY <1>18, <2>1, <2>2 DEF Single
  <2>5. QED
    BY <2>1, <2>3, <2>4
<1>20. \A a \in Apps : \A S : Believes(app, d, a, S) =>
         \/ Believes(app, c, a, S)
         \/ app[a].doing = "waiting" /\ app[a].id = id /\ answer = "ok" /\ app[a].set = S
  BY <1>1, ToldNow
<1>21. \A a \in Apps : app[a].doing = "waiting" /\ app[a].id = id =>
         request.set = app[a].set /\ request.controller = app[a].conn
  BY <1>2, <1>6 DEF Waits, request
<1>22. Restores(app, d, r, left)
  <2>1. ASSUME Releasing(d, left)
        PROVE  OwnRelease(app, d) \/ (LostIn(r, d.controller) /\ ~CalledIn(r, d.controller))
    <3>1. 1 \in left /\ d.controller # None /\ d.requests[1].controller = d.controller
      BY <2>1 DEF Releasing
    <3>2. d.controller = c.controller /\ c.controller \in Connections
      BY <1>1, <1>2, <3>1 DEF Controllers
    <3>3. c.requests[was(1)].controller = c.controller /\ 1 < was(1) /\ was(1) \in DOMAIN c.requests
      BY <1>12, <3>1
    <3>4. ~CalledIn(r, d.controller)
      BY <1>5, <1>6, <3>2, <3>3 DEF Ranks
    <3>5. CASE \E a \in Apps : app[a].conn = c.controller
      <4>1. PICK a \in Apps : app[a].conn = c.controller
        BY <3>5
      <4>2. app[a].id = c.requests[was(1)].id
        BY <1>6, <3>3, <4>1 DEF Ranks
      <4>3. app[a].id = d.requests[1].id
        BY <1>12, <3>1, <4>2
      <4>4. QED
        BY <3>2, <4>1, <4>3 DEF OwnRelease
    <3>6. CASE ~\E a \in Apps : app[a].conn = c.controller
      <4>1. LostIn(q, c.controller)
        BY <1>12, <3>1, <3>6 DEF Connected
      <4>2. QED
        BY <1>5, <3>2, <3>4, <4>1
    <3>7. QED
      BY <3>5, <3>6
  <2>2. ~(Releasing(d, left) /\ \E i \in left : 1 < i)
    <3>1. ~(1 < 1)
      OBVIOUS
    <3>2. QED
      BY <1>13, <3>1 DEF Releasing
  <2>3. ASSUME NEW i \in left, d.requests[i].controller \notin {None, d.controller}
        PROVE  NoHolder(app, d) /\ d.registered = {}
    <3>1. d.controller # c.controller
      BY <1>12, <2>3
    <3>2. NoHolder(app, c) /\ answer = "ok" /\ request.set = {}
      BY <1>2, <1>18, <2>3, <3>1
    <3>3. NoHolder(app, d)
      BY <1>20, <1>21, <3>2 DEF NoHolder
    <3>4. QED
      BY <1>2, <3>2, <3>3
  <2>4. QED
    BY <2>1, <2>2, <2>3 DEF Restores
<1>23. ASSUME answer = "ok", Current(d, s, r)
       PROVE  Good(d, s, g)
  <2>1. Says(q, c.script, id, {"ok"}) /\ Current(c, s, q)
    BY <1>4, <1>7, <1>23
  <2>2. s.active = request.set /\ g = request.set
    BY <1>2, <1>6, <2>1 DEF Claims, request
  <2>3. QED
    BY <1>2, <1>23, <2>2 DEF Good
<1>24. \A a \in Apps : \A S \in SUBSET Keys :
         S # {} /\ Believes(app, c, a, S) /\ c.controller \in {None, app[a].conn} =>
           \/ Kept(app, c, live, a, S) /\ Delivered(app, c, s, g, q, a)
           \/ Restored(app, c, live, a, S)
  BY <1>6 DEF Beliefs
<1>25. ASSUME NEW a \in Apps, app[a].doing = "waiting"
       PROVE  app[a].conn # None /\ (app[a].id = id => Awaited(id))
  BY <1>25 DEF Connected, Awaited
<1>26. \A a \in Apps : app[a].doing = "idle" => app[a].id # id
  BY DEF Connected, Ids
\* The App was told ok just now: its set is registered, and nothing is left to undo it.
<1>27. ASSUME NEW a \in Apps, app[a].doing = "waiting", app[a].id = id, answer = "ok",
              app[a].set # {}, d.controller \in {None, app[a].conn}
       PROVE  Kept(app, d, left, a, app[a].set) /\ Delivered(app, d, s, g, r, a)
  <2>1. request.set = app[a].set /\ d.registered = app[a].set /\ d.controller = c.controller
    BY <1>2, <1>21, <1>27
  <2>2. \A i \in left : FALSE
    <3>1. SUFFICES ASSUME NEW i \in left
                   PROVE  FALSE
      OBVIOUS
    <3>2. c.requests[was(i)].controller = app[a].conn
      BY <1>12, <1>27, <2>1, <3>1
    <3>3. c.requests[was(i)].id = app[a].id
      BY <1>6, <1>12, <3>2 DEF Ranks
    <3>4. was(i) = index
      BY <1>2, <1>12, <1>27, <3>3 DEF Distinct, request
    <3>5. QED
      BY <1>3, <1>12, <3>4
  <2>3. Delivered(app, d, s, g, r, a)
    BY <1>23, <1>27 DEF Delivered
  <2>4. QED
    BY <2>1, <2>2, <2>3 DEF Kept
<1>28. Beliefs(app, d, s, g, r, left)
  <2>1. SUFFICES ASSUME NEW a \in Apps, NEW S \in SUBSET Keys, S # {}, Believes(app, d, a, S),
                        d.controller \in {None, app[a].conn}
                 PROVE  \/ Kept(app, d, left, a, S) /\ Delivered(app, d, s, g, r, a)
                        \/ Restored(app, d, left, a, S)
    BY DEF Beliefs
  <2>2. CASE app[a].doing = "waiting" /\ app[a].id = id /\ answer = "ok" /\ app[a].set = S
    BY <1>27, <2>1, <2>2
  <2>3. ASSUME Believes(app, c, a, S), d.controller # c.controller
        PROVE  Restored(app, d, left, a, S)
    <3>1. d.registered = {}
      BY <1>2, <2>3
    <3>2. \A i \in left : FALSE
      BY <1>18, <2>1, <2>3 DEF NoHolder
    <3>3. QED
      BY <3>1, <3>2 DEF Restored
  <2>4. ASSUME app[a].id = id, Believes(app, c, a, S),
               ~(app[a].doing = "waiting" /\ app[a].id = id /\ answer = "ok" /\ app[a].set = S)
        PROVE  answer = "rejected"
    <3>1. app[a].doing = "waiting"
      BY <1>26, <2>4 DEF Believes
    <3>2. ~Answered(app, c, a, {"ok"})
      BY <1>2, <2>4 DEF Answered, Distinct, request
    <3>3. ~Answered(app, d, a, {"ok", "unavailable"})
      <4>1. Answered(app, d, a, {"ok"}) => app[a].id = id /\ answer = "ok"
        <5>1. answer \in {"ok"} => answer = "ok"
          OBVIOUS
        <5>2. Answered(app, d, a, {"ok"}) => Answered(app, c, a, {"ok"}) \/ answer \in {"ok"}
          BY <1>1, ToldNow
        <5>3. QED
          BY <2>4, <3>2, <5>1, <5>2
      <4>2. QED
        BY <2>1, <2>4, <3>1, <4>1 DEF Believes
    <3>4. answer \notin {"ok", "unavailable"}
      BY <1>1, <1>25, <2>4, <3>1, <3>3, ToldNow
    <3>5. QED
      BY <3>4 DEF Answers
  <2>5. ASSUME Believes(app, c, a, S), d.controller = c.controller,
               ~(app[a].doing = "waiting" /\ app[a].id = id /\ answer = "ok" /\ app[a].set = S),
               Kept(app, c, live, a, S), Delivered(app, c, s, g, q, a)
        PROVE  Kept(app, d, left, a, S) /\ Delivered(app, d, s, g, r, a)
    <3>1. app[a].id = id
      BY <1>2, <1>9, <2>5 DEF Kept, request
    <3>2. answer = "rejected"
      BY <2>4, <2>5, <3>1
    <3>3. d.registered = S /\ c.registered = S
      BY <1>2, <2>5, <3>2 DEF Kept
    <3>4. Kept(app, d, left, a, S)
      BY <1>11, <1>12, <2>5, <3>3 DEF Kept
    <3>5. ~Changing(app, c, s, q, a)
      <4>1. ~Says(q, c.script, id, {"ok", "unavailable"})
        <5>1. Says(q, c.script, id, {"ok", "unavailable"}) =>
                Says(q, c.script, id, {"ok", "unavailable"} \cap {answer})
          BY <1>4, OneReport
        <5>2. ~Says(q, c.script, id, {"ok", "unavailable"} \cap {answer})
          BY <3>2 DEF Says
        <5>3. QED
          BY <5>1, <5>2
      <4>2. QED
        BY <1>4, <3>1, <4>1 DEF Changing
    <3>6. Delivered(app, d, s, g, r, a)
      BY <1>7, <2>5, <3>3, <3>5 DEF Delivered, Good
    <3>7. QED
      BY <3>4, <3>6
  <2>6. ASSUME Believes(app, c, a, S), d.controller = c.controller,
               ~(app[a].doing = "waiting" /\ app[a].id = id /\ answer = "ok" /\ app[a].set = S),
               Restored(app, c, live, a, S)
        PROVE  \/ Kept(app, d, left, a, S) /\ Delivered(app, d, s, g, r, a)
               \/ Restored(app, d, left, a, S)
    <3>1. \A i \in left : d.requests[i].id = app[a].id
      BY <1>9, <1>11, <1>12, <2>6 DEF Restored
    <3>2. CASE d.registered = {}
      <4>1. left \subseteq DOMAIN d.requests
        BY <1>11
      <4>2. QED
        BY <3>1, <3>2 DEF Restored
    <3>3. CASE d.registered # {}
      <4>1. answer = "ok" /\ d.registered = request.set
        BY <1>2, <2>6, <3>3 DEF Restored
      <4>2. app[a].id # id
        BY <2>4, <2>6, <4>1
      <4>3. request.set = S
        BY <1>2, <1>9, <2>6, <3>3, <4>1, <4>2 DEF Restored, request
      <4>4. Delivered(app, d, s, g, r, a)
        BY <1>23, <4>1 DEF Delivered
      <4>5. QED
        BY <3>1, <4>1, <4>3, <4>4 DEF Kept
    <3>4. QED
      BY <3>2, <3>3
  <2>7. ASSUME ~(app[a].doing = "waiting" /\ app[a].id = id /\ answer = "ok" /\ app[a].set = S)
        PROVE  \/ Kept(app, d, left, a, S) /\ Delivered(app, d, s, g, r, a)
               \/ Restored(app, d, left, a, S)
    <3>1. Believes(app, c, a, S)
      BY <1>20, <2>1, <2>7
    <3>2. CASE d.controller # c.controller
      BY <2>3, <3>1, <3>2
    <3>3. CASE d.controller = c.controller
      <4>1. \/ Kept(app, c, live, a, S) /\ Delivered(app, c, s, g, q, a)
            \/ Restored(app, c, live, a, S)
        BY <1>24, <2>1, <3>1, <3>3
      <4>2. QED
        BY <2>5, <2>6, <2>7, <3>1, <3>3, <4>1
    <3>4. QED
      BY <3>2, <3>3
  <2>8. QED
    BY <2>2, <2>7
<1>29. OkIsSo(app, d)
  <2>1. SUFFICES ASSUME NEW a \in Apps, app[a].doing = "waiting", Answered(app, d, a, {"ok"}),
                        d.controller = app[a].conn
                 PROVE  app[a].set # {} /\ d.registered = app[a].set
    BY DEF OkIsSo
  <2>2. app[a].conn # None /\ d.controller = c.controller
    BY <1>2, <1>25, <2>1
  <2>3. CASE app[a].id = id /\ answer = "ok"
    <3>1. request.set = app[a].set /\ request.controller = c.controller
      BY <1>21, <2>1, <2>2, <2>3
    <3>2. QED
      BY <1>2, <2>1, <2>2, <2>3, <3>1
  <2>4. CASE Answered(app, c, a, {"ok"})
    <3>1. app[a].set # {} /\ c.registered = app[a].set
      BY <1>6, <2>1, <2>2, <2>4 DEF OkIsSo
    <3>2. CASE answer # "ok"
      BY <1>2, <3>1, <3>2
    <3>3. CASE answer = "ok"
      <4>1. Believes(app, c, a, app[a].set) /\ app[a].set \in SUBSET Keys
        BY <2>1, <2>4 DEF Believes, AppRecords
      <4>2. Kept(app, c, live, a, app[a].set)
        BY <1>24, <2>1, <2>2, <3>1, <4>1 DEF Restored
      <4>3. app[a].id = id
        BY <1>2, <1>9, <4>2 DEF Kept, request
      <4>4. QED
        BY <1>2, <2>4, <4>3 DEF Answered, Distinct, request
    <3>4. QED
      BY <3>2, <3>3
  <2>5. QED
    <3>1. Answered(app, c, a, {"ok"}) \/ (app[a].id = id /\ answer \in {"ok"})
      BY <1>1, <2>1, ToldNow
    <3>2. QED
      BY <2>3, <2>4, <3>1
<1>30. ASSUME Unrefused
       PROVE  Owned(app, d, r, left)
  <2>1. /\ Unrejected(c, q) /\ Owning(app, c) /\ Releases(app, c, live)
        /\ answer # "rejected" /\ (d.controller # c.controller => left = {})
    BY <1>30, <1>19
  <2>2. Unrejected(d, r)
    BY <1>2, <1>4, <2>1 DEF Unrejected, Completed
  <2>3. ASSUME NEW a \in Apps, Informed(app, c, a), app[a].conn = c.controller,
               d.controller # c.controller
        PROVE  app[a].id = id
    <3>1. answer = "ok" /\ request.set = {} /\ c.controller = request.controller
          /\ c.controller # None
      BY <1>2, <2>3
    <3>2. QED
      BY <1>2, <1>9, <2>1, <2>3, <3>1 DEF Releases, request
  <2>4. ASSUME NEW a \in Apps, app[a].doing = "idle", app[a].held \notin {None, {}}
        PROVE  d.controller = app[a].conn
    BY <1>26, <2>1, <2>3, <2>4 DEF Owning, Informed
  <2>5. ASSUME NEW a \in Apps, app[a].doing = "waiting",
               \E i \in DOMAIN d.requests : d.requests[i].id = app[a].id
        PROVE  d.controller = app[a].conn
    <3>1. (\E i \in DOMAIN c.requests : c.requests[i].id = app[a].id) /\ app[a].id # id
      BY <1>2, <1>3, <2>5 DEF Distinct, request
    <3>2. c.controller = app[a].conn /\ Informed(app, c, a)
      BY <2>1, <2>5, <3>1 DEF Owning, Informed, Known
    <3>3. QED
      BY <2>3, <3>1, <3>2
  <2>6. ASSUME NEW a \in Apps, app[a].doing = "waiting", Answered(app, d, a, {"ok"}),
               app[a].set # {}
        PROVE  d.controller = app[a].conn
    <3>1. Answered(app, c, a, {"ok"}) \/ (app[a].id = id /\ answer \in {"ok"})
      BY <1>1, <2>6, ToldNow
    <3>2. CASE Answered(app, c, a, {"ok"})
      <4>1. c.controller = app[a].conn /\ Informed(app, c, a) /\ app[a].id # id
        BY <1>2, <2>1, <2>6, <3>2 DEF Owning, Informed, Known, Answered, Distinct, request
      <4>2. QED
        BY <2>3, <4>1
    <3>3. CASE app[a].id = id /\ answer \in {"ok"}
      <4>1. c.controller = app[a].conn
        BY <1>2, <2>1, <2>6, <3>3 DEF Owning, request
      <4>2. request.set # {}
        BY <1>21, <2>6, <3>3
      <4>3. QED
        BY <1>2, <4>1, <4>2
    <3>4. QED
      BY <3>1, <3>2, <3>3
  <2>7. Owning(app, d)
    BY <2>4, <2>5, <2>6 DEF Owning
  <2>8. \A i \in left : d.controller = c.controller /\ d.requests[i].controller = c.controller
    BY <1>12, <2>1
  <2>9. Releases(app, d, left)
    BY <1>6, <1>12, <2>8 DEF Releases, Ranks
  <2>10. Single(d, r, left)
    <3>1. ~(Releasing(d, left) /\ \E i \in left : 1 < i)
      <4>1. ~(1 < 1)
        OBVIOUS
      <4>2. QED
        BY <1>13, <4>1 DEF Releasing
    <3>2. QED
      BY <2>8, <3>1 DEF Single
  <2>11. QED
    BY <2>2, <2>7, <2>9, <2>10 DEF Owned
<1>31. QED
  BY <1>14, <1>15, <1>16, <1>17, <1>22, <1>28, <1>29, <1>30 DEF InOrder, left, r

LEMMA HandleCompleteKeepsQueue ==
  ASSUME ChannelInv, Queued, HandleComplete
  PROVE  QueueKept
<1> DEFINE m == Head(inbox)
           r == Tail(inbox)
<1>1. /\ Handling("complete") /\ UNCHANGED <<app, script, grabs>> /\ inbox' = r
      /\ companion' = IF ~EnsureScript(companion, m.sender) THEN EnsureReady(companion)
                      ELSE IF Claimed(companion, m.id) = {} THEN companion
                      ELSE CompleteRequest(companion, m.id, m.answer)
  BY DEF HandleComplete, native
<1>2. /\ inbox # <<>> /\ m.kind = "complete" /\ m \in Message
  BY <1>1, HandlingFacts
<1>3. m.id \in Ids /\ m.answer \in Answers
  BY <1>2, MessageFields
<1>4. /\ app \in [Apps -> AppRecords] /\ inbox \in Seq(Message) /\ companion \in Companions
      /\ Sound(companion) /\ Connected(app, companion, inbox) /\ Distinct(companion)
      /\ Channel(inbox, script, companion.poll)
      /\ companion.script # None => InOrder(Unrefused, app, companion, script, grabs, inbox)
      /\ \A i \in DOMAIN companion.requests : companion.requests[i].id \in Ids
  BY QueuedNow
<1>5. \A x : ~LostFirst(inbox, x)
  BY <1>2 DEF LostFirst
<1>6. CASE ~Ready(companion) /\ companion' = EnsureReady(companion)
  <2>1. Reset(companion, companion')
    BY <1>4, <1>6, EnsureReadyShape
  <2>2. Connected(app, companion', Tail(inbox))
    BY <1>2, <1>4, <1>5, <2>1, ConnectedRead DEF Reset
  <2>3. Unrefused => Aware(app, companion')
    BY <2>1, QueuedNow DEF Reset, Aware
  <2>4. QED
    BY <1>1, <2>1, <2>2, <2>3, QueueEmptied DEF Reset
<1>7. CASE /\ companion' = companion /\ companion.script # None
           /\ m.sender # companion.script \/ Claimed(companion, m.id) = {}
  <2>1. Connected(app, companion, r)
    BY <1>2, <1>4, <1>5, ConnectedRead
  <2>2. InOrder(Unrefused, app, companion, script, grabs, inbox)
    BY <1>4, <1>7
  <2>3. InOrder(Unrefused, app, companion, script, grabs, r)
    BY <1>2, <1>3, <1>4, <1>7, <2>2, Drops
  <2>4. Queue(Unrefused, app', companion', script', grabs', inbox')
    BY <1>1, <1>4, <1>7, <2>1, <2>3, QueuedNow DEF Queue
  <2>5. QED
    BY <2>4 DEF QueueKept
<1>8. CASE /\ companion.script # None /\ m.sender = companion.script
           /\ Claimed(companion, m.id) # {}
           /\ companion' = CompleteRequest(companion, m.id, m.answer)
  <2> DEFINE id == m.id
             answer == m.answer
             d == companion'
  <2>1. \E index \in DOMAIN companion.requests : Completed(companion, d, id, answer, index)
    <3> HIDE DEF m
    <3>1. \E index \in DOMAIN companion.requests :
            Completed(companion, CompleteRequest(companion, m.id, m.answer), m.id, m.answer, index)
      BY <1>3, <1>4, <1>8, CompleteShape
    <3>2. companion' = CompleteRequest(companion, m.id, m.answer)
      BY <1>8
    <3>3. QED
      BY <3>1, <3>2
  <2>2. PICK index \in DOMAIN companion.requests : Completed(companion, d, id, answer, index)
    BY <2>1
  <2>3. InOrder(Unrefused, app, companion, script, grabs, inbox)
    BY <1>4, <1>8
  <2>4. id \in Ids /\ answer \in Answers
    BY <1>3
  <2>5. /\ Head(inbox).kind = "complete" /\ Head(inbox).sender = companion.script
        /\ Head(inbox).id = id /\ Head(inbox).answer = answer
    BY <1>2, <1>8
  <2> DEFINE p == companion.poll
  <2>6. Channel(inbox, script, p)
    BY <1>4
  <2> HIDE DEF id, answer, d, p
  <2>7. InOrder(Unrefused, app, d, script, grabs, Tail(inbox)) /\ Distinct(d)
    BY <1>2, <1>4, <2>2, <2>3, <2>4, <2>5, <2>6, Completing
  <2>8. d.controller \in {companion.controller, None} /\ d.up = companion.up
    BY <2>2 DEF Completed
  <2>9. Connected(app, d, Tail(inbox))
    BY <1>2, <1>4, <1>5, <2>8, ConnectedRead
  <2>10. Unrefused => Aware(app, d)
    BY <2>8, QueuedNow DEF Aware
  <2>11. Queue(Unrefused, app, d, script, grabs, Tail(inbox))
    BY <2>7, <2>9, <2>10 DEF Queue
  <2>12. QED
    BY <1>1, <2>11 DEF QueueKept, d
<1>9. ~Ready(companion) => EnsureReady(companion) = companion'
  BY <1>1 DEF EnsureScript
<1>10. ASSUME Ready(companion)
       PROVE  /\ companion.script # None
              /\ \/ m.sender # companion.script /\ companion' = companion
                 \/ /\ m.sender = companion.script /\ Claimed(companion, m.id) = {}
                    /\ companion' = companion
                 \/ /\ m.sender = companion.script /\ Claimed(companion, m.id) # {}
                    /\ companion' = CompleteRequest(companion, m.id, m.answer)
  BY <1>1, <1>10 DEF EnsureScript, EnsureReady, Ready
<1>11. QED
  BY <1>6, <1>7, <1>8, <1>9, <1>10

\* A registration is read: its callback lets the script poll.
LEMMA RegisterRead ==
  ASSUME ChannelInv, HandleRegister
  PROVE  /\ inbox # <<>> /\ Head(inbox).kind = "register"
         /\ Head(inbox).sender \in ScriptNames /\ Head(inbox).reset \in BOOLEAN
         /\ companion.up /\ UNCHANGED <<app, grabs>>
         /\ AppKeepsUp \/ (Head(inbox).reset /\ companion.script = Head(inbox).sender)
         /\ companion' = MarkReady(companion, Head(inbox).sender, Head(inbox).reset)
         /\ script.update.id = 0 /\ \A n, x, answers : ~Says(inbox', n, x, answers)
         /\ script'.update = script.update /\ script'.active = script.active
         /\ script'.name = script.name /\ script'.on = script.on
         /\ SameWord(Tail(inbox), inbox')
<1> DEFINE m == Head(inbox)
           r == Tail(inbox)
<1>1. /\ Handling("register") /\ companion' = MarkReady(companion, m.sender, m.reset)
      /\ Continue(r, IF m.heard THEN PollRequests(Idle(script)) ELSE Idle(script))
      /\ UNCHANGED <<app, grabs>>
      /\ AppKeepsUp \/ (m.reset /\ companion.script = m.sender)
  BY DEF HandleRegister, native
<1>2. /\ companion.up /\ m.kind = "register" /\ m \in Message /\ m = inbox[1]
      /\ 1 \in DOMAIN inbox /\ r \in Seq(Message) /\ inbox # <<>>
      /\ \A i \in DOMAIN r : i + 1 \in DOMAIN inbox /\ r[i] = inbox[i + 1] /\ 1 < i + 1
  BY <1>1, HandlingFacts
<1>3. m.sender \in ScriptNames /\ m.reset \in BOOLEAN /\ m.heard \in BOOLEAN
  BY <1>2, MessageFields
<1>4. script \in Scripts /\ Channel(inbox, script, companion.poll)
  BY ChannelInvNamed
<1> HIDE DEF m, r
<1>5. inbox[1].kind = "register" /\ Past(inbox, 1)
  BY <1>2 DEF Past
<1>6. script.update.id = 0
  BY <1>2, <1>4, <1>5 DEF Channel, InTurn
<1>7. \A i \in DOMAIN r : r[i].kind # "complete"
  BY <1>2, <1>4, <1>5 DEF Channel, InTurn
<1>8. \A n, x, answers : ~Says(r, n, x, answers)
  BY <1>7 DEF Says
<1>9. /\ script'.update = script.update /\ script'.active = script.active
      /\ script'.name = script.name /\ script'.on = script.on
      /\ SameWord(r, inbox')
  <2>1. CASE m.heard
    <3> DEFINE z == PollRequests(Idle(script))
    <3>1. script.on
      BY <1>2, <1>4, <2>1 DEF Channel, HeardByOne
    <3>2. script.name # None /\ script.name \in ScriptNames /\ script.name \notin Connections
      BY <3>1, OpenIsRunning, ConstantsOK
    <3>3. /\ z.script = [script EXCEPT !.polling = TRUE] /\ z.out \in Seq(Message)
          /\ z.out = <<>> \/ z.out = <<NextCall(script)>>
      BY <1>4, <3>2, PollShape
    <3>4. Continue(r, z)
      BY <1>1, <2>1
    <3> HIDE DEF z
    <3>5. NextCall(script).kind = "next" /\ NextCall(script).sender = script.name
      BY DEF NextCall
    <3>6. \A i \in DOMAIN z.out : z.out[i] = NextCall(script)
      BY <3>3
    <3>7. SameWord(r, r \o z.out)
      BY <1>2, <3>2, <3>3, <3>5, <3>6, PlusWord
    <3>8. script' = [script EXCEPT !.polling = TRUE] /\ inbox' = r \o z.out
      BY <1>2, <3>3, <3>4 DEF Continue
    <3>9. QED
      BY <1>4, <3>7, <3>8 DEF Scripts
  <2>2. CASE ~m.heard
    <3>1. Continue(r, Idle(script))
      BY <1>1, <2>2
    <3>2. inbox' = r \o <<>> /\ script' = script
      BY <1>2, <3>1 DEF Continue, Idle
    <3>3. inbox' = r
      BY <1>2, <3>2
    <3>4. QED
      BY <1>2, <3>2, <3>3, WordItself
  <2>3. QED
    BY <2>1, <2>2
<1>10. \A n, x, answers : ~Says(inbox', n, x, answers)
  BY <1>8, <1>9 DEF SameWord
<1>11. QED
  BY <1>1, <1>2, <1>3, <1>6, <1>9, <1>10 DEF m, r

\* Nothing is queued.
LEMMA NothingQueued ==
  ASSUME NEW free, NEW w, NEW d, NEW s, NEW g, NEW r,
         d.requests = <<>>, d.results = {}, d.registered = {}, s.update.id = 0,
         \A n, x, answers : ~Says(r, n, x, answers),
         \A a \in Apps : w[a].doing = "waiting" =>
           /\ w[a].id \in d.issued
           /\ \A b \in Apps : w[b].doing = "waiting" /\ w[a].id = w[b].id => a = b,
         free => Undisputed(w, d, r)
  PROVE  InOrder(free, w, d, s, g, r) /\ Distinct(d)
<1>1. DOMAIN d.requests = {} /\ Live(d, s, r) = {}
  BY DEF Live
<1>2. Claims(d, s, g, r)
  BY <1>1 DEF Claims, InHand, Ids
<1>3. Waits(w, d) /\ Ranks(w, d, r, Live(d, s, r)) /\ Restores(w, d, r, Live(d, s, r))
  BY <1>1 DEF Waits, Ranks, Restores, Releasing
<1>4. Beliefs(w, d, s, g, r, Live(d, s, r)) /\ OkIsSo(w, d)
  BY <1>1 DEF Beliefs, Restored, OkIsSo, Answered
<1>5. ASSUME free
      PROVE  Owned(w, d, r, Live(d, s, r))
  <2>1. Undisputed(w, d, r)
    BY <1>5
  <2>2. Unrejected(d, r) /\ Owning(w, d)
    BY <1>1, <2>1 DEF Unrejected, Undisputed, Owning, Answered
  <2>3. Releases(w, d, Live(d, s, r)) /\ Single(d, r, Live(d, s, r))
    BY <1>1 DEF Releases, Single, Releasing
  <2>4. QED
    BY <2>2, <2>3 DEF Owned
<1>6. QED
  BY <1>1, <1>2, <1>3, <1>4, <1>5 DEF InOrder, Distinct

LEMMA HandleRegisterKeepsQueue ==
  ASSUME ChannelInv, Queued, HandleRegister
  PROVE  QueueKept
<1> DEFINE m == Head(inbox)
           sender == m.sender
           reset == m.reset
           r == Tail(inbox)
           d == companion'
<1>1. /\ inbox # <<>> /\ m.kind = "register" /\ sender \in ScriptNames /\ reset \in BOOLEAN
      /\ companion.up /\ UNCHANGED <<app, grabs>>
      /\ AppKeepsUp \/ (reset /\ companion.script = sender)
      /\ companion' = MarkReady(companion, sender, reset)
      /\ script.update.id = 0 /\ \A n, x, answers : ~Says(inbox', n, x, answers)
      /\ script'.update = script.update /\ script'.active = script.active
      /\ script'.name = script.name /\ script'.on = script.on
      /\ SameWord(r, inbox')
  BY RegisterRead
<1>2. /\ app \in [Apps -> AppRecords] /\ inbox \in Seq(Message) /\ companion \in Companions
      /\ Sound(companion) /\ Connected(app, companion, inbox) /\ Distinct(companion)
      /\ companion.script # None => InOrder(Unrefused, app, companion, script, grabs, inbox)
      /\ \A i \in DOMAIN companion.requests : companion.requests[i].id \in Ids
      /\ companion.registered \in SUBSET Keys
  BY QueuedNow DEF Companions
<1>3. /\ Sound(d) /\ d.up /\ d.script = sender /\ d.controller = companion.controller
      /\ IF ~reset /\ companion.script = sender
         THEN /\ d.requests = companion.requests /\ d.results = companion.results
              /\ d.issued = companion.issued /\ d.registered = companion.registered
              /\ d.poll = companion.poll
         ELSE /\ d.poll = NoPoll /\ d.registered = {}
              /\ \/ /\ companion.registered # {} \/ ~reset
                    /\ StartsOver(companion, d, companion.registered)
                 \/ /\ reset /\ companion.registered = {} /\ d.requests = <<>>
                    /\ d.results = {} /\ d.issued = companion.issued
  <2> HIDE DEF m, r
  <2>1. d = MarkReady(companion, sender, reset)
    BY <1>1
  <2>2. QED
    BY <1>1, <1>2, <2>1, MarkReadyShape
<1>4. CASE ~reset /\ companion.script = sender
  <2>1. SameWord(inbox, r)
    BY <1>1, <1>2, <1>4, ReadWord
  <2>2. SameWord(inbox, inbox')
    BY <1>1, <2>1, SameWordTwice
  <2>3. /\ Same(companion, companion') /\ companion'.up = companion.up
    BY <1>1, <1>3, <1>4 DEF Same, Kin
  <2>4. /\ SameNames(inbox, inbox') /\ SaysSame(inbox, inbox')
        /\ (Resets(inbox') <=> Resets(inbox)) /\ Heeds(companion, inbox, inbox')
    BY <1>2, <2>2, HeedsInWord DEF SameWord
  <2>5. companion.script # None
    BY <1>1, <1>4, ConstantsOK
  <2>6. InOrder(Unrefused, app, companion', script', grabs, inbox')
    BY <1>1, <1>2, <2>3, <2>4, <2>5, Aside
  <2>7. QED
    BY <1>1, <2>3, <2>4, <2>6, CoreStays
<1>5. CASE ~(~reset /\ companion.script = sender)
  <2>1. Connected(app, d, inbox')
    <3>1. \A x : ~LostFirst(inbox, x)
      BY <1>1 DEF LostFirst
    <3>2. Connected(app, d, r)
      BY <1>1, <1>2, <1>3, <3>1, ConnectedRead
    <3> HIDE DEF d
    <3>3. SameNames(r, inbox') /\ d \in Companions
      BY <1>1, <1>3 DEF SameWord, Sound
    <3>4. QED
      BY <1>2, <3>2, <3>3, ConnectedInWord
  <2>2. companion.script = None => AppKeepsUp
    BY <1>1, ConstantsOK
  <2>3. companion.script = None =>
          \A a \in Apps : app[a].doing # "waiting" /\ ~(app[a].doing = "idle" /\ app[a].held # None)
    BY <2>2 DEF AppKeepsUp, Unaware, PollFails, WaitFails, Ready
  <2>4. \A a \in Apps : app[a].doing = "waiting" =>
          /\ app[a].id \in Ids /\ app[a].id \in companion.issued
          /\ app[a].id \in RememberedElsewhere
          /\ \A b \in Apps : app[b].doing = "waiting" /\ app[a].id = app[b].id => a = b
    <3>1. \A a \in Apps : app[a].id \in RememberedElsewhere
      BY DEF RememberedElsewhere
    <3>2. companion.issued \subseteq Ids
      BY <1>2 DEF Companions
    <3>3. companion.script # None => Waits(app, companion)
      BY <1>2 DEF InOrder
    <3>4. QED
      BY <2>3, <3>1, <3>2, <3>3 DEF Waits
  <2>5. Unrefused => Aware(app, d)
    BY <1>3, QueuedNow DEF Aware
  <2>6. Unrefused => Undisputed(app, d, inbox')
    <3>1. companion.script # None /\ Unrefused => Owning(app, companion)
      BY <1>2 DEF InOrder, Owned
    <3>2. QED
      BY <1>1, <1>3, <2>3, <2>5, <3>1 DEF Undisputed, Owning
  <2>7. InOrder(Unrefused, app, d, script', grabs, inbox') /\ Distinct(d)
    <3>1. CASE /\ companion.registered # {} \/ ~reset
               /\ StartsOver(companion, d, companion.registered)
      <4>1. ASSUME NEW a \in Apps, app[a].doing = "idle", app[a].held \in SUBSET Keys,
                   app[a].held # {}
            PROVE  /\ d.controller \in {None, app[a].conn}
                        => companion.registered \in {{}, app[a].held}
                   /\ d.controller # None => companion.registered # {}
        <5>1. app[a].held # None
          BY <4>1, ConstantsOK
        <5>2. companion.script # None
          BY <2>3, <4>1, <5>1
        <5>3. Beliefs(app, companion, script, grabs, inbox, Live(companion, script, inbox))
          BY <1>2, <5>2 DEF InOrder
        <5>4. Believes(app, companion, a, app[a].held)
          BY <4>1 DEF Believes
        <5>5. companion.controller \in {None, app[a].conn}
                => companion.registered \in {{}, app[a].held}
          BY <4>1, <5>3, <5>4 DEF Beliefs, Kept, Restored
        <5>6. ~reset => AppKeepsUp
          BY <1>1
        <5>7. ~reset => (companion.controller # None => companion.registered # {})
          BY <4>1, <5>1, <5>6 DEF AppKeepsUp, Unaware, PollFails
        <5>8. QED
          BY <1>3, <3>1, <5>5, <5>7
      <4>2. script'.update.id # 0 => d.script = script'.name
        BY <1>1
      <4>3. \A y \in Ids : InHand(d, script', inbox', y) =>
              y \in companion.issued /\ y \in RememberedElsewhere
        BY <1>1 DEF InHand, Ids
      <4> DEFINE t == script'
                 q == inbox'
      <4>4. t.update.id # 0 => d.script = t.name
        BY <4>2
      <4>5. \A y \in Ids : InHand(d, t, q, y) =>
               y \in companion.issued /\ y \in RememberedElsewhere
        BY <4>3
      <4>6. Unrefused => Undisputed(app, d, q)
        BY <2>6
      <4>7. StartsOver(companion, d, companion.registered)
        BY <3>1
      <4>8. Wanted(app, d, companion.registered)
        BY <4>1 DEF Wanted
      <4> HIDE DEF d, t, q
      <4>9. InOrder(Unrefused, app, d, t, grabs, q) /\ Distinct(d)
        <5>1. app \in [Apps -> AppRecords] /\ companion.registered \in SUBSET Keys
          BY <1>2
        <5>2. QED
          BY <2>4, <4>4, <4>7, <4>8, <4>6, <4>5, <5>1, StartingOver
      <4>10. QED
        BY <4>9 DEF t, q
    <3>2. CASE /\ reset /\ companion.registered = {} /\ d.requests = <<>>
               /\ d.results = {} /\ d.issued = companion.issued
      <4>1. d.registered = {} /\ script'.update.id = 0
        BY <1>1, <1>3, <1>5
      <4> DEFINE t == script'
                 q == inbox'
      <4>2. /\ t.update.id = 0 /\ \A n, x, answers : ~Says(q, n, x, answers)
            /\ Unrefused => Undisputed(app, d, q)
        BY <1>1, <2>6
      <4>3. \A a \in Apps : app[a].doing = "waiting" =>
              /\ app[a].id \in d.issued
              /\ \A b \in Apps : app[b].doing = "waiting" /\ app[a].id = app[b].id => a = b
        BY <2>4, <3>2
      <4> HIDE DEF d, t, q
      <4>4. InOrder(Unrefused, app, d, t, grabs, q) /\ Distinct(d)
        BY <3>2, <4>1, <4>2, <4>3, NothingQueued
      <4>5. QED
        BY <4>4 DEF t, q
    <3>3. QED
      BY <1>3, <1>5, <3>1, <3>2
  <2>8. Queue(Unrefused, app, companion', script', grabs, inbox')
    BY <2>1, <2>7, <2>5 DEF Queue
  <2>9. QED
    BY <1>1, <2>8 DEF QueueKept
<1>6. QED
  BY <1>4, <1>5

-----------------------------------------------------------------------------
(* The Apps come and go.                                                   *)

\* An App that waits for nothing and believes nothing takes the place of what it was.
LEMMA Withdrawing ==
  ASSUME NEW free, NEW w \in [Apps -> AppRecords], NEW a \in Apps, NEW rec, NEW v,
         v = [w EXCEPT ![a] = rec],
         rec.id = 0, rec.held = None, rec.doing \in {"idle", "gone"},
         NEW c, NEW s, NEW g, NEW q, NEW r, InOrder(free, w, c, s, g, q), SaysSame(q, r),
         Resets(r) <=> Resets(q), \A x : LostFirst(q, x) => LostFirst(r, x),
         free /\ c.controller # None => rec.conn # c.controller,
         \A i \in DOMAIN c.requests : c.requests[i].id \in Ids,
         \A i \in DOMAIN c.requests : 1 < i =>
           c.requests[i].controller # rec.conn /\ ~CalledIn(r, c.requests[i].controller),
         (/\ Releasing(c, Live(c, s, q)) /\ ~OwnRelease(v, c)
          /\ ~LostIn(r, c.controller) \/ CalledIn(r, c.controller)) => NoHolder(w, c)
  PROVE  InOrder(free, v, c, s, g, r)
<1> DEFINE live == Live(c, s, q)
<1>1. /\ v[a] = rec
      /\ \A b \in Apps : b # a => v[b] = w[b]
  OBVIOUS
<1>2. \A S \in SUBSET Keys : None # S
  BY ConstantsOK
<1>3. \A S \in SUBSET Keys : ~Believes(v, c, a, S)
  BY <1>1, <1>2 DEF Believes
<1>4. \A b \in Apps : b # a =>
        /\ \A answers : Answered(v, c, b, answers) <=> Answered(w, c, b, answers)
        /\ Known(v, c, b) <=> Known(w, c, b)
  BY <1>1 DEF Known, Answered
<1>5. \A b \in Apps : \A S \in SUBSET Keys : Believes(v, c, b, S) => b # a /\ Believes(w, c, b, S)
  BY <1>1, <1>3, <1>4 DEF Believes
<1>6. NoHolder(w, c) => NoHolder(v, c)
  BY <1>5 DEF NoHolder
<1>7. /\ \A x : InHand(c, s, r, x) <=> InHand(c, s, q, x)
      /\ Current(c, s, r) <=> Current(c, s, q)
  BY DEF InHand, SaysSame, Current
<1>8. Live(c, s, r) = live
  BY <1>7 DEF Live
<1>9. /\ Claims(c, s, g, q) /\ Waits(w, c) /\ Ranks(w, c, q, live) /\ Restores(w, c, q, live)
      /\ Beliefs(w, c, s, g, q, live) /\ OkIsSo(w, c)
  BY DEF InOrder
<1>10. Claims(c, s, g, r)
  BY <1>7, <1>9 DEF Claims, SaysSame
<1>11. Waits(v, c)
  BY <1>1, <1>9 DEF Waits
<1>12. live \subseteq DOMAIN c.requests
  BY DEF Live
<1> HIDE DEF live
<1>13. Ranks(v, c, r, live)
  <2>1. \A i \in DOMAIN c.requests : 1 < i =>
          c.requests[i].controller # rec.conn /\ ~CalledIn(r, c.requests[i].controller)
    OBVIOUS
  <2>2. \A b \in Apps : \A i \in DOMAIN c.requests :
          1 < i /\ c.requests[i].controller = v[b].conn => c.requests[i].id = v[b].id
    BY <1>1, <1>9, <2>1 DEF Ranks
  <2>3. QED
    BY <1>9, <2>1, <2>2 DEF Ranks
<1>14. Restores(v, c, r, live)
  <2>1. (/\ Releasing(c, live) /\ ~OwnRelease(v, c)
         /\ ~LostIn(r, c.controller) \/ CalledIn(r, c.controller)) => NoHolder(v, c)
    BY <1>6 DEF live
  <2>2. QED
    BY <1>6, <1>9, <2>1 DEF Restores
<1>15. Beliefs(v, c, s, g, r, live)
  <2>1. SUFFICES ASSUME NEW b \in Apps, NEW S \in SUBSET Keys, S # {},
                        Believes(v, c, b, S), c.controller \in {None, v[b].conn}
                 PROVE  \/ Kept(v, c, live, b, S) /\ Delivered(v, c, s, g, r, b)
                        \/ Restored(v, c, live, b, S)
    BY DEF Beliefs
  <2>2. b # a /\ Believes(w, c, b, S) /\ v[b] = w[b]
    BY <1>1, <1>5, <2>1
  <2>3. \/ Kept(w, c, live, b, S) /\ Delivered(w, c, s, g, q, b)
        \/ Restored(w, c, live, b, S)
    BY <1>9, <2>1, <2>2 DEF Beliefs
  <2>4. Delivered(w, c, s, g, q, b) => Delivered(v, c, s, g, r, b)
    BY <1>7, <2>2 DEF Delivered, Changing, SaysSame
  <2>5. QED
    BY <2>2, <2>3, <2>4 DEF Kept, Restored
<1>16. OkIsSo(v, c)
  BY <1>1, <1>4, <1>9 DEF OkIsSo
<1>17. ASSUME free
       PROVE  Owned(v, c, r, live)
  <2>1. /\ Unrejected(c, q) /\ Owning(w, c) /\ Releases(w, c, live) /\ Single(c, q, live)
        /\ c.controller # None => rec.conn # c.controller
    BY <1>17 DEF InOrder, Owned, live
  <2>2. Unrejected(c, r)
    BY <2>1 DEF Unrejected, SaysSame
  <2>3. Owning(v, c)
    BY <1>1, <1>4, <2>1 DEF Owning
  <2>4. Releases(v, c, live)
    BY <1>1, <1>4, <2>1 DEF Releases, Informed
  <2>5. Single(c, r, live)
    BY <2>1 DEF Single
  <2>6. QED
    BY <2>2, <2>3, <2>4, <2>5 DEF Owned
<1>18. QED
  BY <1>8, <1>10, <1>11, <1>13, <1>14, <1>15, <1>16, <1>17 DEF InOrder

\* The queue, when a rests.
LEMMA RestInOrder ==
  ASSUME ChannelInv, Queued, NEW a \in Apps, NEW rec, app' = [app EXCEPT ![a] = rec],
         rec.id = 0, rec.held = None, rec.doing \in {"idle", "gone"},
         SaysSame(inbox, inbox'), Resets(inbox') <=> Resets(inbox),
         \A x : LostFirst(inbox, x) => LostFirst(inbox', x),
         Unrefused /\ companion.controller # None => rec.conn # companion.controller,
         companion.script # None =>
           /\ \A i \in DOMAIN companion.requests : 1 < i =>
                /\ companion.requests[i].controller # rec.conn
                /\ ~CalledIn(inbox', companion.requests[i].controller)
           /\ (/\ Releasing(companion, Live(companion, script, inbox))
               /\ ~OwnRelease(app', companion)
               /\ \/ ~LostIn(inbox', companion.controller)
                  \/ CalledIn(inbox', companion.controller)) => NoHolder(app, companion)
  PROVE  companion.script # None => InOrder(Unrefused, app', companion, script, grabs, inbox')
<1> DEFINE v == app'
           r == inbox'
<1>1. /\ app \in [Apps -> AppRecords] /\ Distinct(companion)
      /\ companion.script # None => InOrder(Unrefused, app, companion, script, grabs, inbox)
      /\ \A i \in DOMAIN companion.requests : companion.requests[i].id \in Ids
  BY QueuedNow
<1>2. /\ v = [app EXCEPT ![a] = rec] /\ SaysSame(inbox, r) /\ (Resets(r) <=> Resets(inbox))
      /\ rec.id = 0 /\ rec.held = None /\ rec.doing \in {"idle", "gone"}
      /\ \A x : LostFirst(inbox, x) => LostFirst(r, x)
      /\ Unrefused /\ companion.controller # None => rec.conn # companion.controller
  OBVIOUS
<1>3. companion.script # None =>
        /\ \A i \in DOMAIN companion.requests : 1 < i =>
             companion.requests[i].controller # rec.conn
             /\ ~CalledIn(r, companion.requests[i].controller)
        /\ (/\ Releasing(companion, Live(companion, script, inbox)) /\ ~OwnRelease(v, companion)
            /\ ~LostIn(r, companion.controller) \/ CalledIn(r, companion.controller))
             => NoHolder(app, companion)
  OBVIOUS
<1> HIDE DEF v, r
<1>4. companion.script # None => InOrder(Unrefused, v, companion, script, grabs, r)
  BY <1>1, <1>2, <1>3, Withdrawing
<1>5. QED
  BY <1>4 DEF v, r

LEMMA StaysInOrder ==
  ASSUME ChannelInv, Queued, UNCHANGED <<companion, script, grabs>>,
         Connected(app', companion, inbox'), Unrefused => Aware(app', companion),
         companion.script # None => InOrder(Unrefused, app', companion, script, grabs, inbox')
  PROVE  QueueKept
<1>1. Distinct(companion)
  BY QueuedNow
<1>2. Queue(Unrefused, app', companion', script', grabs', inbox')
  BY <1>1 DEF Queue
<1>3. QED
  BY <1>2 DEF QueueKept

\* What an App that drops its connection changes of the names.
LEMMA Dropping ==
  ASSUME ChannelInv, Queued, NEW a \in Apps, NEW state \in {"idle", "gone"},
         Disconnect(a, state)
  PROVE  /\ app' = [app EXCEPT ![a] = Forgotten(a, state)]
         /\ SaysSame(inbox, inbox') /\ (Resets(inbox') <=> Resets(inbox))
         /\ \A x : CalledIn(inbox', x) <=> CalledIn(inbox, x)
         /\ \A x : x # app[a].conn => (LostIn(inbox', x) <=> LostIn(inbox, x))
         /\ app[a].conn # None /\ app[a].conn = companion.controller
              => LostIn(inbox', companion.controller) /\ ~CalledIn(inbox', companion.controller)
         /\ \A x : Unused(inbox, x) /\ x # app[a].conn => Unused(inbox', x)
         /\ Paired(inbox') /\ \A x : LostFirst(inbox, x) => LostFirst(inbox', x)
<1> DEFINE x == app[a].conn
           r == inbox'
<1>1. /\ app \in [Apps -> AppRecords] /\ inbox \in Seq(Message)
      /\ Connected(app, companion, inbox)
  BY QueuedNow
<1>2. x \in Controllers
  BY <1>1 DEF AppRecords
<1>3. r = IF companion.up THEN inbox \o Announced(a, x) ELSE inbox
  BY DEF Disconnect, Posted
<1> HIDE DEF x, r
<1>4. EndTold(inbox, r, x)
  BY <1>1, <1>2, <1>3, AnnouncedWord
<1>5. x # None => Unused(inbox, x)
  BY <1>1 DEF Connected, x
<1>6. x # None => ~CalledIn(r, x)
  BY <1>4, <1>5 DEF Unused, CalledIn, EndTold
<1>7. companion.controller # None => companion.up
  BY <1>1 DEF Connected
<1>8. Paired(r) /\ SaysSame(inbox, r)
  BY <1>1, <1>4 DEF Connected, EndTold
<1>9. x # None /\ x = companion.controller
        => LostIn(r, companion.controller) /\ ~CalledIn(r, companion.controller)
  BY <1>4, <1>6, <1>7 DEF EndTold
<1>10. app' = [app EXCEPT ![a] = Forgotten(a, state)]
  BY DEF Disconnect
<1>11. QED
  BY <1>4, <1>8, <1>9, <1>10 DEF x, r, EndTold

LEMMA DroppedConnection ==
  ASSUME ChannelInv, Queued, NEW a \in Apps, NEW state \in {"idle", "gone"},
         Disconnect(a, state), NEW d, d.controller = companion.controller, d.up = companion.up
  PROVE  Connected(app', d, inbox')
<1> DEFINE f == Forgotten(a, state)
           r == inbox'
           v == app'
<1>1. app \in [Apps -> AppRecords] /\ Connected(app, companion, inbox)
  BY QueuedNow
<1>2. f \in AppRecords /\ f.conn = None /\ f.held = None /\ f.id = 0 /\ f.doing \in {"idle", "gone"}
  BY <1>1, ForgottenTyped
<1>3. /\ v = [app EXCEPT ![a] = f] /\ Paired(r)
      /\ \A x : x # app[a].conn => (LostIn(r, x) <=> LostIn(inbox, x))
      /\ app[a].conn # None /\ app[a].conn = companion.controller
           => LostIn(r, companion.controller)
      /\ \A x : Unused(inbox, x) /\ x # app[a].conn => Unused(r, x)
  BY Dropping
<1> HIDE DEF f, r, v
<1>4. Standing(f)
  BY <1>2 DEF Standing
<1>5. \A b \in Apps : b # a /\ app[b].conn # None => Unused(r, app[b].conn)
  BY <1>1, <1>3 DEF Connected
<1>6. d.controller # None => d.up
  BY <1>1 DEF Connected
<1>7. d.controller # None => \/ \E b \in Apps : b # a /\ app[b].conn = d.controller
                             \/ LostIn(r, d.controller)
  BY <1>1, <1>3 DEF Connected
<1>8. Connected(v, d, r)
  BY <1>1, <1>2, <1>3, <1>4, <1>5, <1>6, <1>7, ConnectedMoves
<1>9. QED
  BY <1>8 DEF r, v

LEMMA DisconnectInOrder ==
  ASSUME ChannelInv, Queued, NEW a \in Apps, NEW state \in {"idle", "gone"},
         Disconnect(a, state)
  PROVE  companion.script # None => InOrder(Unrefused, app', companion, script, grabs, inbox')
<1> DEFINE f == Forgotten(a, state)
           r == inbox'
           v == app'
           live == Live(companion, script, inbox)
<1>1. /\ app \in [Apps -> AppRecords] /\ Connected(app, companion, inbox)
      /\ companion.script # None => InOrder(Unrefused, app, companion, script, grabs, inbox)
      /\ DOMAIN companion.requests \subseteq Nat
  BY QueuedNow
<1>2. f.conn = None /\ f.held = None /\ f.id = 0 /\ f.doing \in {"idle", "gone"}
  BY <1>1, ForgottenTyped
<1>3. /\ v = [app EXCEPT ![a] = f] /\ Paired(r)
      /\ SaysSame(inbox, r) /\ (Resets(r) <=> Resets(inbox))
      /\ \A x : x # app[a].conn => (LostIn(r, x) <=> LostIn(inbox, x))
      /\ \A x : CalledIn(r, x) <=> CalledIn(inbox, x)
      /\ app[a].conn # None /\ app[a].conn = companion.controller
           => LostIn(r, companion.controller) /\ ~CalledIn(r, companion.controller)
      /\ \A x : LostFirst(inbox, x) => LostFirst(r, x)
  BY Dropping
<1> HIDE DEF f, r, v, live
<1>4. ASSUME companion.script # None, Releasing(companion, live), ~OwnRelease(v, companion),
             ~LostIn(r, companion.controller) \/ CalledIn(r, companion.controller)
      PROVE  NoHolder(app, companion)
  <2>1. companion.controller # None
    BY <1>4 DEF Releasing
  <2>2. app[a].conn # companion.controller
    BY <1>3, <1>4, <2>1
  <2>3. ~OwnRelease(app, companion)
    BY <1>1, <1>3, <1>4, <2>2 DEF OwnRelease
  <2>4. ~LostIn(inbox, companion.controller) \/ CalledIn(inbox, companion.controller)
    BY <1>3, <1>4, <2>2
  <2>5. Restores(app, companion, inbox, live)
    BY <1>1, <1>4 DEF InOrder, live
  <2>6. QED
    BY <1>4, <2>3, <2>4, <2>5 DEF Restores
<1>5. ASSUME companion.script # None, NEW i \in DOMAIN companion.requests, 1 < i
      PROVE  /\ companion.requests[i].controller # f.conn
             /\ ~CalledIn(r, companion.requests[i].controller)
  <2>1. Ranks(app, companion, inbox, live)
    BY <1>1, <1>5 DEF InOrder, live
  <2>2. 1 \in DOMAIN companion.requests
    <3>1. DOMAIN companion.requests = 1 .. Len(companion.requests) /\ Len(companion.requests) \in Nat
      BY QueuedNow, RequestsTyped
    <3>2. QED
      BY <1>5, <3>1
  <2>3. companion.requests[i].controller # None
    BY <1>5, <2>1, <2>2 DEF Ranks
  <2>4. QED
    BY <1>2, <1>3, <1>5, <2>1, <2>3 DEF Ranks
<1>6. SaysSame(inbox, inbox') /\ (Resets(inbox') <=> Resets(inbox))
      /\ app' = [app EXCEPT ![a] = f] /\ (companion.controller # None => f.conn # companion.controller)
      /\ \A x : LostFirst(inbox, x) => LostFirst(inbox', x)
  BY <1>2, <1>3 DEF r, v
<1>7. companion.script # None =>
        /\ \A i \in DOMAIN companion.requests : 1 < i =>
             /\ companion.requests[i].controller # f.conn
             /\ ~CalledIn(inbox', companion.requests[i].controller)
        /\ (/\ Releasing(companion, Live(companion, script, inbox))
            /\ ~OwnRelease(app', companion)
            /\ \/ ~LostIn(inbox', companion.controller)
               \/ CalledIn(inbox', companion.controller)) => NoHolder(app, companion)
  BY <1>4, <1>5 DEF r, v, live
<1>8. QED
  BY <1>2, <1>6, <1>7, RestInOrder

\* Who has no connection controls nothing.
LEMMA RestsAware ==
  ASSUME ChannelInv, Queued, NEW a \in Apps, NEW rec, app' = [app EXCEPT ![a] = rec],
         companion.controller # None => rec.conn # companion.controller,
         NEW d, d.controller = companion.controller
  PROVE  Unrefused => Aware(app', d)
<1>1. /\ app \in [Apps -> AppRecords]
      /\ Unrefused => Aware(app, companion)
  BY QueuedNow
<1>2. app'[a] = rec /\ \A b \in Apps : b # a => app'[b] = app[b]
  BY <1>1
<1>3. QED
  BY <1>1, <1>2 DEF Aware

LEMMA DropsAware ==
  ASSUME ChannelInv, Queued, NEW a \in Apps, NEW state \in {"idle", "gone"},
         Disconnect(a, state), NEW d, d.controller = companion.controller
  PROVE  Unrefused => Aware(app', d)
<1> DEFINE f == Forgotten(a, state)
<1>1. app \in [Apps -> AppRecords]
  BY QueuedNow
<1>2. f.conn = None
  BY <1>1, ForgottenTyped
<1>3. app' = [app EXCEPT ![a] = f]
  BY Dropping
<1> HIDE DEF f
<1>4. QED
  BY <1>2, <1>3, RestsAware

LEMMA DisconnectKeepsQueue ==
  ASSUME ChannelInv, Queued, NEW a \in Apps, NEW state \in {"idle", "gone"},
         Disconnect(a, state), UNCHANGED <<companion, script, grabs>>
  PROVE  QueueKept
<1>1. Connected(app', companion, inbox')
  BY DroppedConnection
<1>2. companion.script # None => InOrder(Unrefused, app', companion, script, grabs, inbox')
  BY DisconnectInOrder
<1>3. Unrefused => Aware(app', companion)
  BY DropsAware
<1>4. QED
  BY <1>1, <1>2, <1>3, StaysInOrder

LEMMA CallFailsKeepsQueue ==
  ASSUME ChannelInv, Queued, NEW a \in Apps, NEW state \in {"idle", "gone"},
         CallFails(a, state)
  PROVE  QueueKept
<1>1. /\ UNCHANGED <<script, grabs, taken>> /\ Disconnect(a, state)
      /\ companion' = companion \/ Reset(companion, companion')
  BY CallFailing
<1>2. CASE companion' = companion
  BY <1>1, <1>2, DisconnectKeepsQueue
<1>3. CASE Reset(companion, companion')
  <2>1. companion'.controller = companion.controller /\ companion'.up = companion.up
    BY <1>3 DEF Reset
  <2> DEFINE d == companion'
  <2>2. d.controller = companion.controller /\ d.up = companion.up
    BY <2>1
  <2> HIDE DEF d
  <2>3. Connected(app', d, inbox')
    BY <1>1, <2>2, DroppedConnection
  <2>4. Unrefused => Aware(app', d)
    BY <1>1, <2>2, DropsAware
  <2>5. Connected(app', companion', inbox') /\ (Unrefused => Aware(app', companion'))
    BY <2>3, <2>4 DEF d
  <2>6. QED
    BY <1>3, <2>5, QueueEmptied DEF Reset
<1>4. QED
  BY <1>1, <1>2, <1>3

LEMMA LateKeepsQueue ==
  ASSUME ChannelInv, Queued, NEW a \in Apps, AppRegistersLate(a)
  PROVE  QueueKept
<1> DEFINE f == Forgotten(a, "idle")
           x == ConnectionOf(a)
           r == inbox'
           v == app'
           live == Live(companion, script, inbox)
<1>1. PICK set \in Sets :
        /\ CanConnect(a) /\ companion.up /\ app[a].doing = "idle"
        /\ inbox' = inbox \o LateCall(a, set)
        /\ v = [app EXCEPT ![a] = f]
        /\ UNCHANGED <<companion, script, native>>
  BY DEF AppRegistersLate, LateCall
<1>2. /\ app \in [Apps -> AppRecords] /\ inbox \in Seq(Message)
      /\ Connected(app, companion, inbox)
      /\ companion.script # None => InOrder(Unrefused, app, companion, script, grabs, inbox)
      /\ DOMAIN companion.requests \subseteq Nat
      /\ \A i \in DOMAIN companion.requests : companion.requests[i].id \in Ids
  BY QueuedNow
<1>3. /\ f \in AppRecords /\ f.conn = None /\ f.held = None /\ f.id = 0
      /\ f.doing \in {"idle", "gone"}
  BY <1>2, ForgottenTyped
<1>4. /\ x \in Connections /\ x # None
      /\ \A b \in Apps : app[b].conn = x => b = a
      /\ Unused(inbox, x)
      /\ app[a].conn # None => x = app[a].conn
      /\ app[a].conn = None =>
           /\ companion.controller # x
           /\ \A i \in DOMAIN companion.requests : companion.requests[i].controller # x
  BY <1>1, OwnConnection
<1>5. CallLeft(inbox, r, x)
  <2>1. set \in SUBSET Keys
    BY ConstantsOK
  <2>2. r = inbox \o LateCall(a, set)
    BY <1>1
  <2> HIDE DEF r
  <2>3. QED
    BY <1>2, <1>4, <2>1, <2>2, LateWord
<1>6. app[a].id = 0
  BY <1>1, <1>2 DEF Connected
<1> HIDE DEF f, x, r, v, live
<1>7. Connected(v, companion, r)
  <2>1. Standing(f)
    BY <1>3 DEF Standing
  <2>2. \A b \in Apps : b # a /\ app[b].conn # None => Unused(r, app[b].conn)
    BY <1>2, <1>4, <1>5 DEF Connected, CallLeft
  <2>3. Paired(r)
    BY <1>2, <1>4, <1>5 DEF Connected, CallLeft
  <2>4. companion.controller # None => \/ \E b \in Apps : b # a /\ app[b].conn = companion.controller
                                       \/ LostIn(r, companion.controller)
    BY <1>2, <1>4, <1>5 DEF Connected, CallLeft
  <2>5. companion.controller # None => companion.up
    BY <1>1
  <2>6. QED
    BY <1>1, <1>2, <1>3, <2>1, <2>2, <2>3, <2>4, <2>5, ConnectedMoves
<1>8. ASSUME companion.script # None, Releasing(companion, live), ~OwnRelease(v, companion),
             ~LostIn(r, companion.controller) \/ CalledIn(r, companion.controller)
      PROVE  NoHolder(app, companion)
  <2>1. Restores(app, companion, inbox, live)
    BY <1>2, <1>8 DEF InOrder, live
  <2>2. companion.requests[1].id # 0
    BY <1>2, <1>8 DEF Releasing, Live, live, Ids
  <2>3. CASE companion.controller = x
    <3>1. ~OwnRelease(app, companion) /\ ~LostIn(inbox, companion.controller)
      BY <1>4, <1>6, <2>2, <2>3 DEF OwnRelease, Unused, LostIn
    <3>2. QED
      BY <1>8, <2>1, <3>1 DEF Restores
  <2>4. CASE companion.controller # x
    <3>1. companion.controller # None /\ companion.controller # app[a].conn
      BY <1>4, <1>8, <2>4 DEF Releasing
    <3>2. ~OwnRelease(app, companion)
      BY <1>1, <1>2, <1>8, <3>1 DEF OwnRelease
    <3>3. ~LostIn(inbox, companion.controller) \/ CalledIn(inbox, companion.controller)
      BY <1>5, <1>8, <2>4 DEF CallLeft
    <3>4. QED
      BY <1>8, <2>1, <3>2, <3>3 DEF Restores
  <2>5. QED
    BY <2>3, <2>4
<1>9. ASSUME companion.script # None, NEW i \in DOMAIN companion.requests, 1 < i
      PROVE  /\ companion.requests[i].controller # f.conn
             /\ ~CalledIn(r, companion.requests[i].controller)
  <2>1. Ranks(app, companion, inbox, live)
    BY <1>2, <1>9 DEF InOrder, live
  <2>2. 1 \in DOMAIN companion.requests
    <3>1. DOMAIN companion.requests = 1 .. Len(companion.requests) /\ Len(companion.requests) \in Nat
      BY QueuedNow, RequestsTyped
    <3>2. QED
      BY <1>9, <3>1
  <2>3. companion.requests[i].controller # None
    BY <1>9, <2>1, <2>2 DEF Ranks
  <2>4. companion.requests[i].controller = app[a].conn => companion.requests[i].id = 0
    BY <1>6, <1>9, <2>1 DEF Ranks
  <2>5. companion.requests[i].controller # x
    BY <1>2, <1>4, <2>4 DEF Ids
  <2>6. ~CalledIn(r, companion.requests[i].controller)
    BY <1>5, <1>9, <2>1, <2>5 DEF Ranks, CallLeft
  <2>7. QED
    BY <1>3, <2>3, <2>6
<1>10. SaysSame(inbox, inbox') /\ (Resets(inbox') <=> Resets(inbox))
       /\ app' = [app EXCEPT ![a] = f] /\ Connected(app', companion, inbox')
       /\ (companion.controller # None => f.conn # companion.controller)
       /\ \A y : LostFirst(inbox, y) => LostFirst(inbox', y)
  BY <1>1, <1>3, <1>5, <1>7 DEF r, v, CallLeft
<1>11. companion.script # None =>
         /\ \A i \in DOMAIN companion.requests : 1 < i =>
              /\ companion.requests[i].controller # f.conn
              /\ ~CalledIn(inbox', companion.requests[i].controller)
         /\ (/\ Releasing(companion, Live(companion, script, inbox))
             /\ ~OwnRelease(app', companion)
             /\ \/ ~LostIn(inbox', companion.controller)
                \/ CalledIn(inbox', companion.controller)) => NoHolder(app, companion)
  BY <1>8, <1>9 DEF r, v, live
<1>12. UNCHANGED <<companion, script, grabs>>
  BY <1>1 DEF native
<1>13. companion.script # None => InOrder(Unrefused, app', companion, script, grabs, inbox')
  BY <1>3, <1>10, <1>11, RestInOrder
<1>14. Unrefused => Aware(app', companion)
  BY <1>10, RestsAware
<1>15. QED
  BY <1>10, <1>12, <1>13, <1>14, StaysInOrder

\* An App that waits for nothing gets another connection, or starts.
LEMMA RestsKeepsQueue ==
  ASSUME ChannelInv, Queued, NEW a \in Apps, NEW rec \in AppRecords,
         app' = [app EXCEPT ![a] = rec], Standing(rec), rec.id = 0, rec.held = None,
         rec.doing \in {"idle", "gone"}, app[a].id = 0,
         rec.conn = app[a].conn \/ (CanConnect(a) /\ rec.conn = ConnectionOf(a)),
         companion.controller # None => rec.conn # companion.controller,
         UNCHANGED <<companion, script, grabs, inbox>>
  PROVE  QueueKept
<1> DEFINE live == Live(companion, script, inbox)
           v == app'
<1>1. /\ app \in [Apps -> AppRecords] /\ Connected(app, companion, inbox)
      /\ companion.script # None => InOrder(Unrefused, app, companion, script, grabs, inbox)
      /\ DOMAIN companion.requests \subseteq Nat
      /\ \A i \in DOMAIN companion.requests : companion.requests[i].id \in Ids
      /\ v = [app EXCEPT ![a] = rec]
  BY QueuedNow
<1>2. /\ rec.conn # None => /\ Unused(inbox, rec.conn)
                            /\ \A b \in Apps : app[b].conn = rec.conn => b = a
      /\ app[a].conn # None => rec.conn = app[a].conn
      /\ app[a].conn = None /\ rec.conn # None =>
           \A i \in DOMAIN companion.requests : companion.requests[i].controller # rec.conn
  <2>1. CASE rec.conn = app[a].conn
    BY <1>1, <2>1 DEF Connected
  <2>2. CASE CanConnect(a) /\ rec.conn = ConnectionOf(a)
    BY <2>2, OwnConnection
  <2>3. QED
    BY <2>1, <2>2
<1> HIDE DEF live, v
<1>3. Connected(v, companion, inbox)
  <2>1. \A b \in Apps : b # a /\ app[b].conn # None => Unused(inbox, app[b].conn)
    BY <1>1 DEF Connected
  <2>2. Paired(inbox) /\ (companion.controller # None => companion.up)
    BY <1>1 DEF Connected
  <2>3. companion.controller # None => \/ rec.conn = companion.controller
                                       \/ \E b \in Apps : b # a /\ app[b].conn = companion.controller
                                       \/ LostIn(inbox, companion.controller)
    BY <1>1, <1>2 DEF Connected
  <2>4. QED
    BY <1>1, <1>2, <2>1, <2>2, <2>3, ConnectedMoves
<1>4. ASSUME companion.script # None, Releasing(companion, live), ~OwnRelease(v, companion),
             ~LostIn(inbox, companion.controller) \/ CalledIn(inbox, companion.controller)
      PROVE  NoHolder(app, companion)
  <2>1. Restores(app, companion, inbox, live)
    BY <1>1, <1>4 DEF InOrder, live
  <2>2. companion.requests[1].id # 0
    BY <1>1, <1>4 DEF Releasing, Live, live, Ids
  <2>3. ~OwnRelease(app, companion)
    BY <1>1, <1>4, <2>2 DEF OwnRelease
  <2>4. QED
    BY <1>4, <2>1, <2>3 DEF Restores
<1>5. ASSUME companion.script # None, NEW i \in DOMAIN companion.requests, 1 < i
      PROVE  /\ companion.requests[i].controller # rec.conn
             /\ ~CalledIn(inbox, companion.requests[i].controller)
  <2>1. Ranks(app, companion, inbox, live)
    BY <1>1, <1>5 DEF InOrder, live
  <2>2. 1 \in DOMAIN companion.requests
    <3>1. DOMAIN companion.requests = 1 .. Len(companion.requests) /\ Len(companion.requests) \in Nat
      BY QueuedNow, RequestsTyped
    <3>2. QED
      BY <1>5, <3>1
  <2>3. companion.requests[i].controller # None /\ ~CalledIn(inbox, companion.requests[i].controller)
    BY <1>5, <2>1, <2>2 DEF Ranks
  <2>4. companion.requests[i].controller = app[a].conn => companion.requests[i].id = 0
    BY <1>5, <2>1 DEF Ranks
  <2>5. QED
    BY <1>1, <1>2, <2>3, <2>4 DEF Ids
<1>6. /\ SaysSame(inbox, inbox') /\ (Resets(inbox') <=> Resets(inbox))
      /\ Connected(app', companion, inbox') /\ \A x : LostFirst(inbox, x) => LostFirst(inbox', x)
  BY <1>3 DEF v, SaysSame
<1>7. companion.script # None =>
        /\ \A i \in DOMAIN companion.requests : 1 < i =>
             /\ companion.requests[i].controller # rec.conn
             /\ ~CalledIn(inbox', companion.requests[i].controller)
        /\ (/\ Releasing(companion, Live(companion, script, inbox))
            /\ ~OwnRelease(app', companion)
            /\ \/ ~LostIn(inbox', companion.controller)
               \/ CalledIn(inbox', companion.controller)) => NoHolder(app, companion)
  BY <1>4, <1>5 DEF v, live
<1>8. companion.script # None => InOrder(Unrefused, app', companion, script, grabs, inbox')
  BY <1>6, <1>7, RestInOrder
<1>9. Unrefused => Aware(app', companion)
  BY RestsAware
<1>10. QED
  BY <1>6, <1>8, <1>9, StaysInOrder

\* A result is taken: the App goes by it.
LEMMA Settling ==
  ASSUME NEW free, NEW w \in [Apps -> AppRecords], NEW a \in Apps, NEW rec, NEW v,
         v = [w EXCEPT ![a] = rec], NEW c, NEW s, NEW g, NEW q, InOrder(free, w, c, s, g, q),
         Distinct(c), w[a].doing = "waiting", w[a].id \in Ids,
         NEW t \in c.results, t.id = w[a].id, t.answer \in {"ok", "rejected"},
         rec.doing = "idle", rec.id = 0, rec.conn = w[a].conn,
         rec.held = IF t.answer = "ok" THEN w[a].set ELSE w[a].held,
         \A i \in DOMAIN c.requests : c.requests[i].id \in Ids
  PROVE  InOrder(free, v, c, s, g, q)
<1> DEFINE live == Live(c, s, q)
<1>1. /\ v[a] = rec
      /\ \A b \in Apps : b # a => v[b] = w[b]
  OBVIOUS
<1>2. /\ \A i \in DOMAIN c.requests : c.requests[i].id # w[a].id
      /\ \A u \in c.results : u.id = w[a].id => u = t
  BY DEF Distinct
<1>3. Known(w, c, a) /\ (t.answer = "ok" => Answered(w, c, a, {"ok"}))
      /\ (t.answer = "rejected" => ~Answered(w, c, a, {"ok", "unavailable"}))
  BY <1>2 DEF Known, Answered
<1>4. \A S : Believes(v, c, a, S) => Believes(w, c, a, S)
  BY <1>1, <1>3 DEF Believes
<1>5. \A b \in Apps : b # a =>
        /\ \A answers : Answered(v, c, b, answers) <=> Answered(w, c, b, answers)
        /\ Known(v, c, b) <=> Known(w, c, b)
  BY <1>1 DEF Known, Answered
<1>6. \A b \in Apps : \A S \in SUBSET Keys : Believes(v, c, b, S) => Believes(w, c, b, S)
  BY <1>1, <1>4, <1>5 DEF Believes
<1>7. NoHolder(w, c) => NoHolder(v, c)
  BY <1>6 DEF NoHolder
<1>8. /\ Claims(c, s, g, q) /\ Waits(w, c) /\ Ranks(w, c, q, live) /\ Restores(w, c, q, live)
      /\ Beliefs(w, c, s, g, q, live) /\ OkIsSo(w, c)
  BY DEF InOrder
<1>9. live \subseteq DOMAIN c.requests
  BY DEF Live
<1>10. Waits(v, c) /\ OkIsSo(v, c)
  BY <1>1, <1>5, <1>8 DEF Waits, OkIsSo
<1>11. InHand(c, s, q, w[a].id) => c.registered = {}
  BY <1>2, <1>8 DEF Claims
<1> HIDE DEF live
<1>12. Ranks(v, c, q, live)
  <2>1. \A b \in Apps : \A i \in DOMAIN c.requests :
          1 < i /\ c.requests[i].controller = v[b].conn => c.requests[i].id = v[b].id
    BY <1>1, <1>2, <1>8 DEF Ranks
  <2>2. QED
    BY <1>8, <2>1 DEF Ranks
<1>13. Restores(v, c, q, live)
  <2>1. Releasing(c, live) => (OwnRelease(w, c) => OwnRelease(v, c))
    BY <1>1, <1>2, <1>9 DEF Releasing, OwnRelease
  <2>2. QED
    BY <1>7, <1>8, <2>1 DEF Restores
<1>14. Beliefs(v, c, s, g, q, live)
  <2>1. SUFFICES ASSUME NEW b \in Apps, NEW S \in SUBSET Keys, S # {},
                        Believes(v, c, b, S), c.controller \in {None, v[b].conn}
                 PROVE  \/ Kept(v, c, live, b, S) /\ Delivered(v, c, s, g, q, b)
                        \/ Restored(v, c, live, b, S)
    BY DEF Beliefs
  <2>2. Believes(w, c, b, S) /\ c.controller \in {None, w[b].conn}
    BY <1>1, <1>6, <2>1
  <2>3. \/ Kept(w, c, live, b, S) /\ Delivered(w, c, s, g, q, b)
        \/ Restored(w, c, live, b, S)
    BY <1>8, <2>1, <2>2 DEF Beliefs
  <2>4. CASE b # a
    <3>1. v[b] = w[b]
      BY <1>1, <2>4
    <3>2. Delivered(w, c, s, g, q, b) => Delivered(v, c, s, g, q, b)
      BY <3>1 DEF Delivered, Changing
    <3>3. QED
      BY <2>3, <3>1, <3>2 DEF Kept, Restored
  <2>5. CASE b = a
    <3>1. \A i \in live : c.requests[i].id # w[a].id
      BY <1>2, <1>9
    <3>2. CASE Kept(w, c, live, b, S) /\ Delivered(w, c, s, g, q, b)
      <4>1. live = {} /\ c.registered = S
        BY <2>5, <3>1, <3>2 DEF Kept
      <4>2. ~InHand(c, s, q, w[a].id)
        BY <1>11, <2>1, <4>1
      <4>3. Says(q, c.script, w[a].id, {"ok", "unavailable"})
              => Says(q, c.script, w[a].id, Answers)
        BY DEF Says, Answers
      <4>4. ~Changing(w, c, s, q, a)
        BY <4>2, <4>3 DEF Changing, InHand
      <4>5. Delivered(v, c, s, g, q, b)
        BY <2>5, <3>2, <4>4 DEF Delivered
      <4>6. QED
        BY <4>1, <4>5 DEF Kept
    <3>3. CASE Restored(w, c, live, b, S)
      BY <2>5, <3>1, <3>3 DEF Restored
    <3>4. QED
      BY <2>3, <3>2, <3>3
  <2>6. QED
    BY <2>4, <2>5
<1>15. ASSUME free
       PROVE  Owned(v, c, q, live)
  <2>1. Unrejected(c, q) /\ Owning(w, c) /\ Releases(w, c, live) /\ Single(c, q, live)
    BY <1>15 DEF InOrder, Owned, live
  <2>2. t.answer = "ok" /\ Answered(w, c, a, {"ok"})
    BY <1>3, <2>1 DEF Unrejected
  <2>3. Owning(v, c)
    BY <1>1, <1>5, <2>1, <2>2 DEF Owning
  <2>4. Informed(w, c, a)
    BY <1>3 DEF Informed
  <2>5. \A b \in Apps : Informed(v, c, b) => Informed(w, c, b)
    BY <1>1, <1>5, <2>4 DEF Informed
  <2>6. Releases(v, c, live)
    BY <1>1, <1>2, <1>9, <2>1, <2>4, <2>5 DEF Releases
  <2>7. QED
    BY <2>1, <2>3, <2>6 DEF Owned
<1>16. QED
  BY <1>8, <1>10, <1>12, <1>13, <1>14, <1>15 DEF InOrder, live

\* The result is not there any more: whoever went by it is as good as lost.
LEMMA ResultRemoved ==
  ASSUME NEW free, NEW w, NEW c, NEW d, NEW s, NEW g, NEW q, InOrder(free, w, c, s, g, q), Distinct(c),
         NEW t \in c.results, d.script = c.script, d.controller = c.controller,
         d.requests = c.requests, d.results = c.results \ {t}, d.issued = c.issued,
         d.registered = c.registered
  PROVE  InOrder(free, w, d, s, g, q) /\ Distinct(d)
<1>1. Distinct(d)
  BY DEF Distinct
<1>2. \A b, answers : Answered(w, d, b, answers) => Answered(w, c, b, answers)
  BY DEF Answered
<1>3. \A b : Known(w, d, b) => Known(w, c, b)
  BY DEF Known
<1>4. \A b : Known(w, d, b) /\ t.id = w[b].id => FALSE
  BY DEF Known, Distinct
<1>5. \A b : Known(w, d, b) /\ Answered(w, c, b, {"ok", "unavailable"})
               => Answered(w, d, b, {"ok", "unavailable"})
  BY <1>4 DEF Answered
<1>6. \A b, S : Believes(w, d, b, S) => Believes(w, c, b, S)
  BY <1>2, <1>3, <1>5 DEF Believes
<1>7. NoHolder(w, c) => NoHolder(w, d)
  BY <1>6 DEF NoHolder
<1> DEFINE live == Live(c, s, q)
<1>8. Live(d, s, q) = live
  BY DEF Live, InHand
<1>9. /\ Claims(c, s, g, q) /\ Waits(w, c) /\ Ranks(w, c, q, live) /\ Restores(w, c, q, live)
      /\ Beliefs(w, c, s, g, q, live) /\ OkIsSo(w, c)
  BY DEF InOrder
<1> HIDE DEF live
<1>10. Claims(d, s, g, q)
  BY <1>9 DEF Claims, InHand, Current
<1>11. Waits(w, d) /\ Ranks(w, d, q, live)
  BY <1>9 DEF Waits, Ranks
<1>12. Restores(w, d, q, live)
  BY <1>7, <1>9 DEF Restores, Releasing, OwnRelease
<1>13. Beliefs(w, d, s, g, q, live)
  <2>1. SUFFICES ASSUME NEW b \in Apps, NEW S \in SUBSET Keys, S # {},
                        Believes(w, d, b, S), d.controller \in {None, w[b].conn}
                 PROVE  \/ Kept(w, d, live, b, S) /\ Delivered(w, d, s, g, q, b)
                        \/ Restored(w, d, live, b, S)
    BY DEF Beliefs
  <2>2. \/ Kept(w, c, live, b, S) /\ Delivered(w, c, s, g, q, b)
        \/ Restored(w, c, live, b, S)
    BY <1>6, <1>9, <2>1 DEF Beliefs
  <2>3. Delivered(w, c, s, g, q, b) => Delivered(w, d, s, g, q, b)
    BY DEF Delivered, Current, Good, Changing
  <2>4. QED
    BY <2>2, <2>3 DEF Kept, Restored
<1>14. OkIsSo(w, d)
  BY <1>2, <1>9 DEF OkIsSo
<1>15. free => Owned(w, d, q, live)
  <2>1. free => Unrejected(c, q) /\ Owning(w, c) /\ Releases(w, c, live) /\ Single(c, q, live)
    BY DEF InOrder, Owned, live
  <2>2. Owning(w, c) => Owning(w, d)
    BY <1>2 DEF Owning
  <2>3. \A b : Informed(w, d, b) => Informed(w, c, b)
    BY <1>3 DEF Informed
  <2>4. Releases(w, c, live) => Releases(w, d, live)
    BY <2>3 DEF Releases
  <2>5. Single(c, q, live) => Single(d, q, live)
    BY DEF Single, Releasing
  <2>6. QED
    BY <2>1, <2>2, <2>4, <2>5 DEF Owned, Unrejected
<1>16. QED
  BY <1>1, <1>8, <1>10, <1>11, <1>12, <1>13, <1>14, <1>15 DEF InOrder

LEMMA TakesKeepsQueue ==
  ASSUME ChannelInv, Queued, NEW a \in Apps, AppTakesResult(a)
  PROVE  QueueKept
<1>1. PICK t \in ResultsFor(a) : ResultTaken(a, t)
  BY TakesAResult
<1> DEFINE d == companion'
           v == app'
           r == inbox'
           rec == Settled(a, t)
<1>2. /\ d.up = companion.up /\ d.script = companion.script
      /\ d.controller = companion.controller /\ d.requests = companion.requests
      /\ d.results = companion.results \ {t} /\ d.issued = companion.issued
      /\ d.registered = companion.registered
      /\ t \in companion.results /\ t \in Results /\ t.id = app[a].id
  BY <1>1, TakesShape DEF ResultTaken
<1>3. /\ app \in [Apps -> AppRecords] /\ Connected(app, companion, inbox)
      /\ Distinct(companion) /\ companion \in Companions
      /\ companion.script # None => InOrder(Unrefused, app, companion, script, grabs, inbox)
      /\ \A i \in DOMAIN companion.requests : companion.requests[i].id \in Ids
  BY QueuedNow
<1>4. /\ companion.script # None /\ app[a].doing \in {"waiting", "quitting"}
      /\ UNCHANGED <<script, grabs>>
  BY <1>1 DEF ResultTaken, Ready, Waiting, native
<1>5. t.answer \in {"ok", "rejected", "unavailable"} /\ t.id \in Ids
  BY <1>2 DEF Results, Answers
<1> HIDE DEF d, v, r
<1>6. /\ InOrder(Unrefused, v, companion, script, grabs, r) /\ Connected(v, d, r)
      /\ Unrefused => Aware(v, d)
  <2>1. CASE app[a].doing = "quitting" \/ t.answer = "unavailable"
    <3>1. Disconnect(a, "idle")
      BY <1>1, <2>1 DEF ResultTaken
    <3>2. InOrder(Unrefused, v, companion, script, grabs, r)
      BY <1>4, <3>1, DisconnectInOrder DEF v, r
    <3>3. Connected(v, d, r)
      BY <1>2, <3>1, DroppedConnection DEF v, r
    <3>4. Unrefused => Aware(v, d)
      BY <1>2, <3>1, DropsAware DEF v
    <3>5. QED
      BY <3>2, <3>3, <3>4
  <2>2. CASE ~(app[a].doing = "quitting" \/ t.answer = "unavailable")
    <3>1. v = [app EXCEPT ![a] = rec] /\ r = inbox
      BY <1>1, <2>2 DEF ResultTaken, v, r
    <3>2. /\ rec \in AppRecords /\ rec.doing = "idle" /\ rec.id = 0 /\ rec.conn = app[a].conn
          /\ rec.held = IF t.answer = "ok" THEN app[a].set ELSE app[a].held
      BY <1>3, SettledTyped
    <3>3. /\ app[a].doing = "waiting" /\ t.answer \in {"ok", "rejected"}
          /\ app[a].id \in Ids
      BY <1>2, <1>4, <1>5, <2>2
    <3> HIDE DEF rec
    <3>4. InOrder(Unrefused, v, companion, script, grabs, inbox)
      BY <1>2, <1>3, <1>4, <3>1, <3>2, <3>3, Settling
    <3>5. app[a].conn # None
      BY <1>3, <1>4 DEF Connected
    <3>6. Standing(rec)
      BY <3>2, <3>5 DEF Standing
    <3>7. /\ \A b \in Apps : b # a /\ app[b].conn # None => Unused(inbox, app[b].conn)
          /\ Paired(inbox) /\ (d.controller # None => d.up)
      BY <1>2, <1>3 DEF Connected
    <3>8. rec.conn # None => /\ Unused(inbox, rec.conn)
                             /\ \A b \in Apps : app[b].conn = rec.conn => b = a
      BY <1>3, <3>2 DEF Connected
    <3>9. d.controller # None => \/ rec.conn = d.controller
                                 \/ \E b \in Apps : b # a /\ app[b].conn = d.controller
                                 \/ LostIn(inbox, d.controller)
      BY <1>2, <1>3, <3>2 DEF Connected
    <3>10. Connected(v, d, inbox)
      BY <1>3, <3>1, <3>2, <3>6, <3>7, <3>8, <3>9, ConnectedMoves
    <3>11. ASSUME Unrefused
           PROVE  Aware(v, d)
      <4>1. Unrejected(companion, inbox) /\ OkIsSo(app, companion) /\ Aware(app, companion)
        BY <1>3, <1>4, <3>11, QueuedNow DEF InOrder, Owned
      <4>2. t.answer = "ok" /\ Answered(app, companion, a, {"ok"})
        BY <1>2, <3>3, <4>1 DEF Unrejected, Answered
      <4>3. app[a].conn = companion.controller => app[a].set # {}
        BY <3>3, <4>1, <4>2 DEF OkIsSo
      <4>4. app[a].set # None
        BY <1>3, ConstantsOK DEF AppRecords
      <4>5. v[a] = rec /\ \A b \in Apps : b # a => v[b] = app[b]
        BY <1>3, <3>1
      <4>6. QED
        BY <1>2, <3>2, <4>1, <4>2, <4>3, <4>4, <4>5 DEF Aware
    <3>12. QED
      BY <3>1, <3>4, <3>10, <3>11
  <2>3. QED
    BY <2>1, <2>2
<1>7. InOrder(Unrefused, v, d, script, grabs, r) /\ Distinct(d)
  BY <1>2, <1>3, <1>6, ResultRemoved
<1>8. Queue(Unrefused, app', companion', script', grabs', inbox')
  BY <1>4, <1>6, <1>7 DEF Queue, v, d, r
<1>9. QED
  BY <1>8 DEF QueueKept

LEMMA AppKeepsQueue ==
  ASSUME ChannelInv, Queued, NEW a \in Apps, AppNext(a)
  PROVE  QueueKept
<1>1. app \in [Apps -> AppRecords] /\ {} \in SUBSET Keys /\ Connected(app, companion, inbox)
  BY QueuedNow
<1>2. CASE AppRegisters(a)
  <2>1. PICK set \in Sets : BeginRequest(a, set, "waiting") /\ app[a].doing = "idle"
    BY <1>2 DEF AppRegisters
  <2>2. set \in SUBSET Keys
    BY ConstantsOK
  <2>3. QED
    BY <2>1, <2>2, BeginKeepsQueue
<1>3. CASE AppQuits(a)
  BY <1>1, <1>3, BeginKeepsQueue DEF AppQuits
<1>4. CASE AppRegistersInVain(a)
  BY <1>4, CallFailsKeepsQueue DEF AppRegistersInVain
<1>5. CASE AppLosesRequest(a)
  BY <1>5, CallFailsKeepsQueue DEF AppLosesRequest
<1>6. CASE AppPolls(a)
  BY <1>6, CallFailsKeepsQueue DEF AppPolls
<1>7. CASE AppQuitsAtOnce(a)
  BY <1>7, CallFailsKeepsQueue DEF AppQuitsAtOnce
<1>8. CASE AppRegistersLate(a)
  BY <1>8, LateKeepsQueue
<1>9. CASE AppTakesResult(a)
  BY <1>9, TakesKeepsQueue
<1>10. CASE AppGivesUp(a)
  BY <1>10, DisconnectKeepsQueue DEF AppGivesUp, native
<1>11. CASE AppDies(a)
  BY <1>11, DisconnectKeepsQueue DEF AppDies, native
<1>12. CASE AppRegistersBusy(a)
  <2> DEFINE rec == [app[a] EXCEPT !.conn = ConnectionOf(a), !.held = None]
  <2>1. /\ CanConnect(a) /\ UNCHANGED <<companion, script, grabs, inbox>>
        /\ app[a].doing = "idle"
        /\ app' = [app EXCEPT ![a].conn = ConnectionOf(a), ![a].held = None]
        /\ companion.controller # ConnectionOf(a)
    BY <1>12 DEF AppRegistersBusy, native, Authorized
  <2>2. ConnectionOf(a) \in Connections /\ ConnectionOf(a) # None
    BY <1>1, <2>1, ConnectionTyped
  <2>3. app' = [app EXCEPT ![a] = rec]
    BY <1>1, <2>1
  <2>4. app[a] \in AppRecords /\ app[a].id = 0
    BY <1>1, <2>1 DEF Connected
  <2>5. /\ rec \in AppRecords /\ rec.conn = ConnectionOf(a) /\ rec.held = None
        /\ rec.doing = app[a].doing /\ rec.id = app[a].id
    BY <2>2, <2>4 DEF AppRecords, Controllers
  <2> HIDE DEF rec
  <2>6. Standing(rec)
    BY <2>1, <2>2, <2>4, <2>5 DEF Standing
  <2>7. QED
    BY <2>1, <2>3, <2>4, <2>5, <2>6, RestsKeepsQueue
<1>13. CASE AppStarts(a)
  <2> DEFINE rec == [app[a] EXCEPT !.doing = "idle"]
  <2>1. /\ UNCHANGED <<companion, script, grabs, inbox>>
        /\ app[a].doing = "gone" /\ app' = [app EXCEPT ![a].doing = "idle"]
    BY <1>13 DEF AppStarts, native
  <2>2. app' = [app EXCEPT ![a] = rec]
    BY <1>1, <2>1
  <2>3. /\ app[a] \in AppRecords /\ app[a].id = 0 /\ app[a].conn = None /\ app[a].held = None
    BY <1>1, <2>1 DEF Connected
  <2>4. /\ rec \in AppRecords /\ rec.conn = None /\ rec.held = None
        /\ rec.doing = "idle" /\ rec.id = 0
    BY <2>3 DEF AppRecords
  <2> HIDE DEF rec
  <2>5. Standing(rec)
    BY <2>4 DEF Standing
  <2>6. QED
    BY <2>1, <2>2, <2>3, <2>4, <2>5, RestsKeepsQueue
<1>14. QED
  BY <1>2, <1>3, <1>4, <1>5, <1>6, <1>7, <1>8, <1>9, <1>10, <1>11, <1>12, <1>13 DEF AppNext

-----------------------------------------------------------------------------
(* The queue stays in order.                                               *)

LEMMA InitialQueue ==
  ASSUME Init
  PROVE  Queued
<1>1. /\ companion.script = None /\ companion.controller = None
      /\ companion.requests = <<>> /\ companion.results = {} /\ inbox = <<>>
  BY DEF Init, Started
<1>2. \A a \in Apps : /\ app[a].doing \in {"idle", "gone"} /\ app[a].id = 0
                      /\ app[a].conn = None /\ app[a].held = None
  BY DEF Init
<1>3. DOMAIN inbox = {} /\ DOMAIN companion.requests = {}
  BY <1>1
<1>4. Connected(app, companion, inbox)
  BY <1>1, <1>2, <1>3 DEF Connected, Paired
<1>5. Distinct(companion)
  BY <1>1, <1>3 DEF Distinct
<1>6. taken = {} /\ Aware(app, companion)
  BY <1>1 DEF Init, Aware
<1>7. QED
  BY <1>1, <1>4, <1>5, <1>6 DEF Queued, Queue

\* No mishap is forgotten, a key is taken from a registration by a conflict alone, and
\* nobody else changes what an App holds.
Apart(w) == /\ mishaps \subseteq mishaps'
            /\ "conflict" \notin mishaps' => taken' \subseteq taken
            /\ app' = w

LEMMA OthersApart ==
  ASSUME CompanionNext \/ ScriptNext \/ KwinNext
  PROVE  Apart(app)
<1>1. Calm \/ Fault \/ Stall => mishaps \subseteq mishaps'
  BY DEF Calm, Fault, Stall, Mishap
<1>2. CASE CompanionNext
  <2>1. CASE HandleRegister \/ HandleNext \/ HandleComplete
    BY <1>1, <2>1 DEF HandleRegister, HandleNext, HandleComplete, native, Apart
  <2>2. CASE HandleSet \/ HandleLateCall \/ HandleLost
    BY <1>1, <2>2 DEF HandleSet, HandleLateCall, HandleLost, native, Apart
  <2>3. CASE AnswerDeferred \/ HeartbeatExpires \/ CompanionDies \/ CompanionStarts
    BY <1>1, <2>3 DEF AnswerDeferred, HeartbeatExpires, CompanionDies, CompanionStarts, native, Apart
  <2>4. QED
    BY <1>2, <2>1, <2>2, <2>3 DEF CompanionNext, Handle
<1>3. CASE ScriptNext
  BY <1>1, <1>3 DEF ScriptNext, OwnersChecked, OwnersConflict, UpdateTimesOut, RetryCompanion,
     native, Apart
<1>4. CASE ScriptUnloads \/ ScriptLoads \/ KwinDies
  BY <1>1, <1>4 DEF ScriptUnloads, ScriptLoads, KwinDies, ScriptEnds, native, Apart
<1>5. CASE KeyTaken
  BY <1>5 DEF KeyTaken, Mishap, Apart
<1>6. CASE KeyFreed
  BY <1>6 DEF KeyFreed, Calm, Apart
<1>7. QED
  BY <1>2, <1>3, <1>4, <1>5, <1>6 DEF KwinNext

\* An App's step: what it holds becomes nothing, stays, or is what a result grants.
LEMMA AppApart ==
  ASSUME app \in [Apps -> AppRecords], NEW a \in Apps, AppNext(a)
  PROVE  /\ Apart(app')
         /\ \A b \in Apps : app'[b].held \in {app[b].held, None} \/ (b = a /\ AppTakesResult(a))
<1>1. Calm \/ Fault \/ Stall \/ Mishap({}, 1) => mishaps \subseteq mishaps'
  BY DEF Calm, Fault, Stall, Mishap
<1>2. \A state : Disconnect(a, state) =>
        \A b \in Apps : app'[b].held \in {app[b].held, None}
  BY DEF Disconnect, Forgotten, AppRecords
<1>3. \A state : CallFails(a, state) => Apart(app') /\ Disconnect(a, state)
  BY <1>1 DEF CallFails, native, Apart
<1>4. CASE \E set, doing : BeginRequest(a, set, doing)
  BY <1>1, <1>4 DEF BeginRequest, native, Apart, AppRecords
<1>5. CASE \E state : CallFails(a, state)
  BY <1>2, <1>3, <1>5
<1>6. CASE AppRegistersBusy(a) \/ AppStarts(a)
  BY <1>1, <1>6 DEF AppRegistersBusy, AppStarts, native, Apart, AppRecords
<1>7. CASE AppRegistersLate(a)
  BY <1>1, <1>7 DEF AppRegistersLate, native, Apart, Forgotten, AppRecords
<1>8. CASE AppTakesResult(a)
  <2>1. Apart(app')
    BY <1>1, <1>8 DEF AppTakesResult, native, Apart
  <2>2. \A b \in Apps : b # a => app'[b] = app[b]
    BY <1>8 DEF AppTakesResult, Disconnect
  <2>3. QED
    BY <1>8, <2>1, <2>2
<1>9. CASE AppGivesUp(a) \/ AppDies(a)
  BY <1>1, <1>2, <1>9 DEF AppGivesUp, AppDies, native, Apart
<1>10. QED
  BY <1>4, <1>5, <1>6, <1>7, <1>8, <1>9 DEF AppNext, AppRegisters, AppRegistersInVain,
     AppLosesRequest, AppPolls, AppQuits, AppQuitsAtOnce

\* Less is asked of the queue once a registration was refused.
LEMMA KeptIsQueued ==
  ASSUME Queued, QueueKept, NEW w, Apart(w)
  PROVE  Queued'
<1>1. /\ Unrefused' => Unrefused
      /\ Unrefused' => taken' \subseteq taken
  BY DEF Unrefused, Apart
<1>2. Unrefused' => taken' = {}
  BY <1>1 DEF Queued
<1>3. Queue(Unrefused, app', companion', script', grabs', inbox')
  BY DEF QueueKept
<1>4. Queue(Unrefused', app', companion', script', grabs', inbox')
  BY <1>1, <1>3 DEF Queue, InOrder
<1>5. QED
  BY <1>2, <1>4 DEF Queued

LEMMA NextKeepsQueue ==
  ASSUME ChannelInv, Queued, Next
  PROVE  Queued'
<1>1. CASE \E a \in Apps : AppNext(a)
  BY <1>1, AppKeepsQueue, AppApart, KeptIsQueued, QueuedNow
<1>2. CASE CompanionNext
  BY <1>2, HandleRegisterKeepsQueue, HandleNextKeepsQueue, HandleCompleteKeepsQueue,
     HandleSetKeepsQueue, HandleLateCallKeepsQueue, HandleLostKeepsQueue,
     AnswerDeferredKeepsQueue, HeartbeatKeepsQueue, RestartKeepsQueue, OthersApart, KeptIsQueued
     DEF CompanionNext, Handle
<1>3. CASE ScriptNext \/ KwinNext
  BY <1>3, ScriptKeepsQueue, OthersApart, KeptIsQueued
<1>4. QED
  BY <1>1, <1>2, <1>3 DEF Next

LEMMA StutteringKeepsQueue ==
  ASSUME Queued, UNCHANGED vars
  PROVE  Queued'
<1>1. /\ app' = app /\ companion' = companion /\ script' = script /\ grabs' = grabs
      /\ inbox' = inbox /\ taken' = taken /\ Unrefused' = Unrefused
  BY DEF vars, Unrefused
<1>2. QED
  BY <1>1 DEF Queued

LEMMA QueueStays ==
  Spec => [](ChannelInv /\ Queued)
<1>1. Init => ChannelInv /\ Queued
  BY InitialChannel, InitialQueue
<1>2. ChannelInv /\ Queued /\ [Next]_vars => (ChannelInv /\ Queued)'
  BY NextKeepsChannel, StutteringKeepsChannel, NextKeepsQueue, StutteringKeepsQueue
<1>3. QED
  BY <1>1, <1>2, PTL DEF Spec

\* An App that is served holds what is registered, if it is the controller.
LEMMA ServedIsKept ==
  ASSUME ChannelInv, Queued, NEW a \in Apps, Served(a)
  PROVE  /\ companion.script # None /\ app[a].conn # None /\ app[a].id = 0
         /\ companion.controller \in {None, app[a].conn}
         /\ companion.controller = app[a].conn =>
              /\ companion.registered = app[a].held
              /\ Delivered(app, companion, script, grabs, inbox, a)
<1> DEFINE S == app[a].held
           live == Live(companion, script, inbox)
<1>1. /\ app \in [Apps -> AppRecords] /\ Connected(app, companion, inbox)
      /\ companion.script # None => InOrder(Unrefused, app, companion, script, grabs, inbox)
  BY QueuedNow
<1>2. /\ app[a].doing = "idle" /\ S \notin {None, {}} /\ companion.script # None
      /\ companion.controller \in {None, app[a].conn}
      /\ ~(companion.controller # None /\ companion.registered = {})
  BY DEF Served, PollFails, Ready
<1>3. S \in SUBSET Keys
  BY <1>1, <1>2 DEF AppRecords
<1>4. Beliefs(app, companion, script, grabs, inbox, live)
  BY <1>1, <1>2 DEF InOrder
<1>5. Believes(app, companion, a, S)
  BY <1>2 DEF Believes
<1>6. app[a].conn # None /\ app[a].id = 0
  BY <1>1, <1>2 DEF Connected
<1> HIDE DEF S, live
<1>7. \/ Kept(app, companion, live, a, S) /\ Delivered(app, companion, script, grabs, inbox, a)
      \/ Restored(app, companion, live, a, S)
  BY <1>2, <1>3, <1>4, <1>5 DEF Beliefs
<1>8. companion.controller = app[a].conn => ~Restored(app, companion, live, a, S)
  BY <1>2, <1>6 DEF Restored
<1>9. companion.controller = app[a].conn =>
        /\ companion.registered = S
        /\ Delivered(app, companion, script, grabs, inbox, a)
  BY <1>7, <1>8 DEF Kept
<1>10. QED
  BY <1>2, <1>6, <1>9 DEF S

LEMMA QueueGivesCapture ==
  ASSUME ChannelInv, Queued
  PROVE  HeldIsGrabbed
<1>1. SUFFICES ASSUME NEW a \in Apps, Served(a), companion.controller = app[a].conn,
                      script.on, script.name = companion.script, ~RegisterOutstanding
               PROVE  script.active = app[a].held /\ grabs = app[a].held
  BY DEF HeldIsGrabbed
<1>2. /\ app[a].id = 0 /\ companion.registered = app[a].held
      /\ Delivered(app, companion, script, grabs, inbox, a)
  BY <1>1, ServedIsKept
<1>3. ~Resets(inbox)
  BY <1>1, ChannelInvNamed DEF Resets, Leftovers, RegisterOutstanding
<1>4. Current(companion, script, inbox)
  BY <1>1, <1>3 DEF Current
<1>5. ~Changing(app, companion, script, inbox, a)
  BY <1>2 DEF Changing
<1>6. QED
  BY <1>2, <1>4, <1>5 DEF Delivered, Good

\* What a served App holds is what the script delivers and what is grabbed, however
\* many Apps compete for the companion and whatever crashed, stalled, was refused,
\* reordered or given up before.
THEOREM CaptureStaysExact ==
  Spec => []CaptureIsExact
<1>1. ChannelInv /\ Queued => CaptureIsExact
  BY ChannelGivesOnePoll, QueueGivesCapture DEF CaptureIsExact, ChannelInv
<1>2. QED
  BY <1>1, QueueStays, PTL

LEMMA QueueNeverLoses ==
  ASSUME ChannelInv, Queued
  PROVE  NoSilentLossUnrefused
<1>1. SUFFICES ASSUME Unrefused, NEW a \in Apps, Served(a)
               PROVE  /\ companion.controller = app[a].conn
                      /\ companion.registered = app[a].held
  BY DEF NoSilentLossUnrefused, NoSilentLoss, Unrefused
<1>2. companion.script # None
  BY <1>1, ServedIsKept
<1>3. Owning(app, companion)
  BY <1>1, <1>2, QueuedNow DEF InOrder, Owned
<1>4. companion.controller = app[a].conn
  BY <1>1, <1>3 DEF Owning, Served
<1>5. QED
  BY <1>1, <1>4, ServedIsKept

LEMMA QueueAnswersTrue ==
  ASSUME ChannelInv, Queued, [Next]_vars, NEW a \in Apps, app[a].doing = "waiting",
         app'[a].held \notin {app[a].held, None}
  PROVE  RegisteredFor(a, app'[a].held)
<1>1. AppTakesResult(a)
  <2>1. app' # app
    OBVIOUS
  <2>2. ~(CompanionNext \/ ScriptNext \/ KwinNext)
    BY <2>1, OthersApart DEF Apart
  <2>3. QED
    BY <2>1, <2>2, AppApart, QueuedNow DEF Next, vars
<1>2. PICK t \in ResultsFor(a) : ResultTaken(a, t)
  BY <1>1, TakesAResult
<1>3. /\ app \in [Apps -> AppRecords]
      /\ companion.script # None => InOrder(Unrefused, app, companion, script, grabs, inbox)
  BY QueuedNow
<1>4. t \in companion.results /\ t.id = app[a].id
  BY DEF ResultsFor
<1>5. companion.script # None
  BY <1>2 DEF ResultTaken, Ready
<1>6. ~Disconnect(a, "idle")
  BY <1>3 DEF Disconnect, Forgotten, AppRecords
<1>7. app'[a] = Settled(a, t)
  BY <1>2, <1>3, <1>6 DEF ResultTaken
<1>8. t.answer = "ok" /\ app'[a].held = app[a].set
  BY <1>3, <1>7 DEF Settled, AppRecords
<1>9. Answered(app, companion, a, {"ok"})
  BY <1>4, <1>8 DEF Answered
<1>10. companion.controller = app[a].conn => companion.registered = app[a].set
  BY <1>3, <1>5, <1>9 DEF InOrder, OkIsSo
<1>11. Unrefused /\ app[a].set # {} => companion.controller = app[a].conn
  BY <1>3, <1>5, <1>9 DEF InOrder, Owned, Owning
<1>12. QED
  BY <1>8, <1>10, <1>11 DEF RegisteredFor, Unrefused

\* As long as no registration was refused for a conflict, an App whose polls succeed is
\* the controller of the companion, which has registered exactly what the App holds:
\* nothing that crashes, stalls, is given up or competes takes it away silently.
THEOREM LossesAreNeverSilent ==
  Spec => []NoSilentLossUnrefused
<1>1. ChannelInv /\ Queued => NoSilentLossUnrefused
  BY QueueNeverLoses
<1>2. QED
  BY <1>1, QueueStays, PTL

\* register_hotkeys returns Ok only for a set that the companion has registered for
\* this App: no late, repeated or foreign answer is taken for the answer to it.
THEOREM AnswersStayTrue ==
  Spec => AnswersAreTrue
<1> DEFINE Act == \A a \in Apps :
                    (app[a].doing = "waiting" /\ app'[a].held \notin {app[a].held, None})
                      => RegisteredFor(a, app'[a].held)
<1>1. ChannelInv /\ Queued /\ [Next]_vars => Act
  BY QueueAnswersTrue
<1>2. ChannelInv /\ Queued /\ [Next]_vars => [Act]_vars
  BY <1>1
<1> HIDE DEF Act
<1>3. Spec => [][Act]_vars
  BY <1>2, QueueStays, PTL DEF Spec
<1>4. QED
  BY <1>3 DEF Act, AnswersAreTrue
=============================================================================
