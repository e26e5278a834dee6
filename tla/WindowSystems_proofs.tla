------------------------ MODULE WindowSystems_proofs ------------------------
(***************************************************************************)
(* What the six adapters of WindowMoves keep to, proved for every desktop  *)
(* and however often the user interferes: a move's answer says how the     *)
(* window stands, and a move that nothing disturbs arrives.  Then what     *)
(* their readings of the displays say, of any monitors and panels.         *)
(***************************************************************************)
EXTENDS WindowSystems, TLAPS, SequenceTheorems, FiniteSetTheorems, WellFoundedInduction

Undisturbed == "disturbed" \notin marks
Early       == {"idle", "list", "before", "states", "hints", "measure"}

(***************************************************************************)
(* Nothing is asked of a window before its frame has been noted.  On KDE   *)
(* it is the script that notes it: see Companion.                          *)
(***************************************************************************)
NotedFirst ==
  /\ adapter # "kde" /\ m.step \in Early => ~Asked
  /\ adapter = "x11" /\ asked # <<>> => Asked
  /\ adapter \notin {"x11", "kde"} => asked = <<>>

\* Windows places at most twice, and looks after each.
PlacesTwice ==
  adapter = "windows" =>
    /\ m.step \in {"idle", "list", "before", "states", "restore"} => m.pass = 0
    /\ m.step = "configure" => m.pass # 2
    /\ m.step = "check"     => m.pass # 0

\* A batch that did not find its window was told so by a window that closed.
GoneIsGone == m.step = "readback" /\ m.result = "gone" => ~win.alive

(***************************************************************************)
(* What a look has read so far is how the window stands, unless the window *)
(* has changed since the look began.                                       *)
(***************************************************************************)
LooksAt == {"before", "observe", "check", "reobserve"}

LookIsTrue ==
  /\ m.got # 0 => adapter \in {"x11", "macos"} /\ m.step \in LooksAt
  /\ adapter = "macos" => m.got # 2
  /\ "overtaken" \notin marks =>
       /\ adapter = "x11" /\ m.got # 0 => m.read.w = win.w - Extents
       /\ adapter = "x11" /\ m.got = 2 => m.read.x = win.x + Extents
       /\ adapter = "macos" /\ m.got = 1 => m.read.x = win.x

\* macOS: the window moved has an identity, and an open one is retained.
Retained ==
  /\ \A e \in given : Alive(e.el) => e \in table
  /\ table \subseteq given
  /\ adapter = "macos" /\ m.step # "idle" => \E e \in given : e.el = 1
  /\ adapter # "macos" => given = {}

(***************************************************************************)
(* KDE: where the request is, and what the script posted.                  *)
(***************************************************************************)
TellsTruth(a) ==
  /\ a # NoAnswer
  /\ "overtaken" \notin marks =>
       /\ a.is = "ok"      => Frame = m.target
       /\ a.is = "partial" => Frame = a.frame
       /\ a.is = "failed" /\ Asked => Frame = m.before
       /\ a.is = "gone"    => ~win.alive

Fresh(f) == Asked /\ "overtaken" \notin marks => f = Frame

Pending == IF m.post = <<>> THEN m.told ELSE m.post[Len(m.post)].answer

Companion ==
  adapter = "kde" =>
    /\ m.step \in {"idle", "list", "run", "answered"}
    /\ m.step \in {"idle", "list"} => asked = <<>> /\ m.script = "idle"
    /\ m.script = "idle" => ~Asked
    /\ m.script # "done" => m.told = NoAnswer /\ m.post = <<>>
    /\ m.script = "idle" => m.todo = <<>>
    /\ m.script # "idle" => asked = <<>>
    /\ m.script = "watching" => Asked
    /\ m.script = "done" =>
         /\ TellsTruth(Pending)
         /\ \/ m.post = <<>> /\ Fresh(m.cache)
            \/ m.told = NoAnswer /\ m.post = <<Complete(Pending)>> /\ Fresh(m.cache)
            \/ /\ m.told = NoAnswer /\ Len(m.post) = 2
               /\ m.post = <<Focused(m.post[1].frame), Complete(Pending)>>
               /\ Fresh(m.post[1].frame)
    /\ Answered /\ "unlooked" \notin marks =>
         \/ m.script = "done" /\ m.post = <<>> /\ m.answer = m.told
         \/ m.script = "idle" /\ asked = <<>> /\ m.answer = Failed

(***************************************************************************)
(* How far an undisturbed move has come.                                   *)
(***************************************************************************)
Restoring   == [is |-> "restore", x |-> 0, w |-> 0]
Configuring == [is |-> "configure", x |-> m.target.x, w |-> m.target.w - 1]

XProceeds ==
  adapter = "x11" /\ Undisturbed =>
    /\ ~m.late
    /\ m.step \in {"hints", "measure", "before"} =>
         win.mode # "fullscreen" /\ m.restoring = (win.mode \in Held)
    /\ m.step \in {"measure", "before", "restore", "unheld", "extents", "configure",
                   "observe", "reobserve"} => ~Refused
    /\ m.step \notin {"observe", "check", "reobserve", "answered"} => "overtaken" \notin marks
    /\ m.step = "restore" => asked = <<>> /\ win.mode \in Held
    /\ m.step = "unheld"  => \/ asked = <<>> /\ win.mode = "free"
                             \/ asked = <<Restoring>> /\ win.mode \in Held
    /\ m.step = "extents" => asked = <<>> /\ win.mode = "free"
    /\ m.step = "before" /\ win.mode = "free" => m.size = m.target.w - 1 /\ m.target.w > 1
    /\ m.step \in {"configure", "observe"} =>
         win.mode = "free" /\ m.size = m.target.w - 1 /\ m.target.w > 1
    /\ m.step = "configure" => asked = <<>>
    /\ m.step = "observe"   => \/ asked = <<Configuring>> /\ "overtaken" \notin marks
                               \/ asked = <<>> /\ Frame = m.target
    /\ m.step = "reobserve" => TooSmall
    /\ Answered /\ m.answer = Ok => asked \in {<<>>, <<Configuring>>}

WProceeds ==
  adapter = "windows" /\ Undisturbed =>
    /\ m.step \in {"restore", "configure", "check"} => ~Refused
    /\ m.step = "restore" => win.mode \in Held
    /\ m.step \in {"configure", "check"} => win.mode = "free"
    /\ m.step = "configure" /\ m.pass = 1 => m.seen = Frame
    /\ m.step \in {"configure", "check"} /\ m.pass = 1 =>
         2 * win.x + win.w = 2 * m.target.x + m.target.w
    /\ m.step = "check" /\ m.pass = 2 => Frame = m.target
    /\ m.step # "reobserve"

MacProceeds ==
  adapter = "macos" /\ Undisturbed =>
    /\ "overtaken" \notin marks
    /\ m.step \in {"idle", "list", "before", "states", "restore"} => m.pass = 0
    /\ m.step \in {"restore", "size", "position", "check"} => ~Refused
    /\ m.step \in {"position", "check"} => win.mode = "free"
    /\ m.step = "size" /\ m.pass # 0 => win.x = m.target.x
    /\ m.step = "check" => win.x = m.target.x
    /\ m.step = "check" /\ m.pass # 0 => Frame = m.target
    /\ m.step = "position" => m.pass = 0
    /\ m.step # "reobserve"

SProceeds ==
  adapter \in {"sway", "hyprland"} /\ Undisturbed =>
    /\ m.step = "run" => win.mode # "fullscreen" /\ m.todo = Commands(win.mode)
    /\ m.step = "readback" => m.result = "ok" /\ Frame = m.target /\ win.mode = "free"

KProceeds ==
  adapter = "kde" /\ Undisturbed =>
    /\ m.script = "watching" =>
         /\ ~Refused /\ win.mode = "free"
         /\ m.todo = <<>> => Frame = m.target
    /\ m.script = "done" =>
         \/ Refused /\ ~Asked /\ Pending = Failed
         \/ ~Refused /\ Pending = Ok /\ win.mode = "free" /\ Frame = m.target
    /\ Answered => m.script = "done" /\ m.post = <<>> /\ m.answer = m.told

StaysOpen == Undisturbed => win.alive /\ win.listed

Proceeds == StaysOpen /\ XProceeds /\ WProceeds /\ MacProceeds /\ SProceeds /\ KProceeds

IInv ==
  /\ MovesTypeOK /\ AnswersAreTrue /\ FocusIsFresh /\ IdentitiesAreStable
  /\ NotedFirst /\ PlacesTwice /\ GoneIsGone /\ LookIsTrue /\ Retained /\ Companion
  /\ Proceeds /\ UndisturbedMovesArrive

-----------------------------------------------------------------------------
(* The parts of the state, and what a step leaves alone.  A look that is   *)
(* over is forgotten.                                                      *)

Windows == [alive : BOOLEAN, listed : BOOLEAN, mode : Modes(adapter),
            fixed : BOOLEAN, x : Int, w : Int]

ScriptSame == /\ m'.script = m.script /\ m'.post = m.post /\ m'.told = m.told
              /\ m'.cache = m.cache /\ m'.todo = m.todo
MoveSame   == /\ m'.target = m.target /\ m'.before = m.before /\ m'.pass = m.pass
              /\ m'.seen = m.seen /\ m'.size = m.size /\ m'.restoring = m.restoring
              /\ m'.late = m.late /\ m'.result = m.result /\ m'.got = 0

\* A window that closed may be forgotten.
TableKept == /\ given' = given /\ nextId' = nextId /\ other' = other
             /\ table' \in {table, {e \in table : e.el # 1}}
             /\ table' # table => ~win.alive

LEMMA AnswerValues ==
  /\ NoAnswer \in Answers /\ Ok \in Answers /\ Failed \in Answers /\ Gone \in Answers
  /\ NoAnswer.is = "none" /\ Ok.is = "ok" /\ Failed.is = "failed" /\ Gone.is = "gone"
  /\ NoAnswer # Ok /\ NoAnswer # Failed /\ NoAnswer # Gone /\ Ok # Gone /\ Failed # Gone
  /\ Ok # Failed
  /\ \A f \in Spans : /\ Partial(f) \in Answers /\ Partial(f).is = "partial"
                      /\ Partial(f).frame = f /\ Partial(f) # NoAnswer /\ Partial(f) # Gone
  /\ \A a \in Answers : a.is = "none" => a = NoAnswer
  /\ Nowhere \in Spans
<1>1. Nowhere \in Spans
  BY DEF Nowhere, Spans
<1>2. NoAnswer \in Answers /\ Ok \in Answers /\ Failed \in Answers /\ Gone \in Answers
  BY <1>1 DEF Answers, NoAnswer, Ok, Failed, Gone
<1>3. /\ NoAnswer.is = "none" /\ Ok.is = "ok" /\ Failed.is = "failed" /\ Gone.is = "gone"
  BY DEF NoAnswer, Ok, Failed, Gone
<1>4. \A f \in Spans : /\ Partial(f) \in Answers /\ Partial(f).is = "partial"
                       /\ Partial(f).frame = f
  BY DEF Answers, Partial
<1>5. \A a \in Answers : a.is = "none" => a = NoAnswer
  BY DEF Answers, NoAnswer
<1>6. QED
  BY <1>1, <1>2, <1>3, <1>4, <1>5

LEMMA Parts ==
  ASSUME MovesTypeOK
  PROVE  /\ adapter \in Adapters /\ win \in Windows /\ m \in Moves
         /\ win.alive \in BOOLEAN /\ win.listed \in BOOLEAN /\ win.mode \in Modes(adapter)
         /\ win.fixed \in BOOLEAN /\ win.x \in Int /\ win.w \in Int
         /\ Frame \in Spans /\ Frame.x = win.x /\ Frame.w = win.w
         /\ m.step \in Steps /\ m.answer \in Answers /\ m.target \in Frames
         /\ m.before \in Spans /\ m.pass \in 0..2 /\ m.late \in BOOLEAN
         /\ m.seen \in Spans /\ m.size \in Int /\ m.told \in Answers
         /\ m.post \in Seq(Posted) /\ m.cache \in Spans /\ m.restoring \in BOOLEAN
         /\ m.todo \in Seq(Commanded) /\ m.result \in {"ok", "failed", "gone"}
         /\ m.script \in {"idle", "watching", "done"}
         /\ m.got \in 0..2 /\ m.read \in Spans
<1>1. adapter \in Adapters /\ win \in Windows /\ m \in Moves
  BY DEF MovesTypeOK, Windows
<1>2. /\ win.alive \in BOOLEAN /\ win.listed \in BOOLEAN /\ win.mode \in Modes(adapter)
      /\ win.fixed \in BOOLEAN /\ win.x \in Int /\ win.w \in Int
  BY <1>1 DEF Windows
<1>3. Frame \in Spans /\ Frame.x = win.x /\ Frame.w = win.w
  BY <1>2 DEF Frame, Spans
<1>4. QED
  BY <1>1, <1>2, <1>3 DEF Moves

LEMMA TargetFits ==
  ASSUME MovesConstantsOK, MovesTypeOK
  PROVE  /\ m.target \in Spans /\ m.target.x \in Nat /\ m.target.w \in Nat \ {0}
         /\ m.target.x + m.target.w <= Room
         /\ m.target = [x |-> m.target.x, w |-> m.target.w]
<1>1. m.target \in Frames /\ Room \in Nat \ {0}
  BY Parts DEF MovesConstantsOK, DeskConstantsOK
<1>2. QED
  BY <1>1 DEF Frames, Spans

LEMMA AfreshIs ==
  ASSUME m \in Moves
  PROVE  /\ Afresh \in Moves /\ Afresh.got = 0 /\ Afresh.step = m.step
         /\ Afresh.answer = m.answer /\ Afresh.target = m.target /\ Afresh.before = m.before
         /\ Afresh.pass = m.pass /\ Afresh.seen = m.seen /\ Afresh.size = m.size
         /\ Afresh.restoring = m.restoring /\ Afresh.late = m.late
         /\ Afresh.result = m.result /\ Afresh.script = m.script /\ Afresh.post = m.post
         /\ Afresh.told = m.told /\ Afresh.cache = m.cache /\ Afresh.todo = m.todo
<1> DEFINE none == 0
           nothing == Nowhere
<1>1. none \in 0..2 /\ nothing \in Spans /\ Afresh = [m EXCEPT !.got = none, !.read = nothing]
  BY AnswerValues DEF Afresh
<1>2. none = 0
  OBVIOUS
<1> HIDE DEF none, nothing
<1>3. Afresh \in Moves
  BY <1>1 DEF Moves
<1>4. QED
  BY <1>1, <1>2, <1>3 DEF Moves

LEMMA ToIs ==
  ASSUME m \in Moves, NEW s \in Steps, To(s)
  PROVE  m' \in Moves /\ m'.step = s /\ m'.answer = m.answer /\ MoveSame /\ ScriptSame
<1>1. m' = [Afresh EXCEPT !.step = s]
  BY DEF To
<1>2. m' \in Moves
  BY <1>1, AfreshIs DEF Moves
<1>3. QED
  BY <1>1, <1>2, AfreshIs DEF Moves, MoveSame, ScriptSame

LEMMA EndIs ==
  ASSUME m \in Moves, NEW a \in Answers, End(a)
  PROVE  m' \in Moves /\ m'.step = "answered" /\ m'.answer = a /\ MoveSame /\ ScriptSame
<1> DEFINE s == "answered"
<1>1. m' = [Afresh EXCEPT !.step = s, !.answer = a] /\ s \in Steps /\ s = "answered"
  BY DEF End, Steps
<1> HIDE DEF s
<1>2. m' \in Moves
  BY <1>1, AfreshIs DEF Moves
<1>3. QED
  BY <1>1, <1>2, AfreshIs DEF Moves, MoveSame, ScriptSame

LEMMA PassIs ==
  ASSUME m \in Moves, NEW s \in Steps, NEW p \in 0..2,
         \/ m' = [m EXCEPT !.step = s, !.pass = p]
         \/ m' = [Afresh EXCEPT !.step = s, !.pass = p]
  PROVE  m' \in Moves /\ m'.step = s /\ m'.pass = p /\ m'.answer = m.answer
         /\ m'.target = m.target /\ m'.got \in {0, m.got}
<1>1. CASE m' = [m EXCEPT !.step = s, !.pass = p]
  BY <1>1 DEF Moves
<1>2. CASE m' = [Afresh EXCEPT !.step = s, !.pass = p]
  BY <1>2, AfreshIs DEF Moves
<1>3. QED
  BY <1>1, <1>2

LEMMA TypeKept ==
  ASSUME MovesTypeOK, adapter' = adapter, meddled' = meddled,
         win' \in Windows, m' \in Moves, asked' \in Seq(Requests),
         (m'.answer = NoAnswer) = (m'.step # "answered"), marks' \subseteq Marks, TableKept
  PROVE  MovesTypeOK'
<1>1. table' \subseteq table
  BY DEF TableKept
<1>2. \A e \in table' \cup given' : e.id \in 0..nextId' - 1 /\ e.el \in {1, 2}
  BY <1>1 DEF TableKept, MovesTypeOK
<1>3. adapter' \in Adapters /\ meddled' \in 0..Meddlings /\ nextId' \in Nat /\ other' \in BOOLEAN
  BY DEF TableKept, MovesTypeOK
<1>4. win' \in [alive : BOOLEAN, listed : BOOLEAN, mode : Modes(adapter'),
                fixed : BOOLEAN, x : Int, w : Int]
  BY DEF Windows
<1>5. QED
  BY <1>2, <1>3, <1>4 DEF MovesTypeOK

\* Identities, while a window does not come back.
LEMMA IdentitiesKept ==
  ASSUME IdentitiesAreStable, Retained, TableKept, adapter' = adapter, m.step # "idle",
         win'.alive => win.alive
  PROVE  IdentitiesAreStable' /\ Retained'
<1>1. IdentitiesAreStable'
  BY DEF IdentitiesAreStable, TableKept
<1>2. \A e : Alive(e.el)' => Alive(e.el) /\ (e.el = 1 => win.alive)
  BY DEF Alive, TableKept
<1>3. ASSUME NEW e \in given', Alive(e.el)' PROVE e \in table'
  <2>1. e \in given /\ Alive(e.el) /\ (e.el = 1 => win.alive)
    BY <1>2, <1>3 DEF TableKept
  <2>2. e \in table
    BY <2>1 DEF Retained
  <2>3. QED
    BY <2>1, <2>2 DEF TableKept
<1>4. table' \subseteq given'
  BY DEF TableKept, Retained
<1>5. QED
  BY <1>1, <1>3, <1>4 DEF Retained, TableKept

-----------------------------------------------------------------------------
(* Steps that several adapters take.                                       *)

LEMMA NotKde ==
  ASSUME adapter # "kde", adapter' = adapter
  PROVE  Companion' /\ FocusIsFresh' /\ KProceeds'
BY DEF Companion, FocusIsFresh, KProceeds

\* A call fails, or refuses, before anything has been asked of the window.
LEMMA FailsEarly ==
  ASSUME IInv, adapter # "kde", m.step \in Early, m.step # "idle", End(Failed),
         marks' \in {marks, marks \cup {"disturbed"}, marks \cup {"disturbed", "lost"}},
         UNCHANGED <<adapter, win, asked, meddled>>, TableKept,
         Undisturbed' => Refused \/ TooSmall
  PROVE  IInv'
<1>1. MovesTypeOK /\ m \in Moves /\ win \in Windows /\ marks \subseteq Marks
      /\ asked \in Seq(Requests)
  BY Parts DEF IInv, MovesTypeOK
<1>2. m' \in Moves /\ m'.step = "answered" /\ m'.answer = Failed /\ MoveSame /\ ScriptSame
  BY <1>1, EndIs, AnswerValues
<1>3. MovesTypeOK'
  BY <1>1, <1>2, TypeKept, AnswerValues DEF Marks, Windows
<1>4. ~Asked /\ ~Asked'
  BY DEF IInv, NotedFirst, Asked
<1>5. Frame' = Frame /\ Failed.is = "failed" /\ (Undisturbed' => Undisturbed)
  BY AnswerValues DEF Frame, Undisturbed
<1>6. AnswersAreTrue'
  BY <1>2, <1>4, <1>5 DEF AnswersAreTrue
<1>7. Companion' /\ FocusIsFresh' /\ KProceeds'
  BY NotKde
<1>8. IdentitiesAreStable' /\ Retained'
  BY IdentitiesKept DEF IInv
<1>9. NotedFirst' /\ PlacesTwice' /\ GoneIsGone' /\ LookIsTrue'
  BY <1>2, <1>4
     DEF IInv, NotedFirst, PlacesTwice, GoneIsGone, LookIsTrue, LooksAt, MoveSame,
         Early, Asked
<1>10. StaysOpen'
  BY <1>5 DEF IInv, Proceeds, StaysOpen
<1>11. XProceeds'
  BY <1>2, <1>5, AnswerValues DEF IInv, Proceeds, XProceeds, MoveSame
<1>12. WProceeds' /\ SProceeds'
  BY <1>2 DEF WProceeds, SProceeds
<1>15. MacProceeds'
  BY <1>2, <1>5 DEF IInv, Proceeds, MacProceeds
<1>13. UndisturbedMovesArrive'
  <2>1. (Refused' <=> Refused) /\ (TooSmall' <=> TooSmall)
    BY <1>2 DEF Refused, TooSmall, MoveSame
  <2>2. QED
    BY <1>2, <1>4, <1>5, <2>1 DEF UndisturbedMovesArrive, Undisturbed
<1>14. QED
  BY <1>3, <1>6, <1>7, <1>8, <1>9, <1>10, <1>11, <1>12, <1>13, <1>15 DEF IInv, Proceeds

\* The window has closed.
LEMMA FindsGone ==
  ASSUME IInv, adapter # "kde", m.step # "idle", ~win.alive \/ ~win.listed, End(Gone),
         UNCHANGED <<adapter, win, asked, marks, meddled>>, TableKept
  PROVE  IInv'
<1>1. MovesTypeOK /\ m \in Moves /\ win \in Windows /\ marks \subseteq Marks
      /\ asked \in Seq(Requests)
  BY Parts DEF IInv, MovesTypeOK
<1>2. m' \in Moves /\ m'.step = "answered" /\ m'.answer = Gone /\ MoveSame /\ ScriptSame
  BY <1>1, EndIs, AnswerValues
<1>3. MovesTypeOK'
  BY <1>1, <1>2, TypeKept, AnswerValues DEF Windows
<1>4. ~Undisturbed'
  BY DEF IInv, Proceeds, StaysOpen, Undisturbed
<1>5. AnswersAreTrue'
  BY <1>2, AnswerValues DEF AnswersAreTrue
<1>6. Companion' /\ FocusIsFresh' /\ KProceeds'
  BY NotKde
<1>7. IdentitiesAreStable' /\ Retained'
  BY IdentitiesKept DEF IInv
<1>8. NotedFirst' /\ PlacesTwice' /\ GoneIsGone' /\ LookIsTrue'
  BY <1>2
     DEF IInv, NotedFirst, PlacesTwice, GoneIsGone, LookIsTrue, LooksAt, MoveSame,
         Early, Asked
<1>9. Proceeds' /\ UndisturbedMovesArrive'
  BY <1>4, <1>6 DEF Proceeds, StaysOpen, XProceeds, WProceeds, MacProceeds, SProceeds,
                    UndisturbedMovesArrive, Undisturbed
<1>10. QED
  BY <1>3, <1>5, <1>6, <1>7, <1>8, <1>9 DEF IInv

\* A call fails once placing may have begun: the adapter will look again.
LEMMA WillLookAgain ==
  ASSUME IInv, adapter \in {"x11", "windows", "macos"}, ~Answered, m.step # "idle",
         To("reobserve"), marks' = marks \cup {"disturbed", "lost"},
         UNCHANGED <<adapter, win, asked, meddled>>, TableKept
  PROVE  IInv'
<1>1. MovesTypeOK /\ m \in Moves /\ win \in Windows /\ marks \subseteq Marks
      /\ asked \in Seq(Requests)
  BY Parts DEF IInv, MovesTypeOK
<1>2. m' \in Moves /\ m'.step = "reobserve" /\ m'.answer = m.answer
      /\ MoveSame /\ ScriptSame
  BY <1>1, ToIs DEF Steps
<1>3. MovesTypeOK'
  BY <1>1, <1>2, TypeKept DEF Windows, Marks, MovesTypeOK, Answered
<1>4. ~Undisturbed'
  BY DEF Undisturbed
<1>5. AnswersAreTrue'
  BY <1>2 DEF AnswersAreTrue
<1>6. Companion' /\ FocusIsFresh' /\ KProceeds'
  BY NotKde
<1>7. IdentitiesAreStable' /\ Retained'
  BY IdentitiesKept DEF IInv
<1>8. NotedFirst' /\ PlacesTwice' /\ GoneIsGone' /\ LookIsTrue'
  BY <1>2
     DEF IInv, NotedFirst, PlacesTwice, GoneIsGone, LookIsTrue, LooksAt, MoveSame,
         Early, Asked
<1>9. Proceeds' /\ UndisturbedMovesArrive'
  BY <1>4, <1>6 DEF Proceeds, StaysOpen, XProceeds, WProceeds, MacProceeds, SProceeds,
                    UndisturbedMovesArrive, Undisturbed
<1>10. QED
  BY <1>3, <1>5, <1>6, <1>7, <1>8, <1>9 DEF IInv

\* The adapter goes on to its next call.
LEMMA Advances ==
  ASSUME IInv, adapter # "kde", adapter' = adapter, meddled' = meddled, TableKept,
         m.step # "idle", ~Answered, win' \in Windows,
         win'.alive = win.alive, win'.listed = win.listed,
         m' \in Moves, m'.step \notin {"idle", "answered"}, m'.answer = m.answer,
         asked' \in Seq(Requests), marks' \in SUBSET Marks,
         marks \ {"overtaken"} \subseteq marks',
         NotedFirst', PlacesTwice', GoneIsGone', LookIsTrue',
         Undisturbed /\ Undisturbed' =>
           XProceeds' /\ WProceeds' /\ MacProceeds' /\ SProceeds'
  PROVE  IInv'
<1>1. MovesTypeOK'
  BY TypeKept DEF IInv, MovesTypeOK, Answered
<1>2. AnswersAreTrue' /\ UndisturbedMovesArrive'
  BY DEF AnswersAreTrue, UndisturbedMovesArrive
<1>3. Companion' /\ FocusIsFresh' /\ KProceeds'
  BY NotKde
<1>4. IdentitiesAreStable' /\ Retained'
  BY IdentitiesKept DEF IInv
<1>5. Undisturbed' => Undisturbed
  BY DEF Undisturbed
<1>6. StaysOpen'
  BY <1>5 DEF IInv, Proceeds, StaysOpen
<1>7. XProceeds' /\ WProceeds' /\ MacProceeds' /\ SProceeds'
  BY <1>5 DEF XProceeds, WProceeds, MacProceeds, SProceeds
<1>8. QED
  BY <1>1, <1>2, <1>3, <1>4, <1>6, <1>7 DEF IInv, Proceeds

\* The adapter has seen enough, and answers.
LEMMA Concludes ==
  ASSUME IInv, adapter # "kde", m.step # "idle", NEW a \in Answers, a # NoAnswer, End(a),
         marks' \in {marks, marks \ {"overtaken"}},
         UNCHANGED <<adapter, win, asked, meddled>>, TableKept,
         "overtaken" \notin marks' =>
           /\ a.is = "ok" => Frame = m.target
           /\ a.is = "partial" => Frame = a.frame
           /\ a.is = "failed" /\ Asked => Frame = m.before,
         a.is = "gone" => ~win.alive,
         adapter = "x11" /\ Undisturbed => ~m.late,
         adapter = "x11" /\ Undisturbed /\ a = Ok => asked \in {<<>>, <<Configuring>>},
         Undisturbed =>
           \/ Refused /\ ~Asked /\ a = Failed
           \/ ~Refused /\ TooSmall /\ a.is \in {"failed", "partial"}
           \/ ~Refused /\ ~TooSmall /\ a = Ok /\ win.mode = "free" /\ Frame = m.target
  PROVE  IInv'
<1>1. MovesTypeOK /\ m \in Moves /\ win \in Windows /\ marks \subseteq Marks
      /\ asked \in Seq(Requests)
  BY Parts DEF IInv, MovesTypeOK
<1>2. m' \in Moves /\ m'.step = "answered" /\ m'.answer = a /\ MoveSame /\ ScriptSame
  BY <1>1, EndIs
<1>3. MovesTypeOK'
  BY <1>1, <1>2, TypeKept DEF Windows, Marks
<1>4. Frame' = Frame /\ (Asked' <=> Asked) /\ (Undisturbed' <=> Undisturbed)
      /\ m'.target = m.target /\ m'.before = m.before /\ m'.late = m.late
  BY <1>2 DEF Frame, Asked, Undisturbed, MoveSame
<1>5. AnswersAreTrue'
  <2>1. a.is \in {"ok", "failed", "gone", "partial"}
    BY AnswerValues DEF Answers
  <2>2. QED
    BY <1>2, <1>4, <2>1 DEF AnswersAreTrue
<1>6. Companion' /\ FocusIsFresh' /\ KProceeds'
  BY NotKde
<1>7. IdentitiesAreStable' /\ Retained'
  BY IdentitiesKept DEF IInv
<1>8. NotedFirst' /\ PlacesTwice' /\ GoneIsGone' /\ LookIsTrue'
  BY <1>2
     DEF IInv, NotedFirst, PlacesTwice, GoneIsGone, LookIsTrue, LooksAt, MoveSame,
         Early, Asked
<1>9. StaysOpen' /\ XProceeds'
  <2>1. Configuring' = Configuring
    BY <1>4 DEF Configuring
  <2>2. QED
    BY <1>2, <1>4, <2>1 DEF IInv, Proceeds, StaysOpen, XProceeds
<1>10. WProceeds' /\ MacProceeds' /\ SProceeds'
  BY <1>2, <1>4 DEF IInv, Proceeds, WProceeds, MacProceeds, SProceeds
<1>11. UndisturbedMovesArrive'
  <2>1. (Refused' <=> Refused) /\ (TooSmall' <=> TooSmall)
    BY <1>4 DEF Refused, TooSmall
  <2>2. QED
    BY <1>2, <1>4, <2>1 DEF UndisturbedMovesArrive, Undisturbed
<1>12. QED
  BY <1>3, <1>5, <1>6, <1>7, <1>8, <1>9, <1>10, <1>11 DEF IInv, Proceeds

\* A window that could not be read again.
LEMMA ConcludesBlind ==
  ASSUME IInv, adapter # "kde", m.step # "idle", NEW a \in {Failed, Gone}, End(a),
         marks' = marks \cup {"disturbed", "blind"},
         UNCHANGED <<adapter, win, asked, meddled>>, TableKept
  PROVE  IInv'
<1>1. MovesTypeOK /\ m \in Moves /\ win \in Windows /\ marks \subseteq Marks
      /\ asked \in Seq(Requests) /\ a \in Answers /\ a # NoAnswer
  BY Parts, AnswerValues DEF IInv, MovesTypeOK
<1>2. m' \in Moves /\ m'.step = "answered" /\ m'.answer = a /\ MoveSame
  BY <1>1, EndIs
<1>3. MovesTypeOK'
  BY <1>1, <1>2, TypeKept DEF Windows, Marks
<1>4. ~Undisturbed' /\ AnswersAreTrue'
  BY DEF AnswersAreTrue, Undisturbed
<1>5. Companion' /\ FocusIsFresh' /\ KProceeds'
  BY NotKde
<1>6. IdentitiesAreStable' /\ Retained'
  BY IdentitiesKept DEF IInv
<1>7. NotedFirst' /\ PlacesTwice' /\ GoneIsGone' /\ LookIsTrue'
  BY <1>2
     DEF IInv, NotedFirst, PlacesTwice, GoneIsGone, LookIsTrue, LooksAt, MoveSame,
         Early, Asked
<1>8. Proceeds' /\ UndisturbedMovesArrive'
  BY <1>4, <1>5 DEF Proceeds, StaysOpen, XProceeds, WProceeds, MacProceeds, SProceeds,
                    UndisturbedMovesArrive, Undisturbed
<1>9. QED
  BY <1>3, <1>4, <1>5, <1>6, <1>7, <1>8 DEF IInv

-----------------------------------------------------------------------------
(* Looks.                                                                  *)

MarksRead == marks' = IF m.got = 0 THEN marks \ {"overtaken"} ELSE marks
MoreToRead == m.got + 1 < Replies

LEMMA LookedIs ==
  ASSUME IInv
  PROVE  /\ Looked \in Spans
         /\ MarksRead /\ ~MoreToRead /\ "overtaken" \notin marks' => Looked = Frame
<1>1. /\ m.got \in 0..2 /\ m.read \in Spans /\ win.x \in Int /\ win.w \in Int
      /\ Frame \in Spans /\ Extents \in {0, 1} /\ LookIsTrue
  BY Parts DEF IInv, Extents
<1>2. Frame = [x |-> win.x, w |-> win.w]
  BY DEF Frame
<1> HIDE DEF Frame, Extents
<1>3. CASE adapter = "x11"
  <2>1. CASE m.got = 0
    <3>1. Looked = [m.read EXCEPT !.w = win.w - Extents] /\ Replies = 3
      BY <1>3, <2>1 DEF Looked, Replies
    <3>2. QED
      BY <1>1, <2>1, <3>1 DEF Spans, MoreToRead
  <2>2. CASE m.got = 1
    <3>1. Looked = [m.read EXCEPT !.x = win.x + Extents] /\ Replies = 3
      BY <1>3, <2>2 DEF Looked, Replies
    <3>2. QED
      BY <1>1, <2>2, <3>1 DEF Spans, MoreToRead
  <2>3. CASE m.got = 2
    <3>1. Looked = [x |-> m.read.x - Extents, w |-> m.read.w + Extents]
      BY <1>3, <2>3 DEF Looked
    <3>2. Looked \in Spans
      BY <1>1, <3>1 DEF Spans
    <3>3. MarksRead /\ "overtaken" \notin marks' =>
            m.read.w = win.w - Extents /\ m.read.x = win.x + Extents
      BY <1>1, <1>3, <2>3 DEF LookIsTrue, MarksRead
    <3>4. ASSUME MarksRead, "overtaken" \notin marks' PROVE Looked = Frame
      <4>1. m.read.x - Extents = win.x /\ m.read.w + Extents = win.w
        BY <1>1, <3>3, <3>4
      <4>2. QED
        BY <1>2, <3>1, <4>1
    <3>5. QED
      BY <3>2, <3>4
  <2>4. QED
    BY <1>1, <2>1, <2>2, <2>3
<1>4. CASE adapter = "macos"
  <2>1. CASE m.got = 0
    <3>1. Looked = [m.read EXCEPT !.x = win.x] /\ Replies = 2
      BY <1>4, <2>1 DEF Looked, Replies
    <3>2. QED
      BY <1>1, <2>1, <3>1 DEF Spans, MoreToRead
  <2>2. CASE m.got = 1
    <3>1. Looked = [m.read EXCEPT !.w = win.w]
      BY <1>4, <2>2 DEF Looked
    <3>2. MarksRead /\ "overtaken" \notin marks' => m.read.x = win.x
      BY <1>1, <1>4, <2>2 DEF LookIsTrue, MarksRead
    <3>3. QED
      BY <1>1, <1>2, <3>1, <3>2 DEF Spans
  <2>3. m.got # 2
    BY <1>1, <1>4 DEF LookIsTrue
  <2>4. QED
    BY <1>1, <2>1, <2>2, <2>3
<1>5. CASE adapter \notin {"x11", "macos"}
  BY <1>1, <1>5 DEF Looked
<1>6. QED
  BY <1>3, <1>4, <1>5

\* Nothing but what has been read changes.
LEMMA ReadsAnother ==
  ASSUME IInv, adapter \in {"x11", "macos"}, m.step \in LooksAt,
         m' \in Moves, m'.step = m.step, m'.answer = m.answer, m'.target = m.target,
         m'.late = m.late, m'.pass = m.pass, m'.size = m.size, m'.restoring = m.restoring,
         marks' \in SUBSET Marks, marks \ {"overtaken"} \subseteq marks', marks' \subseteq marks,
         UNCHANGED <<adapter, win, asked, meddled>>, TableKept, LookIsTrue'
  PROVE  IInv'
<1>1. asked \in Seq(Requests) /\ win \in Windows
  BY Parts DEF IInv, MovesTypeOK
<1>2. NotedFirst' /\ PlacesTwice' /\ GoneIsGone'
  BY DEF IInv, NotedFirst, PlacesTwice, GoneIsGone, Early, Asked, LooksAt
<1>3. /\ Frame' = Frame /\ (Refused' <=> Refused) /\ (TooSmall' <=> TooSmall)
      /\ Configuring' = Configuring
  BY DEF Frame, Refused, TooSmall, Configuring
<1>4. Undisturbed => XProceeds'
  BY <1>3 DEF IInv, Proceeds, XProceeds, LooksAt, Undisturbed, Answered
<1>5. Undisturbed => MacProceeds'
  BY <1>3 DEF IInv, Proceeds, MacProceeds, LooksAt
<1>6. WProceeds' /\ SProceeds'
  BY DEF WProceeds, SProceeds
<1>7. ~Answered /\ m.step # "idle"
  BY DEF Answered, LooksAt
<1>8. QED
  BY <1>1, <1>2, <1>4, <1>5, <1>6, <1>7, Advances DEF LooksAt

\* A reply that is not the last one.
LEMMA ReadsOn ==
  ASSUME IInv, m.step \in LooksAt, MoreToRead, MarksRead,
         m' = [m EXCEPT !.got = @ + 1, !.read = Looked],
         UNCHANGED <<adapter, win, asked, meddled>>, TableKept
  PROVE  IInv'
<1>1. /\ MovesTypeOK /\ m \in Moves /\ win \in Windows /\ marks \subseteq Marks
      /\ asked \in Seq(Requests) /\ Looked \in Spans /\ m.read \in Spans
      /\ win.x \in Int /\ win.w \in Int /\ LookIsTrue /\ Extents \in {0, 1}
  BY Parts, LookedIs DEF IInv, MovesTypeOK, Extents
<1>2. /\ adapter \in {"x11", "macos"} /\ m.got \in {0, 1}
      /\ adapter = "macos" => m.got = 0
  BY <1>1, Parts DEF MoreToRead, Replies
<1>3. /\ m' \in Moves /\ m'.step = m.step /\ m'.answer = m.answer
      /\ m'.got = m.got + 1 /\ m'.read = Looked /\ m'.target = m.target
      /\ m'.late = m.late /\ m'.pass = m.pass /\ m'.size = m.size
      /\ m'.restoring = m.restoring
  <2> DEFINE got == m.got + 1
             looked == Looked
  <2>1. got \in 0..2 /\ looked \in Spans /\ m' = [m EXCEPT !.got = got, !.read = looked]
    BY <1>1, <1>2
  <2> HIDE DEF got, looked
  <2>2. /\ m' \in Moves /\ m'.step = m.step /\ m'.answer = m.answer
        /\ m'.got = got /\ m'.read = looked /\ m'.target = m.target
        /\ m'.late = m.late /\ m'.pass = m.pass /\ m'.size = m.size
        /\ m'.restoring = m.restoring
    BY <1>1, <2>1 DEF Moves
  <2>3. QED
    BY <2>2 DEF got, looked
<1>4. /\ marks' \in SUBSET Marks /\ marks \ {"overtaken"} \subseteq marks'
      /\ marks' \subseteq marks /\ (m.got # 0 => marks' = marks)
  BY <1>1 DEF MarksRead
<1>5. Extents' = Extents
  BY DEF Extents
<1> HIDE DEF Extents
<1>6. CASE adapter = "macos"
  <2>1. Looked = [m.read EXCEPT !.x = win.x]
    BY <1>2, <1>6 DEF Looked
  <2>2. m'.read.x = win.x /\ m'.got = 1
    BY <1>1, <1>2, <1>3, <1>6, <2>1 DEF Spans
  <2>3. LookIsTrue'
    BY <1>3, <1>6, <2>2 DEF LookIsTrue
  <2>4. QED
    BY <1>1, <1>3, <1>4, <1>6, <2>3, ReadsAnother
<1>7. CASE adapter = "x11"
  <2>1. CASE m.got = 0
    <3>1. Looked = [m.read EXCEPT !.w = win.w - Extents]
      BY <1>7, <2>1 DEF Looked
    <3>2. m'.read.w = win.w - Extents /\ m'.got = 1
      BY <1>1, <1>3, <2>1, <3>1 DEF Spans
    <3>3. LookIsTrue'
      BY <1>3, <1>5, <1>7, <3>2 DEF LookIsTrue
    <3>4. QED
      BY <1>1, <1>3, <1>4, <1>7, <3>3, ReadsAnother
  <2>2. CASE m.got = 1
    <3>1. Looked = [m.read EXCEPT !.x = win.x + Extents]
      BY <1>7, <2>2 DEF Looked
    <3>2. m'.read.x = win.x + Extents /\ m'.read.w = m.read.w /\ m'.got = 2
      BY <1>1, <1>3, <2>2, <3>1 DEF Spans
    <3>3. "overtaken" \notin marks' => m.read.w = win.w - Extents
      BY <1>1, <1>4, <1>7, <2>2 DEF LookIsTrue
    <3>4. LookIsTrue'
      BY <1>3, <1>5, <1>7, <3>2, <3>3 DEF LookIsTrue
    <3>5. QED
      BY <1>1, <1>3, <1>4, <1>7, <3>4, ReadsAnother
  <2>3. QED
    BY <1>2, <2>1, <2>2
<1>8. QED
  BY <1>2, <1>6, <1>7

\* The last look after a failure.
LEMMA LooksAgain ==
  ASSUME IInv, adapter \in {"x11", "windows", "macos"}, Reobserve, TableKept
  PROVE  IInv'
<1>1. /\ m.step = "reobserve" /\ UNCHANGED <<adapter, win, asked, meddled>>
      /\ Looked \in Spans /\ m.step \in LooksAt
  BY LookedIs DEF Reobserve, LooksAt
<1>2. CASE End(Failed) /\ marks' = marks \cup {"disturbed", "blind"}
  BY <1>1, <1>2, ConcludesBlind
<1>3. CASE ~win.alive /\ End(Gone) /\ UNCHANGED marks
  BY <1>1, <1>3, FindsGone
<1>4. CASE MarksRead /\ MoreToRead /\ m' = [m EXCEPT !.got = @ + 1, !.read = Looked]
  BY <1>1, <1>4, ReadsOn
<1>5. CASE /\ MarksRead /\ ~MoreToRead
           /\ IF Looked # m.before THEN End(Partial(Looked)) ELSE End(Failed)
  <2>1. PICK a \in Answers :
          /\ End(a) /\ a # NoAnswer /\ a # Ok /\ a.is # "gone" /\ a.is # "ok"
          /\ a.is \in {"failed", "partial"}
          /\ a.is = "partial" => Looked = a.frame
          /\ a.is = "failed" => Looked = m.before
    <3>1. CASE Looked # m.before
      <4> DEFINE a == Partial(Looked)
      <4>1. /\ a \in Answers /\ End(a) /\ a # NoAnswer /\ a.is = "partial"
            /\ a.frame = Looked /\ a # Ok
        BY <1>1, <1>5, <3>1, AnswerValues
      <4> HIDE DEF a
      <4>2. QED
        BY <4>1
    <3>2. CASE Looked = m.before
      BY <1>5, <3>2, AnswerValues
    <3>3. QED
      BY <3>1, <3>2
  <2>2. /\ marks' \in {marks, marks \ {"overtaken"}}
        /\ "overtaken" \notin marks' => Looked = Frame
    BY <1>5, LookedIs DEF MarksRead
  <2>3. ASSUME Undisturbed PROVE ~Refused /\ TooSmall /\ ~m.late
    <3>1. adapter = "x11"
      BY <1>1, <2>3 DEF IInv, Proceeds, WProceeds, MacProceeds
    <3>2. QED
      BY <1>1, <2>3, <3>1 DEF IInv, Proceeds, XProceeds
  <2>4. adapter # "kde" /\ m.step # "idle"
    BY <1>1
  <2>5. QED
    BY <1>1, <2>1, <2>2, <2>3, <2>4, Concludes
<1>6. QED
  BY <1>2, <1>3, <1>4, <1>5 DEF Reobserve, Replied, MarksRead, MoreToRead

-----------------------------------------------------------------------------
(* X11.                                                                    *)

LEMMA XListKeeps ==
  ASSUME IInv, adapter = "x11", XList, UNCHANGED tableVars
  PROVE  IInv'
<1>1. /\ m.step = "list" /\ TableKept /\ UNCHANGED <<adapter, win, asked, meddled>>
  BY DEF XList, TableKept, tableVars
<1>2. CASE End(Failed) /\ Disturb
  BY <1>1, <1>2, FailsEarly DEF Early, Disturb, Undisturbed
<1>3. CASE ~(win.alive /\ win.listed) /\ End(Gone) /\ UNCHANGED marks
  BY <1>1, <1>3, FindsGone
<1>4. CASE To("states") /\ UNCHANGED marks
  <2>1. MovesTypeOK /\ m \in Moves /\ win \in Windows /\ marks \subseteq Marks
        /\ asked \in Seq(Requests)
    BY Parts DEF IInv, MovesTypeOK
  <2>2. /\ m' \in Moves /\ m'.step = "states" /\ m'.answer = m.answer /\ MoveSame
    BY <1>4, <2>1, ToIs DEF Steps
  <2>3. NotedFirst' /\ PlacesTwice' /\ GoneIsGone' /\ LookIsTrue'
    BY <1>1, <1>4, <2>2
       DEF IInv, NotedFirst, PlacesTwice, GoneIsGone, LookIsTrue, LooksAt, MoveSame,
           Early, Asked
  <2>4. Undisturbed => XProceeds' /\ WProceeds' /\ MacProceeds' /\ SProceeds'
    BY <1>1, <1>4, <2>2
       DEF IInv, Proceeds, XProceeds, WProceeds, MacProceeds, SProceeds, MoveSame,
           Answered
  <2>5. QED
    BY <1>1, <1>4, <2>1, <2>2, <2>3, <2>4, Advances DEF Answered
<1>5. QED
  BY <1>2, <1>3, <1>4 DEF XList

LEMMA XStatesKeeps ==
  ASSUME IInv, adapter = "x11", XStates, UNCHANGED tableVars
  PROVE  IInv'
<1>1. /\ m.step = "states" /\ TableKept /\ UNCHANGED <<adapter, win, asked, meddled>>
  BY DEF XStates, Reads, Asks, TableKept, tableVars
<1>2. CASE End(Failed) /\ marks' = marks \cup {"disturbed", "lost"}
  BY <1>1, <1>2, FailsEarly DEF Early, Undisturbed
<1>3. CASE ~win.alive /\ End(Gone) /\ UNCHANGED marks
  BY <1>1, <1>3, FindsGone
<1>4. CASE win.mode = "fullscreen" /\ End(Failed) /\ UNCHANGED marks
  BY <1>1, <1>4, FailsEarly DEF Early, Refused
<1>5. CASE /\ win.mode # "fullscreen" /\ UNCHANGED marks
           /\ m' = [m EXCEPT !.step = "hints", !.restoring = win.mode \in Held]
  <2>1. MovesTypeOK /\ m \in Moves /\ win \in Windows /\ marks \subseteq Marks
        /\ asked \in Seq(Requests)
    BY Parts DEF IInv, MovesTypeOK
  <2>2. /\ m' \in Moves /\ m'.step = "hints" /\ m'.answer = m.answer
        /\ m'.late = m.late /\ m'.got = m.got /\ m'.restoring = (win.mode \in Held)
    <3> DEFINE held == win.mode \in Held
    <3>1. held \in BOOLEAN /\ m' = [m EXCEPT !.step = "hints", !.restoring = held]
      BY <1>5
    <3>2. held = (win.mode \in Held)
      OBVIOUS
    <3> HIDE DEF held
    <3>3. /\ m' \in Moves /\ m'.step = "hints" /\ m'.answer = m.answer
          /\ m'.late = m.late /\ m'.got = m.got /\ m'.restoring = held
      BY <2>1, <3>1 DEF Moves, Steps
    <3>4. QED
      BY <3>2, <3>3
  <2>3. NotedFirst' /\ PlacesTwice' /\ GoneIsGone' /\ LookIsTrue'
    BY <1>1, <1>5, <2>2
       DEF IInv, NotedFirst, PlacesTwice, GoneIsGone, LookIsTrue, LooksAt, MoveSame,
           Early, Asked
  <2>4. Undisturbed => XProceeds' /\ WProceeds' /\ MacProceeds' /\ SProceeds'
    BY <1>1, <1>5, <2>2
       DEF IInv, Proceeds, XProceeds, WProceeds, MacProceeds, SProceeds, Answered
  <2>5. QED
    BY <1>1, <1>5, <2>1, <2>2, <2>3, <2>4, Advances DEF Answered
<1>6. QED
  BY <1>2, <1>3, <1>4, <1>5 DEF XStates, Reads, Asks

LEMMA XHintsKeeps ==
  ASSUME IInv, adapter = "x11", XHints, UNCHANGED tableVars
  PROVE  IInv'
<1>1. /\ m.step = "hints" /\ TableKept /\ UNCHANGED <<adapter, win, asked, meddled>>
  BY DEF XHints, Reads, Asks, TableKept, tableVars
<1>2. CASE End(Failed) /\ marks' = marks \cup {"disturbed", "lost"}
  BY <1>1, <1>2, FailsEarly DEF Early, Undisturbed
<1>3. CASE ~win.alive /\ End(Gone) /\ UNCHANGED marks
  BY <1>1, <1>3, FindsGone
<1>4. CASE win.fixed /\ End(Failed) /\ UNCHANGED marks
  BY <1>1, <1>4, FailsEarly DEF Early, Refused
<1>5. CASE ~win.fixed /\ To("measure") /\ UNCHANGED marks
  <2>1. MovesTypeOK /\ m \in Moves /\ win \in Windows /\ marks \subseteq Marks
        /\ asked \in Seq(Requests)
    BY Parts DEF IInv, MovesTypeOK
  <2>2. /\ m' \in Moves /\ m'.step = "measure" /\ m'.answer = m.answer /\ MoveSame
    BY <1>5, <2>1, ToIs DEF Steps
  <2>3. NotedFirst' /\ PlacesTwice' /\ GoneIsGone' /\ LookIsTrue'
    BY <1>1, <1>5, <2>2
       DEF IInv, NotedFirst, PlacesTwice, GoneIsGone, LookIsTrue, LooksAt, MoveSame,
           Early, Asked
  <2>4. Undisturbed => XProceeds' /\ WProceeds' /\ MacProceeds' /\ SProceeds'
    BY <1>1, <1>5, <2>2
       DEF IInv, Proceeds, XProceeds, WProceeds, MacProceeds, SProceeds, MoveSame,
           Refused,
           Answered
  <2>5. QED
    BY <1>1, <1>5, <2>1, <2>2, <2>3, <2>4, Advances DEF Answered
<1>6. QED
  BY <1>2, <1>3, <1>4, <1>5 DEF XHints, Reads, Asks

LEMMA XMeasureKeeps ==
  ASSUME MovesConstantsOK, IInv, adapter = "x11", XMeasure, UNCHANGED tableVars
  PROVE  IInv'
<1>1. /\ m.step = "measure" /\ TableKept /\ UNCHANGED <<adapter, win, asked, meddled>>
  BY DEF XMeasure, Reads, Asks, TableKept, tableVars
<1>2. CASE End(Failed) /\ marks' = marks \cup {"disturbed", "lost"}
  BY <1>1, <1>2, FailsEarly DEF Early, Undisturbed
<1>3. CASE ~win.alive /\ End(Gone) /\ UNCHANGED marks
  BY <1>1, <1>3, FindsGone
<1>4. CASE ~SizeContainsFrame /\ End(Failed) /\ UNCHANGED marks
  <2>1. m.target.w \in Nat
    BY TargetFits DEF IInv
  <2>2. TooSmall
    BY <1>4, <2>1 DEF SizeContainsFrame, FrameTargetSize, Extents, TooSmall
  <2>3. QED
    BY <1>1, <1>4, <2>2, FailsEarly DEF Early
<1>5. CASE /\ SizeContainsFrame /\ UNCHANGED marks
           /\ m' = [m EXCEPT !.step = "before", !.size = FrameTargetSize]
  <2>1. MovesTypeOK /\ m \in Moves /\ win \in Windows /\ marks \subseteq Marks
        /\ asked \in Seq(Requests) /\ win.mode \in Modes("x11")
    BY Parts DEF IInv, MovesTypeOK
  <2>2. m.target.w \in Int /\ FrameTargetSize \in Int
    BY <2>1, TargetFits DEF FrameTargetSize, Extents
  <2>3. /\ m' \in Moves /\ m'.step = "before" /\ m'.answer = m.answer
        /\ m'.late = m.late /\ m'.target = m.target /\ m'.restoring = m.restoring
        /\ m'.size = FrameTargetSize /\ m'.got = m.got
    BY <1>5, <2>1, <2>2 DEF Moves, Steps
  <2>4. NotedFirst' /\ PlacesTwice' /\ GoneIsGone' /\ LookIsTrue'
    BY <1>1, <1>5, <2>3
       DEF IInv, NotedFirst, PlacesTwice, GoneIsGone, LookIsTrue, LooksAt, MoveSame,
           Early, Asked
  <2>5. ASSUME Undisturbed PROVE XProceeds' /\ WProceeds' /\ MacProceeds' /\ SProceeds'
    <3>1. /\ ~m.late /\ win.mode # "fullscreen" /\ m.restoring = (win.mode \in Held)
          /\ ~Refused /\ "overtaken" \notin marks
      BY <1>1, <2>5 DEF IInv, Proceeds, XProceeds
    <3>2. ~Refused'
      BY <1>1, <3>1 DEF Refused
    <3>4. win.mode = "free" => m'.size = m'.target.w - 1 /\ m'.target.w > 1
      BY <1>5, <2>2, <2>3 DEF SizeContainsFrame, FrameTargetSize, Extents
    <3>5. XProceeds'
      BY <1>1, <1>5, <2>3, <3>1, <3>2, <3>4 DEF XProceeds, Answered
    <3>6. QED
      BY <1>1, <3>5 DEF WProceeds, MacProceeds, SProceeds
  <2>6. QED
    BY <1>1, <1>5, <2>1, <2>3, <2>4, <2>5, Advances DEF Answered
<1>6. QED
  BY <1>2, <1>3, <1>4, <1>5 DEF XMeasure, Reads, Asks

\* The frame before the move has been read.
LEMMA BeforeIs ==
  ASSUME m \in Moves, NEW s \in Steps, NEW f \in Spans,
         m' = [Afresh EXCEPT !.step = s, !.before = f]
  PROVE  /\ m' \in Moves /\ m'.step = s /\ m'.answer = m.answer /\ m'.got = 0
         /\ m'.target = m.target /\ m'.pass = m.pass /\ m'.size = m.size
         /\ m'.restoring = m.restoring /\ m'.late = m.late
BY AfreshIs DEF Moves

LEMMA XBeforeKeeps ==
  ASSUME IInv, adapter = "x11", XBefore, UNCHANGED tableVars
  PROVE  IInv'
<1>1. /\ m.step = "before" /\ TableKept /\ UNCHANGED <<adapter, win, asked, meddled>>
      /\ m.step \in LooksAt
  BY DEF XBefore, Looks, TableKept, tableVars, LooksAt
<1>2. CASE End(Failed) /\ marks' = marks \cup {"disturbed", "lost"}
  BY <1>1, <1>2, FailsEarly DEF Early, Undisturbed
<1>3. CASE ~win.alive /\ End(Gone) /\ UNCHANGED marks
  BY <1>1, <1>3, FindsGone
<1>4. CASE MarksRead /\ MoreToRead /\ m' = [m EXCEPT !.got = @ + 1, !.read = Looked]
  BY <1>1, <1>4, ReadsOn
<1>5. CASE /\ MarksRead
           /\ m' = [Afresh EXCEPT !.step = IF m.restoring THEN "restore" ELSE "configure",
                                  !.before = Looked]
  <2>1. MovesTypeOK /\ m \in Moves /\ win \in Windows /\ marks \subseteq Marks
        /\ asked \in Seq(Requests) /\ Looked \in Spans /\ win.mode \in Modes("x11")
        /\ m.restoring \in BOOLEAN
    BY Parts, LookedIs DEF IInv, MovesTypeOK
  <2>2. /\ m' \in Moves /\ m'.step = (IF m.restoring THEN "restore" ELSE "configure")
        /\ m'.answer = m.answer /\ m'.late = m.late /\ m'.target = m.target
        /\ m'.size = m.size /\ m'.got = 0
    <3> DEFINE s == IF m.restoring THEN "restore" ELSE "configure"
    <3>1. s \in Steps /\ m' = [Afresh EXCEPT !.step = s, !.before = Looked]
      BY <1>5 DEF Steps
    <3> HIDE DEF s
    <3>2. QED
      BY <2>1, <3>1, BeforeIs DEF s
  <2>3. /\ marks' \in SUBSET Marks /\ marks \ {"overtaken"} \subseteq marks'
        /\ marks' \subseteq marks
    BY <1>5, <2>1 DEF MarksRead
  <2>4. NotedFirst' /\ PlacesTwice' /\ GoneIsGone' /\ LookIsTrue'
    BY <1>1, <2>2, <2>3
       DEF IInv, NotedFirst, PlacesTwice, GoneIsGone, LookIsTrue, Early, Asked
  <2>5. ASSUME Undisturbed PROVE XProceeds' /\ WProceeds' /\ MacProceeds' /\ SProceeds'
    <3>1. /\ ~m.late /\ win.mode # "fullscreen" /\ m.restoring = (win.mode \in Held)
          /\ ~Refused /\ asked = <<>> /\ "overtaken" \notin marks
          /\ win.mode = "free" => m.size = m.target.w - 1 /\ m.target.w > 1
      BY <1>1, <2>5 DEF IInv, Proceeds, XProceeds, NotedFirst, Early
    <3>2. ~Refused'
      BY <1>1, <3>1 DEF Refused
    <3>3. win.mode \notin Held => win.mode = "free"
      BY <2>1, <3>1 DEF Modes, Held
    <3>4. XProceeds'
      BY <1>1, <2>2, <2>3, <3>1, <3>2, <3>3 DEF XProceeds, Answered
    <3>5. QED
      BY <1>1, <3>4 DEF WProceeds, MacProceeds, SProceeds
  <2>6. QED
    BY <1>1, <2>1, <2>2, <2>3, <2>4, <2>5, Advances DEF Answered
<1>6. QED
  BY <1>2, <1>3, <1>4, <1>5 DEF XBefore, Looks, Replied, MarksRead, MoreToRead

\* The requests that are queued, and the queue.
LEMMA Queued ==
  ASSUME MovesConstantsOK, MovesTypeOK
  PROVE  /\ Restoring \in Requests
         /\ \A w \in Int : [is |-> "configure", x |-> m.target.x, w |-> w] \in Requests
         /\ \A q \in Seq(Requests), r \in Requests : Append(q, r) \in Seq(Requests)
         /\ \A r \in Requests : Append(<<>>, r) = <<r>>
         /\ \A r \in Requests : Tail(<<r>>) = <<>> /\ Head(<<r>>) = r /\ <<r>> # <<>>
<1>1. m.target.x \in Int
  BY TargetFits
<1>2. QED
  BY <1>1 DEF Restoring, Requests

LEMMA XRestoreKeeps ==
  ASSUME MovesConstantsOK, IInv, adapter = "x11", XRestore, UNCHANGED tableVars
  PROVE  IInv'
<1>1. /\ m.step = "restore" /\ TableKept /\ UNCHANGED <<adapter, win, meddled>>
  BY DEF XRestore, Asks, TableKept, tableVars
<1>2. CASE To("reobserve") /\ marks' = marks \cup {"disturbed", "lost"} /\ UNCHANGED asked
  BY <1>1, <1>2, WillLookAgain DEF Answered
<1>3. CASE ~win.alive /\ End(Gone) /\ UNCHANGED <<marks, asked>>
  BY <1>1, <1>3, FindsGone
<1>4. CASE To("unheld") /\ Request /\ asked' = Append(asked, Restoring)
  <2>1. MovesTypeOK /\ m \in Moves /\ win \in Windows /\ marks \subseteq Marks
        /\ asked \in Seq(Requests)
    BY Parts DEF IInv, MovesTypeOK
  <2>2. /\ m' \in Moves /\ m'.step = "unheld" /\ m'.answer = m.answer /\ MoveSame
    BY <1>4, <2>1, ToIs DEF Steps
  <2>3. asked' \in Seq(Requests) /\ marks' \in SUBSET Marks /\ marks \subseteq marks'
    BY <1>4, <2>1, Queued DEF Request, Marks
  <2>4. NotedFirst' /\ PlacesTwice' /\ GoneIsGone' /\ LookIsTrue'
    BY <1>1, <1>4, <2>2
       DEF IInv, NotedFirst, PlacesTwice, GoneIsGone, LookIsTrue, LooksAt, MoveSame,
           Early, Asked, Request
  <2>5. ASSUME Undisturbed PROVE XProceeds' /\ WProceeds' /\ MacProceeds' /\ SProceeds'
    <3>1. asked' = <<Restoring>> /\ ~m.late /\ ~Refused /\ win.mode \in Held
          /\ "overtaken" \notin marks'
      BY <1>1, <1>4, <2>1, <2>5, Queued DEF IInv, Proceeds, XProceeds, Request
    <3>2. ~Refused'
      BY <1>1, <3>1 DEF Refused
    <3>3. Restoring' = Restoring
      BY DEF Restoring
    <3>4. QED
      BY <1>1, <2>2, <3>1, <3>2, <3>3
         DEF XProceeds, WProceeds, MacProceeds, SProceeds, MoveSame, Answered
  <2>6. QED
    BY <1>1, <2>1, <2>2, <2>3, <2>4, <2>5, Advances DEF Answered, Windows
<1>5. QED
  BY <1>2, <1>3, <1>4 DEF XRestore, Asks, Restoring

LEMMA XUnheldKeeps ==
  ASSUME MovesConstantsOK, IInv, adapter = "x11", XUnheld, UNCHANGED tableVars
  PROVE  IInv'
<1>1. /\ m.step = "unheld" /\ TableKept /\ UNCHANGED <<adapter, win, asked, meddled>>
  BY DEF XUnheld, Reads, Asks, TableKept, tableVars
<1>2. CASE To("reobserve") /\ marks' = marks \cup {"disturbed", "lost"}
  BY <1>1, <1>2, WillLookAgain DEF Answered
<1>3. CASE ~win.alive /\ End(Gone) /\ UNCHANGED marks
  BY <1>1, <1>3, FindsGone
<1>a. MovesTypeOK /\ m \in Moves /\ win \in Windows /\ marks \subseteq Marks
      /\ asked \in Seq(Requests)
  BY Parts DEF IInv, MovesTypeOK
<1>b. ASSUME Undisturbed
      PROVE  /\ ~m.late /\ ~Refused /\ "overtaken" \notin marks
             /\ win.mode \notin Held => asked = <<>> /\ win.mode = "free"
  BY <1>1, <1>b DEF IInv, Proceeds, XProceeds
<1>4. CASE /\ win.mode \notin Held /\ To("extents") /\ UNCHANGED marks
  <2>1. /\ m' \in Moves /\ m'.step = "extents" /\ m'.answer = m.answer /\ MoveSame
    BY <1>4, <1>a, ToIs DEF Steps
  <2>2. NotedFirst' /\ PlacesTwice' /\ GoneIsGone' /\ LookIsTrue'
    BY <1>1, <1>4, <2>1
       DEF IInv, NotedFirst, PlacesTwice, GoneIsGone, LookIsTrue, MoveSame, Early, Asked
  <2>3. ASSUME Undisturbed PROVE XProceeds' /\ WProceeds' /\ MacProceeds' /\ SProceeds'
    <3>1. ~Refused' /\ win'.mode = "free" /\ asked' = <<>>
      BY <1>1, <1>4, <1>b, <2>3 DEF Refused
    <3>2. QED
      BY <1>1, <1>4, <1>b, <2>1, <2>3, <3>1
         DEF XProceeds, WProceeds, MacProceeds, SProceeds, MoveSame, Answered
  <2>4. QED
    BY <1>1, <1>4, <1>a, <2>1, <2>2, <2>3, Advances DEF Answered
<1>5. CASE /\ To("reobserve") /\ UNCHANGED marks /\ m.late
  <2>1. /\ m' \in Moves /\ m'.step = "reobserve" /\ m'.answer = m.answer /\ MoveSame
    BY <1>5, <1>a, ToIs DEF Steps
  <2>2. NotedFirst' /\ PlacesTwice' /\ GoneIsGone' /\ LookIsTrue'
    BY <1>1, <1>5, <2>1
       DEF IInv, NotedFirst, PlacesTwice, GoneIsGone, LookIsTrue, MoveSame, Early, Asked
  <2>3. ~Undisturbed
    BY <1>5, <1>b
  <2>4. QED
    BY <1>1, <1>5, <1>a, <2>1, <2>2, <2>3, Advances DEF Answered
<1>6. QED
  BY <1>2, <1>3, <1>4, <1>5 DEF XUnheld, Reads, Asks

LEMMA XExtentsKeeps ==
  ASSUME MovesConstantsOK, IInv, adapter = "x11", XExtents, UNCHANGED tableVars
  PROVE  IInv'
<1>1. /\ m.step = "extents" /\ TableKept /\ UNCHANGED <<adapter, win, asked, meddled>>
  BY DEF XExtents, Reads, Asks, TableKept, tableVars
<1>2. CASE To("reobserve") /\ marks' = marks \cup {"disturbed", "lost"}
  BY <1>1, <1>2, WillLookAgain DEF Answered
<1>3. CASE ~win.alive /\ End(Gone) /\ UNCHANGED marks
  BY <1>1, <1>3, FindsGone
<1>a. MovesTypeOK /\ m \in Moves /\ win \in Windows /\ marks \subseteq Marks
      /\ asked \in Seq(Requests) /\ Frame \in Spans /\ win.mode \in Modes("x11")
      /\ m.target.w \in Int /\ FrameTargetSize \in Int
  BY Parts, TargetFits DEF IInv, MovesTypeOK, FrameTargetSize, Extents
<1>b. ASSUME Undisturbed
      PROVE  /\ ~m.late /\ ~Refused /\ asked = <<>> /\ win.mode = "free"
             /\ "overtaken" \notin marks
  BY <1>1, <1>b DEF IInv, Proceeds, XProceeds
<1>4. CASE /\ SizeContainsFrame /\ UNCHANGED marks
           /\ m' = [m EXCEPT !.step = "configure", !.size = FrameTargetSize, !.late = FALSE]
  <2>1. /\ m' \in Moves /\ m'.step = "configure" /\ m'.answer = m.answer
        /\ ~m'.late /\ m'.target = m.target /\ m'.size = FrameTargetSize
        /\ m'.got = m.got
    BY <1>4, <1>a DEF Moves, Steps
  <2>2. NotedFirst' /\ PlacesTwice' /\ GoneIsGone' /\ LookIsTrue'
    BY <1>1, <1>4, <2>1
       DEF IInv, NotedFirst, PlacesTwice, GoneIsGone, LookIsTrue, LooksAt, MoveSame,
           Early, Asked
  <2>3. ASSUME Undisturbed PROVE XProceeds' /\ WProceeds' /\ MacProceeds' /\ SProceeds'
    <3>1. ~Refused' /\ win'.mode = "free" /\ asked' = <<>>
      BY <1>1, <1>4, <1>b, <2>3 DEF Refused
    <3>2. m'.size = m'.target.w - 1 /\ m'.target.w > 1
      BY <1>1, <1>4, <1>a, <2>1, <3>1 DEF SizeContainsFrame, FrameTargetSize, Extents
    <3>3. QED
      BY <1>1, <1>4, <1>b, <2>1, <2>3, <3>1, <3>2
         DEF XProceeds, WProceeds, MacProceeds, SProceeds, Answered
  <2>4. QED
    BY <1>1, <1>4, <1>a, <2>1, <2>2, <2>3, Advances DEF Answered
<1>5. CASE To("reobserve") /\ UNCHANGED marks /\ ~SizeContainsFrame
  <2>1. /\ m' \in Moves /\ m'.step = "reobserve" /\ m'.answer = m.answer /\ MoveSame
    BY <1>5, <1>a, ToIs DEF Steps
  <2>2. NotedFirst' /\ PlacesTwice' /\ GoneIsGone' /\ LookIsTrue'
    BY <1>1, <1>5, <2>1
       DEF IInv, NotedFirst, PlacesTwice, GoneIsGone, LookIsTrue, LooksAt, MoveSame,
           Early, Asked
  <2>3. ASSUME Undisturbed PROVE XProceeds' /\ WProceeds' /\ MacProceeds' /\ SProceeds'
    <3>1. ~Refused' /\ win.mode = "free" /\ asked' = <<>> /\ ~SizeContainsFrame /\ ~m.late
      BY <1>1, <1>5, <1>b, <2>3 DEF Refused
    <3>2. TooSmall'
      BY <1>1, <1>a, <2>1, <3>1
         DEF SizeContainsFrame, FrameTargetSize, Extents, TooSmall, MoveSame
    <3>3. QED
      BY <1>1, <2>1, <3>1, <3>2
         DEF XProceeds, WProceeds, MacProceeds, SProceeds, MoveSame, Answered
  <2>4. QED
    BY <1>1, <1>5, <1>a, <2>1, <2>2, <2>3, Advances DEF Answered
<1>6. QED
  BY <1>2, <1>3, <1>4, <1>5 DEF XExtents, Reads, Asks

LEMMA XConfigureKeeps ==
  ASSUME MovesConstantsOK, IInv, adapter = "x11", XConfigure, UNCHANGED tableVars
  PROVE  IInv'
<1> DEFINE r == [is |-> "configure", x |-> m.target.x, w |-> m.size]
<1>1. /\ m.step = "configure" /\ TableKept /\ UNCHANGED <<adapter, win, meddled>>
  BY DEF XConfigure, Asks, TableKept, tableVars
<1>2. CASE To("reobserve") /\ marks' = marks \cup {"disturbed", "lost"} /\ UNCHANGED asked
  BY <1>1, <1>2, WillLookAgain DEF Answered
<1>3. CASE ~win.alive /\ End(Gone) /\ UNCHANGED <<marks, asked>>
  BY <1>1, <1>3, FindsGone
<1>4. CASE /\ m' = [m EXCEPT !.step = "observe", !.late = FALSE]
           /\ Request /\ asked' = Append(asked, r)
  <2>1. MovesTypeOK /\ m \in Moves /\ win \in Windows /\ marks \subseteq Marks
        /\ asked \in Seq(Requests) /\ m.size \in Int
    BY Parts DEF IInv, MovesTypeOK
  <2>2. /\ m' \in Moves /\ m'.step = "observe" /\ m'.answer = m.answer /\ ~m'.late
        /\ m'.target = m.target /\ m'.size = m.size /\ m'.got = m.got
    BY <1>4, <2>1 DEF Moves, Steps
  <2>3. r \in Requests
    BY <2>1, Queued
  <2>4. asked' \in Seq(Requests) /\ marks' \in SUBSET Marks /\ marks \subseteq marks'
    BY <1>4, <2>1, <2>3, Queued DEF Request, Marks
  <2>5. NotedFirst' /\ PlacesTwice' /\ GoneIsGone' /\ LookIsTrue'
    BY <1>1, <1>4, <2>2
       DEF IInv, NotedFirst, PlacesTwice, GoneIsGone, LookIsTrue, LooksAt, MoveSame,
           Early, Asked, Request
  <2>6. ASSUME Undisturbed PROVE XProceeds' /\ WProceeds' /\ MacProceeds' /\ SProceeds'
    <3>1. /\ asked = <<>> /\ ~Refused /\ win.mode = "free"
          /\ m.size = m.target.w - 1 /\ m.target.w > 1 /\ "overtaken" \notin marks'
      BY <1>1, <1>4, <2>6 DEF IInv, Proceeds, XProceeds, Request
    <3>2. ~Refused'
      BY <1>1, <3>1 DEF Refused
    <3>3. r = Configuring'
      BY <2>2, <3>1 DEF Configuring
    <3>4. asked' = <<Configuring>>'
      BY <1>4, <2>1, <2>3, <3>1, <3>3, Queued
    <3>5. QED
      BY <1>1, <2>2, <3>1, <3>2, <3>4
         DEF XProceeds, WProceeds, MacProceeds, SProceeds, Answered
  <2>7. QED
    BY <1>1, <2>1, <2>2, <2>4, <2>5, <2>6, Advances DEF Answered, Windows
<1>5. QED
  BY <1>2, <1>3, <1>4 DEF XConfigure, Asks

LEMMA XObserveKeeps ==
  ASSUME MovesConstantsOK, IInv, adapter = "x11", XObserve, UNCHANGED tableVars
  PROVE  IInv'
<1>1. /\ m.step = "observe" /\ TableKept /\ UNCHANGED <<adapter, win, asked, meddled>>
      /\ m.step \in LooksAt
  BY DEF XObserve, Looks, TableKept, tableVars, LooksAt
<1>2. CASE To("reobserve") /\ marks' = marks \cup {"disturbed", "lost"}
  BY <1>1, <1>2, WillLookAgain DEF Answered
<1>3. CASE ~win.alive /\ End(Gone) /\ UNCHANGED marks
  BY <1>1, <1>3, FindsGone
<1>4. CASE MarksRead /\ MoreToRead /\ m' = [m EXCEPT !.got = @ + 1, !.read = Looked]
  BY <1>1, <1>4, ReadsOn
<1>5. CASE /\ MarksRead /\ ~MoreToRead
           /\ \/ Looked = m.target /\ End(Ok)
              \/ Looked # m.target /\ ~m.late /\ To("observe")
              \/ /\ Looked # m.target /\ m.late
                 /\ IF Looked # m.before THEN End(Partial(Looked)) ELSE To("reobserve")
  <2>1. MovesTypeOK /\ m \in Moves /\ win \in Windows /\ marks \subseteq Marks
        /\ asked \in Seq(Requests) /\ Looked \in Spans /\ m.target.w \in Int
    BY Parts, TargetFits, LookedIs DEF IInv, MovesTypeOK
  <2>2. /\ marks' \in {marks, marks \ {"overtaken"}} /\ marks' \in SUBSET Marks
        /\ marks \ {"overtaken"} \subseteq marks'
        /\ "overtaken" \notin marks' => Looked = Frame
    BY <1>5, <2>1, LookedIs DEF MarksRead
  <2>3. ASSUME Undisturbed
        PROVE  /\ ~m.late /\ ~Refused /\ ~TooSmall /\ win.mode = "free"
               /\ m.size = m.target.w - 1 /\ m.target.w > 1
               /\ \/ asked = <<Configuring>> /\ "overtaken" \notin marks
                  \/ asked = <<>> /\ Frame = m.target
    BY <1>1, <2>1, <2>3 DEF IInv, Proceeds, XProceeds, TooSmall
  <2>4. CASE Looked = m.target /\ End(Ok)
    <3>1. Undisturbed => Frame = m.target /\ asked \in {<<>>, <<Configuring>>}
      BY <2>2, <2>3, <2>4
    <3>2. QED
      BY <1>1, <2>2, <2>3, <2>4, <3>1, AnswerValues, Concludes
  <2>5. CASE Looked # m.target /\ ~m.late /\ To("observe")
    <3>1. /\ m' \in Moves /\ m'.step = "observe" /\ m'.answer = m.answer /\ MoveSame
      BY <2>1, <2>5, ToIs DEF Steps
    <3>2. NotedFirst' /\ PlacesTwice' /\ GoneIsGone' /\ LookIsTrue'
      BY <1>1, <2>2, <3>1
         DEF IInv, NotedFirst, PlacesTwice, GoneIsGone, LookIsTrue, MoveSame, Early, Asked
    <3>3. ASSUME Undisturbed PROVE XProceeds' /\ WProceeds' /\ MacProceeds' /\ SProceeds'
      <4>1. ~Refused' /\ Frame' = Frame /\ Configuring' = Configuring
        BY <1>1, <2>3, <3>1, <3>3 DEF Refused, Frame, Configuring, MoveSame
      <4>2. XProceeds'
        BY <1>1, <2>2, <2>3, <3>1, <3>3, <4>1 DEF XProceeds, MoveSame, Answered
      <4>3. QED
        BY <1>1, <4>2 DEF WProceeds, MacProceeds, SProceeds
    <3>4. QED
      BY <1>1, <2>1, <2>2, <3>1, <3>2, <3>3, Advances DEF Answered
  <2>6. CASE m.late /\ Looked # m.before /\ End(Partial(Looked))
    <3>1. /\ Partial(Looked) \in Answers /\ Partial(Looked) # NoAnswer
          /\ Partial(Looked).is = "partial" /\ Partial(Looked).frame = Looked
      BY <2>1, AnswerValues
    <3>2. ~Undisturbed
      BY <2>3, <2>6
    <3>3. QED
      BY <1>1, <2>2, <2>6, <3>1, <3>2, Concludes
  <2>7. CASE m.late /\ To("reobserve")
    <3>1. /\ m' \in Moves /\ m'.step = "reobserve" /\ m'.answer = m.answer /\ MoveSame
      BY <2>1, <2>7, ToIs DEF Steps
    <3>2. NotedFirst' /\ PlacesTwice' /\ GoneIsGone' /\ LookIsTrue'
      BY <1>1, <2>2, <3>1
         DEF IInv, NotedFirst, PlacesTwice, GoneIsGone, LookIsTrue, MoveSame, Early, Asked
    <3>3. ~Undisturbed
      BY <2>3, <2>7
    <3>4. QED
      BY <1>1, <2>1, <2>2, <3>1, <3>2, <3>3, Advances DEF Answered
  <2>8. QED
    BY <1>5, <2>4, <2>5, <2>6, <2>7
<1>6. QED
  BY <1>2, <1>3, <1>4, <1>5 DEF XObserve, Looks, Replied, MarksRead, MoreToRead

LEMMA XDeadlineKeeps ==
  ASSUME IInv, adapter = "x11", XDeadline, UNCHANGED tableVars
  PROVE  IInv'
<1>1. /\ m.step \in {"unheld", "observe"} /\ TableKept
      /\ UNCHANGED <<adapter, win, asked, meddled>> /\ m' = [m EXCEPT !.late = TRUE]
      /\ marks' = marks \cup {"disturbed"}
  BY DEF XDeadline, Disturb, TableKept, tableVars
<1>2. MovesTypeOK /\ m \in Moves /\ win \in Windows /\ marks \subseteq Marks
      /\ asked \in Seq(Requests)
  BY Parts DEF IInv, MovesTypeOK
<1>3. m' \in Moves /\ m'.step = m.step /\ m'.answer = m.answer
      /\ m'.got = m.got /\ m'.read = m.read
  BY <1>1, <1>2 DEF Moves
<1>4. marks' \in SUBSET Marks /\ marks \subseteq marks' /\ ~Undisturbed'
  BY <1>1, <1>2 DEF Marks, Undisturbed
<1>5. NotedFirst' /\ PlacesTwice' /\ GoneIsGone'
  BY <1>1, <1>3, <1>4 DEF IInv, NotedFirst, PlacesTwice, GoneIsGone, Early, Asked
<1>6. LookIsTrue'
  <2>1. Extents' = Extents
    BY <1>1 DEF Extents
  <2>2. QED
    BY <1>1, <1>3, <1>4, <2>1 DEF IInv, LookIsTrue
<1>7. QED
  BY <1>1, <1>2, <1>3, <1>4, <1>5, <1>6, Advances DEF Answered

\* A window moved, and perhaps set free.
LEMMA AtIs ==
  ASSUME win \in Windows, NEW f \in Spans
  PROVE  /\ At(f) \in Windows /\ At(f).alive = win.alive /\ At(f).listed = win.listed
         /\ At(f).fixed = win.fixed /\ At(f).mode = win.mode
         /\ At(f).x = f.x /\ At(f).w = f.w
<1>1. f.x \in Int /\ f.w \in Int
  BY DEF Spans
<1>2. At(f) = [win EXCEPT !.x = f.x, !.w = f.w]
  BY DEF At
<1>3. QED
  BY <1>1, <1>2 DEF Windows

LEMMA Freed ==
  ASSUME win \in Windows, "free" \in Modes(adapter), NEW f \in Spans,
         NEW v, v = [At(f) EXCEPT !.mode = "free"]
  PROVE  /\ v \in Windows /\ v.alive = win.alive /\ v.listed = win.listed
         /\ v.fixed = win.fixed /\ v.mode = "free" /\ v.x = f.x /\ v.w = f.w
BY AtIs DEF Windows

LEMMA FreeIsAMode ==
  /\ \A a : "free" \in Modes(a)
  /\ "free" \notin Held
  /\ Normal \in Spans /\ Normal.x = 0 /\ Normal.w = 2
BY DEF Modes, Held, Normal, Spans

\* What the window manager does with a request.
LEMMA ServesIs ==
  ASSUME MovesTypeOK, NEW r \in Requests
  PROVE  /\ Serves(r) \in Windows
         /\ Serves(r).alive = win.alive /\ Serves(r).listed = win.listed
         /\ Serves(r).fixed = win.fixed
         /\ Serves(r).mode # win.mode => win.mode \in Held /\ Serves(r).mode = "free"
         /\ r.is = "restore" /\ win.alive /\ win.mode \in Held => Serves(r).mode = "free"
         /\ r.is = "configure" /\ win.alive /\ win.mode = "free" =>
              Serves(r).x = r.x /\ Serves(r).w = r.w + 1
<1>1. win \in Windows /\ r.x \in Int /\ r.w \in Int
  BY Parts DEF Requests
<1>2. "free" \in Modes(adapter) /\ "free" \notin Held /\ Normal \in Spans
  BY FreeIsAMode
<1>3. CASE win.alive /\ r.is = "restore" /\ win.mode \in Held
  <2> DEFINE w == [At(Normal) EXCEPT !.mode = "free"]
  <2>1. /\ w \in Windows /\ w.alive = win.alive /\ w.listed = win.listed
        /\ w.fixed = win.fixed /\ w.mode = "free"
    BY <1>1, <1>2, Freed
  <2>2. Serves(r) = w
    BY <1>3 DEF Serves
  <2> HIDE DEF w
  <2>3. QED
    BY <1>2, <1>3, <2>1, <2>2
<1>4. CASE win.alive /\ r.is = "configure" /\ win.mode = "free"
  <2> DEFINE f == [x |-> r.x, w |-> r.w + 1]
  <2>1. f \in Spans /\ f.x = r.x /\ f.w = r.w + 1
    BY <1>1 DEF Spans
  <2>2. Serves(r) = At(f)
    BY <1>4 DEF Serves, Extents, Held
  <2> HIDE DEF f
  <2>3. QED
    BY <1>1, <1>2, <1>4, <2>1, <2>2, AtIs
<1>5. CASE /\ ~(win.alive /\ r.is = "restore" /\ win.mode \in Held)
           /\ ~(win.alive /\ r.is = "configure" /\ win.mode = "free")
  <2>1. Serves(r) = win
    BY <1>5 DEF Serves
  <2>2. QED
    BY <1>1, <1>5, <2>1
<1>6. QED
  BY <1>3, <1>4, <1>5

LEMMA XServeKeeps ==
  ASSUME MovesConstantsOK, IInv, adapter = "x11", XServe, UNCHANGED tableVars
  PROVE  IInv'
<1>1. /\ asked # <<>> /\ asked' = Tail(asked) /\ UNCHANGED <<adapter, m, meddled>>
      /\ TableKept
  BY DEF XServe, TableKept, tableVars
<1>2. MovesTypeOK /\ m \in Moves /\ win \in Windows /\ marks \subseteq Marks
      /\ asked \in Seq(Requests) /\ Frame \in Spans /\ m.target \in Spans
      /\ m.target.x \in Int /\ m.target.w \in Int
      /\ m.target = [x |-> m.target.x, w |-> m.target.w]
  BY Parts, TargetFits DEF IInv, MovesTypeOK
<1>3. Head(asked) \in Requests /\ asked' \in Seq(Requests)
  BY <1>1, <1>2
<1>4. PICK v \in Windows :
        /\ win' = v /\ v.alive = win.alive /\ v.listed = win.listed /\ v.fixed = win.fixed
        /\ \/ /\ v = Serves(Head(asked))
              /\ marks' = marks \cup (IF Watched /\ win' # win THEN {"overtaken"} ELSE {})
           \/ marks' = marks \cup {"disturbed"} \cup (IF Watched THEN {"overtaken"} ELSE {})
  <2>1. CASE /\ win' = Serves(Head(asked))
             /\ marks' = marks \cup (IF Watched /\ win' # win THEN {"overtaken"} ELSE {})
    BY <1>2, <1>3, <2>1, ServesIs
  <2>2. CASE /\ \E f \in Places("x11") \cup {Frame} : win' = At(f)
             /\ marks' = marks \cup {"disturbed"} \cup (IF Watched THEN {"overtaken"} ELSE {})
    <3>1. PICK f \in Places("x11") \cup {Frame} : win' = At(f)
      BY <2>2
    <3>2. f \in Spans
      BY <1>2 DEF Places, Frames, Spans, MovesConstantsOK, DeskConstantsOK
    <3>3. QED
      BY <1>2, <2>2, <3>1, <3>2, AtIs
  <2>3. QED
    BY <2>1, <2>2 DEF XServe
<1>5. marks' \subseteq Marks /\ marks \subseteq marks'
  BY <1>2, <1>4 DEF Marks
<1>6. MovesTypeOK'
  BY <1>1, <1>2, <1>3, <1>4, <1>5, TypeKept DEF MovesTypeOK
<1>7. Asked /\ Asked' /\ m.step \notin Early /\ m.step # "idle"
  BY <1>1, <1>5 DEF IInv, NotedFirst, Asked, Early
<1>8. AnswersAreTrue'
  <2>1. CASE Answered /\ win' # win
    BY <1>4, <2>1 DEF AnswersAreTrue, Watched
  <2>2. CASE ~Answered
    BY <1>1, <2>2 DEF AnswersAreTrue, Answered
  <2>3. CASE win' = win
    <3>1. /\ AnswersAreTrue /\ Frame' = Frame
          /\ marks' \cap {"blind", "unlooked", "overtaken"} = {} =>
               marks \cap {"blind", "unlooked", "overtaken"} = {}
      BY <1>5, <2>3 DEF IInv, Frame
    <3>2. QED
      BY <1>1, <1>7, <2>3, <3>1 DEF AnswersAreTrue
  <2>4. QED
    BY <2>1, <2>2, <2>3
<1>9. Companion' /\ FocusIsFresh' /\ KProceeds'
  BY <1>1, NotKde
<1>10. IdentitiesAreStable' /\ Retained'
  BY <1>1, <1>4, <1>7, IdentitiesKept DEF IInv
<1>11. NotedFirst' /\ PlacesTwice' /\ GoneIsGone' /\ LookIsTrue'
  <2>1. NotedFirst' /\ PlacesTwice' /\ GoneIsGone'
    BY <1>1, <1>4, <1>7 DEF IInv, NotedFirst, PlacesTwice, GoneIsGone
  <2>2. CASE win' = win
    <3>1. Extents' = Extents
      BY <2>2 DEF Extents
    <3>2. QED
      BY <1>1, <1>5, <2>1, <2>2, <3>1 DEF IInv, LookIsTrue
  <2>3. CASE m.got = 0
    BY <1>1, <2>1, <2>3 DEF LookIsTrue
  <2>4. CASE win' # win /\ m.got # 0
    <3>1. Watched
      BY <1>2, <2>4, Parts DEF Watched
    <3>2. "overtaken" \in marks'
      BY <1>4, <2>4, <3>1
    <3>3. QED
      BY <1>1, <2>1, <3>2 DEF IInv, LookIsTrue
  <2>5. QED
    BY <2>2, <2>3, <2>4
<1>12. ASSUME Undisturbed'
       PROVE  /\ Undisturbed /\ win.alive /\ win.listed /\ v = Serves(Head(asked))
              /\ v.mode # win.mode => win.mode \in Held /\ v.mode = "free"
  BY <1>2, <1>3, <1>4, <1>5, <1>12, ServesIs DEF Undisturbed, IInv, Proceeds, StaysOpen
<1>13. StaysOpen' /\ WProceeds' /\ MacProceeds' /\ SProceeds'
  BY <1>1, <1>4, <1>12 DEF StaysOpen, WProceeds, MacProceeds, SProceeds
<1>14. ASSUME Undisturbed' PROVE Refused' <=> Refused
  <2>1. win'.fixed = win.fixed /\ (win'.mode = "fullscreen" <=> win.mode = "fullscreen")
    BY <1>4, <1>12, <1>14 DEF Held
  <2>2. QED
    BY <1>1, <2>1 DEF Refused
<1>15. XProceeds'
  <2> SUFFICES ASSUME Undisturbed' PROVE XProceeds'
    BY DEF XProceeds
  <2>1. Undisturbed /\ XProceeds /\ (Refused' <=> Refused) /\ (TooSmall' <=> TooSmall)
        /\ m' = m /\ Configuring' = Configuring /\ Restoring' = Restoring
    BY <1>1, <1>12, <1>14 DEF IInv, Proceeds, TooSmall, Configuring, Restoring
  <2>2. ~m'.late /\ m'.step \notin Early \cup {"restore", "extents", "configure"}
    BY <1>1, <1>7, <2>1 DEF XProceeds, Early
  <2>3. m'.step \in {"unheld", "observe", "reobserve"} => ~Refused'
    BY <2>1 DEF XProceeds
  <2>4. ASSUME m'.step = "unheld" PROVE asked' = <<>> /\ win'.mode = "free"
    <3>1. asked = <<Restoring>> /\ win.mode \in Held
      BY <1>1, <2>1, <2>4 DEF XProceeds
    <3>2. Head(asked) = Restoring /\ asked' = <<>>
      BY <1>1, <3>1
    <3>3. win.mode \in Held => v.mode = "free"
      BY <1>2, <1>3, <1>12, <3>2, ServesIs DEF Restoring
    <3>4. QED
      BY <1>4, <3>1, <3>2, <3>3
  <2>5. ASSUME m'.step = "observe"
        PROVE  /\ asked' = <<>> /\ win'.mode = "free" /\ Frame' = m.target
               /\ m.size = m.target.w - 1 /\ m.target.w > 1
    <3>1. /\ asked = <<Configuring>> /\ win.mode = "free"
          /\ m.size = m.target.w - 1 /\ m.target.w > 1
      BY <1>1, <2>1, <2>5 DEF XProceeds
    <3>2. Head(asked) = Configuring /\ asked' = <<>>
      BY <1>1, <3>1
    <3>3. v.x = m.target.x /\ v.w = (m.target.w - 1) + 1 /\ v.mode = "free"
      BY <1>2, <1>3, <1>12, <3>1, <3>2, ServesIs DEF Configuring
    <3>4. v.w = m.target.w
      BY <1>2, <3>3
    <3>5. QED
      BY <1>2, <1>4, <3>1, <3>2, <3>3, <3>4 DEF Frame
  <2>6. m'.step = "reobserve" => TooSmall'
    BY <2>1 DEF XProceeds
  <2>7. Answered' /\ m'.answer = Ok => asked' = <<>>
    <3>1. ASSUME Answered, m.answer = Ok PROVE asked' = <<>>
      <4>1. asked = <<Configuring>>
        BY <1>1, <2>1, <3>1 DEF XProceeds
      <4>2. QED
        BY <1>1, <4>1
    <3>2. QED
      BY <2>1, <3>1 DEF Answered
  <2>8. m'.step \notin {"observe", "check", "reobserve", "answered"} => "overtaken" \notin marks'
    <3>1. ASSUME m.step \notin {"observe", "check", "reobserve", "answered"}
          PROVE  "overtaken" \notin marks'
      <4>1. "overtaken" \notin marks
        BY <2>1, <3>1 DEF XProceeds
      <4>2. m.got = 0
        BY <1>7, <3>1 DEF IInv, LookIsTrue, LooksAt, Early
      <4>3. ~Watched
        BY <3>1, <4>2 DEF Watched, Answered
      <4>4. marks' \in {marks, marks \cup {"disturbed"}}
        BY <1>4, <4>3
      <4>5. QED
        BY <4>1, <4>4
    <3>2. QED
      BY <2>1, <3>1
  <2>9. QED
    BY <2>1, <2>2, <2>3, <2>4, <2>5, <2>6, <2>7, <2>8 DEF XProceeds, Early, Answered
<1>16. UndisturbedMovesArrive'
  <2> SUFFICES ASSUME Answered, Undisturbed' PROVE UndisturbedMovesArrive'
    BY <1>1 DEF UndisturbedMovesArrive, Undisturbed, Answered
  <2>1. ~Refused /\ (TooSmall' <=> TooSmall) /\ ~Refused'
    BY <1>1, <1>7, <1>12, <1>14
       DEF IInv, UndisturbedMovesArrive, Undisturbed, TooSmall, Answered
  <2>2. \/ TooSmall /\ m.answer.is \in {"failed", "partial"}
        \/ ~TooSmall /\ m.answer = Ok /\ win.mode = "free" /\ Frame = m.target
    BY <1>12, <2>1 DEF IInv, UndisturbedMovesArrive, Undisturbed, Answered
  <2>3. win.mode = "free" => win'.mode = "free"
    BY <1>4, <1>12
  <2>4. ASSUME m.answer = Ok, win.mode = "free" PROVE Frame' = m.target
    <3>1. asked = <<Configuring>>
      BY <1>1, <1>12, <2>4 DEF IInv, Proceeds, XProceeds
    <3>2. Head(asked) = Configuring
      BY <3>1
    <3>3. v.x = m.target.x /\ v.w = (m.target.w - 1) + 1
      BY <1>2, <1>3, <1>12, <2>4, <3>2, ServesIs DEF Configuring
    <3>4. v.w = m.target.w
      BY <1>2, <3>3
    <3>5. QED
      BY <1>2, <1>4, <3>3, <3>4 DEF Frame
  <2>5. QED
    BY <1>1, <2>1, <2>2, <2>3, <2>4 DEF UndisturbedMovesArrive
<1>17. QED
  BY <1>6, <1>8, <1>9, <1>10, <1>11, <1>13, <1>15, <1>16 DEF IInv, Proceeds

LEMMA X11Keeps ==
  ASSUME MovesConstantsOK, IInv, adapter = "x11", X11Step, UNCHANGED tableVars
  PROVE  IInv'
<1>1. TableKept
  BY DEF TableKept, tableVars
<1>2. CASE Reobserve
  BY <1>1, <1>2, LooksAgain
<1>3. CASE XList \/ XStates \/ XHints \/ XMeasure \/ XBefore \/ XRestore \/ XUnheld
           \/ XExtents \/ XConfigure \/ XObserve
  BY <1>3, XListKeeps, XStatesKeeps, XHintsKeeps, XMeasureKeeps, XBeforeKeeps,
     XRestoreKeeps, XUnheldKeeps, XExtentsKeeps, XConfigureKeeps, XObserveKeeps
<1>4. QED
  BY <1>2, <1>3 DEF X11Step

-----------------------------------------------------------------------------
(* Windows.                                                                *)

(***************************************************************************)
(* Placing by the borders of a frame: the middle of the window ends where  *)
(* the target's is, and a second placing, by the borders there, ends in    *)
(* the target.                                                             *)
(***************************************************************************)
LEMMA Compensated ==
  ASSUME MovesConstantsOK, NEW t \in Spans, NEW f \in Spans, NEW v \in Spans
  PROVE  LET i == Inner(CompensateInvisibleBorders(t, Outer(f), v))
         IN  /\ i \in Spans
             /\ v = f => 2 * i.x + i.w = 2 * t.x + t.w
             /\ v = f /\ 2 * f.x + f.w = 2 * t.x + t.w => i.x = t.x /\ i.w = t.w
<1> DEFINE o == CompensateInvisibleBorders(t, Outer(f), v)
           i == Inner(o)
<1>1. /\ t.x \in Int /\ t.w \in Int /\ f.x \in Int /\ f.w \in Int
      /\ v.x \in Int /\ v.w \in Int /\ Room \in Int
  BY DEF Spans, MovesConstantsOK, DeskConstantsOK
<1>2. PICK b \in {0, 1} : b = Border(f) /\ (b = 1 <=> 2 * f.x + f.w >= Room)
  BY <1>1 DEF Border
<1>3. Outer(f).x = f.x - b /\ Outer(f).w = f.w + 2 * b
  BY <1>2 DEF Outer
<1>4. o.x = t.x + Outer(f).x - v.x /\ o.w = t.w + Outer(f).w - v.w
  BY DEF CompensateInvisibleBorders
<1>5. o.x \in Int /\ o.w \in Int
  BY <1>1, <1>3, <1>4
<1> HIDE DEF o
<1>6. PICK c \in {0, 1} : c = Border(o) /\ (c = 1 <=> 2 * o.x + o.w >= Room)
  BY <1>1, <1>5 DEF Border
<1>7. i = [x |-> o.x + c, w |-> o.w - 2 * c]
  BY <1>6 DEF Inner
<1>8. i \in Spans /\ i.x = o.x + c /\ i.w = o.w - 2 * c
  BY <1>5, <1>6, <1>7 DEF Spans
<1> HIDE DEF i
<1>9. ASSUME v = f
      PROVE  /\ o.x = t.x - b /\ o.w = t.w + 2 * b /\ 2 * o.x + o.w = 2 * t.x + t.w
             /\ 2 * i.x + i.w = 2 * t.x + t.w
  <2>1. o.x = t.x - b /\ o.w = t.w + 2 * b
    BY <1>1, <1>3, <1>4, <1>9
  <2>2. 2 * o.x + o.w = 2 * t.x + t.w
    BY <1>1, <2>1
  <2>3. 2 * i.x + i.w = 2 * o.x + o.w
    BY <1>5, <1>8
  <2>4. QED
    BY <2>1, <2>2, <2>3
<1>10. ASSUME v = f, 2 * f.x + f.w = 2 * t.x + t.w
       PROVE  i.x = t.x /\ i.w = t.w
  <2>1. /\ o.x = t.x - b /\ o.w = t.w + 2 * b
        /\ 2 * o.x + o.w = 2 * f.x + f.w
    BY <1>9, <1>10
  <2>2. b = c
    BY <1>2, <1>6, <2>1
  <2>3. QED
    BY <1>1, <1>8, <2>1, <2>2
<1>11. QED
  BY <1>8, <1>9, <1>10 DEF i, o

LEMMA WFindKeeps ==
  ASSUME IInv, adapter = "windows", WFind, UNCHANGED tableVars
  PROVE  IInv'
<1>1. /\ m.step = "list" /\ TableKept /\ UNCHANGED <<adapter, win, asked, meddled>>
  BY DEF WFind, TableKept, tableVars
<1>2. CASE End(Failed) /\ Disturb
  BY <1>1, <1>2, FailsEarly DEF Early, Disturb, Undisturbed
<1>3. CASE ~win.alive /\ End(Gone) /\ UNCHANGED marks
  BY <1>1, <1>3, FindsGone
<1>4. CASE To("before") /\ UNCHANGED marks
  <2>1. MovesTypeOK /\ m \in Moves /\ win \in Windows /\ marks \subseteq Marks
        /\ asked \in Seq(Requests)
    BY Parts DEF IInv, MovesTypeOK
  <2>2. /\ m' \in Moves /\ m'.step = "before" /\ m'.answer = m.answer /\ MoveSame
    BY <1>4, <2>1, ToIs DEF Steps
  <2>3. NotedFirst' /\ PlacesTwice' /\ GoneIsGone' /\ LookIsTrue'
    BY <1>1, <1>4, <2>2
       DEF IInv, NotedFirst, PlacesTwice, GoneIsGone, LookIsTrue, LooksAt, MoveSame,
           Early, Asked
  <2>4. Undisturbed => XProceeds' /\ WProceeds' /\ MacProceeds' /\ SProceeds'
    BY <1>1, <2>2 DEF XProceeds, WProceeds, MacProceeds, SProceeds
  <2>5. QED
    BY <1>1, <1>4, <2>1, <2>2, <2>3, <2>4, Advances DEF Answered
<1>5. QED
  BY <1>2, <1>3, <1>4 DEF WFind

\* The first look on Windows and macOS.
LEMMA NativeBeforeKeeps ==
  ASSUME IInv, adapter \in {"windows", "macos"}, NativeBefore,
         (m'.answer = Gone => ~win.alive) => TableKept
  PROVE  IInv'
<1>1. /\ m.step = "before" /\ UNCHANGED <<adapter, win, asked, meddled>>
      /\ m.step \in LooksAt
  BY DEF NativeBefore, Looks, LooksAt
<1>2. MovesTypeOK /\ m \in Moves /\ win \in Windows /\ marks \subseteq Marks
      /\ asked \in Seq(Requests) /\ m.answer = NoAnswer /\ Looked \in Spans
  BY <1>1, Parts, LookedIs DEF IInv, MovesTypeOK
<1>3. CASE End(Failed) /\ marks' = marks \cup {"disturbed", "lost"}
  <2>1. TableKept
    BY <1>2, <1>3, EndIs, AnswerValues
  <2>2. QED
    BY <1>1, <1>3, <2>1, FailsEarly DEF Early, Undisturbed
<1>4. CASE ~win.alive /\ End(Gone) /\ UNCHANGED marks
  BY <1>1, <1>4, FindsGone
<1>5. CASE MarksRead /\ MoreToRead /\ m' = [m EXCEPT !.got = @ + 1, !.read = Looked]
  <2>1. m'.answer = m.answer
    BY <1>2, <1>5 DEF Moves
  <2>2. TableKept
    BY <1>2, <2>1, AnswerValues
  <2>3. QED
    BY <1>1, <1>5, <2>2, ReadsOn
<1>6. CASE MarksRead /\ m' = [Afresh EXCEPT !.step = "states", !.before = Looked]
  <2>1. /\ m' \in Moves /\ m'.step = "states" /\ m'.answer = m.answer
        /\ m'.pass = m.pass /\ m'.got = 0
    BY <1>2, <1>6, BeforeIs DEF Steps
  <2>2. TableKept
    BY <1>2, <2>1, AnswerValues
  <2>3. /\ marks' \in SUBSET Marks /\ marks \ {"overtaken"} \subseteq marks'
        /\ marks' \subseteq marks
    BY <1>2, <1>6 DEF MarksRead
  <2>4. NotedFirst' /\ PlacesTwice' /\ GoneIsGone' /\ LookIsTrue'
    BY <1>1, <2>1, <2>3
       DEF IInv, NotedFirst, PlacesTwice, GoneIsGone, LookIsTrue, Early, Asked
  <2>5. Undisturbed => XProceeds' /\ WProceeds' /\ MacProceeds' /\ SProceeds'
    BY <1>1, <2>1, <2>3 DEF IInv, Proceeds, XProceeds, WProceeds, MacProceeds, SProceeds
  <2>6. QED
    BY <1>1, <1>2, <2>1, <2>2, <2>3, <2>4, <2>5, Advances DEF Answered
<1>7. QED
  BY <1>3, <1>4, <1>5, <1>6 DEF NativeBefore, Looks, Replied, MarksRead, MoreToRead

LEMMA WStatesKeeps ==
  ASSUME IInv, adapter = "windows", WStates, UNCHANGED tableVars
  PROVE  IInv'
<1>1. /\ m.step = "states" /\ TableKept /\ UNCHANGED <<adapter, win, asked, meddled>>
  BY DEF WStates, Reads, Asks, TableKept, tableVars
<1>2. CASE End(Failed) /\ marks' = marks \cup {"disturbed", "lost"}
  BY <1>1, <1>2, FailsEarly DEF Early, Undisturbed
<1>3. CASE ~win.alive /\ End(Gone) /\ UNCHANGED marks
  BY <1>1, <1>3, FindsGone
<1>4. CASE (win.mode = "fullscreen" \/ win.fixed) /\ End(Failed) /\ UNCHANGED marks
  BY <1>1, <1>4, FailsEarly DEF Early, Refused
<1>5. CASE /\ win.mode # "fullscreen" /\ ~win.fixed /\ UNCHANGED marks
           /\ To(IF win.mode \in Held THEN "restore" ELSE "configure")
  <2>1. MovesTypeOK /\ m \in Moves /\ win \in Windows /\ marks \subseteq Marks
        /\ asked \in Seq(Requests) /\ win.mode \in Modes("windows")
    BY Parts DEF IInv, MovesTypeOK
  <2>2. /\ m' \in Moves /\ m'.step = (IF win.mode \in Held THEN "restore" ELSE "configure")
        /\ m'.answer = m.answer /\ MoveSame
    BY <1>5, <2>1, ToIs DEF Steps
  <2>3. m.pass = 0 /\ ~Refused'
    BY <1>1, <1>5 DEF IInv, PlacesTwice, Refused
  <2>4. NotedFirst' /\ PlacesTwice' /\ GoneIsGone' /\ LookIsTrue'
    BY <1>1, <1>5, <2>2, <2>3
       DEF IInv, NotedFirst, PlacesTwice, GoneIsGone, LookIsTrue, LooksAt, MoveSame,
           Early, Asked
  <2>5. win.mode \in Held \/ win.mode = "free"
    BY <1>5, <2>1 DEF Modes, Held
  <2>6. Undisturbed => XProceeds' /\ WProceeds' /\ MacProceeds' /\ SProceeds'
    BY <1>1, <2>2, <2>3, <2>5
       DEF XProceeds, WProceeds, MacProceeds, SProceeds, MoveSame
  <2>7. QED
    BY <1>1, <1>5, <2>1, <2>2, <2>4, <2>6, Advances DEF Answered
<1>6. QED
  BY <1>2, <1>3, <1>4, <1>5 DEF WStates, Reads, Asks

LEMMA WRestoreKeeps ==
  ASSUME IInv, adapter = "windows", WRestore, UNCHANGED tableVars
  PROVE  IInv'
<1>1. /\ m.step = "restore" /\ TableKept /\ UNCHANGED <<adapter, asked, meddled>>
      /\ To("configure")
  BY DEF WRestore, TableKept, tableVars
<1>2. MovesTypeOK /\ m \in Moves /\ win \in Windows /\ marks \subseteq Marks
      /\ asked \in Seq(Requests)
  BY Parts DEF IInv, MovesTypeOK
<1>3. m' \in Moves /\ m'.step = "configure" /\ m'.answer = m.answer /\ MoveSame
  BY <1>1, <1>2, ToIs DEF Steps
<1>4. /\ win' \in Windows /\ win'.alive = win.alive /\ win'.listed = win.listed
      /\ win'.fixed = win.fixed
      /\ Undisturbed' /\ win.alive /\ win.mode \in Held => win'.mode = "free"
  <2>1. CASE win.alive /\ win.mode \in Held /\ win' = [At(Normal) EXCEPT !.mode = "free"]
    BY <1>2, <2>1, Freed, FreeIsAMode
  <2>2. CASE win' = win /\ (Disturb \/ ~(win.alive /\ win.mode \in Held))
    BY <1>2, <2>2 DEF Disturb, Undisturbed
  <2>3. QED
    BY <2>1, <2>2 DEF WRestore
<1>5. marks' \in SUBSET Marks /\ marks \subseteq marks'
  BY <1>2 DEF WRestore, Marks, Request, Disturb
<1>6. NotedFirst' /\ PlacesTwice' /\ GoneIsGone' /\ LookIsTrue'
  BY <1>1, <1>3
     DEF IInv, NotedFirst, PlacesTwice, GoneIsGone, LookIsTrue, LooksAt, MoveSame,
         Early, Asked
<1>7. ASSUME Undisturbed, Undisturbed'
      PROVE  XProceeds' /\ WProceeds' /\ MacProceeds' /\ SProceeds'
  <2>1. ~Refused /\ win.mode \in Held /\ win.alive /\ m.pass = 0
    BY <1>1, <1>7 DEF IInv, Proceeds, StaysOpen, WProceeds, PlacesTwice
  <2>2. win'.mode = "free" /\ ~Refused'
    BY <1>1, <1>4, <1>7, <2>1 DEF Refused
  <2>3. QED
    BY <1>1, <1>3, <2>1, <2>2 DEF XProceeds, WProceeds, MacProceeds, SProceeds, MoveSame
<1>8. QED
  BY <1>1, <1>2, <1>3, <1>4, <1>5, <1>6, <1>7, Advances DEF Answered

LEMMA WPlaceKeeps ==
  ASSUME MovesConstantsOK, IInv, adapter = "windows", WPlace, UNCHANGED tableVars
  PROVE  IInv'
<1> DEFINE visible == IF m.pass = 0 THEN Frame ELSE m.seen
           i == Inner(CompensateInvisibleBorders(m.target, Outer(Frame), visible))
<1>1. /\ m.step = "configure" /\ TableKept /\ UNCHANGED <<adapter, asked, meddled>>
  BY DEF WPlace, Asks, TableKept, tableVars
<1>2. MovesTypeOK /\ m \in Moves /\ win \in Windows /\ marks \subseteq Marks
      /\ asked \in Seq(Requests) /\ Frame \in Spans /\ m.target \in Spans /\ visible \in Spans
      /\ Frame.x = win.x /\ Frame.w = win.w
      /\ m.target = [x |-> m.target.x, w |-> m.target.w]
      /\ m.pass \in {0, 1}
  BY <1>1, Parts, TargetFits DEF IInv, MovesTypeOK, PlacesTwice
<1>3. CASE To("reobserve") /\ marks' = marks \cup {"disturbed", "lost"} /\ UNCHANGED win
  BY <1>1, <1>3, WillLookAgain DEF Answered
<1>4. CASE ~win.alive /\ End(Gone) /\ UNCHANGED <<marks, win>>
  BY <1>1, <1>4, FindsGone
<1>5. CASE /\ m' = [m EXCEPT !.step = "check", !.pass = @ + 1]
           /\ \/ win' = (IF win.mode \in Held THEN win ELSE At(i)) /\ Request
              \/ /\ \E f \in Frames : win' = At(f)
                 /\ marks' = marks \cup {"requested", "disturbed"}
  <2>1. /\ i \in Spans
        /\ visible = Frame => 2 * i.x + i.w = 2 * m.target.x + m.target.w
        /\ visible = Frame /\ 2 * win.x + win.w = 2 * m.target.x + m.target.w =>
             i.x = m.target.x /\ i.w = m.target.w
    BY <1>2, Compensated
  <2> HIDE DEF i, visible
  <2>2. /\ m' \in Moves /\ m'.step = "check" /\ m'.answer = m.answer /\ m'.pass = m.pass + 1
        /\ m'.target = m.target /\ m'.got \in {0, m.got}
    <3> DEFINE p == m.pass + 1
    <3>1. p \in 0..2 /\ m' = [m EXCEPT !.step = "check", !.pass = p]
      BY <1>2, <1>5
    <3> HIDE DEF p
    <3>2. QED
      BY <1>2, <3>1, PassIs DEF Steps, p
  <2>3. marks' \in SUBSET Marks /\ marks \subseteq marks' /\ (Undisturbed' => Request)
    BY <1>2, <1>5 DEF Marks, Request, Undisturbed
  <2>4. /\ win' \in Windows /\ win'.alive = win.alive /\ win'.listed = win.listed
        /\ win'.fixed = win.fixed /\ win'.mode = win.mode
    <3>1. Frames \subseteq Spans
      BY DEF Frames, Spans, MovesConstantsOK, DeskConstantsOK
    <3>2. PICK f \in Spans : win' = win \/ win' = At(f)
      BY <1>2, <1>5, <2>1, <3>1
    <3>3. QED
      BY <1>2, <3>2, AtIs
  <2>5. NotedFirst' /\ PlacesTwice' /\ GoneIsGone' /\ LookIsTrue'
    BY <1>1, <1>2, <2>2
       DEF IInv, NotedFirst, PlacesTwice, GoneIsGone, LookIsTrue, LooksAt, MoveSame,
           Early, Asked
  <2>6. ASSUME Undisturbed, Undisturbed'
        PROVE  XProceeds' /\ WProceeds' /\ MacProceeds' /\ SProceeds'
    <3>1. ~Refused /\ win.mode = "free"
          /\ (m.pass = 1 => m.seen = Frame
                            /\ 2 * win.x + win.w = 2 * m.target.x + m.target.w)
      BY <1>1, <2>6 DEF IInv, Proceeds, WProceeds
    <3>2. win' = At(i) \/ \E f \in Frames : win' = At(f) /\ "disturbed" \in marks'
      BY <1>5, <3>1, FreeIsAMode
    <3>3. win' = At(i)
      BY <2>6, <3>2 DEF Undisturbed
    <3>4. win'.x = i.x /\ win'.w = i.w
      BY <1>2, <2>1, <3>3, AtIs
    <3>5. visible = Frame
      BY <1>2, <3>1 DEF visible
    <3>6. 2 * win'.x + win'.w = 2 * m'.target.x + m'.target.w
      BY <2>1, <2>2, <3>4, <3>5
    <3>7. m'.pass = 2 => Frame' = m'.target
      BY <1>2, <2>1, <2>2, <3>1, <3>4, <3>5 DEF Frame
    <3>8. ~Refused'
      BY <1>1, <2>4, <3>1 DEF Refused
    <3>9. WProceeds'
      BY <2>2, <2>4, <3>1, <3>6, <3>7, <3>8 DEF WProceeds
    <3>10. QED
      BY <1>1, <3>9 DEF XProceeds, MacProceeds, SProceeds
  <2>7. QED
    BY <1>1, <1>2, <2>2, <2>3, <2>4, <2>5, <2>6, Advances DEF Answered
<1>6. QED
  BY <1>3, <1>4, <1>5 DEF WPlace, Asks

LEMMA WCheckKeeps ==
  ASSUME MovesConstantsOK, IInv, adapter = "windows", WCheck, UNCHANGED tableVars
  PROVE  IInv'
<1>1. /\ m.step = "check" /\ TableKept /\ UNCHANGED <<adapter, win, asked, meddled>>
      /\ m.step \in LooksAt
  BY DEF WCheck, Looks, TableKept, tableVars, LooksAt
<1>2. MovesTypeOK /\ m \in Moves /\ win \in Windows /\ marks \subseteq Marks
      /\ asked \in Seq(Requests) /\ Frame \in Spans /\ m.pass \in {1, 2}
  BY <1>1, Parts DEF IInv, MovesTypeOK, PlacesTwice
<1>3. Looked = Frame
  BY DEF Looked
<1>4. CASE To("reobserve") /\ marks' = marks \cup {"disturbed", "lost"}
  BY <1>1, <1>4, WillLookAgain DEF Answered
<1>5. CASE ~win.alive /\ End(Gone) /\ UNCHANGED marks
  BY <1>1, <1>5, FindsGone
<1>6. CASE MarksRead /\ MoreToRead /\ m' = [m EXCEPT !.got = @ + 1, !.read = Looked]
  BY <1>1, <1>6, ReadsOn
<1>7. CASE /\ MarksRead
           /\ \/ Frame = m.target /\ End(Ok)
              \/ /\ Frame # m.target /\ m.pass = 1
                 /\ m' = [Afresh EXCEPT !.step = "configure", !.seen = Frame]
              \/ Frame # m.target /\ m.pass # 1 /\ End(Partial(Frame))
  <2>1. /\ marks' \in {marks, marks \ {"overtaken"}} /\ marks' \in SUBSET Marks
        /\ marks \ {"overtaken"} \subseteq marks' /\ marks' \subseteq marks
    BY <1>2, <1>7 DEF MarksRead
  <2>2. ASSUME Undisturbed
        PROVE  /\ ~Refused /\ ~TooSmall /\ win.mode = "free"
               /\ m.pass = 1 => 2 * win.x + win.w = 2 * m.target.x + m.target.w
               /\ m.pass = 2 => Frame = m.target
    BY <1>1, <2>2 DEF IInv, Proceeds, WProceeds, TooSmall
  <2>3. CASE Frame = m.target /\ End(Ok)
    BY <1>1, <2>1, <2>2, <2>3, AnswerValues, Concludes
  <2>4. CASE /\ Frame # m.target /\ m.pass = 1
             /\ m' = [Afresh EXCEPT !.step = "configure", !.seen = Frame]
    <3>1. /\ m' \in Moves /\ m'.step = "configure" /\ m'.answer = m.answer
          /\ m'.pass = m.pass /\ m'.seen = Frame /\ m'.target = m.target /\ m'.got = 0
      <4> DEFINE s == "configure"
      <4>1. s \in Steps /\ s = "configure"
            /\ m' = [Afresh EXCEPT !.step = s, !.seen = Frame]
        BY <2>4 DEF Steps
      <4> HIDE DEF s
      <4>2. QED
        BY <1>2, <4>1, AfreshIs DEF Moves
    <3>2. NotedFirst' /\ PlacesTwice' /\ GoneIsGone' /\ LookIsTrue'
      BY <1>1, <2>1, <2>4, <3>1
         DEF IInv, NotedFirst, PlacesTwice, GoneIsGone, LookIsTrue, Early, Asked
    <3>3. Frame' = Frame /\ (Refused' <=> Refused)
      BY <1>1 DEF Frame, Refused
    <3>4. Undisturbed => XProceeds' /\ WProceeds' /\ MacProceeds' /\ SProceeds'
      BY <1>1, <2>2, <2>4, <3>1, <3>3 DEF XProceeds, WProceeds, MacProceeds, SProceeds
    <3>5. QED
      BY <1>1, <1>2, <2>1, <3>1, <3>2, <3>4, Advances DEF Answered
  <2>5. CASE Frame # m.target /\ m.pass # 1 /\ End(Partial(Frame))
    <3>1. /\ Partial(Frame) \in Answers /\ Partial(Frame) # NoAnswer
          /\ Partial(Frame).is = "partial" /\ Partial(Frame).frame = Frame
      BY <1>2, AnswerValues
    <3>2. ~Undisturbed
      BY <1>2, <2>2, <2>5
    <3>3. QED
      BY <1>1, <2>1, <2>5, <3>1, <3>2, Concludes
  <2>6. QED
    BY <1>7, <2>3, <2>4, <2>5
<1>8. QED
  BY <1>3, <1>4, <1>5, <1>6, <1>7 DEF WCheck, Looks, Replied, MarksRead, MoreToRead

LEMMA WindowsKeeps ==
  ASSUME MovesConstantsOK, IInv, adapter = "windows", WindowsStep, UNCHANGED tableVars
  PROVE  IInv'
<1>1. TableKept
  BY DEF TableKept, tableVars
<1>2. CASE Reobserve
  BY <1>1, <1>2, LooksAgain
<1>3. CASE WFind \/ NativeBefore \/ WStates \/ WRestore \/ WPlace \/ WCheck
  BY <1>1, <1>3, WFindKeeps, NativeBeforeKeeps, WStatesKeeps, WRestoreKeeps, WPlaceKeeps, WCheckKeeps
<1>4. QED
  BY <1>2, <1>3 DEF WindowsStep

-----------------------------------------------------------------------------
(* macOS.                                                                  *)

LEMMA MinOfTwo ==
  ASSUME NEW a \in Int, NEW b \in Int
  PROVE  Min({a, b}) \in Int /\ (a <= b => Min({a, b}) = a)
<1> DEFINE c == IF a <= b THEN a ELSE b
<1>1. c \in {a, b} /\ \A y \in {a, b} : c <= y
  OBVIOUS
<1>2. \A x \in {a, b} : (\A y \in {a, b} : x <= y) => x = c
  OBVIOUS
<1>3. Min({a, b}) = c
  BY <1>1, <1>2 DEF Min
<1>4. QED
  BY <1>3

LEMMA ForgetsTheClosed ==
  ASSUME Forgets, m'.answer = Gone => ~win.alive
  PROVE  TableKept
BY DEF Forgets, TableKept

LEMMA MacFindKeeps ==
  ASSUME IInv, adapter = "macos", MacFind, Forgets
  PROVE  IInv'
<1>1. /\ m.step = "list" /\ UNCHANGED <<adapter, win, asked, marks, meddled>>
  BY DEF MacFind
<1>2. MovesTypeOK /\ m \in Moves /\ win \in Windows /\ marks \subseteq Marks
      /\ asked \in Seq(Requests) /\ m.answer = NoAnswer
  BY <1>1, Parts DEF IInv, MovesTypeOK
<1>3. CASE ~(\E e \in given : e.el = 1 /\ e \in table) /\ End(Gone)
  <2>1. PICK e \in given : e.el = 1
    BY <1>1 DEF IInv, Retained
  <2>2. ~win.alive
    BY <1>3, <2>1 DEF IInv, Retained, Alive
  <2>3. QED
    BY <1>1, <1>3, <2>2, FindsGone, ForgetsTheClosed
<1>4. CASE To("before")
  <2>1. /\ m' \in Moves /\ m'.step = "before" /\ m'.answer = m.answer /\ MoveSame
    BY <1>2, <1>4, ToIs DEF Steps
  <2>2. TableKept
    BY <1>2, <2>1, ForgetsTheClosed, AnswerValues
  <2>3. NotedFirst' /\ PlacesTwice' /\ GoneIsGone' /\ LookIsTrue'
    BY <1>1, <2>1
       DEF IInv, NotedFirst, PlacesTwice, GoneIsGone, LookIsTrue, LooksAt, MoveSame,
           Early, Asked
  <2>4. Undisturbed => XProceeds' /\ WProceeds' /\ MacProceeds' /\ SProceeds'
    BY <1>1, <2>1
       DEF IInv, Proceeds, XProceeds, WProceeds, MacProceeds, SProceeds, MoveSame
  <2>5. QED
    BY <1>1, <1>2, <2>1, <2>2, <2>3, <2>4, Advances DEF Answered
<1>5. QED
  BY <1>3, <1>4 DEF MacFind

LEMMA MacStatesKeeps ==
  ASSUME IInv, adapter = "macos", MacStates, Forgets
  PROVE  IInv'
<1>1. /\ m.step = "states" /\ UNCHANGED <<adapter, win, asked, meddled>>
  BY DEF MacStates, Reads, Asks
<1>2. MovesTypeOK /\ m \in Moves /\ win \in Windows /\ marks \subseteq Marks
      /\ asked \in Seq(Requests) /\ m.answer = NoAnswer
  BY <1>1, Parts DEF IInv, MovesTypeOK
<1>a. End(Failed) => TableKept
  BY <1>2, EndIs, AnswerValues, ForgetsTheClosed
<1>3. CASE End(Failed) /\ marks' = marks \cup {"disturbed", "lost"}
  BY <1>1, <1>3, <1>a, FailsEarly DEF Early, Undisturbed
<1>4. CASE ~win.alive /\ End(Gone) /\ UNCHANGED marks
  BY <1>1, <1>4, FindsGone, ForgetsTheClosed
<1>5. CASE (win.mode = "fullscreen" \/ win.fixed) /\ End(Failed) /\ UNCHANGED marks
  BY <1>1, <1>5, <1>a, FailsEarly DEF Early, Refused
<1>6. CASE win.mode # "fullscreen" /\ ~win.fixed /\ UNCHANGED marks /\ To("restore")
  <2>1. /\ m' \in Moves /\ m'.step = "restore" /\ m'.answer = m.answer /\ MoveSame
    BY <1>2, <1>6, ToIs DEF Steps
  <2>2. TableKept
    BY <1>2, <2>1, ForgetsTheClosed, AnswerValues
  <2>3. NotedFirst' /\ PlacesTwice' /\ GoneIsGone' /\ LookIsTrue'
    BY <1>1, <1>6, <2>1
       DEF IInv, NotedFirst, PlacesTwice, GoneIsGone, LookIsTrue, LooksAt, MoveSame,
           Early, Asked
  <2>4. ~Refused'
    BY <1>1, <1>6 DEF Refused
  <2>5. Undisturbed => XProceeds' /\ WProceeds' /\ MacProceeds' /\ SProceeds'
    BY <1>1, <1>6, <2>1, <2>4
       DEF IInv, Proceeds, XProceeds, WProceeds, MacProceeds, SProceeds, MoveSame
  <2>6. QED
    BY <1>1, <1>2, <1>6, <2>1, <2>2, <2>3, <2>5, Advances DEF Answered
<1>7. QED
  BY <1>3, <1>4, <1>5, <1>6 DEF MacStates, Reads, Asks

\* The calls that place the window, on macOS, take effect at once.
LEMMA MacPlaces ==
  ASSUME MovesConstantsOK, IInv, adapter = "macos", Forgets,
         m.step \in {"restore", "size", "position"},
         NEW s \in {"size", "position", "check"}, To(s), UNCHANGED <<adapter, asked, meddled>>,
         win' \in Windows, win'.alive = win.alive, win'.listed = win.listed,
         win'.fixed = win.fixed, win'.mode \in {win.mode, "free"},
         marks' \in {marks, marks \cup {"requested"}, marks \cup {"requested", "disturbed"}},
         (Undisturbed /\ ~Refused' /\ "overtaken" \notin marks') => MacProceeds'
  PROVE  IInv'
<1>1. MovesTypeOK /\ m \in Moves /\ win \in Windows /\ marks \subseteq Marks
      /\ asked \in Seq(Requests) /\ m.answer = NoAnswer
  BY Parts DEF IInv, MovesTypeOK
<1>2. /\ m' \in Moves /\ m'.step = s /\ m'.answer = m.answer /\ MoveSame
  BY <1>1, ToIs DEF Steps
<1>3. TableKept
  BY <1>1, <1>2, ForgetsTheClosed, AnswerValues
<1>4. marks' \in SUBSET Marks /\ marks \subseteq marks'
  BY <1>1 DEF Marks
<1>5. NotedFirst' /\ PlacesTwice' /\ GoneIsGone' /\ LookIsTrue'
  BY <1>2
     DEF IInv, NotedFirst, PlacesTwice, GoneIsGone, LookIsTrue, LooksAt, MoveSame,
         Early
<1>6. ASSUME Undisturbed, Undisturbed'
      PROVE  XProceeds' /\ WProceeds' /\ MacProceeds' /\ SProceeds'
  <2>1. ~Refused
    BY <1>6 DEF IInv, Proceeds, MacProceeds
  <2>2. ~Refused'
    BY <2>1 DEF Refused
  <2>3. "overtaken" \notin marks'
    BY <1>6 DEF IInv, Proceeds, MacProceeds
  <2>4. QED
    BY <1>6, <2>1, <2>2, <2>3 DEF XProceeds, WProceeds, SProceeds
<1>7. QED
  BY <1>1, <1>2, <1>3, <1>4, <1>5, <1>6, Advances DEF Answered

\* A call to the program that is not answered, or finds it gone.
LEMMA MacLost ==
  ASSUME IInv, adapter = "macos", Forgets, m.step \in {"restore", "size", "position", "check"},
         UNCHANGED <<adapter, win, asked, meddled>>,
         \/ To("reobserve") /\ marks' = marks \cup {"disturbed", "lost"}
         \/ ~win.alive /\ End(Gone) /\ UNCHANGED marks
  PROVE  IInv'
<1>1. MovesTypeOK /\ m \in Moves /\ m.answer = NoAnswer
  BY Parts DEF IInv, MovesTypeOK
<1>2. CASE To("reobserve") /\ marks' = marks \cup {"disturbed", "lost"}
  <2>1. m'.answer = m.answer
    BY <1>1, <1>2, ToIs DEF Steps
  <2>2. TableKept
    BY <1>1, <2>1, ForgetsTheClosed, AnswerValues
  <2>3. QED
    BY <1>2, <2>2, WillLookAgain DEF Answered
<1>3. CASE ~win.alive /\ End(Gone) /\ UNCHANGED marks
  BY <1>3, FindsGone, ForgetsTheClosed
<1>4. QED
  BY <1>2, <1>3

LEMMA MacRestoreKeeps ==
  ASSUME MovesConstantsOK, IInv, adapter = "macos", MacRestore, Forgets
  PROVE  IInv'
<1>1. m.step = "restore" /\ UNCHANGED <<adapter, meddled>> /\ win \in Windows
  BY Parts DEF MacRestore, Asks, IInv
<1>2. CASE /\ UNCHANGED <<win, asked>>
           /\ \/ To("reobserve") /\ marks' = marks \cup {"disturbed", "lost"}
              \/ ~win.alive /\ End(Gone) /\ UNCHANGED marks
  BY <1>1, <1>2, MacLost
<1>3. CASE /\ To("size") /\ asked' = asked
           /\ \/ Request /\ win' = [At(Normal) EXCEPT !.mode = "free"]
              \/ UNCHANGED <<win, marks>>
  <2>1. /\ win' \in Windows /\ win'.alive = win.alive /\ win'.listed = win.listed
        /\ win'.fixed = win.fixed /\ win'.mode \in {win.mode, "free"}
    <3>1. CASE win' = [At(Normal) EXCEPT !.mode = "free"]
      BY <1>1, <3>1, Freed, FreeIsAMode
    <3>2. CASE win' = win
      BY <1>1, <3>2
    <3>3. QED
      BY <1>3, <3>1, <3>2
  <2>2. m'.step = "size" /\ m'.pass = m.pass
    BY <1>3, ToIs, Parts DEF IInv, MoveSame, Steps
  <2>3. marks' \in {marks, marks \cup {"requested"}}
    BY <1>3 DEF Request
  <2>4. ASSUME Undisturbed, ~Refused', "overtaken" \notin marks' PROVE MacProceeds'
    BY <1>1, <2>2, <2>4 DEF IInv, Proceeds, MacProceeds
  <2>5. QED
    BY <1>1, <1>3, <2>1, <2>3, <2>4, MacPlaces
<1>4. QED
  BY <1>2, <1>3 DEF MacRestore, Asks

LEMMA MacSizeKeeps ==
  ASSUME MovesConstantsOK, IInv, adapter = "macos", MacSize, Forgets
  PROVE  IInv'
<1> DEFINE wide == Min({m.target.w, Room - win.x})
<1>1. /\ m.step = "size" /\ UNCHANGED <<adapter, meddled>> /\ win \in Windows
      /\ win.x \in Int /\ m.target.x \in Int /\ m.target.w \in Int /\ Room \in Int
      /\ m.target.x + m.target.w <= Room /\ m.pass \in 0..2
      /\ m.target = [x |-> m.target.x, w |-> m.target.w]
  BY Parts, TargetFits DEF MacSize, Asks, IInv, MovesConstantsOK, DeskConstantsOK
<1>2. wide \in Int /\ (win.x = m.target.x => wide = m.target.w)
  BY <1>1, MinOfTwo
<1> HIDE DEF wide
<1>3. CASE /\ UNCHANGED <<win, asked>>
           /\ \/ To("reobserve") /\ marks' = marks \cup {"disturbed", "lost"}
              \/ ~win.alive /\ End(Gone) /\ UNCHANGED marks
  BY <1>1, <1>3, MacLost
<1>4. CASE /\ To(IF m.pass = 0 THEN "position" ELSE "check") /\ asked' = asked
           /\ \/ win' = [win EXCEPT !.mode = "free", !.w = wide] /\ Request
              \/ /\ \E f \in Frames : win' = At(f)
                 /\ marks' = marks \cup {"requested", "disturbed"}
  <2>1. CASE win' = [win EXCEPT !.mode = "free", !.w = wide] /\ Request
    <3>1. /\ win' \in Windows /\ win'.alive = win.alive /\ win'.listed = win.listed
          /\ win'.fixed = win.fixed /\ win'.mode = "free" /\ win'.x = win.x /\ win'.w = wide
      BY <1>1, <1>2, <2>1, FreeIsAMode DEF Windows
    <3>2. m'.step = (IF m.pass = 0 THEN "position" ELSE "check") /\ m'.pass = m.pass
          /\ m'.target = m.target
      BY <1>4, ToIs, Parts DEF IInv, MoveSame, Steps
    <3>3. ASSUME Undisturbed, ~Refused', "overtaken" \notin marks' PROVE MacProceeds'
      <4>1. m.pass # 0 => win.x = m.target.x
        BY <1>1, <3>3 DEF IInv, Proceeds, MacProceeds
      <4>2. m.pass # 0 => Frame' = m'.target
        BY <1>1, <1>2, <3>1, <3>2, <4>1 DEF Frame
      <4>3. QED
        BY <1>1, <3>1, <3>2, <3>3, <4>1, <4>2 DEF MacProceeds
    <3>4. QED
      BY <1>1, <1>4, <2>1, <3>1, <3>3, MacPlaces DEF Request
  <2>2. CASE /\ \E f \in Frames : win' = At(f)
             /\ marks' = marks \cup {"requested", "disturbed"}
    <3>1. PICK f \in Frames : win' = At(f)
      BY <2>2
    <3>2. f \in Spans
      BY DEF Frames, Spans, MovesConstantsOK, DeskConstantsOK
    <3>3. /\ win' \in Windows /\ win'.alive = win.alive /\ win'.listed = win.listed
          /\ win'.fixed = win.fixed /\ win'.mode = win.mode
      BY <1>1, <3>1, <3>2, AtIs
    <3>4. MacProceeds'
      BY <2>2 DEF MacProceeds, Undisturbed
    <3>5. QED
      BY <1>1, <1>4, <2>2, <3>3, <3>4, MacPlaces
  <2>3. QED
    BY <1>4, <2>1, <2>2
<1>5. QED
  BY <1>3, <1>4 DEF MacSize, Asks, wide

LEMMA MacPositionKeeps ==
  ASSUME MovesConstantsOK, IInv, adapter = "macos", MacPosition, Forgets
  PROVE  IInv'
<1>1. /\ m.step = "position" /\ UNCHANGED <<adapter, meddled>> /\ win \in Windows
      /\ win.x \in Int /\ m.target.x \in Int
  BY Parts, TargetFits DEF MacPosition, Asks, IInv
<1>3. CASE /\ UNCHANGED <<win, asked>>
           /\ \/ To("reobserve") /\ marks' = marks \cup {"disturbed", "lost"}
              \/ ~win.alive /\ End(Gone) /\ UNCHANGED marks
  BY <1>1, <1>3, MacLost
<1>4. CASE /\ To("check") /\ asked' = asked
           /\ win' = [win EXCEPT !.x = m.target.x] /\ Request
  <2>1. /\ win' \in Windows /\ win'.alive = win.alive /\ win'.listed = win.listed
        /\ win'.fixed = win.fixed /\ win'.mode = win.mode /\ win'.x = m.target.x
    BY <1>1, <1>4 DEF Windows
  <2>2. m'.step = "check" /\ m'.pass = m.pass /\ m'.target = m.target
    BY <1>4, ToIs, Parts DEF IInv, MoveSame, Steps
  <2>3. ASSUME Undisturbed, ~Refused', "overtaken" \notin marks' PROVE MacProceeds'
    <3>1. m.pass = 0 /\ win.mode = "free"
      BY <1>1, <2>3 DEF IInv, Proceeds, MacProceeds
    <3>2. QED
      BY <1>1, <2>1, <2>2, <2>3, <3>1 DEF MacProceeds
  <2>4. QED
    BY <1>1, <1>4, <2>1, <2>3, MacPlaces DEF Request
<1>5. CASE /\ To("check") /\ asked' = asked /\ \E f \in Frames : win' = At(f)
           /\ marks' = marks \cup {"requested", "disturbed"}
  <2>1. PICK f \in Frames : win' = At(f)
    BY <1>5
  <2>2. f \in Spans
    BY DEF Frames, Spans, MovesConstantsOK, DeskConstantsOK
  <2>3. /\ win' \in Windows /\ win'.alive = win.alive /\ win'.listed = win.listed
        /\ win'.fixed = win.fixed /\ win'.mode = win.mode
    BY <1>1, <2>1, <2>2, AtIs
  <2>4. MacProceeds'
    BY <1>5 DEF MacProceeds, Undisturbed
  <2>5. QED
    BY <1>1, <1>5, <2>3, <2>4, MacPlaces
<1>6. QED
  BY <1>3, <1>4, <1>5 DEF MacPosition, Asks

LEMMA MacCheckKeeps ==
  ASSUME MovesConstantsOK, IInv, adapter = "macos", MacCheck, Forgets
  PROVE  IInv'
<1>1. m.step = "check" /\ UNCHANGED <<adapter, win, asked, meddled>> /\ m.step \in LooksAt
  BY DEF MacCheck, Looks, LooksAt
<1>2. MovesTypeOK /\ m \in Moves /\ win \in Windows /\ marks \subseteq Marks
      /\ asked \in Seq(Requests) /\ m.answer = NoAnswer /\ Frame \in Spans
      /\ m.target = [x |-> m.target.x, w |-> m.target.w] /\ m.pass \in 0..2
      /\ Frame.x = win.x /\ Frame.w = win.w /\ Looked \in Spans
  BY <1>1, Parts, TargetFits, LookedIs DEF IInv, MovesTypeOK
<1>3. CASE \/ To("reobserve") /\ marks' = marks \cup {"disturbed", "lost"}
           \/ ~win.alive /\ End(Gone) /\ UNCHANGED marks
  BY <1>1, <1>3, MacLost
<1>4. CASE MarksRead /\ MoreToRead /\ m' = [m EXCEPT !.got = @ + 1, !.read = Looked]
  <2>1. m'.answer = m.answer
    BY <1>2, <1>4 DEF Moves
  <2>2. TableKept
    BY <1>2, <2>1, ForgetsTheClosed, AnswerValues
  <2>3. QED
    BY <1>1, <1>4, <2>2, ReadsOn
<1>5. CASE /\ MarksRead /\ ~MoreToRead
           /\ \/ /\ m.pass = 0 /\ Looked.w # m.target.w
                 /\ m' = [Afresh EXCEPT !.step = "size", !.pass = 1]
              \/ /\ m.pass = 1 /\ Looked.x # m.target.x
                 /\ m' = [Afresh EXCEPT !.step = "position", !.pass = 2]
              \/ Looked = m.target /\ End(Ok)
              \/ /\ Looked # m.target /\ To("reobserve")
                 /\ ~(m.pass = 0 /\ Looked.w # m.target.w)
  <2>1. /\ marks' \in {marks, marks \ {"overtaken"}} /\ marks' \in SUBSET Marks
        /\ marks \ {"overtaken"} \subseteq marks' /\ marks' \subseteq marks
        /\ "overtaken" \notin marks' => Looked = Frame
    BY <1>2, <1>5, LookedIs DEF MarksRead
  <2>2. ASSUME Undisturbed
        PROVE  /\ ~Refused /\ ~TooSmall /\ win.mode = "free" /\ win.x = m.target.x
               /\ m.pass # 0 => Frame = m.target
               /\ m.pass = 0 /\ Frame.w = m.target.w => Frame = m.target
               /\ "overtaken" \notin marks' /\ Looked = Frame
    BY <1>1, <1>2, <2>1, <2>2 DEF IInv, Proceeds, MacProceeds, TooSmall, Frame
  <2>3. CASE /\ m.pass = 0 /\ Looked.w # m.target.w
             /\ m' = [Afresh EXCEPT !.step = "size", !.pass = 1]
    <3>1. /\ m' \in Moves /\ m'.step = "size" /\ m'.answer = m.answer /\ m'.pass = 1
          /\ m'.target = m.target /\ m'.got = 0
      BY <1>2, <2>3, PassIs, AfreshIs DEF Steps
    <3>2. TableKept
      BY <1>2, <3>1, ForgetsTheClosed, AnswerValues
    <3>3. NotedFirst' /\ PlacesTwice' /\ GoneIsGone' /\ LookIsTrue'
      BY <1>1, <2>1, <3>1
         DEF IInv, NotedFirst, PlacesTwice, GoneIsGone, LookIsTrue, Early, Asked
    <3>4. Refused' <=> Refused
      BY <1>1 DEF Refused
    <3>5. Undisturbed => XProceeds' /\ WProceeds' /\ MacProceeds' /\ SProceeds'
      BY <1>1, <2>2, <3>1, <3>4 DEF XProceeds, WProceeds, MacProceeds, SProceeds
    <3>6. QED
      BY <1>1, <1>2, <2>1, <3>1, <3>2, <3>3, <3>5, Advances DEF Answered
  <2>4. CASE /\ m.pass = 1 /\ Looked.x # m.target.x
             /\ m' = [Afresh EXCEPT !.step = "position", !.pass = 2]
    <3>1. /\ m' \in Moves /\ m'.step = "position" /\ m'.answer = m.answer /\ m'.pass = 2
          /\ m'.target = m.target /\ m'.got = 0
      BY <1>2, <2>4, PassIs, AfreshIs DEF Steps
    <3>2. TableKept
      BY <1>2, <3>1, ForgetsTheClosed, AnswerValues
    <3>3. NotedFirst' /\ PlacesTwice' /\ GoneIsGone' /\ LookIsTrue'
      BY <1>1, <2>1, <3>1
         DEF IInv, NotedFirst, PlacesTwice, GoneIsGone, LookIsTrue, Early, Asked
    <3>4. ~Undisturbed
      BY <1>2, <2>2, <2>4
    <3>5. QED
      BY <1>1, <1>2, <2>1, <3>1, <3>2, <3>3, <3>4, Advances DEF Answered
  <2>5. CASE Looked = m.target /\ End(Ok)
    <3>1. TableKept
      BY <1>2, <2>5, EndIs, AnswerValues, ForgetsTheClosed
    <3>2. QED
      BY <1>1, <2>1, <2>2, <2>5, <3>1, AnswerValues, Concludes
  <2>6. CASE /\ Looked # m.target /\ To("reobserve")
             /\ ~(m.pass = 0 /\ Looked.w # m.target.w)
    <3>1. /\ m' \in Moves /\ m'.step = "reobserve" /\ m'.answer = m.answer /\ MoveSame
      BY <1>2, <2>6, ToIs DEF Steps
    <3>2. TableKept
      BY <1>2, <3>1, ForgetsTheClosed, AnswerValues
    <3>3. NotedFirst' /\ PlacesTwice' /\ GoneIsGone' /\ LookIsTrue'
      BY <1>1, <2>1, <3>1
         DEF IInv, NotedFirst, PlacesTwice, GoneIsGone, LookIsTrue, MoveSame, Early, Asked
    <3>4. ~Undisturbed
      BY <2>2, <2>6
    <3>5. QED
      BY <1>1, <1>2, <2>1, <3>1, <3>2, <3>3, <3>4, Advances DEF Answered
  <2>7. QED
    BY <1>5, <2>3, <2>4, <2>5, <2>6
<1>6. QED
  BY <1>3, <1>4, <1>5 DEF MacCheck, Looks, Replied, MarksRead, MoreToRead

LEMMA MacKeeps ==
  ASSUME MovesConstantsOK, IInv, adapter = "macos", MacStep, Forgets
  PROVE  IInv'
<1>1. CASE Reobserve
  <2>1. m \in Moves /\ m.answer = NoAnswer /\ Looked \in Spans
    BY <1>1, Parts, LookedIs DEF IInv, Reobserve, MovesTypeOK
  <2>2. m'.answer = Gone => ~win.alive
    <3>1. CASE m' = [m EXCEPT !.got = @ + 1, !.read = Looked]
      BY <2>1, <3>1, AnswerValues DEF Moves
    <3>2. CASE \E a \in Answers : End(a) /\ (a = Gone => ~win.alive)
      BY <2>1, <3>2, EndIs
    <3>3. QED
      BY <1>1, <2>1, <3>1, <3>2, AnswerValues DEF Reobserve, Replied
  <2>3. QED
    BY <1>1, <2>2, LooksAgain, ForgetsTheClosed
<1>2. CASE MacFind \/ NativeBefore \/ MacStates \/ MacRestore \/ MacSize \/ MacPosition \/ MacCheck
  BY <1>2, ForgetsTheClosed, MacFindKeeps, NativeBeforeKeeps, MacStatesKeeps, MacRestoreKeeps, MacSizeKeeps,
     MacPositionKeeps, MacCheckKeeps
<1>3. QED
  BY <1>1, <1>2 DEF MacStep

-----------------------------------------------------------------------------
(* sway and Hyprland: what a batch of commands does to the window.         *)

Scripted == adapter \in {"sway", "hyprland"}

\* Only the frame and the mode of a window change.
Alike(v, w) == v \in Windows /\ v.alive = w.alive /\ v.listed = w.listed /\ v.fixed = w.fixed

LEMMA EffectIs ==
  ASSUME Scripted, m.target.x \in Int, m.target.w \in Int, NEW w \in Windows, NEW c
  PROVE  /\ Alike(Effect(w, c), w)
         /\ c = "tile" => Effect(w, c).mode = "tiled"
         /\ c = "float" /\ w.mode = "tiled" => Effect(w, c).mode = "free"
         /\ c = "resize" /\ w.mode = "free" =>
              Effect(w, c).mode = "free" /\ Effect(w, c).w = m.target.w
         /\ c = "move" /\ w.mode = "free" =>
              /\ Effect(w, c).mode = "free" /\ Effect(w, c).w = w.w
              /\ Effect(w, c).x = m.target.x
<1>1. "free" \in Modes(adapter) /\ "tiled" \in Modes(adapter) /\ Normal.x = 0 /\ Normal.w = 2
  BY DEF Scripted, Modes, Normal
<1>2. w.x \in Int /\ w.w \in Int /\ w.mode \in Modes(adapter)
  BY DEF Windows
<1>3. CASE c = "tile"
  BY <1>1, <1>3 DEF Effect, Windows, Alike
<1>4. CASE c = "float"
  <2>1. Effect(w, c) =
          IF w.mode = "tiled" THEN [w EXCEPT !.mode = "free", !.x = 0, !.w = 2] ELSE w
    BY <1>4 DEF Effect, Normal
  <2>2. CASE w.mode = "tiled"
    <3> DEFINE a    == 0
               b    == 2
               mode == "free"
    <3>1. a \in Int /\ b \in Int /\ mode \in Modes(adapter) /\ mode = "free"
      BY <1>1
    <3>2. Effect(w, c) = [w EXCEPT !.mode = mode, !.x = a, !.w = b]
      BY <2>1, <2>2
    <3> HIDE DEF a, b, mode
    <3>3. Effect(w, c).mode = mode /\ Alike(Effect(w, c), w)
      BY <3>1, <3>2 DEF Windows, Alike
    <3>4. QED
      BY <1>4, <2>2, <3>1, <3>3
  <2>3. CASE w.mode # "tiled"
    BY <1>4, <2>1, <2>3 DEF Alike
  <2>4. QED
    BY <2>2, <2>3
<1>5. CASE c = "resize"
  <2> DEFINE h == (w.w - m.target.w) \div 2
             y == w.x + h
  <2>1. h \in Int
    BY <1>2
  <2> HIDE DEF h
  <2>2. y \in Int
    BY <1>2, <2>1
  <2>3. Effect(w, c) = IF w.mode = "free" THEN [w EXCEPT !.x = y, !.w = m.target.w] ELSE w
    BY <1>5 DEF Effect, h
  <2> HIDE DEF y
  <2>4. QED
    BY <1>5, <2>2, <2>3 DEF Windows, Alike
<1>6. CASE c \notin {"tile", "float", "resize"}
  <2>1. Effect(w, c) = IF w.mode = "free" THEN [w EXCEPT !.x = m.target.x] ELSE w
    BY <1>6 DEF Effect
  <2>2. QED
    BY <1>2, <1>6, <2>1 DEF Windows, Alike
<1>7. QED
  BY <1>3, <1>4, <1>5, <1>6

LEMMA RanIs ==
  ASSUME Scripted, m.target.x \in Int, m.target.w \in Int, NEW w \in Windows,
         NEW commands, NEW i \in Nat
  PROVE  Alike(Ran(w, commands, i), w)
<1>1. CASE i \in DOMAIN commands
  BY <1>1, EffectIs DEF Ran
<1>2. CASE i \notin DOMAIN commands
  BY <1>2 DEF Ran, Alike
<1>3. QED
  BY <1>1, <1>2

LEMMA AfterIs ==
  ASSUME Scripted, m.target.x \in Int, m.target.w \in Int, win \in Windows,
         NEW commands
  PROVE  Alike(After(commands), win)
<1> DEFINE a == Ran(win, commands, 1)
           b == Ran(a, commands, 2)
           c == Ran(b, commands, 3)
<1>1. Alike(a, win)
  BY RanIs
<1>2. Alike(b, a)
  BY <1>1, RanIs DEF Alike
<1>3. Alike(c, b)
  BY <1>2, RanIs DEF Alike
<1>4. Alike(Ran(c, commands, 4), c)
  BY <1>3, RanIs DEF Alike
<1>5. After(commands) = Ran(c, commands, 4)
  BY DEF After
<1> HIDE DEF a, b, c
<1>6. QED
  BY <1>1, <1>2, <1>3, <1>4, <1>5 DEF Alike

\* The last two commands of every batch.
LEMMA PlacedFree ==
  ASSUME Scripted, m.target.x \in Int, m.target.w \in Int, NEW w \in Windows, w.mode = "free"
  PROVE  LET v == Effect(Effect(w, "resize"), "move")
         IN  v.mode = "free" /\ v.x = m.target.x /\ v.w = m.target.w
<1> DEFINE u == Effect(w, "resize")
<1>1. u \in Windows /\ u.mode = "free" /\ u.w = m.target.w
  BY EffectIs DEF Alike
<1> HIDE DEF u
<1>2. LET v == Effect(u, "move")
      IN  v.mode = "free" /\ v.x = m.target.x /\ v.w = m.target.w
  BY <1>1, EffectIs
<1>3. QED
  BY <1>2 DEF u

LEMMA Joined ==
  /\ <<>> \o Placing = <<"resize", "move">>
  /\ (<<>> \o <<>>) \o Placing = <<"resize", "move">>
  /\ <<"float">> \o Placing = <<"float", "resize", "move">>
  /\ (<<>> \o <<"float">>) \o Placing = <<"float", "resize", "move">>
  /\ (<<"tile">> \o <<"float">>) \o Placing = <<"tile", "float", "resize", "move">>
<1>1. /\ Placing \in Seq(Commanded) /\ Len(Placing) = 2
      /\ Placing[1] = "resize" /\ Placing[2] = "move"
  BY DEF Placing, Commanded
<1>2. /\ <<"float">> \in Seq(Commanded) /\ <<"tile">> \in Seq(Commanded)
      /\ <<>> \in Seq(Commanded) /\ <<"resize", "move">> \in Seq(Commanded)
      /\ <<"float", "resize", "move">> \in Seq(Commanded)
      /\ <<"tile", "float">> \in Seq(Commanded)
      /\ <<"tile", "float", "resize", "move">> \in Seq(Commanded)
  BY DEF Commanded
<1>3. <<>> \o Placing = <<"resize", "move">> /\ <<>> \o <<>> = <<>>
      /\ <<>> \o <<"float">> = <<"float">>
  BY <1>1, <1>2, ConcatEmptySeq DEF Placing
<1>4. <<"float">> \o Placing = <<"float", "resize", "move">>
  <2> DEFINE q == <<"float">> \o Placing
  <2> DEFINE p == <<"float">>
  <2>1. p \in Seq(Commanded) /\ Len(p) = 1 /\ p[1] = "float"
    BY <1>2
  <2> HIDE DEF p
  <2>2. /\ q \in Seq(Commanded) /\ Len(q) = Len(p) + Len(Placing)
        /\ \A i \in 1 .. Len(p) + Len(Placing) :
              q[i] = IF i <= Len(p) THEN p[i] ELSE Placing[i - Len(p)]
    BY <1>1, <2>1, ConcatProperties DEF p
  <2>3. q[1] = "float" /\ q[2] = "resize" /\ q[3] = "move" /\ Len(q) = 3
    BY <1>1, <2>1, <2>2
  <2> HIDE DEF q
  <2> DEFINE t == <<"float", "resize", "move">>
  <2>4. /\ t \in Seq(Commanded) /\ Len(t) = 3
        /\ t[1] = "float" /\ t[2] = "resize" /\ t[3] = "move"
    BY <1>2
  <2> HIDE DEF t
  <2>5. \A i \in 1 .. Len(q) : q[i] = t[i]
    BY <2>3, <2>4
  <2>6. q = t
    BY <2>2, <2>3, <2>4, <2>5, SeqEqual
  <2>7. QED
    BY <2>6 DEF p, q, t
<1>5. <<"tile">> \o <<"float">> = <<"tile", "float">>
  <2> DEFINE q == <<"tile">> \o <<"float">>
  <2>1. /\ q \in Seq(Commanded) /\ Len(q) = 1 + 1
        /\ \A i \in 1 .. 1 + 1 : q[i] = IF i <= 1 THEN <<"tile">>[i] ELSE <<"float">>[i - 1]
    BY <1>2, ConcatProperties, Len(<<"float">>) = 1, Len(<<"tile">>) = 1
  <2>2. q[1] = "tile" /\ q[2] = "float" /\ Len(q) = 2
    BY <2>1
  <2> HIDE DEF q
  <2>3. q = <<"tile", "float">>
    BY <1>2, <2>1, <2>2, SeqEqual
  <2>4. QED
    BY <2>3 DEF q
<1>6. <<"tile", "float">> \o Placing = <<"tile", "float", "resize", "move">>
  <2> DEFINE p == <<"tile", "float">>
             q == p \o Placing
  <2>1. p \in Seq(Commanded) /\ Len(p) = 2 /\ p[1] = "tile" /\ p[2] = "float"
    BY <1>2
  <2> HIDE DEF p
  <2>2. /\ q \in Seq(Commanded) /\ Len(q) = Len(p) + Len(Placing)
        /\ \A i \in 1 .. Len(p) + Len(Placing) :
              q[i] = IF i <= Len(p) THEN p[i] ELSE Placing[i - Len(p)]
    BY <1>1, <2>1, ConcatProperties
  <2>3. /\ q[1] = "tile" /\ q[2] = "float" /\ q[3] = "resize" /\ q[4] = "move"
        /\ Len(q) = 4
    BY <1>1, <2>1, <2>2
  <2> HIDE DEF q
  <2> DEFINE t == <<"tile", "float", "resize", "move">>
  <2>4. /\ t \in Seq(Commanded) /\ Len(t) = 4
        /\ t[1] = "tile" /\ t[2] = "float" /\ t[3] = "resize" /\ t[4] = "move"
    BY <1>2
  <2> HIDE DEF t
  <2>5. \A i \in 1 .. Len(q) : q[i] = t[i]
    BY <2>3, <2>4
  <2>6. q = t
    BY <2>2, <2>3, <2>4, <2>5, SeqEqual
  <2>7. QED
    BY <2>6 DEF p, q, t
<1>7. QED
  BY <1>3, <1>4, <1>5, <1>6

\* The batch built for a window that is not fullscreen places it.
LEMMA BatchPlaces ==
  ASSUME Scripted, m.target.x \in Int, m.target.w \in Int, win \in Windows,
         win.mode # "fullscreen"
  PROVE  LET v == After(Commands(win.mode))
         IN  v.mode = "free" /\ v.x = m.target.x /\ v.w = m.target.w
<1> DEFINE float == Effect(win, "float")
           tile  == Effect(win, "tile")
           both  == Effect(tile, "float")
<1>1. \/ win.mode \in {"free", "tiled"}
      \/ adapter = "hyprland" /\ win.mode = "maximized"
  BY DEF Scripted, Windows, Modes
<1>2. CASE win.mode = "free"
  <2>1. Commands(win.mode) = <<"resize", "move">>
    BY <1>2, Joined DEF Commands, SwayCommands, HyprCommands, Held
  <2>2. After(Commands(win.mode)) = Effect(Effect(win, "resize"), "move")
    BY <2>1 DEF After, Ran
  <2>3. QED
    BY <1>2, <2>2, PlacedFree
<1>3. CASE win.mode = "tiled"
  <2>1. Commands(win.mode) = <<"float", "resize", "move">>
    BY <1>3, Joined DEF Commands, SwayCommands, HyprCommands, Held
  <2>2. After(Commands(win.mode)) = Effect(Effect(float, "resize"), "move")
    BY <2>1 DEF After, Ran
  <2>3. float \in Windows /\ float.mode = "free"
    BY <1>3, EffectIs DEF Alike
  <2> HIDE DEF float
  <2>4. QED
    BY <2>2, <2>3, PlacedFree
<1>4. CASE adapter = "hyprland" /\ win.mode = "maximized"
  <2>1. Commands(win.mode) = <<"tile", "float", "resize", "move">>
    BY <1>4, Joined DEF Commands, HyprCommands, Held
  <2>2. After(Commands(win.mode)) = Effect(Effect(both, "resize"), "move")
    BY <2>1 DEF After, Ran
  <2>3. tile \in Windows /\ tile.mode = "tiled"
    BY EffectIs DEF Alike
  <2>4. both \in Windows /\ both.mode = "free"
    BY <2>3, EffectIs DEF Alike
  <2> HIDE DEF both, tile
  <2>5. QED
    BY <2>2, <2>4, PlacedFree
<1>5. QED
  BY <1>1, <1>2, <1>3, <1>4

LEMMA BatchIsTyped ==
  ASSUME Scripted, win \in Windows, win.mode # "fullscreen"
  PROVE  Commands(win.mode) \in Seq(Commanded)
<1>1. \/ win.mode \in {"free", "tiled"}
      \/ adapter = "hyprland" /\ win.mode = "maximized"
  BY DEF Scripted, Windows, Modes
<1>2. Commands(win.mode) \in {<<"resize", "move">>, <<"float", "resize", "move">>,
                              <<"tile", "float", "resize", "move">>}
  BY <1>1, Joined DEF Commands, SwayCommands, HyprCommands, Held
<1>3. /\ <<"resize", "move">> \in Seq(Commanded)
      /\ <<"float", "resize", "move">> \in Seq(Commanded)
      /\ <<"tile", "float", "resize", "move">> \in Seq(Commanded)
  BY DEF Commanded
<1>4. QED
  BY <1>2, <1>3

LEMMA SListKeeps ==
  ASSUME IInv, Scripted, SList, UNCHANGED tableVars
  PROVE  IInv'
<1>1. /\ m.step = "list" /\ TableKept /\ UNCHANGED <<adapter, win, asked, meddled>>
      /\ adapter \notin {"x11", "windows", "macos", "kde"}
  BY DEF SList, Reads, Asks, TableKept, tableVars, Scripted
<1>2. MovesTypeOK /\ m \in Moves /\ win \in Windows /\ marks \subseteq Marks
      /\ asked \in Seq(Requests) /\ Frame \in Spans
  BY Parts DEF IInv, MovesTypeOK
<1>3. CASE End(Failed) /\ marks' = marks \cup {"disturbed", "lost"}
  BY <1>1, <1>3, FailsEarly DEF Early, Undisturbed
<1>4. CASE ~win.alive /\ End(Gone) /\ UNCHANGED marks
  BY <1>1, <1>4, FindsGone
<1>5. CASE win.mode = "fullscreen" /\ End(Failed) /\ UNCHANGED marks
  BY <1>1, <1>5, FailsEarly DEF Early, Refused
<1>6. CASE /\ win.mode # "fullscreen" /\ UNCHANGED marks
           /\ m' = [m EXCEPT !.step = "run", !.before = Frame, !.todo = Commands(win.mode)]
  <2> DEFINE batch == Commands(win.mode)
  <2>1. batch \in Seq(Commanded)
    BY <1>2, <1>6, BatchIsTyped
  <2>2. m' = [m EXCEPT !.step = "run", !.before = Frame, !.todo = batch]
    BY <1>6
  <2> HIDE DEF batch
  <2>3. m' \in Moves /\ m'.step = "run" /\ m'.answer = m.answer /\ m'.todo = batch
        /\ m'.got = m.got
    BY <1>2, <2>1, <2>2 DEF Moves, Steps
  <2>4. NotedFirst' /\ PlacesTwice' /\ GoneIsGone' /\ LookIsTrue'
    BY <1>1, <1>6, <2>3
       DEF IInv, NotedFirst, PlacesTwice, GoneIsGone, LookIsTrue, Early, Asked
  <2>5. m'.todo = Commands(win.mode)'
    BY <1>1, <2>3 DEF Commands, SwayCommands, HyprCommands, batch
  <2>6. XProceeds' /\ WProceeds' /\ MacProceeds' /\ SProceeds'
    BY <1>1, <1>6, <2>3, <2>5 DEF XProceeds, WProceeds, MacProceeds, SProceeds
  <2>7. QED
    BY <1>1, <1>2, <1>6, <2>3, <2>4, <2>6, Advances DEF Answered
<1>7. QED
  BY <1>3, <1>4, <1>5, <1>6 DEF SList, Reads, Asks

LEMMA SRunKeeps ==
  ASSUME MovesConstantsOK, IInv, Scripted, SRun, UNCHANGED tableVars
  PROVE  IInv'
<1>1. /\ m.step = "run" /\ TableKept /\ UNCHANGED <<adapter, asked, meddled>>
      /\ adapter \notin {"x11", "windows", "macos", "kde"}
  BY DEF SRun, TableKept, tableVars, Scripted
<1>2. MovesTypeOK /\ m \in Moves /\ win \in Windows /\ marks \subseteq Marks
      /\ asked \in Seq(Requests) /\ m.target.x \in Int /\ m.target.w \in Int
      /\ m.target = [x |-> m.target.x, w |-> m.target.w]
  BY Parts, TargetFits DEF IInv, MovesTypeOK
<1>3. PICK r \in {"ok", "failed", "gone"} :
        /\ m' = [m EXCEPT !.step = "readback", !.result = r]
        /\ r = "gone" => ~win.alive
        /\ \/ r = "ok" /\ win.alive /\ win' = After(m.todo) /\ Request
           \/ marks' = marks \cup {"requested", "disturbed"}
           \/ ~win.alive /\ Request
        /\ Alike(win', win)
  <2>1. CASE /\ win.alive /\ win' = After(m.todo) /\ Request
             /\ m' = [m EXCEPT !.step = "readback", !.result = "ok"]
    BY <1>2, <2>1, AfterIs
  <2>2. CASE /\ win.alive /\ \E n \in 0..Len(m.todo) : win' = After(SubSeq(m.todo, 1, n))
             /\ m' = [m EXCEPT !.step = "readback", !.result = "failed"]
             /\ marks' = marks \cup {"requested", "disturbed"}
    <3>1. PICK n \in 0..Len(m.todo) : win' = After(SubSeq(m.todo, 1, n))
      BY <2>2
    <3>2. Alike(win', win)
      BY <1>2, <3>1, AfterIs
    <3>3. QED
      BY <2>2, <3>2
  <2>3. CASE /\ win.alive /\ \E f \in Frames : win' = At(f)
             /\ m' = [m EXCEPT !.step = "readback", !.result = "ok"]
             /\ marks' = marks \cup {"requested", "disturbed"}
    <3>1. PICK f \in Frames : win' = At(f)
      BY <2>3
    <3>2. f \in Spans
      BY DEF Frames, Spans, MovesConstantsOK, DeskConstantsOK
    <3>3. Alike(win', win)
      BY <1>2, <3>1, <3>2, AtIs DEF Alike
    <3>4. QED
      BY <2>3, <3>3
  <2>4. CASE /\ ~win.alive /\ Request /\ win' = win
             /\ m' = [m EXCEPT !.step = "readback", !.result = "gone"]
    BY <1>2, <2>4 DEF Alike
  <2>5. QED
    BY <2>1, <2>2, <2>3, <2>4 DEF SRun
<1>4. /\ m' \in Moves /\ m'.step = "readback" /\ m'.answer = m.answer /\ m'.result = r
      /\ m'.target = m.target /\ m'.got = m.got
  BY <1>2, <1>3 DEF Moves, Steps
<1>5. marks' \in SUBSET Marks /\ marks \subseteq marks'
  BY <1>2, <1>3 DEF Request, Marks
<1>6. NotedFirst' /\ PlacesTwice' /\ GoneIsGone' /\ LookIsTrue'
  BY <1>1, <1>3, <1>4
     DEF IInv, NotedFirst, PlacesTwice, GoneIsGone, LookIsTrue, Early, Alike
<1>7. ASSUME Undisturbed, Undisturbed' PROVE SProceeds'
  <2>1. win.alive /\ win.mode # "fullscreen" /\ m.todo = Commands(win.mode)
    BY <1>1, <1>7 DEF IInv, Proceeds, StaysOpen, SProceeds, Scripted
  <2>2. r = "ok" /\ win' = After(Commands(win.mode))
    BY <1>3, <1>7, <2>1 DEF Undisturbed
  <2>3. win'.mode = "free" /\ win'.x = m.target.x /\ win'.w = m.target.w
    BY <1>2, <2>1, <2>2, BatchPlaces
  <2>4. QED
    BY <1>2, <1>4, <2>2, <2>3 DEF SProceeds, Frame
<1>8. XProceeds' /\ WProceeds' /\ MacProceeds'
  BY <1>1 DEF XProceeds, WProceeds, MacProceeds
<1>9. QED
  BY <1>1, <1>2, <1>3, <1>4, <1>5, <1>6, <1>7, <1>8, Advances DEF Answered, Alike

LEMMA SReadbackKeeps ==
  ASSUME MovesConstantsOK, IInv, Scripted, SReadback, UNCHANGED tableVars
  PROVE  IInv'
<1>1. /\ m.step = "readback" /\ TableKept /\ UNCHANGED <<adapter, win, asked, meddled>>
      /\ adapter \notin {"x11", "windows", "macos", "kde"}
  BY DEF SReadback, TableKept, tableVars, Scripted
<1>2. /\ MovesTypeOK /\ Frame \in Spans /\ m.result \in {"ok", "failed", "gone"}
  BY Parts DEF IInv
<1>3. CASE /\ End(IF m.result = "gone" THEN Gone ELSE Failed)
           /\ marks' = marks \cup {"disturbed", "blind"}
  BY <1>1, <1>3, ConcludesBlind
<1>4. CASE ~win.alive /\ End(Gone) /\ UNCHANGED marks
  BY <1>1, <1>4, FindsGone
<1>5. CASE win.alive /\ End(Finish(Frame)) /\ UNCHANGED marks
  <2>1. m.result \in {"ok", "failed"}
    BY <1>1, <1>2, <1>5 DEF IInv, GoneIsGone
  <2>2. PICK a \in Answers :
          /\ a = Finish(Frame)
          /\ \/ a = Ok /\ Frame = m.target
             \/ a = Partial(Frame) /\ ~(m.result = "ok" /\ Frame = m.target)
             \/ a = Failed /\ Frame = m.before /\ m.result # "ok"
    <3>1. CASE m.result = "ok" /\ Frame = m.target
      BY <3>1, AnswerValues DEF Finish
    <3>2. CASE m.result = "ok" /\ Frame # m.target
      BY <1>2, <3>2, AnswerValues DEF Finish
    <3>3. CASE m.result = "failed" /\ Frame # m.before
      BY <1>2, <3>3, AnswerValues DEF Finish
    <3>4. CASE m.result = "failed" /\ Frame = m.before
      BY <3>4, AnswerValues DEF Finish
    <3>5. QED
      BY <2>1, <3>1, <3>2, <3>3, <3>4
  <2>3. Undisturbed => /\ ~Refused /\ ~TooSmall /\ a = Ok /\ win.mode = "free"
                      /\ Frame = m.target
    BY <1>1, <2>2 DEF IInv, Proceeds, SProceeds, Scripted, Refused, TooSmall
  <2>4. /\ a # NoAnswer
        /\ a.is = "ok" => Frame = m.target
        /\ a.is = "partial" => Frame = a.frame
        /\ a.is = "failed" /\ Asked => Frame = m.before
        /\ a.is # "gone"
    BY <1>2, <2>2, AnswerValues
  <2>5. QED
    BY <1>1, <1>5, <2>2, <2>3, <2>4, Concludes
<1>6. QED
  BY <1>3, <1>4, <1>5 DEF SReadback

LEMMA ScriptedKeeps ==
  ASSUME MovesConstantsOK, IInv, Scripted, ScriptedStep, UNCHANGED tableVars
  PROVE  IInv'
BY SListKeeps, SRunKeeps, SReadbackKeeps DEF ScriptedStep

-----------------------------------------------------------------------------
(* KDE: the client, the companion and the script.                          *)

LEMMA ToldTheTruth ==
  ASSUME MovesTypeOK', Companion', adapter' = "kde"
  PROVE  AnswersAreTrue' /\ FocusIsFresh'
<1> SUFFICES ASSUME m'.step = "answered", "unlooked" \notin marks', "overtaken" \notin marks'
             PROVE  AnswersAreTrue' /\ FocusIsFresh'
  BY DEF AnswersAreTrue, FocusIsFresh, Answered
<1>1. m'.told \in Answers
  BY DEF MovesTypeOK, Moves
<1>2. CASE m'.script = "done" /\ m'.post = <<>> /\ m'.answer = m'.told
  <2>1. Pending' = m'.told
    BY <1>2 DEF Pending
  <2>2. TellsTruth(m.told)' /\ (Asked' => m'.cache = Frame')
    BY <1>1, <1>2, <2>1 DEF Companion, TellsTruth, Fresh
  <2>3. m'.told.is \in {"ok", "failed", "gone", "partial"}
    BY <1>1, <2>2, AnswerValues DEF TellsTruth, Answers
  <2>4. AnswersAreTrue'
    BY <1>1, <1>2, <2>2, <2>3 DEF AnswersAreTrue, TellsTruth
  <2>5. QED
    BY <2>2, <2>4 DEF FocusIsFresh
<1>3. CASE m'.script = "idle" /\ m'.answer = Failed
  <2>1. ~Asked'
    BY <1>3 DEF Companion
  <2>2. QED
    BY <1>3, <2>1, AnswerValues DEF AnswersAreTrue, FocusIsFresh
<1>4. QED
  BY <1>1, <1>2, <1>3 DEF Companion, Answered

LEMMA ArrivedOnKde ==
  ASSUME Companion', KProceeds', adapter' = "kde"
  PROVE  UndisturbedMovesArrive'
<1> SUFFICES ASSUME m'.step = "answered", Undisturbed'
             PROVE  UndisturbedMovesArrive'
  BY DEF UndisturbedMovesArrive, Undisturbed
<1>1. m'.script = "done" /\ Pending' = m'.answer
  BY DEF KProceeds, Answered, Pending
<1>2. ~TooSmall'
  BY DEF TooSmall
<1>3. \/ Refused' /\ ~Asked' /\ Pending' = Failed
      \/ ~Refused' /\ Pending' = Ok /\ win'.mode = "free" /\ Frame' = m'.target
  BY <1>1 DEF KProceeds
<1>4. QED
  BY <1>1, <1>2, <1>3 DEF UndisturbedMovesArrive

\* What a step on KDE has to keep.
LEMMA OnKde ==
  ASSUME IInv, adapter = "kde", adapter' = adapter, UNCHANGED tableVars,
         m'.got \in {0, m.got}, MovesTypeOK', Companion', KProceeds', StaysOpen'
  PROVE  IInv'
<1>1. AnswersAreTrue' /\ FocusIsFresh' /\ UndisturbedMovesArrive'
  BY ToldTheTruth, ArrivedOnKde
<1>2. IdentitiesAreStable' /\ Retained'
  BY DEF IInv, IdentitiesAreStable, Retained, tableVars
<1>3. NotedFirst' /\ PlacesTwice' /\ GoneIsGone' /\ LookIsTrue'
  BY DEF IInv, NotedFirst, PlacesTwice, GoneIsGone, LookIsTrue, Companion
<1>4. XProceeds' /\ WProceeds' /\ MacProceeds' /\ SProceeds'
  BY DEF XProceeds, WProceeds, MacProceeds, SProceeds
<1>5. QED
  BY <1>1, <1>2, <1>3, <1>4 DEF IInv, Proceeds

LEMMA KSendKeeps ==
  ASSUME MovesConstantsOK, IInv, adapter = "kde", KSend, UNCHANGED tableVars
  PROVE  IInv'
<1> DEFINE r == [is |-> "move", x |-> m.target.x, w |-> m.target.w]
<1>1. /\ m.step = "list" /\ TableKept /\ UNCHANGED <<adapter, win, meddled>>
  BY DEF KSend, TableKept, tableVars
<1>2. MovesTypeOK /\ m \in Moves /\ win \in Windows /\ marks \subseteq Marks
      /\ asked \in Seq(Requests) /\ m.answer = NoAnswer
      /\ m.target.x \in Int /\ m.target.w \in Int
  BY <1>1, Parts, TargetFits DEF IInv, MovesTypeOK
<1>3. /\ asked = <<>> /\ m.script = "idle" /\ ~Asked /\ m.told = NoAnswer
      /\ m.post = <<>> /\ m.todo = <<>>
  BY <1>1 DEF IInv, Companion
<1>4. asked' \in {<<>>, <<r>>} /\ asked' \in Seq(Requests)
  <2>1. r \in Requests
    BY <1>2 DEF Requests
  <2>2. asked' \in {asked, <<r>>}
    BY DEF KSend
  <2> HIDE DEF r
  <2>3. <<r>> \in Seq(Requests)
    BY <2>1
  <2>4. QED
    BY <1>2, <1>3, <2>2, <2>3
<1>5. marks' \in {marks, marks \cup {"disturbed"}, marks \cup {"disturbed", "unlooked"}}
      /\ marks' \subseteq Marks /\ ~Asked'
  BY <1>2, <1>3 DEF KSend, Disturb, Marks, Asked
<1>6. CASE To("run") /\ UNCHANGED marks
  <2>1. m' \in Moves /\ m'.step = "run" /\ m'.answer = NoAnswer /\ ScriptSame /\ m'.got \in {0, m.got}
    BY <1>2, <1>6, ToIs DEF Steps, MoveSame
  <2>2. MovesTypeOK'
    BY <1>1, <1>2, <1>4, <1>5, <2>1, TypeKept DEF Windows
  <2>3. Companion' /\ KProceeds' /\ StaysOpen'
    BY <1>1, <1>3, <1>5, <1>6, <2>1
       DEF IInv, Proceeds, Companion, KProceeds, StaysOpen, ScriptSame, Answered,
           Undisturbed
  <2>4. QED
    BY <1>1, <2>1, <2>2, <2>3, OnKde
<1>7. CASE /\ End(Failed) /\ "disturbed" \in marks'
           /\ \/ asked' = asked
              \/ "unlooked" \in marks'
  <2>1. m' \in Moves /\ m'.step = "answered" /\ m'.answer = Failed /\ ScriptSame /\ m'.got \in {0, m.got}
    BY <1>2, <1>7, EndIs, AnswerValues DEF MoveSame
  <2>2. MovesTypeOK'
    BY <1>1, <1>2, <1>4, <1>5, <2>1, TypeKept, AnswerValues DEF Windows
  <2>3. Companion' /\ KProceeds' /\ StaysOpen'
    BY <1>1, <1>3, <1>5, <1>7, <2>1
       DEF Companion, KProceeds, StaysOpen, ScriptSame, Answered, Undisturbed
  <2>4. QED
    BY <1>1, <2>1, <2>2, <2>3, OnKde
<1>8. QED
  BY <1>6, <1>7 DEF KSend, Disturb

\* What the script posted, and whether it is so, does not change by itself.
LEMMA PostedStays ==
  ASSUME UNCHANGED win, m'.target = m.target, m'.before = m.before, ScriptSame,
         Asked' <=> Asked, "overtaken" \in marks => "overtaken" \in marks'
  PROVE  /\ Pending' = Pending
         /\ \A f : Fresh(f) => Fresh(f)'
         /\ TellsTruth(Pending) => TellsTruth(Pending)'
<1>1. Frame' = Frame /\ Pending' = Pending
  BY DEF Frame, Pending, ScriptSame
<1>2. \A f : Fresh(f) => Fresh(f)'
  BY <1>1 DEF Fresh
<1>3. TellsTruth(Pending) => TellsTruth(Pending)'
  BY <1>1 DEF TellsTruth
<1>4. QED
  BY <1>1, <1>2, <1>3

LEMMA KAnswerKeeps ==
  ASSUME IInv, adapter = "kde", KAnswer, UNCHANGED tableVars
  PROVE  IInv'
<1>1. /\ m.step = "run" /\ m.told # NoAnswer /\ End(m.told) /\ TableKept
      /\ UNCHANGED <<adapter, win, asked, marks, meddled>>
  BY DEF KAnswer, TableKept, tableVars
<1>2. MovesTypeOK /\ m \in Moves /\ win \in Windows /\ asked \in Seq(Requests)
      /\ marks \subseteq Marks /\ m.told \in Answers
  BY Parts DEF IInv, MovesTypeOK
<1>3. m.script = "done" /\ m.post = <<>> /\ Companion /\ KProceeds
  BY <1>1 DEF IInv, Proceeds, Companion
<1>4. /\ m' \in Moves /\ m'.step = "answered" /\ m'.answer = m.told
      /\ MoveSame /\ ScriptSame /\ m'.got \in {0, m.got}
  BY <1>1, <1>2, EndIs DEF MoveSame
<1>5. MovesTypeOK'
  BY <1>1, <1>2, <1>4, TypeKept DEF Windows
<1>6. /\ Pending' = Pending /\ (\A f : Fresh(f) => Fresh(f)')
      /\ TellsTruth(Pending) => TellsTruth(Pending)'
  BY <1>1, <1>4, PostedStays DEF Asked, MoveSame
<1>7. Companion'
  BY <1>1, <1>3, <1>4, <1>6 DEF Companion, ScriptSame
<1>8. Refused' <=> Refused
  BY <1>1 DEF Refused
<1>9. KProceeds' /\ StaysOpen'
  BY <1>1, <1>3, <1>4, <1>6, <1>8
     DEF IInv, Proceeds, KProceeds, StaysOpen, ScriptSame, MoveSame, Frame,
         Undisturbed, Asked
<1>10. QED
  BY <1>1, <1>4, <1>5, <1>7, <1>9, OnKde

LEMMA KDeadlineKeeps ==
  ASSUME IInv, adapter = "kde", KDeadline, UNCHANGED tableVars
  PROVE  IInv'
<1>1. /\ m.step = "run" /\ End(Failed) /\ TableKept
      /\ marks' = marks \cup {"disturbed", "unlooked"}
      /\ UNCHANGED <<adapter, win, asked, meddled>>
  BY DEF KDeadline, TableKept, tableVars
<1>2. MovesTypeOK /\ m \in Moves /\ win \in Windows /\ asked \in Seq(Requests)
      /\ marks \subseteq Marks
  BY Parts DEF IInv, MovesTypeOK
<1>3. Companion
  BY DEF IInv
<1>4. /\ m' \in Moves /\ m'.step = "answered" /\ m'.answer = Failed
      /\ MoveSame /\ ScriptSame /\ m'.got \in {0, m.got}
  BY <1>1, <1>2, EndIs, AnswerValues DEF MoveSame
<1>5. MovesTypeOK'
  BY <1>1, <1>2, <1>4, TypeKept, AnswerValues DEF Windows, Marks
<1>6. /\ Asked' <=> Asked
      /\ "overtaken" \in marks' <=> "overtaken" \in marks
      /\ "unlooked" \in marks' /\ "disturbed" \in marks'
  BY <1>1 DEF Asked
<1>7. /\ Pending' = Pending /\ (\A f : Fresh(f) => Fresh(f)')
      /\ TellsTruth(Pending) => TellsTruth(Pending)'
  BY <1>1, <1>4, <1>6, PostedStays DEF MoveSame
<1>8. Companion'
  BY <1>1, <1>3, <1>4, <1>6, <1>7 DEF Companion, ScriptSame
<1>9. KProceeds' /\ StaysOpen'
  BY <1>6 DEF KProceeds, StaysOpen, Undisturbed
<1>10. QED
  BY <1>1, <1>4, <1>5, <1>8, <1>9, OnKde

\* What the script posts when it is done.
LEMMA PostsAre ==
  ASSUME NEW a \in Answers
  PROVE  /\ <<Complete(a)>> \in Seq(Posted) /\ <<Complete(a)>> # <<>>
         /\ Len(<<Complete(a)>>) = 1 /\ <<Complete(a)>>[1].answer = a
         /\ \A w \in Spans :
              /\ <<Focused(w), Complete(a)>> \in Seq(Posted)
              /\ <<Focused(w), Complete(a)>> # <<>>
              /\ Len(<<Focused(w), Complete(a)>>) = 2
              /\ <<Focused(w), Complete(a)>>[2].answer = a
              /\ <<Focused(w), Complete(a)>>[1].frame = w
<1>1. Complete(a) \in Posted /\ Complete(a).answer = a
  BY AnswerValues DEF Complete, Posted
<1>2. \A w \in Spans : Focused(w) \in Posted /\ Focused(w).frame = w
  BY AnswerValues DEF Focused, Posted, Spans
<1> HIDE DEF Complete, Focused
<1>3. QED
  BY <1>1, <1>2

\* The script is done with the request: it has refused it, or stops watching.
LEMMA ScriptEnds ==
  ASSUME IInv, adapter = "kde", UNCHANGED <<adapter, meddled>>, UNCHANGED tableVars,
         m.step \in {"run", "answered"}, m.told = NoAnswer,
         Answered => "unlooked" \in marks',
         NEW a \in Answers, a # NoAnswer,
         m' \in Moves, m'.step = m.step, m'.answer = m.answer, m'.script = "done",
         m'.told = NoAnswer, m'.target = m.target, m'.got = m.got,
         \/ m'.post = <<Complete(a)>> /\ ~Asked'
         \/ m'.post = <<Focused(Frame'), Complete(a)>>,
         win' \in Windows, asked' = <<>>, marks' \subseteq Marks,
         TellsTruth(a)',
         Undisturbed' => /\ win'.alive /\ win'.listed /\ ~Answered
                         /\ \/ Refused' /\ ~Asked' /\ a = Failed
                            \/ /\ ~Refused' /\ a = Ok /\ win'.mode = "free"
                               /\ Frame' = m'.target
  PROVE  IInv'
<1>1. MovesTypeOK'
  <2>1. MovesTypeOK /\ asked' \in Seq(Requests) /\ TableKept
    BY DEF IInv, TableKept, tableVars
  <2>2. (m'.answer = NoAnswer) = (m'.step # "answered")
    BY DEF IInv, MovesTypeOK
  <2>3. QED
    BY <2>1, <2>2, TypeKept
<1>2. Frame' \in Spans
  BY DEF Frame, Spans, Windows
<1>3. /\ m'.post # <<>> /\ m'.post[Len(m'.post)].answer = a
      /\ \/ m'.post = <<Complete(a)>> /\ ~Asked'
         \/ /\ Len(m'.post) = 2 /\ m'.post[1].frame = Frame'
            /\ m'.post = <<Focused(Frame'), Complete(a)>>
  <2>1. CASE m'.post = <<Complete(a)>> /\ ~Asked'
    BY <2>1, PostsAre
  <2>2. CASE m'.post = <<Focused(Frame'), Complete(a)>>
    <3> DEFINE f == Frame'
    <3>1. f \in Spans /\ m'.post = <<Focused(f), Complete(a)>>
      BY <1>2, <2>2
    <3> HIDE DEF f
    <3>2. Len(m'.post) = 2 /\ m'.post[1].frame = f /\ m'.post[2].answer = a /\ m'.post # <<>>
      BY <3>1, PostsAre
    <3>3. QED
      BY <2>2, <3>2 DEF f
  <2>3. QED
    BY <2>1, <2>2
<1>4. Pending' = a
  BY <1>3 DEF Pending
<1>5. \/ m'.post = <<Complete(Pending')>> /\ Fresh(m.cache)'
      \/ /\ Len(m'.post) = 2
         /\ m'.post = <<Focused(m'.post[1].frame), Complete(Pending')>>
         /\ Fresh(m.post[1].frame)'
  BY <1>3, <1>4 DEF Fresh
<1>6. Companion'
  BY <1>4, <1>5 DEF Companion, Answered
<1>7. KProceeds' /\ StaysOpen'
  BY <1>4 DEF KProceeds, StaysOpen, Answered
<1>8. QED
  BY <1>1, <1>6, <1>7, OnKde

LEMMA UntiledIs ==
  ASSUME MovesTypeOK, adapter = "kde"
  PROVE  /\ Alike(Untiled(win), win)
         /\ Untiled(win).mode # "fullscreen" => Untiled(win).mode = "free"
         /\ Untiled(win).mode = "fullscreen" <=> win.mode = "fullscreen"
<1>1. win \in Windows /\ "free" \in Modes(adapter) /\ win.mode \in Modes(adapter)
  BY Parts, FreeIsAMode
<1>2. Modes(adapter) = {"free", "tiled", "maximized", "fullscreen"}
  BY DEF Modes
<1>3. Normal.x \in Int /\ Normal.w \in Int
  BY DEF Normal
<1>4. CASE win.mode \in Held
  <2>1. Untiled(win) = [win EXCEPT !.mode = "free", !.x = Normal.x, !.w = Normal.w]
    BY <1>4 DEF Untiled
  <2> HIDE DEF Untiled
  <2>2. Untiled(win).mode = "free" /\ win.mode # "fullscreen"
    BY <1>1, <1>4, <2>1 DEF Windows, Held
  <2>3. Alike(Untiled(win), win)
    BY <1>1, <1>3, <2>1 DEF Windows, Alike
  <2>4. QED
    BY <2>2, <2>3
<1>5. CASE win.mode \notin Held
  BY <1>1, <1>2, <1>5 DEF Untiled, Held, Alike
<1>6. QED
  BY <1>4, <1>5

\* An answer about window w, which stood at b before.
Judges(a, w, b) ==
  /\ a \in Answers /\ a # NoAnswer
  /\ a.is = "ok"      => [x |-> w.x, w |-> w.w] = m.target
  /\ a.is = "partial" => [x |-> w.x, w |-> w.w] = a.frame
  /\ a.is = "failed"  => [x |-> w.x, w |-> w.w] = b
  /\ a.is = "gone"    => ~w.alive

LEMMA FinalIs ==
  ASSUME NEW w \in Windows, NEW b \in Spans
  PROVE  Judges(Final(w, b, TRUE), w, b) /\ Judges(Final(w, b, FALSE), w, b)
<1> DEFINE f == [x |-> w.x, w |-> w.w]
<1>1. f \in Spans
  BY DEF Spans, Windows
<1>2. Final(w, b, TRUE) = IF ~w.alive THEN Gone ELSE IF f # b THEN Partial(f) ELSE Failed
  BY DEF Final
<1>3. Final(w, b, FALSE) = IF ~w.alive THEN Gone ELSE IF f = m.target THEN Ok
                           ELSE IF f # b THEN Partial(f) ELSE Failed
  BY DEF Final
<1>4. /\ Judges(Gone, w, b) <=> ~w.alive
      /\ Judges(Ok, w, b) <=> f = m.target
      /\ Judges(Partial(f), w, b)
      /\ Judges(Failed, w, b) <=> f = b
  BY <1>1, AnswerValues DEF Judges
<1> HIDE DEF f, Final, Judges
<1>5. QED
  BY <1>2, <1>3, <1>4

LEMMA KTakeKeeps ==
  ASSUME IInv, adapter = "kde", KTake, UNCHANGED tableVars
  PROVE  IInv'
<1>1. /\ asked # <<>> /\ asked' = <<>> /\ UNCHANGED <<adapter, meddled>> /\ TableKept
  BY DEF KTake, TableKept, tableVars
<1>2. /\ MovesTypeOK /\ m \in Moves /\ win \in Windows /\ marks \subseteq Marks
      /\ Frame \in Spans /\ win.alive \in BOOLEAN /\ win.mode \in Modes(adapter)
  BY Parts DEF IInv, MovesTypeOK
<1>3. /\ m.script = "idle" /\ m.step \in {"run", "answered"} /\ m.told = NoAnswer
      /\ m.post = <<>> /\ ~Asked /\ (Answered => "unlooked" \in marks)
      /\ Undisturbed => win.alive /\ win.listed /\ ~Answered
  BY <1>1 DEF IInv, Companion, Proceeds, StaysOpen, KProceeds
<1>4. CASE /\ UNCHANGED <<win, marks>>
           /\ \/ ~win.alive /\ Refuses(Gone)
              \/ win.alive /\ (win.mode = "fullscreen" \/ win.fixed) /\ Refuses(Failed)
  <2>1. PICK a \in Answers :
          /\ a \in {Gone, Failed} /\ m' = [m EXCEPT !.script = "done", !.post = <<Complete(a)>>]
          /\ a = Gone => ~win.alive
          /\ a = Failed => win.mode = "fullscreen" \/ win.fixed
    BY <1>4, AnswerValues DEF Refuses
  <2>2. /\ m' \in Moves /\ m'.step = m.step /\ m'.answer = m.answer /\ m'.script = "done"
        /\ m'.told = m.told /\ m'.target = m.target /\ m'.got = m.got
        /\ m'.post = <<Complete(a)>>
    <3> DEFINE p == <<Complete(a)>>
    <3>1. p \in Seq(Posted) /\ m' = [m EXCEPT !.script = "done", !.post = p]
      BY <2>1, PostsAre
    <3> HIDE DEF p
    <3>2. m' \in Moves /\ m'.post = p
      BY <1>2, <3>1 DEF Moves
    <3>3. QED
      BY <1>2, <3>1, <3>2 DEF Moves, p
  <2>3. ~Asked' /\ (Undisturbed' <=> Undisturbed)
    BY <1>3, <1>4 DEF Asked, Undisturbed
  <2>4. TellsTruth(a)'
    BY <1>4, <2>1, <2>3, AnswerValues DEF TellsTruth
  <2>5. a = Failed => Refused'
    BY <1>1, <1>4, <2>1 DEF Refused
  <2>6. Undisturbed' => win'.alive /\ win'.listed /\ ~Answered /\ Refused' /\ a = Failed
    BY <1>3, <1>4, <2>1, <2>3, <2>5
  <2>7. QED
    BY <1>1, <1>2, <1>3, <1>4, <2>1, <2>2, <2>3, <2>4, <2>6, AnswerValues, ScriptEnds
<1>5. CASE /\ win.alive /\ win.mode # "fullscreen" /\ ~win.fixed
           /\ win' = Untiled(win) /\ Request
           /\ m' = [m EXCEPT !.script = "watching", !.before = Frame, !.todo = <<"commit">>]
  <2>1. /\ Alike(win', win) /\ win'.mode = "free"
        /\ win'.mode # "fullscreen" /\ ~win'.fixed /\ win'.alive
    BY <1>1, <1>2, <1>5, UntiledIs DEF Alike
  <2>2. /\ m' \in Moves /\ m'.step = m.step /\ m'.answer = m.answer /\ m'.script = "watching"
        /\ m'.told = m.told /\ m'.post = m.post /\ m'.todo # <<>>
        /\ m'.got \in {0, m.got}
    <3> DEFINE q == <<"commit">>
    <3>1. q \in Seq(Commanded) /\ q # <<>>
      BY DEF Commanded
    <3>2. m' = [m EXCEPT !.script = "watching", !.before = Frame, !.todo = q]
      BY <1>5
    <3> HIDE DEF q
    <3>3. QED
      BY <1>2, <3>1, <3>2 DEF Moves
  <2>3. marks' \subseteq Marks /\ Asked' /\ marks \subseteq marks'
        /\ ("disturbed" \in marks' <=> "disturbed" \in marks)
    BY <1>2, <1>5 DEF Request, Marks, Asked
  <2>4. MovesTypeOK'
    <3>1. <<>> \in Seq(Requests) /\ (m'.answer = NoAnswer) = (m'.step # "answered")
      BY <1>2, <2>2 DEF MovesTypeOK
    <3>2. QED
      BY <1>1, <1>2, <2>1, <2>2, <2>3, <3>1, TypeKept DEF Alike
  <2>5. Companion'
    BY <1>1, <1>3, <2>2, <2>3 DEF Companion, Answered
  <2>6. KProceeds' /\ StaysOpen'
    BY <1>1, <1>3, <2>1, <2>2, <2>3
       DEF KProceeds, StaysOpen, Undisturbed, Answered, Refused, Alike
  <2>7. QED
    BY <1>1, <2>2, <2>4, <2>5, <2>6, OnKde
<1>6. CASE /\ win.alive /\ win' \in {win, Untiled(win)}
           /\ marks' = marks \cup {"requested", "disturbed"}
           /\ m' = [m EXCEPT !.script = "done", !.before = Frame,
                             !.post = Posts(win', Final(win', Frame, TRUE))]
  <2>1. Alike(win', win) /\ win'.alive \in BOOLEAN /\ win'.x \in Int /\ win'.w \in Int
        /\ Frame' \in Spans /\ Frame' = [x |-> win'.x, w |-> win'.w]
    BY <1>1, <1>2, <1>6, UntiledIs DEF Alike, Windows, Frame, Spans
  <2>2. PICK a \in Answers : a = Final(win', Frame, TRUE) /\ Judges(a, win', Frame)
    BY <1>2, <2>1, FinalIs DEF Alike, Judges
  <2>3. m' = [m EXCEPT !.script = "done", !.before = Frame,
                       !.post = <<Focused(Frame'), Complete(a)>>]
    BY <1>6, <2>1, <2>2 DEF Posts
  <2>4. /\ m' \in Moves /\ m'.step = m.step /\ m'.answer = m.answer /\ m'.script = "done"
        /\ m'.told = m.told /\ m'.target = m.target /\ m'.before = Frame /\ m'.got = m.got
        /\ m'.post = <<Focused(Frame'), Complete(a)>>
    <3> DEFINE p == <<Focused(Frame'), Complete(a)>>
    <3>1. p \in Seq(Posted) /\ m' = [m EXCEPT !.script = "done", !.before = Frame, !.post = p]
      BY <2>1, <2>2, <2>3, PostsAre
    <3> HIDE DEF p
    <3>2. m' \in Moves /\ m'.post = p
      BY <1>2, <3>1 DEF Moves
    <3>3. QED
      BY <1>2, <3>1, <3>2 DEF Moves, p
  <2>5. marks' \subseteq Marks /\ ~Undisturbed' /\ (Answered => "unlooked" \in marks')
    BY <1>2, <1>3, <1>6 DEF Marks, Undisturbed
  <2>6. TellsTruth(a)'
    BY <2>1, <2>2, <2>4 DEF TellsTruth, Judges
  <2>7. QED
    <3>1. a # NoAnswer /\ win' \in Windows
      BY <2>1, <2>2 DEF Judges, Alike
    <3>2. QED
      BY <1>1, <1>2, <1>3, <2>2, <2>4, <2>5, <2>6, <3>1, ScriptEnds
<1>7. QED
  BY <1>4, <1>5, <1>6 DEF KTake

LEMMA KObserveKeeps ==
  ASSUME IInv, adapter = "kde", KObserve, UNCHANGED tableVars
  PROVE  IInv'
<1>1. /\ m.script = "watching" /\ UNCHANGED <<adapter, win, asked, meddled>>
      /\ Frame' = Frame
  BY DEF KObserve, Frame
<1>2. /\ MovesTypeOK /\ m \in Moves /\ win \in Windows /\ marks \subseteq Marks
      /\ Frame \in Spans /\ m.before \in Spans /\ win.alive \in BOOLEAN
  BY Parts DEF IInv, MovesTypeOK
<1>3. /\ m.step \in {"run", "answered"} /\ m.told = NoAnswer /\ asked = <<>>
      /\ m.post = <<>> /\ Asked /\ (Answered => "unlooked" \in marks)
      /\ Undisturbed => win.alive /\ win.listed /\ ~Answered /\ ~Refused /\ win.mode = "free"
  BY <1>1 DEF IInv, Companion, Proceeds, StaysOpen, KProceeds
<1>4. PICK a \in Answers :
        /\ Finishes(win, a) /\ a # NoAnswer
        /\ a.is = "ok"      => Frame = m.target
        /\ a.is = "partial" => Frame = a.frame
        /\ a.is = "failed"  => Frame = m.before
        /\ a.is = "gone"    => ~win.alive
        /\ marks' \subseteq Marks /\ marks \subseteq marks'
        /\ \/ a = Ok /\ UNCHANGED marks
           \/ "disturbed" \in marks'
  <2>1. CASE win.alive /\ Frame = m.target /\ Finishes(win, Ok) /\ UNCHANGED marks
    BY <1>2, <2>1, AnswerValues
  <2>2. CASE Finishes(win, Final(win, m.before, FALSE)) /\ Disturb
    <3>1. PICK a \in Answers :
            a = Final(win, m.before, FALSE) /\ Judges(a, win, m.before)
      BY <1>2, FinalIs DEF Judges
    <3>2. marks' \subseteq Marks /\ marks \subseteq marks' /\ "disturbed" \in marks'
      BY <1>2, <2>2 DEF Disturb, Marks
    <3>3. QED
      BY <2>2, <3>1, <3>2 DEF Judges, Frame
  <2>3. QED
    BY <2>1, <2>2 DEF KObserve
<1>5. /\ m' \in Moves /\ m'.step = m.step /\ m'.answer = m.answer /\ m'.script = "done"
      /\ m'.told = m.told /\ m'.target = m.target /\ m'.before = m.before /\ m'.got = m.got
      /\ m'.post = <<Focused(Frame), Complete(a)>>
  <2> DEFINE p == <<Focused(Frame), Complete(a)>>
  <2>1. p \in Seq(Posted)
    BY <1>2, PostsAre
  <2>2. m' = [m EXCEPT !.script = "done", !.post = p]
    BY <1>4 DEF Finishes, Posts, Frame
  <2> HIDE DEF p
  <2>3. m' \in Moves /\ m'.post = p
    BY <1>2, <2>1, <2>2 DEF Moves
  <2>4. QED
    BY <1>2, <2>2, <2>3 DEF Moves, p
<1>6. TellsTruth(a)'
  BY <1>1, <1>4, <1>5 DEF TellsTruth
<1>7. Undisturbed' => Undisturbed /\ a = Ok /\ Frame' = m'.target
  BY <1>1, <1>4, <1>5, AnswerValues DEF Undisturbed
<1>8. Refused' <=> Refused
  BY <1>1 DEF Refused
<1>9. QED
  BY <1>1, <1>2, <1>3, <1>4, <1>5, <1>6, <1>7, <1>8, ScriptEnds

LEMMA KCommitKeeps ==
  ASSUME MovesConstantsOK, IInv, adapter = "kde", KCommit, UNCHANGED tableVars
  PROVE  IInv'
<1>1. /\ m.script = "watching" /\ m' = [m EXCEPT !.todo = <<>>] /\ TableKept
      /\ UNCHANGED <<adapter, asked, meddled>>
  BY DEF KCommit, TableKept, tableVars
<1>2. /\ MovesTypeOK /\ m \in Moves /\ win \in Windows /\ marks \subseteq Marks
      /\ m.target \in Spans /\ m.target = [x |-> m.target.x, w |-> m.target.w]
      /\ asked \in Seq(Requests)
  BY Parts, TargetFits DEF IInv, MovesTypeOK
<1>3. /\ Companion /\ Asked /\ m.post = <<>> /\ m.told = NoAnswer /\ KProceeds /\ StaysOpen
  BY <1>1 DEF IInv, Companion, Proceeds
<1>4. /\ Alike(win', win) /\ marks' \subseteq Marks /\ marks \subseteq marks'
      /\ \/ /\ UNCHANGED marks /\ win'.mode = win.mode
            /\ win.mode = "free" => Frame' = m.target
         \/ "disturbed" \in marks'
      /\ "unlooked" \in marks' <=> "unlooked" \in marks
  <2>1. CASE win' = (IF win.mode = "free" THEN At(m.target) ELSE win) /\ UNCHANGED marks
    BY <1>2, <2>1, AtIs DEF Alike, Frame
  <2>2. CASE (\E f \in Frames : win' = At(f)) /\ Disturb
    <3>1. PICK f \in Frames : win' = At(f)
      BY <2>2
    <3>2. f \in Spans
      BY DEF Frames, Spans, MovesConstantsOK, DeskConstantsOK
    <3>3. marks' \subseteq Marks /\ marks \subseteq marks' /\ "disturbed" \in marks'
          /\ ("unlooked" \in marks' <=> "unlooked" \in marks)
      BY <1>2, <2>2 DEF Disturb, Marks
    <3>4. QED
      BY <1>2, <3>1, <3>2, <3>3, AtIs DEF Alike
  <2>3. QED
    BY <2>1, <2>2 DEF KCommit
<1>5. /\ m' \in Moves /\ m'.step = m.step /\ m'.answer = m.answer /\ m'.script = m.script
      /\ m'.told = m.told /\ m'.target = m.target /\ m'.post = m.post /\ m'.got = m.got
  <2> DEFINE q == <<>>
  <2>1. q \in Seq(Commanded) /\ m' = [m EXCEPT !.todo = q]
    BY <1>1
  <2> HIDE DEF q
  <2>2. QED
    BY <1>2, <2>1 DEF Moves
<1>6. MovesTypeOK'
  <2>1. (m'.answer = NoAnswer) = (m'.step # "answered")
    BY <1>2, <1>5 DEF MovesTypeOK
  <2>2. QED
    BY <1>1, <1>2, <1>4, <1>5, <2>1, TypeKept DEF Alike
<1>7. Companion'
  BY <1>1, <1>3, <1>4, <1>5 DEF Companion, Answered, Asked
<1>8. StaysOpen'
  BY <1>3, <1>4 DEF StaysOpen, Alike, Undisturbed
<1>9. KProceeds'
  <2> SUFFICES ASSUME Undisturbed' PROVE KProceeds'
    BY DEF KProceeds
  <2>1. UNCHANGED marks /\ win'.mode = "free" /\ Frame' = m.target /\ ~Refused /\ ~Answered
        /\ win'.fixed = win.fixed
    BY <1>1, <1>3, <1>4 DEF KProceeds, Undisturbed, Answered, Alike
  <2>2. ~Refused'
    BY <1>1, <2>1 DEF Refused
  <2>3. QED
    BY <1>1, <1>5, <2>1, <2>2 DEF KProceeds, Answered
<1>10. QED
  BY <1>1, <1>6, <1>7, <1>8, <1>9, OnKde

LEMMA KCommitLateKeeps ==
  ASSUME MovesConstantsOK, IInv, adapter = "kde", KCommitLate, UNCHANGED tableVars
  PROVE  IInv'
<1>1. /\ m.script = "done" /\ m' = [m EXCEPT !.todo = <<>>] /\ TableKept
      /\ win' = At(m.target) /\ marks' = marks \cup {"overtaken"}
      /\ UNCHANGED <<adapter, asked, meddled>>
  BY DEF KCommitLate, TableKept, tableVars
<1>2. /\ MovesTypeOK /\ m \in Moves /\ win \in Windows /\ marks \subseteq Marks
      /\ m.target \in Spans /\ asked \in Seq(Requests)
  BY Parts, TargetFits DEF IInv, MovesTypeOK
<1>3. /\ Companion /\ KProceeds /\ StaysOpen
  BY DEF IInv, Proceeds
<1>4. Alike(win', win) /\ win'.mode = win.mode /\ Frame' = m.target
  BY <1>1, <1>2, TargetFits, AtIs DEF Alike, Frame
<1>5. /\ marks' \subseteq Marks /\ "overtaken" \in marks'
      /\ "disturbed" \in marks' <=> "disturbed" \in marks
      /\ "unlooked" \in marks' <=> "unlooked" \in marks
      /\ Asked' <=> Asked
  BY <1>1, <1>2 DEF Marks, Asked
<1>6. /\ m' \in Moves /\ m'.step = m.step /\ m'.answer = m.answer /\ m'.script = m.script
      /\ m'.told = m.told /\ m'.target = m.target /\ m'.post = m.post /\ m'.got = m.got
  <2> DEFINE q == <<>>
  <2>1. q \in Seq(Commanded) /\ m' = [m EXCEPT !.todo = q]
    BY <1>1
  <2> HIDE DEF q
  <2>2. QED
    BY <1>2, <2>1 DEF Moves
<1>7. MovesTypeOK'
  <2>1. (m'.answer = NoAnswer) = (m'.step # "answered")
    BY <1>2, <1>6 DEF MovesTypeOK
  <2>2. QED
    BY <1>1, <1>2, <1>4, <1>5, <1>6, <2>1, TypeKept DEF Alike
<1>8. Pending' = Pending /\ Pending # NoAnswer
  BY <1>1, <1>3, <1>6 DEF Pending, Companion, TellsTruth
<1>9. TellsTruth(Pending)' /\ \A f : Fresh(f)'
  BY <1>5, <1>8 DEF TellsTruth, Fresh
<1>10. /\ m.step \in {"run", "answered"} /\ asked' = <<>>
       /\ \/ m'.post = <<>>
          \/ m'.told = NoAnswer /\ m'.post = <<Complete(Pending')>>
          \/ /\ m'.told = NoAnswer /\ Len(m'.post) = 2
             /\ m'.post = <<Focused(m'.post[1].frame), Complete(Pending')>>
       /\ Answered /\ "unlooked" \notin marks => m.post = <<>> /\ m.answer = m.told
  BY <1>1, <1>3, <1>6, <1>8 DEF Companion
<1>11. Companion'
  BY <1>1, <1>5, <1>6, <1>9, <1>10 DEF Companion, Answered
<1>12. Refused' <=> Refused
  BY <1>1, <1>4 DEF Refused, Alike
<1>13. KProceeds' /\ StaysOpen'
  BY <1>1, <1>3, <1>4, <1>5, <1>6, <1>8, <1>12
     DEF KProceeds, StaysOpen, Undisturbed, Answered, Alike
<1>14. QED
  BY <1>1, <1>7, <1>11, <1>13, OnKde

LEMMA KHandleKeeps ==
  ASSUME IInv, adapter = "kde", KHandle, UNCHANGED tableVars
  PROVE  IInv'
<1>1. /\ m.post # <<>> /\ TableKept /\ UNCHANGED <<adapter, win, asked, marks, meddled>>
  BY DEF KHandle, TableKept, tableVars
<1>2. /\ MovesTypeOK /\ m \in Moves /\ win \in Windows /\ marks \subseteq Marks
      /\ asked \in Seq(Requests) /\ m.post \in Seq(Posted)
  BY Parts DEF IInv, MovesTypeOK
<1>3. /\ Companion /\ KProceeds /\ StaysOpen
  BY DEF IInv, Proceeds
<1>4. m.script = "done" /\ TellsTruth(Pending) /\ m.told = NoAnswer
      /\ m.step \in {"run", "answered"} /\ asked = <<>>
      /\ (Answered => "unlooked" \in marks /\ ~Undisturbed)
  BY <1>1, <1>2, <1>3 DEF Companion, KProceeds
<1>5. Pending \in Answers
  <2>1. m.post[Len(m.post)] \in Posted
    BY <1>1, <1>2
  <2>2. QED
    BY <1>1, <2>1 DEF Pending, Posted
<1>6. PICK p \in Seq(Posted), told \in Answers, cache \in Spans :
        /\ m' = [m EXCEPT !.post = p, !.told = told, !.cache = cache]
        /\ \/ p = <<>> /\ told = Pending /\ Fresh(cache)
           \/ told = NoAnswer /\ p = <<Complete(Pending)>> /\ Fresh(cache)
  <2> DEFINE a == Pending
  <2>1. /\ m.told \in Answers /\ m.cache \in Spans
        /\ m = [m EXCEPT !.told = m.told] /\ m = [m EXCEPT !.cache = m.cache]
    BY <1>2 DEF Moves
  <2>2. CASE m.post = <<Complete(a)>> /\ Fresh(m.cache)
    <3>1. Complete(a).is = "complete" /\ Complete(a).answer = a
      BY DEF Complete
    <3> HIDE DEF Complete, a
    <3>2. Head(m.post) = Complete(a) /\ Tail(m.post) = <<>>
      BY <2>2
    <3>3. m' = [m EXCEPT !.post = <<>>, !.told = a]
      BY <3>1, <3>2 DEF KHandle
    <3>4. m' = [m EXCEPT !.post = <<>>, !.told = a, !.cache = m.cache]
      BY <1>2, <3>3 DEF Moves
    <3>5. <<>> \in Seq(Posted) /\ a \in Answers
      BY <1>5 DEF a
    <3>6. QED
      BY <2>1, <2>2, <3>4, <3>5 DEF a
  <2>3. CASE Len(m.post) = 2 /\ m.post = <<Focused(m.post[1].frame), Complete(a)>>
             /\ Fresh(m.post[1].frame)
    <3> DEFINE f == m.post[1].frame
    <3>1. Focused(f).is = "focus" /\ Focused(f).frame = f /\ f \in Spans
      BY <1>2, <2>3 DEF Focused, Posted
    <3>2. m.post = <<Focused(f), Complete(a)>> /\ Fresh(f)
      BY <2>3
    <3> HIDE DEF Complete, Focused, a, f
    <3>3. Head(m.post) = Focused(f) /\ Tail(m.post) = <<Complete(a)>>
      BY <3>2
    <3>4. m' = [m EXCEPT !.post = <<Complete(a)>>, !.cache = f]
      BY <3>1, <3>3 DEF KHandle
    <3>5. m' = [m EXCEPT !.post = <<Complete(a)>>, !.told = m.told, !.cache = f]
      BY <1>2, <3>4 DEF Moves
    <3>6. <<Complete(a)>> \in Seq(Posted)
      BY <1>5, PostsAre DEF a
    <3>7. QED
      BY <1>4, <2>1, <3>1, <3>2, <3>5, <3>6 DEF a
  <2>4. QED
    BY <1>1, <1>3, <1>4, <2>2, <2>3 DEF Companion
<1>7. /\ m' \in Moves /\ m'.step = m.step /\ m'.answer = m.answer /\ m'.script = m.script
      /\ m'.target = m.target /\ m'.before = m.before /\ m'.got \in {0, m.got}
      /\ m'.post = p /\ m'.told = told /\ m'.cache = cache
  BY <1>2, <1>6 DEF Moves
<1>8. MovesTypeOK'
  <2>1. (m'.answer = NoAnswer) = (m'.step # "answered")
    BY <1>2, <1>7 DEF MovesTypeOK
  <2>2. QED
    BY <1>1, <1>2, <1>7, <2>1, TypeKept
<1>9. Pending' = Pending /\ Frame' = Frame
  <2>1. CASE p = <<>> /\ told = Pending
    BY <1>1, <1>7, <2>1 DEF Pending, Frame
  <2>2. CASE p = <<Complete(Pending)>>
    <3>1. PICK a \in Answers : a = Pending
      BY <1>5
    <3>2. p # <<>> /\ p[Len(p)].answer = a
      BY <2>2, <3>1, PostsAre
    <3>3. QED
      BY <1>1, <1>7, <3>1, <3>2 DEF Pending, Frame
  <2>3. QED
    BY <1>6, <2>1, <2>2
<1>10. TellsTruth(Pending)' /\ (Fresh(cache) => Fresh(m.cache)')
  BY <1>1, <1>4, <1>7, <1>9 DEF TellsTruth, Fresh, Asked
<1>11. \/ m'.post = <<>> /\ Fresh(m.cache)'
       \/ m'.told = NoAnswer /\ m'.post = <<Complete(Pending')>> /\ Fresh(m.cache)'
  BY <1>6, <1>7, <1>9, <1>10
<1>12. Companion'
  BY <1>1, <1>4, <1>7, <1>10, <1>11 DEF Companion, Answered
<1>13. Refused' <=> Refused
  BY <1>1 DEF Refused
<1>14. KProceeds' /\ StaysOpen'
  BY <1>1, <1>3, <1>4, <1>7, <1>9, <1>13
     DEF KProceeds, StaysOpen, Undisturbed, Answered, Asked
<1>15. QED
  BY <1>1, <1>7, <1>8, <1>12, <1>14, OnKde

LEMMA KwinKeeps ==
  ASSUME MovesConstantsOK, IInv, adapter = "kde", UNCHANGED tableVars,
         KwinClient \/ KDeadline \/ KwinServes
  PROVE  IInv'
BY KSendKeeps, KAnswerKeeps, KDeadlineKeeps, KTakeKeeps, KCommitKeeps, KCommitLateKeeps,
   KObserveKeeps, KHandleKeeps DEF KwinClient, KwinServes

-----------------------------------------------------------------------------
(* What happens beside the adapters: the executor, the user, other windows. *)

LEMMA AskKeeps ==
  ASSUME IInv, Ask
  PROVE  IInv'
<1>1. /\ m.step = "idle" /\ To("list")
      /\ UNCHANGED <<adapter, win, asked, marks, meddled, tableVars>>
      /\ adapter = "macos" => \E e \in given : e.el = 1
  BY DEF Ask
<1>2. MovesTypeOK /\ m \in Moves /\ win \in Windows /\ marks \subseteq Marks
      /\ asked \in Seq(Requests) /\ TableKept
  BY <1>1, Parts DEF IInv, MovesTypeOK, TableKept, tableVars
<1>3. m' \in Moves /\ m'.step = "list" /\ m'.answer = m.answer /\ MoveSame /\ ScriptSame
  BY <1>1, <1>2, ToIs DEF Steps
<1>4. MovesTypeOK'
  <2>1. (m'.answer = NoAnswer) = (m'.step # "answered")
    BY <1>1, <1>2, <1>3 DEF MovesTypeOK
  <2>2. QED
    BY <1>1, <1>2, <1>3, <2>1, TypeKept
<1>5. AnswersAreTrue' /\ FocusIsFresh' /\ UndisturbedMovesArrive'
  BY <1>3 DEF AnswersAreTrue, FocusIsFresh, UndisturbedMovesArrive, Answered
<1>6. IdentitiesAreStable' /\ Retained'
  BY <1>1 DEF IInv, IdentitiesAreStable, Retained, Alive, tableVars
<1>7. NotedFirst' /\ PlacesTwice' /\ GoneIsGone' /\ LookIsTrue'
  BY <1>1, <1>3
     DEF IInv, NotedFirst, PlacesTwice, GoneIsGone, LookIsTrue, LooksAt, MoveSame,
         Early, Asked
<1>8. Companion' /\ KProceeds'
  BY <1>1, <1>3
     DEF IInv, Proceeds, Companion, KProceeds, ScriptSame, MoveSame, Answered, Asked
<1>9. StaysOpen' /\ XProceeds' /\ WProceeds' /\ MacProceeds' /\ SProceeds'
  BY <1>1, <1>3
     DEF IInv, Proceeds, StaysOpen, XProceeds, WProceeds, MacProceeds, SProceeds,
         MoveSame,
         Undisturbed, Answered
<1>10. QED
  BY <1>4, <1>5, <1>6, <1>7, <1>8, <1>9 DEF IInv, Proceeds

LEMMA PlacesAreSpans ==
  ASSUME MovesConstantsOK
  PROVE  /\ Frames \subseteq Spans
         /\ \A a : Places(a) \subseteq Frames
BY DEF Frames, Spans, Places, MovesConstantsOK, DeskConstantsOK

LEMMA MeddleKeeps ==
  ASSUME MovesConstantsOK, IInv, Meddle, UNCHANGED tableVars
  PROVE  IInv'
<1>1. /\ win.alive /\ ~Answered /\ UNCHANGED <<adapter, asked, m>> /\ UNCHANGED tableVars
      /\ meddled < Meddlings /\ meddled' = meddled + 1
      /\ marks' = marks \cup {"disturbed"}
                        \cup (IF Watched THEN {"overtaken"} ELSE {})
  BY DEF Meddle
<1>2. /\ MovesTypeOK /\ win \in Windows /\ marks \subseteq Marks
      /\ "free" \in Modes(adapter)
  BY Parts, FreeIsAMode DEF IInv, MovesTypeOK
<1>3. win' \in Windows
  <2>1. CASE \E f \in Places(adapter) : win' = [At(f) EXCEPT !.mode = "free"]
    <3>1. PICK f \in Places(adapter) : win' = [At(f) EXCEPT !.mode = "free"]
      BY <2>1
    <3>2. f \in Spans
      BY PlacesAreSpans
    <3>3. QED
      BY <1>2, <3>1, <3>2, Freed
  <2>2. CASE \E mode \in Modes(adapter) : win' = [win EXCEPT !.mode = mode]
    BY <1>2, <2>2 DEF Windows
  <2>3. CASE \/ win' = [win EXCEPT !.alive = FALSE]
             \/ win' = [win EXCEPT !.listed = FALSE]
    BY <1>2, <2>3 DEF Windows
  <2>4. QED
    BY <2>1, <2>2, <2>3 DEF Meddle
<1>4. /\ marks' \subseteq Marks /\ ~Undisturbed' /\ (Asked' <=> Asked)
      /\ m.got # 0 => "overtaken" \in marks'
      /\ adapter = "kde" /\ m.script = "done" => "overtaken" \in marks'
  BY <1>1, <1>2, Parts DEF Marks, Undisturbed, Asked, Watched
<1>5. MovesTypeOK'
  <2>1. /\ m' \in Moves /\ asked' \in Seq(Requests) /\ adapter' \in Adapters
        /\ (m'.answer = NoAnswer) = (m'.step # "answered")
        /\ nextId' \in Nat /\ other' \in BOOLEAN
        /\ \A e \in table' \cup given' : e.id \in 0..nextId' - 1 /\ e.el \in {1, 2}
    BY <1>1, <1>2 DEF MovesTypeOK, tableVars
  <2>2. meddled' \in 0..Meddlings
    BY <1>1, <1>2 DEF MovesTypeOK, MovesConstantsOK, DeskConstantsOK
  <2>3. win' \in [alive : BOOLEAN, listed : BOOLEAN, mode : Modes(adapter'),
                  fixed : BOOLEAN, x : Int, w : Int]
    BY <1>1, <1>3 DEF Windows
  <2>4. QED
    BY <1>4, <2>1, <2>2, <2>3 DEF MovesTypeOK
<1>6. AnswersAreTrue' /\ FocusIsFresh' /\ UndisturbedMovesArrive'
  BY <1>1 DEF AnswersAreTrue, FocusIsFresh, UndisturbedMovesArrive, Answered
<1>7. IdentitiesAreStable' /\ Retained'
  BY <1>1 DEF IInv, IdentitiesAreStable, Retained, Alive, tableVars
<1>8. NotedFirst' /\ PlacesTwice' /\ GoneIsGone' /\ LookIsTrue'
  BY <1>1, <1>4 DEF IInv, NotedFirst, PlacesTwice, GoneIsGone, LookIsTrue, Asked
<1>9. Companion'
  <2>1. Pending' = Pending
    BY <1>1 DEF Pending
  <2>2. adapter = "kde" /\ m.script = "done" => TellsTruth(Pending)' \/ Pending = NoAnswer
    BY <1>4, <2>1 DEF TellsTruth
  <2>3. adapter = "kde" /\ m.script = "done" => \A f : Fresh(f)'
    BY <1>4 DEF Fresh
  <2>4. adapter = "kde" /\ m.script = "done" => Pending # NoAnswer
    BY DEF IInv, Companion, TellsTruth
  <2>5. QED
    BY <1>1, <1>4, <2>1, <2>2, <2>3, <2>4 DEF IInv, Companion, Answered
<1>10. Proceeds'
  BY <1>4 DEF Proceeds, StaysOpen, XProceeds, WProceeds, MacProceeds, SProceeds, KProceeds
<1>11. QED
  BY <1>5, <1>6, <1>7, <1>8, <1>9, <1>10 DEF IInv

\* The move is left alone.
LEMMA DeskSame ==
  ASSUME IInv, UNCHANGED deskVars, MovesTypeOK', Retained', IdentitiesAreStable'
  PROVE  IInv'
<1>1. UNCHANGED <<adapter, win, asked, m, marks, meddled>>
  BY DEF deskVars
<1>2. AnswersAreTrue' /\ FocusIsFresh' /\ UndisturbedMovesArrive'
  BY <1>1
     DEF IInv, AnswersAreTrue, FocusIsFresh, UndisturbedMovesArrive, Answered, Asked,
         Frame,
         Refused, TooSmall
<1>3. NotedFirst' /\ PlacesTwice' /\ GoneIsGone' /\ LookIsTrue'
  BY <1>1
     DEF IInv, NotedFirst, PlacesTwice, GoneIsGone, LookIsTrue, LooksAt, Extents, Asked
<1>4. Companion'
  BY <1>1 DEF IInv, Companion, TellsTruth, Fresh, Pending, Asked, Answered, Frame
<1>5. StaysOpen' /\ XProceeds' /\ WProceeds' /\ MacProceeds'
  BY <1>1
     DEF IInv, Proceeds, StaysOpen, XProceeds, WProceeds, MacProceeds, Undisturbed,
         Refused,
         TooSmall, Frame, Configuring, Restoring, Answered
<1>6. SProceeds' /\ KProceeds'
  BY <1>1
     DEF IInv, Proceeds, SProceeds, KProceeds, Undisturbed, Refused, Frame, Pending,
         Asked,
         Answered, Commands, SwayCommands, HyprCommands
<1>7. QED
  BY <1>2, <1>3, <1>4, <1>5, <1>6 DEF IInv, Proceeds

LEMMA MacFocusKeeps ==
  ASSUME IInv, NEW element \in {1, 2}, MacFocus(element)
  PROVE  IInv'
<1> DEFINE new == [id |-> nextId, el |-> element]
<1>1. /\ adapter = "macos" /\ m.step = "idle" /\ Alive(element) /\ IdsOf(element) = {}
      /\ given' = given \cup {new} /\ nextId' = nextId + 1 /\ UNCHANGED <<deskVars, other>>
  BY DEF MacFocus
<1>2. PICK swept \in SUBSET {e \in table : ~Alive(e.el)} :
        table' = (table \ swept) \cup {new}
  BY DEF MacFocus
<1>3. new.id = nextId /\ new.el = element
  OBVIOUS
<1>4. /\ MovesTypeOK /\ Retained /\ IdentitiesAreStable /\ nextId \in Nat
      /\ \A e \in table \cup given : e.id \in 0..nextId - 1 /\ e.el \in {1, 2}
  BY DEF IInv, MovesTypeOK
<1> HIDE DEF new
<1>5. MovesTypeOK'
  <2>1. \A e \in table' \cup given' : e.id \in 0..nextId' - 1 /\ e.el \in {1, 2}
    BY <1>1, <1>2, <1>3, <1>4
  <2>2. QED
    BY <1>1, <1>4, <2>1 DEF MovesTypeOK, deskVars
<1>6. \A e \in given : e.el # element /\ e.id # nextId
  <2>1. \A e \in table : e.el # element
    BY <1>1 DEF IdsOf
  <2>2. \A e \in given : e.el = element => e \in table
    BY <1>1, <1>4 DEF Retained
  <2>3. QED
    BY <1>4, <2>1, <2>2
<1>7. IdentitiesAreStable'
  BY <1>1, <1>3, <1>4, <1>6 DEF IdentitiesAreStable
<1>8. Retained'
  <2>1. \A e : Alive(e.el)' <=> Alive(e.el)
    BY <1>1 DEF Alive, deskVars
  <2>2. \A e \in given' : Alive(e.el)' => e \in table'
    BY <1>1, <1>2, <1>4, <2>1 DEF Retained
  <2>3. table' \subseteq given'
    BY <1>1, <1>2, <1>4 DEF Retained
  <2>4. QED
    BY <1>1, <2>2, <2>3 DEF Retained, deskVars
<1>9. QED
  BY <1>1, <1>5, <1>7, <1>8, DeskSame

LEMMA MacCloseKeeps ==
  ASSUME IInv, MacClose
  PROVE  IInv'
<1>1. /\ m.step = "idle" /\ other /\ other' = FALSE /\ UNCHANGED <<deskVars, table, given, nextId>>
  BY DEF MacClose
<1>2. MovesTypeOK'
  BY <1>1 DEF IInv, MovesTypeOK, deskVars
<1>3. \A e : Alive(e.el)' => Alive(e.el)
  BY <1>1 DEF Alive, deskVars
<1>4. Retained' /\ IdentitiesAreStable'
  BY <1>1, <1>3 DEF IInv, Retained, IdentitiesAreStable, deskVars
<1>5. QED
  BY <1>1, <1>2, <1>4, DeskSame

-----------------------------------------------------------------------------
(* The moves of the six adapters, and the calls that read the displays.    *)

LEMMA UnaskedIs ==
  ASSUME NEW t \in Frames, NEW f \in Spans
  PROVE  /\ Unasked(t, f) \in Moves
         /\ Unasked(t, f).step = "idle" /\ Unasked(t, f).got = 0 /\ Unasked(t, f).answer = NoAnswer
         /\ Unasked(t, f).pass = 0 /\ Unasked(t, f).late = FALSE
         /\ Unasked(t, f).script = "idle" /\ Unasked(t, f).post = <<>>
         /\ Unasked(t, f).todo = <<>> /\ Unasked(t, f).told = NoAnswer
<1>1. <<>> \in Seq(Commanded) /\ <<>> \in Seq(Posted)
  OBVIOUS
<1> DEFINE e == <<>>
           none == 0
<1>2. e \in Seq(Commanded) /\ e \in Seq(Posted) /\ none \in 0..2
  BY <1>1
<1>3. Unasked(t, f) =
        [step |-> "idle", got |-> none, read |-> Nowhere,
         target |-> t, before |-> f, seen |-> Nowhere, size |-> 0,
         pass |-> 0, restoring |-> FALSE, late |-> FALSE, todo |-> e, result |-> "ok",
         script |-> "idle", post |-> e, told |-> NoAnswer, cache |-> f, answer |-> NoAnswer]
  BY DEF Unasked
<1> HIDE DEF e, none
<1>4. Unasked(t, f).got = none
  BY <1>3
<1>5. QED
  BY <1>2, <1>3, <1>4, AnswerValues DEF Moves, Steps, e, none

\* A window that nothing has been asked of.
LEMMA AtFirst ==
  ASSUME adapter \in Adapters, win \in Windows, win.alive, win.listed,
         NEW t \in Frames, m = Unasked(t, Frame),
         asked = <<>>, marks = {}, meddled = 0,
         table = {}, given = {}, nextId = 0, other = TRUE, MovesConstantsOK
  PROVE  IInv
<1>1. Frame \in Spans
  BY DEF Frame, Spans, Windows
<1>2. /\ m \in Moves /\ m.step = "idle" /\ m.answer = NoAnswer /\ m.pass = 0 /\ m.got = 0
      /\ m.late = FALSE
      /\ m.script = "idle" /\ m.post = <<>> /\ m.todo = <<>> /\ m.told = NoAnswer
  BY <1>1, UnaskedIs
<1>3. MovesTypeOK
  <2>1. asked \in Seq(Requests) /\ meddled \in 0..Meddlings
    BY DEF MovesConstantsOK, DeskConstantsOK
  <2>2. win \in [alive : BOOLEAN, listed : BOOLEAN, mode : Modes(adapter),
                 fixed : BOOLEAN, x : Int, w : Int]
    BY DEF Windows
  <2>3. QED
    BY <1>2, <2>1, <2>2 DEF MovesTypeOK
<1>4. AnswersAreTrue /\ FocusIsFresh /\ UndisturbedMovesArrive
  BY <1>2 DEF AnswersAreTrue, FocusIsFresh, UndisturbedMovesArrive, Answered
<1>5. IdentitiesAreStable /\ Retained
  BY <1>2 DEF IdentitiesAreStable, Retained
<1>6. NotedFirst /\ PlacesTwice /\ GoneIsGone /\ LookIsTrue
  BY <1>2 DEF NotedFirst, PlacesTwice, GoneIsGone, LookIsTrue, Asked
<1>7. Companion
  BY <1>2 DEF Companion, Asked, Answered
<1>8. Proceeds
  BY <1>2
     DEF Proceeds, StaysOpen, XProceeds, WProceeds, MacProceeds, SProceeds, KProceeds,
         Answered
<1>9. QED
  BY <1>3, <1>4, <1>5, <1>6, <1>7, <1>8 DEF IInv

LEMMA InitIs ==
  ASSUME MovesConstantsOK, Init
  PROVE  IInv
<1>1. CASE MovesInit
  <2>1. PICK f \in Places(adapter) : \E mode \in Modes(adapter), fixed \in BOOLEAN :
          win = [alive |-> TRUE, listed |-> TRUE, mode |-> mode, fixed |-> fixed,
                 x |-> f.x, w |-> f.w]
    BY <1>1 DEF MovesInit, DeskInit
  <2>2. f.x \in Int /\ f.w \in Int
    BY PlacesAreSpans DEF Spans
  <2>3. win \in Windows /\ win.alive /\ win.listed
    BY <2>1, <2>2 DEF Windows
  <2>4. PICK t \in Frames : m = Unasked(t, Frame)
    BY <1>1 DEF MovesInit, DeskInit
  <2>5. QED
    BY <1>1, <2>3, <2>4, AtFirst DEF MovesInit, DeskInit
<1>2. CASE NoMove
  <2> DEFINE t == [x |-> 0, w |-> 1]
  <2>1. t \in Frames
    BY DEF Frames, MovesConstantsOK, DeskConstantsOK
  <2>2. m = Unasked(t, Frame)
    BY <1>2 DEF NoMove
  <2> HIDE DEF t
  <2>3. win \in Windows /\ win.alive /\ win.listed
    BY <1>2, FreeIsAMode DEF NoMove, Windows
  <2>4. QED
    BY <1>2, <2>1, <2>2, <2>3, AtFirst DEF NoMove
<1>3. QED
  BY <1>1, <1>2 DEF Init

LEMMA MovesKeep ==
  ASSUME MovesConstantsOK, IInv, MovesNext
  PROVE  IInv'
<1>1. CASE Ask
  BY <1>1, AskKeeps
<1>2. CASE AdapterStep
  BY <1>2, X11Keeps, WindowsKeeps, ScriptedKeeps, KwinKeeps, MacKeeps
     DEF AdapterStep, Scripted
<1>3. CASE Deadline
  BY <1>3, XDeadlineKeeps, KwinKeeps DEF Deadline
<1>4. CASE Serve
  BY <1>4, XServeKeeps, KwinKeeps DEF Serve
<1>5. CASE UserActs
  BY <1>5, MeddleKeeps DEF UserActs
<1>6. CASE Focus
  BY <1>6, MacFocusKeeps DEF Focus
<1>7. CASE MacClose
  BY <1>7, MacCloseKeeps
<1>8. QED
  BY <1>1, <1>2, <1>3, <1>4, <1>5, <1>6, <1>7 DEF MovesNext

\* A call that reads the displays, or no step at all.
LEMMA MovesStay ==
  ASSUME IInv, UNCHANGED movesVars
  PROVE  IInv'
<1>1. UNCHANGED deskVars /\ UNCHANGED tableVars
  BY DEF movesVars
<1>2. MovesTypeOK' /\ Retained' /\ IdentitiesAreStable'
  BY <1>1 DEF IInv, MovesTypeOK, Retained, IdentitiesAreStable, Alive, deskVars, tableVars
<1>3. QED
  BY <1>1, <1>2, DeskSame

\* What the adapters keep to, through every step of every adapter.
THEOREM MovesInvariant == Spec => []IInv
<1>1. Init => IInv
  BY InitIs, MovesConstantsOK
<1>2. IInv /\ [Next]_systemVars => IInv'
  BY MovesKeep, MovesStay, MovesConstantsOK DEF Next, systemVars
<1>3. QED
  BY <1>1, <1>2, PTL DEF Spec

(***************************************************************************)
(* For every desktop, window and target, and however often the user        *)
(* interferes: the answer of `move_window` says how the window stands,     *)
(* unless the look that was to tell failed, the window changed after that  *)
(* look had begun, or the KDE client gave up without one; the frame KDE    *)
(* reads next is where the move left the window, with the last two of      *)
(* these exceptions; and an identity of macOS stands for one window for    *)
(* ever.                                                                   *)
(***************************************************************************)
THEOREM MovesStaySound == Spec => []MovesAreSound
<1>1. IInv => MovesAreSound
  BY DEF IInv, MovesAreSound
<1>2. QED
  BY <1>1, MovesInvariant, PTL

(***************************************************************************)
(* A move that nothing disturbs ends in its target, on every adapter, from *)
(* every state the window can be moved from.                               *)
(***************************************************************************)
THEOREM UndisturbedAlwaysArrive == Spec => []UndisturbedMovesArrive
<1>1. IInv => UndisturbedMovesArrive
  BY DEF IInv
<1>2. QED
  BY <1>1, MovesInvariant, PTL

-----------------------------------------------------------------------------
(* The greatest and the least of a set of integers that has bounds.        *)

LEMMA LeastExists ==
  ASSUME NEW S \in SUBSET Nat, S # {}
  PROVE  \E i \in S : \A j \in S : i <= j
<1>1. IsWellFoundedOn(OpToRel(<, Nat), Nat)
  BY NatLessThanWellFounded
<1>2. PICK i \in S : \A j \in S : ~(<<j, i>> \in OpToRel(<, Nat))
  BY <1>1, WFMin
<1>3. \A j \in S : ~(j < i)
  BY <1>2 DEF OpToRel
<1>4. QED
  BY <1>3

LEMMA MinIs ==
  ASSUME NEW S \in SUBSET Int, S # {}, NEW b \in Int, \A s \in S : b <= s
  PROVE  Min(S) \in S /\ \A s \in S : Min(S) <= s
<1> DEFINE D == {s - b : s \in S}
<1>1. D \in SUBSET Nat /\ D # {}
  <2>1. \A s \in S : s - b \in Nat
    OBVIOUS
  <2>2. QED
    BY <2>1
<1>2. PICK i \in D : \A j \in D : i <= j
  BY <1>1, LeastExists
<1>3. PICK x \in S : i = x - b
  BY <1>2
<1>4. \A y \in S : x <= y
  <2>1. TAKE y \in S
  <2>2. y - b \in D
    OBVIOUS
  <2>3. i <= y - b
    BY <1>2, <2>2
  <2>4. QED
    BY <1>3, <2>3
<1>5. \E s \in S : \A y \in S : s <= y
  BY <1>4
<1>6. QED
  BY <1>5 DEF Min

LEMMA MaxIs ==
  ASSUME NEW S \in SUBSET Int, S # {}, NEW b \in Int, \A s \in S : s <= b
  PROVE  Max(S) \in S /\ \A s \in S : Max(S) >= s
<1> DEFINE D == {b - s : s \in S}
<1>1. D \in SUBSET Nat /\ D # {}
  OBVIOUS
<1>2. PICK i \in D : \A j \in D : i <= j
  BY <1>1, LeastExists
<1>3. PICK x \in S : i = b - x
  BY <1>2
<1>4. \A y \in S : x >= y
  <2>1. TAKE y \in S
  <2>2. b - y \in D
    OBVIOUS
  <2>3. i <= b - y
    BY <1>2, <2>2
  <2>4. QED
    BY <1>3, <2>3
<1>5. \E s \in S : \A y \in S : s >= y
  BY <1>4
<1>6. QED
  BY <1>5 DEF Max

LEMMA TheLesser ==
  ASSUME NEW a \in Int, NEW b \in Int
  PROVE  Min({a, b}) = IF a <= b THEN a ELSE b
<1> DEFINE c == IF a <= b THEN a ELSE b
<1>1. c \in {a, b} /\ \A y \in {a, b} : c <= y
  OBVIOUS
<1>2. \A x \in {a, b} : (\A y \in {a, b} : x <= y) => x = c
  OBVIOUS
<1>3. QED
  BY <1>1, <1>2 DEF Min

LEMMA TheGreater ==
  ASSUME NEW a \in Int, NEW b \in Int
  PROVE  Max({a, b}) = IF a >= b THEN a ELSE b
<1> DEFINE c == IF a >= b THEN a ELSE b
<1>1. c \in {a, b} /\ \A y \in {a, b} : c >= y
  OBVIOUS
<1>2. \A x \in {a, b} : (\A y \in {a, b} : x >= y) => x = c
  OBVIOUS
<1>3. QED
  BY <1>1, <1>2 DEF Max

LEMMA ClampIs ==
  ASSUME NEW v \in Int, NEW low \in Int, NEW high \in Int, low <= high
  PROVE  Clamp(v, low, high) = IF v < low THEN low ELSE IF v > high THEN high ELSE v
<1>1. Min({v, high}) = IF v <= high THEN v ELSE high
  BY TheLesser
<1> DEFINE u == IF v <= high THEN v ELSE high
<1>2. u \in Int /\ Min({v, high}) = u
  BY <1>1
<1> HIDE DEF u
<1>3. Max({low, u}) = IF low >= u THEN low ELSE u
  BY <1>2, TheGreater
<1>4. Clamp(v, low, high) = IF low >= u THEN low ELSE u
  BY <1>2, <1>3 DEF Clamp
<1>5. QED
  BY <1>4 DEF u

\* The values of a finite sequence have a bound.
LEMMA FiniteIsBounded ==
  ASSUME NEW n \in Nat, NEW f, \A i \in 1 .. n : f[i] \in Int
  PROVE  \E b \in Int : \A i \in 1 .. n : f[i] <= b
<1> DEFINE Unbounded == {k \in 0 .. n : ~\E b \in Int : \A i \in 1 .. k : f[i] <= b}
<1>1. SUFFICES ASSUME Unbounded # {} PROVE FALSE
  <2>1. n \in 0 .. n
    OBVIOUS
  <2>2. n \notin Unbounded => \E b \in Int : \A i \in 1 .. n : f[i] <= b
    BY <2>1
  <2>3. QED
    BY <2>2
<1>2. Unbounded \in SUBSET Nat
  OBVIOUS
<1>3. PICK k \in Unbounded : \A j \in Unbounded : k <= j
  BY <1>1, <1>2, LeastExists
<1>4. k \in 0 .. n /\ k # 0
  <2>1. \A i \in 1 .. 0 : f[i] <= 0
    OBVIOUS
  <2>2. QED
    BY <1>3, <2>1
<1>5. k - 1 \in 0 .. n /\ k - 1 \notin Unbounded
  <2>1. k - 1 \in 0 .. n /\ ~(k <= k - 1)
    BY <1>4
  <2> HIDE DEF Unbounded
  <2>2. QED
    BY <1>3, <2>1
<1>6. PICK b \in Int : \A i \in 1 .. k - 1 : f[i] <= b
  BY <1>5
<1>7. PICK c \in Int : c >= b /\ c >= f[k]
  <2>1. f[k] \in Int
    BY <1>4
  <2>2. CASE b >= f[k]
    BY <2>1, <2>2
  <2>3. CASE f[k] >= b
    BY <2>1, <2>3
  <2>4. QED
    BY <2>1, <2>2, <2>3
<1>8. \A i \in 1 .. k : f[i] <= c
  <2>1. TAKE i \in 1 .. k
  <2>2. CASE i = k
    BY <1>7, <2>2
  <2>3. CASE i # k
    <3>1. i \in 1 .. k - 1
      BY <1>4, <2>3
    <3>2. f[i] <= b /\ f[i] \in Int
      BY <1>4, <1>6, <3>1
    <3>3. QED
      BY <1>7, <3>2
  <2>4. QED
    BY <2>2, <2>3
<1>9. QED
  BY <1>3, <1>8

-----------------------------------------------------------------------------
(* The area a desktop leaves free of a monitor.                            *)

Rects == [x : Int, y : Int, w : Int, h : Int]

\* Those of low .. high that the panels of the two edges leave free.
Unreserved(d, i, low, high, edges) ==
  {n \in low .. high : \A p \in d.panels :
     p.kind \in Reserving /\ p.edge \in edges /\ Meets(p, d.mons[i]) => ~Takes(p, n, Root(d))}

LEMMA RectIs ==
  ASSUME NEW x \in Int, NEW y \in Int, NEW w \in Int, NEW h \in Int
  PROVE  /\ Rect(x, y, w, h) \in Rects
         /\ Rect(x, y, w, h).x = x /\ Rect(x, y, w, h).y = y
         /\ Rect(x, y, w, h).w = w /\ Rect(x, y, w, h).h = h
BY DEF Rect, Rects

LEMMA MonitorIs ==
  ASSUME NEW d \in Desktops, NEW i \in DOMAIN d.mons
  PROVE  /\ d.mons \in Seq(Monitors) /\ d.mons[i] \in Monitors
         /\ d.mons[i].x \in Int /\ d.mons[i].y \in Int
         /\ d.mons[i].w \in Nat \ {0} /\ d.mons[i].h \in Nat \ {0}
<1>1. d.mons \in Seq(Monitors)
  BY DEF Desktops
<1>2. d.mons[i] \in Monitors
  BY <1>1
<1>3. QED
  BY <1>1, <1>2 DEF Monitors

LEMMA PanelIs ==
  ASSUME NEW d \in Desktops, NEW p \in d.panels
  PROVE  /\ p \in Panels /\ p.edge \in {"left", "right", "top", "bottom"}
         /\ p.size \in Nat /\ p.lo \in Int /\ p.hi \in Int /\ p.kind \in WindowKinds
<1>1. p \in Panels
  BY DEF Desktops
<1>2. QED
  BY <1>1 DEF Panels

LEMMA FarthestIs ==
  ASSUME NEW n \in Nat \ {0}, NEW f, \A i \in 1 .. n : f[i] \in Int
  PROVE  Max({f[i] : i \in 1 .. n}) \in Int
<1>1. PICK b \in Int : \A i \in 1 .. n : f[i] <= b
  BY FiniteIsBounded
<1> DEFINE S == {f[i] : i \in 1 .. n}
<1>2. S \in SUBSET Int /\ \A s \in S : s <= b
  BY <1>1
<1>3. S # {}
  <2>1. 1 \in 1 .. n
    OBVIOUS
  <2>2. QED
    BY <2>1
<1> HIDE DEF S
<1>4. Max(S) \in S
  BY <1>1, <1>2, <1>3, MaxIs
<1>5. QED
  BY <1>2, <1>4 DEF S

LEMMA RootIs ==
  ASSUME NEW d \in Desktops
  PROVE  Root(d) \in Rects /\ Root(d).w \in Int /\ Root(d).h \in Int
<1> DEFINE n == Len(d.mons)
           f == [i \in 1 .. n |-> d.mons[i].x + d.mons[i].w]
           g == [i \in 1 .. n |-> d.mons[i].y + d.mons[i].h]
<1>1. d.mons \in Seq(Monitors) /\ d.mons # <<>>
  BY DEF Desktops
<1>2. n \in Nat \ {0} /\ DOMAIN d.mons = 1 .. n
  BY <1>1
<1>3. \A i \in 1 .. n : f[i] \in Int /\ g[i] \in Int
  BY <1>2, MonitorIs
<1>4. /\ {d.mons[i].x + d.mons[i].w : i \in DOMAIN d.mons} = {f[i] : i \in 1 .. n}
      /\ {d.mons[i].y + d.mons[i].h : i \in DOMAIN d.mons} = {g[i] : i \in 1 .. n}
  BY <1>2
<1> HIDE DEF n, f, g
<1>5. Max({f[i] : i \in 1 .. n}) \in Int /\ Max({g[i] : i \in 1 .. n}) \in Int
  BY <1>2, <1>3, FarthestIs
<1>6. Root(d) = Rect(0, 0, Max({f[i] : i \in 1 .. n}), Max({g[i] : i \in 1 .. n}))
  BY <1>4 DEF Root
<1> DEFINE a == Max({f[i] : i \in 1 .. n})
           b == Max({g[i] : i \in 1 .. n})
<1>7. a \in Int /\ b \in Int /\ Root(d) = Rect(0, 0, a, b)
  BY <1>5, <1>6
<1> HIDE DEF a, b
<1>8. QED
  BY <1>7, RectIs

\* Integers without a gap are an interval.
LEMMA ConvexIs ==
  ASSUME NEW low \in Int, NEW high \in Int, NEW X \in SUBSET (low .. high), X # {},
         \A a \in X, b \in X : \A n \in a .. b : n \in X
  PROVE  /\ Min(X) \in low .. high /\ Cardinality(X) \in Nat
         /\ Min(X) .. Min(X) + Cardinality(X) - 1 = X
         /\ Min(X) + Cardinality(X) - 1 <= high
<1>1. X \in SUBSET Int /\ \A s \in X : low <= s /\ s <= high
  OBVIOUS
<1>2. Min(X) \in X /\ \A s \in X : Min(X) <= s
  BY <1>1, MinIs
<1>3. Max(X) \in X /\ \A s \in X : Max(X) >= s
  BY <1>1, MaxIs
<1>4. PICK a \in X : a = Min(X)
  BY <1>2
<1>5. PICK b \in X : b = Max(X)
  BY <1>3
<1>6. a \in Int /\ b \in Int /\ a <= b /\ low <= a /\ b <= high
  BY <1>1, <1>2, <1>4, <1>5
<1>7. X = a .. b
  <2>1. ASSUME NEW n \in X PROVE n \in a .. b
    BY <1>1, <1>2, <1>3, <1>4, <1>5, <1>6
  <2>2. \A n \in a .. b : n \in X
    OBVIOUS
  <2>3. QED
    BY <2>1, <2>2
<1>8. Cardinality(a .. b) = b - a + 1
  BY <1>6, FS_Interval
<1>9. Cardinality(X) = b - a + 1
  BY <1>7, <1>8
<1>10. a + (b - a + 1) - 1 = b /\ b - a + 1 \in Nat /\ a \in low .. high
  BY <1>6
<1>11. QED
  BY <1>4, <1>6, <1>7, <1>9, <1>10

LEMMA UnreservedIsConvex ==
  ASSUME NEW d \in Desktops, NEW i \in DOMAIN d.mons, NEW low \in Int, NEW high \in Int,
         NEW edges, edges = {"left", "right"} \/ edges = {"top", "bottom"}
  PROVE  LET X == Unreserved(d, i, low, high, edges)
         IN  X \in SUBSET (low .. high) /\ \A a \in X, b \in X : \A n \in a .. b : n \in X
<1> DEFINE X == Unreserved(d, i, low, high, edges)
<1>1. X \in SUBSET (low .. high)
  BY DEF Unreserved
<1>2. ASSUME NEW a \in X, NEW b \in X, NEW n \in a .. b
      PROVE  n \in X
  <2>1. a \in Int /\ b \in Int /\ n \in Int /\ low <= a /\ a <= n /\ n <= b /\ b <= high
    BY <1>1
  <2>2. n \in low .. high
    BY <2>1
  <2>3. ASSUME NEW p \in d.panels,
               p.kind \in Reserving, p.edge \in edges, Meets(p, d.mons[i])
        PROVE  ~Takes(p, n, Root(d))
    <3>1. ~Takes(p, a, Root(d)) /\ ~Takes(p, b, Root(d))
      BY <2>3 DEF Unreserved
    <3>2. p.size \in Nat /\ p.edge \in {"left", "right", "top", "bottom"}
      BY PanelIs
    <3>3. Root(d).w \in Int /\ Root(d).h \in Int
      BY RootIs
    <3> DEFINE w == Root(d).w
               h == Root(d).h
    <3>4. w \in Int /\ h \in Int
      BY <3>3
    <3>5. \A k : Takes(p, k, Root(d)) <=>
                   /\ p.size > 0
                   /\ p.edge \in {"left", "top"} => k < p.size
                   /\ p.edge = "right" => k >= w - p.size
                   /\ p.edge = "bottom" => k >= h - p.size
      BY <3>2 DEF Takes
    <3> HIDE DEF w, h
    <3>6. CASE p.edge \in {"left", "top"}
      BY <2>1, <3>1, <3>2, <3>5, <3>6
    <3>7. CASE p.edge = "right"
      BY <2>1, <3>1, <3>2, <3>4, <3>5, <3>7
    <3>8. CASE p.edge = "bottom"
      BY <2>1, <3>1, <3>2, <3>4, <3>5, <3>8
    <3>9. QED
      BY <3>2, <3>6, <3>7, <3>8
  <2>4. QED
    BY <2>2, <2>3 DEF Unreserved
<1>3. QED
  BY <1>1, <1>2

\* The free columns, and the free rows.
Columns(d, i) ==
  Unreserved(d, i, d.mons[i].x, d.mons[i].x + d.mons[i].w - 1, {"left", "right"})
Rows(d, i) ==
  Unreserved(d, i, d.mons[i].y, d.mons[i].y + d.mons[i].h - 1, {"top", "bottom"})

LEMMA FreeLines ==
  ASSUME NEW d \in Desktops, NEW i \in DOMAIN d.mons
  PROVE  /\ WorkPoints(d, i) = Columns(d, i) \X Rows(d, i)
         /\ Columns(d, i) \in SUBSET (d.mons[i].x .. d.mons[i].x + d.mons[i].w - 1)
         /\ Rows(d, i) \in SUBSET (d.mons[i].y .. d.mons[i].y + d.mons[i].h - 1)
BY DEF WorkPoints, Columns, Rows, Unreserved

\* a is a rectangle of the pixels of monitor r.
Within(a, r) ==
  /\ a \in Rects /\ a.w >= 0 /\ a.h >= 0
  /\ a.x >= r.x /\ a.x + a.w <= r.x + r.w
  /\ a.y >= r.y /\ a.y + a.h <= r.y + r.h

LEMMA WithinCovers ==
  ASSUME NEW d \in Desktops, NEW i \in DOMAIN d.mons, NEW a, Within(a, d.mons[i])
  PROVE  Points(a) \subseteq Points(d.mons[i])
<1> DEFINE r == d.mons[i]
<1>1. r.x \in Int /\ r.y \in Int /\ r.w \in Nat \ {0} /\ r.h \in Nat \ {0}
  BY MonitorIs
<1>2. a.x \in Int /\ a.y \in Int /\ a.w \in Int /\ a.h \in Int
  BY DEF Within, Rects
<1>3. /\ a.x >= r.x /\ a.x + a.w <= r.x + r.w
      /\ a.y >= r.y /\ a.y + a.h <= r.y + r.h
  BY DEF Within
<1> HIDE DEF r
<1>4. /\ \A n \in a.x .. a.x + a.w - 1 : n \in r.x .. r.x + r.w - 1
      /\ \A n \in a.y .. a.y + a.h - 1 : n \in r.y .. r.y + r.h - 1
  BY <1>1, <1>2, <1>3
<1>5. Points(a) \subseteq Points(r)
  BY <1>4 DEF Points
<1>6. QED
  BY <1>5 DEF r

LEMMA SidesOf ==
  ASSUME NEW X, NEW Y, X # {}, Y # {}
  PROVE  {p[1] : p \in X \X Y} = X /\ {p[2] : p \in X \X Y} = Y
<1>1. PICK x0 \in X, y0 \in Y : TRUE
  OBVIOUS
<1>2. \A p \in X \X Y : p[1] \in X /\ p[2] \in Y
  OBVIOUS
<1>3. \A x \in X : <<x, y0>> \in X \X Y /\ <<x, y0>>[1] = x
  OBVIOUS
<1>4. \A y \in Y : <<x0, y>> \in X \X Y /\ <<x0, y>>[2] = y
  OBVIOUS
<1>5. {p[1] : p \in X \X Y} = X
  BY <1>2, <1>3
<1>6. {p[2] : p \in X \X Y} = Y
  BY <1>2, <1>4
<1>7. QED
  BY <1>5, <1>6

\* What a compositor says of a monitor is exactly what is free of it.
LEMMA WorkAreaIs ==
  ASSUME NEW d \in Desktops, NEW i \in DOMAIN d.mons
  PROVE  Within(WorkArea(d, i), d.mons[i]) /\ Points(WorkArea(d, i)) = WorkPoints(d, i)
<1> DEFINE r == d.mons[i]
           X == Columns(d, i)
           Y == Rows(d, i)
           xs == {p[1] : p \in WorkPoints(d, i)}
           ys == {p[2] : p \in WorkPoints(d, i)}
<1>1. r.x \in Int /\ r.y \in Int /\ r.w \in Nat \ {0} /\ r.h \in Nat \ {0}
  BY MonitorIs
<1>2. /\ WorkPoints(d, i) = X \X Y
      /\ X \in SUBSET (r.x .. r.x + r.w - 1) /\ Y \in SUBSET (r.y .. r.y + r.h - 1)
  BY FreeLines
<1>3. \A a \in X, b \in X : \A n \in a .. b : n \in X
  BY <1>1, UnreservedIsConvex DEF Columns
<1>4. \A a \in Y, b \in Y : \A n \in a .. b : n \in Y
  BY <1>1, UnreservedIsConvex DEF Rows
<1>5. CASE WorkPoints(d, i) = {}
  <2>1. WorkArea(d, i) = Rect(r.x, r.y, 0, 0)
    BY <1>5 DEF WorkArea
  <2>2. /\ WorkArea(d, i) \in Rects
        /\ WorkArea(d, i).x = r.x /\ WorkArea(d, i).y = r.y
        /\ WorkArea(d, i).w = 0 /\ WorkArea(d, i).h = 0
    <3> HIDE DEF r
    <3>1. r.x \in Int /\ r.y \in Int /\ 0 \in Int
      BY <1>1
    <3>2. QED
      BY <2>1, <3>1, RectIs
  <2>3. Within(WorkArea(d, i), r)
    <3> HIDE DEF r
    <3>1. QED
      BY <1>1, <2>2 DEF Within
  <2>4. r.x .. r.x + 0 - 1 = {}
    BY <1>1
  <2>5. Points(WorkArea(d, i)) = {}
    BY <2>2, <2>4 DEF Points
  <2>6. QED
    BY <1>5, <2>3, <2>5
<1>6. CASE WorkPoints(d, i) # {}
  <2>1. X # {} /\ Y # {}
    BY <1>2, <1>6
  <2>2. xs = X /\ ys = Y
    <3> HIDE DEF X, Y
    <3>1. {p[1] : p \in X \X Y} = X /\ {p[2] : p \in X \X Y} = Y
      BY <2>1, SidesOf
    <3>2. QED
      BY <1>2, <3>1
  <2>3. WorkArea(d, i) = Rect(Min(xs), Min(ys), Cardinality(xs), Cardinality(ys))
    BY <1>6 DEF WorkArea
  <2>4. WorkArea(d, i) = Rect(Min(X), Min(Y), Cardinality(X), Cardinality(Y))
    BY <2>2, <2>3
  <2> DEFINE x0 == Min(X)
             y0 == Min(Y)
             w0 == Cardinality(X)
             h0 == Cardinality(Y)
             xh == r.x + r.w - 1
             yh == r.y + r.h - 1
  <2>5. xh \in Int /\ yh \in Int
    BY <1>1
  <2>6. X \in SUBSET (r.x .. xh) /\ Y \in SUBSET (r.y .. yh)
    BY <1>2
  <2> HIDE DEF xh, yh
  <2>7. /\ x0 \in r.x .. xh /\ w0 \in Nat
        /\ x0 .. x0 + w0 - 1 = X /\ x0 + w0 - 1 <= xh
    BY <1>1, <1>3, <2>1, <2>5, <2>6, ConvexIs
  <2>8. /\ y0 \in r.y .. yh /\ h0 \in Nat
        /\ y0 .. y0 + h0 - 1 = Y /\ y0 + h0 - 1 <= yh
    BY <1>1, <1>4, <2>1, <2>5, <2>6, ConvexIs
  <2>9. WorkArea(d, i) = Rect(x0, y0, w0, h0)
    BY <2>4
  <2> HIDE DEF x0, y0, w0, h0, X, Y
  <2>10. /\ WorkArea(d, i) \in Rects
         /\ WorkArea(d, i).x = x0 /\ WorkArea(d, i).y = y0
         /\ WorkArea(d, i).w = w0 /\ WorkArea(d, i).h = h0
    <3>1. x0 \in Int /\ y0 \in Int /\ w0 \in Int /\ h0 \in Int
      BY <1>1, <2>5, <2>7, <2>8
    <3>2. QED
      BY <2>9, <3>1, RectIs
  <2>11. Within(WorkArea(d, i), r)
    <3>1. /\ x0 >= r.x /\ x0 + w0 <= r.x + r.w /\ w0 >= 0
          /\ y0 >= r.y /\ y0 + h0 <= r.y + r.h /\ h0 >= 0
      <4>1. xh = r.x + r.w - 1 /\ yh = r.y + r.h - 1
        BY DEF xh, yh
      <4> HIDE DEF r
      <4>2. x0 \in Int /\ y0 \in Int /\ x0 >= r.x /\ y0 >= r.y
        BY <1>1, <2>5, <2>7, <2>8
      <4>3. x0 + w0 - 1 <= xh /\ y0 + h0 - 1 <= yh /\ w0 \in Nat /\ h0 \in Nat
        BY <2>7, <2>8
      <4>4. QED
        BY <1>1, <4>1, <4>2, <4>3
    <3>2. QED
      BY <2>10, <3>1 DEF Within
  <2>12. Points(WorkArea(d, i)) = X \X Y
    BY <2>7, <2>8, <2>10 DEF Points
  <2>13. QED
    BY <1>2, <2>11, <2>12
<1>7. QED
  BY <1>5, <1>6

-----------------------------------------------------------------------------
(* What the X11 adapter takes from a monitor.                              *)

LEMMA EligibleIs ==
  ASSUME NEW k \in WindowKinds
  PROVE  StrutWindowIsEligible(Window(k)) <=> k \in Reserving
<1>1. CASE k = "panel"
  BY <1>1 DEF StrutWindowIsEligible, Window, Reserving
<1>2. CASE k = "autohide"
  BY <1>2 DEF StrutWindowIsEligible, Window, Reserving
<1>3. CASE k = "withdrawn"
  BY <1>3 DEF StrutWindowIsEligible, Window, Reserving
<1>4. CASE k = "sticky"
  BY <1>4 DEF StrutWindowIsEligible, Window, Reserving
<1>5. CASE k = "elsewhere"
  BY <1>5 DEF StrutWindowIsEligible, Window, Reserving
<1>6. CASE k = "dock"
  BY <1>6 DEF StrutWindowIsEligible, Window, Reserving
<1>7. CASE k = "unmapped"
  BY <1>7 DEF StrutWindowIsEligible, Window, Reserving
<1>8. QED
  BY <1>1, <1>2, <1>3, <1>4, <1>5, <1>6, <1>7 DEF WindowKinds

\* What the windows reserve is what the panels that count reserve.
LEMMA StrutsAre ==
  ASSUME NEW d \in Desktops
  PROVE  CollectStruts(d) = {p \in d.panels : p.kind \in Reserving}
<1>1. \A p \in d.panels : p.kind \in WindowKinds
  BY PanelIs
<1>2. \A p \in d.panels : WindowStrut(p) = IF p.kind \in Reserving THEN {p} ELSE {}
  BY <1>1, EligibleIs DEF WindowStrut
<1>3. QED
  BY <1>2 DEF CollectStruts

LEMMA MeetsIs ==
  ASSUME NEW d \in Desktops, NEW i \in DOMAIN d.mons, NEW e \in Desktops, NEW p \in e.panels
  PROVE  LET r == d.mons[i]
         IN  /\ p.edge \in {"left", "right"} =>
                  (Meets(p, r) <=> Overlaps(p, r.y, r.y + r.h))
             /\ p.edge \in {"top", "bottom"} =>
                  (Meets(p, r) <=> Overlaps(p, r.x, r.x + r.w))
<1> DEFINE r == d.mons[i]
<1>1. r.x \in Int /\ r.y \in Int /\ r.w \in Nat \ {0} /\ r.h \in Nat \ {0}
  BY MonitorIs
<1>2. p.lo \in Int /\ p.hi \in Int
  BY PanelIs
<1> DEFINE a == p.lo
           b == p.hi
<1>3. ASSUME NEW low \in Int, NEW k \in Nat \ {0}
      PROVE  (\E n \in a .. b : n \in low .. low + k - 1) <=> (a <= b /\ a < low + k /\ b >= low)
  <2>1. a \in Int /\ b \in Int
    BY <1>2
  <2> HIDE DEF a, b
  <2>2. ASSUME NEW n \in a .. b, n \in low .. low + k - 1
        PROVE  a <= b /\ a < low + k /\ b >= low
    BY <1>3, <2>1, <2>2
  <2>3. ASSUME a <= b, a < low + k, b >= low
        PROVE  \E n \in a .. b : n \in low .. low + k - 1
    <3>1. CASE a >= low
      <4>1. a \in a .. b /\ a \in low .. low + k - 1
        BY <1>3, <2>1, <2>3, <3>1
      <4>2. QED
        BY <4>1
    <3>2. CASE a < low
      <4>1. low \in a .. b /\ low \in low .. low + k - 1
        BY <1>3, <2>1, <2>3, <3>2
      <4>2. QED
        BY <4>1
    <3>3. QED
      BY <1>3, <2>1, <3>1, <3>2
  <2>4. QED
    BY <2>2, <2>3
<1>4. (\E n \in a .. b : n \in r.y .. r.y + r.h - 1) <=> (a <= b /\ a < r.y + r.h /\ b >= r.y)
  <2> HIDE DEF a, b, r
  <2>1. QED
    BY <1>1, <1>3
<1>5. (\E n \in a .. b : n \in r.x .. r.x + r.w - 1) <=> (a <= b /\ a < r.x + r.w /\ b >= r.x)
  <2> HIDE DEF a, b, r
  <2>1. QED
    BY <1>1, <1>3
<1>6. p.edge \in {"left", "right"} => (Meets(p, r) <=> Overlaps(p, r.y, r.y + r.h))
  BY <1>4 DEF Meets, Overlaps
<1>7. p.edge \in {"top", "bottom"} => (Meets(p, r) <=> Overlaps(p, r.x, r.x + r.w))
  <2>1. p.edge \in {"top", "bottom"} => p.edge \notin {"left", "right"}
    OBVIOUS
  <2>2. QED
    BY <1>5, <2>1 DEF Meets, Overlaps
<1>8. QED
  BY <1>6, <1>7

\* One side of a monitor, taken from the low end by A and from the high end by B:
\* what is left begins at a and is k long.
SideLeft(low, high, A, B, a, k) ==
  /\ a \in low .. high /\ k \in Nat /\ a + k <= high
  /\ a .. a + k - 1 = {n \in low .. high - 1 : (\A v \in A : n >= v) /\ (\A v \in B : n < v)}

LEMMA SideIs ==
  ASSUME NEW low \in Int, NEW high \in Int, low < high, NEW A \in SUBSET Int, NEW B \in SUBSET Int
  PROVE  LET a == Max({low} \cup {Clamp(v, low, high) : v \in A})
             b == Min({high} \cup {Clamp(v, low, high) : v \in B})
             k == Max({b - a, 0})
         IN  SideLeft(low, high, A, B, a, k)
<1> DEFINE S == {low} \cup {Clamp(v, low, high) : v \in A}
           T == {high} \cup {Clamp(v, low, high) : v \in B}
           a == Max(S)
           b == Min(T)
           k == Max({b - a, 0})
<1>1. \A v \in Int : Clamp(v, low, high) = IF v < low THEN low ELSE IF v > high THEN high ELSE v
  BY ClampIs
<1>2. \A v \in Int : Clamp(v, low, high) \in low .. high
  BY <1>1
<1>3. S \in SUBSET (low .. high) /\ T \in SUBSET (low .. high) /\ low \in S /\ high \in T
  <2>1. low \in low .. high /\ high \in low .. high
    OBVIOUS
  <2>2. QED
    BY <1>2, <2>1
<1>4. /\ S \in SUBSET Int /\ S # {} /\ \A s \in S : s <= high
      /\ T \in SUBSET Int /\ T # {} /\ \A s \in T : low <= s
  <2> HIDE DEF S, T
  <2>1. QED
    BY <1>3
<1>5. /\ a \in low .. high /\ \A s \in S : a >= s
      /\ b \in low .. high /\ \A s \in T : b <= s
      /\ a \in S /\ b \in T
  <2> HIDE DEF S, T
  <2>1. a \in S /\ \A s \in S : a >= s
    BY <1>4, MaxIs
  <2>2. b \in T /\ \A s \in T : b <= s
    BY <1>4, MinIs
  <2>3. QED
    BY <1>3, <2>1, <2>2
<1>6. \A n \in low .. high - 1 : n >= a <=> \A v \in A : n >= v
  <2>1. TAKE n \in low .. high - 1
  <2>2. \A v \in A : n >= Clamp(v, low, high) <=> n >= v
    BY <1>1
  <2>3. ASSUME n >= a
        PROVE  \A v \in A : n >= v
    <3>1. TAKE v \in A
    <3>2. Clamp(v, low, high) \in S /\ Clamp(v, low, high) \in Int
      BY <1>2
    <3>3. a >= Clamp(v, low, high) /\ a \in Int
      <4> HIDE DEF S, a
      <4>1. QED
        BY <1>5, <3>2
    <3>4. n >= Clamp(v, low, high)
      <4> HIDE DEF a
      <4>1. QED
        BY <2>3, <3>2, <3>3
    <3>5. QED
      BY <2>2, <3>4
  <2>4. ASSUME \A v \in A : n >= v
        PROVE  n >= a
    <3>1. n >= low
      OBVIOUS
    <3>2. \A s \in S : n >= s
      BY <2>2, <2>4, <3>1
    <3>3. QED
      BY <1>5, <3>2
  <2>5. QED
    BY <2>3, <2>4
<1>7. \A n \in low .. high - 1 : n < b <=> \A v \in B : n < v
  <2>1. TAKE n \in low .. high - 1
  <2>2. \A v \in B : n < Clamp(v, low, high) <=> n < v
    BY <1>1
  <2>3. ASSUME n < b
        PROVE  \A v \in B : n < v
    <3>1. TAKE v \in B
    <3>2. Clamp(v, low, high) \in T /\ Clamp(v, low, high) \in Int
      BY <1>2
    <3>3. b <= Clamp(v, low, high) /\ b \in Int
      <4> HIDE DEF T, b
      <4>1. QED
        BY <1>5, <3>2
    <3>4. n < Clamp(v, low, high)
      <4> HIDE DEF b
      <4>1. QED
        BY <2>3, <3>2, <3>3
    <3>5. QED
      BY <2>2, <3>4
  <2>4. ASSUME \A v \in B : n < v
        PROVE  n < b
    <3>1. n < high
      OBVIOUS
    <3>2. \A s \in T : n < s
      BY <2>2, <2>4, <3>1
    <3>3. QED
      BY <1>5, <3>2
  <2>5. QED
    BY <2>3, <2>4
<1> HIDE DEF S, T
<1>8. a \in Int /\ b \in Int /\ low <= a /\ a <= high /\ low <= b /\ b <= high
  BY <1>5
<1> DEFINE c == b - a
<1>9. c \in Int /\ c = b - a
  BY <1>8
<1> HIDE DEF a, b, c
<1>10. Max({c, 0}) = IF c >= 0 THEN c ELSE 0
  BY <1>9, TheGreater
<1>11. k = IF c >= 0 THEN c ELSE 0
  BY <1>10 DEF c
<1> HIDE DEF k
<1>12. k \in Nat /\ a + k <= high
  BY <1>8, <1>9, <1>11
<1>13. \A n \in Int : n \in a .. a + k - 1 <=> n \in low .. high - 1 /\ n >= a /\ n < b
  BY <1>8, <1>9, <1>11
<1>14. a .. a + k - 1 = {n \in low .. high - 1 : n >= a /\ n < b}
  <2>1. a + k - 1 \in Int
    BY <1>8, <1>12
  <2>2. \A n \in a .. a + k - 1 : n \in Int
    BY <1>8, <2>1
  <2>3. QED
    BY <1>13, <2>2
<1>15. a .. a + k - 1 =
         {n \in low .. high - 1 : (\A v \in A : n >= v) /\ (\A v \in B : n < v)}
  BY <1>6, <1>7, <1>14
<1>16. a \in low .. high
  BY <1>8
<1>17. QED
  BY <1>12, <1>15, <1>16 DEF SideLeft, a, b, k, S, T

\* The reservations of the windows that take from one side.
Taking(struts, edge, low, high) ==
  {p \in struts : p.edge = edge /\ p.size > 0 /\ Overlaps(p, low, high)}

\* One side of what X11 has left: from the lower edge, and from the upper one.
LowerBy(struts, edge, low, high) == {p.size : p \in Taking(struts, edge, low, high)}
UpperBy(struts, edge, low, high, far) == {far - p.size : p \in Taking(struts, edge, low, high)}

LEMMA UsableAreaSides ==
  ASSUME NEW r, NEW root, NEW struts
  PROVE  LET A == LowerBy(struts, "left", r.y, r.y + r.h)
             B == UpperBy(struts, "right", r.y, r.y + r.h, root.w)
             C == LowerBy(struts, "top", r.x, r.x + r.w)
             D == UpperBy(struts, "bottom", r.x, r.x + r.w, root.h)
             x0 == Max({r.x} \cup {Clamp(v, r.x, r.x + r.w) : v \in A})
             x1 == Min({r.x + r.w} \cup {Clamp(v, r.x, r.x + r.w) : v \in B})
             y0 == Max({r.y} \cup {Clamp(v, r.y, r.y + r.h) : v \in C})
             y1 == Min({r.y + r.h} \cup {Clamp(v, r.y, r.y + r.h) : v \in D})
         IN  UsableArea(r, root, struts) = Rect(x0, y0, Max({x1 - x0, 0}), Max({y1 - y0, 0}))
<1> DEFINE A == LowerBy(struts, "left", r.y, r.y + r.h)
           B == UpperBy(struts, "right", r.y, r.y + r.h, root.w)
           C == LowerBy(struts, "top", r.x, r.x + r.w)
           D == UpperBy(struts, "bottom", r.x, r.x + r.w, root.h)
<1>1. {Clamp(p.size, r.x, r.x + r.w) : p \in Taking(struts, "left", r.y, r.y + r.h)} =
        {Clamp(v, r.x, r.x + r.w) : v \in A}
  BY DEF LowerBy
<1>2. {Clamp(root.w - p.size, r.x, r.x + r.w) : p \in Taking(struts, "right", r.y, r.y + r.h)} =
        {Clamp(v, r.x, r.x + r.w) : v \in B}
  BY DEF UpperBy
<1>3. {Clamp(p.size, r.y, r.y + r.h) : p \in Taking(struts, "top", r.x, r.x + r.w)} =
        {Clamp(v, r.y, r.y + r.h) : v \in C}
  BY DEF LowerBy
<1>4. {Clamp(root.h - p.size, r.y, r.y + r.h) : p \in Taking(struts, "bottom", r.x, r.x + r.w)} =
        {Clamp(v, r.y, r.y + r.h) : v \in D}
  BY DEF UpperBy
<1> HIDE DEF A, B, C, D
<1>5. QED
  BY <1>1, <1>2, <1>3, <1>4 DEF UsableArea, Taking, A, B, C, D

LEMMA UsableAreaIs ==
  ASSUME NEW d \in Desktops, NEW i \in DOMAIN d.mons, NEW root \in Rects, NEW e \in Desktops
  PROVE  /\ Within(UsableArea(d.mons[i], root, CollectStruts(e)), d.mons[i])
         /\ e = d /\ root = Root(d) =>
              Points(UsableArea(d.mons[i], root, CollectStruts(e))) = WorkPoints(d, i)
<1> DEFINE r == d.mons[i]
           struts == CollectStruts(e)
           A == LowerBy(struts, "left", r.y, r.y + r.h)
           B == UpperBy(struts, "right", r.y, r.y + r.h, root.w)
           C == LowerBy(struts, "top", r.x, r.x + r.w)
           D == UpperBy(struts, "bottom", r.x, r.x + r.w, root.h)
           xh == r.x + r.w
           yh == r.y + r.h
           x0 == Max({r.x} \cup {Clamp(v, r.x, xh) : v \in A})
           x1 == Min({xh} \cup {Clamp(v, r.x, xh) : v \in B})
           y0 == Max({r.y} \cup {Clamp(v, r.y, yh) : v \in C})
           y1 == Min({yh} \cup {Clamp(v, r.y, yh) : v \in D})
           w == Max({x1 - x0, 0})
           h == Max({y1 - y0, 0})
<1>1. r.x \in Int /\ r.y \in Int /\ r.w \in Nat \ {0} /\ r.h \in Nat \ {0}
  BY MonitorIs
<1>2. xh \in Int /\ yh \in Int /\ r.x < xh /\ r.y < yh
  <2> HIDE DEF r
  <2>1. QED
    BY <1>1
<1>3. root.w \in Int /\ root.h \in Int
  BY DEF Rects
<1>4. \A p \in struts : p \in e.panels /\ p.kind \in Reserving /\ p.size \in Nat
  BY StrutsAre, PanelIs
<1>5. A \in SUBSET Int /\ B \in SUBSET Int /\ C \in SUBSET Int /\ D \in SUBSET Int
  <2> HIDE DEF struts
  <2>1. QED
    BY <1>3, <1>4 DEF LowerBy, UpperBy, Taking
<1>6. UsableArea(r, root, struts) = Rect(x0, y0, w, h)
  BY UsableAreaSides
<1>7. /\ x0 \in r.x .. xh /\ w \in Nat /\ x0 + w <= xh
      /\ x0 .. x0 + w - 1 =
           {n \in r.x .. xh - 1 : (\A v \in A : n >= v) /\ (\A v \in B : n < v)}
  <2>1. r.x \in Int /\ xh \in Int /\ r.x < xh
    BY <1>1, <1>2
  <2> HIDE DEF A, B, xh, r
  <2>2. SideLeft(r.x, xh, A, B, x0, w)
    BY <1>5, <2>1, SideIs
  <2> HIDE DEF x0, w
  <2>3. QED
    BY <2>2 DEF SideLeft
<1>8. /\ y0 \in r.y .. yh /\ h \in Nat /\ y0 + h <= yh
      /\ y0 .. y0 + h - 1 =
           {n \in r.y .. yh - 1 : (\A v \in C : n >= v) /\ (\A v \in D : n < v)}
  <2>1. r.y \in Int /\ yh \in Int /\ r.y < yh
    BY <1>1, <1>2
  <2> HIDE DEF C, D, yh, r
  <2>2. SideLeft(r.y, yh, C, D, y0, h)
    BY <1>5, <2>1, SideIs
  <2> HIDE DEF y0, h
  <2>3. QED
    BY <2>2 DEF SideLeft
<1> DEFINE area == UsableArea(r, root, struts)
<1>9. /\ area \in Rects /\ area.x = x0 /\ area.y = y0 /\ area.w = w /\ area.h = h
      /\ x0 \in Int /\ y0 \in Int
  <2> HIDE DEF r, x0, y0, w, h, xh, yh
  <2>1. x0 \in Int /\ y0 \in Int /\ w \in Int /\ h \in Int
    BY <1>1, <1>2, <1>7, <1>8
  <2>2. area = Rect(x0, y0, w, h)
    BY <1>6
  <2>3. QED
    BY <2>1, <2>2, RectIs
<1>10. Within(area, r)
  <2>1. xh = r.x + r.w /\ yh = r.y + r.h
    OBVIOUS
  <2> HIDE DEF r, x0, y0, w, h, xh, yh, area
  <2>2. QED
    BY <1>1, <1>2, <1>7, <1>8, <1>9, <2>1 DEF Within
<1>11. ASSUME e = d, root = Root(d)
       PROVE  Points(area) = WorkPoints(d, i)
  <2>1. struts = {p \in d.panels : p.kind \in Reserving}
    BY <1>11, StrutsAre
  <2>2. \A p \in d.panels :
          /\ p.edge \in {"left", "right"} => (Meets(p, r) <=> Overlaps(p, r.y, yh))
          /\ p.edge \in {"top", "bottom"} => (Meets(p, r) <=> Overlaps(p, r.x, xh))
    BY MeetsIs
  <2> DEFINE P == {p \in d.panels : p.kind \in Reserving /\ Meets(p, r)}
  <2>3. /\ Taking(struts, "left", r.y, yh) = {p \in P : p.edge = "left" /\ p.size > 0}
        /\ Taking(struts, "right", r.y, yh) = {p \in P : p.edge = "right" /\ p.size > 0}
        /\ Taking(struts, "top", r.x, xh) = {p \in P : p.edge = "top" /\ p.size > 0}
        /\ Taking(struts, "bottom", r.x, xh) = {p \in P : p.edge = "bottom" /\ p.size > 0}
    <3> HIDE DEF struts, r, xh, yh
    <3>1. QED
      BY <2>1, <2>2 DEF Taking
  <2>4. \A p \in P : p.size \in Nat /\ p.edge \in {"left", "right", "top", "bottom"}
    BY PanelIs
  <2> DEFINE rw == root.w
             rh == root.h
  <2>5. \A p \in P : \A n : Takes(p, n, Root(d)) <=>
          /\ p.size > 0
          /\ p.edge \in {"left", "top"} => n < p.size
          /\ p.edge = "right" => n >= rw - p.size
          /\ p.edge = "bottom" => n >= rh - p.size
    BY <1>11, <2>4 DEF Takes
  <2>6. rw \in Int /\ rh \in Int
    BY <1>3
  <2>7. /\ A = {p.size : p \in {q \in P : q.edge = "left" /\ q.size > 0}}
        /\ B = {rw - p.size : p \in {q \in P : q.edge = "right" /\ q.size > 0}}
        /\ C = {p.size : p \in {q \in P : q.edge = "top" /\ q.size > 0}}
        /\ D = {rh - p.size : p \in {q \in P : q.edge = "bottom" /\ q.size > 0}}
    <3>1. /\ A = LowerBy(struts, "left", r.y, yh) /\ B = UpperBy(struts, "right", r.y, yh, rw)
          /\ C = LowerBy(struts, "top", r.x, xh) /\ D = UpperBy(struts, "bottom", r.x, xh, rh)
      OBVIOUS
    <3> HIDE DEF struts, A, B, C, D, P, rw, rh, r, xh, yh
    <3>2. QED
      BY <2>3, <3>1 DEF LowerBy, UpperBy
  <2>8. Columns(d, i) = {n \in r.x .. xh - 1 : (\A v \in A : n >= v) /\ (\A v \in B : n < v)}
    <3>1. Columns(d, i) =
            {n \in r.x .. xh - 1 :
               \A p \in P : p.edge \in {"left", "right"} => ~Takes(p, n, Root(d))}
      <4>1. \A n : (\A p \in d.panels :
                     p.kind \in Reserving /\ p.edge \in {"left", "right"} /\ Meets(p, r)
                       => ~Takes(p, n, Root(d)))
                <=> \A p \in P : p.edge \in {"left", "right"} => ~Takes(p, n, Root(d))
        <5> HIDE DEF r
        <5>1. QED
          OBVIOUS
      <4>2. Columns(d, i) =
              {n \in r.x .. xh - 1 :
                 \A p \in d.panels :
                   p.kind \in Reserving /\ p.edge \in {"left", "right"} /\ Meets(p, r)
                     => ~Takes(p, n, Root(d))}
        <5> DEFINE low == r.x
                   top == xh - 1
        <5>1. Columns(d, i) = Unreserved(d, i, low, top, {"left", "right"})
          <6>1. low = d.mons[i].x /\ top = d.mons[i].x + d.mons[i].w - 1
            <7>1. \A a \in Int, b \in Int : (a + b) - 1 = a + b - 1
              OBVIOUS
            <7>2. QED
              BY <1>1, <7>1
          <6> HIDE DEF low, top
          <6>2. QED
            BY <6>1 DEF Columns
        <5> HIDE DEF low, top
        <5>2. Columns(d, i) =
                {n \in low .. top :
                   \A p \in d.panels :
                     p.kind \in Reserving /\ p.edge \in {"left", "right"} /\ Meets(p, r)
                       => ~Takes(p, n, Root(d))}
          BY <5>1 DEF Unreserved
        <5>3. QED
          BY <5>2 DEF low, top
      <4> HIDE DEF P, r, xh
      <4>3. QED
        BY <4>1, <4>2
    <3>2. r.x \in Int /\ xh - 1 \in Int
      BY <1>1, <1>2
    <3> HIDE DEF A, B, P, rw, rh, r, xh
    <3>3. ASSUME NEW n \in r.x .. xh - 1
          PROVE  (\A p \in P : p.edge \in {"left", "right"} => ~Takes(p, n, Root(d))) <=>
                   ((\A v \in A : n >= v) /\ (\A v \in B : n < v))
      <4>1. n \in Int
        BY <3>2
      <4>2. \A p \in P : p.edge = "left" => (~Takes(p, n, Root(d)) <=> (p.size > 0 => n >= p.size))
        BY <2>4, <2>5, <4>1
      <4>3. \A p \in P : p.edge = "right" =>
              (~Takes(p, n, Root(d)) <=> (p.size > 0 => n < rw - p.size))
        BY <2>4, <2>5, <2>6, <4>1
      <4>4. (\A v \in A : n >= v) <=> \A p \in P : p.edge = "left" /\ p.size > 0 => n >= p.size
        BY <2>7
      <4>5. (\A v \in B : n < v) <=> \A p \in P : p.edge = "right" /\ p.size > 0 => n < rw - p.size
        BY <2>7
      <4>6. QED
        BY <4>2, <4>3, <4>4, <4>5
    <3>4. QED
      BY <3>1, <3>3
  <2>9. Rows(d, i) = {n \in r.y .. yh - 1 : (\A v \in C : n >= v) /\ (\A v \in D : n < v)}
    <3>1. Rows(d, i) =
            {n \in r.y .. yh - 1 :
               \A p \in P : p.edge \in {"top", "bottom"} => ~Takes(p, n, Root(d))}
      <4>1. \A n : (\A p \in d.panels :
                     p.kind \in Reserving /\ p.edge \in {"top", "bottom"} /\ Meets(p, r)
                       => ~Takes(p, n, Root(d)))
                <=> \A p \in P : p.edge \in {"top", "bottom"} => ~Takes(p, n, Root(d))
        <5> HIDE DEF r
        <5>1. QED
          OBVIOUS
      <4>2. Rows(d, i) =
              {n \in r.y .. yh - 1 :
                 \A p \in d.panels :
                   p.kind \in Reserving /\ p.edge \in {"top", "bottom"} /\ Meets(p, r)
                     => ~Takes(p, n, Root(d))}
        <5> DEFINE low == r.y
                   top == yh - 1
        <5>1. Rows(d, i) = Unreserved(d, i, low, top, {"top", "bottom"})
          <6>1. low = d.mons[i].y /\ top = d.mons[i].y + d.mons[i].h - 1
            <7>1. \A a \in Int, b \in Int : (a + b) - 1 = a + b - 1
              OBVIOUS
            <7>2. QED
              BY <1>1, <7>1
          <6> HIDE DEF low, top
          <6>2. QED
            BY <6>1 DEF Rows
        <5> HIDE DEF low, top
        <5>2. Rows(d, i) =
                {n \in low .. top :
                   \A p \in d.panels :
                     p.kind \in Reserving /\ p.edge \in {"top", "bottom"} /\ Meets(p, r)
                       => ~Takes(p, n, Root(d))}
          BY <5>1 DEF Unreserved
        <5>3. QED
          BY <5>2 DEF low, top
      <4> HIDE DEF P, r, yh
      <4>3. QED
        BY <4>1, <4>2
    <3>2. r.y \in Int /\ yh - 1 \in Int
      BY <1>1, <1>2
    <3> HIDE DEF C, D, P, rw, rh, r, yh
    <3>3. ASSUME NEW n \in r.y .. yh - 1
          PROVE  (\A p \in P : p.edge \in {"top", "bottom"} => ~Takes(p, n, Root(d))) <=>
                   ((\A v \in C : n >= v) /\ (\A v \in D : n < v))
      <4>1. n \in Int
        BY <3>2
      <4>2. \A p \in P : p.edge = "top" => (~Takes(p, n, Root(d)) <=> (p.size > 0 => n >= p.size))
        BY <2>4, <2>5, <4>1
      <4>3. \A p \in P : p.edge = "bottom" =>
              (~Takes(p, n, Root(d)) <=> (p.size > 0 => n < rh - p.size))
        BY <2>4, <2>5, <2>6, <4>1
      <4>4. (\A v \in C : n >= v) <=> \A p \in P : p.edge = "top" /\ p.size > 0 => n >= p.size
        BY <2>7
      <4>5. (\A v \in D : n < v) <=> \A p \in P : p.edge = "bottom" /\ p.size > 0 => n < rh - p.size
        BY <2>7
      <4>6. QED
        BY <4>2, <4>3, <4>4, <4>5
    <3>4. QED
      BY <3>1, <3>3
  <2>10. WorkPoints(d, i) = Columns(d, i) \X Rows(d, i)
    BY FreeLines
  <2> HIDE DEF A, B, C, D, x0, y0, w, h, xh, yh, r, area
  <2>11. Points(area) = (x0 .. x0 + w - 1) \X (y0 .. y0 + h - 1)
    BY <1>9 DEF Points
  <2>12. QED
    BY <1>7, <1>8, <2>8, <2>9, <2>10, <2>11
<1>12. QED
  BY <1>10, <1>11

-----------------------------------------------------------------------------
(* What Hyprland and macOS make of an area, and of theirs the adapter.     *)

LEMMA SameArea ==
  ASSUME NEW a \in Rects, NEW b \in Rects, a.x = b.x, a.y = b.y, a.w = b.w, a.h = b.h
  PROVE  a = b
BY DEF Rects

LEMMA LessIs ==
  ASSUME NEW a \in Int, NEW b \in Int
  PROVE  SaturatingSub(a, b) = IF a >= b THEN a - b ELSE 0
<1> DEFINE c == a - b
<1>1. c \in Int /\ c = a - b
  OBVIOUS
<1> HIDE DEF c
<1>2. Max({c, 0}) = IF c >= 0 THEN c ELSE 0
  BY <1>1, TheGreater
<1>3. SaturatingSub(a, b) = IF c >= 0 THEN c ELSE 0
  BY <1>2 DEF SaturatingSub, c
<1>4. QED
  BY <1>1, <1>3

\* A length survives being rounded to pixels, as a pixel is no more than a point.
LEMMA RoundedBack ==
  ASSUME NEW n \in Nat, NEW scale \in Scales
  PROVE  Round(4 * Round(n * scale, 4), scale) = n
<1>1. CASE scale = 4
  BY <1>1 DEF Round
<1>2. CASE scale = 5
  BY <1>2 DEF Round
<1>3. CASE scale = 6
  BY <1>3 DEF Round
<1>4. CASE scale = 7
  BY <1>4 DEF Round
<1>5. CASE scale = 8
  BY <1>5 DEF Round
<1> QED BY <1>1, <1>2, <1>3, <1>4, <1>5 DEF Scales

\* Pixels and scale give the monitor back, whichever way it is turned.
LEMMA HyprlandIs ==
  ASSUME NEW d \in Desktops, NEW i \in DOMAIN d.mons, NEW scale \in Scales, NEW turned \in BOOLEAN
  PROVE  HyprUsableArea(HyprMonitor(d, i, scale, turned)) = WorkArea(d, i)
<1> DEFINE r == d.mons[i]
           a == WorkArea(d, i)
           hm == HyprMonitor(d, i, scale, turned)
<1>1. r.x \in Int /\ r.y \in Int /\ r.w \in Nat \ {0} /\ r.h \in Nat \ {0}
  BY MonitorIs
<1>2. Within(a, r)
  BY WorkAreaIs
<1>3. a \in Rects /\ a.x \in Int /\ a.y \in Int /\ a.w \in Int /\ a.h \in Int
  BY <1>2 DEF Within, Rects
<1>4. /\ a.w >= 0 /\ a.h >= 0 /\ a.x >= r.x /\ a.x + a.w <= r.x + r.w
      /\ a.y >= r.y /\ a.y + a.h <= r.y + r.h
  BY <1>2 DEF Within
<1>5. /\ hm.x = r.x /\ hm.y = r.y /\ hm.scale = scale /\ hm.turned = turned
      /\ hm.width = (IF turned THEN Round(r.h * scale, 4) ELSE Round(r.w * scale, 4))
      /\ hm.height = (IF turned THEN Round(r.w * scale, 4) ELSE Round(r.h * scale, 4))
      /\ hm.left = a.x - r.x /\ hm.top = a.y - r.y
      /\ hm.right = r.x + r.w - a.x - a.w /\ hm.bottom = r.y + r.h - a.y - a.h
  BY DEF HyprMonitor
<1> DEFINE left == a.x - r.x
           top == a.y - r.y
           right == r.x + r.w - a.x - a.w
           bottom == r.y + r.h - a.y - a.h
           rw == r.w
           rh == r.h
<1>6. \A n \in Nat : Round(4 * Round(n * scale, 4), scale) = n
  BY RoundedBack
<1>7. /\ Round(4 * hm.width, hm.scale) = (IF turned THEN rh ELSE rw)
      /\ Round(4 * hm.height, hm.scale) = (IF turned THEN rw ELSE rh)
  <2>1. rw \in Nat /\ rh \in Nat
    BY <1>1
  <2>2. /\ hm.width = (IF turned THEN Round(rh * scale, 4) ELSE Round(rw * scale, 4))
        /\ hm.height = (IF turned THEN Round(rw * scale, 4) ELSE Round(rh * scale, 4))
    BY <1>5
  <2> HIDE DEF rw, rh, hm
  <2>3. QED
    BY <1>5, <1>6, <2>1, <2>2
<1>8. HyprUsableArea(hm) =
        Rect(hm.x + hm.left, hm.y + hm.top,
             SaturatingSub(SaturatingSub(rw, hm.left), hm.right),
             SaturatingSub(SaturatingSub(rh, hm.top), hm.bottom))
  <2>1. hm.turned = turned
    BY <1>5
  <2> HIDE DEF rw, rh, hm
  <2>2. QED
    BY <1>7, <2>1 DEF HyprUsableArea
<1>9. /\ left \in Int /\ right \in Int /\ top \in Int /\ bottom \in Int
      /\ rw \in Int /\ rh \in Int
      /\ left >= 0 /\ right >= 0 /\ rw - left - right = a.w /\ rw >= left /\ rw - left >= right
      /\ top >= 0 /\ bottom >= 0 /\ rh - top - bottom = a.h /\ rh >= top /\ rh - top >= bottom
      /\ r.x + left = a.x /\ r.y + top = a.y
  <2> HIDE DEF r, a
  <2>1. QED
    BY <1>1, <1>3, <1>4
<1>10. /\ hm.left = left /\ hm.right = right /\ hm.top = top /\ hm.bottom = bottom
       /\ hm.x + hm.left = a.x /\ hm.y + hm.top = a.y
  BY <1>5, <1>9
<1> HIDE DEF left, right, top, bottom, rw, rh, hm, r
<1>11. SaturatingSub(rw, left) = rw - left /\ SaturatingSub(rh, top) = rh - top
  BY <1>9, LessIs
<1>12. rw - left \in Int /\ rh - top \in Int
  BY <1>9
<1>13. SaturatingSub(rw - left, right) = a.w /\ SaturatingSub(rh - top, bottom) = a.h
  BY <1>9, <1>12, LessIs
<1>14. HyprUsableArea(hm) = Rect(a.x, a.y, a.w, a.h)
  BY <1>8, <1>10, <1>11, <1>13
<1> HIDE DEF a
<1>15. HyprUsableArea(hm) = a
  <2> DEFINE b == Rect(a.x, a.y, a.w, a.h)
  <2>1. b \in Rects /\ b.x = a.x /\ b.y = a.y /\ b.w = a.w /\ b.h = a.h
    BY <1>3 DEF Rect, Rects
  <2>2. HyprUsableArea(hm) = b
    BY <1>14
  <2> HIDE DEF b
  <2>3. QED
    BY <1>3, <2>1, <2>2, SameArea
<1>16. QED
  BY <1>15 DEF hm, a

\* The axis turned over twice is the axis.
LEMMA TurnedTwice ==
  ASSUME NEW a \in Rects, NEW k \in Int
  PROVE  Turned(Turned(a, k), k) = a
<1>1. a.x \in Int /\ a.y \in Int /\ a.w \in Int /\ a.h \in Int
  BY DEF Rects
<1> DEFINE y == k - a.y - a.h
<1>2. y \in Int /\ k - y - a.h = a.y
  BY <1>1
<1>3. /\ Turned(a, k).x = a.x /\ Turned(a, k).y = y
      /\ Turned(a, k).w = a.w /\ Turned(a, k).h = a.h
  BY DEF Turned, Rect
<1> HIDE DEF y
<1>4. Turned(Turned(a, k), k) = Rect(a.x, a.y, a.w, a.h)
  BY <1>2, <1>3 DEF Turned
<1> DEFINE b == Rect(a.x, a.y, a.w, a.h)
<1>5. b \in Rects /\ b.x = a.x /\ b.y = a.y /\ b.w = a.w /\ b.h = a.h
  BY <1>1 DEF Rect, Rects
<1>6. Turned(Turned(a, k), k) = b
  BY <1>4
<1> HIDE DEF b
<1>7. QED
  BY <1>5, <1>6, SameArea

LEMMA MacReadsWhatIs ==
  ASSUME NEW d \in Desktops
  PROVE  MacAreas(d) = WorkAreas(d)
<1>1. 1 \in DOMAIN d.mons
  <2>1. d.mons \in Seq(Monitors) /\ d.mons # <<>>
    BY DEF Desktops
  <2>2. QED
    BY <2>1
<1>2. d.mons[1].h \in Int
  BY <1>1, MonitorIs
<1>3. \A i \in DOMAIN d.mons : WorkArea(d, i) \in Rects
  BY WorkAreaIs DEF Within
<1>4. \A i \in DOMAIN d.mons : Turned(Turned(WorkArea(d, i), d.mons[1].h), d.mons[1].h) = WorkArea(d, i)
  BY <1>2, <1>3, TurnedTwice
<1>5. QED
  BY <1>4 DEF MacAreas, NSScreens, WorkAreas

-----------------------------------------------------------------------------
(* The calls that read the displays.                                       *)

ReadSteps == {"idle", "first", "second", "third", "answered", "failed"}
Results   == {"none", "done", "error"}
PostKinds == {"displays", "done", "error"}
AreaPosts == [is : PostKinds, areas : Seq(Rects)]
Readings  == [by : Readers, step : ReadSteps, mons : Seq(Monitors), root : Rects,
              areas : Seq(Rects), queued : BOOLEAN, post : Seq(AreaPosts), told : Results,
              cache : Seq(Rects)]

\* areas is what one arrangement since the reading began leaves free.
OfSeen(areas, ds) == \E d \in ds : areas = WorkAreas(d)

\* What an adapter has so far: the monitors and the root window of arrangements seen, and
\* areas that Windows met in them.
HasSeen(r, ds) ==
  /\ r.by \in {"x11", "sway"} /\ r.step \in {"second", "third"} => \E d \in ds : r.mons = d.mons
  /\ r.by = "x11" /\ r.step = "third" => \E d \in ds : r.root = Root(d)
  /\ r.by = "windows" => \A i \in DOMAIN r.areas : \E d \in ds :
                           i \in DOMAIN d.mons /\ r.areas[i] = WorkArea(d, i)

\* On KDE: the script publishes before it says that it is done, so that what the companion
\* holds when that is handled was published during the call.
PublishedFirst(r, ds) ==
  /\ \A k \in DOMAIN r.post : r.post[k].is = "displays" => OfSeen(r.post[k].areas, ds)
  /\ \A k \in DOMAIN r.post : r.post[k].is = "done" /\ k # 1 => r.post[k - 1].is = "displays"
  /\ \A k \in DOMAIN r.post : r.post[k].is = "done" /\ k = 1 => OfSeen(r.cache, ds)
  /\ r.told = "done" => OfSeen(r.cache, ds)

\* Nothing is held before the reading begins.
BeginsEmpty(r) ==
  r.step = "idle" => ~r.queued /\ r.post = <<>> /\ r.told = "none" /\ r.areas = <<>>

\* What an answer is, of the arrangements seen: the two parts of ReadingsAreTrue.
Truthful(r, e, ds) ==
  r.step = "answered" =>
    /\ ds = {e} => /\ DOMAIN r.areas = DOMAIN e.mons
                   /\ \A i \in DOMAIN e.mons : Points(r.areas[i]) = WorkPoints(e, i)
    /\ \A i \in DOMAIN r.areas : \E d \in ds :
         /\ i \in DOMAIN d.mons
         /\ IF r.by \in {"x11", "sway"}
            THEN Points(r.areas[i]) \subseteq Points(d.mons[i])
            ELSE Points(r.areas[i]) = WorkPoints(d, i)

ReadsSoundly(r, e, ds) ==
  /\ r \in Readings /\ e \in Desktops /\ ds \in SUBSET Desktops
  /\ r.step # "idle" => e \in ds
  /\ BeginsEmpty(r) /\ HasSeen(r, ds) /\ PublishedFirst(r, ds) /\ Truthful(r, e, ds)

\* Of a call that moves a window nothing is read.
ReadInv == /\ task \in {"move", "displays"}
           /\ task = "move" => read.step = "idle"
           /\ task = "displays" => ReadsSoundly(read, desk, seen)

LEMMA WorkAreasAre ==
  ASSUME NEW d \in Desktops
  PROVE  /\ WorkAreas(d) \in Seq(Rects) /\ DOMAIN WorkAreas(d) = DOMAIN d.mons
         /\ \A i \in DOMAIN d.mons : /\ WorkAreas(d)[i] = WorkArea(d, i)
                                     /\ Points(WorkAreas(d)[i]) = WorkPoints(d, i)
<1>1. d.mons \in Seq(Monitors)
  BY DEF Desktops
<1>2. Len(d.mons) \in Nat /\ DOMAIN d.mons = 1 .. Len(d.mons)
  BY <1>1
<1>3. \A i \in DOMAIN d.mons : WorkArea(d, i) \in Rects /\ Points(WorkArea(d, i)) = WorkPoints(d, i)
  BY WorkAreaIs DEF Within
<1>4. /\ DOMAIN WorkAreas(d) = DOMAIN d.mons
      /\ \A i \in DOMAIN d.mons : WorkAreas(d)[i] = WorkArea(d, i)
  BY DEF WorkAreas
<1>5. WorkAreas(d) \in [1 .. Len(d.mons) -> Rects]
  BY <1>2, <1>3 DEF WorkAreas
<1>6. WorkAreas(d) \in Seq(Rects)
  BY <1>2, <1>5
<1>7. QED
  BY <1>3, <1>4, <1>6

\* The areas of an arrangement seen are a true answer.
LEMMA SeenIsTrue ==
  ASSUME NEW r, NEW e, NEW ds \in SUBSET Desktops, OfSeen(r.areas, ds), r.by \notin {"x11", "sway"}
  PROVE  Truthful(r, e, ds)
<1>1. PICK d \in ds : r.areas = WorkAreas(d)
  BY DEF OfSeen
<1>2. /\ DOMAIN r.areas = DOMAIN d.mons
      /\ \A i \in DOMAIN d.mons : Points(r.areas[i]) = WorkPoints(d, i)
  BY <1>1, WorkAreasAre
<1>3. ds = {e} => d = e
  OBVIOUS
<1>4. \A i \in DOMAIN r.areas : i \in DOMAIN d.mons /\ Points(r.areas[i]) = WorkPoints(d, i)
  BY <1>2
<1>5. QED
  BY <1>2, <1>3, <1>4 DEF Truthful

\* The reading, with the answer a.
LEMMA ReadingIs ==
  ASSUME read \in Readings, NEW a \in Seq(Rects)
  PROVE  /\ Reading(a) \in Readings /\ Reading(a).step = "answered" /\ Reading(a).areas = a
         /\ Reading(a).by = read.by /\ Reading(a).post = read.post /\ Reading(a).told = read.told
         /\ Reading(a).cache = read.cache
BY DEF Readings, Reading, ReadSteps

LEMMA AnswerKeeps ==
  ASSUME ReadsSoundly(read, desk, seen), read.step # "idle",
         NEW a \in Seq(Rects), read.by = "windows" => a = read.areas,
         Truthful(Reading(a), desk, seen)
  PROVE  ReadsSoundly(Reading(a), desk, seen)
<1> DEFINE q == Reading(a)
<1>1. read \in Readings
  BY DEF ReadsSoundly
<1>2. /\ q \in Readings /\ q.step = "answered" /\ q.areas = a
      /\ q.by = read.by /\ q.post = read.post /\ q.told = read.told /\ q.cache = read.cache
  BY <1>1, ReadingIs
<1>3. Truthful(q, desk, seen)
  OBVIOUS
<1> HIDE DEF q
<1>4. BeginsEmpty(q)
  BY <1>2 DEF BeginsEmpty
<1>5. HasSeen(q, seen)
  BY <1>2 DEF ReadsSoundly, HasSeen
<1>6. PublishedFirst(q, seen)
  BY <1>2 DEF ReadsSoundly, PublishedFirst
<1>7. ReadsSoundly(q, desk, seen)
  BY <1>2, <1>3, <1>4, <1>5, <1>6 DEF ReadsSoundly
<1>8. QED
  BY <1>7 DEF q

LEMMA FailKeeps ==
  ASSUME ReadsSoundly(read, desk, seen), read.step # "idle", Fails, Still
  PROVE  ReadsSoundly(read, desk, seen)'
<1> DEFINE q == [read EXCEPT !.step = "failed"]
<1>1. read \in Readings
  BY DEF ReadsSoundly
<1>2. /\ q \in Readings /\ q.step = "failed" /\ q.areas = read.areas
      /\ q.by = read.by /\ q.post = read.post /\ q.told = read.told /\ q.cache = read.cache
  BY <1>1 DEF Readings, ReadSteps
<1>3. read' = q /\ desk' = desk /\ seen' = seen
  BY DEF Fails, Still
<1> HIDE DEF q
<1>4. BeginsEmpty(q) /\ Truthful(q, desk, seen)
  BY <1>2 DEF BeginsEmpty, Truthful
<1>5. HasSeen(q, seen)
  BY <1>2 DEF ReadsSoundly, HasSeen
<1>6. PublishedFirst(q, seen)
  BY <1>2 DEF ReadsSoundly, PublishedFirst
<1>7. ReadsSoundly(q, desk, seen)
  BY <1>2, <1>4, <1>5, <1>6 DEF ReadsSoundly
<1>8. QED
  BY <1>3, <1>7

LEMMA BeginKeeps ==
  ASSUME ReadsSoundly(read, desk, seen), BeginReading
  PROVE  ReadsSoundly(read, desk, seen)'
<1> DEFINE q == [read EXCEPT !.step = "first"]
<1>1. read \in Readings /\ read.step = "idle" /\ desk \in Desktops
  BY DEF ReadsSoundly, BeginReading
<1>2. /\ q \in Readings /\ q.step = "first" /\ q.areas = read.areas
      /\ q.by = read.by /\ q.post = read.post /\ q.told = read.told /\ q.cache = read.cache
  BY <1>1 DEF Readings, ReadSteps
<1>3. read' = q /\ desk' = desk /\ seen' = {desk}
  BY DEF BeginReading
<1> HIDE DEF q
<1>4. read.post = <<>> /\ read.told = "none" /\ read.areas = <<>>
  BY <1>1 DEF ReadsSoundly, BeginsEmpty
<1>5. BeginsEmpty(q) /\ Truthful(q, desk, {desk})
  BY <1>2 DEF BeginsEmpty, Truthful
<1>6. HasSeen(q, {desk})
  BY <1>2, <1>4 DEF HasSeen
<1>7. PublishedFirst(q, {desk})
  BY <1>2, <1>4 DEF PublishedFirst
<1>8. ReadsSoundly(q, desk, {desk})
  BY <1>1, <1>2, <1>5, <1>6, <1>7 DEF ReadsSoundly
<1>9. QED
  BY <1>3, <1>8

LEMMA AtOnceKeeps ==
  ASSUME ReadsSoundly(read, desk, seen), ReadAtOnce
  PROVE  ReadsSoundly(read, desk, seen)'
<1>1. /\ read.step = "first" /\ Still /\ read \in Readings /\ desk \in Desktops
      /\ desk \in seen /\ seen \in SUBSET Desktops
  BY DEF ReadsSoundly, ReadAtOnce
<1>2. desk' = desk /\ seen' = seen
  BY <1>1 DEF Still
<1>3. CASE Fails
  BY <1>1, <1>3, FailKeeps
<1>4. CASE read.by \in {"gnome", "macos", "hyprland"} /\ read' = Reading(WorkAreas(desk))
  <2> DEFINE a == WorkAreas(desk)
  <2>1. a \in Seq(Rects) /\ OfSeen(a, seen)
    BY <1>1, WorkAreasAre DEF OfSeen
  <2> HIDE DEF a
  <2>2. Reading(a).areas = a /\ Reading(a).by = read.by
    BY <1>1, <2>1, ReadingIs
  <2>3. Reading(a).by \notin {"x11", "sway"} /\ OfSeen(Reading(a).areas, seen)
    BY <1>4, <2>1, <2>2
  <2>4. Truthful(Reading(a), desk, seen)
    BY <1>1, <2>3, SeenIsTrue
  <2>5. ReadsSoundly(Reading(a), desk, seen)
    BY <1>1, <1>4, <2>1, <2>4, AnswerKeeps
  <2>6. QED
    BY <1>2, <1>4, <2>5 DEF a
<1>5. CASE read.by = "macos" /\ read' = Reading(MacAreas(desk))
  BY <1>1, <1>4, <1>5, MacReadsWhatIs
<1>6. CASE /\ read.by = "hyprland"
           /\ \E scale \in Scales, turned \in BOOLEAN :
                read' = Reading([i \in DOMAIN desk.mons |->
                                    HyprUsableArea(HyprMonitor(desk, i, scale, turned))])
  <2>1. PICK scale \in Scales, turned \in BOOLEAN :
               read' = Reading([i \in DOMAIN desk.mons |->
                                   HyprUsableArea(HyprMonitor(desk, i, scale, turned))])
    BY <1>6
  <2>2. \A i \in DOMAIN desk.mons :
          HyprUsableArea(HyprMonitor(desk, i, scale, turned)) = WorkArea(desk, i)
    BY <1>1, HyprlandIs
  <2>3. [i \in DOMAIN desk.mons |-> HyprUsableArea(HyprMonitor(desk, i, scale, turned))]
          = WorkAreas(desk)
    BY <2>2 DEF WorkAreas
  <2>4. QED
    BY <1>4, <1>6, <2>1, <2>3
<1>7. CASE read.by = "gnome" /\ read' = Reading(WorkAreas(desk))
  BY <1>4, <1>7
<1>8. QED
  BY <1>3, <1>5, <1>6, <1>7 DEF ReadAtOnce

LEMMA ReadWindowsKeeps ==
  ASSUME ReadsSoundly(read, desk, seen), ReadWindows
  PROVE  ReadsSoundly(read, desk, seen)'
<1>1. /\ read.by = "windows" /\ read.step = "first" /\ Still /\ read \in Readings
      /\ desk \in Desktops /\ desk \in seen /\ seen \in SUBSET Desktops
  BY DEF ReadsSoundly, ReadWindows
<1>2. desk' = desk /\ seen' = seen
  BY <1>1 DEF Still
<1> DEFINE a == read.areas
           n == Len(a) + 1
<1>3. a \in Seq(Rects) /\ Len(a) \in Nat /\ DOMAIN a = 1 .. Len(a)
  BY <1>1 DEF Readings
<1>4. \A i \in DOMAIN a : \E d \in seen : i \in DOMAIN d.mons /\ a[i] = WorkArea(d, i)
  BY <1>1 DEF ReadsSoundly, HasSeen
<1>5. CASE n \in DOMAIN desk.mons /\ read' = [read EXCEPT !.areas = Append(@, WorkArea(desk, n))]
  <2> DEFINE b == Append(a, WorkArea(desk, n))
             q == [read EXCEPT !.areas = b]
  <2>1. WorkArea(desk, n) \in Rects
    BY <1>1, <1>5, WorkAreaIs DEF Within
  <2>2. /\ b \in Seq(Rects) /\ DOMAIN b = 1 .. n
        /\ \A i \in 1 .. n : b[i] = IF i = n THEN WorkArea(desk, n) ELSE a[i]
    BY <1>3, <2>1
  <2>3. read' = q
    BY <1>5
  <2>4. \A i \in DOMAIN b : \E d \in seen : i \in DOMAIN d.mons /\ b[i] = WorkArea(d, i)
    <3>1. TAKE i \in DOMAIN b
    <3>2. CASE i = n
      BY <1>1, <1>5, <2>2, <3>2
    <3>3. CASE i # n
      <4>1. i \in DOMAIN a
        BY <1>3, <2>2, <3>3
      <4>2. b[i] = a[i]
        BY <2>2, <3>3
      <4>3. QED
        BY <1>4, <4>1, <4>2
    <3>4. QED
      BY <3>2, <3>3
  <2> HIDE DEF a, b, n
  <2>5. /\ q \in Readings /\ q.step = read.step /\ q.areas = b /\ q.by = read.by
        /\ q.post = read.post /\ q.told = read.told /\ q.cache = read.cache
    BY <1>1, <2>2 DEF Readings
  <2> HIDE DEF q
  <2>6. BeginsEmpty(q) /\ Truthful(q, desk, seen)
    BY <1>1, <2>5 DEF BeginsEmpty, Truthful
  <2>7. HasSeen(q, seen)
    BY <1>1, <2>4, <2>5 DEF HasSeen
  <2>8. PublishedFirst(q, seen)
    BY <2>5 DEF ReadsSoundly, PublishedFirst
  <2>9. ReadsSoundly(q, desk, seen)
    BY <1>1, <2>5, <2>6, <2>7, <2>8 DEF ReadsSoundly
  <2>10. QED
    BY <1>2, <2>3, <2>9
<1>6. CASE n \notin DOMAIN desk.mons /\ read' = Reading(read.areas)
  <2>1. \A i \in DOMAIN a : \E d \in seen :
          i \in DOMAIN d.mons /\ Points(a[i]) = WorkPoints(d, i)
    <3>1. TAKE i \in DOMAIN a
    <3>2. PICK d \in seen : i \in DOMAIN d.mons /\ a[i] = WorkArea(d, i)
      BY <1>4
    <3>3. QED
      BY <1>1, <3>2, WorkAreaIs
  <2>2. ASSUME seen = {desk}
        PROVE  /\ DOMAIN a = DOMAIN desk.mons
               /\ \A i \in DOMAIN desk.mons : Points(a[i]) = WorkPoints(desk, i)
    <3>1. \A i \in DOMAIN a : i \in DOMAIN desk.mons /\ Points(a[i]) = WorkPoints(desk, i)
      <4>1. TAKE i \in DOMAIN a
      <4>2. PICK d \in seen : i \in DOMAIN d.mons /\ Points(a[i]) = WorkPoints(d, i)
        BY <2>1
      <4>3. d = desk
        BY <2>2
      <4>4. QED
        BY <4>2, <4>3
    <3>2. desk.mons \in Seq(Monitors)
      BY <1>1 DEF Desktops
    <3>3. Len(desk.mons) \in Nat /\ DOMAIN desk.mons = 1 .. Len(desk.mons)
      BY <3>2
    <3>4. Len(a) = Len(desk.mons)
      <4>1. Len(a) # 0 => Len(a) \in DOMAIN a
        BY <1>3
      <4>2. Len(a) <= Len(desk.mons)
        BY <1>3, <3>1, <3>3, <4>1
      <4>3. ~(Len(a) + 1 \in 1 .. Len(desk.mons))
        BY <1>6, <3>3
      <4>4. QED
        BY <1>3, <3>3, <4>2, <4>3
    <3>5. QED
      BY <1>3, <3>1, <3>3, <3>4
  <2> HIDE DEF a
  <2>3. Reading(a).areas = a /\ Reading(a).by = "windows"
    BY <1>1, <1>3, ReadingIs
  <2>4. Truthful(Reading(a), desk, seen)
    BY <2>1, <2>2, <2>3 DEF Truthful
  <2>5. ReadsSoundly(Reading(a), desk, seen)
    BY <1>1, <1>3, <2>4, AnswerKeeps DEF a
  <2>6. QED
    BY <1>2, <1>6, <2>5 DEF a
<1>7. QED
  BY <1>5, <1>6 DEF ReadWindows

\* The monitors are noted, as they are now.
LEMMA NotesKeep ==
  ASSUME ReadsSoundly(read, desk, seen), read.by \in {"x11", "sway"}, read.step = "first",
         read' = [read EXCEPT !.step = "second", !.mons = desk.mons], Still
  PROVE  ReadsSoundly(read, desk, seen)'
<1> DEFINE mons == desk.mons
           q == [read EXCEPT !.step = "second", !.mons = mons]
<1>1. /\ read \in Readings /\ desk \in Desktops /\ desk \in seen /\ seen \in SUBSET Desktops
  BY DEF ReadsSoundly
<1>2. mons \in Seq(Monitors)
  BY <1>1 DEF Desktops
<1>3. read' = q /\ desk' = desk /\ seen' = seen
  BY DEF Still
<1>4. \E d \in seen : mons = d.mons
  BY <1>1
<1> HIDE DEF mons
<1>5. /\ q \in Readings /\ q.step = "second" /\ q.mons = mons /\ q.areas = read.areas
      /\ q.by = read.by /\ q.post = read.post /\ q.told = read.told /\ q.cache = read.cache
  BY <1>1, <1>2 DEF Readings, ReadSteps
<1> HIDE DEF q
<1>6. BeginsEmpty(q) /\ Truthful(q, desk, seen)
  BY <1>5 DEF BeginsEmpty, Truthful
<1>7. HasSeen(q, seen)
  BY <1>4, <1>5 DEF HasSeen
<1>8. PublishedFirst(q, seen)
  BY <1>5 DEF ReadsSoundly, PublishedFirst
<1>9. ReadsSoundly(q, desk, seen)
  BY <1>1, <1>5, <1>6, <1>7, <1>8 DEF ReadsSoundly
<1>10. QED
  BY <1>3, <1>9

\* An answer for the monitors noted, each within its bounds at some moment, and exactly what is free
\* if nothing has changed.
LEMMA AnswersForNoted ==
  ASSUME ReadsSoundly(read, desk, seen), read.by \in {"x11", "sway"}, read.step # "idle",
         NEW e \in seen, read.mons = e.mons, NEW a, DOMAIN a = DOMAIN e.mons,
         \A i \in DOMAIN e.mons : a[i] \in Rects,
         \A i \in DOMAIN e.mons : \E d \in seen :
           i \in DOMAIN d.mons /\ Points(a[i]) \subseteq Points(d.mons[i]),
         seen = {desk} => \A i \in DOMAIN e.mons : Points(a[i]) = WorkPoints(desk, i),
         a = [i \in DOMAIN e.mons |-> a[i]]
  PROVE  ReadsSoundly(Reading(a), desk, seen)
<1>1. read \in Readings /\ seen \in SUBSET Desktops
  BY DEF ReadsSoundly
<1>2. e.mons \in Seq(Monitors)
  BY <1>1 DEF Desktops
<1>3. Len(e.mons) \in Nat /\ DOMAIN e.mons = 1 .. Len(e.mons)
  BY <1>2
<1>4. a \in [1 .. Len(e.mons) -> Rects]
  BY <1>3
<1>5. a \in Seq(Rects)
  BY <1>3, <1>4
<1>6. Reading(a).areas = a /\ Reading(a).by = read.by
  BY <1>1, <1>5, ReadingIs
<1>7. Truthful(Reading(a), desk, seen)
  <2>1. seen = {desk} => e = desk
    OBVIOUS
  <2>2. seen = {desk} => DOMAIN a = DOMAIN desk.mons
    BY <2>1
  <2>3. seen = {desk} => \A i \in DOMAIN desk.mons : Points(a[i]) = WorkPoints(desk, i)
    BY <2>1
  <2>4. \A i \in DOMAIN a : \E d \in seen :
          i \in DOMAIN d.mons /\ Points(a[i]) \subseteq Points(d.mons[i])
    OBVIOUS
  <2>5. QED
    BY <1>6, <2>2, <2>3, <2>4 DEF Truthful
<1>8. QED
  BY <1>5, <1>7, AnswerKeeps

LEMMA ReadSwayKeeps ==
  ASSUME ReadsSoundly(read, desk, seen), ReadSway
  PROVE  ReadsSoundly(read, desk, seen)'
<1>1. /\ read.by = "sway" /\ Still /\ read \in Readings /\ seen \in SUBSET Desktops
      /\ desk \in Desktops
  BY DEF ReadsSoundly, ReadSway
<1>2. desk' = desk /\ seen' = seen
  BY <1>1 DEF Still
<1>3. CASE read.step = "first" /\ read' = [read EXCEPT !.step = "second", !.mons = desk.mons]
  BY <1>1, <1>3, NotesKeep
<1>4. CASE /\ read.step = "second"
           /\ read' = Reading([i \in DOMAIN read.mons |->
                        IF i \in DOMAIN desk.mons THEN WorkArea(desk, i) ELSE read.mons[i]])
  <2>1. PICK e \in seen : read.mons = e.mons
    BY <1>1, <1>4 DEF ReadsSoundly, HasSeen
  <2> DEFINE a == [i \in DOMAIN read.mons |->
                     IF i \in DOMAIN desk.mons THEN WorkArea(desk, i) ELSE read.mons[i]]
  <2>2. DOMAIN a = DOMAIN e.mons /\ a = [i \in DOMAIN e.mons |-> a[i]]
    BY <2>1
  <2>3. \A i \in DOMAIN e.mons : a[i] = IF i \in DOMAIN desk.mons THEN WorkArea(desk, i) ELSE e.mons[i]
    BY <2>1
  <2>4. \A i \in DOMAIN desk.mons :
          /\ WorkArea(desk, i) \in Rects
          /\ Points(WorkArea(desk, i)) \subseteq Points(desk.mons[i])
          /\ Points(WorkArea(desk, i)) = WorkPoints(desk, i)
    BY <1>1, WorkAreaIs, WithinCovers DEF Within
  <2>5. \A i \in DOMAIN e.mons : e.mons[i] \in Rects
    BY <1>1, MonitorIs DEF Monitors, Rects
  <2>6. desk \in seen
    BY <1>4 DEF ReadsSoundly
  <2> HIDE DEF a
  <2>7. \A i \in DOMAIN e.mons : a[i] \in Rects
    BY <2>3, <2>4, <2>5
  <2>8. \A i \in DOMAIN e.mons : \E d \in seen :
          i \in DOMAIN d.mons /\ Points(a[i]) \subseteq Points(d.mons[i])
    <3>1. TAKE i \in DOMAIN e.mons
    <3>2. CASE i \in DOMAIN desk.mons
      BY <2>3, <2>4, <2>6, <3>2
    <3>3. CASE i \notin DOMAIN desk.mons
      <4>1. a[i] = e.mons[i]
        BY <2>3, <3>3
      <4>2. QED
        BY <2>1, <4>1
    <3>4. QED
      BY <3>2, <3>3
  <2>9. ASSUME seen = {desk}
        PROVE  \A i \in DOMAIN e.mons : Points(a[i]) = WorkPoints(desk, i)
    <3>1. e = desk
      BY <2>1, <2>9
    <3>2. QED
      BY <2>3, <2>4, <3>1
  <2>10. read.by \in {"x11", "sway"} /\ read.step # "idle"
    BY <1>1, <1>4
  <2>11. ReadsSoundly(Reading(a), desk, seen)
    BY <2>1, <2>2, <2>7, <2>8, <2>9, <2>10, AnswersForNoted
  <2>12. QED
    BY <1>2, <1>4, <2>11 DEF a
<1>5. QED
  BY <1>1, <1>3, <1>4 DEF ReadSway

LEMMA ReadX11Keeps ==
  ASSUME ReadsSoundly(read, desk, seen), ReadX11
  PROVE  ReadsSoundly(read, desk, seen)'
<1>1. /\ read.by = "x11" /\ Still /\ read \in Readings /\ seen \in SUBSET Desktops
      /\ desk \in Desktops
  BY DEF ReadsSoundly, ReadX11
<1>2. desk' = desk /\ seen' = seen
  BY <1>1 DEF Still
<1>3. CASE read.step = "first" /\ read' = [read EXCEPT !.step = "second", !.mons = desk.mons]
  BY <1>1, <1>3, NotesKeep
<1>4. CASE read.step = "second" /\ read' = [read EXCEPT !.step = "third", !.root = Root(desk)]
  <2> DEFINE root == Root(desk)
             q == [read EXCEPT !.step = "third", !.root = root]
  <2>1. desk \in seen /\ root \in Rects
    BY <1>1, <1>4, RootIs DEF ReadsSoundly
  <2>2. \E d \in seen : root = Root(d)
    BY <2>1
  <2>3. \E d \in seen : read.mons = d.mons
    BY <1>1, <1>4 DEF ReadsSoundly, HasSeen
  <2>4. read' = q
    BY <1>4
  <2> HIDE DEF root
  <2>5. /\ q \in Readings /\ q.step = "third" /\ q.mons = read.mons /\ q.root = root
        /\ q.areas = read.areas
        /\ q.by = read.by /\ q.post = read.post /\ q.told = read.told /\ q.cache = read.cache
    BY <1>1, <2>1 DEF Readings, ReadSteps
  <2> HIDE DEF q
  <2>6. BeginsEmpty(q) /\ Truthful(q, desk, seen)
    BY <2>5 DEF BeginsEmpty, Truthful
  <2>7. HasSeen(q, seen)
    BY <1>1, <2>2, <2>3, <2>5 DEF HasSeen
  <2>8. PublishedFirst(q, seen)
    BY <2>5 DEF ReadsSoundly, PublishedFirst
  <2>9. ReadsSoundly(q, desk, seen)
    BY <1>1, <2>1, <2>5, <2>6, <2>7, <2>8 DEF ReadsSoundly
  <2>10. QED
    BY <1>2, <2>4, <2>9
<1>5. CASE /\ read.step = "third"
           /\ read' = Reading([i \in DOMAIN read.mons |->
                        UsableArea(read.mons[i], read.root, CollectStruts(desk))])
  <2>1. PICK e \in seen : read.mons = e.mons
    BY <1>1, <1>5 DEF ReadsSoundly, HasSeen
  <2>2. PICK f \in seen : read.root = Root(f)
    BY <1>1, <1>5 DEF ReadsSoundly, HasSeen
  <2> DEFINE a == [i \in DOMAIN read.mons |->
                     UsableArea(read.mons[i], read.root, CollectStruts(desk))]
             root == Root(f)
  <2>3. root \in Rects
    BY <1>1, RootIs
  <2>4. DOMAIN a = DOMAIN e.mons /\ a = [i \in DOMAIN e.mons |-> a[i]]
    BY <2>1
  <2>5. \A i \in DOMAIN e.mons : a[i] = UsableArea(e.mons[i], root, CollectStruts(desk))
    BY <2>1, <2>2
  <2>6. e \in Desktops
    BY <1>1
  <2> HIDE DEF a
  <2>7. \A i \in DOMAIN e.mons :
          /\ Within(a[i], e.mons[i])
          /\ desk = e /\ root = Root(e) => Points(a[i]) = WorkPoints(e, i)
    <3> HIDE DEF root
    <3>1. QED
      BY <1>1, <2>3, <2>5, <2>6, UsableAreaIs
  <2>8. \A i \in DOMAIN e.mons : a[i] \in Rects
    BY <2>7 DEF Within
  <2>9. \A i \in DOMAIN e.mons : \E d \in seen :
          i \in DOMAIN d.mons /\ Points(a[i]) \subseteq Points(d.mons[i])
    BY <2>6, <2>7, WithinCovers
  <2>10. ASSUME seen = {desk}
         PROVE  \A i \in DOMAIN e.mons : Points(a[i]) = WorkPoints(desk, i)
    <3>1. e = desk /\ f = desk
      BY <2>1, <2>2, <2>10
    <3>2. QED
      BY <2>7, <3>1
  <2>11. read.by \in {"x11", "sway"} /\ read.step # "idle"
    BY <1>1, <1>5
  <2>12. ReadsSoundly(Reading(a), desk, seen)
    BY <2>1, <2>4, <2>8, <2>9, <2>10, <2>11, AnswersForNoted
  <2>13. QED
    BY <1>2, <1>5, <2>12 DEF a
<1>6. QED
  BY <1>1, <1>3, <1>4, <1>5 DEF ReadX11

-----------------------------------------------------------------------------
(* KDE, and the rearrangements.                                            *)

LEMMA RefreshKeeps ==
  ASSUME ReadsSoundly(read, desk, seen), Refresh
  PROVE  ReadsSoundly(read, desk, seen)'
<1> DEFINE q == [read EXCEPT !.step = "second", !.queued = TRUE]
<1>1. /\ read \in Readings /\ read.by = "kde" /\ read.step = "first" /\ Still
      /\ desk \in Desktops /\ desk \in seen /\ seen \in SUBSET Desktops /\ read' = q
  BY DEF ReadsSoundly, Refresh
<1>2. desk' = desk /\ seen' = seen
  BY <1>1 DEF Still
<1>3. /\ q \in Readings /\ q.step = "second" /\ q.areas = read.areas
      /\ q.by = "kde" /\ q.post = read.post /\ q.told = read.told /\ q.cache = read.cache
  BY <1>1 DEF Readings, ReadSteps
<1> HIDE DEF q
<1>4. BeginsEmpty(q) /\ Truthful(q, desk, seen) /\ HasSeen(q, seen)
  BY <1>3 DEF BeginsEmpty, Truthful, HasSeen
<1>5. PublishedFirst(q, seen)
  BY <1>3 DEF ReadsSoundly, PublishedFirst
<1>6. ReadsSoundly(q, desk, seen)
  BY <1>1, <1>3, <1>4, <1>5 DEF ReadsSoundly
<1>7. QED
  BY <1>1, <1>2, <1>6

LEMMA PublishedIs ==
  ASSUME NEW d \in Desktops
  PROVE  /\ Published(d) \in AreaPosts /\ Published(d).is = "displays"
         /\ Published(d).areas = WorkAreas(d)
<1> DEFINE a == WorkAreas(d)
<1>1. a \in Seq(Rects)
  BY WorkAreasAre
<1>2. Published(d) = [is |-> "displays", areas |-> a]
  BY DEF Published
<1> HIDE DEF a
<1>3. Published(d) \in AreaPosts /\ Published(d).is = "displays" /\ Published(d).areas = a
  BY <1>1, <1>2 DEF AreaPosts, PostKinds
<1>4. QED
  BY <1>3 DEF a

LEMMA CompletedIs ==
  ASSUME NEW ok \in BOOLEAN
  PROVE  /\ Completed(ok) \in AreaPosts /\ Completed(ok).is = (IF ok THEN "done" ELSE "error")
<1> DEFINE none == <<>>
           is == IF ok THEN "done" ELSE "error"
<1>1. none \in Seq(Rects) /\ is \in PostKinds
  BY DEF PostKinds
<1>2. Completed(ok) = [is |-> is, areas |-> none]
  BY DEF Completed
<1> HIDE DEF none, is
<1>3. Completed(ok) \in AreaPosts /\ Completed(ok).is = is
  BY <1>1, <1>2 DEF AreaPosts
<1>4. QED
  BY <1>3 DEF is

\* What is posted is of arrangements seen, and the areas come before the end.
PostsWell(more, es) ==
  /\ more \in Seq(AreaPosts)
  /\ \A k \in DOMAIN more : more[k].is = "displays" => OfSeen(more[k].areas, es)
  /\ \A k \in DOMAIN more : more[k].is = "done" => k # 1 /\ more[k - 1].is = "displays"

PostedMore(r, q, more) ==
  /\ q \in Readings /\ q.by = r.by /\ q.step = r.step /\ q.mons = r.mons /\ q.root = r.root
  /\ q.areas = r.areas /\ q.told = r.told /\ q.cache = r.cache /\ q.post = r.post \o more

\* More is posted, of arrangements seen, and nothing else is changed.
LEMMA PostKeeps ==
  ASSUME NEW r, NEW q, NEW e, NEW g \in Desktops, NEW ds, NEW es \in SUBSET Desktops,
         ReadsSoundly(r, e, ds), ds \subseteq es, g \in es, r.step # "idle",
         r.step = "answered" => g = e /\ es = ds,
         NEW more, PostsWell(more, es), PostedMore(r, q, more)
  PROVE  ReadsSoundly(q, g, es)
<1>1. /\ more \in Seq(AreaPosts)
      /\ \A k \in DOMAIN more : more[k].is = "displays" => OfSeen(more[k].areas, es)
      /\ \A k \in DOMAIN more : more[k].is = "done" => k # 1 /\ more[k - 1].is = "displays"
  BY DEF PostsWell
<1>2. /\ q \in Readings /\ q.by = r.by /\ q.step = r.step /\ q.mons = r.mons
      /\ q.root = r.root /\ q.areas = r.areas /\ q.told = r.told /\ q.cache = r.cache
      /\ q.post = r.post \o more
  BY DEF PostedMore
<1>3. r \in Readings /\ PublishedFirst(r, ds) /\ HasSeen(r, ds)
  BY DEF ReadsSoundly
<1>4. r.post \in Seq(AreaPosts)
  BY <1>3 DEF Readings
<1> DEFINE p == r.post
           n == Len(p)
           s == p \o more
<1>5. /\ n \in Nat /\ DOMAIN p = 1 .. n /\ Len(more) \in Nat /\ DOMAIN more = 1 .. Len(more)
      /\ DOMAIN s = 1 .. n + Len(more)
      /\ \A k \in 1 .. n + Len(more) : s[k] = IF k <= n THEN p[k] ELSE more[k - n]
  BY <1>4, <1>1
<1>6. /\ \A k \in DOMAIN p : p[k].is = "displays" => OfSeen(p[k].areas, es)
      /\ \A k \in DOMAIN p : p[k].is = "done" /\ k # 1 => p[k - 1].is = "displays"
      /\ \A k \in DOMAIN p : p[k].is = "done" /\ k = 1 => OfSeen(r.cache, es)
      /\ r.told = "done" => OfSeen(r.cache, es)
  BY <1>3 DEF PublishedFirst, OfSeen
<1> HIDE DEF p
<1>7. \A k \in DOMAIN s : s[k].is = "displays" => OfSeen(s[k].areas, es)
  <2>1. SUFFICES ASSUME NEW k \in DOMAIN s, s[k].is = "displays" PROVE OfSeen(s[k].areas, es)
    OBVIOUS
  <2>2. CASE k <= n
    <3>1. k \in DOMAIN p /\ s[k] = p[k]
      <4> HIDE DEF n, s
      <4>1. QED
        BY <1>5, <2>2
    <3>2. QED
      BY <1>6, <2>1, <3>1
  <2>3. CASE ~(k <= n)
    <3>1. k - n \in DOMAIN more /\ s[k] = more[k - n]
      <4> HIDE DEF n, s
      <4>1. QED
        BY <1>5, <2>3
    <3>2. QED
      BY <1>1, <2>1, <3>1
  <2>4. QED
    BY <2>2, <2>3
<1>8. \A k \in DOMAIN s : s[k].is = "done" /\ k # 1 => s[k - 1].is = "displays"
  <2>1. SUFFICES ASSUME NEW k \in DOMAIN s, s[k].is = "done", k # 1
                 PROVE  s[k - 1].is = "displays"
    OBVIOUS
  <2>2. CASE k <= n
    <3>1. k \in DOMAIN p /\ s[k] = p[k] /\ s[k - 1] = p[k - 1]
      <4> HIDE DEF n, s
      <4>1. QED
        BY <1>5, <2>1, <2>2
    <3>2. QED
      BY <1>6, <2>1, <3>1
  <2>3. CASE ~(k <= n)
    <3>1. k - n \in DOMAIN more /\ s[k] = more[k - n]
      <4> HIDE DEF n, s
      <4>1. QED
        BY <1>5, <2>3
    <3>2. k - n # 1 /\ more[(k - n) - 1].is = "displays"
      BY <1>1, <2>1, <3>1
    <3>3. s[k - 1] = more[(k - n) - 1]
      <4> HIDE DEF n, s
      <4>1. k - 1 \in 1 .. n + Len(more) /\ ~(k - 1 <= n) /\ (k - 1) - n = (k - n) - 1
        BY <1>5, <2>3, <3>1, <3>2
      <4>2. QED
        BY <1>5, <4>1
    <3>4. QED
      BY <3>2, <3>3
  <2>4. QED
    BY <2>2, <2>3
<1>9. \A k \in DOMAIN s : s[k].is = "done" /\ k = 1 => OfSeen(r.cache, es)
  <2>1. SUFFICES ASSUME 1 \in DOMAIN s, s[1].is = "done" PROVE OfSeen(r.cache, es)
    OBVIOUS
  <2>2. CASE 1 <= n
    <3>1. 1 \in DOMAIN p /\ s[1] = p[1]
      <4> HIDE DEF n, s
      <4>1. QED
        BY <1>5, <2>1, <2>2
    <3>2. QED
      BY <1>6, <2>1, <3>1
  <2>3. CASE ~(1 <= n)
    <3>1. n = 0
      <4> HIDE DEF n, s
      <4>1. QED
        BY <1>5, <2>3
    <3>2. 1 \in DOMAIN more /\ s[1] = more[1]
      <4> HIDE DEF n, s
      <4>1. QED
        BY <1>5, <2>1, <3>1
    <3>3. QED
      BY <1>1, <2>1, <3>2
  <2>4. QED
    BY <2>2, <2>3
<1>10. q.post = s
  BY <1>2 DEF p
<1> HIDE DEF n, s
<1>11. PublishedFirst(q, es)
  BY <1>6, <1>7, <1>8, <1>9, <1>10, <1>2 DEF PublishedFirst
<1>12. HasSeen(q, es)
  BY <1>3, <1>2 DEF HasSeen
<1>13. BeginsEmpty(q)
  BY <1>2 DEF BeginsEmpty
<1>14. Truthful(q, g, es)
  <2>1. CASE r.step = "answered"
    <3>1. Truthful(r, g, es)
      BY <2>1 DEF ReadsSoundly
    <3>2. QED
      BY <1>2, <3>1 DEF Truthful
  <2>2. CASE r.step # "answered"
    BY <1>2, <2>2 DEF Truthful
  <2>3. QED
    BY <2>1, <2>2
<1>15. QED
  BY <1>11, <1>12, <1>13, <1>14, <1>2 DEF ReadsSoundly

LEMMA ScriptRefreshesKeeps ==
  ASSUME ReadsSoundly(read, desk, seen), ScriptRefreshes
  PROVE  ReadsSoundly(read, desk, seen)'
<1> DEFINE more == IF \A i \in DOMAIN desk.mons : WorkPoints(desk, i) # {}
                   THEN <<Published(desk), Completed(TRUE)>> ELSE <<Completed(FALSE)>>
<1>1. /\ read \in Readings /\ read.queued /\ Still
      /\ desk \in Desktops /\ seen \in SUBSET Desktops
  BY DEF ReadsSoundly, ScriptRefreshes
<1>2. desk' = desk /\ seen' = seen
  BY <1>1 DEF Still
<1>3. read' = [read EXCEPT !.queued = FALSE, !.post = read.post \o more]
  BY DEF ScriptRefreshes
<1>4. read.step # "idle"
  BY <1>1 DEF ReadsSoundly, BeginsEmpty
<1>5. desk \in seen
  BY <1>4 DEF ReadsSoundly
<1>6. PostsWell(more, seen)
  <2> DEFINE a == Published(desk)
             b == Completed(TRUE)
             c == Completed(FALSE)
  <2>1. a \in AreaPosts /\ a.is = "displays" /\ a.areas = WorkAreas(desk)
    BY <1>1, PublishedIs
  <2>2. b \in AreaPosts /\ b.is = "done" /\ c \in AreaPosts /\ c.is = "error"
    BY CompletedIs
  <2>3. OfSeen(a.areas, seen)
    BY <1>5, <2>1 DEF OfSeen
  <2> HIDE DEF a, b, c
  <2> DEFINE two == <<a, b>>
             one == <<c>>
  <2>4. PostsWell(two, seen)
    <3>1. DOMAIN two = 1 .. 2 /\ two[1] = a /\ two[2] = b /\ two \in Seq(AreaPosts)
      BY <2>1, <2>2
    <3> HIDE DEF two
    <3>2. QED
      BY <2>1, <2>2, <2>3, <3>1 DEF PostsWell
  <2>5. PostsWell(one, seen)
    <3>1. DOMAIN one = 1 .. 1 /\ one[1] = c /\ one \in Seq(AreaPosts)
      BY <2>2
    <3> HIDE DEF one
    <3>2. QED
      BY <2>2, <3>1 DEF PostsWell
  <2>6. more = two \/ more = one
    BY DEF a, b, c
  <2> HIDE DEF more, one, two
  <2>7. QED
    BY <2>4, <2>5, <2>6
<1> HIDE DEF more
<1> DEFINE q == [read EXCEPT !.queued = FALSE, !.post = read.post \o more]
<1>7. read.post \in Seq(AreaPosts)
  BY <1>1 DEF Readings
<1>8. read.post \o more \in Seq(AreaPosts)
  BY <1>6, <1>7 DEF PostsWell
<1>9. PostedMore(read, q, more)
  BY <1>1, <1>8 DEF Readings, PostedMore
<1> HIDE DEF q
<1>10. seen \subseteq seen
  OBVIOUS
<1>11. ReadsSoundly(q, desk, seen)
  BY <1>1, <1>4, <1>5, <1>6, <1>9, <1>10, PostKeeps
<1>12. QED
  BY <1>2, <1>3, <1>11 DEF q

LEMMA CompanionHandlesKeeps ==
  ASSUME ReadsSoundly(read, desk, seen), CompanionHandles
  PROVE  ReadsSoundly(read, desk, seen)'
<1> DEFINE p == read.post
           t == Tail(p)
<1>1. /\ read \in Readings /\ p \in Seq(AreaPosts) /\ p # <<>> /\ Still
      /\ PublishedFirst(read, seen) /\ HasSeen(read, seen) /\ Truthful(read, desk, seen)
  BY DEF ReadsSoundly, CompanionHandles, Readings
<1>2. desk' = desk /\ seen' = seen
  BY <1>1 DEF Still
<1>3. read.step # "idle"
  BY <1>1 DEF ReadsSoundly, BeginsEmpty
<1>4. /\ Len(p) \in Nat \ {0} /\ DOMAIN p = 1 .. Len(p) /\ Head(p) = p[1]
      /\ t \in Seq(AreaPosts) /\ DOMAIN t = 1 .. Len(p) - 1
      /\ \A k \in DOMAIN t : t[k] = p[k + 1]
  BY <1>1
<1>5. p[1] \in AreaPosts /\ p[1].is \in PostKinds /\ p[1].areas \in Seq(Rects)
  <2>1. p[1] \in AreaPosts
    <3> HIDE DEF p
    <3>1. QED
      BY <1>1, <1>4
  <2>2. QED
    BY <2>1 DEF AreaPosts
<1>6. /\ \A k \in DOMAIN p : p[k].is = "displays" => OfSeen(p[k].areas, seen)
      /\ \A k \in DOMAIN p : p[k].is = "done" /\ k # 1 => p[k - 1].is = "displays"
      /\ \A k \in DOMAIN p : p[k].is = "done" /\ k = 1 => OfSeen(read.cache, seen)
      /\ read.told = "done" => OfSeen(read.cache, seen)
  BY <1>1 DEF PublishedFirst
<1> HIDE DEF t
<1>7. \A k \in DOMAIN t : t[k].is = "displays" => OfSeen(t[k].areas, seen)
  <2>1. \A k \in DOMAIN t : k + 1 \in DOMAIN p
    BY <1>4
  <2> HIDE DEF p
  <2>2. QED
    BY <1>4, <1>6, <2>1
<1>8. \A k \in DOMAIN t : t[k].is = "done" =>
        IF k = 1 THEN p[1].is = "displays" ELSE t[k - 1].is = "displays"
  <2> HIDE DEF p
  <2>1. TAKE k \in DOMAIN t
  <2>2. k \in Int /\ k + 1 \in DOMAIN p /\ k + 1 # 1 /\ (k + 1) - 1 = k
    BY <1>4
  <2>3. t[k].is = "done" => p[k].is = "displays"
    BY <1>4, <1>6, <2>2
  <2>4. k # 1 => k - 1 \in DOMAIN t /\ (k - 1) + 1 = k
    BY <1>4
  <2>5. k # 1 => t[k - 1] = p[k]
    BY <1>4, <2>4
  <2>6. QED
    BY <2>3, <2>5
<1>9. CASE p[1].is = "displays"
  <2> DEFINE a == p[1].areas
             q == [read EXCEPT !.post = t, !.cache = a]
  <2>1. read' = q
    BY <1>4, <1>9 DEF CompanionHandles, t
  <2>2. a \in Seq(Rects) /\ OfSeen(a, seen)
    BY <1>4, <1>5, <1>6, <1>9
  <2> HIDE DEF a
  <2>3. /\ q \in Readings /\ q.by = read.by /\ q.step = read.step /\ q.mons = read.mons
        /\ q.root = read.root /\ q.areas = read.areas /\ q.told = read.told
        /\ q.cache = a /\ q.post = t
    BY <1>1, <1>4, <2>2 DEF Readings
  <2> HIDE DEF q, p
  <2>4. PublishedFirst(q, seen)
    BY <1>7, <1>8, <2>2, <2>3 DEF PublishedFirst
  <2>5. HasSeen(q, seen)
    BY <1>1, <2>3 DEF HasSeen
  <2>6. BeginsEmpty(q) /\ Truthful(q, desk, seen)
    BY <1>1, <1>3, <2>3 DEF BeginsEmpty, Truthful
  <2>7. ReadsSoundly(q, desk, seen)
    BY <1>3, <2>3, <2>4, <2>5, <2>6 DEF ReadsSoundly
  <2>8. QED
    BY <1>2, <2>1, <2>7
<1>10. CASE p[1].is # "displays"
  <2> DEFINE is == p[1].is
             q == [read EXCEPT !.post = t, !.told = is]
  <2>1. read' = q
    BY <1>4, <1>10 DEF CompanionHandles, t
  <2>2. is \in {"done", "error"} /\ (is = "done" => OfSeen(read.cache, seen))
    <3>1. 1 \in DOMAIN p
      BY <1>4
    <3>2. QED
      BY <1>5, <1>6, <1>10, <3>1 DEF PostKinds
  <2>3. \A k \in DOMAIN t : t[k].is = "done" => k # 1 /\ t[k - 1].is = "displays"
    <3> HIDE DEF p
    <3>1. QED
      BY <1>8, <1>10
  <2> HIDE DEF is
  <2>4. /\ q \in Readings /\ q.by = read.by /\ q.step = read.step /\ q.mons = read.mons
        /\ q.root = read.root /\ q.areas = read.areas /\ q.told = is
        /\ q.cache = read.cache /\ q.post = t
    BY <1>1, <1>4, <2>2 DEF Readings, Results
  <2> HIDE DEF q, p
  <2>5. PublishedFirst(q, seen)
    BY <1>7, <2>2, <2>3, <2>4 DEF PublishedFirst
  <2>6. HasSeen(q, seen)
    BY <1>1, <2>4 DEF HasSeen
  <2>7. BeginsEmpty(q) /\ Truthful(q, desk, seen)
    BY <1>1, <1>3, <2>4 DEF BeginsEmpty, Truthful
  <2>8. ReadsSoundly(q, desk, seen)
    BY <1>3, <2>4, <2>5, <2>6, <2>7 DEF ReadsSoundly
  <2>9. QED
    BY <1>2, <2>1, <2>8
<1>11. QED
  BY <1>9, <1>10

LEMMA GetDisplaysKeeps ==
  ASSUME ReadsSoundly(read, desk, seen), GetDisplays
  PROVE  ReadsSoundly(read, desk, seen)'
<1>1. /\ read \in Readings /\ read.by = "kde" /\ read.step = "second" /\ Still
      /\ seen \in SUBSET Desktops
  BY DEF ReadsSoundly, GetDisplays
<1>2. desk' = desk /\ seen' = seen
  BY <1>1 DEF Still
<1>3. CASE read.told = "done" /\ read' = Reading(read.cache)
  <2> DEFINE a == read.cache
  <2>1. a \in Seq(Rects) /\ OfSeen(a, seen)
    BY <1>1, <1>3 DEF ReadsSoundly, PublishedFirst, Readings
  <2> HIDE DEF a
  <2>2. Reading(a).areas = a /\ Reading(a).by = "kde"
    BY <1>1, <2>1, ReadingIs
  <2>3. Reading(a).by \notin {"x11", "sway"} /\ OfSeen(Reading(a).areas, seen)
    BY <2>1, <2>2
  <2>4. Truthful(Reading(a), desk, seen)
    BY <1>1, <2>3, SeenIsTrue
  <2>5. ReadsSoundly(Reading(a), desk, seen)
    BY <1>1, <2>1, <2>4, AnswerKeeps
  <2>6. QED
    BY <1>2, <1>3, <2>5 DEF a
<1>4. CASE Fails
  BY <1>1, <1>4, FailKeeps
<1>5. QED
  BY <1>3, <1>4 DEF GetDisplays

LEMMA RearrangeKeeps ==
  ASSUME DisplaysConstantsOK, ReadsSoundly(read, desk, seen), Rearrange
  PROVE  ReadsSoundly(read, desk, seen)'
<1>1. PICK g : g = desk'
  OBVIOUS
<1> DEFINE es == seen \cup {g}
<1>2. /\ read.step \notin {"idle", "answered", "failed"} /\ g \in Later /\ seen' = es
      /\ read' = IF read.by = "kde" /\ g.mons # desk.mons
                 THEN [read EXCEPT !.post = Append(read.post, Published(g))] ELSE read
  BY <1>1 DEF Rearrange
<1>3. read \in Readings /\ seen \in SUBSET Desktops /\ g \in Desktops
  BY <1>2 DEF ReadsSoundly, DisplaysConstantsOK
<1>4. es \in SUBSET Desktops /\ seen \subseteq es /\ g \in es
  BY <1>3
<1> HIDE DEF es
<1> DEFINE a == Published(g)
<1>5. a \in AreaPosts /\ a.is = "displays" /\ OfSeen(a.areas, es)
  BY <1>3, <1>4, PublishedIs DEF OfSeen
<1> HIDE DEF a
<1> DEFINE none == <<>>
           one  == <<a>>
<1>6. /\ none \in Seq(AreaPosts) /\ DOMAIN none = {}
      /\ one \in Seq(AreaPosts) /\ DOMAIN one = 1 .. 1 /\ one[1] = a
  BY <1>5
<1>7. read.post \in Seq(AreaPosts)
  BY <1>3 DEF Readings
<1>8. read.post \o none = read.post /\ read.post \o one = Append(read.post, a)
  BY <1>5, <1>7
<1> HIDE DEF none, one
<1>9. PostsWell(none, es) /\ PostsWell(one, es)
  BY <1>5, <1>6 DEF PostsWell
<1>10. read.step # "idle" /\ (read.step = "answered" => g = desk /\ es = seen)
  BY <1>2
<1>11. CASE read.by = "kde" /\ g.mons # desk.mons
  <2> DEFINE q == [read EXCEPT !.post = read.post \o one]
  <2>1. read.post \o one \in Seq(AreaPosts)
    BY <1>6, <1>7
  <2>2. PostedMore(read, q, one)
    BY <1>3, <2>1 DEF Readings, PostedMore
  <2>3. read' = q
    BY <1>2, <1>8, <1>11 DEF a
  <2> HIDE DEF q
  <2>4. ReadsSoundly(q, g, es)
    BY <1>3, <1>4, <1>9, <1>10, <2>2, PostKeeps
  <2>5. QED
    BY <1>1, <1>2, <2>3, <2>4
<1>12. CASE ~(read.by = "kde" /\ g.mons # desk.mons)
  <2>1. PostedMore(read, read, none)
    BY <1>3, <1>8 DEF PostedMore
  <2>2. ReadsSoundly(read, g, es)
    BY <1>3, <1>4, <1>9, <1>10, <2>1, PostKeeps
  <2>3. QED
    BY <1>1, <1>2, <1>12, <2>2
<1>13. QED
  BY <1>11, <1>12

LEMMA ReadingKeeps ==
  ASSUME DisplaysConstantsOK, ReadsSoundly(read, desk, seen), DisplaysNext
  PROVE  ReadsSoundly(read, desk, seen)'
BY BeginKeeps, AtOnceKeeps, ReadWindowsKeeps, ReadSwayKeeps, ReadX11Keeps, RefreshKeeps,
   ScriptRefreshesKeeps, CompanionHandlesKeeps, GetDisplaysKeeps, RearrangeKeeps
   DEF DisplaysNext

\* The cache of KDE may be stale when the reading begins: see PublishedFirst.
LEMMA ReadingBegins ==
  ASSUME DisplaysConstantsOK, DisplaysInit
  PROVE  ReadsSoundly(read, desk, seen)
<1> DEFINE e == <<>>
           z == Rect(0, 0, 0, 0)
<1>1. /\ e \in Seq(Monitors) /\ e \in Seq(Rects) /\ e \in Seq(AreaPosts) /\ z \in Rects
      /\ DOMAIN e = {}
  BY DEF Rect, Rects
<1>2. PICK by \in Readers, c \in Seq(Rects) :
        read = [by |-> by, step |-> "idle", mons |-> e, root |-> z, areas |-> e,
                queued |-> FALSE, post |-> e, told |-> "none", cache |-> c]
  <2>1. CASE \E by \in Readers \ {"kde"} : read = [NoRead EXCEPT !.by = by]
    <3>1. PICK by \in Readers : read = [NoRead EXCEPT !.by = by]
      BY <2>1
    <3>2. read = [by |-> by, step |-> "idle", mons |-> e, root |-> z, areas |-> e,
                  queued |-> FALSE, post |-> e, told |-> "none", cache |-> e]
      BY <3>1 DEF NoRead
    <3>3. QED
      BY <1>1, <3>2
  <2>2. CASE /\ "kde" \in Readers
             /\ \E stale \in Later :
                  read = [NoRead EXCEPT !.by = "kde", !.cache = WorkAreas(stale)]
    <3>1. PICK stale \in Later : read = [NoRead EXCEPT !.by = "kde", !.cache = WorkAreas(stale)]
      BY <2>2
    <3> DEFINE c == WorkAreas(stale)
    <3>2. c \in Seq(Rects)
      BY WorkAreasAre DEF DisplaysConstantsOK
    <3>3. read = [by |-> "kde", step |-> "idle", mons |-> e, root |-> z, areas |-> e,
                  queued |-> FALSE, post |-> e, told |-> "none", cache |-> c]
      BY <3>1 DEF NoRead
    <3> HIDE DEF c, e, z
    <3>4. QED
      BY <2>2, <3>2, <3>3
  <2>3. QED
    BY <2>1, <2>2 DEF DisplaysInit
<1>3. desk \in Desktops /\ seen = {}
  BY DEF DisplaysInit, DisplaysConstantsOK
<1>4. read.post = <<>> /\ read.areas = <<>> /\ DOMAIN read.post = {} /\ DOMAIN read.areas = {}
  BY <1>1, <1>2
<1> HIDE DEF e, z
<1>5. /\ read \in Readings /\ read.step = "idle" /\ read.told = "none" /\ ~read.queued
  BY <1>1, <1>2 DEF Readings, ReadSteps, Results
<1>6. BeginsEmpty(read) /\ Truthful(read, desk, seen)
  BY <1>4, <1>5 DEF BeginsEmpty, Truthful
<1>7. HasSeen(read, seen) /\ PublishedFirst(read, seen)
  BY <1>4, <1>5 DEF HasSeen, PublishedFirst
<1>8. QED
  BY <1>3, <1>5, <1>6, <1>7 DEF ReadsSoundly

(***************************************************************************)
(* For every desktop, its panels and however it is rearranged, and for     *)
(* every adapter: displays that stay as they are while they are read are   *)
(* read as exactly the pixels that no panel reserves; and what is answered *)
(* of displays that are rearranged meanwhile was so, or is within bounds   *)
(* that were so, at some moment of the call.                               *)
(***************************************************************************)
THEOREM ReadingsStayTrue == Spec => []ReadingsAreTrue
<1>1. Init => ReadInv
  <2>1. CASE task = "move" /\ NoReading
    BY <2>1 DEF NoReading, NoRead, ReadInv
  <2>2. CASE task = "displays" /\ DisplaysInit
    BY <2>2, ReadingBegins, DisplaysConstantsOK DEF ReadInv
  <2>3. QED
    BY <2>1, <2>2 DEF Init
<1>2. ReadInv /\ [Next]_systemVars => ReadInv'
  <2> SUFFICES ASSUME ReadInv, [Next]_systemVars PROVE ReadInv'
    OBVIOUS
  <2>1. CASE UNCHANGED displaysVars /\ task' = task
    BY <2>1 DEF ReadInv, displaysVars
  <2>2. CASE task = "displays" /\ DisplaysNext /\ task' = task
    BY <2>2, ReadingKeeps, DisplaysConstantsOK DEF ReadInv
  <2>3. QED
    BY <2>1, <2>2 DEF Next, systemVars
<1>3. ReadInv => ReadingsAreTrue
  <2>1. CASE task = "move"
    BY <2>1 DEF ReadInv, ReadingsAreTrue, DisplaysAreExact, DisplaysAreOfTheCall
  <2>2. CASE task = "displays"
    BY <2>2
       DEF ReadInv, ReadsSoundly, Truthful, ReadingsAreTrue, DisplaysAreExact,
           DisplaysAreOfTheCall
  <2>3. QED
    BY <2>1, <2>2 DEF ReadInv
<1>4. QED
  BY <1>1, <1>2, <1>3, PTL DEF Spec
=============================================================================
