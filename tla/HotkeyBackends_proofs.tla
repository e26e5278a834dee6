------------------------ MODULE HotkeyBackends_proofs ------------------------
(***************************************************************************)
(* What the App holds is captured, and a chord acts once: on X11 and       *)
(* behind the native hooks, for any keys, modifiers, layouts and sets.     *)
(*                                                                         *)
(* On X11 the listener's map mirrors the server's grabs and is the         *)
(* accepted set in the spelling of some layout, the present one unless a   *)
(* change is unread; and the presses and releases of a key that are on     *)
(* their way do not mix.  Behind a native hook it matters where the marks  *)
(* of the hook may differ from the keyboard: only after a miss, or, for    *)
(* the modifiers of Windows, while the focused program has no keys at all. *)
(***************************************************************************)
EXTENDS HotkeyBackends, TLAPS

-----------------------------------------------------------------------------
(* The inductive invariant, of X11.                                        *)

\* What is grabbed is what the listener's map says, the accepted set as some layout
\* spells it: the present one, or one of which a change is unread.
Quiet(q) == \A i \in DOMAIN q : q[i].kind # "mapping"
Mirrored ==
  /\ listener.on => server.grabs = CombosOf(listener.grabs)
  /\ ~listener.on => server.grabs = {} /\ server.active = None /\ socket = <<>>
Spelt ==
  /\ \E layout \in Layouts : listener.grabs = Resolved(listener.accepted, layout)
  /\ listener.on /\ Quiet(socket) =>
       listener.grabs = Resolved(listener.accepted, server.layout)
Accepted == listener.on /\ app.held # None => listener.accepted = app.held

\* A key that is pressed anew has no press on its way: behind a release there are only
\* presses of the new hold, and a hold that has acted is marked until its release.
Press(q, i, c) == i \in DOMAIN q /\ q[i].kind = "press" /\ q[i].code = c
Release(q, i, c) == i \in DOMAIN q /\ q[i].kind = "release" /\ q[i].code = c
Sorted(q, c) == \A i, j, k \in Nat :
  i < j /\ j < k /\ Press(q, i, c) /\ Release(q, j, c) => ~Press(q, k, c)
Held(q, c) == \A i, j \in Nat : i < j /\ Press(q, i, c) => ~Release(q, j, c)
Marked(q, c, pressed, keys) ==
  /\ c \in keys => c \in pressed /\ \A j \in Nat : ~Release(q, j, c)
  /\ \A k \in Nat : Press(q, k, c) =>
       c \in pressed /\ \A j \in Nat : j < k => ~Release(q, j, c)
Holds == \A c \in Codes :
  /\ Sorted(socket, c)
  /\ c \in server.down => Held(socket, c)
  /\ listener.on /\ c \in fired => Marked(socket, c, listener.pressed, server.down)

X11Inv == TypeOK /\ Mirrored /\ Spelt /\ Accepted /\ Holds

-----------------------------------------------------------------------------
(* The inductive invariant, of the native hook.                            *)

Windows == platform = "windows"

\* A hook that is told to have ended looks for nothing; on macOS it is off.
Ended == hook.error => /\ hook.bindings = {} /\ hook.owner = None
                       /\ Windows \/ ~hook.on

\* What the hook has marked and what is down: the same on Windows until something is
\* missed, and on macOS, for plain keys, while the tap is enabled.
MarksAreHeld ==
  /\ hook.on /\ Windows /\ ~hook.error /\ ~missed => hook.pressed = down
  /\ hook.on /\ ~Windows /\ ~blind => hook.pressed \cap Plain \subseteq down

\* What the focused program has: nothing that was swallowed, nothing unmarked, and on
\* Windows nothing at all while marks of modifiers are out of date.
SeenIsHeld ==
  /\ Windows \/ ~missed => seen \subseteq down
  /\ hook.on /\ (Windows \/ ~missed) => hook.swallowed \cap seen = {}
  /\ hook.on /\ Windows => seen \subseteq hook.pressed
  /\ hook.on /\ Windows /\ ~(hook.pressed \cap Modifiers \subseteq down) => seen = {}
  /\ Windows /\ blind => seen = {}

NativeInv ==
  /\ Native!TypeOK /\ orphans = 0 /\ Native!HeldIsBound
  /\ Ended /\ MarksAreHeld /\ SeenIsHeld

IInv == X11Inv /\ NativeInv

-----------------------------------------------------------------------------
(* How hotkeys are spelt.                                                  *)

\* The conditions that GrabsOf puts on a key, a selector of a level and a mask.
Chosen(c, selector, mask, h, layout) ==
  /\ c \in Codes /\ selector \in SUBSET Bits /\ mask \in Masks(h, layout)
  /\ selector \cap Locks(layout) = {}
  /\ \E level \in DOMAIN layout.syms[c] : layout.syms[c][level] = h.sym

Spells(combo, h, layout) ==
  /\ \A n \in h.mods : combo[2] \cap layout.slots[n] # {}
  /\ \E level \in DOMAIN layout.syms[combo[1]] : layout.syms[combo[1]][level] = h.sym
  /\ \A lock \in Locks(layout) :
       (\A n \in h.mods : lock \notin layout.slots[n])
         => /\ <<combo[1], combo[2] \cup {lock}>> \in GrabsOf(h, layout)
            /\ <<combo[1], combo[2] \ {lock}>> \in GrabsOf(h, layout)

\* A mask has a bit of each modifier, and no others.
LEMMA MasksOfModifiers ==
  ASSUME NEW h, NEW layout, NEW mask \in Masks(h, layout)
  PROVE  /\ mask \in SUBSET Bits
         /\ \A n \in h.mods : mask \cap layout.slots[n] # {}
         /\ \A bit \in mask : \E n \in h.mods : bit \in layout.slots[n]
<1>1. PICK f \in [h.mods -> SUBSET Bits] :
        /\ \A n \in h.mods : f[n] # {} /\ f[n] \subseteq layout.slots[n]
        /\ mask = UNION Range(f)
  BY DEF Masks
<1>2. \A bit : bit \in mask <=> \E n \in h.mods : bit \in f[n]
  BY <1>1 DEF Range
<1>3. mask \in SUBSET Bits
  BY <1>1, <1>2
<1>4. ASSUME NEW n \in h.mods PROVE mask \cap layout.slots[n] # {}
  <2>1. PICK bit : bit \in f[n]
    BY <1>1
  <2> QED BY <1>1, <1>2, <2>1
<1> QED BY <1>1, <1>2, <1>3, <1>4

\* A grab is of a key with a chosen mask and selector and any of the locks ...
LEMMA GrabIsChosen ==
  ASSUME NEW h, NEW layout, NEW combo \in GrabsOf(h, layout)
  PROVE  \E c, selector, mask, on :
           /\ Chosen(c, selector, mask, h, layout)
           /\ on \in SUBSET (Locks(layout) \ (selector \cup mask))
           /\ combo = <<c, (selector \cup mask) \cup on>>
           /\ \A state \in Variants(selector \cup mask, Locks(layout)) :
                <<c, state>> \in GrabsOf(h, layout)
<1>1. PICK t \in Codes \X (SUBSET Bits) \X Masks(h, layout) :
        /\ combo \in {t[1]} \X Variants(t[2] \cup t[3], Locks(layout))
        /\ t[2] \cap Locks(layout) = {}
        /\ \E level \in DOMAIN layout.syms[t[1]] : layout.syms[t[1]][level] = h.sym
        /\ {t[1]} \X Variants(t[2] \cup t[3], Locks(layout)) \subseteq GrabsOf(h, layout)
  BY DEF GrabsOf
<1>2. /\ t[1] \in Codes /\ t[2] \in SUBSET Bits /\ t[3] \in Masks(h, layout)
      /\ combo = <<t[1], combo[2]>> /\ combo[2] \in Variants(t[2] \cup t[3], Locks(layout))
  BY <1>1
<1>3. PICK on : /\ on \in SUBSET (Locks(layout) \ (t[2] \cup t[3]))
                /\ combo[2] = (t[2] \cup t[3]) \cup on
  BY <1>2 DEF Variants
<1>4. Chosen(t[1], t[2], t[3], h, layout)
  BY <1>1, <1>2 DEF Chosen
<1>5. \A state \in Variants(t[2] \cup t[3], Locks(layout)) : <<t[1], state>> \in GrabsOf(h, layout)
  BY <1>1
<1> QED BY <1>2, <1>3, <1>4, <1>5

\* ... which makes it a key that has the symbol, with the modifiers, whatever the locks are.
LEMMA GrabsSpell ==
  ASSUME NEW h, NEW layout \in Layouts, NEW combo \in GrabsOf(h, layout)
  PROVE  combo \in Combos /\ Spells(combo, h, layout)
<1>1. PICK c, selector, mask, on :
        /\ Chosen(c, selector, mask, h, layout)
        /\ on \in SUBSET (Locks(layout) \ (selector \cup mask))
        /\ combo = <<c, (selector \cup mask) \cup on>>
        /\ \A state \in Variants(selector \cup mask, Locks(layout)) :
             <<c, state>> \in GrabsOf(h, layout)
  BY GrabIsChosen
<1>2. combo[1] = c /\ combo[2] = (selector \cup mask) \cup on
  BY <1>1
<1>. c \in Codes /\ selector \in SUBSET Bits /\ mask \in Masks(h, layout)
  BY <1>1 DEF Chosen
<1>3. /\ mask \in SUBSET Bits
      /\ \A n \in h.mods : mask \cap layout.slots[n] # {}
      /\ \A bit \in mask : \E n \in h.mods : bit \in layout.slots[n]
  BY MasksOfModifiers
<1>4. Locks(layout) \subseteq Bits
  BY ConstantsOK DEF Locks
<1>5. combo \in Combos
  BY <1>1, <1>3, <1>4 DEF Combos
<1>6. ASSUME NEW lock \in Locks(layout), \A n \in h.mods : lock \notin layout.slots[n]
      PROVE  /\ combo[2] \cup {lock} \in Variants(selector \cup mask, Locks(layout))
             /\ combo[2] \ {lock} \in Variants(selector \cup mask, Locks(layout))
  <2>1. lock \notin selector \cup mask
    BY <1>1, <1>3, <1>6 DEF Chosen
  <2>2. /\ on \cup {lock} \in SUBSET (Locks(layout) \ (selector \cup mask))
        /\ on \ {lock} \in SUBSET (Locks(layout) \ (selector \cup mask))
    BY <1>1, <2>1
  <2>3. /\ combo[2] \cup {lock} = (selector \cup mask) \cup (on \cup {lock})
        /\ combo[2] \ {lock} = (selector \cup mask) \cup (on \ {lock})
    BY <1>2, <2>1
  <2> QED BY <2>2, <2>3 DEF Variants
<1>7. \A n \in h.mods : combo[2] \cap layout.slots[n] # {}
  BY <1>2, <1>3
<1> QED BY <1>1, <1>2, <1>5, <1>6, <1>7 DEF Spells, Chosen

\* The grabs of a set are the grabs of its hotkeys, or none.
LEMMA ResolvedSets ==
  ASSUME NEW set \in Sets \cup {{}}, NEW layout \in Layouts
  PROVE  /\ Resolved(set, layout) \subseteq Combos \X Hotkeys
         /\ \A grab \in Resolved(set, layout) :
              /\ grab = <<grab[1], grab[2]>> /\ Spells(grab[1], grab[2], layout)
              /\ \A combo \in GrabsOf(grab[2], layout) :
                   <<combo, grab[2]>> \in Resolved(set, layout)
         /\ Resolved({}, layout) = {}
<1>1. \A some \in Sets \cup {{}} : Resolved(some, layout) =
        IF Unresolvable(some, layout) THEN {}
        ELSE UNION {GrabsOf(h, layout) \X {h} : h \in some}
  BY DEF Resolved, Resolution
<1>2. Resolved({}, layout) = {}
  BY <1>1
<1>3. ASSUME NEW grab \in Resolved(set, layout)
      PROVE  /\ grab \in Combos \X Hotkeys
             /\ grab = <<grab[1], grab[2]>> /\ Spells(grab[1], grab[2], layout)
             /\ \A combo \in GrabsOf(grab[2], layout) :
                  <<combo, grab[2]>> \in Resolved(set, layout)
  <2>1. /\ ~Unresolvable(set, layout)
        /\ Resolved(set, layout) = UNION {GrabsOf(h, layout) \X {h} : h \in set}
    BY <1>1
  <2>2. PICK h \in set : grab \in GrabsOf(h, layout) \X {h}
    BY <2>1
  <2>3. h \in Hotkeys
    BY ConstantsOK
  <2>4. grab = <<grab[1], h>> /\ grab[2] = h /\ grab[1] \in GrabsOf(h, layout)
    BY <2>2
  <2>5. grab[1] \in Combos /\ Spells(grab[1], h, layout)
    BY <2>4, GrabsSpell
  <2>6. \A combo \in GrabsOf(h, layout) : <<combo, h>> \in GrabsOf(h, layout) \X {h}
    OBVIOUS
  <2>7. \A combo \in GrabsOf(h, layout) : <<combo, h>> \in Resolved(set, layout)
    BY <2>1, <2>6
  <2> QED BY <2>3, <2>4, <2>5, <2>7
<1> QED BY <1>2, <1>3

-----------------------------------------------------------------------------
(* Events on their way.                                                    *)

LEMMA Kinds ==
  ASSUME NEW e \in Event
  PROVE  /\ e.kind \in {"press", "release", "mapping"}
         /\ e.kind = "press" => e.code \in Codes /\ e.state \in SUBSET Bits
         /\ e.kind = "release" => e.code \in Codes
BY DEF Event

\* What is left when the first event is taken.
LEMMA TailIsRead ==
  ASSUME NEW q \in Seq(Event), q # <<>>
  PROVE  /\ Head(q) \in Event /\ Head(q) = q[1] /\ Tail(q) \in Seq(Event) /\ 1 \in DOMAIN q
         /\ \A i \in DOMAIN Tail(q) : i + 1 \in DOMAIN q /\ Tail(q)[i] = q[i + 1] /\ i \in Nat /\ i > 0
         /\ \A i \in DOMAIN q : i = 1 \/ (i - 1 \in DOMAIN Tail(q) /\ Tail(q)[i - 1] = q[i])
<1>1. /\ Head(q) \in Event /\ Tail(q) \in Seq(Event)
      /\ Len(q) \in Nat \ {0} /\ DOMAIN q = 1 .. Len(q) /\ Head(q) = q[1]
      /\ Len(Tail(q)) = Len(q) - 1 /\ DOMAIN Tail(q) = 1 .. Len(q) - 1
  OBVIOUS
<1>2. \A i \in 1 .. Len(q) - 1 : Tail(q)[i] = q[i + 1]
  BY <1>1
<1>3. ASSUME NEW i \in DOMAIN q, i # 1
      PROVE  i - 1 \in DOMAIN Tail(q) /\ Tail(q)[i - 1] = q[i]
  <2>1. i - 1 \in 1 .. Len(q) - 1 /\ i - 1 + 1 = i
    BY <1>1, <1>3
  <2> QED BY <1>1, <1>2, <2>1
<1> QED BY <1>1, <1>2, <1>3

LEMMA TailKeepsOrder ==
  ASSUME NEW q \in Seq(Event), q # <<>>, NEW c
  PROVE  /\ \A i \in Nat : Press(Tail(q), i, c) => i > 0 /\ Press(q, i + 1, c)
         /\ \A i \in Nat : Release(Tail(q), i, c) => i > 0 /\ Release(q, i + 1, c)
         /\ Sorted(q, c) => Sorted(Tail(q), c)
         /\ Held(q, c) => Held(Tail(q), c)
         /\ \A pressed, keys :
              Marked(q, c, pressed, keys) => Marked(Tail(q), c, pressed, keys)
         /\ Quiet(Tail(q)) /\ Head(q).kind # "mapping" => Quiet(q)
<1>1. \A i \in DOMAIN Tail(q) : i + 1 \in DOMAIN q /\ Tail(q)[i] = q[i + 1] /\ i \in Nat /\ i > 0
  BY TailIsRead
<1>2. \A i \in Nat : Press(Tail(q), i, c) => i > 0 /\ Press(q, i + 1, c)
  BY <1>1 DEF Press
<1>3. \A i \in Nat : Release(Tail(q), i, c) => i > 0 /\ Release(q, i + 1, c)
  BY <1>1 DEF Release
<1>4. ASSUME Sorted(q, c) PROVE Sorted(Tail(q), c)
  <2> SUFFICES ASSUME NEW i \in Nat, NEW j \in Nat, NEW k \in Nat, i < j, j < k,
                      Press(Tail(q), i, c), Release(Tail(q), j, c), Press(Tail(q), k, c)
               PROVE  FALSE
    BY DEF Sorted
  <2>1. i + 1 \in Nat /\ j + 1 \in Nat /\ k + 1 \in Nat /\ i + 1 < j + 1 /\ j + 1 < k + 1
    OBVIOUS
  <2> QED BY <1>2, <1>3, <1>4, <2>1 DEF Sorted
<1>5. ASSUME Held(q, c) PROVE Held(Tail(q), c)
  <2> SUFFICES ASSUME NEW i \in Nat, NEW j \in Nat, i < j,
                      Press(Tail(q), i, c), Release(Tail(q), j, c)
               PROVE  FALSE
    BY DEF Held
  <2>1. i + 1 \in Nat /\ j + 1 \in Nat /\ i + 1 < j + 1
    OBVIOUS
  <2> QED BY <1>2, <1>3, <1>5, <2>1 DEF Held
<1>6. ASSUME NEW pressed, NEW keys, Marked(q, c, pressed, keys)
      PROVE  Marked(Tail(q), c, pressed, keys)
  <2>1. c \in keys => c \in pressed /\ \A j \in Nat : ~Release(Tail(q), j, c)
    BY <1>3, <1>6 DEF Marked
  <2>2. ASSUME NEW k \in Nat, Press(Tail(q), k, c)
        PROVE  c \in pressed /\ \A j \in Nat : j < k => ~Release(Tail(q), j, c)
    <3>1. k + 1 \in Nat /\ Press(q, k + 1, c)
      BY <1>2, <2>2
    <3>2. ASSUME NEW j \in Nat, j < k, Release(Tail(q), j, c) PROVE FALSE
      <4>1. j + 1 \in Nat /\ j + 1 < k + 1 /\ Release(q, j + 1, c)
        BY <1>3, <3>2
      <4> QED BY <1>6, <3>1, <4>1 DEF Marked
    <3> QED BY <1>6, <3>1, <3>2 DEF Marked
  <2> QED BY <2>1, <2>2 DEF Marked
<1>7. ASSUME Quiet(Tail(q)), Head(q).kind # "mapping" PROVE Quiet(q)
  <2> SUFFICES ASSUME NEW i \in DOMAIN q PROVE q[i].kind # "mapping"
    BY DEF Quiet
  <2>1. Head(q) = q[1]
    BY TailIsRead
  <2>2. i = 1 \/ (i - 1 \in DOMAIN Tail(q) /\ Tail(q)[i - 1] = q[i])
    BY TailIsRead
  <2>3. CASE i = 1
    BY <1>7, <2>1, <2>3
  <2>4. CASE i - 1 \in DOMAIN Tail(q) /\ Tail(q)[i - 1] = q[i]
    BY <1>7, <2>4 DEF Quiet
  <2> QED BY <2>2, <2>3, <2>4
<1> QED BY <1>2, <1>3, <1>4, <1>5, <1>6, <1>7

\* What there is when an event is sent.
LEMMA AppendIsSent ==
  ASSUME NEW q \in Seq(Event), NEW e \in Event
  PROVE  /\ Append(q, e) \in Seq(Event)
         /\ Quiet(Append(q, e)) => Quiet(q) /\ e.kind # "mapping"
         /\ \A c : \A i \in Nat :
              /\ Press(Append(q, e), i, c) =>
                   Press(q, i, c) \/ (i = Len(q) + 1 /\ e.kind = "press" /\ e.code = c)
              /\ Release(Append(q, e), i, c) =>
                   Release(q, i, c) \/ (i = Len(q) + 1 /\ e.kind = "release" /\ e.code = c)
              /\ Press(q, i, c) \/ Release(q, i, c) => i < Len(q) + 1
<1>1. Append(q, e) \in Seq(Event) /\ Len(q) \in Nat /\ DOMAIN q = 1 .. Len(q)
  OBVIOUS
<1>2. DOMAIN Append(q, e) = 1 .. Len(q) + 1
  BY <1>1
<1>3. \A i \in 1 .. Len(q) + 1 : Append(q, e)[i] = IF i = Len(q) + 1 THEN e ELSE q[i]
  BY <1>1
<1>4. ASSUME Quiet(Append(q, e)) PROVE Quiet(q) /\ e.kind # "mapping"
  <2>1. Len(q) + 1 \in 1 .. Len(q) + 1
    BY <1>1
  <2>2. e.kind # "mapping"
    BY <1>2, <1>3, <1>4, <2>1 DEF Quiet
  <2>3. \A i \in DOMAIN q : i \in 1 .. Len(q) + 1 /\ i # Len(q) + 1
    BY <1>1
  <2> QED BY <1>2, <1>3, <1>4, <2>2, <2>3 DEF Quiet
<1>5. ASSUME NEW c, NEW i \in Nat, Press(Append(q, e), i, c)
      PROVE  Press(q, i, c) \/ (i = Len(q) + 1 /\ e.kind = "press" /\ e.code = c)
  <2>1. /\ i \in 1 .. Len(q) + 1
        /\ Append(q, e)[i].kind = "press" /\ Append(q, e)[i].code = c
    BY <1>2, <1>5 DEF Press
  <2>2. i = Len(q) + 1 \/ i \in DOMAIN q
    BY <1>1, <2>1
  <2> QED BY <1>3, <2>1, <2>2 DEF Press
<1>6. ASSUME NEW c, NEW i \in Nat, Release(Append(q, e), i, c)
      PROVE  Release(q, i, c) \/ (i = Len(q) + 1 /\ e.kind = "release" /\ e.code = c)
  <2>1. /\ i \in 1 .. Len(q) + 1
        /\ Append(q, e)[i].kind = "release" /\ Append(q, e)[i].code = c
    BY <1>2, <1>6 DEF Release
  <2>2. i = Len(q) + 1 \/ i \in DOMAIN q
    BY <1>1, <2>1
  <2> QED BY <1>3, <2>1, <2>2 DEF Release
<1>7. \A c : \A i \in Nat : Press(q, i, c) \/ Release(q, i, c) => i < Len(q) + 1
  BY <1>1 DEF Press, Release
<1> QED BY <1>1, <1>4, <1>5, <1>6, <1>7

\* A press fits behind what is on its way when it repeats a hold that the listener may
\* have marked, or begins one with no press on its way; a release ends the hold.
LEMMA AppendKeepsOrder ==
  ASSUME NEW q \in Seq(Event), NEW e \in Event, NEW c, NEW pressed, NEW keys,
         Sorted(q, c)
  PROVE  LET same == e.kind # "mapping" /\ e.code = c
             new == Append(q, e)
         IN /\ ~same => /\ Sorted(new, c)
                        /\ Held(q, c) => Held(new, c)
                        /\ Marked(q, c, pressed, keys) => Marked(new, c, pressed, keys)
            /\ same /\ e.kind = "press" /\ Held(q, c) =>
                 /\ Sorted(new, c) /\ Held(new, c)
                 /\ Marked(q, c, pressed, keys) /\ c \in keys => Marked(new, c, pressed, keys)
            /\ same /\ e.kind = "press" /\ (\A i \in Nat : ~Press(q, i, c)) =>
                 Sorted(new, c) /\ Held(new, c)
            /\ same /\ e.kind = "release" =>
                 /\ Sorted(new, c)
                 /\ Marked(q, c, pressed, keys) => Marked(new, c, pressed, keys \ {c})
<1> DEFINE same == e.kind # "mapping" /\ e.code = c
           new == Append(q, e)
           pressing == e.kind = "press" /\ e.code = c
           releasing == e.kind = "release" /\ e.code = c
<1>1. /\ \A i \in Nat : Press(new, i, c) => Press(q, i, c) \/ (i = Len(q) + 1 /\ pressing)
      /\ \A i \in Nat : Release(new, i, c) => Release(q, i, c) \/ (i = Len(q) + 1 /\ releasing)
      /\ \A i \in Nat : Press(q, i, c) \/ Release(q, i, c) => i < Len(q) + 1
      /\ \A i \in Nat : Press(new, i, c) \/ Release(new, i, c) => i <= Len(q) + 1
  <2>1. Len(q) \in Nat
    OBVIOUS
  <2> QED BY <2>1, AppendIsSent
<1>2. /\ ~same => ~pressing /\ ~releasing
      /\ pressing => same /\ ~releasing
      /\ releasing => same /\ ~pressing
  BY Kinds
<1> HIDE DEF new, same, pressing, releasing
<1>3. ASSUME pressing => Held(q, c) \/ \A i \in Nat : ~Press(q, i, c)
      PROVE  Sorted(new, c)
  <2> SUFFICES ASSUME NEW i \in Nat, NEW j \in Nat, NEW k \in Nat, i < j, j < k,
                      Press(new, i, c), Release(new, j, c), Press(new, k, c)
               PROVE  FALSE
    BY DEF Sorted
  <2>1. Len(q) \in Nat /\ k <= Len(q) + 1
    BY <1>1
  <2>2. i < Len(q) + 1 /\ j < Len(q) + 1
    BY <2>1
  <2>3. Press(q, i, c) /\ Release(q, j, c)
    BY <1>1, <2>2
  <2>4. CASE Press(q, k, c)
    BY <2>3, <2>4 DEF Sorted
  <2>5. CASE pressing
    BY <1>3, <2>3, <2>5 DEF Held
  <2> QED BY <1>1, <2>4, <2>5
<1>4. ASSUME Held(q, c) \/ \A i \in Nat : ~Press(q, i, c), ~releasing
      PROVE  Held(new, c)
  <2> SUFFICES ASSUME NEW i \in Nat, NEW j \in Nat, i < j, Press(new, i, c), Release(new, j, c)
               PROVE  FALSE
    BY DEF Held
  <2>1. Release(q, j, c) /\ j < Len(q) + 1 /\ Len(q) \in Nat
    BY <1>1, <1>4
  <2>2. i < Len(q) + 1
    BY <2>1
  <2>3. Press(q, i, c)
    BY <1>1, <2>2
  <2> QED BY <1>4, <2>1, <2>3 DEF Held
<1>5. ASSUME NEW before, NEW after,
             Marked(q, c, pressed, before), pressing => c \in before,
             c \in after => c \in before /\ ~releasing
      PROVE  Marked(new, c, pressed, after)
  <2>1. c \in after => c \in pressed /\ \A j \in Nat : ~Release(new, j, c)
    BY <1>1, <1>5 DEF Marked
  <2>2. ASSUME NEW k \in Nat, Press(new, k, c)
        PROVE  c \in pressed /\ \A j \in Nat : j < k => ~Release(new, j, c)
    <3>1. CASE Press(q, k, c)
      <4>1. c \in pressed
        BY <1>5, <3>1 DEF Marked
      <4>2. ASSUME NEW j \in Nat, j < k, Release(new, j, c) PROVE FALSE
        <5>1. Len(q) \in Nat /\ k < Len(q) + 1
          BY <1>1, <3>1
        <5>2. j < Len(q) + 1
          BY <4>2, <5>1
        <5>3. Release(q, j, c)
          BY <1>1, <4>2, <5>2
        <5> QED BY <1>5, <3>1, <4>2, <5>3 DEF Marked
      <4> QED BY <4>1, <4>2
    <3>2. CASE pressing
      <4>1. c \in before /\ ~releasing
        BY <1>2, <1>5, <3>2
      <4> QED BY <1>1, <1>5, <4>1 DEF Marked
    <3> QED BY <1>1, <2>2, <3>1, <3>2
  <2> QED BY <2>1, <2>2 DEF Marked
<1>6. e.kind = "press" /\ same <=> pressing
  BY DEF same, pressing
<1>7. e.kind = "release" /\ same <=> releasing
  BY DEF same, releasing
<1>8. /\ ~same => /\ Sorted(new, c)
                  /\ Held(q, c) => Held(new, c)
                  /\ Marked(q, c, pressed, keys) => Marked(new, c, pressed, keys)
      /\ same /\ e.kind = "press" /\ Held(q, c) =>
           /\ Sorted(new, c) /\ Held(new, c)
           /\ Marked(q, c, pressed, keys) /\ c \in keys => Marked(new, c, pressed, keys)
      /\ same /\ e.kind = "press" /\ (\A i \in Nat : ~Press(q, i, c)) =>
           Sorted(new, c) /\ Held(new, c)
      /\ same /\ e.kind = "release" =>
           /\ Sorted(new, c)
           /\ Marked(q, c, pressed, keys) => Marked(new, c, pressed, keys \ {c})
  BY <1>2, <1>3, <1>4, <1>5, <1>6, <1>7
<1> QED BY <1>8 DEF new, same

-----------------------------------------------------------------------------
(* The steps of X11.                                                       *)

LEMMA X11Start == Init => X11Inv
<1> SUFFICES ASSUME Init PROVE X11Inv
  OBVIOUS
<1>1. /\ app = [held |-> None, asked |-> None, failed |-> FALSE, events |-> <<>>]
      /\ listener = [on |-> TRUE, grabs |-> {}, accepted |-> {}, pressed |-> {}]
      /\ server \in [grabs : {{}}, foreign : {{}}, active : {None}, down : {{}}, layout : Layouts]
      /\ socket = <<>> /\ fired = {} /\ faults = 0
  BY DEF Init, Listener
<1>2. TypeOK
  <2>1. /\ app \in [held : Sets \cup {None}, asked : Sets \cup {None}, failed : BOOLEAN,
                    events : Seq(Hotkeys)]
        /\ socket \in Seq(Event) /\ fired \subseteq Codes
    BY <1>1
  <2>2. /\ listener \in [on : BOOLEAN, grabs : SUBSET (Combos \X Hotkeys),
                         accepted : Sets \cup {{}}, pressed : SUBSET Codes]
        /\ server \in [grabs : SUBSET Combos, foreign : SUBSET Combos, active : Codes \cup {None},
                       down : SUBSET Codes, layout : Layouts]
    BY <1>1
  <2>3. faults \in 0 .. MaxFaults
    BY <1>1, ConstantsOK
  <2> QED BY <2>1, <2>2, <2>3 DEF TypeOK
<1>3. server.grabs = {} /\ server.layout \in Layouts
  BY <1>1
<1>4. Mirrored
  BY <1>1, <1>3 DEF Mirrored, CombosOf
<1>5. \A layout \in Layouts : Resolved({}, layout) = {}
  BY ResolvedSets
<1>6. Spelt
  BY <1>1, <1>3, <1>5 DEF Spelt
<1>7. Accepted
  BY <1>1 DEF Accepted
<1>8. Holds
  <2>1. \A i : \A c : ~Press(socket, i, c) /\ ~Release(socket, i, c)
    BY <1>1 DEF Press, Release
  <2> QED BY <1>1, <2>1 DEF Holds, Sorted, Held
<1> QED BY <1>2, <1>4, <1>6, <1>7, <1>8 DEF X11Inv

\* The map of grabs is replaced, and the server's grabs with it.
LEMMA ReplacedTogether ==
  ASSUME TypeOK, Mirrored, listener.on, NEW set \in Sets \cup {{}}, Replace(set)
  PROVE  /\ listener' \in [on : BOOLEAN, grabs : SUBSET (Combos \X Hotkeys),
                           accepted : Sets \cup {{}}, pressed : SUBSET Codes]
         /\ server' \in [grabs : SUBSET Combos, foreign : SUBSET Combos,
                         active : Codes \cup {None}, down : SUBSET Codes, layout : Layouts]
         /\ listener'.on /\ listener'.pressed = listener.pressed /\ listener'.accepted = set
         /\ listener'.grabs = Resolved(set, server.layout)
         /\ server'.layout = server.layout /\ server'.down = server.down
         /\ Mirrored'
<1>. server.layout \in Layouts
  BY DEF TypeOK
<1>1. Resolved(set, server.layout) \subseteq Combos \X Hotkeys
  BY ResolvedSets
<1>2. CombosOf(Resolved(set, server.layout)) \subseteq Combos
  BY <1>1 DEF CombosOf
<1>3. /\ listener' \in [on : BOOLEAN, grabs : SUBSET (Combos \X Hotkeys),
                        accepted : Sets \cup {{}}, pressed : SUBSET Codes]
      /\ listener'.on /\ listener'.pressed = listener.pressed /\ listener'.accepted = set
      /\ listener'.grabs = Resolved(set, server.layout)
  BY <1>1 DEF TypeOK, Replace
<1>4. /\ server' \in [grabs : SUBSET Combos, foreign : SUBSET Combos,
                      active : Codes \cup {None}, down : SUBSET Codes, layout : Layouts]
      /\ server'.layout = server.layout /\ server'.down = server.down
      /\ server'.grabs = (server.grabs \cup CombosOf(Resolved(set, server.layout)))
                           \ (CombosOf(listener.grabs) \ CombosOf(Resolved(set, server.layout)))
  BY <1>2 DEF TypeOK, Replace
<1>5. server.grabs = CombosOf(listener.grabs)
  BY DEF Mirrored
<1>6. server'.grabs = CombosOf(Resolved(set, server.layout))
  BY <1>4, <1>5
<1>7. Mirrored'
  BY <1>3, <1>6 DEF Mirrored, CombosOf
<1> QED BY <1>3, <1>4, <1>7

\* The thread ends, or another takes its place: nothing is grabbed, and nothing unread.
LEMMA CleanAfterEnd ==
  ASSUME TypeOK, socket' = <<>>,
         NEW reached \in BOOLEAN, listener' = [Listener EXCEPT !.on = reached],
         server' = [server EXCEPT !.grabs = {}, !.active = None]
  PROVE  /\ listener' \in [on : BOOLEAN, grabs : SUBSET (Combos \X Hotkeys),
                           accepted : Sets \cup {{}}, pressed : SUBSET Codes]
         /\ server' \in [grabs : SUBSET Combos, foreign : SUBSET Combos,
                         active : Codes \cup {None}, down : SUBSET Codes, layout : Layouts]
         /\ socket' \in Seq(Event)
         /\ listener'.on = reached
         /\ Mirrored' /\ Spelt'
         /\ \A c : Sorted(socket', c) /\ Held(socket', c)
<1>1. listener' = [on |-> reached, grabs |-> {}, accepted |-> {}, pressed |-> {}]
  BY DEF Listener
<1>2. /\ listener' \in [on : BOOLEAN, grabs : SUBSET (Combos \X Hotkeys),
                        accepted : Sets \cup {{}}, pressed : SUBSET Codes]
      /\ listener'.on = reached /\ listener'.grabs = {} /\ listener'.accepted = {}
  <2>1. /\ {} \in SUBSET (Combos \X Hotkeys) /\ {} \in Sets \cup {{}}
        /\ {} \in SUBSET Codes
    OBVIOUS
  <2>2. /\ listener'.on = reached /\ listener'.grabs = {} /\ listener'.accepted = {}
    BY <1>1
  <2>3. [on |-> reached, grabs |-> {}, accepted |-> {}, pressed |-> {}]
          \in [on : BOOLEAN, grabs : SUBSET (Combos \X Hotkeys),
              accepted : Sets \cup {{}}, pressed : SUBSET Codes]
    BY <2>1
  <2> QED BY <1>1, <2>2, <2>3
<1>9. socket' \in Seq(Event)
  OBVIOUS
<1>3. /\ server' \in [grabs : SUBSET Combos, foreign : SUBSET Combos,
                      active : Codes \cup {None}, down : SUBSET Codes, layout : Layouts]
      /\ server'.grabs = {} /\ server'.active = None /\ server'.layout \in Layouts
  BY DEF TypeOK
<1>4. Mirrored'
  BY <1>1, <1>3 DEF Mirrored, CombosOf
<1>5. \A layout \in Layouts : Resolved({}, layout) = {}
  BY ResolvedSets
<1>6. Spelt'
  BY <1>2, <1>3, <1>5 DEF Spelt
<1>7. \A i : \A c : ~Press(socket', i, c) /\ ~Release(socket', i, c)
  BY DEF Press, Release
<1>8. \A c : Sorted(socket', c) /\ Held(socket', c)
  BY <1>7 DEF Sorted, Held
<1> QED BY <1>2, <1>3, <1>4, <1>6, <1>8, <1>9

LEMMA ListenerRegistersStep == X11Inv /\ ListenerRegisters => X11Inv'
<1> SUFFICES ASSUME X11Inv, ListenerRegisters PROVE X11Inv'
  OBVIOUS
<1>1. /\ listener.on /\ app.asked # None /\ app.asked \in Sets
      /\ socket' = socket /\ fired' = fired /\ faults' = faults
      /\ TypeOK /\ Mirrored /\ Spelt /\ Accepted /\ Holds
  BY DEF X11Inv, TypeOK, ListenerRegisters, Calm
<1>2. \/ Replace(app.asked) /\ Answered(app.asked, FALSE)
      \/ UNCHANGED <<server, listener>> /\ Answered(app.held, FALSE)
  BY DEF ListenerRegisters, Refuse
<1>3. CASE Replace(app.asked) /\ Answered(app.asked, FALSE)
  <2>1. /\ app' \in [held : Sets \cup {None}, asked : Sets \cup {None}, failed : BOOLEAN,
                     events : Seq(Hotkeys)]
        /\ app'.held = app.asked
    BY <1>1, <1>3 DEF TypeOK, Answered
  <2>2. /\ listener' \in [on : BOOLEAN, grabs : SUBSET (Combos \X Hotkeys),
                          accepted : Sets \cup {{}}, pressed : SUBSET Codes]
        /\ server' \in [grabs : SUBSET Combos, foreign : SUBSET Combos,
                        active : Codes \cup {None}, down : SUBSET Codes, layout : Layouts]
        /\ listener'.on /\ listener'.pressed = listener.pressed /\ listener'.accepted = app.asked
        /\ listener'.grabs = Resolved(app.asked, server.layout)
        /\ server'.layout = server.layout /\ server'.down = server.down
        /\ Mirrored'
    BY <1>1, <1>3, ReplacedTogether
  <2>3. TypeOK'
    BY <1>1, <2>1, <2>2 DEF TypeOK
  <2>4. Spelt'
    BY <1>1, <2>2 DEF Spelt, TypeOK
  <2>5. Accepted'
    BY <2>1, <2>2 DEF Accepted
  <2>6. Holds'
    BY <1>1, <2>2 DEF Holds
  <2> QED BY <2>2, <2>3, <2>4, <2>5, <2>6 DEF X11Inv
<1>4. CASE UNCHANGED <<server, listener>> /\ Answered(app.held, FALSE)
  <2>1. /\ app' \in [held : Sets \cup {None}, asked : Sets \cup {None}, failed : BOOLEAN,
                     events : Seq(Hotkeys)]
        /\ app'.held = app.held
    BY <1>1, <1>4 DEF TypeOK, Answered
  <2>2. TypeOK'
    BY <1>1, <1>4, <2>1 DEF TypeOK
  <2>3. Mirrored' /\ Spelt' /\ Accepted' /\ Holds'
    BY <1>1, <1>4, <2>1 DEF Mirrored, Spelt, Accepted, Holds
  <2> QED BY <2>2, <2>3 DEF X11Inv
<1> QED BY <1>2, <1>3, <1>4

\* The App is told, or waits no more, when the thread ends.
LEMMA EndedStep ==
  ASSUME X11Inv, Ends, fired' = fired, faults' \in 0 .. MaxFaults,
         app' = app \/ Answered(None, TRUE)
  PROVE  X11Inv'
<1>1. /\ listener' \in [on : BOOLEAN, grabs : SUBSET (Combos \X Hotkeys),
                        accepted : Sets \cup {{}}, pressed : SUBSET Codes]
      /\ server' \in [grabs : SUBSET Combos, foreign : SUBSET Combos,
                      active : Codes \cup {None}, down : SUBSET Codes, layout : Layouts]
      /\ socket' \in Seq(Event)
      /\ listener'.on = FALSE
      /\ Mirrored' /\ Spelt'
      /\ \A c : Sorted(socket', c) /\ Held(socket', c)
  BY CleanAfterEnd DEF X11Inv, Ends
<1>2. app' \in [held : Sets \cup {None}, asked : Sets \cup {None}, failed : BOOLEAN,
                events : Seq(Hotkeys)]
  BY DEF X11Inv, TypeOK, Answered
<1>3. TypeOK'
  BY <1>1, <1>2 DEF X11Inv, TypeOK
<1>4. Accepted' /\ Holds'
  BY <1>1 DEF Accepted, Holds
<1> QED BY <1>1, <1>3, <1>4 DEF X11Inv

LEMMA ListenerFailsStep == X11Inv /\ ListenerFails => X11Inv'
<1> SUFFICES ASSUME X11Inv, ListenerFails PROVE X11Inv'
  OBVIOUS
<1>1. faults' \in 0 .. MaxFaults
  BY ConstantsOK DEF X11Inv, TypeOK, ListenerFails, Fault
<1>2. Ends /\ fired' = fired /\ (app' = app \/ Answered(None, TRUE))
  BY DEF ListenerFails
<1> QED BY <1>1, <1>2, EndedStep

\* A press that is read marks the hold that it began: no release is before the next one.
LEMMA ReadMarks ==
  ASSUME NEW q \in Seq(Event), q # <<>>, NEW c, NEW pressed, NEW keys,
         Press(q, 1, c), c \in pressed, Sorted(q, c), c \in keys => Held(q, c)
  PROVE  Marked(Tail(q), c, pressed, keys)
<1>1. /\ \A i \in Nat : Press(Tail(q), i, c) => i > 0 /\ Press(q, i + 1, c)
      /\ \A i \in Nat : Release(Tail(q), i, c) => i > 0 /\ Release(q, i + 1, c)
  BY TailKeepsOrder
<1>2. ASSUME c \in keys, NEW j \in Nat, Release(Tail(q), j, c) PROVE FALSE
  <2>1. Release(q, j + 1, c) /\ 1 < j + 1 /\ j + 1 \in Nat /\ 1 \in Nat
    BY <1>1, <1>2
  <2> QED BY <1>2, <2>1 DEF Held
<1>3. ASSUME NEW k \in Nat, NEW j \in Nat, Press(Tail(q), k, c), j < k, Release(Tail(q), j, c)
      PROVE  FALSE
  <2>1. /\ Release(q, j + 1, c) /\ Press(q, k + 1, c)
        /\ 1 < j + 1 /\ j + 1 < k + 1 /\ j + 1 \in Nat /\ k + 1 \in Nat /\ 1 \in Nat
    BY <1>1, <1>3
  <2> QED BY <2>1 DEF Sorted
<1> QED BY <1>2, <1>3 DEF Marked

\* A release that is read ends a hold, and behind it there is no press of that hold.
LEMMA ReadReleases ==
  ASSUME NEW q \in Seq(Event), q # <<>>, NEW c, NEW pressed, NEW rest, NEW keys,
         Release(q, 1, c), Marked(q, c, pressed, keys)
  PROVE  Marked(Tail(q), c, rest, keys)
<1>1. \A i \in Nat : Press(Tail(q), i, c) => i > 0 /\ Press(q, i + 1, c)
  BY TailKeepsOrder
<1>2. c \notin keys
  BY DEF Marked
<1>3. ASSUME NEW k \in Nat, Press(Tail(q), k, c) PROVE FALSE
  <2>1. Press(q, k + 1, c) /\ 1 < k + 1 /\ k + 1 \in Nat /\ 1 \in Nat
    BY <1>1, <1>3
  <2> QED BY <2>1 DEF Marked
<1> QED BY <1>2, <1>3 DEF Marked

\* What the listener reads of its keys leaves the grabs alone.
LEMMA KeysLeaveGrabs ==
  ASSUME Mirrored, Spelt, Accepted, TypeOK, listener.on, socket # <<>>,
         Head(socket).kind # "mapping",
         server' = server, socket' = Tail(socket), app'.held = app.held,
         listener'.on = listener.on, listener'.grabs = listener.grabs,
         listener'.accepted = listener.accepted
  PROVE  Mirrored' /\ Spelt' /\ Accepted'
<1>1. Mirrored' /\ Accepted'
  BY DEF Mirrored, Accepted
<1>2. socket \in Seq(Event)
  BY DEF TypeOK
<1>3. Quiet(socket') => Quiet(socket)
  BY <1>2, TailKeepsOrder
<1>4. Spelt'
  BY <1>3 DEF Spelt
<1> QED BY <1>1, <1>4

LEMMA ReadPressStep ==
  ASSUME X11Inv, listener.on, socket # <<>>, Head(socket).kind = "press", ReadPress(Head(socket)),
         socket' = Tail(socket), server' = server, faults' = faults
  PROVE  X11Inv'
<1> DEFINE e == Head(socket)
           hits == {grab[2] : grab \in {g \in listener.grabs : g[1] = <<e.code, e.state>>}}
           acts == e.code \notin listener.pressed /\ hits # {}
<1>1. /\ TypeOK /\ Mirrored /\ Spelt /\ Accepted /\ Holds
      /\ socket \in Seq(Event) /\ socket' \in Seq(Event)
      /\ e \in Event /\ e.kind = "press" /\ e.code \in Codes
      /\ Press(socket, 1, e.code)
  <2>1. socket \in Seq(Event) /\ TypeOK /\ Mirrored /\ Spelt /\ Accepted /\ Holds
    BY DEF X11Inv, TypeOK
  <2>2. e \in Event /\ e = socket[1] /\ 1 \in DOMAIN socket /\ Tail(socket) \in Seq(Event)
    BY <2>1, TailIsRead
  <2> QED BY <2>1, <2>2, Kinds DEF Press
<1>2. /\ listener' = [listener EXCEPT !.pressed = @ \cup {e.code}]
      /\ app' = [app EXCEPT !.events = @ \o (IF acts THEN <<CHOOSE h \in hits : TRUE>> ELSE <<>>)]
      /\ fired' = IF acts THEN fired \cup {e.code} ELSE fired
  BY DEF ReadPress
<1>3. hits \subseteq Hotkeys
  BY <1>1 DEF TypeOK
<1> HIDE DEF hits
<1>4. /\ listener' \in [on : BOOLEAN, grabs : SUBSET (Combos \X Hotkeys),
                        accepted : Sets \cup {{}}, pressed : SUBSET Codes]
      /\ listener'.on = listener.on /\ listener'.grabs = listener.grabs
      /\ listener'.accepted = listener.accepted
      /\ listener'.pressed = listener.pressed \cup {e.code}
  BY <1>1, <1>2 DEF TypeOK
<1>5. /\ app' \in [held : Sets \cup {None}, asked : Sets \cup {None}, failed : BOOLEAN,
                   events : Seq(Hotkeys)]
      /\ app'.held = app.held
  <2>1. acts => (CHOOSE h \in hits : TRUE) \in Hotkeys
    BY <1>3
  <2>2. app.events \o (IF acts THEN <<CHOOSE h \in hits : TRUE>> ELSE <<>>) \in Seq(Hotkeys)
    BY <1>1, <2>1 DEF TypeOK
  <2> QED BY <1>1, <1>2, <2>2 DEF TypeOK
<1>6. TypeOK'
  BY <1>1, <1>2, <1>4, <1>5 DEF TypeOK
<1>7. Mirrored' /\ Spelt' /\ Accepted'
  BY <1>1, <1>4, <1>5, KeysLeaveGrabs
<1>8. Holds'
  <2> SUFFICES ASSUME NEW c \in Codes
               PROVE  /\ Sorted(socket', c)
                      /\ c \in server'.down => Held(socket', c)
                      /\ listener'.on /\ c \in fired' =>
                           Marked(socket', c, listener'.pressed, server'.down)
    BY DEF Holds
  <2>1. /\ Sorted(socket, c) /\ (c \in server.down => Held(socket, c))
        /\ c \in fired => Marked(socket, c, listener.pressed, server.down)
    BY <1>1 DEF Holds
  <2>2. Sorted(socket', c) /\ (c \in server'.down => Held(socket', c))
    BY <1>1, <2>1, TailKeepsOrder
  <2>3. ASSUME c \in fired
        PROVE  Marked(socket', c, listener'.pressed, server'.down)
    <3>1. Marked(Tail(socket), c, listener.pressed, server.down)
      BY <1>1, <2>1, <2>3, TailKeepsOrder
    <3> QED BY <1>4, <3>1 DEF Marked
  <2>4. ASSUME c = e.code
        PROVE  Marked(socket', c, listener'.pressed, server'.down)
    BY <1>1, <1>4, <2>1, <2>4, ReadMarks
  <2> QED BY <1>2, <2>2, <2>3, <2>4
<1> QED BY <1>6, <1>7, <1>8 DEF X11Inv

LEMMA ReadReleaseStep ==
  ASSUME X11Inv, listener.on, socket # <<>>, Head(socket).kind = "release",
         listener' = [listener EXCEPT !.pressed = @ \ {Head(socket).code}],
         socket' = Tail(socket), UNCHANGED <<app, server, fired, faults>>
  PROVE  X11Inv'
<1> DEFINE e == Head(socket)
<1>1. /\ TypeOK /\ Mirrored /\ Spelt /\ Accepted /\ Holds
      /\ socket \in Seq(Event) /\ socket' \in Seq(Event)
      /\ e \in Event /\ e.kind = "release" /\ e.code \in Codes
      /\ Release(socket, 1, e.code)
  <2>1. socket \in Seq(Event) /\ TypeOK /\ Mirrored /\ Spelt /\ Accepted /\ Holds
    BY DEF X11Inv, TypeOK
  <2>2. e \in Event /\ e = socket[1] /\ 1 \in DOMAIN socket /\ Tail(socket) \in Seq(Event)
    BY <2>1, TailIsRead
  <2> QED BY <2>1, <2>2, Kinds DEF Release
<1>2. /\ listener' \in [on : BOOLEAN, grabs : SUBSET (Combos \X Hotkeys),
                        accepted : Sets \cup {{}}, pressed : SUBSET Codes]
      /\ listener'.on = listener.on /\ listener'.grabs = listener.grabs
      /\ listener'.accepted = listener.accepted
      /\ listener'.pressed = listener.pressed \ {e.code}
  BY <1>1 DEF TypeOK
<1>3. TypeOK'
  BY <1>1, <1>2 DEF TypeOK
<1>4. Mirrored' /\ Spelt' /\ Accepted'
  BY <1>1, <1>2, KeysLeaveGrabs
<1>5. Holds'
  <2> SUFFICES ASSUME NEW c \in Codes
               PROVE  /\ Sorted(socket', c)
                      /\ c \in server.down => Held(socket', c)
                      /\ c \in fired =>
                           Marked(socket', c, listener'.pressed, server.down)
    BY DEF Holds
  <2>1. /\ Sorted(socket, c) /\ (c \in server.down => Held(socket, c))
        /\ c \in fired => Marked(socket, c, listener.pressed, server.down)
    BY <1>1 DEF Holds
  <2>2. Sorted(socket', c) /\ (c \in server.down => Held(socket', c))
    BY <1>1, <2>1, TailKeepsOrder
  <2>3. ASSUME c \in fired, c = e.code
        PROVE  Marked(socket', c, listener'.pressed, server.down)
    BY <1>1, <2>1, <2>3, ReadReleases
  <2>4. ASSUME c \in fired, c # e.code
        PROVE  Marked(socket', c, listener'.pressed, server.down)
    <3>1. Marked(Tail(socket), c, listener.pressed, server.down)
      BY <1>1, <2>1, <2>4, TailKeepsOrder
    <3> QED BY <1>2, <2>4, <3>1 DEF Marked
  <2> QED BY <2>2, <2>3, <2>4
<1> QED BY <1>3, <1>4, <1>5 DEF X11Inv

LEMMA ReadMappingStep ==
  ASSUME X11Inv, listener.on, socket # <<>>, ReadMapping, UNCHANGED <<fired, faults>>
  PROVE  X11Inv'
<1>1. TypeOK /\ Mirrored /\ Spelt /\ Accepted /\ Holds /\ faults \in 0 .. MaxFaults
  BY DEF X11Inv, TypeOK
<1>2. CASE Replace(listener.accepted) /\ socket' = Tail(socket) /\ UNCHANGED app
  <2>1. listener.accepted \in Sets \cup {{}} /\ socket \in Seq(Event) /\ socket' \in Seq(Event)
    BY <1>1, <1>2 DEF TypeOK
  <2>2. /\ listener' \in [on : BOOLEAN, grabs : SUBSET (Combos \X Hotkeys),
                          accepted : Sets \cup {{}}, pressed : SUBSET Codes]
        /\ server' \in [grabs : SUBSET Combos, foreign : SUBSET Combos,
                        active : Codes \cup {None}, down : SUBSET Codes, layout : Layouts]
        /\ listener'.on /\ listener'.pressed = listener.pressed
        /\ listener'.accepted = listener.accepted
        /\ listener'.grabs = Resolved(listener.accepted, server.layout)
        /\ server'.layout = server.layout /\ server'.down = server.down
        /\ Mirrored'
    BY <1>1, <1>2, <2>1, ReplacedTogether
  <2>3. TypeOK'
    BY <1>1, <1>2, <2>1, <2>2 DEF TypeOK
  <2>4. Spelt'
    BY <1>1, <2>2 DEF Spelt, TypeOK
  <2>5. Accepted'
    BY <1>1, <1>2, <2>2 DEF Accepted
  <2>6. Holds'
    <3> SUFFICES ASSUME NEW c \in Codes
                 PROVE  /\ Sorted(socket', c)
                        /\ c \in server.down => Held(socket', c)
                        /\ c \in fired =>
                             Marked(socket', c, listener.pressed, server.down)
      BY <2>2 DEF Holds
    <3>1. /\ Sorted(socket, c) /\ (c \in server.down => Held(socket, c))
          /\ c \in fired => Marked(socket, c, listener.pressed, server.down)
      BY <1>1 DEF Holds
    <3> QED BY <1>2, <2>1, <3>1, TailKeepsOrder
  <2> QED BY <2>2, <2>3, <2>4, <2>5, <2>6 DEF X11Inv
<1>3. CASE Ends /\ (UNCHANGED app \/ Answered(None, TRUE))
  BY <1>1, <1>3, EndedStep
<1> QED BY <1>2, <1>3 DEF ReadMapping

LEMMA ListenerReadsStep == X11Inv /\ ListenerReads => X11Inv'
<1> SUFFICES ASSUME X11Inv, ListenerReads PROVE X11Inv'
  OBVIOUS
<1>1. listener.on /\ socket # <<>> /\ faults' = faults
  BY DEF ListenerReads, Calm
<1>2. \/ /\ Head(socket).kind = "press" /\ ReadPress(Head(socket))
         /\ socket' = Tail(socket) /\ server' = server
      \/ /\ Head(socket).kind = "release"
         /\ listener' = [listener EXCEPT !.pressed = @ \ {Head(socket).code}]
         /\ socket' = Tail(socket) /\ UNCHANGED <<app, server, fired>>
      \/ ReadMapping /\ fired' = fired
  BY DEF ListenerReads
<1>3. CASE /\ Head(socket).kind = "press" /\ ReadPress(Head(socket))
           /\ socket' = Tail(socket) /\ server' = server
  BY <1>1, <1>3, ReadPressStep
<1>4. CASE /\ Head(socket).kind = "release"
           /\ listener' = [listener EXCEPT !.pressed = @ \ {Head(socket).code}]
           /\ socket' = Tail(socket) /\ UNCHANGED <<app, server, fired>>
  BY <1>1, <1>4, ReadReleaseStep
<1>5. CASE ReadMapping /\ fired' = fired
  BY <1>1, <1>5, ReadMappingStep
<1> QED BY <1>2, <1>3, <1>4, <1>5

\* The App's own steps do not touch what is captured.
LEMMA AppOnly ==
  ASSUME X11Inv, UNCHANGED <<listener, server, socket, fired, faults>>,
         app' \in [held : Sets \cup {None}, asked : Sets \cup {None}, failed : BOOLEAN,
                   events : Seq(Hotkeys)],
         app'.held \in {app.held, None}
  PROVE  X11Inv'
<1>1. TypeOK'
  BY DEF X11Inv, TypeOK
<1>2. Mirrored' /\ Spelt' /\ Accepted' /\ Holds'
  BY DEF X11Inv, Mirrored, Spelt, Accepted, Holds
<1> QED BY <1>1, <1>2 DEF X11Inv

LEMMA X11AppStep == X11Inv /\ AppNext => X11Inv'
<1> SUFFICES ASSUME X11Inv, AppNext PROVE X11Inv'
  OBVIOUS
<1>0. TypeOK
  BY DEF X11Inv
<1>1. CASE AppRegisters
  <2>1. PICK set \in Sets : app' = [app EXCEPT !.asked = set]
    BY <1>1 DEF AppRegisters
  <2>2. UNCHANGED <<listener, server, socket, fired, faults>>
    BY <1>1 DEF AppRegisters, Calm
  <2>3. /\ app' \in [held : Sets \cup {None}, asked : Sets \cup {None}, failed : BOOLEAN,
                     events : Seq(Hotkeys)]
        /\ app'.held = app.held
    BY <1>0, <2>1 DEF TypeOK
  <2> QED BY <2>2, <2>3, AppOnly
<1>2. CASE AppRegistersInVain
  <2>1. /\ app' = [app EXCEPT !.failed = TRUE, !.held = None]
        /\ UNCHANGED <<listener, server, socket, fired, faults>>
    BY <1>2 DEF AppRegistersInVain, Calm
  <2>2. /\ app' \in [held : Sets \cup {None}, asked : Sets \cup {None}, failed : BOOLEAN,
                     events : Seq(Hotkeys)]
        /\ app'.held = None
    BY <1>0, <2>1 DEF TypeOK
  <2> QED BY <2>1, <2>2, AppOnly
<1>3. CASE AppPolls
  <2>1. /\ \/ app.events # <<>> /\ app' = [app EXCEPT !.events = Tail(@)]
           \/ app' = [app EXCEPT !.failed = TRUE, !.held = None]
        /\ UNCHANGED <<listener, server, socket, fired, faults>>
    BY <1>3 DEF AppPolls, Calm
  <2>2. app.events \in Seq(Hotkeys)
    BY <1>0 DEF TypeOK
  <2>3. app.events # <<>> => Tail(app.events) \in Seq(Hotkeys)
    BY <2>2
  <2>4. /\ app' \in [held : Sets \cup {None}, asked : Sets \cup {None}, failed : BOOLEAN,
                     events : Seq(Hotkeys)]
        /\ app'.held \in {app.held, None}
    BY <1>0, <2>1, <2>3 DEF TypeOK
  <2> QED BY <2>1, <2>4, AppOnly
<1>4. CASE AppRestarts
  <2>1. PICK reached \in BOOLEAN :
          /\ app' = [held |-> None, asked |-> None, failed |-> FALSE, events |-> <<>>]
          /\ listener' = [Listener EXCEPT !.on = reached]
          /\ server' = [server EXCEPT !.grabs = {}, !.active = None]
          /\ socket' = <<>> /\ fired' = {} /\ Fault
    BY <1>4 DEF AppRestarts
  <2>2. /\ listener' \in [on : BOOLEAN, grabs : SUBSET (Combos \X Hotkeys),
                          accepted : Sets \cup {{}}, pressed : SUBSET Codes]
        /\ server' \in [grabs : SUBSET Combos, foreign : SUBSET Combos,
                        active : Codes \cup {None}, down : SUBSET Codes, layout : Layouts]
        /\ socket' \in Seq(Event)
        /\ Mirrored' /\ Spelt'
        /\ \A c : Sorted(socket', c) /\ Held(socket', c)
    BY <1>0, <2>1, CleanAfterEnd
  <2>3. /\ app' \in [held : Sets \cup {None}, asked : Sets \cup {None}, failed : BOOLEAN,
                     events : Seq(Hotkeys)]
        /\ app'.held = None
    BY <2>1
  <2>4. faults' \in 0 .. MaxFaults
    BY <1>0, <2>1, ConstantsOK DEF TypeOK, Fault
  <2>5. TypeOK'
    BY <2>1, <2>2, <2>3, <2>4 DEF TypeOK
  <2>6. Accepted' /\ Holds'
    BY <2>1, <2>2, <2>3 DEF Accepted, Holds
  <2> QED BY <2>2, <2>5, <2>6 DEF X11Inv
<1> QED BY <1>1, <1>2, <1>3, <1>4 DEF AppNext

\* The server's own steps leave the grabs alone and tell a listener of a new layout.
LEMMA ServerOnly ==
  ASSUME X11Inv, UNCHANGED <<app, listener>>,
         server' \in [grabs : SUBSET Combos, foreign : SUBSET Combos,
                      active : Codes \cup {None}, down : SUBSET Codes, layout : Layouts],
         server'.grabs = server.grabs, fired' \subseteq fired,
         faults' \in 0 .. MaxFaults,
         ~listener.on => server'.active = None /\ socket' = socket,
         \/ socket' = socket
         \/ \E e \in Event : socket' = Append(socket, e),
         listener.on /\ server'.layout # server.layout => ~Quiet(socket'),
         Holds'
  PROVE  X11Inv'
<1>1. socket \in Seq(Event)
  BY DEF X11Inv, TypeOK
<1>2. socket' \in Seq(Event) /\ (Quiet(socket') => Quiet(socket))
  <2>1. CASE socket' = socket
    BY <1>1, <2>1
  <2>2. CASE \E e \in Event : socket' = Append(socket, e)
    <3>1. PICK e \in Event : socket' = Append(socket, e)
      BY <2>2
    <3>2. /\ Append(socket, e) \in Seq(Event)
          /\ Quiet(Append(socket, e)) => Quiet(socket)
      BY <1>1, AppendIsSent
    <3> QED BY <3>1, <3>2
  <2> QED BY <2>1, <2>2
<1>3. TypeOK'
  BY <1>2 DEF X11Inv, TypeOK
<1>4. Mirrored' /\ Spelt' /\ Accepted'
  BY <1>2 DEF X11Inv, Mirrored, Spelt, Accepted
<1> QED BY <1>3, <1>4 DEF X11Inv

\* An event of one key does not touch the order of another's.
LEMMA OtherKeys ==
  ASSUME X11Inv, NEW c \in Codes, listener' = listener, fired' \subseteq fired,
         \A d \in Codes : d # c => (d \in server'.down <=> d \in server.down),
         \/ socket' = socket
         \/ \E e \in Event : e.code = c /\ e.kind # "mapping" /\ socket' = Append(socket, e),
         Sorted(socket', c), c \in server'.down => Held(socket', c),
         listener.on /\ c \in fired' => Marked(socket', c, listener.pressed, server'.down)
  PROVE  Holds'
<1> SUFFICES ASSUME NEW d \in Codes, d # c
             PROVE  /\ Sorted(socket', d)
                    /\ d \in server'.down => Held(socket', d)
                    /\ listener.on /\ d \in fired =>
                         Marked(socket', d, listener.pressed, server'.down)
  BY DEF Holds
<1>1. /\ Sorted(socket, d) /\ (d \in server.down => Held(socket, d))
      /\ listener.on /\ d \in fired => Marked(socket, d, listener.pressed, server.down)
      /\ socket \in Seq(Event)
  BY DEF X11Inv, TypeOK, Holds
<1>2. /\ Sorted(socket', d) /\ (d \in server.down => Held(socket', d))
      /\ listener.on /\ d \in fired => Marked(socket', d, listener.pressed, server.down)
  <2>1. CASE socket' = socket
    BY <1>1, <2>1
  <2>2. CASE \E e \in Event : e.code = c /\ e.kind # "mapping" /\ socket' = Append(socket, e)
    <3>1. PICK e \in Event : e.code = c /\ e.kind # "mapping" /\ socket' = Append(socket, e)
      BY <2>2
    <3>2. ~(e.kind # "mapping" /\ e.code = d)
      BY <3>1
    <3> QED BY <1>1, <3>1, <3>2, AppendKeepsOrder
  <2> QED BY <2>1, <2>2
<1>3. Marked(socket', d, listener.pressed, server.down)
        => Marked(socket', d, listener.pressed, server'.down)
  BY DEF Marked
<1> QED BY <1>2, <1>3

\* What becomes of a press: it is ours if a grab is active, or if it is grabbed.
LEMMA PressIsRouted ==
  ASSUME X11Inv, NEW c \in Codes, NEW state \in PressStates, Routed(c, state)
  PROVE  /\ server' \in [grabs : SUBSET Combos, foreign : SUBSET Combos,
                         active : Codes \cup {None}, down : SUBSET Codes, layout : Layouts]
         /\ server'.grabs = server.grabs /\ server'.layout = server.layout
         /\ server'.down = server.down \cup {c}
         /\ ~listener.on => server'.active = None /\ socket' = socket
         /\ \/ socket' = socket
            \/ LET e == [kind |-> "press", code |-> c, state |-> state]
               IN e \in Event /\ socket' = Append(socket, e)
<1> DEFINE ours == server.active # None \/ <<c, state>> \in server.grabs
<1>1. [kind |-> "press", code |-> c, state |-> state] \in Event
  BY ConstantsOK DEF Event
<1>2. TypeOK /\ Mirrored
  BY DEF X11Inv
<1>3. /\ server' = [server EXCEPT !.down = @ \cup {c},
                                  !.active = IF ours /\ @ = None THEN c ELSE @]
      /\ ours => socket' = Append(socket, [kind |-> "press", code |-> c, state |-> state])
      /\ ~ours => socket' = socket
  BY DEF Routed
<1>4. ~listener.on => ~ours /\ server.active = None
  BY <1>2 DEF Mirrored
<1> HIDE DEF ours
<1>5. /\ server' \in [grabs : SUBSET Combos, foreign : SUBSET Combos,
                      active : Codes \cup {None}, down : SUBSET Codes, layout : Layouts]
      /\ server'.grabs = server.grabs /\ server'.layout = server.layout
      /\ server'.down = server.down \cup {c}
      /\ ~ours => server'.active = server.active
  BY <1>2, <1>3 DEF TypeOK
<1> QED BY <1>1, <1>3, <1>4, <1>5

LEMMA X11KeyPressedStep == X11Inv /\ KeyPressed => X11Inv'
<1> SUFFICES ASSUME X11Inv, KeyPressed PROVE X11Inv'
  OBVIOUS
<1>1. PICK c \in Codes \ server.down : \E state \in PressStates :
        /\ \A i \in DOMAIN socket : socket[i].kind = "press" => socket[i].code # c
        /\ Routed(c, state)
        /\ fired' = fired \ {c} /\ UNCHANGED <<app, listener, faults>>
  BY DEF KeyPressed, Calm
<1>2. PICK state \in PressStates : Routed(c, state)
  BY <1>1
<1>3. /\ server' \in [grabs : SUBSET Combos, foreign : SUBSET Combos,
                      active : Codes \cup {None}, down : SUBSET Codes, layout : Layouts]
      /\ server'.grabs = server.grabs /\ server'.layout = server.layout
      /\ server'.down = server.down \cup {c}
      /\ ~listener.on => server'.active = None /\ socket' = socket
      /\ \/ socket' = socket
         \/ LET e == [kind |-> "press", code |-> c, state |-> state]
            IN e \in Event /\ socket' = Append(socket, e)
  BY <1>2, PressIsRouted
<1>4. \/ socket' = socket
      \/ \E e \in Event : e.code = c /\ e.kind = "press" /\ socket' = Append(socket, e)
  BY <1>3
<1>5. /\ socket \in Seq(Event) /\ Sorted(socket, c) /\ faults \in 0 .. MaxFaults
      /\ \A i \in Nat : ~Press(socket, i, c)
  BY <1>1 DEF X11Inv, TypeOK, Holds, Press
<1>6. Sorted(socket', c) /\ Held(socket', c)
  <2>1. CASE socket' = socket
    BY <1>5, <2>1 DEF Held
  <2>2. CASE \E e \in Event : e.code = c /\ e.kind = "press" /\ socket' = Append(socket, e)
    BY <1>5, <2>2, AppendKeepsOrder
  <2> QED BY <1>4, <2>1, <2>2
<1>7. Holds'
  BY <1>1, <1>3, <1>4, <1>6, OtherKeys
<1> QED BY <1>1, <1>3, <1>4, <1>5, <1>7, ServerOnly

LEMMA X11KeyRepeatsStep == X11Inv /\ KeyRepeats => X11Inv'
<1> SUFFICES ASSUME X11Inv, KeyRepeats PROVE X11Inv'
  OBVIOUS
<1>0. server.down \subseteq Codes /\ socket \in Seq(Event) /\ faults \in 0 .. MaxFaults
  BY DEF X11Inv, TypeOK
<1>1. PICK c \in server.down : \E state \in PressStates : Routed(c, state)
  BY DEF KeyRepeats
<1>2. PICK state \in PressStates : Routed(c, state)
  BY <1>1
<1>. c \in Codes /\ UNCHANGED <<app, listener, fired, faults>>
  BY <1>0 DEF KeyRepeats, Calm
<1>3. /\ server' \in [grabs : SUBSET Combos, foreign : SUBSET Combos,
                      active : Codes \cup {None}, down : SUBSET Codes, layout : Layouts]
      /\ server'.grabs = server.grabs /\ server'.layout = server.layout
      /\ server'.down = server.down \cup {c}
      /\ ~listener.on => server'.active = None /\ socket' = socket
      /\ \/ socket' = socket
         \/ LET e == [kind |-> "press", code |-> c, state |-> state]
            IN e \in Event /\ socket' = Append(socket, e)
  BY <1>2, PressIsRouted
<1>4. \/ socket' = socket
      \/ \E e \in Event : e.code = c /\ e.kind = "press" /\ socket' = Append(socket, e)
  BY <1>3
<1>5. /\ Sorted(socket, c) /\ Held(socket, c) /\ server'.down = server.down
      /\ listener.on /\ c \in fired => Marked(socket, c, listener.pressed, server.down)
  BY <1>1, <1>3 DEF X11Inv, Holds
<1>6. /\ Sorted(socket', c) /\ Held(socket', c)
      /\ listener.on /\ c \in fired => Marked(socket', c, listener.pressed, server'.down)
  <2>1. CASE socket' = socket
    BY <1>5, <2>1
  <2>2. CASE \E e \in Event : e.code = c /\ e.kind = "press" /\ socket' = Append(socket, e)
    <3>1. PICK e \in Event : e.code = c /\ e.kind = "press" /\ socket' = Append(socket, e)
      BY <2>2
    <3>2. e.kind # "mapping"
      BY <3>1
    <3> QED BY <1>0, <1>1, <1>5, <3>1, <3>2, AppendKeepsOrder
  <2> QED BY <1>4, <2>1, <2>2
<1>7. Holds'
  BY <1>3, <1>4, <1>6, OtherKeys
<1> QED BY <1>0, <1>3, <1>4, <1>7, ServerOnly

LEMMA X11KeyReleasedStep == X11Inv /\ KeyReleased => X11Inv'
<1> SUFFICES ASSUME X11Inv, KeyReleased PROVE X11Inv'
  OBVIOUS
<1>0. /\ server.down \subseteq Codes /\ socket \in Seq(Event) /\ faults \in 0 .. MaxFaults
      /\ TypeOK /\ Mirrored /\ Holds
  BY DEF X11Inv, TypeOK
<1>1. PICK c \in server.down :
        /\ server' = [server EXCEPT !.down = @ \ {c}, !.active = IF @ = c THEN None ELSE @]
        /\ socket' = IF server.active # None
                     THEN Append(socket, [kind |-> "release", code |-> c]) ELSE socket
  BY DEF KeyReleased
<1>. c \in Codes /\ UNCHANGED <<app, listener, fired, faults>>
  BY <1>0 DEF KeyReleased, Calm
<1>2. /\ server' \in [grabs : SUBSET Combos, foreign : SUBSET Combos,
                      active : Codes \cup {None}, down : SUBSET Codes, layout : Layouts]
      /\ server'.grabs = server.grabs /\ server'.layout = server.layout
      /\ server'.down = server.down \ {c}
      /\ server.active = None => server'.active = None
  BY <1>0, <1>1 DEF TypeOK
<1>3. ~listener.on => server'.active = None /\ socket' = socket
  BY <1>0, <1>1, <1>2 DEF Mirrored
<1>4. \/ socket' = socket
      \/ \E e \in Event : e.code = c /\ e.kind = "release" /\ socket' = Append(socket, e)
  <2>1. [kind |-> "release", code |-> c] \in Event
    BY DEF Event
  <2> QED BY <1>1, <2>1
<1>5. /\ Sorted(socket, c)
      /\ listener.on /\ c \in fired => Marked(socket, c, listener.pressed, server.down)
  BY <1>0 DEF Holds
<1>6. /\ Sorted(socket', c)
      /\ listener.on /\ c \in fired => Marked(socket', c, listener.pressed, server'.down)
  <2>1. CASE socket' = socket
    BY <1>2, <1>5, <2>1 DEF Marked
  <2>2. CASE \E e \in Event : e.code = c /\ e.kind = "release" /\ socket' = Append(socket, e)
    <3>1. PICK e \in Event : e.code = c /\ e.kind = "release" /\ socket' = Append(socket, e)
      BY <2>2
    <3>2. e.kind # "mapping"
      BY <3>1
    <3>3. /\ Sorted(Append(socket, e), c)
          /\ Marked(socket, c, listener.pressed, server.down)
               => Marked(Append(socket, e), c, listener.pressed, server.down \ {c})
      BY <1>0, <1>5, <3>1, <3>2, AppendKeepsOrder
    <3> QED BY <1>2, <1>5, <3>1, <3>3
  <2> QED BY <1>4, <2>1, <2>2
<1>7. Holds'
  BY <1>2, <1>4, <1>6, OtherKeys
<1> QED BY <1>0, <1>2, <1>3, <1>4, <1>7, ServerOnly

LEMMA LayoutChangesStep == X11Inv /\ LayoutChanges => X11Inv'
<1> SUFFICES ASSUME X11Inv, LayoutChanges PROVE X11Inv'
  OBVIOUS
<1>0. /\ socket \in Seq(Event) /\ TypeOK /\ Mirrored /\ Holds
  BY DEF X11Inv, TypeOK
<1> DEFINE e == [kind |-> "mapping"]
<1>1. PICK layout \in Layouts :
        /\ server' = [server EXCEPT !.layout = layout]
        /\ socket' = IF listener.on THEN Append(socket, e) ELSE socket
        /\ Fault /\ UNCHANGED <<app, listener, fired>>
  BY DEF LayoutChanges
<1>2. /\ server' \in [grabs : SUBSET Combos, foreign : SUBSET Combos,
                      active : Codes \cup {None}, down : SUBSET Codes, layout : Layouts]
      /\ server'.grabs = server.grabs /\ server'.active = server.active
      /\ server'.down = server.down
  BY <1>0, <1>1 DEF TypeOK
<1>3. faults' \in 0 .. MaxFaults
  BY <1>0, <1>1, ConstantsOK DEF TypeOK, Fault
<1>4. e \in Event /\ e.kind = "mapping"
  BY DEF Event
<1> HIDE DEF e
<1>5. listener.on => ~Quiet(socket')
  BY <1>0, <1>1, <1>4, AppendIsSent
<1>6. ~listener.on => server'.active = None /\ socket' = socket
  BY <1>0, <1>1, <1>2 DEF Mirrored
<1>7. Holds'
  <2> SUFFICES ASSUME NEW c \in Codes
               PROVE  /\ Sorted(socket', c)
                      /\ c \in server.down => Held(socket', c)
                      /\ listener.on /\ c \in fired =>
                           Marked(socket', c, listener.pressed, server.down)
    BY <1>1, <1>2 DEF Holds
  <2>1. /\ Sorted(socket, c) /\ (c \in server.down => Held(socket, c))
        /\ listener.on /\ c \in fired => Marked(socket, c, listener.pressed, server.down)
    BY <1>0 DEF Holds
  <2> QED BY <1>0, <1>1, <1>4, <2>1, AppendKeepsOrder
<1> QED BY <1>1, <1>2, <1>3, <1>4, <1>5, <1>6, <1>7, ServerOnly

LEMMA ForeignGrabStep == X11Inv /\ ForeignGrab => X11Inv'
<1> SUFFICES ASSUME X11Inv, ForeignGrab PROVE X11Inv'
  OBVIOUS
<1>0. TypeOK /\ Mirrored /\ Holds
  BY DEF X11Inv
<1>1. PICK combo \in Codes \X PressStates :
        /\ server' = [server EXCEPT !.foreign = @ \cup {combo}]
        /\ Fault /\ UNCHANGED <<app, listener, socket, fired>>
  BY DEF ForeignGrab
<1>2. combo \in Combos
  BY ConstantsOK DEF Combos
<1>3. /\ server' \in [grabs : SUBSET Combos, foreign : SUBSET Combos,
                      active : Codes \cup {None}, down : SUBSET Codes, layout : Layouts]
      /\ server'.grabs = server.grabs /\ server'.active = server.active
      /\ server'.down = server.down /\ server'.layout = server.layout
  BY <1>0, <1>1, <1>2 DEF TypeOK
<1>4. faults' \in 0 .. MaxFaults
  BY <1>0, <1>1, ConstantsOK DEF TypeOK, Fault
<1>5. Holds'
  BY <1>0, <1>1, <1>3 DEF Holds
<1>6. ~listener.on => server'.active = None
  BY <1>0, <1>3 DEF Mirrored
<1> QED BY <1>1, <1>3, <1>4, <1>5, <1>6, ServerOnly

LEMMA X11Step == X11Inv /\ Next => X11Inv'
BY ListenerRegistersStep, ListenerFailsStep, ListenerReadsStep, X11AppStep, X11KeyPressedStep,
   X11KeyRepeatsStep, X11KeyReleasedStep, LayoutChangesStep, ForeignGrabStep
   DEF Next, ListenerNext, ServerNext

-----------------------------------------------------------------------------
(* What X11's invariant says of the properties.                            *)

LEMMA X11IsCaptured == X11Inv => HeldIsGrabbed /\ GrabsSpellHotkeys
<1> SUFFICES ASSUME X11Inv PROVE HeldIsGrabbed /\ GrabsSpellHotkeys
  OBVIOUS
<1>1. TypeOK /\ Mirrored /\ Spelt /\ Accepted
  BY DEF X11Inv
<1>2. HeldIsGrabbed
  BY <1>1 DEF HeldIsGrabbed, Mirrored, Spelt, Accepted, Quiet
<1>3. PICK layout \in Layouts : listener.grabs = Resolved(listener.accepted, layout)
  BY <1>1 DEF Spelt
<1>4. listener.accepted \in Sets \cup {{}}
  BY <1>1 DEF TypeOK
<1>5. ASSUME NEW grab \in listener.grabs
      PROVE  /\ \A n \in grab[2].mods : grab[1][2] \cap layout.slots[n] # {}
             /\ \E level \in DOMAIN layout.syms[grab[1][1]] :
                  layout.syms[grab[1][1]][level] = grab[2].sym
             /\ \A lock \in Locks(layout) :
                  (\A n \in grab[2].mods : lock \notin layout.slots[n])
                    => /\ <<<<grab[1][1], grab[1][2] \cup {lock}>>, grab[2]>> \in listener.grabs
                       /\ <<<<grab[1][1], grab[1][2] \ {lock}>>, grab[2]>> \in listener.grabs
  <2>1. /\ Spells(grab[1], grab[2], layout)
        /\ \A combo \in GrabsOf(grab[2], layout) : <<combo, grab[2]>> \in listener.grabs
    BY <1>3, <1>4, ResolvedSets
  <2> QED BY <2>1 DEF Spells
<1>6. GrabsSpellHotkeys
  BY <1>3, <1>5 DEF GrabsSpellHotkeys
<1> QED BY <1>2, <1>6

\* Only a press that is read and has not acted is reported.
LEMMA X11ActsOnce ==
  ASSUME X11Inv, [Next]_vars
  PROVE  Len(app'.events) > Len(app.events) => Head(socket).code \notin fired
<1> SUFFICES ASSUME Len(app'.events) > Len(app.events)
             PROVE  Head(socket).code \notin fired
  OBVIOUS
<1>1. TypeOK /\ Holds /\ socket \in Seq(Event) /\ app.events \in Seq(Hotkeys) /\ Len(app.events) \in Nat
  BY DEF X11Inv, TypeOK
<1>2. app'.events # app.events
  BY <1>1
<1>3. PICK e \in Event : /\ listener.on /\ socket # <<>> /\ e = Head(socket)
                         /\ e.kind = "press" /\ ReadPress(e)
  <2>1. CASE ListenerRegisters
    BY <1>1, <1>2, <2>1 DEF ListenerRegisters, Answered, TypeOK
  <2>2. CASE ListenerFails
    BY <1>1, <1>2, <2>2 DEF ListenerFails, Answered, TypeOK
  <2>3. CASE ListenerReads
    <3>1. Head(socket) \in Event /\ listener.on /\ socket # <<>>
      BY <1>1, <2>3 DEF ListenerReads
    <3>2. app' = app \/ Answered(None, TRUE) \/ (Head(socket).kind = "press" /\ ReadPress(Head(socket)))
      BY <2>3 DEF ListenerReads, ReadMapping
    <3>3. ~Answered(None, TRUE)
      BY <1>1, <1>2 DEF Answered, TypeOK
    <3> QED BY <1>2, <3>1, <3>2, <3>3
  <2>4. CASE AppNext
    <3>1. CASE AppRegisters \/ AppRegistersInVain
      BY <1>1, <1>2, <3>1 DEF AppRegisters, AppRegistersInVain, TypeOK
    <3>2. CASE AppPolls
      <4>1. app'.events = app.events \/ (app.events # <<>> /\ app'.events = Tail(app.events))
        BY <1>1, <3>2 DEF AppPolls, TypeOK
      <4>2. app.events # <<>> => Len(Tail(app.events)) = Len(app.events) - 1
        BY <1>1
      <4>3. Len(app'.events) = Len(app.events) \/ Len(app'.events) = Len(app.events) - 1
        BY <4>1, <4>2
      <4> QED BY <1>1, <4>3
    <3>3. CASE AppRestarts
      <4>1. app'.events = <<>>
        BY <3>3 DEF AppRestarts
      <4>2. Len(app'.events) = 0
        BY <4>1
      <4> QED BY <1>1, <4>2
    <3> QED BY <2>4, <3>1, <3>2, <3>3 DEF AppNext
  <2>5. CASE ServerNext \/ UNCHANGED vars
    BY <1>2, <2>5 DEF ServerNext, KeyPressed, KeyRepeats, KeyReleased, LayoutChanges, ForeignGrab, vars
  <2> QED BY <2>1, <2>2, <2>3, <2>4, <2>5 DEF Next, ListenerNext
<1>4. e.code \notin listener.pressed
  <2> SUFFICES ASSUME e.code \in listener.pressed PROVE FALSE
    OBVIOUS
  <2>1. app' = [app EXCEPT !.events = @ \o <<>>]
    BY <1>3 DEF ReadPress
  <2>2. app'.events = app.events
    BY <1>1, <2>1 DEF TypeOK
  <2> QED BY <1>2, <2>2
<1>5. e.code \in Codes /\ Press(socket, 1, e.code) /\ 1 \in Nat
  <2>1. e = socket[1] /\ 1 \in DOMAIN socket
    BY <1>1, <1>3, TailIsRead
  <2> QED BY <1>3, <2>1, Kinds DEF Press
<1>6. e.code \in fired => e.code \in listener.pressed
  BY <1>1, <1>3, <1>5 DEF Holds, Marked
<1> QED BY <1>3, <1>4, <1>6

-----------------------------------------------------------------------------
(* What the hook does with a key.                                          *)

Hooks == {h \in [on : BOOLEAN, error : BOOLEAN, pressed : SUBSET Native!Keys,
                 swallowed : SUBSET Plain, bindings : HookSets \cup {{}},
                 owner : (1 .. Systems) \cup {None}] : h.swallowed \subseteq h.pressed}
NativeApps == [number : 1 .. Systems, held : HookSets \cup {None},
               events : Seq(Native!Bindings)]

\* The type invariant with these names.
LEMMA NativeTypes ==
  Native!TypeOK <=>
    /\ platform \in {"windows", "macos"}
    /\ down \subseteq Native!Keys /\ seen \subseteq Native!Keys
    /\ blind \in BOOLEAN /\ missed \in BOOLEAN
    /\ hook \in Hooks /\ orphans \in 0 .. Systems /\ native \in NativeApps
    /\ hookFaults \in 0 .. HookFaults
BY DEF Native!TypeOK, Hooks, NativeApps

LEMMA NativeConstants ==
  /\ Plain \cap Modifiers = {} /\ Native!Keys = Plain \cup Modifiers
  /\ AltGr \subseteq Modifiers /\ AltGr # {}
  /\ HookSets \subseteq SUBSET Native!Bindings
  /\ \A set \in HookSets : None # set
  /\ Systems \in Nat \ {0} /\ HookFaults \in Nat
BY HookConstantsOK DEF Native!ConstantsOK, Native!Keys

\* What of the hook is not about keys stays.
SameTable(h) == /\ h.on = hook.on /\ h.error = hook.error
                /\ h.bindings = hook.bindings /\ h.owner = hook.owner

\* Windows: the modifiers are what is down, but for the key itself, and all marks go when
\* one of them was lost.
LEMMA WindowsReconciles ==
  ASSUME Native!TypeOK, NEW x \in Native!Keys
  PROVE  LET h == Native!ReconciledWindows(x)
             lost == ((hook.pressed \cap Modifiers) \ {x}) \ down # {}
         IN /\ h \in Hooks /\ SameTable(h)
            /\ h.pressed \cap Modifiers =
                 (hook.pressed \cap {x} \cap Modifiers) \cup ((down \cap Modifiers) \ {x})
            /\ h.pressed \cap Plain = (IF lost THEN {} ELSE hook.pressed \cap Plain)
            /\ h.swallowed = IF lost THEN {} ELSE hook.swallowed
<1> DEFINE h == Native!ReconciledWindows(x)
           lost == ((hook.pressed \cap Modifiers) \ {x}) \ down # {}
           mods == (hook.pressed \cap {x}) \cup ((down \cap Modifiers) \ {x})
           marks == (mods \cap Modifiers) \cup (IF lost THEN {} ELSE hook.pressed \cap Plain)
           kept == IF lost THEN {} ELSE hook.swallowed
<1>1. hook \in Hooks /\ down \subseteq Native!Keys
  BY NativeTypes
<1>2. h = [hook EXCEPT !.pressed = marks, !.swallowed = kept]
  BY DEF Native!ReconciledWindows, Native!ModifiersDown
<1>3. /\ marks \in SUBSET Native!Keys /\ kept \in SUBSET Plain /\ kept \subseteq marks
  BY <1>1, NativeConstants DEF Hooks
<1>4. /\ marks \cap Modifiers =
           (hook.pressed \cap {x} \cap Modifiers) \cup ((down \cap Modifiers) \ {x})
      /\ marks \cap Plain = (IF lost THEN {} ELSE hook.pressed \cap Plain)
  BY NativeConstants
<1> HIDE DEF marks, kept, lost
<1>5. h \in Hooks /\ SameTable(h) /\ h.pressed = marks /\ h.swallowed = kept
  BY <1>1, <1>2, <1>3 DEF Hooks, SameTable
<1>6. kept = IF lost THEN {} ELSE hook.swallowed
  BY DEF kept
<1>7. /\ h \in Hooks /\ SameTable(h)
      /\ h.pressed \cap Modifiers =
           (hook.pressed \cap {x} \cap Modifiers) \cup ((down \cap Modifiers) \ {x})
      /\ h.pressed \cap Plain = (IF lost THEN {} ELSE hook.pressed \cap Plain)
      /\ h.swallowed = IF lost THEN {} ELSE hook.swallowed
  BY <1>4, <1>5, <1>6
<1> QED BY <1>7 DEF lost, h

\* macOS: the modifiers are what the event says.
LEMMA MacosFlags ==
  ASSUME Native!TypeOK, NEW mods \in SUBSET Modifiers
  PROVE  LET h == Native!FlaggedMacos(mods)
         IN /\ h \in Hooks /\ SameTable(h)
            /\ h.pressed = (hook.pressed \cap Plain) \cup mods
            /\ h.swallowed = hook.swallowed
<1> DEFINE h == Native!FlaggedMacos(mods)
           marks == (hook.pressed \cap Plain) \cup mods
<1>1. hook \in Hooks
  BY NativeTypes
<1>2. h = [hook EXCEPT !.pressed = marks]
  BY DEF Native!FlaggedMacos
<1>3. marks \in SUBSET Native!Keys /\ hook.swallowed \subseteq marks
  BY <1>1, NativeConstants DEF Hooks
<1> HIDE DEF marks
<1>4. h \in Hooks /\ SameTable(h) /\ h.pressed = marks /\ h.swallowed = hook.swallowed
  BY <1>1, <1>2, <1>3 DEF Hooks, SameTable
<1> QED BY <1>4 DEF marks

\* A press marks the key, and is swallowed when it acts or repeats one that did.
LEMMA PressIsHandled ==
  ASSUME Native!TypeOK, NEW h \in Hooks, SameTable(h), NEW x \in Native!Keys,
         Native!HandlePress(h, x)
  PROVE  LET acts == Native!Acts(h, x)
         IN /\ hook' \in Hooks /\ SameTable(hook')
            /\ hook'.pressed = h.pressed \cup {x}
            /\ hook'.swallowed = IF acts THEN h.swallowed \cup {x} ELSE h.swallowed
            /\ native' \in NativeApps
            /\ native'.held = native.held /\ native'.number = native.number
            /\ acts => native'.events = Append(native.events, Native!Chord(h, x))
            /\ ~acts => native' = native
            /\ seen' \subseteq seen \cup {x} /\ seen' \subseteq Native!Keys
            /\ acts \/ x \in h.swallowed => seen' = seen
            /\ missed' = missed
<1> DEFINE acts == Native!Acts(h, x)
           kept == IF acts THEN h.swallowed \cup {x} ELSE h.swallowed
           marks == h.pressed \cup {x}
<1>1. native \in NativeApps /\ seen \subseteq Native!Keys
  BY NativeTypes
<1>2. acts => x \in Plain /\ Native!Chord(h, x) \in h.bindings
  BY DEF Native!Acts
<1>3. acts => Native!Chord(h, x) \in Native!Bindings
  BY <1>2, NativeConstants DEF Hooks
<1>4. /\ hook' = [h EXCEPT !.pressed = marks, !.swallowed = kept]
      /\ native' = IF acts THEN [native EXCEPT !.events = Append(@, Native!Chord(h, x))] ELSE native
      /\ seen' = IF acts \/ (x \in h.pressed /\ x \in h.swallowed) THEN seen ELSE seen \cup {x}
      /\ missed' = missed
  BY DEF Native!HandlePress
<1>5. marks \in SUBSET Native!Keys /\ kept \in SUBSET Plain /\ kept \subseteq marks
  BY <1>2 DEF Hooks
<1>6. kept = IF acts THEN h.swallowed \cup {x} ELSE h.swallowed
  OBVIOUS
<1> HIDE DEF acts, kept, marks
<1>7. /\ hook' \in Hooks /\ SameTable(hook') /\ hook'.pressed = marks /\ hook'.swallowed = kept
  BY <1>4, <1>5 DEF Hooks, SameTable
<1>8. /\ native' \in NativeApps
      /\ native'.held = native.held /\ native'.number = native.number
      /\ acts => native'.events = Append(native.events, Native!Chord(h, x))
      /\ ~acts => native' = native
  <2>1. CASE acts
    <3>1. Append(native.events, Native!Chord(h, x)) \in Seq(Native!Bindings)
      BY <1>1, <1>3, <2>1 DEF NativeApps
    <3> QED BY <1>1, <1>4, <2>1, <3>1 DEF NativeApps
  <2>2. CASE ~acts
    BY <1>1, <1>4, <2>2
  <2> QED BY <2>1, <2>2
<1>9. /\ seen' \subseteq seen \cup {x} /\ seen' \subseteq Native!Keys
      /\ acts \/ x \in h.swallowed => seen' = seen
  BY <1>1, <1>4 DEF Hooks
<1>10. missed' = missed
  BY <1>4
<1>11. /\ hook' \in Hooks /\ SameTable(hook')
       /\ hook'.pressed = h.pressed \cup {x}
       /\ hook'.swallowed = IF acts THEN h.swallowed \cup {x} ELSE h.swallowed
  BY <1>6, <1>7 DEF marks
<1> QED BY <1>8, <1>9, <1>10, <1>11 DEF acts

\* A release takes the mark of the key and of its swallowing, and is swallowed with it.
LEMMA ReleaseIsHandled ==
  ASSUME Native!TypeOK, NEW h \in Hooks, SameTable(h), NEW x \in Native!Keys,
         Native!HandleRelease(h, x)
  PROVE  /\ hook' \in Hooks /\ SameTable(hook')
         /\ hook'.pressed = h.pressed \ {x} /\ hook'.swallowed = h.swallowed \ {x}
         /\ seen' = IF x \in h.swallowed THEN seen ELSE seen \ {x}
         /\ seen' \subseteq Native!Keys
         /\ native' = native /\ missed' = missed
<1> DEFINE kept == h.swallowed \ {x}
           marks == h.pressed \ {x}
<1>1. /\ hook' = [h EXCEPT !.pressed = marks, !.swallowed = kept]
      /\ seen' = IF x \in h.swallowed THEN seen ELSE seen \ {x}
      /\ native' = native /\ missed' = missed
  BY DEF Native!HandleRelease
<1>2. marks \in SUBSET Native!Keys /\ kept \in SUBSET Plain /\ kept \subseteq marks
  BY DEF Hooks
<1>3. seen' \subseteq Native!Keys
  BY <1>1, NativeTypes
<1> HIDE DEF kept, marks
<1>4. /\ hook' \in Hooks /\ SameTable(hook') /\ hook'.pressed = marks /\ hook'.swallowed = kept
  BY <1>1, <1>2 DEF Hooks, SameTable
<1> QED BY <1>1, <1>3, <1>4 DEF kept, marks

-----------------------------------------------------------------------------
(* The steps of the native hook.                                           *)

LEMMA NativeStart == Native!Init => NativeInv
<1> SUFFICES ASSUME Native!Init PROVE NativeInv
  OBVIOUS
<1>1. /\ platform \in {"windows", "macos"} /\ down \subseteq Plain /\ seen = down
      /\ blind = FALSE /\ missed = FALSE /\ orphans = 0 /\ hookFaults = 0
      /\ native = [number |-> 1, held |-> None, events |-> <<>>]
  BY DEF Native!Init
<1>2. PICK works \in BOOLEAN : hook = Native!Started(works)
  BY DEF Native!Init
<1>3. hook = [on |-> works, error |-> ~works, pressed |-> IF works THEN down ELSE {},
              swallowed |-> {}, bindings |-> {}, owner |-> None]
  BY <1>2 DEF Native!Started, Native!HeldAtStart
<1>4. /\ hook \in Hooks /\ hook.on = works /\ hook.swallowed = {} /\ hook.bindings = {}
      /\ hook.owner = None /\ (works => hook.pressed = down) /\ (hook.error => ~hook.on)
  <2>1. (IF works THEN down ELSE {}) \in SUBSET Native!Keys /\ {} \in SUBSET Plain
        /\ {} \in HookSets \cup {{}}
    BY <1>1, NativeConstants
  <2> QED BY <1>3, <2>1 DEF Hooks
<1>5. native \in NativeApps /\ native.held = None
  <2>1. 1 \in 1 .. Systems /\ <<>> \in Seq(Native!Bindings)
    BY NativeConstants
  <2> QED BY <1>1, <2>1 DEF NativeApps
<1>6. 0 \in 0 .. Systems /\ 0 \in 0 .. HookFaults
  BY NativeConstants
<1>7. Native!TypeOK
  BY <1>1, <1>4, <1>5, <1>6, NativeTypes, NativeConstants
<1>8. Native!HeldIsBound /\ Ended
  BY <1>4, <1>5 DEF Native!HeldIsBound, Ended
<1>9. MarksAreHeld /\ SeenIsHeld
  BY <1>1, <1>4 DEF MarksAreHeld, SeenIsHeld, Windows
<1> QED BY <1>1, <1>7, <1>8, <1>9 DEF NativeInv

\* What keys do leaves the table of bindings and its owner alone.
LEMMA KeysKeepTable ==
  ASSUME NativeInv, UNCHANGED <<platform, orphans>>, hook' \in Hooks, SameTable(hook'),
         native' \in NativeApps, native'.held = native.held, native'.number = native.number,
         blind' \in BOOLEAN, missed' \in BOOLEAN,
         down' \subseteq Native!Keys, seen' \subseteq Native!Keys,
         hookFaults' \in 0 .. HookFaults, MarksAreHeld', SeenIsHeld'
  PROVE  NativeInv'
<1>1. Native!TypeOK'
  BY NativeTypes DEF NativeInv, Native!TypeOK, Hooks, NativeApps
<1>2. Native!HeldIsBound' /\ Ended'
  BY DEF NativeInv, Native!HeldIsBound, Ended, SameTable, Windows
<1> QED BY <1>1, <1>2 DEF NativeInv

LEMMA WindowsReady ==
  ASSUME NativeInv, Windows, hook.on, NEW x \in Native!Keys
  PROVE  LET h == Native!ReconciledWindows(x)
         IN /\ h \in Hooks /\ SameTable(h)
            /\ seen \subseteq h.pressed /\ h.swallowed \cap seen = {}
            /\ h.pressed \cap Modifiers \subseteq down \cup {x}
            /\ ~hook.error /\ ~missed => h.pressed = down
<1> DEFINE h == Native!ReconciledWindows(x)
           lost == ((hook.pressed \cap Modifiers) \ {x}) \ down # {}
<1>1. /\ h \in Hooks /\ SameTable(h)
      /\ h.pressed \cap Modifiers =
           (hook.pressed \cap {x} \cap Modifiers) \cup ((down \cap Modifiers) \ {x})
      /\ h.pressed \cap Plain = (IF lost THEN {} ELSE hook.pressed \cap Plain)
      /\ h.swallowed = IF lost THEN {} ELSE hook.swallowed
  BY WindowsReconciles DEF NativeInv
<1> HIDE DEF h
<1>2. /\ down \subseteq Native!Keys /\ seen \subseteq Native!Keys /\ hook \in Hooks
      /\ seen \subseteq down /\ hook.swallowed \cap seen = {} /\ seen \subseteq hook.pressed
      /\ ~(hook.pressed \cap Modifiers \subseteq down) => seen = {}
      /\ ~hook.error /\ ~missed => hook.pressed = down
  BY NativeTypes DEF NativeInv, SeenIsHeld, MarksAreHeld
<1>3. lost => seen = {}
  BY <1>2
<1>4. seen \subseteq h.pressed
  <2> SUFFICES ASSUME NEW y \in seen PROVE y \in h.pressed
    OBVIOUS
  <2>1. ~lost /\ y \in down /\ y \in hook.pressed /\ (y \in Plain \/ y \in Modifiers)
    BY <1>2, <1>3, NativeConstants
  <2>2. CASE y \in Plain
    <3>1. y \in h.pressed \cap Plain
      BY <1>1, <2>1, <2>2
    <3> QED BY <3>1
  <2>3. CASE y \in Modifiers
    <3>1. y \in h.pressed \cap Modifiers
      BY <1>1, <2>1, <2>3
    <3> QED BY <3>1
  <2> QED BY <2>1, <2>2, <2>3
<1>5. h.swallowed \cap seen = {}
  BY <1>1, <1>2
<1>6. h.pressed \cap Modifiers \subseteq down \cup {x}
  BY <1>1
<1>7. ASSUME ~hook.error, ~missed PROVE h.pressed = down
  <2>1. hook.pressed = down /\ ~lost
    BY <1>2, <1>7
  <2>2. h.pressed \cap Plain = down \cap Plain
    BY <1>1, <2>1
  <2>3. h.pressed \cap Modifiers = down \cap Modifiers
    BY <1>1, <2>1
  <2>4. h.pressed \subseteq Plain \cup Modifiers /\ down \subseteq Plain \cup Modifiers
    BY <1>1, <1>2, NativeConstants DEF Hooks
  <2> QED BY <2>2, <2>3, <2>4
<1> QED BY <1>1, <1>4, <1>5, <1>6, <1>7 DEF h

\* A press or a repeat that the hook of Windows sees.
LEMMA WindowsPress ==
  ASSUME NativeInv, Windows, hook.on, ~blind, NEW x \in Native!Keys,
         Native!HandlePress(Native!ReconciledWindows(x), x), down' = down \cup {x},
         UNCHANGED <<platform, blind, orphans, hookFaults>>
  PROVE  NativeInv'
<1> DEFINE h == Native!ReconciledWindows(x)
           acts == Native!Acts(h, x)
<1>1. /\ h \in Hooks /\ SameTable(h)
      /\ seen \subseteq h.pressed /\ h.swallowed \cap seen = {}
      /\ h.pressed \cap Modifiers \subseteq down \cup {x}
      /\ ~hook.error /\ ~missed => h.pressed = down
  BY WindowsReady
<1>2. /\ hook' \in Hooks /\ SameTable(hook')
      /\ hook'.pressed = h.pressed \cup {x}
      /\ hook'.swallowed = IF acts THEN h.swallowed \cup {x} ELSE h.swallowed
      /\ native' \in NativeApps
      /\ native'.held = native.held /\ native'.number = native.number
      /\ seen' \subseteq seen \cup {x} /\ seen' \subseteq Native!Keys
      /\ acts \/ x \in h.swallowed => seen' = seen
      /\ missed' = missed
  BY <1>1, PressIsHandled DEF NativeInv
<1>3. acts => x \notin h.pressed
  BY DEF Native!Acts
<1> HIDE DEF acts, h
<1>4. /\ blind \in BOOLEAN /\ missed \in BOOLEAN /\ hookFaults \in 0 .. HookFaults
      /\ down \subseteq Native!Keys /\ seen \subseteq down
      /\ hook'.on /\ hook'.error = hook.error
  BY <1>2, NativeTypes DEF NativeInv, SeenIsHeld, SameTable
<1>5. seen' \cap hook'.swallowed = {}
  BY <1>1, <1>2, <1>3
<1>6. MarksAreHeld'
  BY <1>1, <1>2, <1>4 DEF MarksAreHeld, Windows
<1>7. SeenIsHeld'
  <2>1. seen' \subseteq down' /\ seen' \subseteq hook'.pressed
    BY <1>1, <1>2, <1>4
  <2>2. hook'.pressed \cap Modifiers \subseteq down'
    BY <1>1, <1>2
  <2> QED BY <1>5, <2>1, <2>2 DEF SeenIsHeld, Windows
<1>8. down' \subseteq Native!Keys
  BY <1>4
<1> QED BY <1>2, <1>4, <1>6, <1>7, <1>8, KeysKeepTable

LEMMA WindowsRelease ==
  ASSUME NativeInv, Windows, hook.on, ~blind, NEW x \in Native!Keys,
         Native!HandleRelease(Native!ReconciledWindows(x), x), down' = down \ {x},
         UNCHANGED <<platform, blind, orphans, hookFaults>>
  PROVE  NativeInv'
<1> DEFINE h == Native!ReconciledWindows(x)
<1>1. /\ h \in Hooks /\ SameTable(h)
      /\ seen \subseteq h.pressed /\ h.swallowed \cap seen = {}
      /\ h.pressed \cap Modifiers \subseteq down \cup {x}
      /\ ~hook.error /\ ~missed => h.pressed = down
  BY WindowsReady
<1>2. /\ hook' \in Hooks /\ SameTable(hook')
      /\ hook'.pressed = h.pressed \ {x} /\ hook'.swallowed = h.swallowed \ {x}
      /\ seen' = IF x \in h.swallowed THEN seen ELSE seen \ {x}
      /\ seen' \subseteq Native!Keys
      /\ native' = native /\ missed' = missed
  BY <1>1, ReleaseIsHandled DEF NativeInv
<1> HIDE DEF h
<1>3. seen' = seen \ {x}
  BY <1>1, <1>2
<1>4. /\ blind \in BOOLEAN /\ missed \in BOOLEAN /\ hookFaults \in 0 .. HookFaults
      /\ down' \subseteq Native!Keys /\ seen \subseteq down
      /\ hook'.on /\ hook'.error = hook.error /\ native \in NativeApps
  BY <1>2, NativeTypes DEF NativeInv, SeenIsHeld, SameTable
<1>5. MarksAreHeld'
  BY <1>1, <1>2, <1>4 DEF MarksAreHeld, Windows
<1>6. SeenIsHeld'
  <2>1. /\ seen' \subseteq down' /\ seen' \subseteq hook'.pressed
        /\ hook'.swallowed \cap seen' = {}
    BY <1>1, <1>2, <1>3, <1>4
  <2>2. hook'.pressed \cap Modifiers \subseteq down'
    BY <1>1, <1>2
  <2> QED BY <2>1, <2>2 DEF SeenIsHeld, Windows
<1> QED BY <1>2, <1>4, <1>5, <1>6, KeysKeepTable

\* What the tap of macOS knows of the plain keys and of those it swallowed.
LEMMA MacosReady ==
  ASSUME NativeInv, ~Windows, hook.on, ~blind
  PROVE  /\ hook.pressed \cap Plain \subseteq down /\ hook \in Hooks
         /\ ~missed => seen \subseteq down /\ hook.swallowed \cap seen = {}
         /\ down \subseteq Native!Keys /\ seen \subseteq Native!Keys
         /\ blind \in BOOLEAN /\ missed \in BOOLEAN /\ hookFaults \in 0 .. HookFaults /\ native \in NativeApps
BY NativeTypes DEF NativeInv, MarksAreHeld, SeenIsHeld

\* A modifier that the tap sees, or the repeat of a key.
LEMMA MacosModifier ==
  ASSUME NativeInv, ~Windows, hook.on, ~blind, NEW mods \in SUBSET Modifiers,
         hook' = Native!FlaggedMacos(mods), down' \subseteq Native!Keys,
         down' \cap Plain = down \cap Plain,
         seen' \subseteq Native!Keys, seen' \cap Plain = seen \cap Plain,
         seen \subseteq down => seen' \subseteq down',
         UNCHANGED <<platform, blind, missed, native, orphans, hookFaults>>
  PROVE  NativeInv'
<1>1. /\ hook' \in Hooks /\ SameTable(hook')
      /\ hook'.pressed = (hook.pressed \cap Plain) \cup mods
      /\ hook'.swallowed = hook.swallowed
  BY MacosFlags DEF NativeInv
<1>2. /\ hook.pressed \cap Plain \subseteq down /\ hook \in Hooks
      /\ ~missed => seen \subseteq down /\ hook.swallowed \cap seen = {}
      /\ blind \in BOOLEAN /\ missed \in BOOLEAN /\ hookFaults \in 0 .. HookFaults /\ native \in NativeApps
  BY MacosReady
<1>3. MarksAreHeld'
  BY <1>1, <1>2, NativeConstants DEF MarksAreHeld, Windows
<1>4. hook.swallowed \subseteq Plain
  BY <1>2 DEF Hooks
<1>5. SeenIsHeld'
  BY <1>1, <1>2, <1>4 DEF SeenIsHeld, Windows
<1> QED BY <1>1, <1>2, <1>3, <1>5, KeysKeepTable

LEMMA MacosPress ==
  ASSUME NativeInv, ~Windows, hook.on, ~blind, NEW x \in Plain, x \notin down,
         Native!HandlePress(Native!FlaggedMacos(Native!ModifiersDown), x),
         down' = down \cup {x}, UNCHANGED <<platform, blind, orphans, hookFaults>>
  PROVE  NativeInv'
<1> DEFINE mods == Native!ModifiersDown
           h == Native!FlaggedMacos(mods)
           acts == Native!Acts(h, x)
<1>0. mods \in SUBSET Modifiers /\ x \in Native!Keys
  BY NativeConstants DEF Native!ModifiersDown
<1>1. /\ h \in Hooks /\ SameTable(h) /\ h.swallowed = hook.swallowed
      /\ h.pressed = (hook.pressed \cap Plain) \cup mods
  BY <1>0, MacosFlags DEF NativeInv
<1>2. /\ hook' \in Hooks /\ SameTable(hook')
      /\ hook'.pressed = h.pressed \cup {x}
      /\ hook'.swallowed = IF acts THEN h.swallowed \cup {x} ELSE h.swallowed
      /\ native' \in NativeApps
      /\ native'.held = native.held /\ native'.number = native.number
      /\ seen' \subseteq seen \cup {x} /\ seen' \subseteq Native!Keys
      /\ acts \/ x \in h.swallowed => seen' = seen
      /\ missed' = missed
  BY <1>0, <1>1, PressIsHandled DEF NativeInv
<1> HIDE DEF acts, h, mods
<1>3. /\ hook.pressed \cap Plain \subseteq down /\ hook \in Hooks
      /\ ~missed => seen \subseteq down /\ hook.swallowed \cap seen = {}
      /\ down \subseteq Native!Keys
      /\ blind \in BOOLEAN /\ missed \in BOOLEAN /\ hookFaults \in 0 .. HookFaults
  BY MacosReady
<1>4. ~missed => seen' \subseteq down' /\ hook'.swallowed \cap seen' = {}
  BY <1>1, <1>2, <1>3
<1>5. hook'.pressed \cap Plain \subseteq down'
  BY <1>0, <1>1, <1>2, <1>3, NativeConstants
<1>6. MarksAreHeld'
  BY <1>5 DEF MarksAreHeld, Windows
<1>7. SeenIsHeld'
  BY <1>2, <1>4 DEF SeenIsHeld, Windows
<1>8. down' \subseteq Native!Keys
  BY <1>0, <1>3
<1> QED BY <1>2, <1>3, <1>6, <1>7, <1>8, KeysKeepTable

LEMMA MacosRelease ==
  ASSUME NativeInv, ~Windows, hook.on, ~blind, NEW x \in Plain,
         Native!HandleRelease(Native!FlaggedMacos(Native!ModifiersDown), x),
         down' = down \ {x}, UNCHANGED <<platform, blind, orphans, hookFaults>>
  PROVE  NativeInv'
<1> DEFINE mods == Native!ModifiersDown
           h == Native!FlaggedMacos(mods)
<1>0. mods \in SUBSET Modifiers /\ x \in Native!Keys
  BY NativeConstants DEF Native!ModifiersDown
<1>1. /\ h \in Hooks /\ SameTable(h) /\ h.swallowed = hook.swallowed
      /\ h.pressed = (hook.pressed \cap Plain) \cup mods
  BY <1>0, MacosFlags DEF NativeInv
<1>2. /\ hook' \in Hooks /\ SameTable(hook')
      /\ hook'.pressed = h.pressed \ {x} /\ hook'.swallowed = h.swallowed \ {x}
      /\ seen' = IF x \in h.swallowed THEN seen ELSE seen \ {x}
      /\ seen' \subseteq Native!Keys
      /\ native' = native /\ missed' = missed
  BY <1>0, <1>1, ReleaseIsHandled DEF NativeInv
<1> HIDE DEF h, mods
<1>3. /\ hook.pressed \cap Plain \subseteq down /\ hook \in Hooks
      /\ ~missed => seen \subseteq down /\ hook.swallowed \cap seen = {}
      /\ down \subseteq Native!Keys /\ native \in NativeApps
      /\ blind \in BOOLEAN /\ missed \in BOOLEAN /\ hookFaults \in 0 .. HookFaults
  BY MacosReady
<1>4. ~missed => seen' \subseteq down' /\ hook'.swallowed \cap seen' = {}
  BY <1>1, <1>2, <1>3
<1>5. hook'.pressed \cap Plain \subseteq down'
  BY <1>0, <1>1, <1>2, <1>3, NativeConstants
<1>6. MarksAreHeld'
  BY <1>5 DEF MarksAreHeld, Windows
<1>7. SeenIsHeld'
  BY <1>2, <1>4 DEF SeenIsHeld, Windows
<1>8. down' \subseteq Native!Keys
  BY <1>0, <1>3
<1> QED BY <1>2, <1>3, <1>6, <1>7, <1>8, KeysKeepTable

\* A key that nobody looks at: the hook is not on, or it is and that is a miss.
LEMMA PassesByStep ==
  ASSUME NativeInv, ~Native!Sees, NEW x \in Native!Keys, NEW pressed \in BOOLEAN,
         Native!PassesBy(x, pressed),
         down' = IF pressed THEN down \cup {x} ELSE down \ {x}, ~pressed => x \in down,
         ~Windows /\ pressed => x \notin down,
         UNCHANGED <<platform, blind, orphans, hookFaults>>
  PROVE  NativeInv'
<1>1. /\ hook \in Hooks /\ native \in NativeApps /\ blind \in BOOLEAN /\ missed \in BOOLEAN
      /\ down \subseteq Native!Keys /\ seen \subseteq Native!Keys
      /\ hookFaults \in 0 .. HookFaults /\ MarksAreHeld /\ SeenIsHeld
  BY NativeTypes DEF NativeInv
<1>2. hook' = hook /\ native' = native /\ (hook.on => blind)
  BY DEF Native!PassesBy, Native!Sees
<1>3. seen' = IF blind /\ Windows THEN seen
              ELSE IF pressed THEN seen \cup {x} ELSE seen \ {x}
  BY DEF Native!PassesBy, Windows
<1>4. missed' = (missed \/ (hook.on /\ (pressed <=> x \notin down)))
  BY DEF Native!PassesBy
<1>5. missed' \in BOOLEAN /\ (missed => missed') /\ (down' # down /\ hook.on => missed')
  <2>1. missed' \in BOOLEAN /\ (missed => missed')
    BY <1>1, <1>4
  <2>2. ASSUME down' # down, hook.on PROVE missed'
    BY <1>4, <2>2
  <2> QED BY <2>1, <2>2
<1>6. MarksAreHeld'
  <2>1. CASE down' = down
    BY <1>1, <1>2, <1>5, <2>1 DEF MarksAreHeld, Windows
  <2>2. CASE down' # down
    BY <1>2, <1>5, <2>2 DEF MarksAreHeld, Windows
  <2> QED BY <2>1, <2>2
<1>7. SeenIsHeld'
  <2>1. CASE blind /\ Windows
    <3>1. seen' = {}
      BY <1>1, <1>3, <2>1 DEF SeenIsHeld
    <3> QED BY <3>1 DEF SeenIsHeld
  <2>2. CASE ~(blind /\ Windows)
    <3>1. hook'.on => ~Windows
      BY <1>2, <2>2
    <3>2. hook.on => missed'
      BY <1>4, <3>1, <1>2
    <3>3. Windows \/ ~missed' => seen' \subseteq down'
      BY <1>1, <1>3, <1>5, <2>2 DEF SeenIsHeld
    <3> QED BY <1>2, <2>2, <3>1, <3>2, <3>3 DEF SeenIsHeld, Windows
  <2> QED BY <2>1, <2>2
<1>8. down' \subseteq Native!Keys /\ seen' \subseteq Native!Keys /\ SameTable(hook')
  BY <1>1, <1>2, <1>3 DEF SameTable
<1> QED BY <1>1, <1>2, <1>5, <1>6, <1>7, <1>8, KeysKeepTable

LEMMA KeyboardStep ==
  ASSUME NativeInv, Native!KeyPressed \/ Native!KeyReleased \/ Native!KeyRepeats
  PROVE  NativeInv'
<1>0. /\ platform \in {"windows", "macos"} /\ down \subseteq Native!Keys /\ Native!TypeOK
      /\ seen \subseteq Native!Keys /\ native \in NativeApps /\ hook \in Hooks
      /\ blind \in BOOLEAN /\ missed \in BOOLEAN /\ hookFaults \in 0 .. HookFaults
  BY NativeTypes DEF NativeInv
<1>1. Native!ModifiersDown \in SUBSET Modifiers
  BY DEF Native!ModifiersDown
<1>2. UNCHANGED <<platform, blind, orphans, hookFaults>>
  BY DEF Native!KeyPressed, Native!KeyReleased, Native!KeyRepeats, Native!Calm
<1>3. CASE Native!KeyPressed
  <2>1. PICK x \in Native!Keys \ down :
          /\ down' = down \cup {x}
          /\ ~Native!Sees => Native!PassesBy(x, TRUE)
          /\ Native!Sees /\ Windows => Native!HandlePress(Native!ReconciledWindows(x), x)
          /\ Native!Sees /\ ~Windows /\ x \in Modifiers =>
               /\ hook' = Native!FlaggedMacos(Native!ModifiersDown \cup {x})
               /\ seen' = seen \cup {x} /\ UNCHANGED <<native, missed>>
          /\ Native!Sees /\ ~Windows /\ x \notin Modifiers =>
               Native!HandlePress(Native!FlaggedMacos(Native!ModifiersDown), x)
    BY <1>3 DEF Native!KeyPressed, Windows
  <2>2. CASE ~Native!Sees
    BY <1>2, <2>1, <2>2, PassesByStep
  <2>3. CASE Native!Sees /\ Windows
    BY <1>2, <2>1, <2>3, WindowsPress DEF Native!Sees
  <2>4. CASE Native!Sees /\ ~Windows /\ x \in Modifiers
    <3>1. Native!ModifiersDown \cup {x} \in SUBSET Modifiers /\ x \notin Plain
      BY <1>1, <2>4, NativeConstants
    <3>2. /\ down' \subseteq Native!Keys /\ down' \cap Plain = down \cap Plain
          /\ seen' \subseteq Native!Keys /\ seen' \cap Plain = seen \cap Plain
          /\ seen \subseteq down => seen' \subseteq down'
      BY <1>0, <2>1, <2>4, <3>1
    <3> QED BY <1>2, <2>1, <2>4, <3>1, <3>2, MacosModifier DEF Native!Sees
  <2>5. CASE Native!Sees /\ ~Windows /\ x \notin Modifiers
    <3>1. x \in Plain /\ x \notin down
      BY <2>5, NativeConstants
    <3> QED BY <1>2, <2>1, <2>5, <3>1, MacosPress DEF Native!Sees
  <2> QED BY <2>2, <2>3, <2>4, <2>5
<1>4. CASE Native!KeyReleased
  <2>1. PICK x \in down :
          /\ down' = down \ {x}
          /\ ~Native!Sees => Native!PassesBy(x, FALSE)
          /\ Native!Sees /\ Windows => Native!HandleRelease(Native!ReconciledWindows(x), x)
          /\ Native!Sees /\ ~Windows /\ x \in Modifiers =>
               /\ hook' = Native!FlaggedMacos(Native!ModifiersDown \ {x})
               /\ seen' = seen \ {x} /\ UNCHANGED <<native, missed>>
          /\ Native!Sees /\ ~Windows /\ x \notin Modifiers =>
               Native!HandleRelease(Native!FlaggedMacos(Native!ModifiersDown), x)
    BY <1>4 DEF Native!KeyReleased, Windows
  <2>x. x \in Native!Keys
    BY <1>0
  <2>2. CASE ~Native!Sees
    BY <1>2, <2>1, <2>x, <2>2, PassesByStep
  <2>3. CASE Native!Sees /\ Windows
    BY <1>2, <2>1, <2>x, <2>3, WindowsRelease DEF Native!Sees
  <2>4. CASE Native!Sees /\ ~Windows /\ x \in Modifiers
    <3>1. Native!ModifiersDown \ {x} \in SUBSET Modifiers /\ x \notin Plain
      BY <1>1, <2>4, NativeConstants
    <3>2. /\ down' \subseteq Native!Keys /\ down' \cap Plain = down \cap Plain
          /\ seen' \subseteq Native!Keys /\ seen' \cap Plain = seen \cap Plain
          /\ seen \subseteq down => seen' \subseteq down'
      BY <1>0, <2>1, <2>4, <3>1
    <3> QED BY <1>2, <2>1, <2>4, <3>1, <3>2, MacosModifier DEF Native!Sees
  <2>5. CASE Native!Sees /\ ~Windows /\ x \notin Modifiers
    <3>1. x \in Plain
      BY <2>x, <2>5, NativeConstants
    <3> QED BY <1>2, <2>1, <2>5, <3>1, MacosRelease DEF Native!Sees
  <2> QED BY <2>2, <2>3, <2>4, <2>5
<1>5. CASE Native!KeyRepeats
  <2>1. PICK x \in down :
          /\ ~Windows =>
               /\ hook' = IF Native!Sees THEN Native!FlaggedMacos(Native!ModifiersDown) ELSE hook
               /\ UNCHANGED <<seen, missed, native>>
          /\ Native!Sees /\ Windows => Native!HandlePress(Native!ReconciledWindows(x), x)
          /\ ~Native!Sees /\ Windows => Native!PassesBy(x, TRUE)
    BY <1>0, <1>5 DEF Native!KeyRepeats, Windows
  <2>x. x \in Native!Keys /\ down' = down
    BY <1>0, <1>5 DEF Native!KeyRepeats
  <2>2. CASE ~Native!Sees /\ Windows
    <3>1. down' = IF TRUE THEN down \cup {x} ELSE down \ {x}
      BY <2>x
    <3> QED BY <1>2, <2>1, <2>x, <2>2, <3>1, PassesByStep
  <2>3. CASE Native!Sees /\ Windows
    <3>1. down' = down \cup {x}
      BY <2>x
    <3> QED BY <1>2, <2>1, <2>x, <2>3, <3>1, WindowsPress DEF Native!Sees
  <2>4. CASE Native!Sees /\ ~Windows
    BY <1>0, <1>1, <1>2, <2>1, <2>x, <2>4, MacosModifier DEF Native!Sees
  <2>5. CASE ~Native!Sees /\ ~Windows
    <3>1. hook' = hook /\ UNCHANGED <<seen, missed, native, down, platform, blind, orphans>>
      BY <1>2, <2>1, <2>x, <2>5
    <3>2. SameTable(hook') /\ MarksAreHeld' /\ SeenIsHeld'
      BY <3>1 DEF NativeInv, SameTable, MarksAreHeld, SeenIsHeld, Windows
    <3> QED BY <1>0, <1>2, <3>1, <3>2, KeysKeepTable
  <2> QED BY <2>2, <2>3, <2>4, <2>5
<1> QED BY <1>3, <1>4, <1>5

LEMMA SightStep ==
  ASSUME NativeInv, Native!SightLost \/ Native!SightRegained
  PROVE  NativeInv'
<1>0. /\ platform \in {"windows", "macos"} /\ down \subseteq Native!Keys
      /\ seen \subseteq Native!Keys /\ native \in NativeApps /\ hook \in Hooks
      /\ blind \in BOOLEAN /\ missed \in BOOLEAN /\ hookFaults \in 0 .. HookFaults
      /\ MarksAreHeld /\ SeenIsHeld
  BY NativeTypes DEF NativeInv
<1>1. CASE Native!SightLost
  <2>1. /\ blind' = TRUE /\ seen' = (IF Windows THEN {} ELSE seen)
        /\ UNCHANGED <<platform, down, missed, hook, orphans, native>>
    BY <1>1 DEF Native!SightLost, Windows
  <2>2. hookFaults' \in 0 .. HookFaults
    BY <1>0, <1>1, NativeConstants DEF Native!SightLost, Native!Fault
  <2>3. SameTable(hook') /\ MarksAreHeld'
    BY <1>0, <2>1 DEF SameTable, MarksAreHeld, Windows
  <2>4. SeenIsHeld'
    BY <1>0, <2>1 DEF SeenIsHeld, Windows
  <2>5. seen' \subseteq Native!Keys
    BY <1>0, <2>1
  <2> QED BY <1>0, <2>1, <2>2, <2>3, <2>4, <2>5, KeysKeepTable
<1>2. CASE Native!SightRegained
  <2>1. /\ blind' = FALSE /\ blind
        /\ UNCHANGED <<platform, down, seen, missed, orphans, native, hookFaults>>
        /\ IF ~Windows /\ hook.on THEN hook' = Native!Reconciled(hook) ELSE hook' = hook
    BY <1>0, <1>2 DEF Native!SightRegained, Native!Calm, Windows
  <2>2. CASE ~Windows /\ hook.on
    <3>1. hook' = [hook EXCEPT !.pressed = down, !.swallowed = @ \cap down]
      BY <2>1, <2>2 DEF Native!Reconciled
    <3>2. /\ hook' \in Hooks /\ SameTable(hook') /\ hook'.pressed = down
          /\ hook'.swallowed = hook.swallowed \cap down
      BY <1>0, <3>1 DEF Hooks, SameTable
    <3>3. MarksAreHeld'
      BY <2>1, <2>2, <3>2 DEF MarksAreHeld, Windows
    <3>4. SeenIsHeld'
      BY <1>0, <2>1, <2>2, <3>2 DEF SeenIsHeld, Windows, SameTable
    <3> QED BY <1>0, <2>1, <3>2, <3>3, <3>4, KeysKeepTable
  <2>3. CASE ~(~Windows /\ hook.on)
    <3>1. hook' = hook
      BY <2>1, <2>3
    <3>2. SameTable(hook') /\ MarksAreHeld'
      BY <1>0, <2>1, <2>3, <3>1 DEF SameTable, MarksAreHeld, Windows
    <3>3. SeenIsHeld'
      BY <1>0, <2>1, <3>1 DEF SeenIsHeld, Windows
    <3> QED BY <1>0, <2>1, <3>1, <3>2, <3>3, KeysKeepTable
  <2> QED BY <2>2, <2>3
<1> QED BY <1>1, <1>2

\* What the thread and the App do leaves the keyboard and its sight alone.
LEMMA HookStep ==
  ASSUME NativeInv, Native!HookEnds \/ Native!ThreadEnds
  PROVE  NativeInv'
<1>0. /\ Native!TypeOK /\ hook \in Hooks /\ hookFaults \in 0 .. HookFaults
      /\ MarksAreHeld /\ SeenIsHeld /\ Ended /\ Native!HeldIsBound /\ orphans = 0
  BY NativeTypes DEF NativeInv
<1>1. UNCHANGED <<platform, down, seen, blind, missed, orphans, native>>
  BY DEF Native!HookEnds, Native!ThreadEnds
<1>2. CASE Native!HookEnds
  <2>1. hookFaults' \in 0 .. HookFaults
    BY <1>0, <1>2, NativeConstants DEF Native!HookEnds, Native!Fault
  <2>2. hook' = [hook EXCEPT !.on = FALSE]
    BY <1>2 DEF Native!HookEnds
  <2>3. /\ hook' \in Hooks /\ hook'.on = FALSE /\ hook'.error = hook.error
        /\ hook'.bindings = hook.bindings /\ hook'.owner = hook.owner
    BY <1>0, <2>2 DEF Hooks
  <2>4. Native!TypeOK'
    BY <1>0, <1>1, <2>1, <2>3, NativeTypes DEF Native!TypeOK, Hooks
  <2>5. Ended' /\ Native!HeldIsBound'
    BY <1>0, <1>1, <2>3 DEF Ended, Native!HeldIsBound
  <2>6. MarksAreHeld' /\ SeenIsHeld'
    BY <1>0, <1>1, <2>3 DEF MarksAreHeld, SeenIsHeld, Windows
  <2> QED BY <1>0, <1>1, <2>4, <2>5, <2>6 DEF NativeInv
<1>3. CASE Native!ThreadEnds
  <2>1. hookFaults' = hookFaults /\ hook.on = FALSE
    BY <1>0, <1>3 DEF Native!ThreadEnds, Native!Calm, Hooks
  <2>2. hook' = [hook EXCEPT !.error = TRUE, !.bindings = {}, !.owner = None]
    BY <1>3 DEF Native!ThreadEnds, Native!Stopped
  <2>3. /\ hook' \in Hooks /\ hook'.on = FALSE /\ hook'.error = TRUE
        /\ hook'.bindings = {} /\ hook'.owner = None
    BY <1>0, <2>1, <2>2 DEF Hooks
  <2>4. Native!TypeOK'
    BY <1>0, <1>1, <2>1, <2>3, NativeTypes DEF Native!TypeOK, Hooks
  <2>5. Ended' /\ Native!HeldIsBound'
    BY <2>3 DEF Ended, Native!HeldIsBound
  <2>6. MarksAreHeld' /\ SeenIsHeld'
    BY <1>0, <1>1, <2>3 DEF MarksAreHeld, SeenIsHeld, Windows
  <2> QED BY <1>0, <1>1, <2>4, <2>5, <2>6 DEF NativeInv
<1> QED BY <1>2, <1>3

\* A new hook has marked what is down; one that cannot be stopped looks for nothing.
LEMMA HookRestarts ==
  ASSUME NativeInv, NEW stops \in BOOLEAN, NEW works \in BOOLEAN,
         IF Windows THEN Native!Replaced(stops, works) ELSE Native!Shared(works)
  PROVE  /\ hook' \in Hooks /\ orphans' = orphans
         /\ hook'.error => hook'.bindings = {} /\ hook'.owner = None /\ (Windows \/ ~hook'.on)
         /\ \/ hook'.pressed = down /\ hook'.swallowed = {} /\ (~Windows => hook.error)
            \/ hook'.on = FALSE
            \/ /\ hook'.pressed = hook.pressed /\ hook'.swallowed = hook.swallowed
               /\ hook'.on = hook.on
               /\ (Windows => hook'.error) /\ (~Windows => ~hook.error)
<1>0. hook \in Hooks /\ down \subseteq Native!Keys /\ Ended
  BY NativeTypes DEF NativeInv
<1>1. orphans' = orphans
  BY <1>0 DEF Native!Replaced, Native!Shared, Native!Beside, Ended, Windows
<1>2. CASE hook' = Native!Started(works) /\ (~Windows => hook.error)
  <2>1. hook' = [on |-> works, error |-> ~works, pressed |-> IF works THEN down ELSE {},
                 swallowed |-> {}, bindings |-> {}, owner |-> None]
    BY <1>2 DEF Native!Started, Native!HeldAtStart
  <2>2. (IF works THEN down ELSE {}) \in SUBSET Native!Keys /\ {} \in SUBSET Plain
        /\ {} \in HookSets \cup {{}}
    BY <1>0
  <2>3. hook' \in Hooks /\ hook'.on = works /\ hook'.swallowed = {} /\ hook'.bindings = {}
        /\ hook'.owner = None /\ (works => hook'.pressed = down) /\ (hook'.error => ~hook'.on)
    BY <2>1, <2>2 DEF Hooks
  <2> QED BY <1>1, <1>2, <2>3
<1>3. CASE hook' = Native!Stopped(hook) /\ Windows
  <2>1. hook' = [hook EXCEPT !.error = TRUE, !.bindings = {}, !.owner = None]
    BY <1>3 DEF Native!Stopped
  <2>2. /\ hook' \in Hooks /\ hook'.on = hook.on /\ hook'.error = TRUE
        /\ hook'.bindings = {} /\ hook'.owner = None
        /\ hook'.pressed = hook.pressed /\ hook'.swallowed = hook.swallowed
    BY <1>0, <2>1 DEF Hooks
  <2> QED BY <1>1, <1>3, <2>2
<1>4. CASE hook' = Native!Dropped(hook) /\ ~Windows /\ ~hook.error
  <2>1. \/ hook' = hook
        \/ hook' = [hook EXCEPT !.bindings = {}, !.owner = None]
    BY <1>4 DEF Native!Dropped
  <2>2. /\ hook' \in Hooks /\ hook'.on = hook.on /\ hook'.error = hook.error
        /\ hook'.pressed = hook.pressed /\ hook'.swallowed = hook.swallowed
    BY <1>0, <2>1 DEF Hooks
  <2> QED BY <1>1, <1>4, <2>2
<1> QED BY <1>2, <1>3, <1>4 DEF Native!Replaced, Native!Shared

LEMMA HookAppStep ==
  ASSUME NativeInv, Native!AppNext
  PROVE  NativeInv'
<1>0. /\ Native!TypeOK /\ platform \in {"windows", "macos"} /\ hook \in Hooks
      /\ native \in NativeApps /\ blind \in BOOLEAN /\ missed \in BOOLEAN
      /\ down \subseteq Native!Keys /\ seen \subseteq Native!Keys
      /\ hookFaults \in 0 .. HookFaults
      /\ MarksAreHeld /\ SeenIsHeld /\ Ended /\ Native!HeldIsBound /\ orphans = 0
      /\ orphans \in 0 .. Systems
  BY NativeTypes DEF NativeInv
<1>1. CASE Native!AppRestarts
  <2>1. PICK stops \in BOOLEAN, works \in BOOLEAN :
          /\ native.number < Systems
          /\ Windows => ~blind
          /\ IF Windows THEN Native!Replaced(stops, works) ELSE Native!Shared(works)
          /\ blind' = (blind /\ ~hook.error)
          /\ missed' = (missed /\ ~Windows)
          /\ native' = [number |-> native.number + 1, held |-> None, events |-> <<>>]
          /\ IF stops /\ works THEN Native!Calm ELSE Native!Fault
          /\ UNCHANGED <<platform, down, seen>>
    BY <1>0, <1>1 DEF Native!AppRestarts, Windows
  <2>2. /\ hook' \in Hooks /\ orphans' = orphans
        /\ hook'.error => hook'.bindings = {} /\ hook'.owner = None /\ (Windows \/ ~hook'.on)
        /\ \/ hook'.pressed = down /\ hook'.swallowed = {} /\ (~Windows => hook.error)
           \/ hook'.on = FALSE
           \/ /\ hook'.pressed = hook.pressed /\ hook'.swallowed = hook.swallowed
              /\ hook'.on = hook.on
              /\ (Windows => hook'.error) /\ (~Windows => ~hook.error)
    BY <2>1, HookRestarts
  <2>3. native' \in NativeApps /\ native'.held = None
    <3>1. native.number + 1 \in 1 .. Systems
      BY <1>0, <2>1, NativeConstants DEF NativeApps
    <3> QED BY <2>1, <3>1 DEF NativeApps
  <2>4. hookFaults' \in 0 .. HookFaults
    BY <1>0, <2>1, NativeConstants DEF Native!Calm, Native!Fault
  <2>5. /\ blind' \in BOOLEAN /\ missed' \in BOOLEAN
        /\ Windows => ~blind' /\ ~missed' /\ (~Windows => missed' = missed)
        /\ blind' = (blind /\ ~hook.error)
    BY <1>0, <2>1
  <2>6. Native!TypeOK'
    BY <1>0, <2>1, <2>2, <2>3, <2>4, <2>5 DEF Native!TypeOK, Hooks, NativeApps
  <2>7. Ended' /\ Native!HeldIsBound'
    BY <2>1, <2>2, <2>3 DEF Ended, Native!HeldIsBound, Windows
  <2>8. MarksAreHeld'
    BY <1>0, <2>1, <2>2, <2>5 DEF MarksAreHeld, Windows
  <2>9. SeenIsHeld'
    BY <1>0, <2>1, <2>2, <2>5 DEF SeenIsHeld, Windows
  <2> QED BY <1>0, <2>2, <2>6, <2>7, <2>8, <2>9 DEF NativeInv
<1>2. CASE Native!AppRegisters
  <2>1. PICK set \in HookSets :
          \/ hook.error /\ native' = [native EXCEPT !.held = None] /\ hook' = hook
          \/ /\ ~hook.error /\ native' = [native EXCEPT !.held = set]
             /\ hook' = [hook EXCEPT !.bindings = set, !.owner = native.number]
    BY <1>2 DEF Native!AppRegisters
  <2>2. UNCHANGED <<platform, down, seen, blind, missed, orphans, hookFaults>>
    BY <1>2 DEF Native!AppRegisters, Native!Calm
  <2>3. native.number \in 1 .. Systems
    BY <1>0 DEF NativeApps
  <2>4. /\ hook' \in Hooks /\ hook'.on = hook.on /\ hook'.error = hook.error
        /\ hook'.pressed = hook.pressed /\ hook'.swallowed = hook.swallowed
        /\ native' \in NativeApps /\ native'.number = native.number
        /\ \/ hook.error /\ native'.held = None /\ hook' = hook
           \/ ~hook.error /\ native'.held = set /\ hook'.bindings = set /\ hook'.owner = native.number
    BY <1>0, <2>1, <2>3 DEF Hooks, NativeApps
  <2>5. Native!TypeOK'
    BY <1>0, <2>2, <2>4 DEF Native!TypeOK, Hooks, NativeApps
  <2>6. Ended' /\ Native!HeldIsBound'
    BY <1>0, <2>2, <2>4 DEF Ended, Native!HeldIsBound, Windows
  <2>7. MarksAreHeld' /\ SeenIsHeld'
    BY <1>0, <2>2, <2>4 DEF MarksAreHeld, SeenIsHeld, Windows
  <2> QED BY <1>0, <2>2, <2>5, <2>6, <2>7 DEF NativeInv
<1>3. CASE Native!AppPolls
  <2>1. \/ native' = [native EXCEPT !.held = None]
        \/ native.events # <<>> /\ native' = [native EXCEPT !.events = Tail(@)]
    BY <1>3 DEF Native!AppPolls
  <2>2. UNCHANGED <<platform, down, seen, blind, missed, hook, orphans, hookFaults>>
    BY <1>3 DEF Native!AppPolls, Native!Calm
  <2>3. native.events # <<>> => Tail(native.events) \in Seq(Native!Bindings)
    BY <1>0 DEF NativeApps
  <2>4. /\ native' \in NativeApps /\ native'.number = native.number
        /\ native'.held \in {native.held, None}
    BY <1>0, <2>1, <2>3 DEF NativeApps
  <2>5. Native!TypeOK'
    BY <1>0, <2>2, <2>4 DEF Native!TypeOK, Hooks, NativeApps
  <2>6. Ended' /\ Native!HeldIsBound'
    BY <1>0, <2>2, <2>4 DEF Ended, Native!HeldIsBound, Windows
  <2>7. MarksAreHeld' /\ SeenIsHeld'
    BY <1>0, <2>2 DEF MarksAreHeld, SeenIsHeld, Windows
  <2> QED BY <1>0, <2>2, <2>5, <2>6, <2>7 DEF NativeInv
<1> QED BY <1>1, <1>2, <1>3 DEF Native!AppNext

LEMMA NativeStep == NativeInv /\ Native!Next => NativeInv'
BY KeyboardStep, SightStep, HookStep, HookAppStep
   DEF Native!Next, Native!KeyboardNext, Native!HookNext

-----------------------------------------------------------------------------
(* When chords act.                                                        *)

\* The step of a plain key that is pressed or repeats.
Strikes(x, h) ==
  /\ Native!Sees /\ Native!HandlePress(h, x)
  /\ \/ Windows /\ h = Native!ReconciledWindows(x)
     \/ ~Windows /\ x \notin down /\ h = Native!FlaggedMacos(Native!ModifiersDown)

\* A plain key acts with the modifiers that are down.
LEMMA StruckChord ==
  ASSUME NativeInv, NEW x \in Plain, NEW h, Strikes(x, h)
  PROVE  /\ h \in Hooks /\ SameTable(h) /\ Native!Chord(h, x) = [mods |-> Native!ModifiersDown, key |-> x]
         /\ Windows => (AltGr \subseteq h.pressed <=> AltGr \subseteq down)
         /\ Windows /\ ~hook.error /\ ~missed => h.pressed = down
         /\ ~Windows => h.pressed \cap Plain \subseteq down /\ x \notin down
<1>0. /\ Native!TypeOK /\ x \in Native!Keys /\ x \notin Modifiers
      /\ Native!ModifiersDown \in SUBSET Modifiers /\ hook.on /\ ~blind
  BY NativeConstants DEF NativeInv, Native!ModifiersDown, Strikes, Native!Sees
<1>1. CASE Windows /\ h = Native!ReconciledWindows(x)
  <2>1. /\ h \in Hooks /\ SameTable(h)
        /\ h.pressed \cap Modifiers = down \cap Modifiers
    BY <1>0, <1>1, WindowsReconciles
  <2>2. ~hook.error /\ ~missed => h.pressed = down
    BY <1>0, <1>1, WindowsReady
  <2>3. AltGr \subseteq h.pressed <=> AltGr \subseteq down
    BY <2>1, NativeConstants
  <2> QED BY <1>1, <2>1, <2>2, <2>3 DEF Native!Chord, Native!ModifiersDown
<1>2. CASE ~Windows /\ x \notin down /\ h = Native!FlaggedMacos(Native!ModifiersDown)
  <2>1. /\ h \in Hooks /\ SameTable(h)
        /\ h.pressed = (hook.pressed \cap Plain) \cup Native!ModifiersDown
    BY <1>0, <1>2, MacosFlags
  <2>2. /\ h.pressed \cap Modifiers = Native!ModifiersDown
        /\ h.pressed \cap Plain = hook.pressed \cap Plain
    BY <1>0, <2>1, NativeConstants
  <2>3. hook.pressed \cap Plain \subseteq down
    BY <1>0, <1>2, MacosReady
  <2> QED BY <1>2, <2>1, <2>2, <2>3 DEF Native!Chord
<1> QED BY <1>1, <1>2 DEF Strikes

\* Only a chord that is struck is reported.
LEMMA OnlyStrikesReport ==
  ASSUME NativeInv, [Native!Next]_Native!vars, Len(native'.events) > Len(native.events)
  PROVE  \E x, h : /\ x \in Plain /\ Strikes(x, h) /\ Native!Acts(h, x)
                   /\ native'.events = Append(native.events, Native!Chord(h, x))
<1>0. /\ native \in NativeApps /\ native.events \in Seq(Native!Bindings)
      /\ Len(native.events) \in Nat /\ Native!TypeOK /\ down \subseteq Native!Keys
      /\ platform \in {"windows", "macos"}
  BY NativeTypes DEF NativeInv, NativeApps
<1>1. native'.events # native.events /\ native' # native
  BY <1>0
<1>2. \E x \in Native!Keys, h \in Hooks :
        /\ SameTable(h) /\ Native!Sees /\ Native!HandlePress(h, x)
        /\ \/ Windows /\ h = Native!ReconciledWindows(x)
           \/ ~Windows /\ x \notin down /\ h = Native!FlaggedMacos(Native!ModifiersDown)
  <2>1. \A x \in Native!Keys : LET h == Native!ReconciledWindows(x) IN h \in Hooks /\ SameTable(h)
    BY <1>0, WindowsReconciles
  <2>2. LET h == Native!FlaggedMacos(Native!ModifiersDown) IN h \in Hooks /\ SameTable(h)
    <3>1. Native!ModifiersDown \in SUBSET Modifiers
      BY DEF Native!ModifiersDown
    <3> QED BY <1>0, <3>1, MacosFlags
  <2>3. CASE Native!KeyPressed
    <3>1. PICK x \in Native!Keys \ down :
            /\ ~Native!Sees => native' = native
            /\ Native!Sees /\ Windows => Native!HandlePress(Native!ReconciledWindows(x), x)
            /\ Native!Sees /\ ~Windows /\ x \in Modifiers => native' = native
            /\ Native!Sees /\ ~Windows /\ x \notin Modifiers =>
                 Native!HandlePress(Native!FlaggedMacos(Native!ModifiersDown), x)
      BY <2>3 DEF Native!KeyPressed, Native!PassesBy, Windows
    <3> QED BY <1>1, <2>1, <2>2, <3>1
  <2>4. CASE Native!KeyReleased
    BY <1>1, <2>4 DEF Native!KeyReleased, Native!PassesBy, Native!HandleRelease
  <2>5. CASE Native!KeyRepeats
    <3>1. PICK x \in down :
            /\ ~Windows => native' = native
            /\ Native!Sees /\ Windows => Native!HandlePress(Native!ReconciledWindows(x), x)
            /\ ~Native!Sees /\ Windows => native' = native
      BY <1>0, <2>5 DEF Native!KeyRepeats, Native!PassesBy, Windows
    <3>2. x \in Native!Keys
      BY <1>0
    <3> QED BY <1>1, <2>1, <3>1, <3>2
  <2>6. CASE Native!AppRestarts
    <3>1. native'.events = <<>>
      BY <2>6 DEF Native!AppRestarts
    <3>2. Len(native'.events) = 0
      BY <3>1
    <3> QED BY <1>0, <3>2
  <2>7. CASE Native!AppRegisters
    BY <1>0, <1>1, <2>7 DEF Native!AppRegisters, NativeApps
  <2>8. CASE Native!AppPolls
    <3>1. native.events # <<>> /\ native'.events = Tail(native.events)
      BY <1>0, <1>1, <2>8 DEF Native!AppPolls, NativeApps
    <3>2. Len(Tail(native.events)) = Len(native.events) - 1
      BY <1>0, <3>1
    <3>3. Len(native'.events) = Len(native.events) - 1
      BY <3>1, <3>2
    <3> QED BY <1>0, <3>3
  <2>9. CASE Native!SightLost \/ Native!SightRegained \/ Native!HookNext \/ UNCHANGED Native!vars
    BY <1>1, <2>9 DEF Native!SightLost, Native!SightRegained, Native!HookNext, Native!HookEnds,
                      Native!ThreadEnds, Native!vars
  <2> QED BY <2>3, <2>4, <2>5, <2>6, <2>7, <2>8, <2>9
          DEF Native!Next, Native!KeyboardNext, Native!AppNext
<1>3. PICK x \in Native!Keys, h \in Hooks :
        /\ SameTable(h) /\ Native!Sees /\ Native!HandlePress(h, x)
        /\ \/ Windows /\ h = Native!ReconciledWindows(x)
           \/ ~Windows /\ x \notin down /\ h = Native!FlaggedMacos(Native!ModifiersDown)
  BY <1>2
<1>4. /\ Native!Acts(h, x) => native'.events = Append(native.events, Native!Chord(h, x))
      /\ ~Native!Acts(h, x) => native' = native
  BY <1>0, <1>3, PressIsHandled
<1>5. Native!Acts(h, x) /\ x \in Plain
  BY <1>1, <1>4 DEF Native!Acts
<1> QED BY <1>3, <1>4, <1>5 DEF Strikes

LEMMA NativeChordsAreHeld ==
  ASSUME NativeInv, [Native!Next]_Native!vars, Len(native'.events) > Len(native.events)
  PROVE  LET b == native'.events[Len(native'.events)]
         IN /\ b.mods = Native!ModifiersDown
            /\ platform = "windows" => ~(AltGr \subseteq b.mods)
            /\ b.key \in down => missed
<1>1. PICK x, h : /\ x \in Plain /\ Strikes(x, h) /\ Native!Acts(h, x)
                  /\ native'.events = Append(native.events, Native!Chord(h, x))
  BY OnlyStrikesReport
<1>2. /\ h \in Hooks /\ SameTable(h)
      /\ Native!Chord(h, x) = [mods |-> Native!ModifiersDown, key |-> x]
      /\ Windows => (AltGr \subseteq h.pressed <=> AltGr \subseteq down)
      /\ Windows /\ ~hook.error /\ ~missed => h.pressed = down
      /\ ~Windows => x \notin down
  BY <1>1, StruckChord
<1>3. native'.events[Len(native'.events)] = Native!Chord(h, x)
  <2>1. native.events \in Seq(Native!Bindings)
    BY NativeTypes DEF NativeInv, NativeApps
  <2>2. /\ Len(Append(native.events, Native!Chord(h, x))) = Len(native.events) + 1
        /\ Append(native.events, Native!Chord(h, x))[Len(native.events) + 1] = Native!Chord(h, x)
    BY <2>1
  <2> QED BY <1>1, <2>2
<1>4. ~Native!Types(h) /\ x \notin h.pressed /\ h.owner # None
  BY <1>1 DEF Native!Acts
<1>5. Windows => ~(AltGr \subseteq Native!ModifiersDown)
  BY <1>2, <1>4, NativeConstants DEF Native!Types, Native!ModifiersDown, Windows
<1>6. ~hook.error
  BY <1>2, <1>4 DEF NativeInv, Ended, SameTable
<1>7. x \in down => missed
  BY <1>2, <1>4, <1>6
<1>8. LET b == Native!Chord(h, x)
      IN /\ b.mods = Native!ModifiersDown
         /\ platform = "windows" => ~(AltGr \subseteq b.mods)
         /\ b.key \in down => missed
  BY <1>2, <1>5, <1>7 DEF Windows
<1> QED BY <1>3, <1>8

LEMMA NativeChordsAct ==
  ASSUME NativeInv, [Native!Next]_Native!vars, NEW x \in Plain,
         Native!Sees, platform = "windows" => ~missed, hook.owner # None, x \in down' \ down,
         [mods |-> Native!ModifiersDown, key |-> x] \in hook.bindings,
         platform = "windows" => ~(AltGr \subseteq down)
  PROVE  Len(native'.events) > Len(native.events)
<1>0. Native!TypeOK /\ native.events \in Seq(Native!Bindings) /\ hook.error \in BOOLEAN
  BY NativeTypes DEF NativeInv, NativeApps, Hooks
<1>1. \E h : Strikes(x, h)
  <2>1. Native!KeyPressed
    BY DEF Native!Next, Native!KeyboardNext, Native!HookNext, Native!AppNext, Native!vars,
           Native!KeyReleased, Native!KeyRepeats, Native!SightLost, Native!SightRegained,
           Native!HookEnds, Native!ThreadEnds, Native!AppRestarts, Native!AppRegisters, Native!AppPolls
  <2>2. PICK y \in Native!Keys \ down :
          /\ down' = down \cup {y}
          /\ Windows => Native!HandlePress(Native!ReconciledWindows(y), y)
          /\ ~Windows /\ y \notin Modifiers =>
               Native!HandlePress(Native!FlaggedMacos(Native!ModifiersDown), y)
    BY <2>1 DEF Native!KeyPressed, Windows
  <2>3. y = x /\ x \notin Modifiers
    BY <2>2, NativeConstants
  <2> QED BY <2>2, <2>3 DEF Strikes
<1>2. PICK h : Strikes(x, h)
  BY <1>1
<1>3. /\ h \in Hooks /\ SameTable(h)
      /\ Native!Chord(h, x) = [mods |-> Native!ModifiersDown, key |-> x]
      /\ Windows => (AltGr \subseteq h.pressed <=> AltGr \subseteq down)
      /\ Windows /\ ~hook.error /\ ~missed => h.pressed = down
      /\ ~Windows => h.pressed \cap Plain \subseteq down /\ x \notin down
  BY <1>2, StruckChord
<1>4. ~hook.error
  BY <1>0 DEF NativeInv, Ended
<1>5. Native!Acts(h, x)
  <2>1. ~Native!Types(h)
    BY <1>3 DEF Native!Types, Windows
  <2>2. x \notin h.pressed
    BY <1>3, <1>4 DEF Windows
  <2> QED BY <1>3, <2>1, <2>2 DEF Native!Acts, SameTable
<1>6. native'.events = Append(native.events, Native!Chord(h, x))
  <2>1. x \in Native!Keys /\ Native!HandlePress(h, x)
    BY <1>2, NativeConstants DEF Strikes
  <2> QED BY <1>0, <1>3, <1>5, <2>1, PressIsHandled
<1>7. Len(Append(native.events, Native!Chord(h, x))) = Len(native.events) + 1
  BY <1>0
<1> QED BY <1>0, <1>6, <1>7

-----------------------------------------------------------------------------
(* The theorems.                                                           *)

LEMMA StartIsSound == BackendInit => IInv
BY X11Start, NativeStart DEF BackendInit, IInv

\* The adapter that was not chosen stands still, and what holds of it stays.
LEMMA StandsStill ==
  /\ X11Inv /\ UNCHANGED x11Vars => X11Inv'
  /\ NativeInv /\ UNCHANGED nativeVars => NativeInv'
<1>1. ASSUME X11Inv, UNCHANGED x11Vars PROVE X11Inv'
  BY <1>1 DEF x11Vars, vars, X11Inv, TypeOK, Mirrored, Spelt, Accepted, Holds
<1>2. ASSUME NativeInv, UNCHANGED nativeVars PROVE NativeInv'
  BY <1>2 DEF nativeVars, NativeInv, Native!TypeOK, Native!HeldIsBound, Ended, MarksAreHeld,
              SeenIsHeld, Windows
<1> QED BY <1>1, <1>2

LEMMA StepIsSound == IInv /\ [BackendNext]_<<backend, x11Vars, nativeVars>> => IInv'
<1> SUFFICES ASSUME IInv, [BackendNext]_<<backend, x11Vars, nativeVars>> PROVE IInv'
  OBVIOUS
<1>1. CASE Next /\ UNCHANGED <<backend, nativeVars>>
  BY <1>1, X11Step, StandsStill DEF IInv
<1>2. CASE Native!Next /\ UNCHANGED <<backend, x11Vars>>
  BY <1>2, NativeStep, StandsStill DEF IInv
<1>3. CASE UNCHANGED <<backend, x11Vars, nativeVars>>
  BY <1>3, StandsStill DEF IInv
<1> QED BY <1>1, <1>2, <1>3 DEF BackendNext

\* The inductive invariant is one.
THEOREM Invariance == BackendSpec => []IInv
<1>1. BackendInit => IInv
  BY StartIsSound
<1>2. IInv /\ [BackendNext]_<<backend, x11Vars, nativeVars>> => IInv'
  BY StepIsSound
<1> QED BY <1>1, <1>2, PTL DEF BackendSpec

\* Exactly the set that the App holds is captured, in every spelling that types it, by
\* one listener or hook (X11HotkeySystem::register_hotkeys, replace_grabs,
\* grabs_for_mapping; NativeHotkeySystem::register_hotkeys, NativeListener::stop).
THEOREM CapturesStayExact == BackendSpec => []CaptureIsExact
<1>1. IInv => CaptureIsExact
  <2> SUFFICES ASSUME IInv PROVE CaptureIsExact
    OBVIOUS
  <2>1. HeldIsGrabbed /\ GrabsSpellHotkeys /\ TypeOK
    BY X11IsCaptured DEF IInv, X11Inv
  <2>2. Native!TypeOK /\ Native!HeldIsBound /\ orphans = 0
    BY DEF IInv, NativeInv
  <2>3. OneHook
    BY <2>2 DEF OneHook, Native!OneHook
  <2> QED BY <2>1, <2>2, <2>3 DEF CaptureIsExact, BackendTypeOK, HeldIsCaptured
<1> QED BY <1>1, Invariance, PTL

\* No key sticks in the focused program on Windows, whatever was swallowed, missed or
\* passed by; nor on macOS while the tap has missed nothing (handle_event).
THEOREM KeysAlwaysComeUp == BackendSpec => []KeysComeUp
<1>1. IInv => KeysComeUp
  BY DEF IInv, NativeInv, SeenIsHeld, Windows, KeysComeUp, Native!KeysComeUp
<1> QED BY <1>1, Invariance, PTL

\* A hold acts once at most on X11 (run_listener); behind a native hook a chord acts with
\* the modifiers that are down, never as AltGr, not again while it repeats, and at every
\* press that the hook sees and may trust (NativeListenerState::handle_event).
THEOREM ChordsActOnce == BackendSpec => KeysActOnce
<1>1. IInv /\ [BackendNext]_<<backend, x11Vars, nativeVars>> =>
        [Len(app'.events) > Len(app.events) => Head(socket).code \notin fired]_vars
  <2> SUFFICES ASSUME IInv, [BackendNext]_<<backend, x11Vars, nativeVars>>
               PROVE  Len(app'.events) > Len(app.events) => Head(socket).code \notin fired
    OBVIOUS
  <2>1. [Next]_vars
    BY DEF BackendNext, x11Vars
  <2> QED BY <2>1, X11ActsOnce DEF IInv
<1>2. ASSUME IInv, [BackendNext]_<<backend, x11Vars, nativeVars>>
      PROVE  NativeInv /\ [Native!Next]_Native!vars
  BY <1>2 DEF BackendNext, nativeVars, Native!vars, IInv
<1>3. IInv /\ [BackendNext]_<<backend, x11Vars, nativeVars>> =>
        [Len(native'.events) > Len(native.events) =>
           LET b == native'.events[Len(native'.events)]
           IN /\ b.mods = Native!ModifiersDown
              /\ platform = "windows" => ~(AltGr \subseteq b.mods)
              /\ b.key \in down => missed]_Native!vars
  BY <1>2, NativeChordsAreHeld
<1>4. IInv /\ [BackendNext]_<<backend, x11Vars, nativeVars>> =>
        [\A x \in Plain :
           /\ Native!Sees /\ (platform = "windows" => ~missed) /\ hook.owner # None /\ x \in down' \ down
           /\ [mods |-> Native!ModifiersDown, key |-> x] \in hook.bindings
           /\ platform = "windows" => ~(AltGr \subseteq down)
           => Len(native'.events) > Len(native.events)]_Native!vars
  BY <1>2, NativeChordsAct
<1>5. BackendSpec => OncePerHold
  BY <1>1, Invariance, PTL DEF BackendSpec, OncePerHold
<1>6. BackendSpec => Native!ChordsAreHeld
  BY <1>3, Invariance, PTL DEF BackendSpec, Native!ChordsAreHeld
<1>7. BackendSpec => Native!ChordsAct
  BY <1>4, Invariance, PTL DEF BackendSpec, Native!ChordsAct
<1> QED BY <1>5, <1>6, <1>7 DEF KeysActOnce, ChordsAreHeld, ChordsAct
=============================================================================
