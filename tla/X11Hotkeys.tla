----------------------------- MODULE X11Hotkeys -----------------------------
(***************************************************************************)
(* Hotkeys on X11 (x11_window_system/hotkeys.rs): the listener thread with *)
(* a connection of its own, whose grabs follow the keyboard's layout; the  *)
(* server, which routes keys by grabs and tells of changes; and the App,   *)
(* which registers sets and takes presses through channels.                *)
(***************************************************************************)
EXTENDS Sequences, FiniteSets, Functions

CONSTANTS
  Codes,        \* keycodes
  Bits,         \* the modifier bits of a key event's state
  Hotkeys,      \* records of a symbol and the names of modifiers
  Sets,         \* the sets of hotkeys that configs ask for
  Layouts,      \* what the server may say of its keyboard
  PressStates,  \* the modifier states in which keys are pressed
  None,
  MaxSocket,    \* bound on unread events
  MaxFaults     \* bound on failures, foreign grabs and layout changes

ASSUME ConstantsOK ==
  /\ None \notin Codes /\ \A set \in Sets : None # set
  /\ Sets \subseteq SUBSET Hotkeys
  /\ PressStates \subseteq SUBSET Bits
  /\ \A layout \in Layouts : /\ layout.slots["lock"] \subseteq Bits
                             /\ \A c \in Codes : Len(layout.syms[c]) > 0
  /\ MaxFaults \in Nat

VARIABLES
  app,        \* the set it holds, the one it waits for, its queue, a kept failure
  listener,   \* the thread: its map of grabs, accepted set and pressed keys
  server,     \* our grabs and foreign ones, the active grab, keys down, the layout
  socket,     \* events on their way to the listener
  fired,      \* the keys whose present hold has been reported
  faults

vars == <<app, listener, server, socket, fired, faults>>

Combos == Codes \X (SUBSET Bits)
Event == [kind : {"press"}, code : Codes, state : SUBSET Bits]
         \cup [kind : {"release"}, code : Codes] \cup [kind : {"mapping"}]

TypeOK ==
  /\ app \in [held : Sets \cup {None}, asked : Sets \cup {None}, failed : BOOLEAN,
              events : Seq(Hotkeys)]
  /\ listener \in [on : BOOLEAN, grabs : SUBSET (Combos \X Hotkeys),
                   accepted : Sets \cup {{}}, pressed : SUBSET Codes]
  /\ server \in [grabs : SUBSET Combos, foreign : SUBSET Combos, active : Codes \cup {None},
                 down : SUBSET Codes, layout : Layouts]
  /\ socket \in Seq(Event)
  /\ fired \subseteq Codes
  /\ faults \in 0 .. MaxFaults

Calm == UNCHANGED faults
Fault == faults < MaxFaults /\ faults' = faults + 1

-----------------------------------------------------------------------------
(* What a set means on a layout: grabs_for_mapping.                        *)

\* modifier_mask: the bits that Caps Lock and Num Lock are mapped to.
Locks(layout) == layout.slots["lock"]

\* lock_variants: the state with every combination of locks.
Variants(mods, locks) == {mods \cup on : on \in SUBSET (locks \ mods)}

\* One of the bits of each modifier, or several.
Masks(h, layout) ==
  {UNION Range(f) : f \in {g \in [h.mods -> SUBSET Bits] :
                             \A n \in h.mods : g[n] # {} /\ g[n] \subseteq layout.slots[n]}}

Level(type, state) ==
  LET hit == {entry \in type.map : state \cap type.mask = entry.mods}
  IN IF hit = {} THEN 1 ELSE (CHOOSE entry \in hit : TRUE).level

\* The grabs of one hotkey: every key and every level that has its symbol, with the
\* modifiers that select the level.  An explicit Shift modifies the key besides.
GrabsOf(h, layout) ==
  LET Selectors(type) == {{}} \cup {entry.mods : entry \in type.map}
      Selected(c, selector, mask) ==
        LET shift == IF "shift" \in h.mods THEN mask \cap layout.slots["shift"] ELSE {}
        IN Level(layout.type[c], selector \cup (mask \ shift))
  IN UNION {{t[1]} \X Variants(t[2] \cup t[3], Locks(layout)) : t \in
         {t \in Codes \X (SUBSET Bits) \X Masks(h, layout) :
            /\ t[2] \in Selectors(layout.type[t[1]])
            /\ t[2] \cap Locks(layout) = {}
            /\ Selected(t[1], t[2], t[3]) \in DOMAIN layout.syms[t[1]]
            /\ layout.syms[t[1]][Selected(t[1], t[2], t[3])] = h.sym}}

\* What each set is on each layout; no grabs at all for a set with a hotkey that has
\* no key, or with two that have the same.
Unresolvable(set, layout) ==
  \/ \E h \in set : GrabsOf(h, layout) = {}
  \/ \E h, other \in set : h # other /\ GrabsOf(h, layout) \cap GrabsOf(other, layout) # {}
Resolution ==
  [set \in Sets \cup {{}} |-> [layout \in Layouts |->
     IF Unresolvable(set, layout) THEN {} ELSE UNION {GrabsOf(h, layout) \X {h} : h \in set}]]
Resolved(set, layout) == Resolution[set][layout]
Resolvable(set, layout) == set = {} \/ Resolved(set, layout) # {}

CombosOf(grabs) == {grab[1] : grab \in grabs}

-----------------------------------------------------------------------------
(* The listener thread: run_listener.                                      *)

Listener == [on |-> TRUE, grabs |-> {}, accepted |-> {}, pressed |-> {}]

Taken(set) ==
  (CombosOf(Resolved(set, server.layout)) \ CombosOf(listener.grabs)) \cap server.foreign

\* replace_grabs: a grab that another program owns undoes the ones before it.
\* Mutant: what was taken before the refusal is not given back.
RefuseKeeping(set) == \E some \in SUBSET (CombosOf(Resolved(set, server.layout)) \ server.foreign) :
  /\ server' = [server EXCEPT !.grabs = @ \cup some]
  /\ UNCHANGED listener

Refuse(set) == UNCHANGED <<server, listener>>

Replace(set) ==
  LET new == Resolved(set, server.layout)
  IN /\ server' = [server EXCEPT !.grabs = (@ \cup CombosOf(new))
                                           \ (CombosOf(listener.grabs) \ CombosOf(new))]
     /\ listener' = [listener EXCEPT !.grabs = new, !.accepted = set]

\* The thread returns and its connection closes, which frees every grab; an App that
\* waits for a reply meets a closed channel.
Ends ==
  /\ listener' = [Listener EXCEPT !.on = FALSE]
  /\ server' = [server EXCEPT !.grabs = {}, !.active = None]
  /\ socket' = <<>>
Answered(held, failed) ==
  app' = [app EXCEPT !.asked = None, !.held = held, !.failed = @ \/ failed]

\* A Register command, answered: Ok, or Rejected, which keeps the set before.
ListenerRegisters ==
  /\ listener.on /\ app.asked # None
  /\ \/ /\ Resolvable(app.asked, server.layout) /\ Taken(app.asked) = {}
        /\ Replace(app.asked)
        /\ Answered(app.asked, FALSE)
     \/ /\ ~Resolvable(app.asked, server.layout)
        /\ UNCHANGED <<server, listener>>
        /\ Answered(app.held, FALSE)
     \/ /\ Resolvable(app.asked, server.layout) /\ Taken(app.asked) # {}
        /\ Refuse(app.asked)
        /\ Answered(app.held, FALSE)
  /\ Calm
  /\ UNCHANGED <<socket, fired>>

\* The server is gone or an X11 request fails: the thread returns an error.
ListenerFails ==
  /\ listener.on
  /\ Fault
  /\ Ends
  /\ IF app.asked = None THEN UNCHANGED app ELSE Answered(None, TRUE)
  /\ UNCHANGED fired

\* Mutant: a held key acts each time it repeats.
ReadPressEachTime(e) ==
  LET hits == {grab[2] : grab \in {g \in listener.grabs : g[1] = <<e.code, e.state>>}}
  IN /\ listener' = [listener EXCEPT !.pressed = @ \cup {e.code}]
     /\ app' = [app EXCEPT !.events = @ \o (IF hits = {} THEN <<>>
                                            ELSE <<CHOOSE h \in hits : TRUE>>)]
     /\ fired' = IF hits # {} THEN fired \cup {e.code} ELSE fired

\* A KeyPress: only the first of a hold counts.
ReadPress(e) ==
  LET hits == {grab[2] : grab \in {g \in listener.grabs : g[1] = <<e.code, e.state>>}}
      acts == e.code \notin listener.pressed /\ hits # {}
  IN /\ listener' = [listener EXCEPT !.pressed = @ \cup {e.code}]
     /\ app' = [app EXCEPT !.events = @ \o (IF acts THEN <<CHOOSE h \in hits : TRUE>>
                                            ELSE <<>>)]
     /\ fired' = IF acts THEN fired \cup {e.code} ELSE fired

\* The keyboard has changed: the accepted set is grabbed anew or the thread fails.
ReadMapping ==
  IF Resolvable(listener.accepted, server.layout) /\ Taken(listener.accepted) = {}
  THEN Replace(listener.accepted) /\ socket' = Tail(socket) /\ UNCHANGED app
  ELSE Ends /\ (IF app.asked = None THEN UNCHANGED app ELSE Answered(None, TRUE))

ListenerReads ==
  /\ listener.on /\ socket # <<>>
  /\ LET e == Head(socket)
     IN \/ /\ e.kind = "press"
           /\ Len(app.events) < MaxSocket
           /\ ReadPress(e)
           /\ socket' = Tail(socket)
           /\ UNCHANGED server
        \/ /\ e.kind = "release"
           /\ listener' = [listener EXCEPT !.pressed = @ \ {e.code}]
           /\ socket' = Tail(socket)
           /\ UNCHANGED <<app, server, fired>>
        \/ e.kind = "mapping" /\ ReadMapping /\ UNCHANGED fired
  /\ Calm

-----------------------------------------------------------------------------
(* X11HotkeySystem.                                                        *)

\* register_hotkeys: the command is sent and its reply waited for.
AppRegisters == \E set \in Sets :
  /\ listener.on /\ ~app.failed
  /\ app.asked = None /\ app.held # set
  /\ app' = [app EXCEPT !.asked = set]
  /\ Calm
  /\ UNCHANGED <<listener, server, socket, fired>>

\* register_hotkeys after the thread has ended: its failure is told again and again.
AppRegistersInVain ==
  /\ ~listener.on /\ app.asked = None
  /\ app' = [app EXCEPT !.failed = TRUE, !.held = None]
  /\ Calm
  /\ UNCHANGED <<listener, server, socket, fired>>

\* Mutant: the queue is read without a look at the thread.
AppPollsUnaware ==
  /\ app.asked = None /\ app.held # None
  /\ app.events # <<>>
  /\ app' = [app EXCEPT !.events = Tail(@)]
  /\ Calm
  /\ UNCHANGED <<listener, server, socket, fired>>

\* next_hotkey: a thread that ended is an error from now on, and hotkeys_lost.
AppPolls ==
  /\ app.asked = None /\ app.held # None
  /\ \/ /\ listener.on /\ app.events # <<>>
        /\ app' = [app EXCEPT !.events = Tail(@)]
     \/ ~listener.on /\ app' = [app EXCEPT !.failed = TRUE, !.held = None]
  /\ Calm
  /\ UNCHANGED <<listener, server, socket, fired>>

\* The user restarts the session: the old system is dropped, its thread joined, and
\* a new one started, which may not reach the display.
AppRestarts == \E reached \in BOOLEAN :
  /\ app.asked = None
  /\ app' = [held |-> None, asked |-> None, failed |-> FALSE, events |-> <<>>]
  /\ listener' = [Listener EXCEPT !.on = reached]
  /\ server' = [server EXCEPT !.grabs = {}, !.active = None]
  /\ socket' = <<>>
  /\ fired' = {}
  /\ Fault

-----------------------------------------------------------------------------
(* The server, the keyboard and other programs.                            *)

Room == Len(socket) < MaxSocket

\* A press, new or repeated: it activates a passive grab, unless one is active.
Routed(c, state) ==
  LET ours == server.active # None \/ <<c, state>> \in server.grabs
  IN /\ server' = [server EXCEPT !.down = @ \cup {c},
                                 !.active = IF ours /\ @ = None THEN c ELSE @]
     /\ socket' = IF ours THEN Append(socket, [kind |-> "press", code |-> c,
                                               state |-> state]) ELSE socket

KeyPressed == \E c \in Codes \ server.down, state \in PressStates :
  /\ Room
  /\ \A i \in DOMAIN socket : socket[i].kind = "press" => socket[i].code # c
  /\ Routed(c, state)
  /\ fired' = fired \ {c}
  /\ Calm
  /\ UNCHANGED <<app, listener>>

KeyRepeats == \E c \in server.down, state \in PressStates :
  /\ Room
  /\ Routed(c, state)
  /\ Calm
  /\ UNCHANGED <<app, listener, fired>>

\* The active grab ends with its key; until then the releases of all keys are ours.
KeyReleased == \E c \in server.down :
  /\ Room
  /\ server' = [server EXCEPT !.down = @ \ {c}, !.active = IF @ = c THEN None ELSE @]
  /\ socket' = IF server.active # None THEN Append(socket, [kind |-> "release", code |-> c])
               ELSE socket
  /\ Calm
  /\ UNCHANGED <<app, listener, fired>>

LayoutChanges == \E layout \in Layouts \ {server.layout} :
  /\ Room
  /\ Fault
  /\ server' = [server EXCEPT !.layout = layout]
  /\ socket' = IF listener.on THEN Append(socket, [kind |-> "mapping"]) ELSE socket
  /\ UNCHANGED <<app, listener, fired>>

ForeignGrab == \E combo \in (Codes \X PressStates) \ (server.grabs \cup server.foreign) :
  /\ Fault
  /\ server' = [server EXCEPT !.foreign = @ \cup {combo}]
  /\ UNCHANGED <<app, listener, socket, fired>>

-----------------------------------------------------------------------------
Init ==
  /\ app = [held |-> None, asked |-> None, failed |-> FALSE, events |-> <<>>]
  /\ listener = Listener
  /\ server \in [grabs : {{}}, foreign : {{}}, active : {None}, down : {{}}, layout : Layouts]
  /\ socket = <<>>
  /\ fired = {}
  /\ faults = 0

ListenerNext == ListenerRegisters \/ ListenerFails \/ ListenerReads
AppNext == AppRegisters \/ AppRegistersInVain \/ AppPolls \/ AppRestarts
ServerNext == KeyPressed \/ KeyRepeats \/ KeyReleased \/ LayoutChanges \/ ForeignGrab
Next == ListenerNext \/ AppNext \/ ServerNext

Spec == Init /\ [][Next]_vars

\* The thread looks at its channel and socket every 5 ms, the runner polls.
Fairness ==
  /\ WF_vars(ListenerRegisters \/ ListenerReads)
  /\ WF_vars(AppPolls)
FairSpec == Spec /\ Fairness

-----------------------------------------------------------------------------
\* The set the App holds is grabbed as the present layout spells it, and no more is;
\* a refused set changes nothing, and only a layout the listener has not read of
\* yet makes a difference.
HeldIsGrabbed ==
  /\ listener.on /\ app.held # None
     /\ (\A i \in DOMAIN socket : socket[i].kind # "mapping")
       => server.grabs = CombosOf(Resolved(app.held, server.layout))
  /\ ~listener.on => server.grabs = {}

\* What is grabbed for a hotkey is pressed with its modifiers, types its symbol on
\* some level, and is grabbed whatever the locks are.
GrabsSpellHotkeys ==
  \A grab \in listener.grabs : \E layout \in Layouts :
    LET c == grab[1][1]
        state == grab[1][2]
        h == grab[2]
    IN /\ Resolved(listener.accepted, layout) = listener.grabs
       /\ \A n \in h.mods : state \cap layout.slots[n] # {}
       /\ \E level \in DOMAIN layout.syms[c] : layout.syms[c][level] = h.sym
       /\ \A lock \in Locks(layout) :
            (\A n \in h.mods : lock \notin layout.slots[n])
              => /\ <<<<c, state \cup {lock}>>, h>> \in listener.grabs
                 /\ <<<<c, state \ {lock}>>, h>> \in listener.grabs

\* A hold of a key acts once at most, however often the key repeats.
OncePerHold ==
  [][Len(app'.events) > Len(app.events) => Head(socket).code \notin fired]_vars

\* A listener that ended is noticed: the App does not believe in a lost set for ever.
FailureNoticed == app.held # None /\ ~listener.on ~> app.held = None
=============================================================================
