------------------------------ MODULE KeyNames ------------------------------
(***************************************************************************)
(* The names of hotkeys: the vocabulary of config.rs, and the codes that   *)
(* the parsers of the hotkey adapters give its keys (x11_window_system/    *)
(* hotkeys.rs, hotkey_system.rs, the GNOME extension, the KWin script).    *)
(* The file and the command line write a hotkey as tokens in any order,    *)
(* case and spacing; the rest of the program knows one spelling of each.   *)
(* Keys are in one order, that of Keys, in every table.                    *)
(***************************************************************************)
EXTENDS Integers, Sequences, SequencesExt, Functions

CONSTANT Spellings  \* written tokens, and the trimmed lower-case word of each

Letters == <<"a", "b", "c", "d", "e", "f", "g", "h", "i", "j", "k", "l", "m",
             "n", "o", "p", "q", "r", "s", "t", "u", "v", "w", "x", "y", "z">>
Digits == <<"0", "1", "2", "3", "4", "5", "6", "7", "8", "9">>
FunctionKeys ==
  <<"f1", "f2", "f3", "f4", "f5", "f6", "f7", "f8", "f9", "f10", "f11", "f12", "f13", "f14",
    "f15", "f16", "f17", "f18", "f19", "f20", "f21", "f22", "f23", "f24">>
NamedKeys ==
  <<"escape", "return", "space", "tab", "backspace", "delete", "insert", "home", "end",
    "pageup", "pagedown", "left", "right", "up", "down", "minus", "equal", "comma", "dot",
    "slash", "quote", "semicolon", "leftbracket", "rightbracket", "backslash", "backquote",
    "printscreen", "scrolllock", "capslock", "numlock", "pause">>
Keys == Letters \o Digits \o FunctionKeys \o NamedKeys
Place == [key \in Range(Keys) |-> CHOOSE i \in DOMAIN Keys : Keys[i] = key]

ModifierWords == {"alt", "ctrl", "shift", "cmd"}
IsModifier(word) == word \in ModifierWords
Words == Range(Keys) \cup ModifierWords

\* Other words for a token.
Alias ==
  [control |-> "ctrl", option |-> "alt", command |-> "cmd", meta |-> "cmd", super |-> "cmd",
   win |-> "cmd", windows |-> "cmd", esc |-> "escape", enter |-> "return",
   spacebar |-> "space", pgup |-> "pageup", page_up |-> "pageup", pgdn |-> "pagedown",
   page_dn |-> "pagedown", page_down |-> "pagedown", leftarrow |-> "left",
   left_arrow |-> "left", rightarrow |-> "right", right_arrow |-> "right", uparrow |-> "up",
   up_arrow |-> "up", downarrow |-> "down", down_arrow |-> "down", del |-> "delete",
   ins |-> "insert", period |-> "dot"]

\* A token that is a word already stays as it is.
Written == DOMAIN Spellings
OtherWords == DOMAIN Alias
ASSUME SpellingsOK == \A token \in Written \cap (Words \cup OtherWords) : Spellings[token] = token

Folded(token) == IF token \in Written THEN Spellings[token] ELSE token

Unknown == "unknown"
Canonical(token) ==
  LET word == Folded(token)
  IN IF word \in OtherWords THEN Alias[word] ELSE IF word \in Words THEN word ELSE Unknown

\* The tokens of a hotkey that are no modifiers; a hotkey has one.
KeyTokens(hotkey) == { i \in DOMAIN hotkey : ~IsModifier(Canonical(hotkey[i])) }
HasOneKey(hotkey) == LET keys == KeyTokens(hotkey) IN \E i \in keys : keys = {i}

\* Modifiers in the order of modifier_sort_key.
If(word, words) == IF word \in words THEN <<word>> ELSE <<>>
Ordered(words) == If("alt", words) \o If("ctrl", words) \o If("shift", words) \o If("cmd", words)

\* The one spelling of a hotkey, or Malformed: its modifiers in order and once, its key.
Malformed == <<>>

\* Mutant: the modifiers stay as they were written.
NormalizedAsWritten(hotkey) ==
  LET words == { Canonical(token) : token \in Range(hotkey) }
  IN IF Unknown \in words \/ ~HasOneKey(hotkey) THEN Malformed
     ELSE SelectSeq([i \in DOMAIN hotkey |-> Canonical(hotkey[i])], IsModifier)
          \o <<Canonical(hotkey[CHOOSE i \in KeyTokens(hotkey) : TRUE])>>

Normalized(hotkey) ==
  LET words == { Canonical(token) : token \in Range(hotkey) }
  IN IF Unknown \in words \/ ~HasOneKey(hotkey) THEN Malformed
     ELSE Ordered(words) \o <<Canonical(hotkey[CHOOSE i \in KeyTokens(hotkey) : TRUE])>>

-----------------------------------------------------------------------------
(* What each desktop calls the keys; NoCode where its keyboards lack one.   *)

NoCode == -1
From(first, count) == [i \in 1 .. count |-> first + i - 1]

X11Keysyms ==
  From(\h61, 26) \o From(\h30, 10) \o From(\hffbe, 24) \o
  <<\hff1b, \hff0d, \h20, \hff09, \hff08, \hffff, \hff63, \hff50, \hff57, \hff55, \hff56,
    \hff51, \hff53, \hff52, \hff54, \h2d, \h3d, \h2c, \h2e, \h2f, \h27, \h3b, \h5b, \h5d,
    \h5c, \h60, \hff61, \hff14, \hffe5, \hff7f, \hff13>>

WindowsCodes ==
  From(\h41, 26) \o From(\h30, 10) \o From(\h70, 24) \o
  <<\h1b, \h0d, \h20, \h09, \h08, \h2e, \h2d, \h24, \h23, \h21, \h22,
    \h25, \h27, \h26, \h28, \hbd, \hbb, \hbc, \hbe, \hbf, \hde, \hba, \hdb, \hdd,
    \hdc, \hc0, \h2c, \h91, \h14, \h90, \h13>>

MacCodes ==
  <<0, 11, 8, 2, 14, 3, 5, 4, 34, 38, 40, 37, 46, 45, 31, 35, 12, 15, 1, 17, 32, 9, 13, 7, 16, 6,
    29, 18, 19, 20, 21, 23, 22, 26, 28, 25,
    122, 120, 99, 118, 96, 97, 98, 100, 101, 109, 103, 111, 105, 107, 113, 106, 64, 79, 80, 90,
    NoCode, NoCode, NoCode, NoCode,
    53, 36, 49, 48, 51, 117, 114, 115, 119, 116, 121, 123, 124, 126, 125, 27, 24, 43, 47, 44,
    39, 41, 33, 30, 42, 50, NoCode, NoCode, 57, NoCode, NoCode>>

KdeCodes ==
  From(\h41, 26) \o From(\h30, 10) \o From(\h01000030, 24) \o
  <<\h01000000, \h01000004, \h20, \h01000001, \h01000003, \h01000007, \h01000006, \h01000010,
    \h01000011, \h01000016, \h01000017, \h01000012, \h01000014, \h01000013, \h01000015,
    \h2d, \h3d, \h2c, \h2e, \h2f, \h27, \h3b, \h5b, \h5d, \h5c, \h60, \h01000009,
    \h01000026, \h01000024, \h01000025, \h01000008>>

\* GTK knows its keys by names of its own.
GnomeNames ==
  Letters \o Digits \o
  <<"F1", "F2", "F3", "F4", "F5", "F6", "F7", "F8", "F9", "F10", "F11", "F12", "F13", "F14",
    "F15", "F16", "F17", "F18", "F19", "F20", "F21", "F22", "F23", "F24">> \o
  <<"Escape", "Return", "space", "Tab", "BackSpace", "Delete", "Insert", "Home", "End",
    "Page_Up", "Page_Down", "Left", "Right", "Up", "Down", "minus", "equal", "comma", "period",
    "slash", "apostrophe", "semicolon", "bracketleft", "bracketright", "backslash", "grave",
    "Print", "Scroll_Lock", "Caps_Lock", "Num_Lock", "Pause">>

Codes == [x11 |-> X11Keysyms, windows |-> WindowsCodes, macos |-> MacCodes,
          kde |-> KdeCodes, gnome |-> GnomeNames]
KeyCode(desktop, key) == Codes[desktop][Place[key]]

\* What an adapter captures for a spelling, and whether its parser takes it.
Chord(desktop, name) == [mods |-> Range(Front(name)), key |-> KeyCode(desktop, Last(name))]
HasKey(desktop, key) == desktop # "gnome" => KeyCode(desktop, key) # NoCode
Takes(desktop, name) ==
  name # Malformed /\ Normalized(name) = name /\ HasKey(desktop, Last(name))

\* The chord of a written hotkey for the one who presses it; one that names a key twice
\* is none.
Meaning(hotkey) ==
  LET words == { Canonical(token) : token \in Range(hotkey) }
  IN [mods |-> words \cap ModifierWords, keys |-> words \ ModifierWords,
      isOne |-> HasOneKey(hotkey)]
=============================================================================
