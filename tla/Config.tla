------------------------------- MODULE Config -------------------------------
(***************************************************************************)
(* The config file, from what is written in it to what a key does:         *)
(* validation (config.rs), the hotkeys that the adapter of the desktop     *)
(* captures for it (KeyNames), the lookup of a hotkey that was pressed or  *)
(* sent with `dispatch` (dispatcher.rs), and `init`, which writes the      *)
(* starter config (application/cli/init.rs) while the user may be editing. *)
(* How the App reloads and registers in time is AppRuntime; here a reload  *)
(* is one step.  TOML syntax is left out.                                  *)
(***************************************************************************)
EXTENDS KeyNames, FiniteSets

CONSTANTS
  Files,    \* what the user may write: zones and lines
  Texts,    \* hotkeys as `dispatch` may be given them
  Pressed,  \* keys that the user may press together, in their one spelling
  Chords    \* modifiers for `init --chord`

ASSUME FilesOK ==
  \A text \in Files :
    text.lines \in Seq([hotkey : Seq(STRING), action : [type : STRING, zone : STRING]])

BuiltInZones ==
  {"left-half", "right-half", "top-half", "bottom-half", "top-left", "top-right",
   "bottom-left", "bottom-right", "left-third", "center-third", "right-third",
   "left-two-thirds", "right-two-thirds", "maximize"}

Desktops == {"x11", "windows", "macos", "gnome", "kde", "scripted"}

VARIABLES
  desktop,  \* the hotkey adapter; "scripted" desktops capture nothing
  file,     \* the config file, and who wrote it
  loaded,   \* what of it was loaded last
  config,   \* the App's config
  held,     \* the chords that are captured, and the hotkey each reports
  ran,      \* the last hotkey that was asked for, and what it did
  init      \* a run of `init`

configVars == <<desktop, file, loaded, config, held, ran, init>>

Empty == [zones |-> {}, lines |-> <<>>]
Missing == [by |-> "nobody", text |-> Empty]
Nothing == [type |-> "nothing", zone |-> ""]
Mangled == [zones |-> {}, lines |-> <<[hotkey |-> <<>>, action |-> Nothing]>>] \* no TOML
NotRun == [asked |-> Meaning(<<>>), lines |-> <<>>, did |-> Nothing]
NoInit == [at |-> "off", force |-> FALSE, chord |-> <<>>]

-----------------------------------------------------------------------------
(* validate_and_normalize_app_config.                                      *)

ZoneFits(z) ==
  /\ z.width \in 1 .. 100 /\ z.height \in 1 .. 100
  /\ z.x + z.width <= 100 /\ z.y + z.height <= 100

Zones(text) == { [z EXCEPT !.name = Folded(z.name)] : z \in text.zones }
ZonesAccepted(text) ==
  /\ \A z \in Zones(text) : z.name \notin BuiltInZones \cup {""} /\ ZoneFits(z)
  /\ \A y, z \in text.zones : Folded(y.name) = Folded(z.name) => y = z

NormalizedAction(action) == [action EXCEPT !.zone = Folded(action.zone)]
NormalizedBindings(text) ==
  [i \in DOMAIN text.lines |->
     [hotkey |-> Normalized(text.lines[i].hotkey),
      action |-> NormalizedAction(text.lines[i].action)]]

ActionAccepted(action, text) ==
  action.type = "move-to-zone" =>
    action.zone \in BuiltInZones \cup { z.name : z \in Zones(text) }

BindingsAccepted(text) ==
  LET bindings == NormalizedBindings(text)
  IN /\ \A i \in DOMAIN bindings :
          bindings[i].hotkey # Malformed /\ ActionAccepted(bindings[i].action, text)
     /\ Cardinality({ bindings[i].hotkey : i \in DOMAIN bindings }) = Len(bindings)

Accepted(text) == ZonesAccepted(text) /\ BindingsAccepted(text)
Parsed(text) == [zones |-> Zones(text), bindings |-> NormalizedBindings(text)]

\* The 18 bindings of starter_config under a chord.
StarterText(chord) ==
  LET zones == <<<<"Left", "left-half">>, <<"Right", "right-half">>, <<"Up", "top-half">>,
                 <<"Down", "bottom-half">>, <<"U", "top-left">>, <<"I", "top-right">>,
                 <<"J", "bottom-left">>, <<"K", "bottom-right">>, <<"D", "left-third">>,
                 <<"F", "center-third">>, <<"G", "right-third">>, <<"E", "left-two-thirds">>,
                 <<"T", "right-two-thirds">>, <<"Return", "maximize">>>>
      others == <<<<<<"C">>, "center">>, <<<<"Backspace">>, "restore">>,
                  <<<<"Shift", "Right">>, "move-to-next-display">>,
                  <<<<"Shift", "Left">>, "move-to-previous-display">>>>
  IN [zones |-> {},
      lines |-> [i \in DOMAIN zones |->
                   [hotkey |-> chord \o <<zones[i][1]>>,
                    action |-> [type |-> "move-to-zone", zone |-> zones[i][2]]]]
             \o [i \in DOMAIN others |->
                   [hotkey |-> chord \o others[i][1],
                    action |-> [type |-> others[i][2], zone |-> ""]]]]

-----------------------------------------------------------------------------
(* What the App and its adapter make of it.                                *)

Names(text) == [i \in DOMAIN text.lines |-> Normalized(text.lines[i].hotkey)]
SetTaken(names) == desktop # "scripted" => \A name \in Range(names) : Takes(desktop, name)

\* Of two hotkeys on one chord the adapter's table keeps the last.
Captured(names) ==
  LET grabs == { [place |-> i, chord |-> Chord(desktop, names[i]), name |-> names[i]] :
                 i \in DOMAIN names }
      last == { g \in grabs : \A h \in grabs : h.chord = g.chord => h.place <= g.place }
  IN IF desktop = "scripted" THEN {} ELSE { [chord |-> g.chord, name |-> g.name] : g \in last }

\* A file that is not accepted, or whose hotkeys are refused, leaves all as it was; one
\* that is missing is an empty one.
Load ==
  /\ Accepted(file.text) /\ SetTaken(Names(file.text))
  /\ loaded' = file.text /\ config' = Parsed(file.text)
  /\ held' = Captured(Names(file.text)) /\ ran' = NotRun
  /\ UNCHANGED <<desktop, file, init>>

\* dispatch_hotkey; Nothing is NoBindingForHotkey.
Dispatched(hotkey, bindings) ==
  LET name == Normalized(hotkey)
      found == { i \in DOMAIN bindings : bindings[i].hotkey = name }
  IN IF name = Malformed \/ found = {} THEN Nothing
     ELSE bindings[CHOOSE i \in found : \A j \in found : i <= j].action

\* In the session, for one who types there or for the key of a scripted compositor.
Dispatch == \E hotkey \in Texts :
  /\ ran' = [asked |-> Meaning(hotkey), lines |-> loaded.lines,
             did |-> Dispatched(hotkey, config.bindings)]
  /\ UNCHANGED <<desktop, file, loaded, config, held, init>>

\* By an App of its own, which loads what the file holds now, or has no bindings.
DispatchAlone == \E hotkey \in Texts :
  /\ desktop # "scripted"
  /\ LET read == IF Accepted(file.text) THEN file.text ELSE Empty
     IN ran' = [asked |-> Meaning(hotkey), lines |-> read.lines,
                did |-> Dispatched(hotkey, NormalizedBindings(read))]
  /\ UNCHANGED <<desktop, file, loaded, config, held, init>>

\* The user presses a chord, and dispatch_next_hotkey takes the press.  One that is not
\* captured goes to the focused program.
PressKeys == \E hotkey \in Pressed :
  /\ desktop # "scripted" /\ Takes(desktop, hotkey)
  /\ LET hits == { h \in held : h.chord = Chord(desktop, hotkey) }
     IN ran' = [asked |-> Meaning(hotkey), lines |-> loaded.lines,
                did |-> IF hits = {} THEN Nothing
                        ELSE Dispatched((CHOOSE h \in hits : TRUE).name, config.bindings)]
  /\ UNCHANGED <<desktop, file, loaded, config, held, init>>

\* The user removes the file, or saves another: an editor puts it in place of the old
\* one, where an `init` that has opened that writes on into a file that is no longer
\* there, or writes into the file that is there, which `init` then shares.  What was run
\* before is of no interest from here on.
Edit ==
  /\ file' \in [by : {"user"}, text : Files] \cup {Missing}
  /\ init' \in IF init.at \notin {"opened", "shared"} THEN {init}
              ELSE {NoInit} \cup {[init EXCEPT !.at = "shared"] : f \in {file'} \ {Missing}}
  /\ ran' = NotRun
  /\ UNCHANGED <<desktop, loaded, config, held>>

-----------------------------------------------------------------------------
(* `window_zones init`: write_starter_config.                               *)

\* What it would write is validated first.
StarterChords == { chord \in Chords : Accepted(StarterText(chord)) }

InitChecks == \E chord \in StarterChords, force \in BOOLEAN :
  /\ init = NoInit /\ (file = Missing \/ force)
  /\ init' = [at |-> "checked", force |-> force, chord |-> chord]
  /\ UNCHANGED <<desktop, file, loaded, config, held, ran>>

\* A file that has come since the check is left alone, unless it is forced.
InitOpens ==
  /\ init.at = "checked"
  /\ IF file = Missing \/ init.force
     THEN file' = [by |-> "init", text |-> Empty] /\ init' = [init EXCEPT !.at = "opened"]
     ELSE init' = NoInit /\ UNCHANGED file
  /\ UNCHANGED <<desktop, loaded, config, held, ran>>

\* Over what a user has saved into the open file meanwhile.  The end of a longer text
\* stays behind, and the file does not load.
InitWrites ==
  /\ \/ init.at = "opened" /\ file' = [by |-> "init", text |-> StarterText(init.chord)]
     \/ init.at = "shared" /\ file' \in {[by |-> "init", text |-> StarterText(init.chord)],
                                          [by |-> "both", text |-> Mangled]}
  /\ init' = NoInit
  /\ UNCHANGED <<desktop, loaded, config, held, ran>>

InitDies ==
  /\ init.at # "off" /\ init' = NoInit
  /\ UNCHANGED <<desktop, file, loaded, config, held, ran>>

-----------------------------------------------------------------------------
ConfigInit ==
  /\ desktop \in Desktops /\ file = Missing
  /\ loaded = Empty /\ config = Parsed(Empty) /\ held = {}
  /\ ran = NotRun /\ init = NoInit

ConfigNext ==
  \/ Edit \/ Load \/ Dispatch \/ DispatchAlone \/ PressKeys
  \/ InitChecks \/ InitOpens \/ InitWrites \/ InitDies

ConfigSpec == ConfigInit /\ [][ConfigNext]_configVars

-----------------------------------------------------------------------------
\* Every hotkey the App holds is in its one spelling, and what is captured is reported
\* as a hotkey of the config.
ConfigTypeOK ==
  /\ desktop \in Desktops
  /\ \A i \in DOMAIN config.bindings :
       Normalized(config.bindings[i].hotkey) = config.bindings[i].hotkey
  /\ \A h \in held : \E i \in DOMAIN config.bindings : config.bindings[i].hotkey = h.name
  /\ file.by = "nobody" => file = Missing
  /\ init.at \in {"off", "checked", "opened", "shared"}

\* Whatever order, case, alias or repetition of modifiers the user wrote a hotkey with,
\* pressing its keys, or naming them to `dispatch` in any other way, does what is written
\* beside it and nothing else: spellings never divide one chord, and no desktop's key
\* codes join two.
WhatIsWrittenRuns ==
  LET bound == { i \in DOMAIN ran.lines : Meaning(ran.lines[i].hotkey) = ran.asked }
  IN IF bound = {} THEN ran.did = Nothing
     ELSE \A i \in bound : ran.did = NormalizedAction(ran.lines[i].action)

\* The vocabulary of config.rs is that of every adapter: a set that the config accepts is
\* refused for its spelling nowhere but on macOS, and there for the eight keys that Apple
\* keyboards have no code for.
NamesAreShared ==
  Accepted(file.text) /\ ~SetTaken(Names(file.text)) =>
    /\ desktop = "macos"
    /\ \E name \in Range(Names(file.text)) :
         Last(name) \in {"f21", "f22", "f23", "f24", "printscreen", "scrolllock", "numlock", "pause"}

\* What Placement takes for granted: the zone of a binding exists when its hotkey comes,
\* and lies within the usable area.
BoundZonesExist ==
  \A i \in DOMAIN config.bindings :
    LET action == config.bindings[i].action
    IN action.type = "move-to-zone" /\ action.zone \notin BuiltInZones =>
         \E z \in config.zones : /\ z.name = action.zone
                                 /\ z.x + z.width <= 100 /\ z.y + z.height <= 100
                                 /\ z.width > 0 /\ z.height > 0

\* `init` writes no file that would not load, at no moment of its writing, even if the
\* chord it was given holds a modifier that the starter config adds.
StarterLoads == file.by = "init" => Accepted(file.text)

\* A config that the user saved, even between the check of `init` and its opening of the
\* file, is not replaced without --force.  One save is written over: into the file that
\* `init` has just made and not filled yet.
UserFilesStay ==
  file.by = "user" /\ file'.by \in {"init", "both"} => init.force \/ init.at = "shared"
=============================================================================
