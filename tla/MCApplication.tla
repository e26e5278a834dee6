--------------------------- MODULE MCApplication ---------------------------
(* Constants for TLC: the processes of Session, what a user writes into the *)
(* config of Config, the paths of Launch.                                   *)
EXTENDS Application

CONSTANTS p1, p2

\* Written tokens; " " is a blank one.
MCSpellings ==
  [w \in {"Ctrl", "CONTROL", " Alt", "Super", "Left", "Right", "Up", "Down", "U", "I", "J", "K",
          "D", "F", "G", "E", "T", "C", "Return", "Backspace", "Shift", "Wide", "Quote ", " "} |->
     CASE w = "Ctrl" -> "ctrl" [] w = "CONTROL" -> "control" [] w = " Alt" -> "alt"
       [] w = "Super" -> "super" [] w = "Left" -> "left" [] w = "Right" -> "right"
       [] w = "Up" -> "up" [] w = "Down" -> "down" [] w = "U" -> "u" [] w = "I" -> "i"
       [] w = "J" -> "j" [] w = "K" -> "k" [] w = "D" -> "d" [] w = "F" -> "f"
       [] w = "G" -> "g" [] w = "E" -> "e" [] w = "T" -> "t" [] w = "C" -> "c"
       [] w = "Return" -> "return" [] w = "Backspace" -> "backspace" [] w = "Shift" -> "shift"
       [] w = "Wide" -> "wide" [] w = "Quote " -> "quote" [] OTHER -> ""]
Move(zone) == [type |-> "move-to-zone", zone |-> zone]
Do(type) == [type |-> type, zone |-> ""]
Line(hotkey, action) == [hotkey |-> hotkey, action |-> action]
Zone(name, x, y, w, h) == [name |-> name, x |-> x, y |-> y, width |-> w, height |-> h]
Text(zones, lines) == [zones |-> zones, lines |-> lines]
Wide == Zone("Wide", 10, 0, 80, 100)
MCFiles ==
  { Text({}, <<Line(<<"Ctrl", " Alt", "Right">>, Move("right-half")), Line(<<" Alt", "CONTROL", "Quote ">>, Do("center"))>>),
    Text({}, <<Line(<<"Ctrl", " Alt", "Right">>, Move("right-half")), Line(<<"alt", "ctrl", "ctrl", "rightarrow">>, Do("center"))>>),
    Text({}, <<Line(<<"Ctrl", " Alt">>, Do("center"))>>),
    Text({}, <<Line(<<"Super", "f13">>, Do("restore")), Line(<<"ctrl", "shift", "pause">>, Do("center"))>>),
    Text({Wide}, <<Line(<<"Super", "k">>, Move("wide"))>>),
    Text({Wide, Zone("wide", 0, 0, 50, 50)}, <<>>),
    Text({Zone("tall", 50, 0, 60, 100)}, <<Line(<<"Super", "k">>, Move("tall"))>>),
    Text({}, <<Line(<<"Super", "k">>, Move("wide"))>>),
    Text({Zone("maximize", 0, 0, 50, 50)}, <<>>) }
MCTexts ==
  { <<"right", "ctrl", "option">>, <<"Ctrl", "alt", "quote">>, <<"win", "f13">>,
    <<"Shift", "control", "pause">>, <<"ctrl", "super", "Shift", "Left">>, <<"ctrl", "alt">>,
    <<"k", "Super", "K">> }
MCPressed == { <<"alt", "ctrl", "right">>, <<"alt", "ctrl", "quote">>, <<"cmd", "k">>, <<"cmd", "f13">>, <<"ctrl", "shift", "cmd", "left">> }
MCChords == { <<"Ctrl", "Super">>, <<"Ctrl", "Shift">> }

\* Two paths of one file, and another file.
MCTarget == [c \in {"config", "link", "other"} |-> IF c = "other" THEN "other" ELSE "config"]
=============================================================================
