------------------------------- MODULE SiInput ------------------------------
(***************************************************************************)
(* The keyboard of space-invaders.c: what the events of SDL do to the two  *)
(* input ports the game reads and to the flags of the main loop.  A port   *)
(* is the set of its one bits.                                             *)
(***************************************************************************)
EXTENDS Integers

CONSTANT Keys   \* the keys of the keyboard that are used

ControlKeys == {"3", "2", "1", "space", "a", "left", "d", "right"}

ASSUME KeysAssumption == Keys \subseteq ControlKeys \union {"escape", "e", "q", "other"}

VARIABLES inp1, inp2, exit_flag, pause_flag, color_flag
inputVars == <<inp1, inp2, exit_flag, pause_flag, color_flag>>

\* The bit of a control key.  The keys of both players move the same ship.
BitOfKey ==
  [key \in ControlKeys |->
     CASE key = "3" -> 0 [] key = "2" -> 1 [] key = "1" -> 2
       [] key = "space" -> 4
       [] key \in {"a", "left"} -> 5
       [] key \in {"d", "right"} -> 6]

\* Bits 4, 5 and 6 are set and cleared in both ports.
Shared == {4, 5, 6}

\* spaceinvaders_create: calloc, then color_flag = true.
InputInit ==
  /\ inp1 = {} /\ inp2 = {}
  /\ exit_flag = FALSE /\ pause_flag = FALSE
  /\ color_flag = TRUE

\* Fault: a repeated key toggles its bits.
handle_keydown_toggles(key) ==
  LET bits == IF key \in ControlKeys THEN {BitOfKey[key]} ELSE {}
  IN  /\ inp1' = (inp1 \union bits) \ (inp1 \intersect bits)
      /\ inp2' = (inp2 \union (bits \intersect Shared)) \ (inp2 \intersect bits)
      /\ UNCHANGED <<exit_flag, pause_flag, color_flag>>

\* spaceinvaders_handle_keydown.
handle_keydown(key) ==
  LET bits == IF key \in ControlKeys THEN {BitOfKey[key]} ELSE {}
  IN  /\ inp1' = inp1 \union bits
      /\ inp2' = inp2 \union (bits \intersect Shared)
      /\ exit_flag' = (key # "escape" /\ exit_flag)
      /\ color_flag' = IF key = "e" THEN color_flag = TRUE ELSE color_flag
      /\ pause_flag' = IF key = "q" THEN ~pause_flag ELSE pause_flag

\* Fault: the case of SPACE is missing.
handle_keyup_no_space(key) ==
  LET bits == IF key \in ControlKeys \ {"space"} THEN {BitOfKey[key]} ELSE {}
  IN  /\ inp1' = inp1 \ bits
      /\ inp2' = inp2 \ (bits \intersect Shared)
      /\ UNCHANGED <<exit_flag, pause_flag, color_flag>>

\* spaceinvaders_handle_keyup.
handle_keyup(key) ==
  LET bits == IF key \in ControlKeys THEN {BitOfKey[key]} ELSE {}
  IN  /\ inp1' = inp1 \ bits
      /\ inp2' = inp2 \ (bits \intersect Shared)
      /\ UNCHANGED <<exit_flag, pause_flag, color_flag>>

\* case SDL_QUIT of the event loop.
Quit ==
  /\ exit_flag' = TRUE
  /\ UNCHANGED <<inp1, inp2, pause_flag, color_flag>>
=============================================================================
