----------------------------- MODULE SiKeyboard -----------------------------
(***************************************************************************)
(* The handlers of SiInput under a player: keys go down, repeat while they *)
(* are held (SDL sends SDL_KEYDOWN again) and come up, any number held at  *)
(* a time, and the window may be closed at any moment.                     *)
(***************************************************************************)
EXTENDS SiInput

VARIABLE held   \* the keys that are down
keyboardVars == <<inputVars, held>>

KeyboardInit == InputInit /\ held = {}

Press(key) ==
  /\ key \notin held
  /\ handle_keydown(key)
  /\ held' = held \union {key}

Repeat(key) ==
  /\ key \in held
  /\ handle_keydown(key)
  /\ UNCHANGED held

Release(key) ==
  /\ key \in held
  /\ handle_keyup(key)
  /\ held' = held \ {key}

CloseWindow == Quit /\ UNCHANGED held

KeyboardNext ==
  \/ \E key \in Keys : Press(key) \/ Repeat(key) \/ Release(key)
  \/ CloseWindow

KeyboardSpec == KeyboardInit /\ [][KeyboardNext]_keyboardVars

-----------------------------------------------------------------------------
\* The two control keys a bit may stand for.
Holders(bit) == {key \in ControlKeys : BitOfKey[key] = bit}

(* A port never shows a control that no key is held for: after any order   *)
(* of presses, repeats and releases of several keys no control is stuck.   *)
NoStuckControl == \A bit \in inp1 \union inp2 : Holders(bit) \intersect held # {}

(* A held control key is shown, in the ports of both players if it moves   *)
(* the ship, so long as no other key for the same bit is on the keyboard:  *)
(* releases of other keys, repeats and a closed window do not hide it.     *)
HeldKeyShows ==
  \A key \in held \intersect ControlKeys :
    Holders(BitOfKey[key]) \intersect Keys = {key} =>
      /\ BitOfKey[key] \in inp1
      /\ BitOfKey[key] \in Shared => BitOfKey[key] \in inp2

(* "ESC: Quit" (README.rst): pressing ESC asks the main loop to end.       *)
EscQuits == [][Press("escape") => exit_flag']_keyboardVars
=============================================================================
