---------------------------- MODULE InputHelper ----------------------------
(* What the keyboard, the mouse and the gamepad of the engine share: the     *)
(* four flags they keep for every key or button, and the one function that   *)
(* refreshes them from the device (input/input_helper.hpp).                  *)
EXTENDS Integers

(* The flags of one key or button. *)
Flags == [pressed : BOOLEAN, released : BOOLEAN,
          justPressed : BOOLEAN, justReleased : BOOLEAN]

(* After the constructor or a reset: a key is neither pressed nor released. *)
NoFlags == [pressed |-> FALSE, released |-> FALSE,
            justPressed |-> FALSE, justReleased |-> FALSE]

(* A mutant: the level is stored before the edges are taken. *)
UpdateLevelsFirst(f, held) ==
    [pressed |-> held, released |-> ~held, justPressed |-> FALSE, justReleased |-> FALSE]

(* inputhelper::updateValues for one key the device reports as held or not:  *)
(* the edges are taken against the pressed flag of the update before.        *)
UpdateValues(f, held) ==
    [pressed      |-> held,
     released     |-> ~held,
     justPressed  |-> held /\ ~f.pressed,
     justReleased |-> ~held /\ f.pressed]
=============================================================================
