------------------------------ MODULE Keyboard ------------------------------
(* Which key of the keyboard a KeyCode reads.  The SFML back end casts the   *)
(* number of the KeyCode to SFML's own enumeration, so the two orders must   *)
(* agree; the SDL back end has a switch, whose default is the key 0.  A key  *)
(* of the keyboard is named by the KeyCode whose comment describes it; the   *)
(* edges of presses and releases are module Input's.                         *)
EXTENDS Naturals, Sequences, FiniteSets, SequencesExt

CONSTANTS
    Backend,        \* "sfml" or "sdl"
    MaxHeld         \* bound: keys held at the same time

KeyboardAssumption == Backend \in {"sfml", "sdl"} /\ MaxHeld \in Nat

Letters == <<"A", "B", "C", "D", "E", "F", "G", "H", "I", "J", "K", "L", "M",
             "N", "O", "P", "Q", "R", "S", "T", "U", "V", "W", "X", "Y", "Z">>
Digits == <<"Num0", "Num1", "Num2", "Num3", "Num4", "Num5", "Num6", "Num7",
            "Num8", "Num9">>
Modifiers == <<"Escape", "LControl", "LShift", "LAlt", "LSystem", "RControl",
               "RShift", "RAlt", "RSystem", "Menu">>
Marks == <<"LBracket", "RBracket", "Semicolon", "Comma", "Period", "Quote",
           "Slash", "Backslash", "Tilde", "Equal", "Hyphen">>
Editing == <<"Space", "Enter", "Backspace", "Tab", "PageUp", "PageDown", "End",
             "Home", "Insert", "Delete", "Add", "Subtract", "Multiply",
             "Divide", "Left", "Right", "Up", "Down">>
Numpad == <<"Numpad0", "Numpad1", "Numpad2", "Numpad3", "Numpad4", "Numpad5",
            "Numpad6", "Numpad7", "Numpad8", "Numpad9">>
Functionals == <<"F1", "F2", "F3", "F4", "F5", "F6", "F7", "F8", "F9", "F10",
                 "F11", "F12", "F13", "F14", "F15", "Pause">>

(* KeyCode, in the order of its values; getAllKeys.                          *)
KeyCodes == Letters \o Digits \o Modifiers \o Marks \o Editing \o Numpad
            \o Functionals
KeyCode == ToSet(KeyCodes)
Value(code) == CHOOSE i \in DOMAIN KeyCodes : KeyCodes[i] = code

(* sf::Keyboard::Key, whose order the cast relies on.                        *)
SfKeys == Letters \o Digits \o Modifiers \o Marks \o Editing \o Numpad
          \o Functionals

(* toLib of sfml/.                                                           *)
CastToLib(code) == SfKeys[Value(code)]

(* The cases of the switch that do not name the key of their KeyCode.        *)
SharedScancode == [LSystem |-> "LControl", RSystem |-> "RControl",
                   Subtract |-> "Hyphen"]

(* Mutant: a function key is missing in the switch, too.                     *)
NoScancodeF9 == {"Hyphen", "Add", "Multiply", "Divide", "F9"}

(* The values without a case: SDL_SCANCODE_0.                                *)
NoScancode == {"Hyphen", "Add", "Multiply", "Divide"}

(* toLib of sdl/.                                                            *)
SwitchToLib(code) ==
    CASE code \in NoScancode -> "Num0"
      [] code \in DOMAIN SharedScancode -> SharedScancode[code]
      [] OTHER -> code

ToLib(code) == IF Backend = "sfml" THEN CastToLib(code) ELSE SwitchToLib(code)

VARIABLES
    held,       \* keys of the keyboard that are down
    pressed     \* KeyboardInput::m_pressed: the codes that are

vars == <<held, pressed>>

Init == held = {} /\ pressed = {}

(* The player presses or releases a key.                                     *)
Press == \E key \in ToSet(SfKeys) \ held :
    /\ Cardinality(held) < MaxHeld
    /\ held' = held \cup {key}
    /\ UNCHANGED pressed

Release == \E key \in held : held' = held \ {key} /\ UNCHANGED pressed

(* updateKeys: libKeyValue of every code.                                    *)
UpdateKeys ==
    /\ pressed' = {code \in KeyCode : ToLib(code) \in held}
    /\ UNCHANGED held

Next == Press \/ Release \/ UpdateKeys

Spec == Init /\ [][Next]_vars

-----------------------------------------------------------------------------
(* The keys the program asks for, in game, placement and debug windows, are  *)
(* pressed when their own key is down and by no other key.                   *)
UsedKeys == {"LShift", "Escape", "M", "U", "F9", "End", "Home"}
UsedKeysApartStep ==
  UpdateKeys => pressed' \cap UsedKeys = held \cap UsedKeys
UsedKeysApart == [][UsedKeysApartStep]_vars

=============================================================================
