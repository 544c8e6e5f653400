------------------------------- MODULE Button ------------------------------
(* The buttons of the engine (jt::Button) under the mouse of InputHelper:    *)
(* game objects of one state, updated in their order once a frame, before    *)
(* the input is refreshed.  Positions are pixels of one axis.                *)
EXTENDS InputHelper, FiniteSets, FiniteSetsExt, Sequences, SequencesExt

CONSTANTS
    Buttons,        \* the buttons in the order the state updates them
    Width,          \* their width in pixels
    Pixels,         \* where the mouse and the buttons can be
    StartAt,        \* [1 .. Len(Buttons) -> Pixels]
    Callback        \* what a click does: a set of <<button, "hide" | "show" |
                    \* "disable" | "enable">> for every button

Ids == 1 .. Len(Buttons)

VARIABLES
    mouse,          \* the flags of the left mouse button
    mouseX,         \* getMousePositionScreen
    pos,            \* the position of m_background
    iconPos,        \* the position of m_drawable
    overlayPos,     \* the position of m_disabledOverlay
    anim,           \* what m_background plays
    visible, active,
    clicks,         \* how often the callbacks of each button ran this frame
    pressedHere     \* was the mouse seen down since the state began

vars == <<mouse, mouseX, pos, iconPos, overlayPos, anim, visible, active, clicks, pressedHere>>

-----------------------------------------------------------------------------
(* A mutant: both borders belong to the button. *)
IsOverBorders(act, p, x) == act /\ x >= p /\ x <= p + Width

(* Button::isOver: an inactive button is never under the mouse, and the      *)
(* pixel on the left border belongs to the neighbour.                        *)
IsOver(act, p, x) == act /\ x > p /\ x <= p + Width

(* The state of the buttons while a frame goes through them. *)
Now == [visible |-> visible, active |-> active, anim |-> anim,
        clicks |-> [i \in Ids |-> 0]]

(* What the callbacks of button i do to the other buttons and to itself. *)
Called(b, i) ==
    LET does(j, e) == <<j, e>> \in Callback[Buttons[i]] IN
    [b EXCEPT !.clicks[i] = 1,
              !.visible = [j \in Ids |-> (@[j] /\ ~does(j, "hide")) \/ does(j, "show")],
              !.active  = [j \in Ids |-> (@[j] /\ ~does(j, "disable")) \/ does(j, "enable")]]

(* Button::doUpdate of button i. *)
UpdateButton(b, i) ==
    LET over  == IsOver(b.active[i], pos[i], mouseX)
        shown == [b EXCEPT !.anim[i] = IF ~over THEN "normal"
                                       ELSE IF mouse.pressed THEN "down" ELSE "over"]
    IN  IF over /\ mouse.justReleased /\ b.visible[i] THEN Called(shown, i) ELSE shown

(* One frame: the buttons in their order, then the input of the next frame.  *)
Frame(held, x) ==
    LET b == FoldLeft(UpdateButton, Now, [i \in Ids |-> i]) IN
    /\ anim' = b.anim /\ visible' = b.visible /\ active' = b.active
    /\ clicks' = b.clicks
    /\ overlayPos' = pos
    /\ mouse' = UpdateValues(mouse, held)
    /\ mouseX' = x
    /\ pressedHere' = (pressedHere \/ held)
    /\ UNCHANGED <<pos, iconPos>>

(* A mutant: the flags survive the reset. *)
MouseKept(f) == f

(* MouseInput::reset. *)
MouseReset(f) == NoFlags

(* A new state with its own buttons begins: the input is reset first. *)
NewState ==
    /\ mouse' = MouseReset(mouse) /\ mouseX' = 0 /\ pressedHere' = FALSE
    /\ pos' = StartAt /\ iconPos' = StartAt /\ overlayPos' = [i \in Ids |-> 0]
    /\ anim' = [i \in Ids |-> "normal"]
    /\ visible' = [i \in Ids |-> TRUE] /\ active' = [i \in Ids |-> TRUE]
    /\ clicks' = [i \in Ids |-> 0]

(* Button::setPosition moves background and icon; the overlay follows at the *)
(* next update.  The buttons of a state are kept apart.                      *)
SetPosition(i, p) ==
    /\ \A j \in Ids \ {i} : p + Width <= pos[j] \/ pos[j] + Width <= p
    /\ pos' = [pos EXCEPT ![i] = p]
    /\ iconPos' = [iconPos EXCEPT ![i] = p]
    /\ clicks' = [j \in Ids |-> 0]
    /\ UNCHANGED <<mouse, mouseX, overlayPos, anim, visible, active, pressedHere>>

Init ==
    /\ mouse = NoFlags /\ mouseX = 0 /\ pressedHere = FALSE
    /\ pos = StartAt /\ iconPos = StartAt /\ overlayPos = [i \in Ids |-> 0]
    /\ anim = [i \in Ids |-> "normal"]
    /\ visible = [i \in Ids |-> TRUE] /\ active = [i \in Ids |-> TRUE]
    /\ clicks = [i \in Ids |-> 0]

Next ==
    \/ \E held \in BOOLEAN, x \in Pixels : Frame(held, x)
    \/ NewState
    \/ \E i \in Ids, p \in Pixels : SetPosition(i, p)

Spec == Init /\ [][Next]_vars

-----------------------------------------------------------------------------
(* Every variable keeps to its type. *)
TypeOK ==
    /\ mouse \in Flags /\ mouseX \in Pixels \cup {0}
    /\ pos \in [Ids -> Pixels] /\ iconPos = pos
    /\ overlayPos \in [Ids -> Pixels \cup {0}]
    /\ anim \in [Ids -> {"normal", "over", "down"}]
    /\ visible \in [Ids -> BOOLEAN] /\ active \in [Ids -> BOOLEAN]
    /\ clicks \in [Ids -> 0 .. 1] /\ pressedHere \in BOOLEAN

(* One release of the mouse clicks at most one button, also where two of     *)
(* them touch and when the callback of one shows or enables its neighbour in *)
(* the same frame.                                                           *)
OneButtonClicked == Cardinality({i \in Ids : clicks[i] > 0}) <= 1

(* No button of a state is clicked by letting go of a mouse button that was  *)
(* never down while this state ran: the click that left the last state does  *)
(* not also press what the new one has under the mouse.                      *)
ClickedHere == (\E i \in Ids : clicks[i] > 0) => pressedHere
=============================================================================
