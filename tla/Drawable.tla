------------------------------ MODULE Drawable ------------------------------
(* A drawable, the camera and the view of the graphics (SFML), in one       *)
(* coordinate: the game updates the drawable, then the graphics move the    *)
(* view, then it is drawn. A drawable that ignores the camera is put where  *)
(* the view will be, with the camera's offset of the frame before.          *)
(* Lengths are half pixels, factors of the camera's movement halves.        *)
EXTENDS Integers, FiniteSetsExt

CONSTANTS
  Calls,       \* calls the game makes: names of actions below
  Positions,   \* of the drawable, in the world
  CamOffsets,  \* of the camera
  Width,       \* getLocalBounds().width of the drawable
  ScreenSize,  \* width of the screen, and its screen size hint
  Ignores,     \* arguments of setIgnoreCamMovement
  Elapsed,     \* time of a frame
  Times,       \* durations of effects
  Intervals,   \* intervals of flicker and shakes
  Strengths,   \* of shakes
  MaxAge       \* bound of the history variables

DrawableAssumption ==
  /\ Positions \subseteq Int /\ CamOffsets \subseteq Int /\ Ignores \subseteq BOOLEAN
  /\ Width \in Nat /\ ScreenSize \in Nat /\ MaxAge \in Nat
  /\ Elapsed \subseteq Nat \ {0} /\ Times \subseteq Nat \ {0}
  /\ Intervals \subseteq Nat /\ Strengths \subseteq Nat
  /\ Calls \subseteq {"setPosition", "setIgnore", "setFactor", "setOffset", "setCam",
                      "flash", "flicker", "shake", "camShake", "reset"}

VARIABLES
  phase,       \* "update", "updated" (the drawable), "gfx" (the view), "drawn"
  position,    \* m_position
  offset,      \* m_offset, from the offset mode
  ignore,      \* m_ignoreCamMovement
  factor,      \* m_camMovementFactor, in halves
  spriteAt,    \* position given to the sprite by doUpdate, in the world
  flash,       \* FlashImpl: timer, max, alpha
  flicker,     \* FlickerImpl: timer, interval, left, on
  shake,       \* ShakeImpl: timer, max, strength, left, interval, offset
  camera,      \* Camera: offset, timer, strength, left, interval, shake
  view,        \* left edge of m_view
  layerView,   \* left edge of the view the render target was given
  static,      \* DrawableImpl::m_CamOffset
  picture,     \* what draw() put on the target: shown, flash
  age          \* history: time since the last flash, shake, camera shake, drawing

place   == <<position, offset, ignore, factor>>
effects == <<flash, flicker, shake>>
gfx     == <<view, layerView, static>>
vars    == <<phase, place, spriteAt, effects, camera, gfx, picture, age>>

MaxElapsed == Max(Elapsed)

\* Timers that run on below zero are cut here: nothing tells them apart.
Lowest == -MaxElapsed

Down(t, e) == Max({t - e, Lowest})
Older(a, e) == Min({a + e, MaxAge})

Within(s) == -s..s

\* The cast of the view's center to int, toward zero; an even size keeps it.
WholePixel(x) == IF x >= 0 THEN x - (x % 2) ELSE x + (x % 2)

-----------------------------------------------------------------------------
(* Calls of the game, in its update *)

Called(c) == c \in Calls /\ phase \in {"update", "updated"}

SetPosition ==
  /\ Called("setPosition") /\ phase = "update"
  /\ position' \in Positions
  /\ UNCHANGED <<phase, offset, ignore, factor, spriteAt, effects, camera, gfx, picture, age>>

\* setOffset(OffsetMode)
SetOffset ==
  /\ Called("setOffset") /\ phase = "update"
  /\ offset' \in {0, -(Width \div 2)}
  /\ UNCHANGED <<phase, position, ignore, factor, spriteAt, effects, camera, gfx, picture, age>>

SetIgnoreCamMovement ==
  /\ Called("setIgnore") /\ phase = "update"
  /\ ignore' \in Ignores
  /\ factor' = IF ignore' THEN 0 ELSE factor
  /\ UNCHANGED <<phase, position, offset, spriteAt, effects, camera, gfx, picture, age>>

SetCamMovementFactor ==
  /\ Called("setFactor") /\ phase = "update"
  /\ factor' \in 0..2
  /\ ignore' = (factor' # 2)
  /\ UNCHANGED <<phase, position, offset, spriteAt, effects, camera, gfx, picture, age>>

\* Camera::setCamOffset and move, before or after the drawable's update.
SetCamOffset ==
  /\ Called("setCam")
  /\ \E c \in CamOffsets : camera' = [camera EXCEPT !.offset = c]
  /\ UNCHANGED <<phase, place, spriteAt, effects, gfx, picture, age>>

Flash ==
  /\ Called("flash")
  /\ \E t \in Times : flash' = [flash EXCEPT !.timer = t, !.max = t, !.alpha = 255]
  /\ age' = [age EXCEPT !.flash = 0]
  /\ UNCHANGED <<phase, place, spriteAt, flicker, shake, camera, gfx, picture>>

\* doFlicker does not touch m_doDraw.
Flicker ==
  /\ Called("flicker")
  /\ \E t \in Times, i \in Intervals :
       flicker' = [flicker EXCEPT !.timer = t, !.interval = i, !.left = 0]
  /\ UNCHANGED <<phase, place, spriteAt, flash, shake, camera, gfx, picture, age>>

\* doShake does not touch the offset of a shake under way.
Shake ==
  /\ Called("shake")
  /\ \E t \in Times, s \in Strengths, i \in Intervals :
       shake' = [shake EXCEPT !.timer = t, !.max = t, !.strength = s, !.left = i, !.interval = i]
  /\ age' = [age EXCEPT !.shake = 0]
  /\ UNCHANGED <<phase, place, spriteAt, flash, flicker, camera, gfx, picture>>

CameraShake ==
  /\ Called("camShake")
  /\ \E t \in Times, s \in Strengths, i \in Intervals :
       camera' = [camera EXCEPT !.timer = t, !.strength = s, !.left = i, !.interval = i]
  /\ age' = [age EXCEPT !.cam = 0, !.camMax = camera'.timer]
  /\ UNCHANGED <<phase, place, spriteAt, effects, gfx, picture>>

\* Camera::reset, when a state is entered
CameraReset ==
  /\ Called("reset")
  /\ camera' = [camera EXCEPT !.offset = 0, !.shake = 0, !.timer = -1, !.strength = 0]
  /\ UNCHANGED <<phase, place, spriteAt, effects, gfx, picture, age>>

-----------------------------------------------------------------------------
(* A frame *)

\* Mutant: the offset of the last interval stays.
ShakeNotReset(e) ==
  IF shake.timer > 0
    THEN \E o \in IF shake.left <= 0
                    THEN Within((shake.timer * shake.strength) \div shake.max) ELSE {shake.offset} :
           shake' = [shake EXCEPT
             !.offset = o, !.timer = Down(@, e),
             !.left = Down(IF @ <= 0 THEN shake.interval ELSE @, e)]
    ELSE UNCHANGED shake

UpdateShake(e) ==
  IF shake.timer > 0
    THEN \E o \in IF shake.left <= 0
                    THEN Within((shake.timer * shake.strength) \div shake.max) ELSE {shake.offset} :
           shake' = [shake EXCEPT
             !.offset = o, !.timer = Down(@, e),
             !.left = Down(IF @ <= 0 THEN shake.interval ELSE @, e)]
    ELSE shake' = [shake EXCEPT !.offset = 0]

\* Mutant: the flash brightens up.
FlashBrightens(e) ==
  flash' = IF flash.timer > 0
             THEN [flash EXCEPT !.alpha = ((flash.max - flash.timer) * 255) \div flash.max,
                                !.timer = Down(@, e)]
             ELSE flash

UpdateFlash(e) ==
  flash' = IF flash.timer > 0
             THEN [flash EXCEPT !.alpha = (flash.timer * 255) \div flash.max,
                                !.timer = Down(@, e)]
             ELSE flash

UpdateFlicker(e) ==
  LET time   == Down(flicker.timer, e)
      left   == Down(flicker.left, e)
      toggle == time > 0 /\ left <= 0
  IN  flicker' = [flicker EXCEPT
        !.timer = time,
        !.left  = IF time <= 0 THEN @ ELSE IF toggle THEN left + flicker.interval ELSE left,
        !.on    = IF toggle THEN ~@ ELSE @]

\* Mutant: the factor is forgotten.
IgnoredOrNot == IF ignore THEN -static ELSE 0

\* DrawableImplSFML::getCompleteCamOffset
CompleteCamOffset == IF ignore THEN -static + (factor * static) \div 2 ELSE 0

\* DrawableImpl::update, and doUpdate of sprite or shape
Update ==
  /\ phase = "update" /\ phase' = "updated"
  /\ \E e \in Elapsed :
       /\ UpdateShake(e) /\ UpdateFlash(e) /\ UpdateFlicker(e)
       /\ age' = [age EXCEPT !.flash = Older(@, e), !.shake = Older(@, e), !.hidden = Older(@, e)]
  /\ spriteAt' = position + shake'.offset + offset + CompleteCamOffset
  /\ UNCHANGED <<place, camera, gfx, picture>>

\* Mutant: the shake of the camera stops where it is.
CameraStops(e) ==
  LET time == Down(camera.timer, e)
      left == camera.left - e
  IN  IF time <= 0 THEN camera' = [camera EXCEPT !.timer = time]
      ELSE IF left >= 0 THEN camera' = [camera EXCEPT !.timer = time, !.left = left]
      ELSE \E o \in Within(camera.strength) :
             camera' = [camera EXCEPT !.timer = time, !.left = camera.interval, !.shake = o]

UpdateCamera(e) ==
  LET time == Down(camera.timer, e)
      left == camera.left - e
  IN  IF time <= 0 THEN camera' = [camera EXCEPT !.timer = time, !.shake = 0]
      ELSE IF left >= 0 THEN camera' = [camera EXCEPT !.timer = time, !.left = left]
      ELSE \E o \in Within(camera.strength) :
             camera' = [camera EXCEPT !.timer = time, !.left = camera.interval, !.shake = o]

\* Mutant: the target gets the view of this frame, the sprites stand in the
\* one before.
ViewBeforeTarget(new) == layerView' = new /\ view' = new /\ static' = -new

\* The view is given to the targets before it is moved.
MoveView(new) == layerView' = view /\ view' = new /\ static' = -new

\* GfxImpl::update
GfxUpdate ==
  /\ phase = "updated" /\ phase' = "gfx"
  /\ \E e \in Elapsed :
       /\ UpdateCamera(e)
       /\ age' = [age EXCEPT !.cam = Older(@, e)]
  /\ MoveView(WholePixel(camera.offset + ScreenSize \div 2) - ScreenSize \div 2)
  /\ UNCHANGED <<place, spriteAt, effects, picture>>

ScreenPosition == position + (static * factor) \div 2

\* Mutant: the drawable is taken for a point.
PointVisible == ScreenSize = 0 \/ (ScreenPosition >= 0 /\ ScreenPosition < ScreenSize)

IsVisible ==
  \/ ScreenSize = 0
  \/ /\ ScreenPosition + Width >= 0
     /\ ScreenPosition < ScreenSize + Width

\* Mutant: the flag is asked when the flicker is over as well.
OnlyFlag == flicker.on

AllowDrawFromFlicker == flicker.timer <= 0 \/ flicker.on

\* DrawableImpl::draw and drawFlash
Draw ==
  /\ phase = "gfx" /\ phase' = "drawn"
  /\ picture' = [shown |-> IsVisible /\ AllowDrawFromFlicker,
                 flash |-> IsVisible /\ AllowDrawFromFlicker /\ flash.timer >= 0]
  /\ age' = IF AllowDrawFromFlicker THEN [age EXCEPT !.hidden = 0] ELSE age
  /\ UNCHANGED <<place, spriteAt, effects, camera, gfx>>

NextFrame ==
  /\ phase = "drawn" /\ phase' = "update"
  /\ UNCHANGED <<place, spriteAt, effects, camera, gfx, picture, age>>

Init ==
  /\ phase = "update"
  /\ position \in Positions /\ offset = 0 /\ ignore = FALSE /\ factor = 2
  /\ spriteAt = 0
  /\ flash = [timer |-> -1, max |-> -1, alpha |-> 255]
  /\ flicker = [timer |-> 0, interval |-> 0, left |-> 0, on |-> TRUE]
  /\ shake = [timer |-> -1, max |-> -1, strength |-> 0, left |-> 0, interval |-> 0, offset |-> 0]
  /\ camera = [offset |-> 0, timer |-> -1, strength |-> 0, left |-> 0, interval |-> 0, shake |-> 0]
  /\ view = 0 /\ layerView = 0 /\ static = 0
  /\ picture = [shown |-> FALSE, flash |-> FALSE]
  /\ age = [flash |-> MaxAge, shake |-> MaxAge, cam |-> MaxAge, camMax |-> 0, hidden |-> 0]

GameCall ==
  \/ SetPosition \/ SetOffset \/ SetIgnoreCamMovement \/ SetCamMovementFactor \/ SetCamOffset
  \/ Flash \/ Flicker \/ Shake \/ CameraShake \/ CameraReset

Next == GameCall \/ Update \/ GfxUpdate \/ Draw \/ NextFrame

Spec == Init /\ [][Next]_vars

-----------------------------------------------------------------------------
(* Properties *)

TypeOK ==
  /\ phase \in {"update", "updated", "gfx", "drawn"}
  /\ position \in Positions /\ offset \in Int /\ ignore \in BOOLEAN /\ factor \in 0..2
  /\ spriteAt \in Int /\ view \in Int /\ layerView \in Int /\ static \in Int
  /\ flash.timer >= Lowest /\ flicker.timer >= Lowest /\ flash.alpha \in 0..255
  /\ flicker.on \in BOOLEAN /\ flicker.left >= Lowest
  /\ shake.offset \in Int /\ camera.shake \in Int
  /\ picture \in [shown : BOOLEAN, flash : BOOLEAN]

\* Where the drawable is on the target that is drawn to.
OnTarget == spriteAt - layerView

\* What ignores the camera stays where it is on the screen while the camera
\* moves, what follows it by half moves by half: the sprite is placed with the
\* offset of the very view it will be drawn in.
FollowsByFactor ==
  phase = "gfx" /\ ignore =>
    OnTarget - shake.offset - offset = position - (factor * layerView) \div 2

\* getScreenPosition(), asked when the drawable has been updated, is where it
\* will be drawn (in the view that the targets will be given).
ScreenPositionTrue ==
  phase = "updated" => ScreenPosition = spriteAt - offset - shake.offset - view

Overlaps == OnTarget + Width > 0 /\ OnTarget < ScreenSize

\* draw() leaves out nothing that is on the screen.
DrawnIfOnScreen ==
  phase = "drawn" /\ Overlaps /\ AllowDrawFromFlicker => picture.shown

\* The same while neither the camera moves nor the drawable shakes.
DrawnIfStill == static = -layerView /\ shake.offset = 0 => DrawnIfOnScreen

\* A flash fades from update to update until the next one begins.
FlashFadesStep ==
  age'.flash # 0 => flash'.alpha <= flash.alpha
FlashFades == [][FlashFadesStep]_vars

\* A flicker hides the drawable for no longer than its interval, and a frame;
\* this holds at its end and for flickers that begin while it is hidden.
HiddenBriefly == phase = "drawn" => age.hidden < Max(Intervals) + 2 * MaxElapsed

\* A shake displaces the drawable for its duration, and to the end of the
\* frame, even if it replaces another one.
ShakeEnds == shake.offset # 0 => age.shake < shake.max + MaxElapsed

\* The shake of the camera is over with its time, and when it is reset.
CameraShakeEnds == camera.shake # 0 => age.cam < age.camMax /\ camera.timer > 0

=============================================================================
