------------------------------ MODULE GameLoop ------------------------------
(* The client program around a match: GameBase::runOneFrame, which updates  *)
(* the game in steps of a fixed length and then draws it, the StateManager  *)
(* with its transition, and what the states of the program (StateIntro,     *)
(* StateMenu, StateGame) ask of it. One thread runs all of it; the steps of *)
(* a frame are those between which a state can ask for another one.         *)
EXTENDS Integers, Sequences, TLAPS

CONSTANTS
  TimePerUpdate, \* m_timePerUpdate
  MaxUpdates,    \* m_maxNumberOfUpdateIterations
  FrameTimes,    \* lengths of frames
  FadeTime,      \* m_timerMax, in updates
  IntroTime,     \* updates until the intro is over
  Ahead,         \* bound on the time the game is ahead of the clock
  MaxStates      \* bound on the state objects ever made

LoopAssumption ==
  /\ TimePerUpdate \in Nat \ {0} /\ MaxUpdates \in Nat \ {0}
  /\ FrameTimes \subseteq Nat \ {0}
  /\ FadeTime \in Nat \ {0} /\ IntroTime \in Nat \ {0}
  /\ Ahead \in Nat /\ MaxStates \in Nat \ {0}

VARIABLES
  pc,            \* "frame", "transition", "switch", "state", "again" or "draw"
  lag,           \* m_lag
  updates,       \* numberOfUpdateOperations
  made,          \* the GameState objects made so far
  current,       \* m_currentState, 0 for nullptr
  next,          \* m_nextState
  fade,          \* m_transition
  link,          \* the game whose connection the ServerConnector holds, or 0
  resets         \* history: calls of GameBase::reset

loop   == <<pc, lag, updates>>
switch == <<made, current, next, fade, link, resets>>
vars   == <<loop, switch>>

Kind == {"intro", "menu", "game"}

State(kind) ==
  [kind |-> kind, age |-> 0, created |-> 0, entered |-> 0, over |-> FALSE, ended |-> FALSE]

-----------------------------------------------------------------------------
(* Transitions *)

TransitionNone ==
  [kind |-> "none", timer |-> 0, started |-> FALSE, first |-> TRUE, trigger |-> TRUE]

FadeToBlack == [TransitionNone EXCEPT !.kind = "fade", !.trigger = FALSE]

\* Mutant: what triggered the last switch triggers the next one.
StartedStill(f) ==
  IF f.kind = "none" THEN f
  ELSE [f EXCEPT !.timer = 0, !.started = TRUE, !.first = TRUE]

\* Mutant: the second start goes on with the way back.
StartedHalf(f) ==
  IF f.kind = "none" THEN f ELSE [f EXCEPT !.timer = 0, !.started = TRUE, !.trigger = FALSE]

\* Mutant: the transition waits for somebody else to start it.
StartedNever(f) == f

\* start(). The switch that was asked for waits for the trigger.
Started(f) ==
  IF f.kind = "none" THEN f
  ELSE [f EXCEPT !.timer = 0, !.started = TRUE, !.first = TRUE, !.trigger = FALSE]

\* update(elapsed): to black, then back.
Updated(f, elapsed) ==
  IF ~f.started THEN f
  ELSE IF f.first
  THEN [f EXCEPT !.timer = @ + elapsed,
                 !.first = f.timer + elapsed < FadeTime,
                 !.trigger = @ \/ f.timer + elapsed >= FadeTime]
  ELSE [f EXCEPT !.timer = @ - elapsed, !.started = f.timer - elapsed > 0]

-----------------------------------------------------------------------------
(* StateManager *)

\* Mutant: a switch that is pending is not replaced.
SwitchStateOnce(s) ==
  /\ next' = IF next = 0 THEN s ELSE next
  /\ fade' = Updated(Started(fade), 0)

SwitchState(s) ==
  /\ next' = s
  /\ fade' = Updated(Started(fade), 0)

\* switchState(std::make_shared<...>()).
SwitchToNew(kind) ==
  /\ Len(made) < MaxStates
  /\ made' = Append(made, State(kind))
  /\ SwitchState(Len(made) + 1)

UpdateTransition ==
  /\ pc = "transition"
  /\ fade' = Updated(fade, 1)
  /\ pc' = "switch"
  /\ UNCHANGED <<lag, updates, made, current, next, link, resets>>

\* hasBeenInitialized.
MustCreate(s) == s.created = 0

\* onCreate of the menu sets its own transition.
Create(s) ==
  /\ fade' = IF s.kind = "menu" THEN FadeToBlack ELSE fade
  /\ resets' = resets + 1

\* Mutant: the state that was switched to stays the next one.
NotPendingAnyMore == next

NonePending == 0

DoSwitchState ==
  /\ pc = "switch" /\ next # 0 /\ fade.trigger
  /\ IF MustCreate(made[next]) THEN Create(made[next]) ELSE UNCHANGED <<fade, resets>>
  /\ made' = [made EXCEPT ![next].created = @ + IF MustCreate(made[next]) THEN 1 ELSE 0,
                          ![next].entered = @ + 1]
  /\ current' = next
  /\ next' = NonePending
  /\ link' = 0
  /\ pc' = "state"
  /\ UNCHANGED <<lag, updates>>

NoSwitch ==
  /\ pc = "switch" /\ ~(next # 0 /\ fade.trigger)
  /\ pc' = "state"
  /\ UNCHANGED <<lag, updates, switch>>

-----------------------------------------------------------------------------
(* The states of the program *)

In(step, kind) == pc = step /\ made[current].kind = kind

IntroUpdate ==
  /\ In("state", "intro") /\ pc' = "again"
  /\ LET age == made[current].age + 1 IN
       IF age < IntroTime
       THEN made' = [made EXCEPT ![current].age = age] /\ UNCHANGED <<next, fade>>
       ELSE SwitchToNew("menu")
  /\ UNCHANGED <<lag, updates, current, link, resets>>

MenuUpdate ==
  /\ In("state", "menu") /\ pc' = "again"
  /\ UNCHANGED <<lag, updates, switch>>

\* The playback of the match may come to its result while the game runs.
GameUpdate ==
  /\ In("state", "game") /\ pc' = "again"
  /\ \/ UNCHANGED made
     \/ ~made[current].ended /\ made' = [made EXCEPT ![current].over = TRUE]
  /\ UNCHANGED <<lag, updates, current, next, fade, link, resets>>

\* onUpdate and endGame, with the keys that leave the game pressed: only once,
\* for m_running is false after it.
EndGame ==
  /\ In("state", "game") /\ pc' = "again"
  /\ ~made[current].ended /\ Len(made) < MaxStates
  /\ made' = Append([made EXCEPT ![current].ended = TRUE], State("menu"))
  /\ SwitchState(Len(made) + 1)
  /\ UNCHANGED <<lag, updates, current, link, resets>>

\* Drawing comes after the last update of a frame; the buttons are drawn.
Draw ==
  /\ pc = "draw" /\ pc' = "frame"
  /\ UNCHANGED <<lag, updates, switch>>

\* ServerConnector::connect.
Connect ==
  /\ In("draw", "menu") /\ pc' = "frame"
  /\ SwitchToNew("game")
  /\ link' = Len(made) + 1
  /\ UNCHANGED <<lag, updates, current, resets>>

\* The button of EndWin::draw and EndLose::draw.
BackToMenu ==
  /\ In("draw", "game") /\ made[current].over /\ pc' = "frame"
  /\ SwitchToNew("menu")
  /\ UNCHANGED <<lag, updates, current, link, resets>>

-----------------------------------------------------------------------------
(* GameBase::runOneFrame *)

RunOneFrame ==
  /\ pc = "frame"
  /\ \E t \in FrameTimes : lag + t - TimePerUpdate >= -Ahead /\ lag' = lag + t
  /\ updates' = 0
  /\ pc' = "transition"
  /\ UNCHANGED switch

\* Mutant: the updates that are given up are still due.
GivenUpLater(l) == l

\* Too many updates for one frame: the game is late for good.
GivenUp(l) == 0

TooMany(n) == n >= MaxUpdates

AfterUpdate ==
  /\ pc = "again"
  /\ updates' = updates + 1
  /\ LET left == lag - TimePerUpdate IN
       IF TooMany(updates + 1)
       THEN lag' = GivenUp(left) /\ pc' = "draw"
       ELSE lag' = left /\ pc' = IF left >= TimePerUpdate THEN "transition" ELSE "draw"
  /\ UNCHANGED switch

Init ==
  /\ pc = "frame" /\ lag = 0 /\ updates = 0
  /\ made = <<State("intro")>> /\ current = 0 /\ next = 1
  /\ fade = TransitionNone /\ link = 0 /\ resets = 0

Engine ==
  \/ RunOneFrame \/ UpdateTransition \/ DoSwitchState \/ NoSwitch \/ AfterUpdate
  \/ IntroUpdate \/ MenuUpdate \/ GameUpdate \/ Draw

Player == EndGame \/ Connect \/ BackToMenu

Next == Engine \/ Player

\* The loop runs until the window is closed; nobody has to press a key.
Spec == Init /\ [][Next]_vars /\ WF_vars(Engine)

-----------------------------------------------------------------------------
(* Properties *)

TypeOK ==
  /\ pc \in {"frame", "transition", "switch", "state", "again", "draw"}
  /\ lag \in Int /\ updates \in 0..MaxUpdates
  /\ Len(made) \in 1..MaxStates
  /\ \A s \in DOMAIN made :
       /\ made[s].kind \in Kind /\ made[s].age \in 0..IntroTime
       /\ made[s].created \in Nat /\ made[s].entered \in Nat
       /\ made[s].over \in BOOLEAN /\ made[s].ended \in BOOLEAN
  /\ current \in 0..Len(made) /\ next \in 0..Len(made) /\ link \in 0..Len(made)
  /\ fade.kind \in {"none", "fade"} /\ fade.timer \in Int
  /\ resets \in Nat

\* A state is created once, with a reset of the game, entered once, and updated
\* and drawn only after that; setGameInstance would throw the second time.
CreatedOnce ==
  /\ \A s \in DOMAIN made : made[s].created <= 1 /\ made[s].entered = made[s].created
  /\ current # 0 => made[current].entered = 1
  /\ pc \in {"state", "again", "draw"} => current # 0
  /\ resets <= Len(made)

\* A state is replaced by another one only when the screen is black.
SwitchedInTheDarkStep ==
  current' # current /\ current # 0 /\ fade.kind = "fade"
    => fade.timer >= FadeTime /\ ~fade.first
SwitchedInTheDark == [][SwitchedInTheDarkStep]_vars

\* The game that runs is the last one the player asked for, and the connector
\* of the menu holds no connection but that of the game that is pending.
NewestGame ==
  /\ current # 0 /\ made[current].kind = "game" =>
       \A s \in DOMAIN made : made[s].kind = "game" => s <= current
  /\ link # 0 => link = next

\* The game is never behind the clock by an update or more when a frame begins.
NotLate == pc = "frame" => lag < TimePerUpdate

\* A switch that was asked for is made, or the one that takes its place is.
NothingPending == next = 0
SwitchMade == []<>NothingPending

\* A game that was left is gone in the end.
RunsUnended == current # 0 => ~made[current].ended
EndedGameLeft == []<>RunsUnended

-----------------------------------------------------------------------------
(* The inductive invariant and its proof                                    *)

Made == [kind : Kind, age : 0..IntroTime, created : {0, 1}, entered : {0, 1},
         over : BOOLEAN, ended : BOOLEAN]
Transition == [kind : {"none", "fade"}, timer : Int, started : BOOLEAN,
               first : BOOLEAN, trigger : BOOLEAN]
UpdateSteps == {"transition", "switch", "state", "again"}

LoopTypeOK ==
  /\ pc \in UpdateSteps \cup {"frame", "draw"}
  /\ lag \in Int /\ updates \in 0..MaxUpdates
  /\ pc \in UpdateSteps => updates < MaxUpdates
  /\ made \in Seq(Made) /\ Len(made) \in 1..MaxStates
  /\ current \in 0..Len(made) /\ next \in 0..Len(made) /\ link \in 0..Len(made)
  /\ fade \in Transition /\ resets \in Nat

\* The states that were ever current are those that were created; the pending
\* one is the newest and was not.
Entering ==
  /\ \A s \in DOMAIN made : made[s].entered = made[s].created
  /\ current # 0 => made[current].entered = 1
  /\ next # 0 => /\ next = Len(made) /\ made[next].created = 0
                 /\ resets < Len(made)
  /\ resets <= Len(made)

\* The first state is switched to before anything is updated or drawn.
Beginning ==
  current = 0 => /\ next = 1 /\ fade = TransitionNone /\ link = 0
                 /\ pc \in {"frame", "transition", "switch"}

\* While a game runs no other one is made, and nobody is connected to one.
LatestGame ==
  /\ current # 0 /\ made[current].kind = "game" =>
       \A s \in DOMAIN made : made[s].kind = "game" => s <= current
  /\ link # 0 => link = next /\ current # 0 /\ made[current].kind = "menu"

\* A frame begins with less than an update to do.
InTime == pc \in {"frame", "draw"} => lag < TimePerUpdate

\* A pending switch is triggered when the screen is black, and made at once.
Black ==
  fade.kind = "fade" /\ next # 0 /\ fade.trigger =>
    pc = "switch" /\ fade.timer >= FadeTime /\ ~fade.first

LoopInv ==
  LoopTypeOK /\ Entering /\ Beginning /\ LatestGame /\ InTime /\ Black

\* Whatever is clicked during a fade: each state is created once, the newest
\* request is the one that is granted, and the loop does not fall behind.
LoopIsSound == CreatedOnce /\ NewestGame /\ NotLate /\ LoopInv

\* A list of states of which one has changed.
LEMMA ChangedAt ==
  ASSUME NEW S, NEW s \in Seq(S), NEW n \in DOMAIN s, NEW x \in S,
         NEW t, t = [s EXCEPT ![n] = x]
  PROVE  /\ t \in Seq(S) /\ Len(t) = Len(s) /\ DOMAIN t = DOMAIN s
         /\ t[n] = x /\ \A i \in DOMAIN s : i # n => t[i] = s[i]
OBVIOUS

\* A list that has got longer.
LEMMA MadeLonger ==
  ASSUME NEW S, NEW s \in Seq(S), NEW x \in S
  PROVE  /\ Append(s, x) \in Seq(S) /\ Len(Append(s, x)) = Len(s) + 1
         /\ DOMAIN Append(s, x) = DOMAIN s \cup {Len(s) + 1}
         /\ Append(s, x)[Len(s) + 1] = x
         /\ \A i \in DOMAIN s : i # Len(s) + 1 /\ Append(s, x)[i] = s[i]
OBVIOUS

\* A transition goes on, and triggers when it has faded out.
LEMMA UpdatedGoesOn ==
  ASSUME LoopAssumption, NEW f \in Transition, NEW e \in Nat
  PROVE  /\ Updated(f, e) \in Transition /\ Updated(f, e).kind = f.kind
         /\ ~f.trigger /\ Updated(f, e).trigger =>
              /\ f.started /\ f.first /\ f.timer + e >= FadeTime
              /\ Updated(f, e).timer = f.timer + e /\ ~Updated(f, e).first
<1>1. /\ f.timer \in Int /\ f.kind \in {"none", "fade"}
      /\ f.started \in BOOLEAN /\ f.first \in BOOLEAN /\ f.trigger \in BOOLEAN
      /\ FadeTime \in Nat
  BY DEF Transition, LoopAssumption
<1>2. CASE ~f.started
  BY <1>2 DEF Updated
<1>3. CASE f.started /\ f.first
  <2>1. PICK b \in BOOLEAN : b <=> f.timer + e < FadeTime
    OBVIOUS
  <2>2. PICK c \in BOOLEAN : c <=> f.trigger \/ f.timer + e >= FadeTime
    OBVIOUS
  <2>3. (f.timer + e < FadeTime) = b /\ (f.trigger \/ f.timer + e >= FadeTime) = c
    BY <2>1, <2>2
  <2>4. Updated(f, e) = [f EXCEPT !.timer = f.timer + e, !.first = b, !.trigger = c]
    BY <1>3, <2>3, Zenon DEF Updated
  <2>5. f.timer + e \in Int
    BY <1>1
  <2>6. /\ Updated(f, e) \in Transition /\ Updated(f, e).kind = f.kind
        /\ Updated(f, e).timer = f.timer + e
        /\ Updated(f, e).first = b /\ Updated(f, e).trigger = c
    BY <2>4, <2>5 DEF Transition
  <2>7. ~f.trigger /\ c => f.timer + e >= FadeTime /\ ~b
    BY <1>1, <2>1, <2>2
  <2> QED BY <1>3, <2>6, <2>7
<1>4. CASE f.started /\ ~f.first
  <2>1. PICK b \in BOOLEAN : b <=> f.timer - e > 0
    OBVIOUS
  <2>2. (f.timer - e > 0) = b
    BY <2>1
  <2>3. Updated(f, e) = [f EXCEPT !.timer = f.timer - e, !.started = b]
    BY <1>4, <2>2, Zenon DEF Updated
  <2>4. f.timer - e \in Int
    BY <1>1
  <2>5. /\ Updated(f, e) \in Transition /\ Updated(f, e).kind = f.kind
        /\ Updated(f, e).trigger = f.trigger
    BY <2>3, <2>4 DEF Transition
  <2> QED BY <2>5
<1> QED BY <1>1, <1>2, <1>3, <1>4

\* A transition that is started from the beginning triggers nothing, unless it
\* is none at all.
LEMMA StartedAnew ==
  ASSUME LoopAssumption, NEW f \in Transition
  PROVE  /\ Updated(Started(f), 0) \in Transition
         /\ Updated(Started(f), 0).kind = f.kind
         /\ f.kind = "fade" => ~Updated(Started(f), 0).trigger
<1>1. CASE f.kind = "none"
  <2>1. Started(f) = f
    BY <1>1 DEF Started
  <2> QED BY <1>1, <2>1, UpdatedGoesOn
<1>2. CASE f.kind # "none"
  <2>1. Started(f) = [f EXCEPT !.timer = 0, !.started = TRUE, !.first = TRUE,
                               !.trigger = FALSE]
    BY <1>2 DEF Started
  <2>2. Started(f) \in Transition
    <3>1. \A x \in Int, y \in BOOLEAN, z \in BOOLEAN, c \in BOOLEAN :
            [f EXCEPT !.timer = x, !.started = y, !.first = z, !.trigger = c]
              \in Transition
      BY DEF Transition
    <3>2. 0 \in Int
      OBVIOUS
    <3> QED BY <2>1, <3>1, <3>2, Zenon
  <2>3. Started(f).kind = f.kind /\ Started(f).timer = 0 /\ ~Started(f).trigger
    BY <2>1 DEF Transition
  <2>4. ~(0 + 0 >= FadeTime)
    BY DEF LoopAssumption
  <2> QED BY <2>2, <2>3, <2>4, UpdatedGoesOn
<1> QED BY <1>1, <1>2

\* A new state becomes the next one.
LEMMA NewState ==
  ASSUME LoopAssumption, LoopInv, NEW old \in Seq(Made), NEW kind \in Kind,
         Len(old) = Len(made), Len(made) < MaxStates,
         \A s \in DOMAIN made : /\ old[s].created = made[s].created
                                /\ old[s].entered = made[s].entered
                                /\ old[s].kind = made[s].kind,
         made' = Append(old, State(kind)),
         SwitchState(Len(made) + 1),
         current # 0, pc' \in {"again", "frame"}, pc # "frame",
         pc' = "again" => pc = "state", pc' = "frame" => pc = "draw",
         made[current].kind = "game" => kind # "game",
         UNCHANGED <<lag, updates, current, resets>>,
         \/ link' = link /\ made[current].kind # "menu"
         \/ link' = Len(made) + 1 /\ made[current].kind = "menu"
  PROVE  LoopInv'
<1>1. State(kind) \in Made /\ State(kind).created = 0 /\ State(kind).entered = 0
      /\ State(kind).kind = kind
  BY DEF State, Made, LoopAssumption
<1> DEFINE n == Len(made) + 1
<1>2. /\ made \in Seq(Made) /\ Len(made) \in Nat /\ Len(made) >= 1
      /\ DOMAIN made = 1..Len(made) /\ DOMAIN old = 1..Len(made)
      /\ MaxStates \in Nat /\ current \in 1..Len(made)
  BY DEF LoopInv, LoopTypeOK, LoopAssumption
<1>3. /\ made' \in Seq(Made) /\ Len(made') = n
      /\ DOMAIN made' = 1..n /\ made'[n] = State(kind)
      /\ \A i \in 1..Len(made) : made'[i] = old[i]
  BY <1>1, <1>2, MadeLonger
<1>4. next' = n /\ fade' = Updated(Started(fade), 0)
  BY DEF SwitchState
<1>5. /\ fade' \in Transition /\ fade'.kind = fade.kind
      /\ fade.kind = "fade" => ~fade'.trigger
  BY <1>4, StartedAnew DEF LoopInv, LoopTypeOK
<1>6. link' \in 0..n /\ (link' # 0 => link' = n /\ made[current].kind = "menu")
  BY <1>2 DEF LoopInv, LoopTypeOK, LatestGame
<1>7. LoopTypeOK'
  BY <1>2, <1>3, <1>4, <1>5, <1>6 DEF LoopInv, LoopTypeOK, UpdateSteps
<1>8. Entering'
  <2>1. resets \in Nat /\ resets <= Len(made)
    BY DEF LoopInv, Entering, LoopTypeOK
  <2>2. ASSUME NEW s \in 1..n PROVE made'[s].entered = made'[s].created
    <3>1. CASE s = n
      BY <1>1, <1>3, <3>1
    <3>2. CASE s # n
      BY <1>2, <1>3, <3>2 DEF LoopInv, Entering
    <3> QED BY <3>1, <3>2
  <2>3. made'[current].entered = 1
    BY <1>2, <1>3 DEF LoopInv, Entering
  <2> QED BY <1>1, <1>2, <1>3, <1>4, <2>1, <2>2, <2>3 DEF Entering
<1>9. Beginning' /\ InTime' /\ Black'
  BY <1>2, <1>4, <1>5 DEF LoopInv, Beginning, InTime, Black
<1>10. LatestGame'
  <2>1. made'[current].kind = made[current].kind
    BY <1>2, <1>3
  <2>2. \A s \in 1..n : made'[s].kind = "game" /\ made[current].kind = "game"
                          => s <= current
    <3>1. ASSUME NEW s \in 1..n, made'[s].kind = "game",
                 made[current].kind = "game"
          PROVE  s <= current
      <4>1. s # n
        BY <1>1, <1>3, <3>1
      <4>2. s \in 1..Len(made) /\ made[s].kind = "game"
        BY <1>2, <1>3, <3>1, <4>1
      <4> QED BY <1>2, <3>1, <4>2 DEF LoopInv, LatestGame
    <3> QED BY <3>1
  <2> QED BY <1>2, <1>3, <1>4, <1>6, <2>1, <2>2 DEF LatestGame
<1> QED BY <1>7, <1>8, <1>9, <1>10 DEF LoopInv

\* The frame of the game, and the transition.
LEMMA FrameKeeps ==
  ASSUME LoopAssumption, LoopInv,
         RunOneFrame \/ UpdateTransition \/ NoSwitch \/ AfterUpdate
         \/ MenuUpdate \/ Draw
  PROVE  LoopInv'
<1>0. /\ lag \in Int /\ TimePerUpdate \in Nat \ {0} /\ MaxUpdates \in Nat \ {0}
      /\ updates \in Nat /\ FrameTimes \subseteq Nat
  BY DEF LoopInv, LoopTypeOK, LoopAssumption
<1>1. CASE RunOneFrame
  <2>1. /\ pc = "frame" /\ pc' = "transition" /\ lag' \in Int /\ updates' = 0
        /\ UNCHANGED switch
    BY <1>0, <1>1 DEF RunOneFrame
  <2>2. LoopTypeOK'
    <3>1. LoopTypeOK  BY DEF LoopInv
    <3>2. /\ made' = made /\ current' = current /\ next' = next /\ fade' = fade
          /\ link' = link /\ resets' = resets
      BY <2>1 DEF switch
    <3>3. /\ pc' \in UpdateSteps \cup {"frame", "draw"}
          /\ updates' \in 0..MaxUpdates /\ updates' < MaxUpdates
      BY <1>0, <2>1 DEF UpdateSteps
    <3> QED BY <2>1, <3>1, <3>2, <3>3 DEF LoopTypeOK
  <2>3. Entering' /\ LatestGame'
    BY <2>1 DEF switch, LoopInv, Entering, LatestGame
  <2>4. Beginning' /\ InTime' /\ Black'
    BY <2>1 DEF switch, LoopInv, Beginning, InTime, Black
  <2> QED BY <2>2, <2>3, <2>4 DEF LoopInv
<1>2. CASE UpdateTransition
  <2>1. /\ pc = "transition" /\ pc' = "switch" /\ fade' = Updated(fade, 1)
        /\ UNCHANGED <<lag, updates, made, current, next, link, resets>>
    BY <1>2 DEF UpdateTransition
  <2>2. /\ fade' \in Transition /\ fade'.kind = fade.kind
        /\ ~fade.trigger /\ fade'.trigger =>
             fade'.timer >= FadeTime /\ ~fade'.first
    <3>1. fade \in Transition  BY DEF LoopInv, LoopTypeOK
    <3>2. fade' = Updated(fade, 1)  BY <2>1
    <3> QED BY <3>1, <3>2, UpdatedGoesOn
  <2>3. LoopTypeOK' /\ Entering' /\ LatestGame' /\ InTime'
    BY <2>1, <2>2 DEF LoopInv, LoopTypeOK, Entering, LatestGame, InTime,
                      UpdateSteps
  <2>4. Beginning'
    BY <2>1 DEF LoopInv, Beginning, TransitionNone, Updated
  <2>5. Black'
    BY <2>1, <2>2 DEF LoopInv, Black, LoopTypeOK, Transition
  <2> QED BY <2>3, <2>4, <2>5 DEF LoopInv
<1>3. CASE NoSwitch
  <2>1. /\ pc = "switch" /\ pc' = "state" /\ ~(next # 0 /\ fade.trigger)
        /\ UNCHANGED <<lag, updates, switch>>
    BY <1>3 DEF NoSwitch
  <2>2. current # 0
    BY <2>1 DEF LoopInv, Beginning, TransitionNone
  <2> QED BY <2>1, <2>2
          DEF switch, LoopInv, LoopTypeOK, Entering, Beginning, LatestGame,
              InTime, Black, UpdateSteps
<1>4. CASE AfterUpdate
  <2>1. /\ pc = "again" /\ updates' = updates + 1 /\ UNCHANGED switch
        /\ \/ lag' = 0 /\ pc' = "draw"
           \/ /\ updates + 1 < MaxUpdates /\ lag' = lag - TimePerUpdate
              /\ pc' = IF lag' >= TimePerUpdate THEN "transition" ELSE "draw"
    BY <1>0, <1>4 DEF AfterUpdate, TooMany, GivenUp
  <2>2. updates < MaxUpdates /\ current # 0
    BY <2>1 DEF LoopInv, LoopTypeOK, Beginning, UpdateSteps
  <2>3. lag' \in Int /\ updates' \in 0..MaxUpdates
        /\ (pc' = "transition" => updates' < MaxUpdates)
        /\ (pc' = "draw" => lag' < TimePerUpdate)
    BY <1>0, <2>1, <2>2
  <2>4. pc' \in {"transition", "draw"}
    BY <2>1
  <2> QED BY <2>1, <2>2, <2>3, <2>4
          DEF switch, LoopInv, LoopTypeOK, Entering, Beginning, LatestGame,
              InTime, Black, UpdateSteps
<1>5. CASE MenuUpdate \/ Draw
  <2>1. /\ \/ pc = "state" /\ pc' = "again"
           \/ pc = "draw" /\ pc' = "frame"
        /\ UNCHANGED <<lag, updates, switch>>
    BY <1>5 DEF MenuUpdate, Draw, In
  <2> QED BY <2>1
          DEF switch, LoopInv, LoopTypeOK, Entering, Beginning, LatestGame,
              InTime, Black, UpdateSteps
<1> QED BY <1>1, <1>2, <1>3, <1>4, <1>5

\* The pending state becomes the current one.
LEMMA DoSwitchKeeps ==
  ASSUME LoopAssumption, LoopInv, DoSwitchState
  PROVE  LoopInv'
<1>1. /\ pc = "switch" /\ next # 0 /\ pc' = "state"
      /\ current' = next /\ next' = 0 /\ link' = 0
      /\ UNCHANGED <<lag, updates>>
  BY DEF DoSwitchState, NonePending
<1>2. /\ made \in Seq(Made) /\ next \in DOMAIN made /\ next = Len(made)
      /\ made[next] \in Made /\ made[next].created = 0 /\ made[next].entered = 0
      /\ DOMAIN made = 1..Len(made) /\ resets < Len(made) /\ resets \in Nat
      /\ Len(made) \in Nat
  BY <1>1 DEF LoopInv, LoopTypeOK, Entering
<1>3. /\ fade' = (IF made[next].kind = "menu" THEN FadeToBlack ELSE fade)
      /\ resets' = resets + 1
      /\ made' = [made EXCEPT ![next].created = @ + 1, ![next].entered = @ + 1]
  BY <1>2 DEF DoSwitchState, MustCreate, Create
<1> DEFINE x == [made[next] EXCEPT !.created = 1, !.entered = 1]
<1>4. x \in Made /\ x.created = 1 /\ x.entered = 1 /\ x.kind = made[next].kind
  BY <1>2 DEF Made
<1>5. made' = [made EXCEPT ![next] = x]
  <2>1. x = [made[next] EXCEPT !.created = made[next].created + 1,
                               !.entered = made[next].entered + 1]
    BY <1>2
  <2>2. /\ made' = [s \in DOMAIN made |-> IF s = next THEN made'[next] ELSE made[s]]
        /\ made'[next] = [made[next] EXCEPT !.created = made[next].created + 1,
                                            !.entered = made[next].entered + 1]
    BY <1>2, <1>3
  <2> QED BY <1>2, <2>1, <2>2
<1> HIDE DEF x
<1>6. /\ made' \in Seq(Made) /\ Len(made') = Len(made)
      /\ DOMAIN made' = DOMAIN made /\ made'[next] = x
      /\ \A s \in DOMAIN made : s # next => made'[s] = made[s]
  BY <1>2, <1>4, <1>5, ChangedAt
<1>7. FadeToBlack \in Transition
  <2>1. TransitionNone \in Transition
    BY DEF TransitionNone, Transition
  <2>2. \A f \in Transition, k \in {"none", "fade"}, c \in BOOLEAN :
          [f EXCEPT !.kind = k, !.trigger = c] \in Transition
    BY DEF Transition
  <2> QED BY <2>1, <2>2, Zenon DEF FadeToBlack
<1>8. LoopTypeOK'
  BY <1>1, <1>2, <1>3, <1>6, <1>7 DEF LoopInv, LoopTypeOK, UpdateSteps
<1>9. Entering'
  <2>1. \A s \in DOMAIN made : made'[s].entered = made'[s].created
    BY <1>4, <1>6 DEF LoopInv, Entering
  <2> QED BY <1>1, <1>2, <1>3, <1>4, <1>6, <2>1 DEF Entering
<1>10. Beginning' /\ InTime' /\ Black'
  BY <1>1, <1>2 DEF Beginning, InTime, Black
<1>11. LatestGame'
  BY <1>1, <1>2, <1>6 DEF LatestGame
<1> QED BY <1>8, <1>9, <1>10, <1>11 DEF LoopInv

\* Only the age or the result of the current state changes.
LEMMA CurrentChanges ==
  ASSUME LoopAssumption, LoopInv, NEW x \in Made, current # 0,
         pc = "state", pc' = "again", made' = [made EXCEPT ![current] = x],
         x.kind = made[current].kind, x.created = made[current].created,
         x.entered = made[current].entered,
         UNCHANGED <<lag, updates, current, next, fade, link, resets>>
  PROVE  LoopInv'
<1>1. made \in Seq(Made) /\ current \in DOMAIN made
  BY DEF LoopInv, LoopTypeOK
<1>2. /\ made' \in Seq(Made) /\ Len(made') = Len(made)
      /\ DOMAIN made' = DOMAIN made
      /\ \A s \in DOMAIN made : /\ made'[s].kind = made[s].kind
                                /\ made'[s].created = made[s].created
                                /\ made'[s].entered = made[s].entered
  BY <1>1, ChangedAt
<1>3. next # 0 => next \in DOMAIN made
  BY <1>1 DEF LoopInv, LoopTypeOK
<1> QED BY <1>1, <1>2, <1>3
        DEF LoopInv, LoopTypeOK, Entering, Beginning, LatestGame, InTime, Black,
            UpdateSteps

\* What the states of the program do.
LEMMA StatesKeep ==
  ASSUME LoopAssumption, LoopInv,
         IntroUpdate \/ GameUpdate \/ EndGame \/ Connect \/ BackToMenu
  PROVE  LoopInv'
<1>1. pc \in {"state", "draw"}
  BY DEF IntroUpdate, GameUpdate, EndGame, Connect, BackToMenu, In
<1>2. /\ current # 0 /\ made \in Seq(Made) /\ current \in DOMAIN made
      /\ made[current] \in Made /\ DOMAIN made = 1..Len(made)
      /\ Len(made) \in Nat
  BY <1>1 DEF LoopInv, LoopTypeOK, Beginning
<1>3. CASE IntroUpdate
  <2>1. /\ pc = "state" /\ made[current].kind = "intro" /\ pc' = "again"
        /\ UNCHANGED <<lag, updates, current, link, resets>>
    BY <1>3 DEF IntroUpdate, In
  <2>2. CASE made[current].age + 1 < IntroTime
    <3>1. /\ made' = [made EXCEPT ![current].age = made[current].age + 1]
          /\ UNCHANGED <<next, fade>>
      BY <1>3, <2>2 DEF IntroUpdate
    <3> DEFINE x == [made[current] EXCEPT !.age = made[current].age + 1]
    <3>2. made[current].age + 1 \in 0..IntroTime
      BY <1>2, <2>2 DEF Made, LoopAssumption
    <3>3. /\ x \in Made /\ x.kind = made[current].kind
          /\ x.created = made[current].created
          /\ x.entered = made[current].entered
      BY <1>2, <3>2 DEF Made
    <3>4. made' = [made EXCEPT ![current] = x]
      BY <1>2, <3>1
    <3> HIDE DEF x
    <3> QED BY <1>2, <2>1, <3>1, <3>3, <3>4, CurrentChanges
  <2>3. CASE ~(made[current].age + 1 < IntroTime)
    <3>1. /\ Len(made) < MaxStates /\ made' = Append(made, State("menu"))
          /\ SwitchState(Len(made) + 1)
      BY <1>3, <2>3 DEF IntroUpdate, SwitchToNew
    <3> QED BY <1>2, <2>1, <3>1, NewState DEF Kind
  <2> QED BY <2>2, <2>3
<1>4. CASE GameUpdate
  <2>1. /\ pc = "state" /\ pc' = "again"
        /\ UNCHANGED <<lag, updates, current, next, fade, link, resets>>
        /\ \/ UNCHANGED made
           \/ made' = [made EXCEPT ![current].over = TRUE]
    BY <1>4 DEF GameUpdate, In
  <2>2. CASE UNCHANGED made
    <3>1. made' = [made EXCEPT ![current] = made[current]]
      BY <1>2, <2>2
    <3> QED BY <1>2, <2>1, <3>1, CurrentChanges
  <2>3. CASE made' = [made EXCEPT ![current].over = TRUE]
    <3> DEFINE x == [made[current] EXCEPT !.over = TRUE]
    <3>1. /\ x \in Made /\ x.kind = made[current].kind
          /\ x.created = made[current].created
          /\ x.entered = made[current].entered
      BY <1>2 DEF Made
    <3>2. made' = [made EXCEPT ![current] = x]
      BY <1>2, <2>3
    <3> HIDE DEF x
    <3> QED BY <1>2, <2>1, <3>1, <3>2, CurrentChanges
  <2> QED BY <2>1, <2>2, <2>3
<1>5. CASE EndGame
  <2>1. /\ pc = "state" /\ made[current].kind = "game" /\ pc' = "again"
        /\ Len(made) < MaxStates
        /\ made' = Append([made EXCEPT ![current].ended = TRUE], State("menu"))
        /\ SwitchState(Len(made) + 1)
        /\ UNCHANGED <<lag, updates, current, link, resets>>
    BY <1>5 DEF EndGame, In
  <2> DEFINE x == [made[current] EXCEPT !.ended = TRUE]
             old == [made EXCEPT ![current] = x]
  <2>2. /\ x \in Made /\ x.kind = made[current].kind
        /\ x.created = made[current].created
        /\ x.entered = made[current].entered
    BY <1>2 DEF Made
  <2>3. made' = Append(old, State("menu"))
    BY <1>2, <2>1
  <2> HIDE DEF x
  <2>4. /\ old \in Seq(Made) /\ Len(old) = Len(made)
        /\ \A s \in DOMAIN made : /\ old[s].created = made[s].created
                                  /\ old[s].entered = made[s].entered
                                  /\ old[s].kind = made[s].kind
    BY <1>2, <2>2, ChangedAt
  <2> HIDE DEF old
  <2> QED BY <1>2, <2>1, <2>3, <2>4, NewState DEF Kind
<1>6. CASE Connect
  <2>1. /\ pc = "draw" /\ made[current].kind = "menu" /\ pc' = "frame"
        /\ Len(made) < MaxStates /\ made' = Append(made, State("game"))
        /\ SwitchState(Len(made) + 1) /\ link' = Len(made) + 1
        /\ UNCHANGED <<lag, updates, current, resets>>
    BY <1>6 DEF Connect, In, SwitchToNew
  <2> QED BY <1>2, <2>1, NewState DEF Kind
<1>7. CASE BackToMenu
  <2>1. /\ pc = "draw" /\ made[current].kind = "game" /\ pc' = "frame"
        /\ Len(made) < MaxStates /\ made' = Append(made, State("menu"))
        /\ SwitchState(Len(made) + 1)
        /\ UNCHANGED <<lag, updates, current, link, resets>>
    BY <1>7 DEF BackToMenu, In, SwitchToNew
  <2> QED BY <1>2, <2>1, NewState DEF Kind
<1> QED BY <1>3, <1>4, <1>5, <1>6, <1>7

LEMMA InitLoop == ASSUME LoopAssumption, Init PROVE LoopInv
<1>1. State("intro") \in Made /\ State("intro").created = 0
      /\ State("intro").entered = 0 /\ State("intro").kind = "intro"
  BY DEF State, Made, Kind, LoopAssumption
<1>2. /\ made \in Seq(Made) /\ Len(made) = 1 /\ DOMAIN made = {1}
      /\ made[1] = State("intro")
  BY <1>1 DEF Init
<1>3. TransitionNone \in Transition
  BY DEF TransitionNone, Transition
<1>4. LoopTypeOK
  BY <1>2, <1>3 DEF Init, LoopTypeOK, LoopAssumption, UpdateSteps
<1>5. Entering /\ Beginning /\ LatestGame
  BY <1>1, <1>2 DEF Init, Entering, Beginning, LatestGame
<1>6. InTime /\ Black
  BY DEF Init, InTime, Black, LoopAssumption, TransitionNone
<1> QED BY <1>4, <1>5, <1>6 DEF LoopInv

LEMMA NextLoop == ASSUME LoopAssumption, LoopInv, [Next]_vars PROVE LoopInv'
<1>1. CASE UNCHANGED vars
  BY <1>1 DEF vars, loop, switch, LoopInv, LoopTypeOK, Entering, Beginning,
              LatestGame, InTime, Black
<1> QED BY <1>1, FrameKeeps, DoSwitchKeeps, StatesKeep DEF Next, Engine, Player

\* The type invariant, and what it rests on, for any length of the frames, of
\* the fade and of the intro.
THEOREM LoopInvariance ==
  ASSUME LoopAssumption PROVE Spec => [](LoopInv /\ TypeOK)
<1>1. ASSUME LoopInv PROVE TypeOK
  <2>1. \A s \in DOMAIN made : made[s] \in Made
    BY <1>1 DEF LoopInv, LoopTypeOK
  <2>2. fade.kind \in {"none", "fade"} /\ fade.timer \in Int
    BY <1>1 DEF LoopInv, LoopTypeOK, Transition
  <2> QED BY <1>1, <2>1, <2>2, SMTT(30)
          DEF LoopInv, LoopTypeOK, UpdateSteps, TypeOK, Made
<1> QED BY <1>1, InitLoop, NextLoop, PTL DEF Spec

\* No state is created twice or updated before it was created, whatever the
\* player asks for while a switch is pending.
THEOREM StatesCreatedOnce ==
  ASSUME LoopAssumption PROVE Spec => []CreatedOnce
<1>1. ASSUME LoopInv PROVE CreatedOnce
  <2>1. \A s \in DOMAIN made : made[s] \in Made
    BY <1>1 DEF LoopInv, LoopTypeOK
  <2>2. \A s \in DOMAIN made : made[s].created <= 1
    BY <2>1 DEF Made
  <2> QED BY <1>1, <2>2 DEF LoopInv, Entering, Beginning, CreatedOnce
<1> QED BY <1>1, LoopInvariance, PTL

\* The game that runs is the last one that was asked for, and the connector
\* holds no connection to a game that was given up.
THEOREM GameIsNewest == ASSUME LoopAssumption PROVE Spec => []NewestGame
<1>1. LoopInv => NewestGame
  BY DEF LoopInv, LatestGame, NewestGame
<1> QED BY <1>1, LoopInvariance, PTL

\* Frames never carry an update over to the next one, be they late or early.
THEOREM NeverLate == ASSUME LoopAssumption PROVE Spec => []NotLate
<1>1. LoopInv => NotLate
  BY DEF LoopInv, InTime, NotLate
<1> QED BY <1>1, LoopInvariance, PTL

\* A state with a fade is left when the screen is black.
THEOREM LeftInTheDark ==
  ASSUME LoopAssumption PROVE Spec => SwitchedInTheDark
<1>1. LoopInv /\ [Next]_vars => [SwitchedInTheDarkStep]_vars
  <2>1. ASSUME LoopInv, DoSwitchState PROVE SwitchedInTheDarkStep
    BY <2>1 DEF LoopInv, Black, DoSwitchState, SwitchedInTheDarkStep
  <2>2. ASSUME Next, ~DoSwitchState PROVE current' = current
    BY <2>2 DEF Next, Engine, Player, RunOneFrame, UpdateTransition, NoSwitch,
                AfterUpdate, IntroUpdate, MenuUpdate, GameUpdate, Draw, EndGame,
                Connect, BackToMenu, switch
  <2> QED BY <2>1, <2>2 DEF SwitchedInTheDarkStep
<1> QED BY <1>1, LoopInvariance, PTL DEF Spec, SwitchedInTheDark

\* The change of states and the loop around it are sound.
THEOREM TheLoopIsSound == ASSUME LoopAssumption PROVE Spec => []LoopIsSound
<1>1. CreatedOnce /\ NewestGame /\ NotLate /\ LoopInv => LoopIsSound
  BY DEF LoopIsSound
<1> QED
  BY <1>1, LoopInvariance, StatesCreatedOnce, GameIsNewest, NeverLate, PTL
=============================================================================
