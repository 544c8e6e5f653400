---------------------------- MODULE UnitAnimation ----------------------------
(* What a Unit of the client shows: the animations loaded from its aseprite *)
(* file, the Animation that plays one of them, the frames of the playback   *)
(* that tell the Unit what its counterpart in the simulation does, the way  *)
(* back to "idle", and the sounds of its attacks. Each update of the game   *)
(* updates the Unit and then the StateGame; what is drawn after it, unless  *)
(* another update comes first, updates the living once more, by no time.    *)
(* Time is counted in parts of an update; Elapsed parts make one.           *)
EXTENDS Integers, Sequences, SequencesExt, FiniteSetsExt

CONSTANTS
  Tags,          \* tags of the file: name, from, to, repeat
  FrameTime,     \* durations of the frames of the file
  Elapsed,       \* length of an update
  Pace,          \* parts by which a walk proceeds in an update, by slope
  SoundDelay,    \* delay of the sound of an attack
  MaxHP          \* hit points of the unit

Name == {"idle", "spell", "damage", "walk", "attack", "death"}

UnitAnimationAssumption ==
  /\ {Tags[i].name : i \in DOMAIN Tags} = Name
  /\ \A i \in DOMAIN Tags : {Tags[i].from, Tags[i].to} \subseteq DOMAIN FrameTime
  /\ \A i \in DOMAIN FrameTime : FrameTime[i] \in Nat \ {0}
  /\ Elapsed \in Nat \ {0} /\ Pace \subseteq Nat \ {0} /\ MaxHP \in Nat \ {0}

VARIABLES
  turn,          \* what the game does next
  playing,       \* whether the StateGame plays a simulation back
  name,          \* m_currentAnimName
  index,         \* m_currentIdx, counted from 1
  time,          \* m_frameTime
  newName,       \* m_newAnimName
  untilIdle,     \* m_animTimeUntilBackToIdle
  hp,            \* m_hp
  slope,         \* m_slope: the pace of a walk
  sounds,        \* m_soundsToPlay: the delays
  age,           \* history: time since the animation was started
  told,          \* history: what the last frame of the playback told
  early          \* history: whether the update that chose the animation counted it down

animation == <<name, index, time>>
unit      == <<newName, untilIdle, hp, slope, sounds>>
vars      == <<turn, playing, animation, unit, age, told, early>>

None == "none"

-----------------------------------------------------------------------------
(* The animations of the file *)

\* numbersBetween of math_helper.hpp.
NumbersBetween(a, b) ==
  LET low == Min({a, b}) IN [i \in 1..(Max({a, b}) - low + 1) |-> low + i - 1]

\* The tag that counts: the last one of a name.
TagOf(n) == Tags[Max({i \in DOMAIN Tags : Tags[i].name = n})]

\* m_time, as loadFromAseprite and add fill it.
Times(n) ==
  LET ids == NumbersBetween(TagOf(n).from, TagOf(n).to) IN
  [i \in DOMAIN ids |-> FrameTime[ids[i]]]

\* m_isLooping, after Unit::doCreate.
IsLooping(n) == n # "death" /\ TagOf(n).repeat = 0

Sum(s) == FoldLeft(LAMBDA a, b : a + b, 0, s)

TotalTime(n) == Sum(Times(n))

-----------------------------------------------------------------------------
(* Animation *)

\* Mutant: what is left of the time of a frame is lost.
Remainder0(t, frame) == 0

Remainder(t, frame) == t - frame

NextIndex(n, i) ==
  IF i < Len(Times(n)) THEN i + 1 ELSE IF IsLooping(n) THEN 1 ELSE i

\* The loop of doUpdate, as a function of the time that has piled up.
Proceed(n, i, t) ==
  LET ts == Times(n)
      go[j \in DOMAIN ts, left \in 0..t] ==
        IF left >= ts[j]
        THEN go[NextIndex(n, j), Remainder(left, ts[j])]
        ELSE <<j, left>>
  IN go[i, t]

\* The frame that is due "a" parts after the start: the reference.
FrameAt(n, a) ==
  LET due == IF IsLooping(n) THEN a % TotalTime(n) ELSE a IN
  IF due >= TotalTime(n) THEN Len(Times(n))
  ELSE Min({i \in DOMAIN Times(n) : Sum(SubSeq(Times(n), 1, i)) > due})

\* Animation::play of a known name: <<name, index, time, age>>.
Play(now, n, restart) ==
  IF now[1] # n \/ restart THEN <<n, 1, 0, 0>> ELSE now

\* The age is kept below one period, or at the end of what does not loop.
Aged(n, a, elapsed) ==
  IF IsLooping(n) THEN (a + elapsed) % TotalTime(n)
                  ELSE Min({a + elapsed, TotalTime(n)})

Updated(now, elapsed) ==
  LET p == Proceed(now[1], now[2], now[3] + elapsed) IN
  <<now[1], p[1], p[2], Aged(now[1], now[4], elapsed)>>

-----------------------------------------------------------------------------
(* Unit::doUpdate *)

\* GP::animationPriorities.
Priority(n) ==
  CASE n \in {"idle", "spell"}  -> 0
    [] n = "damage"             -> 1
    [] n \in {"walk", "attack"} -> 2
    [] n = "death"              -> 3

\* convertSlopeToSpeedFactor for a unit that walks.
PaceOf(n, elapsed) == IF n = "walk" /\ elapsed > 0 THEN slope ELSE elapsed

\* Mutant: an animation is played to its end.
AcceptedWhenIdle(now) == newName # None /\ now[1] = "idle"

\* playAnimation returns early for an animation of lower priority.
Accepted(now) == newName # None /\ Priority(newName) >= Priority(now[1])

Restarts(n) == n \notin {"walk", "spell"}

\* playAnimation, given the animation that has been updated.
Chosen(now) == IF Accepted(now) THEN Play(now, newName, Restarts(newName)) ELSE now

\* Mutant: only an attack is counted down.
CountdownOfAttack(now) ==
  IF Accepted(now) /\ newName = "attack" THEN TotalTime(newName) ELSE untilIdle

\* Mutant: the countdown is that of the animation that is left.
CountdownOfCurrent(now) ==
  IF Accepted(now) /\ newName # "idle" THEN TotalTime(now[1]) ELSE untilIdle

Countdown(now) ==
  IF Accepted(now) /\ newName # "idle" THEN TotalTime(newName) ELSE untilIdle

SoundsWith(now) ==
  IF Accepted(now) /\ newName = "attack" THEN Append(sounds, SoundDelay) ELSE sounds

IsUnitAlive == hp > 0

\* The sounds that are due are played and erased.
SoundsLeft(all, elapsed) ==
  SelectSeq([i \in DOMAIN all |-> all[i] - elapsed], LAMBDA d : d > 0)

Show(now) == /\ name' = now[1] /\ index' = now[2] /\ time' = now[3] /\ age' = now[4]

UpdateBy(elapsed) ==
  \E now \in {Updated(<<name, index, time, age>>, PaceOf(name, elapsed))} :
    LET left == Countdown(now)
        over == IsUnitAlive /\ left # -1 /\ left - elapsed <= 0
    IN
    /\ newName' = None
    /\ \E shown \in {IF over THEN Play(Chosen(now), "idle", FALSE) ELSE Chosen(now)} : Show(shown)
    /\ untilIdle' = IF over THEN -1 ELSE IF IsUnitAlive /\ left # -1 THEN left - elapsed ELSE left
    /\ sounds' = SoundsLeft(SoundsWith(now), elapsed)
    /\ early' = IF Accepted(now) THEN elapsed > 0 ELSE early
    /\ UNCHANGED <<playing, hp, slope, told>>

\* The update of the objects of the game.
Update == turn = "unit" /\ turn' = "state" /\ UpdateBy(Elapsed)

\* StateGame::onDraw updates the units that are alive before it draws them.
DrawAlive == turn = "draw" /\ turn' = "unit" /\ IsUnitAlive /\ UpdateBy(0)

DrawDead ==
  /\ turn = "draw" /\ turn' = "unit" /\ ~IsUnitAlive
  /\ UNCHANGED <<playing, animation, unit, age, told, early>>

\* The game loop draws, or makes up for lost time with another update.
UpdateIsOver == turn' \in {"draw", "unit"}

-----------------------------------------------------------------------------
(* StateGame *)

\* Unit::updateState. A frame need not name an animation.
UpdateState(h, n, s) ==
  /\ hp' = h /\ slope' = s
  /\ newName' = IF n = None THEN newName ELSE n
  /\ told' = n

\* What the simulation may send: the dead get "death", and nothing but that.
SimulationFrame ==
  /\ turn = "state" /\ UpdateIsOver
  /\ playing
  /\ hp' \in 0..hp /\ slope' \in Pace /\ told' \in (Name \ {"idle"}) \cup {None}
  /\ hp' < hp => told' # None /\ (hp' = 0 <=> told' = "death")
  /\ hp' = hp /\ hp = 0 => told' \in {None, "death"}
  /\ hp' = hp /\ hp > 0 => told' \in {None, "walk", "attack", "spell"}
  /\ UpdateState(hp', told', slope')
  /\ UNCHANGED <<playing, animation, untilIdle, sounds, age, early>>

\* A frame of the game that shows no new frame of the simulation.
OtherFrame ==
  /\ turn = "state" /\ UpdateIsOver
  /\ UNCHANGED <<playing, animation, unit, age, told, early>>

StartPlayback ==
  /\ turn = "state" /\ UpdateIsOver
  /\ ~playing /\ playing' = TRUE
  /\ UNCHANGED <<animation, unit, age, told, early>>

\* Unit::resetForNewRound.
ResetForNewRound ==
  Show(Play(<<name, index, time, age>>, "idle", TRUE)) /\ untilIdle' = -1

\* The end of the playback: resetAllUnits sends the unit to the start of the
\* round with all its hit points, then every unit is reset.
EndPlayback ==
  /\ turn = "state" /\ UpdateIsOver
  /\ playing /\ playing' = FALSE
  /\ UpdateState(MaxHP, "idle", Elapsed)
  /\ ResetForNewRound
  /\ UNCHANGED <<sounds, early>>

-----------------------------------------------------------------------------

Init ==
  /\ turn = "unit" /\ playing = FALSE
  /\ name = "idle" /\ index = 1 /\ time = 0 /\ age = 0
  /\ newName = None /\ untilIdle = -1 /\ hp = MaxHP /\ slope = Elapsed
  /\ sounds = <<>> /\ told = None /\ early = FALSE

State == SimulationFrame \/ OtherFrame \/ StartPlayback \/ EndPlayback

Next == Update \/ State \/ DrawAlive \/ DrawDead

\* The game loop goes on for ever.
Spec == Init /\ [][Next]_vars /\ WF_vars(Next)

-----------------------------------------------------------------------------
(* Properties *)

TypeOK ==
  /\ turn \in {"unit", "state", "draw"} /\ playing \in BOOLEAN
  /\ name \in Name /\ index \in DOMAIN Times(name) /\ time \in Nat
  /\ newName \in Name \cup {None} /\ untilIdle \in Int
  /\ hp \in 0..MaxHP /\ slope \in Nat \ {0}
  /\ sounds \in Seq(1..SoundDelay) /\ early \in BOOLEAN

\* The frame that is drawn is the one that the time since the start of the
\* animation asks for: time is neither lost nor counted twice when an update is
\* longer than a frame or ends within one, at whatever pace the unit walks.
FrameIsDue == index = FrameAt(name, age)

\* A unit that has lost its last hit point falls with the next update.
DeadFallStep ==
  turn = "unit" /\ hp = 0 => name' = "death"
DeadFall == [][DeadFallStep]_vars

\* An attack or a reaction to damage that nothing better interrupts is shown to its
\* end when drawing chose the animation, with the frame that told of it. The update
\* that chooses one counts it down at once (unit.cpp:73) and shows it for one update less.
ShownToTheEndStep ==
  (name \in {"attack", "damage"} /\ name' = "idle" /\ playing' = playing)
    => age + (IF early THEN 2 ELSE 1) * Elapsed >= TotalTime(name)
ShownToTheEnd == [][ShownToTheEndStep]_vars

\* A living unit that is told nothing new is idle in the end.
IdleAgain == <>[](told \in {None, "idle"} /\ hp > 0) => <>[](name = "idle")

=============================================================================
