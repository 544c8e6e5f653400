------------------------------ MODULE Playback ------------------------------
(* StateGame of one client after its round was simulated: the playback of   *)
(* the frames the server sent, the Unit objects that show them, and the     *)
(* internal states around it. A frame of the game is three steps: the       *)
(* objects are updated, then the active internal state, then both are drawn *)
(* and the player may click. The objects live in the GameObjectCollection;  *)
(* m_units refers to them weakly.                                           *)
EXTENDS Integers, Sequences, FiniteSets, SequencesExt

CONSTANTS
  MaxRound,      \* bound on the rounds
  MaxFrames,     \* bound on the frames of a simulation
  MaxRoster,     \* bound on the units each player ever places
  InitialHP,     \* GP::InitialPlayerHP
  Overflow       \* frames of m_playbackOverflowTime

Player == {0, 1}     \* this client is player 0

BoundAssumption ==
  /\ MaxRound \in Nat \ {0} /\ MaxFrames \in Nat \ {0} /\ MaxRoster \in [Player -> Nat]
  /\ InitialHP \in Nat \ {0} /\ Overflow \in Nat \ {0}

HpMax == 1

VARIABLES
  \* the server: its units with their levels, the ids it has seen, the health
  \* of the players, and the results that are on their way
  roster, ids, serverHP, results,
  \* the game state
  step,          \* what the frame does next: "objects", "state" or "draw"
  state,         \* InternalStateManager::m_activeState
  frames,        \* m_simulationResultsForAllFrames
  tick,          \* m_tickId
  overflow,      \* m_playbackOverflowTime, in frames
  round,         \* m_round
  playerHP,      \* m_playerHP
  running,       \* m_running
  \* the units
  objects,       \* Unit objects of the GameObjectCollection
  toAdd,         \* those in m_objectsToAdd
  killed,        \* those that kill() was called for
  unit,          \* what each Unit object shows
  group,         \* m_units
  \* history
  sold,          \* ids of the player's units sold in this phase
  single         \* a simulation had no more than one frame

server  == <<roster, ids, serverHP, results>>
game    == <<state, frames, tick, overflow, round, playerHP, running>>
display == <<objects, toAdd, killed, unit, group>>
history == <<sold, single>>
vars    == <<server, step, game, display, history>>

-----------------------------------------------------------------------------
(* The server, as far as its results go *)

\* A round: the units fall in some frame or never (0). It ends with the first
\* frame in which a player has no unit, at the latest with the last one; that
\* frame has the health of the players.
Standing(fall, p, f) == {u \in DOMAIN fall : u[1] = p /\ (fall[u] = 0 \/ fall[u] > f)}

LengthOf(fall) ==
  CHOOSE f \in 1..MaxFrames :
    /\ f = MaxFrames \/ \E p \in Player : Standing(fall, p, f) = {}
    /\ \A g \in 1..(f - 1) : \A p \in Player : Standing(fall, p, g) # {}

Damaged(fall, f) ==
  [p \in Player |-> serverHP[p] - Cardinality(Standing(fall, 1 - p, f))]

FramesOf(fall, level) ==
  LET n == LengthOf(fall)
  IN  [f \in 1..n |->
         [units |-> [u \in DOMAIN fall |->
                       [hp |-> IF fall[u] = 0 \/ fall[u] > f THEN HpMax ELSE 0,
                        level |-> IF f = n THEN level[u] ELSE roster[u]]],
          hp |-> IF f = n THEN Damaged(fall, f) ELSE <<>>]]

\* Units gain a level or not, the same for all units of a player.
Simulate(units) ==
  \E fall \in [units -> 0..MaxFrames], gain \in [Player -> 0..1] :
    \E n \in {LengthOf(fall)} :
    \E level \in {[u \in units |-> roster[u] + gain[u[1]]]} :
      /\ \A u \in units : fall[u] <= n
      /\ roster' = level
      /\ results' = FramesOf(fall, level)
      /\ serverHP' = Damaged(fall, n)

-----------------------------------------------------------------------------
(* Units *)

\* References that findOrCreateUnit can lock.
Locked(g, live) == {i \in 1..Len(g) : g[i] \in live}

\* playbackOneFrame, the part about units: each one of the frame is found in
\* m_units or created, and takes over what the frame says.
Shown(u, data, old) ==
  [id |-> u, hp |-> data.hp, level |-> IF data.level # 1 THEN data.level ELSE old]

\* Mutant: a frame always creates its units.
RefForNone(u) == 0

\* findOrCreateUnit: the first reference that is alive and has the id of u.
RefFor(u) ==
  LET refs == {i \in Locked(group, objects \cup toAdd) : unit[group[i]].id = u}
  IN  IF refs = {} THEN 0 ELSE group[CHOOSE i \in refs : \A j \in refs : i <= j]

PlayUnits(data) ==
  \E missing \in {{u \in DOMAIN data : RefFor(u) = 0}} :
  \E new \in {SetToSeq(missing)} :
  \E object \in {[u \in DOMAIN data |->
                   IF u \in missing
                   THEN Len(unit) + CHOOSE k \in 1..Len(new) : new[k] = u
                   ELSE RefFor(u)]} :
    /\ unit' = [o \in 1..(Len(unit) + Len(new)) |->
                  IF \E u \in DOMAIN data : object[u] = o
                  THEN LET u == CHOOSE u \in DOMAIN data : object[u] = o
                       IN  Shown(u, data[u], IF o > Len(unit) THEN 1 ELSE unit[o].level)
                  ELSE unit[o]]
    /\ group' = group \o [k \in 1..Len(new) |-> Len(unit) + k]
    /\ toAdd' = toAdd \cup {Len(unit) + k : k \in 1..Len(new)}
    /\ UNCHANGED <<objects, killed>>

\* Mutant: the other player's health is looked at first.
OutcomeOfOther(hp, otherwise) ==
  IF hp = <<>> THEN otherwise
  ELSE IF hp[1] <= 0 THEN "EndWin"
  ELSE IF hp[0] <= 0 THEN "EndLose" ELSE otherwise

\* The part about the health of the players, which may end the game.
Outcome(hp, otherwise) ==
  IF hp = <<>> THEN otherwise
  ELSE IF hp[0] <= 0 THEN "EndLose"
  ELSE IF hp[1] <= 0 THEN "EndWin" ELSE otherwise

PlayOneFrame(frame) ==
  /\ PlayUnits(frame.units)
  /\ playerHP' = IF frame.hp = <<>> THEN playerHP ELSE frame.hp

-----------------------------------------------------------------------------
(* Transitions of InternalStateManager *)

FirstTick == 1

\* startPlayback drops the references; the units they were to live on.
StartPlayback ==
  /\ state' = "Playback"
  /\ frames' = results
  /\ results' = <<>>
  /\ tick' = FirstTick
  /\ group' = <<>>
  /\ UNCHANGED <<roster, ids, serverHP, overflow, round, playerHP, running,
                 objects, toAdd, killed, unit, history>>

\* resetAllUnits: the first frame again, with full health and what the last
\* one says of experience and level.
Restored ==
  LET first == frames[1]
      last == frames[Len(frames)]
  IN  [first EXCEPT !.units =
         [u \in DOMAIN first.units |->
            [hp |-> HpMax, level |-> last.units[u].level]]]

\* Playback -> PlaceUnits: whatever resetSimulation makes of the state, the
\* switch goes on to the placement. resetForNewRound locks every reference.
ResetSimulation ==
  /\ PlayOneFrame(Restored)
  /\ state' = "PlaceUnits"
  /\ tick' = FirstTick
  /\ round' = round + 1
  /\ sold' = <<>>
  /\ single' = (single \/ Len(frames) = 1)
  /\ UNCHANGED <<frames, server, running>>

-----------------------------------------------------------------------------
(* One frame of the game *)

\* Mutant: references to units that are gone are kept.
KeptRefs(g, live) == g

\* ObjectGroup::doUpdate.
LiveRefs(g, live) == SelectSeq(g, LAMBDA o : o \in live)

\* Mutant: killed objects stay in the collection.
KillForgotten(all, dead) == all

\* GameObjectCollection::cleanUpObjects.
CleanUp(all, dead) == all \ dead

\* GameObjectCollection::update: new objects join, killed ones are destroyed,
\* and the group, which is one of the objects, drops what has expired.
UpdateObjects ==
  /\ step = "objects"
  /\ step' = "state"
  /\ objects' = CleanUp(objects \cup toAdd, killed)
  /\ toAdd' = {}
  /\ killed' = {}
  /\ group' = LiveRefs(group, objects')
  /\ UNCHANGED <<server, game, unit, history>>

StateStep == step = "state" /\ step' = "draw"

\* Playback::update.
PlaybackFrame ==
  /\ StateStep /\ running /\ state = "Playback"
  /\ tick < Len(frames)
  /\ tick' = tick + 1
  /\ PlayOneFrame(frames[tick + 1])
  /\ state' = Outcome(frames[tick + 1].hp, state)
  /\ UNCHANGED <<server, frames, overflow, round, running, history>>

\* Mutant: no time passes.
NoTime(t) == t

Elapsed(t) == t - 1

PlaybackOverflow ==
  /\ StateStep /\ running /\ state = "Playback"
  /\ tick = Len(frames)
  /\ IF Elapsed(overflow) = 0
     THEN overflow' = Overflow /\ ResetSimulation
     ELSE /\ overflow' = Elapsed(overflow)
          /\ UNCHANGED <<server, state, frames, tick, round, playerHP, running,
                         display, history>>

\* WaitForSimulationResults::update.
WaitForResults ==
  /\ StateStep /\ running /\ state = "WaitForSimulationResults"
  /\ IF results = <<>> THEN UNCHANGED <<server, game, display, history>>
                       ELSE StartPlayback

\* PlaceUnits::update, a click on a unit while units are sold.
SellUnit ==
  /\ StateStep /\ running /\ state = "PlaceUnits"
  /\ \E i \in Locked(group, objects \cup toAdd) :
       /\ unit[group[i]].id[1] = 0
       /\ killed' = killed \cup {group[i]}
       /\ sold' = Append(sold, unit[group[i]].id[2])
  /\ UNCHANGED <<server, game, objects, toAdd, unit, group, single>>

\* Any other frame of the state PlaceUnits, of the end of the game, or of a
\* game that was left.
OtherFrame ==
  /\ StateStep
  /\ ~running \/ state \in {"PlaceUnits", "EndLose", "EndWin"}
  /\ UNCHANGED <<server, game, display, history>>

\* endGame, from the keyboard: the states are not updated any more.
EndGame ==
  /\ step = "state" /\ running
  /\ running' = FALSE
  /\ UNCHANGED <<server, step, state, frames, tick, overflow, round, playerHP,
                 display, history>>

DrawStep == step = "draw" /\ step' = "objects"

Draw == DrawStep /\ UNCHANGED <<server, game, display, history>>

\* The button of PlaceUnits::draw: the sold units and the new ones, of both
\* players, reach the server, which simulates the round.
EndPlacement ==
  /\ DrawStep /\ state = "PlaceUnits" /\ round <= MaxRound
  /\ state' = "WaitForSimulationResults"
  /\ LET kept == {u \in DOMAIN roster : u[1] # 0 \/ ~Contains(sold, u[2])} IN
       \E n \in [Player -> 0..1] :
         /\ \A p \in Player : ids[p] + n[p] <= MaxRoster[p]
         /\ ids' = [p \in Player |-> ids[p] + n[p]]
         /\ roster' = [u \in kept \cup {<<p, ids[p]>> : p \in {q \in Player : n[q] = 1}} |->
                         IF u \in kept THEN roster[u] ELSE 1]
  /\ UNCHANGED <<serverHP, results, frames, tick, overflow, round, playerHP,
                 running, display, history>>

\* The server's part of a round.
Simulation ==
  /\ state = "WaitForSimulationResults" /\ results = <<>>
  /\ Simulate(DOMAIN roster)
  /\ UNCHANGED <<ids, step, game, display, history>>

-----------------------------------------------------------------------------
Init ==
  /\ roster = <<>> /\ ids = [p \in Player |-> 0]
  /\ serverHP = [p \in Player |-> InitialHP]
  /\ results = <<>>
  /\ step = "objects" /\ state = "PlaceUnits"
  /\ frames = <<>> /\ tick = FirstTick /\ overflow = Overflow /\ round = 1
  /\ playerHP = serverHP
  /\ running = TRUE
  /\ objects = {} /\ toAdd = {} /\ killed = {} /\ unit = <<>> /\ group = <<>>
  /\ sold = <<>> /\ single = FALSE

Loop ==
  \/ UpdateObjects \/ PlaybackFrame \/ PlaybackOverflow \/ WaitForResults
  \/ OtherFrame \/ Draw \/ Simulation

Next == Loop \/ SellUnit \/ EndGame \/ EndPlacement

\* The game loop and the server's update go on for ever.
Spec == Init /\ [][Next]_vars /\ WF_vars(Loop)

-----------------------------------------------------------------------------
(* Properties *)

TypeOK ==
  /\ step \in {"objects", "state", "draw"}
  /\ state \in {"PlaceUnits", "WaitForSimulationResults", "Playback",
                "EndLose", "EndWin"}
  /\ tick \in Nat \ {0} /\ overflow \in 1..Overflow /\ round \in 1..(MaxRound + 1)
  /\ playerHP \in [Player -> Int] /\ serverHP \in [Player -> Int]
  /\ running \in BOOLEAN
  /\ objects \cup toAdd \cup killed \subseteq DOMAIN unit
  /\ \A i \in 1..Len(group) : group[i] \in DOMAIN unit
  /\ \A o \in DOMAIN unit : unit[o].hp \in 0..HpMax /\ unit[o].level \in Nat

\* Whenever the internal state runs, every reference of m_units can be locked:
\* the transition to the placement dereferences all of them.
RefsAlive ==
  step = "state" =>
    \A i \in 1..Len(group) : group[i] \in objects \cup toAdd

\* No unit is sold twice: the one that was sold is gone before another click.
SoldOnce == IsInjective(sold)

\* When the placement begins and until something is sold, the player sees the
\* units the server has: each one once, with full health and its level.
ArmyShown ==
  state = "PlaceUnits" /\ sold = <<>> =>
    /\ {unit[group[i]].id : i \in 1..Len(group)} = DOMAIN roster
    /\ Len(group) = Cardinality(DOMAIN roster)
    /\ \A i \in 1..Len(group) :
         LET u == unit[group[i]] IN u.hp = HpMax /\ u.level = roster[u.id]

\* A player who is beaten, or who has won, is told so: the game does not go on
\* behind it, unless a simulation had no more than one frame.
ResultTold ==
  /\ ~single /\ (\E p \in Player : playerHP[p] <= 0) =>
       state \in {"EndLose", "EndWin"}
  /\ state = "EndWin" => playerHP[0] > 0

\* Every playback comes to its end, of the round or of the game.
PlaybackOver == state # "Playback" \/ ~running
PlaybackEnds == []<>PlaybackOver
=============================================================================
