------------------------------ MODULE Marching ------------------------------
(* How units move in a round of GameSimulation: the physics moves the bodies,*)
(* some units fall, and then one after the other looks for the closest enemy *)
(* and walks or stands (ServerUnit::update and the AIs).  What Simulation    *)
(* leaves out is all there is here, and the other way round: in a frame any  *)
(* unit may fall.  Places are on a line; bodies pass each other there, as    *)
(* they go around each other in the plane.                                   *)
EXTENDS Integers, FiniteSetsExt

CONSTANTS
    Units,      \* m_simulationObjects: [owner, kind, reach, pace] of each
    Width,      \* terrainWidthInChunks * terrainChunkSizeInPixel
    Edge,       \* the last place clampPositionToScreen leaves a unit at
    Height      \* height of the field at each place

Index == DOMAIN Units

(* Walking up halves a step, walking down makes it half as long again.       *)
Fastest == 3

MarchingAssumption ==
    /\ Edge \in Nat /\ Width \in Nat /\ Edge < Width
    /\ Height \in [-Width .. 2 * Width -> Nat]
    /\ \A u \in Index :
          /\ Units[u].owner \in {0, 1} /\ Units[u].pace \in {0, 2}
          /\ Units[u].kind \in {"close", "shooter", "weaver"}
          /\ Units[u].reach >= 2 * Fastest

VARIABLES
    alive,      \* m_hp > 0
    pos,        \* m_pos
    body,       \* position of m_physicsObject
    velocity    \* its velocity, in places per frame

vars == <<alive, pos, body, velocity>>

Distance(a, b) == IF a < b THEN b - a ELSE a - b
Sign(n) == IF n > 0 THEN 1 ELSE IF n < 0 THEN -1 ELSE 0

-----------------------------------------------------------------------------
(* Units are updated in the order of their numbers.  What unit u sees of v   *)
(* when its AI looks around: those before it have moved already.             *)
SeenAt(u, v) == IF v < u THEN pos'[v] ELSE pos[v]

Enemies(u) == {v \in Index : alive'[v] /\ Units[v].owner # Units[u].owner}
Away(u, v) == Distance(pos[u], SeenAt(u, v))

(* getClosestTargetTo: the first of the closest.                             *)
ClosestTarget(u) ==
    LET near == Min({Away(u, v) : v \in Enemies(u)})
    IN Min({v \in Enemies(u) : Away(u, v) = near})

(* Mutant: uphill is too much for a unit.                                    *)
TooSteep(pace, slope) ==
    IF slope > 0 THEN 0 ELSE IF slope = 0 THEN pace ELSE (pace * 3) \div 2

(* convertSlopeToSpeedFactor, with one step for each direction of a slope.   *)
SpeedOn(pace, slope) ==
    IF slope > 0 THEN pace \div 2 ELSE IF slope = 0 THEN pace ELSE (pace * 3) \div 2

LocalSlope(p, dir) == Height[p + dir] - Height[p]

(* A shooter on a hill reaches farther.                                      *)
AttackRange(u) == Units[u].reach + IF Units[u].kind = "shooter" THEN Height[pos[u]] ELSE 0

InRange(u, dist) ==
    IF Units[u].kind = "close" THEN dist < AttackRange(u) ELSE dist <= AttackRange(u)

(* The velocity the AI of a unit gives it: it still stands where it was a    *)
(* frame ago.                                                                *)
AiVelocity(u) ==
    IF Units[u].kind = "weaver" \/ Enemies(u) = {} THEN 0
    ELSE LET v == ClosestTarget(u)
             dir == Sign(SeenAt(u, v) - pos[u])
         IN IF InRange(u, Away(u, v)) THEN 0 ELSE dir * SpeedOn(Units[u].pace, LocalSlope(pos[u], dir))

(* Mutant: only the left side of the screen is looked at.                    *)
ClampLeft(p) == Max({0, p})

ClampPositionToScreen(p) == IF p <= 0 THEN 0 ELSE IF p >= Edge THEN Edge ELSE p

(* Where the physics has a body; a weaver's AI puts it back.                 *)
StepOfWorld(u) ==
    IF Units[u].kind = "weaver" /\ alive[u] THEN pos[u]
    ELSE Max({-Width + 1, Min({2 * Width - 1, body[u] + velocity[u]})})

(* Where the body is after ServerUnit::update, which does nothing to those   *)
(* who have fallen.                                                          *)
BodyAfter(u) == IF alive'[u] THEN ClampPositionToScreen(StepOfWorld(u)) ELSE StepOfWorld(u)

(* m_pos follows the body of the living.                                     *)
PositionAfter(u) == IF alive'[u] THEN BodyAfter(u) ELSE pos[u]

BothThere == \A p \in {0, 1} : \E u \in Index : alive[u] /\ Units[u].owner = p

(* One frame of performSimulation; a round is over once a side has fallen    *)
(* (checkIsLastFrame).                                                       *)
FrameInWhich(fallen) ==
    /\ BothThere
    /\ alive' = [u \in Index |-> alive[u] /\ u \notin fallen]
    /\ body' = [u \in Index |-> BodyAfter(u)]
    /\ pos' = [u \in Index |-> PositionAfter(u)]
    /\ velocity' = [u \in Index |-> IF alive'[u] THEN AiVelocity(u) ELSE velocity[u]]

(* Anybody may fall: Simulation has by what.                                 *)
Frame == \E fallen \in SUBSET {u \in Index : alive[u]} : FrameInWhich(fallen)

(* The clients place units on the fields of the map, which reaches beyond    *)
(* the place where units are stopped.                                        *)
Init ==
    /\ alive = [u \in Index |-> TRUE]
    /\ pos \in [Index -> {0, Edge \div 2, Width - 1}]
    /\ body = pos
    /\ velocity = [u \in Index |-> 0]

(* The frames of a round go on, and in all but a few of them nobody falls.   *)
Spec == Init /\ [][Frame]_vars /\ WF_vars(FrameInWhich({}))

-----------------------------------------------------------------------------
(* After a frame every living unit is where the screen shows it, and so is   *)
(* its body, however fast it came and wherever it was placed                 *)
(* (clampPositionToScreen runs after the AI, and moves the body too).        *)
OnTheScreenStep ==
  \A u \in Index : alive'[u] => pos'[u] \in 0 .. Edge /\ body'[u] = pos'[u]
OnTheScreen == [][OnTheScreenStep]_vars

Mobile == \E u \in Index : alive[u] /\ Units[u].pace > 0
Contact == \E u, v \in Index :
    /\ alive[u] /\ alive[v] /\ Units[u].owner # Units[v].owner /\ Units[u].pace > 0
    /\ Distance(pos[u], pos[v]) <= AttackRange(u)

(* As long as somebody can walk, the armies meet: hills, the edge of the     *)
(* screen, the position of a frame ago that the AI sees and those who fall   *)
(* on the way do not keep them apart.                                        *)
Met == BothThere /\ Mobile => Contact
ArmiesMeet == []<>Met

(* A unit that could walk and stands has nobody left to fight or an enemy    *)
(* close enough, also with the frame between what it sees and where it is.   *)
IdleHaveReasonStep ==
  \A u \in Index :
    alive'[u] /\ velocity'[u] = 0 /\ Units[u].pace > 0 =>
        \/ \A v \in Index : alive'[v] => Units[v].owner = Units[u].owner
        \/ \E v \in Index :
             /\ alive'[v] /\ Units[v].owner # Units[u].owner
             /\ Distance(pos'[u], pos'[v]) <= Units[u].reach + Height[pos[u]] + 2 * Fastest
IdleHaveReason == [][IdleHaveReasonStep]_vars

=============================================================================
