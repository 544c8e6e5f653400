------------------------------ MODULE Critters ------------------------------
(* The birds, bunnies and deer of the map: they sit where they were put and  *)
(* run from the nearest unit, until the next round puts them back (Critter,  *)
(* CommonFunctions::updateCritters).  Places are pixels on a line, counted   *)
(* in fours; one frame takes a tenth of a second, in which a critter runs    *)
(* four pixels.  No critter sits exactly on a unit: its place is random.     *)
EXTENDS Integers, FiniteSets, FiniteSetsExt

CONSTANTS
    Critter,        \* those placeCritterFn found a place for
    Homes,          \* places with a height that suits them
    Posts,          \* places of units
    MaxUnits,       \* bound on the units of both players
    Edge            \* bound: a critter that has left the map this far stays there

CrittersAssumption ==
    Homes \subseteq Int /\ Posts \subseteq Int /\ Homes \cap Posts = {} /\ MaxUnits \in Nat /\ Edge \in Nat

Fright == 8         \* 32 pixels

Distance(a, b) == IF a < b THEN b - a ELSE a - b

VARIABLES
    phase,      \* the internal state
    army,       \* StateGame::m_units: where each unit is, and where it starts
    placed,     \* m_placedUnits: where they are
    home,       \* m_initialPos
    spot,       \* where the animation of a critter is
    run         \* m_movingDir: 0 while it is not moving

critters == <<home, spot, run>>
vars == <<phase, army, placed, critters>>

Init ==
    /\ phase = "PlaceUnits" /\ army = {} /\ placed = {}
    /\ home \in [Critter -> Homes] /\ spot = home
    /\ run = [c \in Critter |-> 0]

-----------------------------------------------------------------------------
(* Critter::doUpdate, of all critters.                                       *)
Moved == [c \in Critter |->
    IF spot[c] + run[c] \in -Edge .. Edge THEN spot[c] + run[c] ELSE spot[c]]

(* Mutant: the last unit within reach is the one to run from.                *)
SomeUnit(c, units) == Max(units)

(* The unit nearest to the home of a critter, the first one of several.      *)
ClosestUnit(c, units) ==
    CHOOSE u \in units : \A v \in units : Distance(home[c], u) <= Distance(home[c], v)

(* Mutant: a critter that runs already looks around again.                   *)
FrightenedAgain(c, dir, units) ==
    IF units = {} THEN dir
    ELSE LET u == ClosestUnit(c, units)
         IN IF Distance(home[c], u) >= Fright THEN dir
            ELSE IF home[c] > u THEN 1 ELSE -1

(* setClosestUnitPosition; without any unit the position is far off the map. *)
Frightened(c, dir, units) ==
    IF dir # 0 \/ units = {} THEN dir
    ELSE LET u == ClosestUnit(c, units)
         IN IF Distance(home[c], u) >= Fright THEN 0
            ELSE IF home[c] > u THEN 1 ELSE -1

(* Mutant: units placed in this round are overlooked.                        *)
AllUnitsOfArmy(a, p) == {u.at : u \in a}

AllUnits(a, p) == {u.at : u \in a} \cup p

(* updateCritters, for the units as they are at the end of the frame.        *)
UpdateCritters(dir, a, p) == run' = [c \in Critter |-> Frightened(c, dir[c], AllUnits(a, p))]

(* A frame of the placing phase, before which the player may place a unit.   *)
PlacingFrame == \E new \in SUBSET Posts :
    /\ phase = "PlaceUnits"
    /\ Cardinality(new) <= 1 /\ Cardinality(army) + Cardinality(placed \cup new) <= MaxUnits
    /\ new \cap {u.at : u \in army} = {}
    /\ placed' = placed \cup new
    /\ spot' = Moved
    /\ UpdateCritters(run, army, placed')
    /\ UNCHANGED <<phase, army, home>>

(* The player is ready: the placed units are sent off and cleared; they and  *)
(* those of the opponent are there when the playback starts.                 *)
StartPlayback == \E others \in SUBSET Posts :
    /\ phase = "PlaceUnits" /\ phase' = "Playback"
    /\ Cardinality(army) + Cardinality(placed \cup others) <= MaxUnits
    /\ (others \cup placed) \cap {u.at : u \in army} = {}
    /\ army' = army \cup {[at |-> p, start |-> p] : p \in placed \cup others}
    /\ placed' = {}
    /\ spot' = Moved
    /\ UNCHANGED <<home, run>>

(* A frame of the playback: units walk, and the critters see them at once.   *)
PlaybackFrame == \E u \in army \cup {[at |-> 0, start |-> 0]}, step \in {-2, 2} :
    /\ phase = "Playback"
    /\ army' = (army \ {u}) \cup (IF u \in army THEN {[u EXCEPT !.at = @ + step]} ELSE {})
    /\ \A v \in army' : v.at \in Min(Posts) .. Max(Posts) /\ v.at \notin Homes
    /\ spot' = Moved
    /\ UpdateCritters(run, army', placed)
    /\ UNCHANGED <<phase, placed, home>>

PutBack == home

(* The last frame of the playback: the transition puts critters and units    *)
(* back, and the same frame looks for units near them.                       *)
NextRound ==
    /\ phase = "Playback" /\ phase' = "PlaceUnits"
    /\ army' = {[u EXCEPT !.at = u.start] : u \in army}
    /\ spot' = PutBack
    /\ UpdateCritters([c \in Critter |-> 0], army', placed)
    /\ UNCHANGED <<placed, home>>

Next == PlacingFrame \/ StartPlayback \/ PlaybackFrame \/ NextRound

Spec == Init /\ [][Next]_vars

-----------------------------------------------------------------------------
Updates == PlacingFrame \/ PlaybackFrame \/ NextRound
Near(c) == {p \in placed \cup {u.at : u \in army} : Distance(home[c], p) < Fright}

(* After a frame no critter sits within reach of a unit of either player,    *)
(* placed just now, walked up or put back to its start.                      *)
NoneSitsNearStep ==
  Updates => \A c \in Critter : run'[c] = 0 => Near(c)' = {}
NoneSitsNear == [][NoneSitsNearStep]_vars

(* A critter that starts runs away from a unit to which no other is nearer.  *)
FromTheNearestStep ==
  \A c \in Critter : run[c] = 0 /\ run'[c] # 0 =>
    \E u \in Near(c)' :
        /\ (home[c] - u) * run'[c] > 0
        /\ \A v \in Near(c)' : Distance(home[c], u) <= Distance(home[c], v)
FromTheNearest == [][FromTheNearestStep]_vars

(* Once it runs it never turns, whatever comes its way, until the round ends.*)
NeverTurnsStep ==
  ~NextRound =>
    \A c \in Critter : Distance(spot[c], home[c]) <= Distance(spot'[c], home[c])
NeverTurns == [][NeverTurnsStep]_vars

=============================================================================
