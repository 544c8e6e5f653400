------------------------- MODULE SpatialObjectGrid --------------------------
(* SpatialObjectGrid: weak pointers to objects, sorted into square cells,   *)
(* so that the objects around a position are found without looking at all   *)
(* of them. Objects move and die at any time; the grid follows in its       *)
(* update, cell by cell.                                                    *)
EXTENDS Integers, Sequences, SequencesExt, FiniteSets

CONSTANTS
  Object,
  Position,      \* positions of objects and of queries: pairs of integers
  Distance,      \* distances of queries
  CellSize,
  MaxEvents      \* bound on what happens to the objects

SpatialObjectGridAssumption ==
  /\ Position \subseteq Int \X Int /\ Distance \subseteq Nat
  /\ CellSize \in Nat \ {0} /\ MaxEvents \in Nat

VARIABLES
  alive,         \* objects that somebody owns
  pos,           \* their positions
  allObjects,    \* m_allObjects
  cells,         \* m_cells
  updated,       \* history: nothing has happened since the last update
  events

vars == <<alive, pos, allObjects, cells, updated, events>>

\* \div rounds down, as std::floor does.
CellIndex(p) == <<p[1] \div CellSize, p[2] \div CellSize>>

Cell == {CellIndex(p) : p \in Position}

\* Mutant: rounds down.
CellsWithin(d) == d \div CellSize

DistanceInCells(d) == (d + CellSize - 1) \div CellSize

Offsets(d) ==
  LET n == DistanceInCells(d) IN (-n..n) \X (-n..n)

\* getObjectsAround, whose order is that of the offsets: which object is found
\* how often.
TimesAround(p, d, o) ==
  Cardinality({ki \in Offsets(d) \X (1..Len(allObjects)) :
    LET c == <<CellIndex(p)[1] + ki[1][1], CellIndex(p)[2] + ki[1][2]>> IN
    c \in Cell /\ ki[2] \in DOMAIN cells[c] /\ cells[c][ki[2]] = o})

Around(p, d) == {o \in Object : TimesAround(p, d, o) > 0}

-----------------------------------------------------------------------------
Event == /\ events < MaxEvents /\ events' = events + 1 /\ updated' = FALSE

\* push_back() of an object that is not in the grid yet.
PushBack ==
  /\ Event
  /\ \E o \in alive \ ToSet(allObjects) :
       /\ allObjects' = Append(allObjects, o)
       /\ cells' = [cells EXCEPT ![CellIndex(pos[o])] = Append(@, o)]
  /\ UNCHANGED <<alive, pos>>

Move ==
  /\ Event
  /\ \E o \in alive, p \in Position : pos' = [pos EXCEPT ![o] = p]
  /\ UNCHANGED <<alive, allObjects, cells>>

Die ==
  /\ Event
  /\ \E o \in alive : alive' = alive \ {o}
  /\ UNCHANGED <<pos, allObjects, cells>>

\* Mutant: those that left the cell are not removed from it.
AllLive(c) == SelectSeq(cells[c], LAMBDA o : o \in alive)

\* Mutant: expired pointers are kept.
DeadStay(c) == SelectSeq(cells[c], LAMBDA o : o \in alive => CellIndex(pos[o]) = c)

\* remove_intersection, and the live objects only.
Staying(c) ==
  SelectSeq(cells[c], LAMBDA o : o \in alive /\ CellIndex(pos[o]) = c)

\* objectsToReplace, a set: each object is pushed once.
Leaving ==
  {o \in alive : \E c \in Cell : o \in ToSet(cells[c]) /\ CellIndex(pos[o]) # c}

\* doUpdate; the order of an unordered_set is arbitrary, and so is the order
\* within a cell, which nobody relies on.
Update ==
  LET back == SetToSeq(Leaving) IN
  /\ ~updated
  /\ cells' = [c \in Cell |->
       Staying(c) \o SelectSeq(back, LAMBDA o : CellIndex(pos[o]) = c)]
  /\ allObjects' = allObjects \o back
  /\ updated' = TRUE
  /\ UNCHANGED <<alive, pos, events>>

Init ==
  /\ alive = Object /\ pos \in [Object -> Position]
  /\ allObjects = <<>> /\ cells = [c \in Cell |-> <<>>]
  /\ updated = TRUE /\ events = 0

Next == PushBack \/ Move \/ Die \/ Update

Spec == Init /\ [][Next]_vars

-----------------------------------------------------------------------------
(* Properties *)

InGrid == ToSet(allObjects) \cap alive

TypeOK ==
  /\ alive \subseteq Object /\ pos \in [Object -> Position]
  /\ ToSet(allObjects) \subseteq Object
  /\ DOMAIN cells = Cell
  /\ \A c \in Cell : ToSet(cells[c]) \subseteq ToSet(allObjects)
  /\ updated \in BOOLEAN /\ events \in 0..MaxEvents

Near(o, p, d) ==
  LET dx == pos[o][1] - p[1]
      dy == pos[o][2] - p[2]
  IN  dx * dx + dy * dy <= d * d

\* After an update, every live object within the distance is found, on both
\* sides of a border of cells and of the origin.
AllFound ==
  updated => \A o \in InGrid, p \in Position, d \in Distance :
    Near(o, p, d) => o \in Around(p, d)

\* No object is in two cells or twice in one, not even between two updates.
FoundOnce ==
  \A o \in Object, p \in Position, d \in Distance : TimesAround(p, d, o) <= 1

\* After an update, the dead are found no more, and nothing beyond the cells
\* that the distance reaches.
OthersNotFound ==
  updated => \A p \in Position, d \in Distance :
    \A o \in Around(p, d) :
      /\ o \in alive
      /\ \A i \in 1..2 :
           LET far == pos[o][i] - p[i]
           IN  far < (DistanceInCells(d) + 1) * CellSize
               /\ -far < (DistanceInCells(d) + 1) * CellSize

=============================================================================
