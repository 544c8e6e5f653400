----------------------------- MODULE Pathfinder -----------------------------
(* NodeLayer and calculatePath(): the nodes of the tiles of a layer are     *)
(* connected with their free neighbours; a search from the end visits the   *)
(* nodes nearest to the start first and gives each node it sees a value;    *)
(* the path then follows the smallest values from the start. Marks and      *)
(* values stay in the nodes until reset() is called.                        *)
EXTENDS Integers, Sequences, SequencesExt, FiniteSets

CONSTANTS
  Tile,        \* positions of the tiles: pairs of naturals
  Mazes        \* sets of tiles that may be blocked

PathfinderAssumption ==
  Tile \subseteq Nat \X Nat /\ Mazes \subseteq SUBSET Tile

VARIABLES
  blocked,     \* m_isBlocked when the connections were made
  visited,     \* m_visited
  value,       \* m_value, in thousandths, Unset if none
  phase,       \* "idle", "search", "walk", "done" or "crash"
  start, end,  \* arguments of calculatePath
  toCheck,     \* its open list
  path         \* its result

marks == <<visited, value>>
query == <<start, end>>
vars  == <<blocked, marks, phase, query, toCheck, path>>

Unset == -1

\* The offsets of createNodeConnections, in its order.
Offset == << <<-1, -1>>, <<-1, 0>>, <<-1, 1>>, <<0, -1>>,
             <<0, 1>>, <<1, -1>>, <<1, 0>>, <<1, 1>> >>

Free == Tile \ blocked

Plus(t, o) == <<t[1] + o[1], t[2] + o[2]>>

\* Mutant: blocked tiles are not left out.
NeighboursInLayer(t) ==
  SelectSeq([i \in 1..8 |-> Plus(t, Offset[i])], LAMBDA n : n \in Tile)

\* m_neighbours, with diagonals, past blocked corners as well.
Neighbours(t) ==
  IF t \in blocked THEN <<>>
  ELSE SelectSeq([i \in 1..8 |-> Plus(t, Offset[i])], LAMBDA n : n \in Free)

\* calculateDistance of two neighbours, and its square for any two nodes.
Step(a, b) == IF a[1] = b[1] \/ a[2] = b[2] THEN 1000 ELSE 1414

DistanceSquared(a, b) == (a[1] - b[1]) * (a[1] - b[1]) + (a[2] - b[2]) * (a[2] - b[2])

\* Mutant: a node without a value gets none.
KeepUnset(old, new) == IF old > new THEN new ELSE old

\* setNeighbourValue
BetterValue(old, new) == IF old = Unset \/ old > new THEN new ELSE old

Unvisited(n, seen) == SelectSeq(Neighbours(n), LAMBDA m : m \notin seen)

\* Mutant: the value is set before wasVisited() is asked.
OpenedSwapped(n, open, val, seen) ==
  /\ toCheck' = open \o Unvisited(n, seen)
  /\ value' = [m \in Tile |->
       IF m \in ToSet(Neighbours(n)) THEN BetterValue(val[m], val[n] + Step(n, m)) ELSE val[m]]

\* addNeighboursToToCheck: the open list may hold a node several times.
Opened(n, open, val, seen) ==
  LET new == Unvisited(n, seen) IN
  /\ toCheck' = open \o new
  /\ value' = [m \in Tile |->
       IF m \in ToSet(new) THEN BetterValue(val[m], val[n] + Step(n, m)) ELSE val[m]]

\* findClosestNodeTo: the first one of those nearest to the start.
Closest ==
  toCheck[CHOOSE i \in DOMAIN toCheck :
    \A j \in DOMAIN toCheck :
      LET di == DistanceSquared(toCheck[i], start)
          dj == DistanceSquared(toCheck[j], start)
      IN  di < dj \/ (di = dj /\ i <= j)]

Without(s, n) == SelectSeq(s, LAMBDA m : m # n)

-----------------------------------------------------------------------------
CalculatePath ==
  /\ phase = "idle"
  /\ start' \in Tile /\ end' \in Tile
  /\ path' = <<>>
  /\ IF start' = end'
       THEN phase' = "done" /\ UNCHANGED <<marks, toCheck>>
       ELSE /\ phase' = "search"
            /\ visited' = visited \cup {end'}
            /\ Opened(end', <<>>, [value EXCEPT ![end'] = 0], visited')
  /\ UNCHANGED blocked

NoPathFound ==
  /\ phase = "search" /\ toCheck = <<>>
  /\ phase' = "done"
  /\ UNCHANGED <<blocked, marks, query, toCheck, path>>

Visit ==
  /\ phase = "search" /\ toCheck # <<>>
  /\ LET n == Closest IN
     /\ visited' = visited \cup {n}
     /\ IF n = start
          THEN /\ phase' = "walk" /\ path' = <<start>>
               /\ toCheck' = Without(toCheck, n) /\ UNCHANGED value
          ELSE /\ Opened(n, Without(toCheck, n), value, visited')
               /\ UNCHANGED <<phase, path>>
  /\ UNCHANGED <<blocked, query>>

WithValue(n) == {m \in ToSet(Neighbours(n)) : value[m] # Unset}

\* findNeighbourWithSmallestValue: the last one of the smallest. Without any,
\* a null pointer is followed.
Walk ==
  /\ phase = "walk"
  /\ LET n     == Last(path)
         seq   == Neighbours(n)
         least == {i \in DOMAIN seq : seq[i] \in WithValue(n)
                     /\ \A m \in WithValue(n) : value[seq[i]] <= value[m]}
     IN  IF n = end THEN phase' = "done" /\ UNCHANGED path
         ELSE IF least = {} THEN phase' = "crash" /\ UNCHANGED path
         ELSE /\ path' = Append(path, seq[CHOOSE i \in least : \A j \in least : j <= i])
              /\ UNCHANGED phase
  /\ UNCHANGED <<blocked, marks, query, toCheck>>

\* The arguments of no call under way.
NoQuery(s, e) == LET t == CHOOSE t \in Tile : TRUE IN s = t /\ e = t

\* Mutant: the nodes stay visited.
ValueReset == value' = [t \in Tile |-> Unset] /\ UNCHANGED visited

\* TileNode::reset of every tile.
TilesReset == value' = [t \in Tile |-> Unset] /\ visited' = {}

\* NodeLayer::reset, which the caller does before the next query.
Reset ==
  /\ phase = "done"
  /\ TilesReset
  /\ phase' = "idle" /\ toCheck' = <<>> /\ path' = <<>>
  /\ NoQuery(start', end')
  /\ UNCHANGED blocked

Init ==
  /\ blocked \in Mazes
  /\ visited = {} /\ value = [t \in Tile |-> Unset]
  /\ phase = "idle" /\ toCheck = <<>> /\ path = <<>>
  /\ NoQuery(start, end)

Search == NoPathFound \/ Visit \/ Walk

Next == CalculatePath \/ Search \/ Reset

\* calculatePath is a function: it runs until it returns.
Spec == Init /\ [][Next]_vars /\ WF_vars(Search)

-----------------------------------------------------------------------------
(* Properties *)

TypeOK ==
  /\ blocked \subseteq Tile /\ visited \subseteq Tile
  /\ value \in [Tile -> Nat \cup {Unset}]
  /\ phase \in {"idle", "search", "walk", "done"}
  /\ start \in Tile /\ end \in Tile
  /\ ToSet(toCheck) \subseteq Free /\ ToSet(path) \subseteq Tile

\* The free tiles that can be reached from t in at most n steps.
ReachedFrom(t) ==
  LET R[n \in 0..Cardinality(Tile)] ==
        IF n = 0 THEN {t}
        ELSE LET near == R[n - 1] IN near \cup UNION {ToSet(Neighbours(u)) : u \in near}
  IN  R[Cardinality(Tile)]

\* A path leads from the start to the end over free tiles, each next to the
\* one before it, and visits none twice.
PathLeads ==
  phase = "done" /\ path # <<>> =>
    /\ Head(path) = start /\ Last(path) = end
    /\ \A i \in 1..Len(path) - 1 : path[i + 1] \in ToSet(Neighbours(path[i]))
    /\ IsInjective(path)
    /\ ToSet(path) \subseteq Free

\* The answer is empty only if there is no way, or none to go: neither the
\* order of the visits nor an earlier query hides one.
PathFound ==
  phase = "done" /\ path = <<>> => start = end \/ start \notin ReachedFrom(end)

\* A value comes from a visited node next to it that is nearer to the end: the
\* values that the walk follows never lead into a dead end or a circle, and
\* values found later cannot spoil that.
ValuesLead ==
  \A t \in Tile : value[t] > 0 =>
    \E n \in visited : t \in ToSet(Neighbours(n)) /\ value[t] = value[n] + Step(n, t)

\* Every query is answered: nodes are put into the open list again, but not
\* visited again, and the walk ends.
Answered == phase \in {"idle", "done"}
AnswerGiven == []<>Answered

=============================================================================
