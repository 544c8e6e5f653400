------------------------------ MODULE TileMap ------------------------------
(* A map file in the cache, and what the TilesonLoader makes of its tile    *)
(* layer: colliders that are refined to few rectangles, nodes for the       *)
(* pathfinder, the tiles and sprites of a TileLayer, which culls the tiles  *)
(* it draws itself. Places on the screen are in half tiles.                 *)
EXTENDS Integers, FiniteSets, FiniteSetsExt, Sequences

CONSTANTS
  Columns, Rows,  \* size of the map
  Maps,           \* contents of the layer: functions from cells to kinds
  TileSets,       \* tilesets of the map: records of columns, count
  LayerAt,        \* positions the TileLayer may be set to, on the x axis
  CamOffsets,     \* positions of the camera, on the x axis
  ScreenSize,     \* width of the screen, and the hint of the layer
  MaxRefines      \* bound of the calls of refineColliders

Cell == (0..Columns - 1) \X (0..Rows - 1)
\* No tile; a tile without "blocked"; a tile whose "blocked" is true or false.
Kinds == {"none", "plain", "blocked", "passable"}

TileMapAssumption ==
  /\ Columns \in Nat /\ Rows \in Nat /\ ScreenSize \in Nat /\ MaxRefines \in Nat
  /\ Maps \subseteq [Cell -> Kinds]
  /\ LayerAt \subseteq Int /\ CamOffsets \subseteq Int

VARIABLES
  file,        \* the layer in the json file
  maps,        \* m_maps of the cache: the layers that were parsed
  colliders,   \* m_rects: records of x, y, w, h
  refines,     \* calls of refineColliders so far
  nodes,       \* loadNodesFromLayer: records of cell and blocked
  tileNodes,   \* loadTileNodesFromLayer: the cells shown
  tiles,       \* m_tiles of the TileLayer: cells
  layerAt,     \* its m_position and offset
  camera,      \* static camera offset, negated: the left edge of the view
  drawn        \* tiles drawn last, and whether that is of this frame

vars == <<file, maps, colliders, refines, nodes, tileNodes, tiles, layerAt, camera, drawn>>

loaded == <<colliders, refines, nodes, tileNodes, tiles>>

\* TilemapCache::getMap: the file is parsed when it is asked for first.
GetMap == maps' = IF maps = {} THEN {file} ELSE maps

Map == CHOOSE m \in maps' : TRUE

TilesOf(m) == {c \in Cell : m[c] # "none"}

-----------------------------------------------------------------------------
(* Collisions *)

\* Mutant: the condition is the wrong way around.
WithoutProperty(m) == {c \in Cell : m[c] = "plain"}

\* Whether a tile has the property, not its value.
WithProperty(m) == {c \in Cell : m[c] \in {"blocked", "passable"}}

LoadCollisions ==
  /\ GetMap
  /\ colliders' = {[x |-> c[1], y |-> c[2], w |-> 1, h |-> 1] : c \in WithProperty(Map)}
  /\ refines' = 0
  /\ UNCHANGED <<file, nodes, tileNodes, tiles, layerAt, camera, drawn>>

\* The lookup: the cell at the corner of each rectangle.
Corners == {<<r.x, r.y>> : r \in colliders}

\* Mutant: there is no pass over the rows.
NoRuns(c) == IF c \in Corners THEN 1 ELSE 0

\* Mutant: a run is one tile too long.
RunTooLong(c) ==
  IF c \notin Corners \/ <<c[1] - 1, c[2]>> \in Corners THEN 0
  ELSE 1 + Min({n \in 1..Columns : <<c[1] + n, c[2]>> \notin Corners})

\* The length of the run to the right of a cell, at its first cell, 0 elsewhere.
RunLength(c) ==
  IF c \notin Corners \/ <<c[1] - 1, c[2]>> \in Corners THEN 0
  ELSE Min({n \in 1..Columns : <<c[1] + n, c[2]>> \notin Corners})


\* How many runs of this length stand below each other from this one on.
EqualBelow(len, c) ==
  Min({n \in 1..Rows : c[2] + n >= Rows \/ len[<<c[1], c[2] + n>>] # len[c]})

\* Runs that do not continue the one above.
FirstOfColumn(len) ==
  {c \in Cell : len[c] > 0 /\ (c[2] = 0 \/ len[<<c[1], c[2] - 1>>] # len[c])}

\* TilemapCollisions::refineColliders
RefineColliders ==
  /\ refines < MaxRefines /\ refines' = refines + 1
  /\ LET len == [c \in Cell |-> RunLength(c)] IN
     colliders' = {[x |-> c[1], y |-> c[2], w |-> len[c], h |-> EqualBelow(len, c)]
                     : c \in FirstOfColumn(len)}
  /\ UNCHANGED <<file, maps, nodes, tileNodes, tiles, layerAt, camera, drawn>>

-----------------------------------------------------------------------------
(* Nodes, tiles and sprites *)

NodesOf(m) == {[cell |-> c, blocked |-> m[c] = "blocked"] : c \in TilesOf(m)}

LoadNodes ==
  /\ GetMap
  /\ nodes' = NodesOf(Map)
  /\ UNCHANGED <<file, colliders, refines, tileNodes, tiles, layerAt, camera, drawn>>

LoadTileNodes ==
  /\ GetMap
  /\ \E dismissBlockedTiles \in BOOLEAN :
       tileNodes' = {n.cell : n \in {n \in NodesOf(Map) : ~(dismissBlockedTiles /\ n.blocked)}}
  /\ UNCHANGED <<file, colliders, refines, nodes, tiles, layerAt, camera, drawn>>

LoadTiles ==
  /\ GetMap
  /\ tiles' = TilesOf(Map)
  /\ drawn' = [tiles |-> {}, current |-> FALSE]
  /\ UNCHANGED <<file, colliders, refines, nodes, tileNodes, layerAt, camera>>

\* loadTileSetSprites: the image rectangle of every sprite, one tileset after
\* the other; an incomplete last row is left out.
TileSetRows(ts) == ts.count \div ts.columns

\* Mutant: all tilesets begin at the first sprite.
LastSet ==
  LET ts == TileSets[Len(TileSets)] IN
  [k \in 1..TileSetRows(ts) * ts.columns |->
     [set |-> Len(TileSets), column |-> (k - 1) % ts.columns, row |-> (k - 1) \div ts.columns]]

Sprites ==
  LET size(i) == TileSetRows(TileSets[i]) * TileSets[i].columns
      ofSet(i) == [k \in 1..size(i) |->
        [set |-> i, column |-> (k - 1) % TileSets[i].columns, row |-> (k - 1) \div TileSets[i].columns]]
      upTo[i \in 0..Len(TileSets)] == IF i = 0 THEN <<>> ELSE upTo[i - 1] \o ofSet(i)
  IN  upTo[Len(TileSets)]

-----------------------------------------------------------------------------
(* TileLayer *)

SetPosition ==
  /\ layerAt' \in LayerAt
  /\ drawn' = [drawn EXCEPT !.current = FALSE]
  /\ UNCHANGED <<file, maps, loaded, camera>>

MoveCamera ==
  /\ camera' \in CamOffsets
  /\ drawn' = [drawn EXCEPT !.current = FALSE]
  /\ UNCHANGED <<file, maps, loaded, layerAt>>

TileSize == 2

\* A tile on the screen, were the layer at the origin.
InView(c) == TileSize * c[1] - camera

\* Mutant: a tile is taken for a point.
PointVisible(c) == ScreenSize = 0 \/ (InView(c) >= 0 /\ InView(c) < ScreenSize)

\* isTileVisible asks where the tile stands in the map, not in the layer.
IsTileVisible(c) ==
  ScreenSize = 0 \/ (InView(c) + TileSize >= 0 /\ InView(c) < ScreenSize + TileSize)

Draw ==
  /\ drawn' = [tiles |-> {c \in tiles : IsTileVisible(c)}, current |-> TRUE]
  /\ UNCHANGED <<file, maps, loaded, layerAt, camera>>

Init ==
  /\ file \in Maps /\ maps = {}
  /\ colliders = {} /\ refines = 0 /\ nodes = {} /\ tileNodes = {} /\ tiles = {}
  /\ layerAt = 0 /\ camera = 0
  /\ drawn = [tiles |-> {}, current |-> FALSE]

Load == LoadCollisions \/ LoadNodes \/ LoadTileNodes \/ LoadTiles

Next == Load \/ RefineColliders \/ SetPosition \/ MoveCamera \/ Draw

Spec == Init /\ [][Next]_vars

-----------------------------------------------------------------------------
(* Properties *)

Rect == [x : 0..Columns - 1, y : 0..Rows - 1, w : 1..Columns, h : 1..Rows]

TypeOK ==
  /\ maps \subseteq Maps /\ Cardinality(maps) <= 1
  /\ colliders \subseteq Rect /\ refines \in 0..MaxRefines
  /\ nodes \subseteq [cell : Cell, blocked : BOOLEAN]
  /\ tileNodes \subseteq Cell /\ tiles \subseteq Cell /\ drawn.tiles \subseteq tiles

Area(r) == {c \in Cell : c[1] \in r.x..(r.x + r.w - 1) /\ c[2] \in r.y..(r.y + r.h - 1)}
Solid == UNION {Area(r) : r \in colliders}

\* Refined once, the colliders cover what they covered before, and nothing
\* twice, and they stay on the map.
SameArea ==
  colliders # {} /\ refines <= 1 =>
    /\ Solid = WithProperty(file)
    /\ \A r, s \in colliders : r # s => Area(r) \cap Area(s) = {}
    /\ \A r \in colliders : r.x + r.w <= Columns /\ r.y + r.h <= Rows

\* Refined, no two colliders are left that could be one.
NoneToMerge ==
  refines = 1 => \A r, s \in colliders :
    /\ ~(r.y = s.y /\ r.h = s.h /\ s.x = r.x + r.w)
    /\ ~(r.x = s.x /\ r.w = s.w /\ s.y = r.y + r.h)

Blocked == {n.cell : n \in {n \in nodes : n.blocked}}

\* What the pathfinder takes for blocked is solid, and the other way around
\* unless a tile's "blocked" is false.
SolidAsBlocked ==
  colliders # {} /\ refines <= 1 /\ nodes # {} =>
    /\ Blocked \subseteq Solid
    /\ (\A c \in Cell : file[c] # "passable") => Solid = Blocked

\* Tiles with less than a whole tile on the screen count, too.
OnScreen(c) == InView(c) + layerAt + TileSize > 0 /\ InView(c) + layerAt < ScreenSize

\* Every tile on the screen is drawn.
DrawnIfOnScreen == drawn.current => {c \in tiles : OnScreen(c)} \subseteq drawn.tiles

\* The same for a layer that stands where its map says.
DrawnAtOrigin == layerAt = 0 => DrawnIfOnScreen

\* The k-th tile of the i-th tileset has the sprite of its place in the image,
\* behind those of all tilesets before it.
SpritesInOrder ==
  tiles # {} =>
    \A i \in 1..Len(TileSets) : \A k \in 0..TileSets[i].count - 1 :
      LET before == MapThenSumSet(LAMBDA j : TileSets[j].count, 1..i - 1) IN
      Sprites[before + k + 1] =
        [set |-> i, column |-> k % TileSets[i].columns, row |-> k \div TileSets[i].columns]

=============================================================================
