------------------------------ MODULE Terrain -------------------------------
(* The Terrain: a grid of chunks that setChunks() builds from a map of      *)
(* heights, chunk by chunk, the geometry that positions of the play field   *)
(* are looked up in, and the TerrainRenderer, which repaints its picture    *)
(* when the terrain has changed. A new map comes from the server on the     *)
(* network thread (StateGame::updateServerInfo) while the game loop paints, *)
(* so both go chunk by chunk. Heights are counted in halves, because a      *)
(* slope is half as high as the difference it overcomes.                    *)
EXTENDS Integers, Sequences, SequencesExt, FiniteSets, FiniteSetsExt

CONSTANTS
  Width, Height,    \* terrainWidthInChunks, terrainHeightInChunks
  Flank,            \* terrainFlankHeightInChunks
  HeightMax,        \* terrainHeightMax, in halves
  Maps,             \* maps that may be loaded: functions of the fields
  MaxLoads          \* bound on the maps the server sends

VARIABLES
  chunks,           \* m_chunks
  map,              \* the map that is loaded, or was loaded last
  at,               \* index of the chunk that setChunks() builds, or Size
  dirty,            \* m_dirty of the renderer
  picture,          \* the texture, chunk by chunk
  painted,          \* index of the chunk that is painted next, or Size
  loads             \* number of maps sent

loader   == <<chunks, map, at, loads>>
renderer == <<picture, painted>>
vars     == <<loader, dirty, renderer>>

Size  == Width * Height
Field == (0..Width - 1) \X (0..Height - 1)

\* The inverse of coordToIndex.
FieldOf(i) == <<i % Width, i \div Width>>

-----------------------------------------------------------------------------
(* Building the chunks *)

Clamp(h) == IF h < 0 THEN 0 ELSE IF h > HeightMax THEN HeightMax ELSE h

Mid(a, b) == (a + b) \div 2

\* The corners are top left, top right, bottom left, bottom right.
Flat(h) == [height |-> h, center |-> h, corners |-> <<h, h, h, h>>]

\* Mutant: the centre of the chunk is that of the previous map.
PlacedOver(c, f, h) == [c EXCEPT ![f] = [Flat(h) EXCEPT !.center = c[f].center]]

Placed(c, f, h) == [c EXCEPT ![f] = Flat(h)]

\* Two corners of a chunk take the height of the two of a neighbour.
Give(c, from, to, sides) ==
  [c EXCEPT ![to].corners =
     [@ EXCEPT ![sides[to][1]] = c[from].corners[sides[from][1]],
               ![sides[to][2]] = c[from].corners[sides[from][2]]]]

\* Mutant: half of the difference is added to the higher one.
CenterAbove(c, low, beyond, h) == h + Mid(h, -c[low].height)

\* The centre of a chunk that lies lower than the one behind it: half way up,
\* or, where the chunk on its other side is higher as well, on a bridge.
LowCenter(c, low, beyond, h) ==
  Mid(c[IF c[low].center > c[low].height /\ beyond \in Field
          THEN beyond ELSE low].height, h)

\* Mutant: the slope of the chunk above goes on.
SlopeWithTop(c, f, top, sides) ==
  IF c[top].center > c[f].height
    THEN Give([c EXCEPT ![f].center = Mid(c[top].center, c[f].height)],
              top, f, sides)
    ELSE c

\* Neither is higher: the previous row's chunk may slope up to a third one.
LevelWithTop(c, f, top, sides) ==
  IF c[top].center > c[f].height
    THEN Give([c EXCEPT ![f].center = Mid(c[top].height, c[f].height)],
              top, f, sides)
    ELSE c

LevelWithLeft(c, f, left, sides) ==
  IF c[left].center < c[f].center THEN Give(c, f, left, sides) ELSE c

Adjusted(c, f, n, beyond, sides, level) ==
  IF c[n].height < c[f].height
    THEN Give([c EXCEPT ![n].center = LowCenter(c, n, beyond, c[f].height)],
              f, n, sides)
  ELSE IF c[n].height > c[f].height
    THEN Give([c EXCEPT ![f].center = Mid(c[f].height, c[n].height)],
              n, f, sides)
  ELSE level

Above(f)  == <<f[1], f[2] - 1>>
LeftOf(f) == <<f[1] - 1, f[2]>>

TopSides(f)  == f :> <<1, 2>> @@ Above(f) :> <<3, 4>>
LeftSides(f) == f :> <<1, 3>> @@ LeftOf(f) :> <<2, 4>>

WithTop(c, f) ==
  LET n == Above(f) IN
  IF f[2] = 0 THEN c
  ELSE Adjusted(c, f, n, Above(n), TopSides(f), LevelWithTop(c, f, n, TopSides(f)))

WithLeft(c, f) ==
  LET n == LeftOf(f) IN
  IF f[1] = 0 THEN c
  ELSE Adjusted(c, f, n, LeftOf(n), LeftSides(f), LevelWithLeft(c, f, n, LeftSides(f)))

\* Mutant: the corners above are not joined once more.
NotJoined(c, f) == c

\* The corners of the row above follow those of this chunk.
Joined(c, f) ==
  LET n == Above(f) 
      joined == Give(c, f, n, TopSides(f)) IN
  IF f[2] = 0 THEN c
  ELSE IF f[1] = 0 THEN joined
  ELSE Give(joined, n, LeftOf(n), n :> <<1, 3>> @@ LeftOf(n) :> <<2, 4>>)

\* One round of the loops of setChunks().
Built(c, f, h) == Joined(WithLeft(WithTop(Placed(c, f, Clamp(h)), f), f), f)

\* What a Terrain that was just constructed makes of a map.
Loaded(m) ==
  FoldLeft(LAMBDA c, i : Built(c, FieldOf(i - 1), m[FieldOf(i - 1)]),
           [f \in Field |-> Flat(0)], [i \in 1..Size |-> i])

\* to_json: what the server sends of its terrain.
Heights(c) == [f \in Field |-> c[f].height]

-----------------------------------------------------------------------------
(* Looking up positions, in pixels *)

ChunkSize == 16

Pixel == {0, 1, 4, 7, 8, 9, 11, 12, 15}

\* Division that rounds towards 0, as the conversion to int does.
Truncated(p) == IF p < 0 THEN -((-p) \div ChunkSize) ELSE p \div ChunkSize

PosToCoord(p) == <<Truncated(p[1]), Truncated(p[2])>>

\* The sign of an offset is that of the position.
Offset(p) == p - ChunkSize * Truncated(p)

\* Corners relative to the centre of the chunk.
Corner == << <<-8, -8>>, <<7, -8>>, <<-8, 7>>, <<7, 7>> >>

\* Mutant: the diagonal belongs to the triangles on both of its sides.
TriangleWithDiagonal(dx, dy) ==
  IF dy >= dx /\ dy <= ChunkSize - dx THEN <<3, 1>>
  ELSE IF dy < dx /\ dy >= ChunkSize - dx THEN <<2, 4>>
  ELSE IF dy < dx THEN <<1, 2>> ELSE <<4, 3>>

\* The two corners that span the triangle of a position with the centre.
Triangle(dx, dy) ==
  IF dy >= dx /\ dy < ChunkSize - dx THEN <<3, 1>>
  ELSE IF dy < dx /\ dy >= ChunkSize - dx THEN <<2, 4>>
  ELSE IF dy < dx THEN <<1, 2>> ELSE <<4, 3>>

Cross(a, b) == << a[2] * b[3] - a[3] * b[2],
                  a[3] * b[1] - a[1] * b[3],
                  a[1] * b[2] - a[2] * b[1] >>

\* From a corner to the centre.
Edge(chunk, k) ==
  << -Corner[k][1], -Corner[k][2], chunk.center - chunk.corners[k] >>

\* getNormalOfTriangleForPosition, not normalized.
Normal(c, p) ==
  LET f == PosToCoord(p)
      t == Triangle(Offset(p[1]), Offset(p[2])) IN
  IF f \in Field THEN Cross(Edge(c[f], t[1]), Edge(c[f], t[2])) ELSE <<0, 0, 0>>

\* getSlopeAt is 0; otherwise the terrain rises or falls in some direction.
IsLevel(c, p) == Normal(c, p)[1] = 0 /\ Normal(c, p)[2] = 0

CenterOf(f) == <<f[1] * ChunkSize + 8, f[2] * ChunkSize + 8>>

\* getFieldHeight of a position in the play field, times the third component
\* of the normal.
ScaledHeight(c, p) ==
  LET f == PosToCoord(p)
      n == Normal(c, p)
      m == CenterOf(f)
  IN  (m[1] - p[1]) * n[1] + (m[2] - p[2]) * n[2] + c[f].center * n[3]

-----------------------------------------------------------------------------
(* Placement areas *)

Player == 0..1

\* Areas of the players: left, top, width and height in pixels.
Areas(player) ==
  LET half == (Width * ChunkSize) \div 2
      top  == Flank * ChunkSize
      high == Height * ChunkSize
  IN  IF player = 0
        THEN { <<0, top, half, high - 2 * top>>,
               <<half, 0, 2 * half, top>>,
               <<half, high - top, 2 * half, top>> }
        ELSE { <<half, top, half, high - 2 * top>>,
               <<0, 0, half, top>>,
               <<0, high - top, half, top>> }

\* Mutant: the left and the top border belong to a rectangle.
IsInOrOn(r, p) ==
  p[1] >= r[1] /\ p[1] < r[1] + r[3] /\ p[2] >= r[2] /\ p[2] < r[2] + r[4]

IsIn(r, p) ==
  p[1] > r[1] /\ p[1] < r[1] + r[3] /\ p[2] > r[2] /\ p[2] < r[2] + r[4]

\* getMappedFieldPosition: the origin for a position outside.
Mapped(p) ==
  IF PosToCoord(p) \in Field THEN CenterOf(PosToCoord(p)) ELSE <<0, 0>>

\* canUnitBePlacedInField, for a field that is not used yet.
MayPlace(player, p) == \E r \in Areas(player) : IsIn(r, Mapped(p))

-----------------------------------------------------------------------------
(* The picture *)

Color(h) ==
  CASE h < 1 -> "dirt" [] h \in 1..2 -> "light_grass" [] h \in 3..4 -> "grass"
    [] h \in 5..7 -> "low_hill" [] h = 8 -> "hill" [] h = 9 -> "low_mountain"
    [] OTHER -> "mountain"

\* What decorates a chunk; how much of it is random.
Decals(h) ==
  IF h = 0 \/ h \in 6..7 THEN "stones" ELSE IF h \in 1..3 THEN "grass" ELSE "none"

\* The triangles of a chunk; the last line is drawn down to the ground.
Painted(c, f) ==
  [color   |-> Color(c[f].center),
   decals  |-> Decals(c[f].center),
   center  |-> c[f].center,
   corners |-> IF f[2] = Height - 1
                 THEN <<c[f].corners[1], c[f].corners[2], 0, 0>>
                 ELSE c[f].corners]

-----------------------------------------------------------------------------
(* Steps *)

\* updateServerInfo: setChunks() begins.
NewMap ==
  /\ at = Size /\ loads < MaxLoads
  /\ map' \in Maps
  /\ at' = 0
  /\ loads' = loads + 1
  /\ UNCHANGED <<chunks, dirty, renderer>>

\* Mutant: the renderer is told of the first chunk, not of the last.
ToldAtFirst(i) == i = 0

\* m_updateCallback() is called behind the loops.
ToldAt(i) == i = Size - 1

BuildChunk ==
  /\ at < Size
  /\ chunks' = Built(chunks, FieldOf(at), map[FieldOf(at)])
  /\ at' = at + 1
  /\ dirty' = (dirty \/ ToldAt(at))
  /\ UNCHANGED <<map, loads, renderer>>

\* doUpdate: the flag is reset before the terrain is read.
StartPainting ==
  /\ painted = Size /\ dirty
  /\ dirty' = FALSE
  /\ painted' = 0

PaintChunk ==
  /\ painted < Size
  /\ picture' = [picture EXCEPT ![FieldOf(painted)] = Painted(chunks, FieldOf(painted))]
  /\ painted' = painted + 1
  /\ UNCHANGED dirty

Frame ==
  /\ (StartPainting /\ UNCHANGED picture) \/ PaintChunk
  /\ UNCHANGED loader

\* The terrain of the file map_load.json, and its first picture (doCreate).
Init ==
  /\ map = [f \in Field |-> 0]
  /\ chunks = Loaded(map)
  /\ picture = [f \in Field |-> Painted(chunks, f)]
  /\ at = Size /\ painted = Size
  /\ dirty = FALSE /\ loads = 0

Next == NewMap \/ BuildChunk \/ Frame

\* A loop of setChunks() ends, and the game loop goes on.
Spec == Init /\ [][Next]_vars /\ WF_vars(BuildChunk) /\ WF_vars(Frame)

-----------------------------------------------------------------------------
(* Properties *)

AtRest == at = Size

InHeights(h) == h \in 0..HeightMax

\* Among others: no height leaves the range of the colours and of to_json.
TypeOK ==
  /\ at \in 0..Size /\ painted \in 0..Size
  /\ dirty \in BOOLEAN /\ loads \in 0..MaxLoads
  /\ DOMAIN chunks = Field /\ DOMAIN picture = Field
  /\ \A f \in Field :
       /\ InHeights(chunks[f].height) /\ InHeights(chunks[f].center)
       /\ \A k \in 1..4 : InHeights(chunks[f].corners[k])

\* The fields that share a corner with the corner k of f.
Around(f, k) ==
  LET dx == IF k \in {2, 4} THEN 1 ELSE -1
      dy == IF k \in {3, 4} THEN 1 ELSE -1
  IN  Field \cap { f, <<f[1] + dx, f[2]>>, <<f[1], f[2] + dy>>, <<f[1] + dx, f[2] + dy>> }

Levels == {chunks[f].height : f \in Field}

Highest(S) == Max({chunks[f].height : f \in S})

\* On a map of two heights, all chunks around a corner agree on it, and it is
\* as high as the highest of them: slopes lead up to every plateau and there
\* are no gaps (terrain.hpp:37-38), although the chunks are adjusted in one
\* pass and only to those before them. (With three heights a corner may be
\* left in between by the chunk that is built last.)
CornersMeet ==
  AtRest /\ Cardinality(Levels) <= 2 =>
    \A f \in Field, k \in 1..4 : chunks[f].corners[k] = Highest(Around(f, k))

\* On every map, neighbours in a row meet at the bottom.
RowsMeet ==
  AtRest => \A f \in Field :
    f[1] > 0 => chunks[f].corners[3] = chunks[LeftOf(f)].corners[4]

Neighbours(f) == UNION {Around(f, k) : k \in 1..4}

\* The centre of a chunk is never below its own height nor above all that
\* surrounds it, bridges included.
CentersBetween ==
  AtRest => \A f \in Field :
    chunks[f].center \in chunks[f].height..Highest(Neighbours(f))

\* "Slope on steady surface is 0.0f" (terrain_test.cpp:26): a field of a
\* plateau is level at every position, whatever the rest of the map is like.
PlateauLevel ==
  AtRest => \A f \in Field :
    (\A g \in Neighbours(f) : chunks[g].height = chunks[f].height) =>
      \A dx, dy \in Pixel :
        IsLevel(chunks, <<f[1] * ChunkSize + dx, f[2] * ChunkSize + dy>>)

\* The height at a position of a field lies between those of the corners and
\* the centre of the field: the position is looked up in the right triangle.
HeightWithinField ==
  AtRest => \A f \in Field, dx, dy \in Pixel :
    LET p  == <<f[1] * ChunkSize + dx, f[2] * ChunkSize + dy>>
        hs == {chunks[f].center} \cup {chunks[f].corners[k] : k \in 1..4}
        z  == Normal(chunks, p)[3]
    IN  ScaledHeight(chunks, p) \in Min(hs) * z..Max(hs) * z

\* A client that builds its terrain from the heights that the server sends
\* gets the terrain of the server's simulation, whatever maps each of them
\* had before.
SameForClients == AtRest => chunks = Loaded(Heights(chunks))

\* No position of the mouse, outside of the window too, lets a player place a
\* unit on a field of the opponent or beyond the array of chunks.
OwnFieldsOnly ==
  \A x \in {-40, -9, 0} \cup {ChunkSize * i + 3 : i \in 0..Width + 1},
     y \in {-40, -9, 0} \cup {ChunkSize * i + 3 : i \in 0..Height + 1},
     player \in Player :
    MayPlace(player, <<x, y>>) =>
      PosToCoord(<<x, y>>) \in DOMAIN chunks /\ ~MayPlace(1 - player, <<x, y>>)

\* A picture that no repaint is due for shows the terrain as it is, even if
\* the terrain was rebuilt while it was painted.
PictureCurrent ==
  AtRest /\ painted = Size /\ ~dirty =>
    \A f \in Field : picture[f] = Painted(chunks, f)

\* Once no map arrives any more, the last one is shown for good.
AllShown == \A f \in Field : picture[f] = Painted(chunks, f)
LastMapShown == <>[]AllShown

=============================================================================
