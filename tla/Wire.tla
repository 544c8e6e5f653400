-------------------------------- MODULE Wire --------------------------------
(***************************************************************************)
(* The frames of a simulation on their way to the client                   *)
(* (simulation_result_data.cpp and the *_info.cpp files of network_data).  *)
(* The server saves every unit, arrow, explosion and barrier once per step *)
(* (ServerUnit::saveState); when the round is decided it turns all frames  *)
(* into one JSON document, which the client turns back.  A JSON object is  *)
(* a function from its keys to values.  Positions, heights and hit points  *)
(* are multiplied by NetworkProperties::floatPrecision() and cut off to an *)
(* integer; fields that have their usual value are not sent at all.        *)
(*                                                                         *)
(* Lengths and hit points are integers in hundredths.  Rounding of binary  *)
(* floating point numbers is not modelled.                                 *)
(***************************************************************************)
EXTENDS Integers, Sequences, FiniteSets, TLC

CONSTANTS Units,        \* the units of the round, in the order of the simulation
          Hurts,        \* damage a unit can take in one step
          Places,       \* where a step may bring a unit, in hundredths of a pixel
          Levels,       \* levels of a unit at the start of the round
          Bodies,       \* what else a step can hold: arrows, explosions, barriers
          FullHp,       \* hit points of a fresh unit of level one
          Steps         \* NumberOfStepsPerRoundMax

WireAssumption ==
    /\ FullHp \in Nat \ {0} /\ Steps \in Nat \ {0}
    /\ Hurts \subseteq Nat /\ Places \subseteq Int
    /\ Levels \subseteq Nat \ {0}

VARIABLES unit,      \* the ServerUnits
          frames,    \* allFrames of performSimulation
          wire,      \* the JSON documents under way: at most one
          shown      \* the frames the client got, <<>> before

vars == <<unit, frames, wire, shown>>

----------------------------------------------------------------------------
\* static_cast<int>(x * floatPrecision()) and the way back, floatPrecision() = 10

One == 100
Precision == 10
CutUnsigned(x) == ((IF x < 0 THEN -x ELSE x) * Precision) \div One   \* wrong: the sign is lost
Cut(x) == LET n == ((IF x < 0 THEN -x ELSE x) * Precision) \div One
          IN IF x < 0 THEN -n ELSE n
Uncut(n) == n * (One \div Precision)

Field(present, key, value) == IF present THEN key :> value ELSE <<>>
Read(j, key, usual) == IF key \in DOMAIN j THEN j[key] ELSE usual

\* The fields of a unit that are sent only when they say something; wrong when the level is
\* left out one level too far.
UnusualUpToTwo(d) == Field(d.anim # "", "unitNewAnim", d.anim)
                     @@ Field(d.player = 1, "pid", 1)
                     @@ Field(d.level > 2, "level", d.level)
                     @@ Field(d.experience # 0, "exp", d.experience)
                     @@ Field(d.right, "wr", TRUE)
                     @@ Field(d.slope # 0, "slope", d.slope)
Unusual(d) == Field(d.anim # "", "unitNewAnim", d.anim)
              @@ Field(d.player = 1, "pid", 1)
              @@ Field(d.level # 1, "level", d.level)
              @@ Field(d.experience # 0, "exp", d.experience)
              @@ Field(d.right, "wr", TRUE)
              @@ Field(d.slope # 0, "slope", d.slope)

EncodeUnit(d) == [uid |-> d.unitID, px |-> Cut(d.x), ofsy |-> Cut(d.offset),
                  hpc |-> Cut(d.hp), hpm |-> Cut(d.hpMax)] @@ Unusual(d)

\* Every element of a vector is read into a fresh object: what is absent has its default.
DecodeUnit(j) ==
    [unitID |-> j.uid, player |-> Read(j, "pid", 0), level |-> Read(j, "level", 1),
     x |-> Uncut(j.px), offset |-> Uncut(j.ofsy), hp |-> Uncut(j.hpc), hpMax |-> Uncut(j.hpm),
     right |-> Read(j, "wr", FALSE), experience |-> Read(j, "exp", 0),
     anim |-> Read(j, "unitNewAnim", ""), slope |-> Read(j, "slope", 0)]

EncodeArrow(a) == [px |-> Cut(a.x), arrowHeight |-> Cut(a.height)]
                  @@ Field(a.scale # One, "scale", Cut(a.scale))
DecodeArrow(j) == [x |-> Uncut(j.px), height |-> Uncut(j.arrowHeight),
                   scale |-> IF "scale" \in DOMAIN j THEN Uncut(j.scale) ELSE One]

EncodeExplosion(e) == [px |-> Cut(e.x), scale |-> Cut(e.radius)]
\* Wrong when the radius is not divided by the precision again.
ExplosionUnscaled(j) == [x |-> Uncut(j.px), radius |-> j.scale * One]
DecodeExplosion(j) == [x |-> Uncut(j.px), radius |-> Uncut(j.scale)]

\* Barriers are sent as they are.
EncodeBarrier(b) == [px |-> b.x, range |-> b.radius, hpc |-> b.hp, hpm |-> b.hpMax,
                     uid |-> b.unitID, pid |-> b.player]
DecodeBarrier(j) == [x |-> j.px, radius |-> j.range, hp |-> j.hpc, hpMax |-> j.hpm,
                     unitID |-> j.uid, player |-> j.pid]

Each(F(_), s) == [i \in DOMAIN s |-> F(s[i])]

EncodeFrame(f) ==
    [units |-> Each(EncodeUnit, f.units), fid |-> f.id, playerHp |-> f.playerHp]
    @@ Field(f.arrows # <<>>, "arrows", Each(EncodeArrow, f.arrows))
    @@ Field(f.explosions # <<>>, "explosions", Each(EncodeExplosion, f.explosions))
    @@ Field(f.barriers # <<>>, "barriers", Each(EncodeBarrier, f.barriers))

\* The frame id is sent and never read: it keeps its default.
DecodeFrame(j) ==
    [units |-> Each(DecodeUnit, j.units), id |-> 0, playerHp |-> j.playerHp,
     arrows |-> Each(DecodeArrow, Read(j, "arrows", <<>>)),
     explosions |-> Each(DecodeExplosion, Read(j, "explosions", <<>>)),
     barriers |-> Each(DecodeBarrier, Read(j, "barriers", <<>>))]

----------------------------------------------------------------------------
\* The server: a unit takes its damage of the step and, alive, is updated; then it is saved.

Alive(u) == u.hp > 0

Hit(u, d) == [u EXCEPT !.hp = @ - d, !.newAnim = IF u.hp - d > 0 THEN "damage" ELSE "death"]

\* The update of the unit's ai: it walks to x, or stays and attacks.
Walked(u, x) == [u EXCEPT !.x = x, !.offset = -x, !.slope = x, !.right = x > u.x, !.newAnim = "walk"]
Attacked(u) == [u EXCEPT !.newAnim = "attack"]
Updated(u, x) == {u} \cup (IF Alive(u) THEN {Walked(u, x), Attacked(u)} ELSE {})

\* What one step can make of a unit.
AfterStep(u) == UNION {Updated(v, x) :
    v \in {u} \cup (IF Alive(u) THEN {Hit(u, d) : d \in Hurts} ELSE {}), x \in Places}

Saved(u) == [unitID |-> u.unitID, player |-> u.player, level |-> u.level,
             experience |-> u.experience, x |-> u.x, offset |-> u.offset, hp |-> u.hp,
             hpMax |-> FullHp * u.level, right |-> u.right, anim |-> u.newAnim,
             slope |-> u.slope]

\* saveState hands the animation out and forgets it; wrong when it is kept.
AnimKept(u) == u
AnimTaken(u) == [u EXCEPT !.newAnim = ""]

Fresh(i, level) ==
    [unitID |-> i, player |-> i % 2, level |-> level, experience |-> level - 1,
     x |-> 0, offset |-> 0, slope |-> 0, right |-> i % 2 = 0,
     hp |-> FullHp * level, newAnim |-> ""]

\* checkIsLastFrame after step n: the last step, or one player has no unit left.
Survivors(us, p) == {i \in Units : us[i].player = p /\ Alive(us[i])}
IsLastFrame(n, us) == n = Steps - 1 \/ \E p \in {0, 1} : Survivors(us, p) = {}

\* The hit points of the players are part of the last frame only.
LostHp(n, us) == IF IsLastFrame(n, us)
                 THEN [p \in {0, 1} |-> Cardinality(Survivors(us, 1 - p))] ELSE <<>>

Frame(n, us, body) == [units |-> [i \in Units |-> Saved(us[i])], id |-> n,
                       playerHp |-> LostHp(n, us)] @@ body

Init == /\ \E l \in [Units -> Levels] : unit = [i \in Units |-> Fresh(i, l[i])]
        /\ frames = <<>> /\ wire = {} /\ shown = <<>>

Finished == frames # <<>> /\ frames[Len(frames)].playerHp # <<>>

\* One pass of the loop of performSimulation.
Step ==
    /\ ~Finished
    /\ \E body \in Bodies, us \in [Units -> UNION {AfterStep(unit[i]) : i \in Units}] :
         /\ \A i \in Units : us[i] \in AfterStep(unit[i])
         /\ unit' = [i \in Units |-> AnimTaken(us[i])]
         /\ frames' = Append(frames, Frame(Len(frames), us, body))
    /\ UNCHANGED <<wire, shown>>

Send == /\ Finished /\ wire = {} /\ shown = <<>>
        /\ wire' = {Each(EncodeFrame, frames)}
        /\ UNCHANGED <<unit, frames, shown>>

Receive == \E j \in wire : /\ shown' = Each(DecodeFrame, j)
                           /\ wire' = {}
                           /\ UNCHANGED <<unit, frames>>

Next == Step \/ Send \/ Receive
Spec == Init /\ [][Next]_vars

----------------------------------------------------------------------------
\* Properties

\* What the client knows is always all of the round, frame for frame and unit for unit.
TypeOK ==
    /\ DOMAIN unit = Units /\ Len(frames) <= Steps /\ Cardinality(wire) <= 1
    /\ shown = <<>> \/ /\ Len(shown) = Len(frames)
                       /\ \A k \in DOMAIN shown : DOMAIN shown[k].units = Units

\* Everything about a unit that is not a length arrives as it was, also where it had its
\* usual value and was not sent (to_json and from_json of UnitServerToClientData), and so do
\* barriers and the hit points of the players.
Exact(u) == <<u.unitID, u.player, u.level, u.experience, u.right, u.anim, u.slope>>
UnitsAsSimulated ==
    \A k \in DOMAIN shown :
        /\ \A i \in Units : Exact(shown[k].units[i]) = Exact(frames[k].units[i])
        /\ shown[k].barriers = frames[k].barriers
        /\ shown[k].playerHp = frames[k].playerHp

\* A place, height or size on the client is less than one step of the precision away from
\* the server's, and never further from zero.
Near(a, b) == LET d == a - b IN
    /\ -(One \div Precision) < d /\ d < One \div Precision
    /\ (b >= 0 => a <= b /\ a >= 0) /\ (b <= 0 => a >= b /\ a <= 0)
PlacesNearlyExact ==
    \A k \in DOMAIN shown :
        /\ \A i \in Units : /\ Near(shown[k].units[i].x, frames[k].units[i].x)
                            /\ Near(shown[k].units[i].offset, frames[k].units[i].offset)
        /\ DOMAIN shown[k].arrows = DOMAIN frames[k].arrows
        /\ \A a \in DOMAIN shown[k].arrows :
               LET s == shown[k].arrows[a] f == frames[k].arrows[a]
               IN Near(s.x, f.x) /\ Near(s.height, f.height) /\ Near(s.scale, f.scale)
        /\ DOMAIN shown[k].explosions = DOMAIN frames[k].explosions
        /\ \A e \in DOMAIN shown[k].explosions :
               LET s == shown[k].explosions[e] f == frames[k].explosions[e]
               IN Near(s.x, f.x) /\ Near(s.radius, f.radius)

\* The client never shows a unit alive that the simulation has killed; a unit it shows dead
\* has less than a tenth of a hit point left; and the bar is never more than full.
NoUnitRises ==
    \A k \in DOMAIN shown : \A i \in Units :
        LET s == shown[k].units[i] f == frames[k].units[i]
        IN /\ s.hp > 0 => f.hp > 0
           /\ s.hp <= 0 => f.hp < One \div Precision
           /\ s.hp <= s.hpMax

\* A unit killed in the simulation plays its death once: in the frame it dies in, and no
\* frame after that brings another animation (saveState forgets what it handed out).
DiesIn(i, k) == frames[k].units[i].hp <= 0 /\ (k = 1 \/ frames[k - 1].units[i].hp > 0)
DeathShownOnce ==
    \A k \in DOMAIN shown : \A i \in Units : DiesIn(i, k) =>
        /\ shown[k].units[i].anim = "death"
        /\ \A l \in DOMAIN shown : l > k => shown[l].units[i].anim = ""
=============================================================================
