----------------------------- MODULE Simulation -----------------------------
(* GameSimulation and the units that fight in it: adding and removing units, *)
(* upgrades, the steps of a round with scheduled attacks, arrows, cannonballs*)
(* and barriers, and what a round leaves behind for the next one. Where the *)
(* units are is left out: any enemy alive may be the closest one, in range  *)
(* or not, and an arrow may meet any barrier or enemy. Time is counted in    *)
(* ticks of 0.2 s, hit points and damage in hundredths.                      *)
EXTENDS Integers, Sequences, FiniteSets, FiniteSetsExt, SequencesExt

CONSTANTS
  Unit,           \* the units the clients may place
  Owner,          \* their player, 0 or 1
  OfType,         \* their type
  Info,           \* UnitInfo by type: kind, hp, damage, damageTypes, cost,
                  \* timer, expRequired, expGain, barrierHp
  Upgrade,        \* upgrades: records player, type, hp, armor
  InitialPlayerHP,
  NumberOfSteps,  \* GP::NumberOfStepsPerRoundMax
  MaxRound,       \* bound on the rounds
  MaxUpgrades     \* bound on the upgrades bought

UnitAssumption ==
  /\ Owner \in [Unit -> {0, 1}]
  /\ \A u \in Unit : OfType[u] \in DOMAIN Info
  /\ \A t \in DOMAIN Info :
       /\ Info[t].kind \in {"close", "ranged", "cannon", "weaver"}
       /\ Info[t].hp \in Nat \ {0} /\ Info[t].damage \in Nat
       /\ Info[t].cost \in Nat /\ Info[t].timer \in Nat
       /\ Info[t].expRequired \in Nat \ {0} /\ Info[t].expGain \in Nat
       /\ Info[t].barrierHp \in Nat
BoundAssumption ==
  /\ InitialPlayerHP \in Int /\ NumberOfSteps \in Nat \ {0}
  /\ MaxRound \in Nat /\ MaxUpgrades \in Nat

VARIABLES
  phase,      \* "placing" or, inside performSimulation, "fighting"
  round,      \* rounds fought
  start,      \* m_unitInformationForRoundStart: level and experience by unit
  order,      \* ... and the order of its entries
  upgrades,   \* m_unitUpgrades
  obj,        \* m_simulationObjects
  attacks,    \* m_scheduledCloseCombatAttacks
  spawning,   \* m_arrowsToBeSpawned
  arrows,     \* m_arrows
  barriers,   \* m_barriers
  playerHp,   \* m_playerHp
  step,       \* frames of this round
  credits     \* history: kills of this round, as pairs of killer and victim

data == <<start, order, upgrades>>
combat == <<obj, attacks, spawning, arrows, step, credits>>
vars == <<phase, round, data, combat, barriers, playerHp>>

\* The elements of s that are in S, in their order.
Keep(s, S) ==
  LET keep(kept, x) == IF x \in S THEN Append(kept, x) ELSE kept
  IN FoldLeft(keep, <<>>, s)

-----------------------------------------------------------------------------
(* Levels and upgrades: getUnitInfoWithLevelAndUpgrades *)

UnitLevelMax == 6
Sum(op(_), s) == FoldSeq(LAMBDA x, y : op(x) + y, 0, s)

HitpointsMax(t, level, ups) ==
  LET add(g) == g.hp IN Info[t].hp * level + Sum(add, ups)
DamageOf(t, level) == Info[t].damage * level
Armor(ups) == UNION {g.armor : g \in ToSet(ups)}
ExpGain(t, level) == Info[t].expGain * level

\* pow(level, 0.875), in thousandths.
LevelFactor == <<1000, 1834, 2615, 3363, 4088, 4795>>
ExpRequired(t, level) == (Info[t].expRequired * LevelFactor[level]) \div 1000

UpgradesOf(u) ==
  Keep(upgrades, {g \in Upgrade : g.player = Owner[u] /\ g.type = OfType[u]})

-----------------------------------------------------------------------------
(* Units in a fight; a world w is a record of what a frame has changed *)

Alive(o) == o.hp > 0
LivingEnemies(w, p) == {u \in DOMAIN w.obj : Owner[u] # p /\ Alive(w.obj[u])}

\* ServerUnit::takeDamage
Reduced(u, o, damage, types) ==
  LET armor == Armor(o.ups)
      ranged == IF "25%RangedDamage" \in armor /\ "ranged" \in types
                THEN (damage * 25) \div 100 ELSE damage
  IN IF "NoSplashDamage" \in armor /\ "splash" \in types
     THEN (ranged * 8) \div 100 ELSE ranged

\* Mutant: the level is not written to the data of the next round.
GainExperienceForgotten(w, u, e) ==
  LET o == w.obj[u]
      up == o.exp + e >= ExpRequired(OfType[u], o.level)
      n == [o EXCEPT !.level = IF up THEN @ + 1 ELSE @,
                     !.exp = IF up THEN 0 ELSE @ + e]
  IN IF o.level >= UnitLevelMax THEN w
     ELSE [w EXCEPT !.obj[u] = n, !.start[u].exp = n.exp]

\* Mutant: one point more is asked for.
GainExperienceStrict(w, u, e) ==
  LET o == w.obj[u]
      up == o.exp + e > ExpRequired(OfType[u], o.level)
      n == [o EXCEPT !.level = IF up THEN @ + 1 ELSE @,
                     !.exp = IF up THEN 0 ELSE @ + e]
  IN IF o.level >= UnitLevelMax THEN w
     ELSE [w EXCEPT !.obj[u] = n,
                    !.start[u] = [level |-> n.level, exp |-> n.exp]]

\* gainExperience and levelUnitUp: written through to the data of the next round.
GainExperience(w, u, e) ==
  LET o == w.obj[u]
      up == o.exp + e >= ExpRequired(OfType[u], o.level)
      n == [o EXCEPT !.level = IF up THEN @ + 1 ELSE @,
                     !.exp = IF up THEN 0 ELSE @ + e]
  IN IF o.level >= UnitLevelMax THEN w
     ELSE [w EXCEPT !.obj[u] = n,
                    !.start[u] = [level |-> n.level, exp |-> n.exp]]

\* The attacked unit loses hit points; who killed it gains experience, alive or
\* not.
Strike(w, attacker, attacked, damage, types) ==
  LET hit == [w EXCEPT !.obj[attacked].hp =
                @ - Reduced(attacked, w.obj[attacked], damage, types)]
      gain == ExpGain(OfType[attacked], w.obj[attacked].level)
  IN IF Alive(hit.obj[attacked]) THEN hit
     ELSE GainExperience([hit EXCEPT !.credits = Append(@, <<attacker, attacked>>)],
                         attacker, gain)

-----------------------------------------------------------------------------
(* A frame, in the order of performSimulation *)

CountDown(s) == [i \in DOMAIN s |-> [s[i] EXCEPT !.left = @ - 1]]
Due(s) == Keep(s, {x \in ToSet(s) : x.left <= 0})
Pending(s) == Keep(s, {x \in ToSet(s) : x.left > 0})

\* Mutant: an attack lands on the dead.
LandAttackOnTheDead(a, w) ==
  Strike(w, a.attacker, a.attacked, a.damage, a.types)

LandAttack(a, w) ==
  IF Alive(w.obj[a.attacked])
  THEN Strike(w, a.attacker, a.attacked, a.damage, a.types)
  ELSE w

\* handleScheduledAttacks: the death of the attacker, which the code looks at
\* while more than 0.1 s are left, changes nothing.
HandleScheduledAttacks(w) == FoldLeft(LAMBDA x, a : LandAttack(a, x), w,
                                      Due(CountDown(attacks)))

\* handleArrowsToBeSpawned: a shooter killed in the meantime does not shoot.
Arrow(s) == [shooter |-> s.shooter, splash |-> s.splash, damage |-> s.damage,
             types |-> s.types, left |-> s.flight]
Spawned(w) ==
  LET counted == CountDown(spawning)
      due == Keep(Due(counted), {a \in ToSet(counted) : Alive(w.obj[a.shooter])})
  IN [i \in DOMAIN due |-> Arrow(due[i])]

BarrierStops(w, a, i) ==
  /\ w.barriers[i].hp > 0
  /\ Owner[w.barriers[i].weaver] # Owner[a.shooter]

\* What an arrow may meet in this frame: a barrier that takes all of its damage,
\* or enemies; one arrow hits one enemy, a cannonball every one around. The age of
\* a cannonball may equal the time of its flight exactly.
Encounters(w, a) ==
  [barrier : {i \in 1..Len(w.barriers) : BarrierStops(w, a, i)}, near : {{}},
   exact : {FALSE}] \cup
  [barrier : {0},
   near : {n \in SUBSET LivingEnemies(w, Owner[a.shooter]) :
             a.splash \/ Cardinality(n) <= 1},
   exact : IF a.splash /\ a.left = 1 THEN BOOLEAN ELSE {FALSE}]

AllEncounters(w, flying) ==
  FoldLeft(LAMBDA s, a : {Append(x, e) : x \in s, e \in Encounters(w, a)}, {<<>>}, flying)

StopArrow(w, i, damage) == [w EXCEPT !.barriers[i].hp = @ - damage]

\* The units of the other player it may hit, in the order of m_simulationObjects.
Targets(w, a, near) ==
  Keep(order, near \cap LivingEnemies(w, Owner[a.shooter]))

Burst(w, a, targets) ==
  FoldLeft(LAMBDA x, u : Strike(x, a.shooter, u, a.damage, a.types), w, targets)

\* One arrow of handleArrows. It is erased once its age exceeds the time of its
\* flight; a cannonball explodes when its age reaches it, so that one that is hit
\* exactly explodes in two frames.
FlyArrow(w, a, e) ==
  LET flown == [a EXCEPT !.left = @ - 1]
      targets == Targets(w, a, e.near)
      stopped == e.barrier > 0 /\ BarrierStops(w, a, e.barrier)
  IN CASE stopped ->
            [w |-> StopArrow(w, e.barrier, a.damage), gone |-> TRUE, arrow |-> flown]
       [] ~stopped /\ ~a.splash ->
            IF targets = <<>>
            THEN [w |-> w, gone |-> flown.left < 0, arrow |-> flown]
            ELSE [w |-> Strike(w, a.shooter, Head(targets), a.damage, a.types),
                  gone |-> TRUE, arrow |-> flown]
       [] OTHER ->
            [w |-> IF flown.left <= 0 THEN Burst(w, a, targets) ELSE w,
             gone |-> flown.left <= 0 /\ ~e.exact, arrow |-> flown]

HandleArrows(w, flying, encounter) ==
  LET fly(x, i) ==
        LET f == FlyArrow(x.w, flying[i], encounter[i]) IN
          [w |-> f.w, arrows |-> IF f.gone THEN x.arrows
                                 ELSE Append(x.arrows, f.arrow)]
  IN FoldLeft(fly, [w |-> w, arrows |-> <<>>], [i \in DOMAIN flying |-> i])

\* Mutant: only the barriers of player 0 are looked at.
DropBarriersOfOne(w) ==
  [w EXCEPT !.barriers = [i \in DOMAIN @ |->
     IF /\ @[i].weaver \in DOMAIN w.obj /\ Owner[@[i].weaver] = 0
        /\ ~Alive(w.obj[@[i].weaver])
     THEN [@[i] EXCEPT !.hp = 0] ELSE @[i]]]

\* The barriers of the dead fall.
DropBarriers(w) ==
  [w EXCEPT !.barriers = [i \in DOMAIN @ |->
     IF @[i].weaver \in DOMAIN w.obj /\ ~Alive(w.obj[@[i].weaver])
     THEN [@[i] EXCEPT !.hp = 0] ELSE @[i]]]

-----------------------------------------------------------------------------
(* The update of the units: ServerUnit::update and the AIs *)

\* Units whose timer has run out: if an enemy, the closest one, is in range they
\* attack it; all others walk or stand. A new timer is at times up to 0.2 s longer
\* than that of the type, which looks like waiting.
Ready(w) ==
  {u \in DOMAIN w.obj : /\ Alive(w.obj[u]) /\ w.obj[u].timer <= 1
                        /\ Info[OfType[u]].kind # "weaver"
                        /\ LivingEnemies(w, Owner[u]) # {}}
Targeted(w) ==
  UNION {{f \in [units -> DOMAIN w.obj] :
            \A u \in units : f[u] \in LivingEnemies(w, Owner[u])} :
         units \in SUBSET Ready(w)}

\* Mutant: the barrier is spawned in every frame.
UpdateUnitForgetsBarrier(o, u, attacking) ==
  IF ~Alive(o) THEN o
  ELSE [o EXCEPT !.timer = IF attacking THEN Info[OfType[u]].timer ELSE Max({0, @ - 1})]

\* A dead unit is not updated.
UpdateUnit(o, u, attacking) ==
  IF ~Alive(o) THEN o
  ELSE [o EXCEPT !.timer = IF attacking THEN Info[OfType[u]].timer ELSE Max({0, @ - 1}),
                 !.woven = Info[OfType[u]].kind = "weaver"]

Attackers(targeted, kinds) ==
  Keep(order, {u \in DOMAIN targeted : Info[OfType[u]].kind \in kinds})

\* AiCloseCombat: the blow lands 0.4 s later, with the damage of now.
Blow(w, u, target) ==
  [left |-> 2, attacker |-> u, attacked |-> target,
   damage |-> DamageOf(OfType[u], w.obj[u].level),
   types |-> Info[OfType[u]].damageTypes]

\* AiRangedCombat: the arrow is spawned 0.81 s later, and the flight takes up
\* to a tick.
RangedShot(w, u, flight) ==
  [left |-> 4, shooter |-> u, splash |-> FALSE, flight |-> flight,
   damage |-> DamageOf(OfType[u], w.obj[u].level), types |-> Info[OfType[u]].damageTypes]

\* AiCannon: 0.2 s, and the ball bursts.
CannonShot(w, u, flight) ==
  [left |-> 1, shooter |-> u, splash |-> TRUE, flight |-> flight,
   damage |-> DamageOf(OfType[u], w.obj[u].level), types |-> Info[OfType[u]].damageTypes]

Shot(w, u, flight) ==
  IF Info[OfType[u]].kind = "cannon" THEN CannonShot(w, u, flight) ELSE RangedShot(w, u, flight)

\* AiBarrierWeaver, in its first frame.
NewBarriers(w) ==
  LET weavers == Keep(order, {u \in DOMAIN w.obj : /\ Info[OfType[u]].kind = "weaver"
                                                   /\ Alive(w.obj[u])
                                                   /\ ~w.obj[u].woven})
  IN [i \in DOMAIN weavers |->
        [weaver |-> weavers[i], hp |-> Info[OfType[weavers[i]]].barrierHp]]

CheckIsLastFrame(objects, i) ==
  \/ i = NumberOfSteps - 1
  \/ \E p \in {0, 1} : \A u \in DOMAIN objects : Owner[u] = p => ~Alive(objects[u])

\* Mutant: a survivor costs its own player hit points.
SurvivorsHurtTheirOwn(objects, hp) ==
  LET cost == [u \in DOMAIN objects |-> Info[OfType[u]].cost]
      survivors(p) == {u \in DOMAIN objects : Owner[u] = p /\ Alive(objects[u])}
  IN [p \in {0, 1} |-> hp[p] - SumFunctionOnSet(cost, survivors(p))]

\* Every survivor costs the other player its price.
SurvivorsHurt(objects, hp) ==
  LET cost == [u \in DOMAIN objects |-> Info[OfType[u]].cost]
      survivors(p) == {u \in DOMAIN objects : Owner[u] = p /\ Alive(objects[u])}
  IN [p \in {0, 1} |-> hp[p] - SumFunctionOnSet(cost, survivors(1 - p))]

\* Mutant: the frames are counted modulo the last one.
NextFrameWraps(i) == (i + 1) % (NumberOfSteps - 1)

NextFrame(i) == i + 1

-----------------------------------------------------------------------------
(* Actions *)

\* addUnit: an id is used once, by one entry.
AddUnit(u) ==
  /\ phase = "placing"
  /\ u \notin DOMAIN start
  /\ start' = [v \in DOMAIN start \cup {u} |->
                 IF v = u THEN [level |-> 1, exp |-> 0] ELSE start[v]]
  /\ order' = Append(order, u)
  /\ UNCHANGED <<phase, round, upgrades, combat, barriers, playerHp>>

\* Mutant: its place in the order of the units stays.
RemoveUnitKeepsPlace(u) ==
  /\ phase = "placing"
  /\ u \in DOMAIN start
  /\ start' = [v \in DOMAIN start \ {u} |-> start[v]]
  /\ UNCHANGED <<phase, round, order, upgrades, combat, barriers, playerHp>>

\* removeUnit: a unit that was sold.
RemoveUnit(u) ==
  /\ phase = "placing"
  /\ u \in DOMAIN start
  /\ start' = [v \in DOMAIN start \ {u} |-> start[v]]
  /\ order' = Keep(order, DOMAIN start \ {u})
  /\ UNCHANGED <<phase, round, upgrades, combat, barriers, playerHp>>

\* addUnitUpgrade
AddUnitUpgrade(g) ==
  /\ phase = "placing" /\ Len(upgrades) < MaxUpgrades
  /\ g \notin ToSet(upgrades)
  /\ upgrades' = Append(upgrades, g)
  /\ UNCHANGED <<phase, round, start, order, combat, barriers, playerHp>>

\* 0.3 to 0.6 s, of a cannon 0.6 to 0.8 s.
FirstTimer(u) == IF Info[OfType[u]].kind = "cannon" THEN 3 ELSE 2

RoundStartState(u, timer) ==
  [hp |-> HitpointsMax(OfType[u], start[u].level, <<>>),
   level |-> start[u].level, exp |-> start[u].exp,
   timer |-> timer, woven |-> FALSE, ups |-> UpgradesOf(u)]

\* prepareSimulationForNewRound: the state of a unit is set before its upgrades
\* are known to it; m_barriers is not cleared. The first timer is random.
Prepare ==
  /\ phase = "placing" /\ round < MaxRound
  /\ phase' = "fighting"
  /\ step' = 0
  /\ \E late \in [DOMAIN start -> {0, 1}] :
       obj' = [u \in DOMAIN start |-> RoundStartState(u, FirstTimer(u) + late[u])]
  /\ attacks' = <<>> /\ spawning' = <<>> /\ arrows' = <<>>
  /\ credits' = <<>>
  /\ UNCHANGED <<round, data, barriers, playerHp>>

\* What the units that attack have started in the world w.
NewBlows(w, targeted) ==
  LET blows == Attackers(targeted, {"close"})
  IN [i \in DOMAIN blows |-> Blow(w, blows[i], targeted[blows[i]])]
NewShots(w, targeted, flight) ==
  LET shots == Attackers(targeted, {"ranged", "cannon"})
  IN [i \in DOMAIN shots |-> Shot(w, shots[i], flight)]

\* The units are updated in the world that attacks and arrows have left, and the
\* last frame ends the round.
UpdateUnits(w, targeted, flight) ==
  LET objects == [u \in DOMAIN w.obj |-> UpdateUnit(w.obj[u], u, u \in DOMAIN targeted)]
      last == CheckIsLastFrame(objects, step)
  IN /\ obj' = objects
     /\ start' = w.start /\ credits' = w.credits
     /\ attacks' = Pending(CountDown(attacks)) \o NewBlows(w, targeted)
     /\ spawning' = Pending(CountDown(spawning)) \o NewShots(w, targeted, flight)
     /\ barriers' = w.barriers \o NewBarriers(w)
     /\ step' = NextFrame(step)
     /\ phase' = IF last THEN "placing" ELSE "fighting"
     /\ round' = IF last THEN round + 1 ELSE round
     /\ playerHp' = IF last THEN SurvivorsHurt(objects, playerHp) ELSE playerHp

\* One frame of performSimulation.
Step ==
  /\ phase = "fighting"
  /\ \E w1 \in {HandleScheduledAttacks([obj |-> obj, start |-> start,
                                       barriers |-> barriers, credits |-> credits])} :
     \E flying \in {arrows \o Spawned(w1)} :
     \E encounter \in AllEncounters(w1, flying) :
     \E h \in {HandleArrows(w1, flying, encounter)} :
     \E w2 \in {DropBarriers(h.w)} :
     \E targeted \in Targeted(w2) :
     \E flight \in IF Attackers(targeted, {"ranged", "cannon"}) = <<>> THEN {0} ELSE {0, 1} :
       /\ UpdateUnits(w2, targeted, flight)
       /\ arrows' = h.arrows
  /\ UNCHANGED <<order, upgrades>>

\* clear, when the server is reset between two rounds.
Clear ==
  /\ phase = "placing"
  /\ start' = <<>> /\ order' = <<>> /\ upgrades' = <<>>
  /\ obj' = <<>> /\ attacks' = <<>> /\ spawning' = <<>> /\ arrows' = <<>>
  /\ barriers' = <<>> /\ credits' = <<>>
  /\ playerHp' = [p \in {0, 1} |-> InitialPlayerHP]
  /\ UNCHANGED <<phase, round, step>>

Init ==
  /\ phase = "placing" /\ round = 0 /\ step = 0
  /\ start = <<>> /\ order = <<>> /\ upgrades = <<>>
  /\ obj = <<>> /\ attacks = <<>> /\ spawning = <<>> /\ arrows = <<>>
  /\ barriers = <<>> /\ credits = <<>>
  /\ playerHp = [p \in {0, 1} |-> InitialPlayerHP]

Next ==
  \/ \E u \in Unit : AddUnit(u) \/ RemoveUnit(u)
  \/ \E g \in Upgrade : AddUnitUpgrade(g)
  \/ Prepare
  \/ Step
  \/ Clear

\* A round is one call of performSimulation, a loop that nothing interrupts.
Spec == Init /\ [][Next]_vars /\ WF_vars(Step)

-----------------------------------------------------------------------------
(* Properties *)

TypeOK ==
  /\ phase \in {"placing", "fighting"} /\ round \in 0..MaxRound
  /\ step \in 0..NumberOfSteps
  /\ DOMAIN start \subseteq Unit /\ ToSet(order) = DOMAIN start
  /\ Len(order) = Cardinality(DOMAIN start)
  /\ \A u \in DOMAIN start : start[u].level \in 1..UnitLevelMax /\ start[u].exp \in Nat
  /\ upgrades \in Seq(Upgrade)
  /\ \A u \in DOMAIN obj : /\ obj[u].hp \in Int /\ obj[u].timer \in Nat
                           /\ obj[u].level \in 1..UnitLevelMax /\ obj[u].exp \in Nat
                           /\ obj[u].ups \in Seq(Upgrade)
  /\ \A i \in DOMAIN barriers : barriers[i].weaver \in Unit /\ barriers[i].hp \in Int
  /\ playerHp \in [{0, 1} -> Int]

Killed == {credits[i][2] : i \in DOMAIN credits}

\* Whatever lands after whom, each unit that died in a round was paid for once,
\* to a unit of the other player, and nobody was paid for a unit that lives.
KillsPaidOnce ==
  /\ \A i, j \in DOMAIN credits : credits[i][2] = credits[j][2] => i = j
  /\ \A i \in DOMAIN credits : Owner[credits[i][1]] # Owner[credits[i][2]]
  /\ phase = "fighting" => Killed = {u \in DOMAIN obj : ~Alive(obj[u])}

\* The next round starts from the levels and the experience of this one: the
\* data behind the pointer of each unit is always what the unit itself has.
VeteransKeptStep ==
  phase = "fighting" =>
    \A u \in DOMAIN obj' : /\ start'[u].level = obj'[u].level
                           /\ start'[u].exp = obj'[u].exp
VeteransKept == [][VeteransKeptStep]_vars

\* A unit below the last level never has the experience that it needs for the
\* next one: no level is owed, in whatever chunks the experience arrived.
NoLevelOwed ==
  \A u \in DOMAIN start :
    start[u].level < UnitLevelMax =>
      start[u].exp < ExpRequired(OfType[u], start[u].level)

\* No frame shows the barrier of a dead weaver, whatever killed it in that frame.
BarriersOfTheDeadFall ==
  \A i \in DOMAIN barriers :
    LET u == barriers[i].weaver IN
      u \in DOMAIN obj /\ ~Alive(obj[u]) => barriers[i].hp <= 0

\* A weaver sustains at most one barrier for each round it fought in.
OneBarrierPerRound ==
  \A u \in DOMAIN obj :
    Cardinality({i \in DOMAIN barriers : barriers[i].weaver = u})
      <= IF phase = "fighting" THEN round + 1 ELSE round

\* A fight pays and protects whom it should.
FightIsFair ==
  /\ KillsPaidOnce
  /\ NoLevelOwed
  /\ BarriersOfTheDeadFall
  /\ OneBarrierPerRound

\* A player loses hit points only when a round ends, and then only if its own
\* army is dead or time has run out: of two players one at most is hurt by a
\* round that was decided.
OnlyTheBeatenAreHurtStep ==
  \A p \in {0, 1} : playerHp'[p] < playerHp[p] =>
    /\ phase = "fighting" /\ phase' = "placing"
    /\ \/ step' = NumberOfSteps
       \/ \A u \in DOMAIN obj' : Owner[u] = p => ~Alive(obj'[u])
OnlyTheBeatenAreHurt == [][OnlyTheBeatenAreHurtStep]_vars

\* Every round ends: neither side can be spared for ever.
RoundOver == phase = "placing"
EveryRoundEnds == []<>RoundOver

=============================================================================
