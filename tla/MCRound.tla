------------------------------- MODULE MCRound -------------------------------
(* What happens on the server and between it and its clients from one round *)
(* to the next: a simulation of each component with values of the game. A   *)
(* behaviour is one of a single component, which machine names; the others  *)
(* stay where they are, so that every component is checked on its own.      *)
EXTENDS Simulation

VARIABLES
  machine,   \* the component this behaviour is one of
  gun_phase, gun_round, gun_start, gun_order, gun_upgrades, gun_obj,
  gun_attacks, gun_spawning, gun_arrows, gun_barriers, gun_playerHp,
  gun_step, gun_credits,   \* the variables of Simulation, with artillery
  march_alive, march_pos, march_body, march_velocity,
  wire_unit, wire_frames, wire_wire, wire_shown,
  info_known, info_possible, info_bought, info_sent, info_upgrades,
  terrain_chunks, terrain_map, terrain_at, terrain_dirty, terrain_picture,
  terrain_painted, terrain_loads,
  two_sent, two_out, two_wire, two_handled, two_up, two_sockets, two_isOpen,
  two_awaiting, two_completed, two_size, two_reading, two_connection,
  two_received, two_expected, two_overlapped, two_split, two_overwritten,
  two_misread, two_dangling,
  one_sent, one_out, one_wire, one_handled, one_up, one_sockets, one_isOpen,
  one_awaiting, one_completed, one_size, one_reading, one_connection,
  one_received, one_expected, one_overlapped, one_split, one_overwritten,
  one_misread, one_dangling

-----------------------------------------------------------------------------
(* Units of the game, hit points and damage in hundredths; every unit rises *)
(* after its first kills.                                                   *)
Fighters == {"a1", "a2", "b1"}
Owners == [u \in Fighters |-> IF u = "b1" THEN 1 ELSE 0]
UnitTypes ==
  [horseman |-> [kind |-> "close", hp |-> 6000, damage |-> 2000, damageTypes |-> {},
                 cost |-> 80, timer |-> 10, expRequired |-> 30, expGain |-> 40,
                 barrierHp |-> 0],
   archer |-> [kind |-> "ranged", hp |-> 2000, damage |-> 2000,
               damageTypes |-> {"ranged"}, cost |-> 100, timer |-> 12,
               expRequired |-> 30, expGain |-> 30, barrierHp |-> 0],
   cannon |-> [kind |-> "cannon", hp |-> 1000, damage |-> 3500,
               damageTypes |-> {"ranged", "splash"}, cost |-> 150, timer |-> 35,
               expRequired |-> 30, expGain |-> 25, barrierHp |-> 0],
   weaver |-> [kind |-> "weaver", hp |-> 1000, damage |-> 0, damageTypes |-> {},
               cost |-> 100, timer |-> 0, expRequired |-> 30, expGain |-> 30,
               barrierHp |-> 35000]]
HorsemenAndWeaver == [u \in Fighters |-> IF u = "b1" THEN "weaver" ELSE "horseman"]
CannonArcherAndWeaver ==
  [u \in Fighters |-> CASE u = "a1" -> "cannon" [] u = "a2" -> "archer" [] OTHER -> "weaver"]
NoUpgrade == {}

RangedResistance ==
  {[player |-> 0, type |-> "archer", hp |-> 0, armor |-> {"25%RangedDamage"}]}

ASSUME UnitAssumption
ASSUME BoundAssumption

Artillery == INSTANCE Simulation WITH
  Unit <- Fighters, Owner <- Owners, OfType <- CannonArcherAndWeaver,
  Info <- UnitTypes, Upgrade <- RangedResistance, InitialPlayerHP <- 4000,
  NumberOfSteps <- 4, MaxRound <- 1, MaxUpgrades <- 1, phase <- gun_phase,
  round <- gun_round, start <- gun_start, order <- gun_order,
  upgrades <- gun_upgrades, obj <- gun_obj, attacks <- gun_attacks,
  spawning <- gun_spawning, arrows <- gun_arrows, barriers <- gun_barriers,
  playerHp <- gun_playerHp, step <- gun_step, credits <- gun_credits
ASSUME Artillery!UnitAssumption
ASSUME Artillery!BoundAssumption

-----------------------------------------------------------------------------
(* A map with a hill in its middle.                                          *)
HillWidth == 26
Hill == [p \in -26 .. 52 |->
    IF p \in 8 .. 10 THEN p - 7 ELSE IF p \in 11 .. 17 THEN 3 ELSE IF p = 18 THEN 1 ELSE 0]
Of(owner, kind, reach, pace) == [owner |-> owner, kind |-> kind, reach |-> reach, pace |-> pace]
Marchers == << Of(0, "shooter", 7, 2), Of(1, "close", 6, 2), Of(1, "weaver", 6, 0) >>

March == INSTANCE Marching WITH
  Units <- Marchers, Width <- HillWidth, Edge <- 23, Height <- Hill,
  alive <- march_alive, pos <- march_pos, body <- march_body,
  velocity <- march_velocity
ASSUME March!MarchingAssumption

-----------------------------------------------------------------------------
(* A step with an arrow of a cannon, one of an archer, the explosion of an  *)
(* arrow that a barrier has stopped, and a barrier.                         *)
Something == [arrows |-> <<[x |-> 1234, height |-> -37, scale |-> 175],
                           [x |-> 99, height |-> -100, scale |-> 100]>>,
              explosions |-> <<[x |-> 57, radius |-> 1], [x |-> 8, radius |-> 3250]>>,
              barriers |-> <<[x |-> 33, radius |-> 3217, hp |-> 7, hpMax |-> 4000,
                              unitID |-> 1, player |-> 1]>>]

WiresUnits == 1 .. 3
WiresHurts == {215}
WiresPlaces == {-57}
WiresLevels == {1, 2}
WiresBodies == {Something}

Wires == INSTANCE Wire WITH
  Units <- WiresUnits, Hurts <- WiresHurts, Places <- WiresPlaces,
  Levels <- WiresLevels, Bodies <- WiresBodies, FullHp <- 100, Steps <- 2,
  unit <- wire_unit, frames <- wire_frames, wire <- wire_wire,
  shown <- wire_shown
ASSUME Wires!WireAssumption

-----------------------------------------------------------------------------
(* The unit files of assets/units, in hundredths, and all that their        *)
(* descriptions of upgrades promise.                                        *)
Add(a) == [add |-> a, factor |-> 0]
Factor(f) == [add |-> 0, factor |-> f]
Upgraded(n, c) == [name |-> n, upgCost |-> c]
PlainHarm(d) == [damage |-> d]
Harm(d, types) == [damage |-> d, damageTypes |-> types]
CloseCombat == [type |-> 0, range |-> -100]
Shoots(kind, reach, height) == [type |-> kind, range |-> reach, arrowHeight |-> height]

UnitFile(t, exp, gain, hp, blow, timer, speed, cost, unlock, ai, ups) ==
  [type |-> t, expRequiredForLevelUp |-> exp, expGainWhenKilled |-> gain, hitpoints |-> hp,
   damage |-> blow, attackTimerMax |-> timer, movementSpeed |-> speed, cost |-> cost,
   unlockCost |-> unlock, ai |-> ai, upgrades |-> ups]

Archer == UnitFile("archer", 80, 30, 2000, Harm(2000, <<"ranged">>), 250, 800, 10000, 5000,
  Shoots(1, 900, 4800),
  <<[range |-> Add(300)] @@ Upgraded("range", 150),
    [attackTimerMax |-> Add(-75)] @@ Upgraded("fast attack", 150)>>)

\* The keys shieldRange and shieldHp of the file are those of nothing that is read.
Barrierweaver == UnitFile("barrierweaver", 100, 30, 1000, PlainHarm(0), 0, 0, 10000, 10000,
  [type |-> 3, barrierHp |-> 35000, range |-> 350],
  <<[shieldRange |-> Add(100)] @@ Upgraded("crystal of reach", 150),
    [shieldHp |-> Add(20000)] @@ Upgraded("barrier of unyielding valor", 150)>>)

Cannon == UnitFile("cannon", 120, 25, 1000, Harm(3500, <<"ranged", "splash">>), 700, 500,
  15000, 15000, Shoots(2, 800, 4800),
  <<[range |-> Add(300)] @@ Upgraded("range", 125),
    [attackTimerMax |-> Add(-100)] @@ Upgraded("fast reload", 175),
    [attackTimerMax |-> Factor(30), damage |-> Factor(50)] @@ Upgraded("heavy attack", 125)>>)

Crossbow == UnitFile("crossbow", 100, 30, 3000, Harm(11000, <<"ranged">>), 550, 500, 15000,
  15000, Shoots(1, 900, 0),
  <<[range |-> Add(300)] @@ Upgraded("range", 125),
    [damage |-> Add(3000)] @@ Upgraded("charged shot", 175)>>)

Horseman == UnitFile("horseman", 100, 40, 6000, PlainHarm(2000), 200, 4000, 8000, 5000, CloseCombat,
  <<[movementSpeed |-> Add(1000), attackTimerMax |-> Factor(-20)]
        @@ Upgraded("carrot of agility", 200),
    [armor |-> <<"25%RangedDamage">>] @@ Upgraded("ranged resistance", 100)>>)

Peasant == UnitFile("peasant", 40, 30, 2500, Harm(800, <<"light">>), 100, 2800, 4500, 2500,
  CloseCombat,
  <<[movementSpeed |-> Factor(15), attackTimerMax |-> Factor(-20)] @@ Upgraded("rage", 100),
    [armor |-> <<"25%RangedDamage">>] @@ Upgraded("ranged resistance", 100)>>)

Shieldman == UnitFile("shieldman", 120, 90, 25000, PlainHarm(1500), 225, 800, 15000, 10000,
  CloseCombat,
  <<[hitpoints |-> Add(10000)] @@ Upgraded("heavy armor", 125),
    [movementSpeed |-> Add(400)] @@ Upgraded("boots of swiftness", 200),
    [armor |-> <<"NoSplashDamage">>] @@ Upgraded("splash damage reduction", 100)>>)

Swordman == UnitFile("swordman", 60, 30, 9000, PlainHarm(800), 100, 1500, 10000, 5000, CloseCombat,
  <<[attackTimerMax |-> Factor(-20)] @@ Upgraded("fast attack", 125),
    [movementSpeed |-> Add(1000)] @@ Upgraded("boots of swiftness", 200),
    [damage |-> Factor(50)] @@ Upgraded("sharp swords", 200)>>)

Promise(t, n, s, a) == [type |-> t, name |-> n, stat |-> s, add |-> a]
BrokenPromises ==
  {Promise("shieldman", "heavy armor", "hp", 10000),                 \* unit_shieldman.json:27
   Promise("shieldman", "splash damage reduction", "splash", -100),  \* unit_shieldman.json:47
   Promise("barrierweaver", "crystal of reach", "range", 100),       \* unit_barrierweaver.json:28
   Promise("barrierweaver", "barrier of unyielding valor", "barrierHp", 20000)}
Described == BrokenPromises \cup
  {Promise("archer", "range", "range", 300),
   Promise("archer", "fast attack", "attackTimer", -75),
   Promise("cannon", "range", "range", 300),
   Promise("cannon", "fast reload", "attackTimer", -100),
   Promise("cannon", "heavy attack", "damage", 1750),
   Promise("cannon", "heavy attack", "attackTimer", 210),
   Promise("crossbow", "range", "range", 300),
   Promise("crossbow", "charged shot", "damage", 3000),
   Promise("horseman", "carrot of agility", "speed", 1000),
   Promise("horseman", "carrot of agility", "attackTimer", -40),
   Promise("horseman", "ranged resistance", "ranged", -75),
   Promise("peasant", "rage", "speed", 420),
   Promise("peasant", "rage", "attackTimer", -20),
   Promise("peasant", "ranged resistance", "ranged", -75),
   Promise("shieldman", "boots of swiftness", "speed", 400),
   Promise("swordman", "fast attack", "attackTimer", -20),
   Promise("swordman", "boots of swiftness", "speed", 1000),
   Promise("swordman", "sharp swords", "damage", 400)}

\* Two upgrades each of two types, bought in any order; both of the cannon's
\* change its attack timer, so that their order matters.
InfosFiles == <<[Swordman EXCEPT !.upgrades = Tail(@)], [Cannon EXCEPT !.upgrades = Tail(@)]>>
InfosLevelFactor == <<1000, 1834>>
InfosRival == {<<"swordman", 2>>, <<"cannon", 1>>}

Infos == INSTANCE UnitInfo WITH
  Files <- InfosFiles, LevelFactor <- InfosLevelFactor, Rival <- InfosRival,
  Promises <- Described, Broken <- BrokenPromises, MaxPurchases <- 6,
  known <- info_known, possible <- info_possible, bought <- info_bought,
  sent <- info_sent, upgrades <- info_upgrades

\* All files, and any one of their upgrades, bought by either player.
ShopFiles ==
  <<Archer, Barrierweaver, Cannon, Crossbow, Horseman, Peasant, Shieldman, Swordman>>
ShopRival == UNION {{<<ShopFiles[i].type, k>> : k \in DOMAIN ShopFiles[i].upgrades} :
                    i \in DOMAIN ShopFiles}

Shop == INSTANCE UnitInfo WITH
  Files <- ShopFiles, LevelFactor <- InfosLevelFactor, Rival <- ShopRival,
  Promises <- Described, Broken <- BrokenPromises, MaxPurchases <- 1,
  known <- info_known, possible <- info_possible, bought <- info_bought,
  sent <- info_sent, upgrades <- info_upgrades

-----------------------------------------------------------------------------
(* Two maps of several heights, some above HeightMax, some below 0, and the *)
(* maps of three heights, with one of the fields in between.                *)
Fields == (0 .. 1) \X (0 .. 2)
Cliff == [f \in Fields |-> IF f[2] = 0 THEN 99 ELSE IF f[1] = 0 THEN -7 ELSE 4]
Ditch == [f \in Fields |-> IF f[2] = 1 THEN 0 ELSE 2 + 2 * f[2]]

LoadsMaps == {Cliff, Ditch}

Loads == INSTANCE Terrain WITH
  Width <- 2, Height <- 3, Flank <- 1, HeightMax <- 10, Maps <- LoadsMaps,
  MaxLoads <- 2, chunks <- terrain_chunks, map <- terrain_map,
  at <- terrain_at, dirty <- terrain_dirty, picture <- terrain_picture,
  painted <- terrain_painted, loads <- terrain_loads

TheMapsMaps == {m \in [Fields -> {0, 4, 8}] : m[<<1, 2>>] = 4}

TheMaps == INSTANCE Terrain WITH
  Width <- 2, Height <- 3, Flank <- 1, HeightMax <- 10, Maps <- TheMapsMaps,
  MaxLoads <- 1, chunks <- terrain_chunks, map <- terrain_map,
  at <- terrain_at, dirty <- terrain_dirty, picture <- terrain_picture,
  painted <- terrain_painted, loads <- terrain_loads

-----------------------------------------------------------------------------
(* Messages of different lengths. *)
Lengths(clients) ==
  [d \in {"up", "down"} |-> [c \in clients |->
     [k \in 1 .. 9 |-> IF c = "c1" /\ k % 2 = 0 THEN 2 ELSE 1]]]
Bounds(ups, downs) == [d \in {"up", "down"} |-> IF d = "up" THEN ups ELSE downs]

TwoUpClient == {"c1", "c2"}
TwoUpLength == Lengths({"c1", "c2"})
TwoUpMaxSent == Bounds([c \in {"c1", "c2"} |-> IF c = "c1" THEN 2 ELSE 1], [c \in {"c1", "c2"} |-> 0])
TwoUpLeaving == {}

TwoUp == INSTANCE Connection WITH
  Client <- TwoUpClient, Length <- TwoUpLength, MaxSent <- TwoUpMaxSent,
  BufferSize <- 2, Pieces <- TRUE, Leaving <- TwoUpLeaving, sent <- two_sent,
  out <- two_out, wire <- two_wire, handled <- two_handled, up <- two_up,
  sockets <- two_sockets, isOpen <- two_isOpen, awaiting <- two_awaiting,
  completed <- two_completed, size <- two_size, reading <- two_reading,
  connection <- two_connection, received <- two_received,
  expected <- two_expected, overlapped <- two_overlapped, split <- two_split,
  overwritten <- two_overwritten, misread <- two_misread,
  dangling <- two_dangling
ASSUME TwoUp!LengthAssumption
ASSUME TwoUp!FaultAssumption

-----------------------------------------------------------------------------
AloneClient == {"c1"}
AloneLength == Lengths({"c1"})
AloneMaxSent == Bounds([c \in {"c1"} |-> 2], [c \in {"c1"} |-> 0])
AloneLeaving == {"c1"}

Alone == INSTANCE Connection WITH
  Client <- AloneClient, Length <- AloneLength, MaxSent <- AloneMaxSent,
  BufferSize <- 2, Pieces <- TRUE, Leaving <- AloneLeaving, sent <- one_sent,
  out <- one_out, wire <- one_wire, handled <- one_handled, up <- one_up,
  sockets <- one_sockets, isOpen <- one_isOpen, awaiting <- one_awaiting,
  completed <- one_completed, size <- one_size, reading <- one_reading,
  connection <- one_connection, received <- one_received,
  expected <- one_expected, overlapped <- one_overlapped, split <- one_split,
  overwritten <- one_overwritten, misread <- one_misread,
  dangling <- one_dangling
ASSUME Alone!LengthAssumption
ASSUME Alone!FaultAssumption

DownClient == {"c1"}
DownLength == Lengths({"c1"})
DownMaxSent == Bounds([c \in {"c1"} |-> 0], [c \in {"c1"} |-> 2])
DownLeaving == {"c1"}

Down == INSTANCE Connection WITH
  Client <- DownClient, Length <- DownLength, MaxSent <- DownMaxSent,
  BufferSize <- 2, Pieces <- TRUE, Leaving <- DownLeaving, sent <- one_sent,
  out <- one_out, wire <- one_wire, handled <- one_handled, up <- one_up,
  sockets <- one_sockets, isOpen <- one_isOpen, awaiting <- one_awaiting,
  completed <- one_completed, size <- one_size, reading <- one_reading,
  connection <- one_connection, received <- one_received,
  expected <- one_expected, overlapped <- one_overlapped, split <- one_split,
  overwritten <- one_overwritten, misread <- one_misread,
  dangling <- one_dangling
ASSUME Down!LengthAssumption
ASSUME Down!FaultAssumption

LanClient == {"c1"}
LanLength == Lengths({"c1"})
LanMaxSent == Bounds([c \in {"c1"} |-> 3], [c \in {"c1"} |-> 3])
LanLeaving == {}

Lan == INSTANCE Connection WITH
  Client <- LanClient, Length <- LanLength, MaxSent <- LanMaxSent,
  BufferSize <- 3, Pieces <- FALSE, Leaving <- LanLeaving, sent <- one_sent,
  out <- one_out, wire <- one_wire, handled <- one_handled, up <- one_up,
  sockets <- one_sockets, isOpen <- one_isOpen, awaiting <- one_awaiting,
  completed <- one_completed, size <- one_size, reading <- one_reading,
  connection <- one_connection, received <- one_received,
  expected <- one_expected, overlapped <- one_overlapped, split <- one_split,
  overwritten <- one_overwritten, misread <- one_misread,
  dangling <- one_dangling
ASSUME Lan!LengthAssumption
ASSUME Lan!FaultAssumption

-----------------------------------------------------------------------------
Machines == {"sim", "artillery", "march", "wire", "info", "shop", "loads", "maps",
            "up", "alone", "down", "lan"}

gunVars == <<gun_phase, gun_round, gun_start, gun_order, gun_upgrades, gun_obj,
    gun_attacks, gun_spawning, gun_arrows, gun_barriers, gun_playerHp,
    gun_step, gun_credits>>
marchVars == <<march_alive, march_pos, march_body, march_velocity>>
wireVars == <<wire_unit, wire_frames, wire_wire, wire_shown>>
infoVars == <<info_known, info_possible, info_bought, info_sent, info_upgrades>>
terrainVars == <<terrain_chunks, terrain_map, terrain_at, terrain_dirty, terrain_picture,
    terrain_painted, terrain_loads>>
twoVars == <<two_sent, two_out, two_wire, two_handled, two_up, two_sockets,
    two_isOpen, two_awaiting, two_completed, two_size, two_reading,
    two_connection, two_received, two_expected, two_overlapped, two_split,
    two_overwritten, two_misread, two_dangling>>
oneVars == <<one_sent, one_out, one_wire, one_handled, one_up, one_sockets,
    one_isOpen, one_awaiting, one_completed, one_size, one_reading,
    one_connection, one_received, one_expected, one_overlapped, one_split,
    one_overwritten, one_misread, one_dangling>>

allVars == <<machine, vars, gunVars, marchVars, wireVars, infoVars, terrainVars, twoVars,
          oneVars>>

\* The components that are not run stay in one initial state.
RoundInit ==
  /\ machine \in Machines
  /\ Init
  /\ Artillery!Init
  /\ March!Init
  /\ machine # "march" => march_pos = [u \in DOMAIN march_pos |-> 0]
  /\ Wires!Init
  /\ machine # "wire" => \A i \in DOMAIN wire_unit : wire_unit[i].level = 1
  /\ IF machine = "shop" THEN Shop!Init ELSE Infos!Init
  /\ IF machine = "maps" THEN TheMaps!Init ELSE Loads!Init
  /\ TwoUp!Init
  /\ IF machine = "down" THEN Down!Init ELSE IF machine = "lan" THEN Lan!Init ELSE Alone!Init

\* A step of the component that is run.
Only(m) ==
  /\ machine = m /\ UNCHANGED machine
  /\ m # "sim" => UNCHANGED vars
  /\ m # "artillery" => UNCHANGED gunVars
  /\ m # "march" => UNCHANGED marchVars
  /\ m # "wire" => UNCHANGED wireVars
  /\ m \notin {"info", "shop"} => UNCHANGED infoVars
  /\ m \notin {"loads", "maps"} => UNCHANGED terrainVars
  /\ m # "up" => UNCHANGED twoVars
  /\ m \notin {"alone", "down", "lan"} => UNCHANGED oneVars

RoundNext ==
  \/ Only("sim") /\ Next
  \/ Only("artillery") /\ Artillery!Next
  \/ Only("march") /\ March!Frame
  \/ Only("wire") /\ Wires!Next
  \/ Only("info") /\ Infos!Next
  \/ Only("shop") /\ Shop!Next
  \/ Only("loads") /\ Loads!Next
  \/ Only("maps") /\ TheMaps!Next
  \/ Only("up") /\ TwoUp!Next
  \/ Only("alone") /\ Alone!Next
  \/ Only("down") /\ Down!Next
  \/ Only("lan") /\ Lan!Next

\* The component that is run goes on.
Turn ==
  \/ Only("sim") /\ Step
  \/ Only("artillery") /\ Artillery!Step
  \/ Only("march") /\ March!FrameInWhich({})
  \/ Only("loads") /\ Loads!BuildChunk
  \/ Only("alone") /\ Alone!Server
  \/ Only("down") /\ Down!Server
  \/ Only("lan") /\ Lan!Server

\* So do the writes of its client,
Turn2 ==
  \/ Only("loads") /\ Loads!Frame
  \/ Only("alone") /\ Alone!Write("up", "c1")
  \/ Only("down") /\ Down!Write("up", "c1")
  \/ Only("lan") /\ Lan!Write("up", "c1")

\* and what was written to it or to the server arrives.
Turn3 ==
  \/ Only("alone") /\ Alone!Delivery("c1")
  \/ Only("down") /\ Down!Delivery("c1")
  \/ Only("lan") /\ Lan!Delivery("c1")

RoundSpec == RoundInit /\ [][RoundNext]_allVars
  /\ WF_allVars(Turn)
  /\ WF_allVars(Turn2)
  /\ WF_allVars(Turn3)

\* The upgrades alone, for the run that holds them against all their descriptions.
UpgradesSpec == RoundInit /\ machine = "shop" /\ [][RoundNext]_allVars

-----------------------------------------------------------------------------
(* Properties of the components, for their behaviours *)

\* The variables of every component have their types.
TypesOK ==
  /\ TypeOK
  /\ machine = "artillery" => Artillery!TypeOK
  /\ machine = "wire" => Wires!TypeOK
  /\ machine = "info" => Infos!TypeOK
  /\ machine = "shop" => Shop!TypeOK
  /\ machine = "loads" => Loads!TypeOK
  /\ machine = "maps" => TheMaps!TypeOK
  /\ machine = "up" => TwoUp!TypeOK
  /\ machine = "alone" => Alone!TypeOK
  /\ machine = "down" => Down!TypeOK
  /\ machine = "lan" => Lan!TypeOK

\* With artillery too, a fight pays and protects whom it should.
ArtilleryIsFair == machine = "artillery" => Artillery!FightIsFair

\* And the next round starts from the levels and the experience of this one.
GunnersKept == [][machine = "artillery" => Artillery!VeteransKeptStep]_allVars

\* And only a player whose army is dead or whose time has run out is hurt.
OnlyTheOutgunnedAreHurt ==
  [][machine = "artillery" => Artillery!OnlyTheBeatenAreHurtStep]_allVars

\* Every round ends: neither side can be spared for ever.
NoEndlessRound == []<>(
  /\ machine = "sim" => RoundOver
  /\ machine = "artillery" => Artillery!RoundOver)

\* After a frame every living unit is where the screen shows it, and so is
\* its body, however fast it came and wherever it was placed
\* (clampPositionToScreen runs after the AI, and moves the body too).
OnTheScreen == [][machine = "march" => March!OnTheScreenStep]_allVars

\* As long as somebody can walk, the armies meet: hills, the edge of the
\* screen, the position of a frame ago that the AI sees and those who fall
\* on the way do not keep them apart.
ArmiesMeet == []<>(machine = "march" => March!Met)

\* A unit that could walk and stands has nobody left to fight or an enemy
\* close enough, also with the frame between what it sees and where it is.
IdleHaveReason == [][machine = "march" => March!IdleHaveReasonStep]_allVars

\* Everything about a unit that is not a length arrives as it was, also where it had its
\* usual value and was not sent (to_json and from_json of UnitServerToClientData), and so do
\* barriers and the hit points of the players.
UnitsAsSimulated == machine = "wire" => Wires!UnitsAsSimulated

\* A place, height or size on the client is less than one step of the precision away from
\* the server's, and never further from zero.
PlacesNearlyExact == machine = "wire" => Wires!PlacesNearlyExact

\* The client never shows a unit alive that the simulation has killed; a unit it shows dead
\* has less than a tenth of a hit point left; and the bar is never more than full.
NoUnitRises == machine = "wire" => Wires!NoUnitRises

\* A unit killed in the simulation plays its death once: in the frame it dies in, and no
\* frame after that brings another animation (saveState forgets what it handed out).
DeathShownOnce == machine = "wire" => Wires!DeathShownOnce

\* Once its messages have arrived, the values a client shows for its own unit of any level are
\* those the server reads for it in a round, price aside: the same file, written and read once
\* more, and the same upgrades in the same order, whatever the other player buys in between
\* (drawUnitTooltipForOneUnit against ServerUnit::getUnitInfoFull).
TooltipTrue ==
  /\ machine = "info" => Infos!TooltipTrue
  /\ machine = "shop" => Shop!TooltipTrue

\* Every upgrade of a unit is either still offered or bought, never both and never twice.
OffersAndPurchases ==
  /\ machine = "info" => Infos!OffersAndPurchases
  /\ machine = "shop" => Shop!OffersAndPurchases

\* Of all descriptions of upgrades in assets/units, those listed in BrokenPromises are not what
\* the upgrade does in a round, and all others are, for both players.
OthersKept == machine = "shop" => Shop!OthersKept

\* Every upgrade does in a round what its description says: the text in assets/units that
\* PlaceUnits::drawUnitUpgradeWindow shows as a tooltip.
UpgradesAsDescribed == machine = "shop" => Shop!EveryPromiseKept

\* A client that builds its terrain from the heights that the server sends
\* gets the terrain of the server's simulation, whatever maps each of them
\* had before.
SameForClients == machine = "loads" => Loads!SameForClients

\* No position of the mouse, outside of the window too, lets a player place a
\* unit on a field of the opponent or beyond the array of chunks.
OwnFieldsOnly == machine = "loads" => Loads!OwnFieldsOnly

\* A picture that no repaint is due for shows the terrain as it is, even if
\* the terrain was rebuilt while it was painted.
PictureCurrent == machine = "loads" => Loads!PictureCurrent

\* On a map of two heights, all chunks around a corner agree on it, and it is
\* as high as the highest of them: slopes lead up to every plateau and there
\* are no gaps (terrain.hpp:37-38), although the chunks are adjusted in one
\* pass and only to those before them. (With three heights a corner may be
\* left in between by the chunk that is built last.)
CornersMeet == machine = "maps" => TheMaps!CornersMeet

\* The height at a position of a field lies between those of the corners and
\* the centre of the field: the position is looked up in the right triangle.
HeightWithinField == machine = "maps" => TheMaps!HeightWithinField

\* On every map, neighbours in a row meet at the bottom.
RowsMeet == machine = "maps" => TheMaps!RowsMeet

\* The centre of a chunk is never below its own height nor above all that
\* surrounds it, bridges included.
CentersBetween == machine = "maps" => TheMaps!CentersBetween

\* "Slope on steady surface is 0.0f" (terrain_test.cpp:26): a field of a
\* plateau is level at every position, whatever the rest of the map is like.
PlateauLevel == machine = "maps" => TheMaps!PlateauLevel

\* Once no map arrives any more, the last one is shown for good.
LastMapShown == <>[](machine = "loads" => Loads!AllShown)

\* However writes mix, receives overwrite each other and lengths are misread:
\* a message whose handler runs was sent, and it comes after all those that
\* were handled before it. Nothing is handled twice.
HandledInOrder ==
  /\ machine = "up" => TwoUp!HandledInOrder
  /\ machine = "alone" => Alone!HandledInOrder
  /\ machine = "down" => Down!HandledInOrder
  /\ machine = "lan" => Lan!HandledInOrder

\* The server does so unless it took a header in parts, unless a client's
\* writes were mixed, or unless the length of one client was overwritten by
\* that of another one before its handler ran.
ServerReadsWhole == machine = "up" => TwoUp!ServerReadsWhole

\* A client takes every message for what it is unless the server wrote two of
\* them to it at the same time: async_read makes pieces harmless.
ClientReadsWhole == machine = "down" => Down!ClientReadsWhole

\* A callback uses a destroyed socket only if something was sent to its client:
\* with a receive alone no operation outlives the close.
DanglingNeedsSend == machine = "down" => Down!DanglingNeedsSend

\* These are the only ways to lose a message: otherwise a message that was
\* sent is handled in the end, unless its sender leaves or the server ends.
NothingLostQuietly == []<>(machine = "alone" => Alone!AllHandled)

\* Each direction of a connection without pieces, as a channel.
UpSent == INSTANCE Channel WITH
  Bound <- 3, sent <- IF machine = "lan" THEN one_sent["up"]["c1"] ELSE 0,
  received <- IF machine = "lan" THEN Len(one_handled["up"]["c1"]) ELSE 0
DownSent == INSTANCE Channel WITH
  Bound <- 3, sent <- IF machine = "lan" THEN one_sent["down"]["c1"] ELSE 0,
  received <- IF machine = "lan" THEN Len(one_handled["down"]["c1"]) ELSE 0

\* With one client and transfers in one piece, as on a local network, what the
\* client sends arrives once, in order and in the end.
UpChannel == UpSent!Spec

\* So does what the server sends.
DownChannel == DownSent!Spec

-----------------------------------------------------------------------------
(* What the runs check of them together *)

\* No frame of a round takes what it should not: units carry into the next round what
\* they earned, players are charged only at the end and only if beaten, artillery fights
\* as fairly as horsemen do, units stay where the screen ends and stand still only with a
\* reason.
RoundIsFair ==
  /\ VeteransKept
  /\ GunnersKept
  /\ OnlyTheBeatenAreHurt
  /\ OnlyTheOutgunnedAreHurt
  /\ []ArtilleryIsFair
  /\ OnTheScreen
  /\ IdleHaveReason

\* Every simulated round ends, armies on a slope meet or are stopped by the AI's own
\* rules, and the map that was loaded last is the one that is seen in the end.
RoundsEnd ==
  /\ NoEndlessRound
  /\ ArmiesMeet
  /\ LastMapShown

\* What a client makes of the frames it was sent is what was simulated, although
\* fields with usual values are left out and numbers are cut to
\* tenths; the variables of every component have their types.
WireIsTrue ==
  /\ TypesOK
  /\ UnitsAsSimulated
  /\ PlacesNearlyExact
  /\ NoUnitRises
  /\ DeathShownOnce

\* What the client offers, buys and shows is what the server applies to the units of the
\* same type, for all units of the game; and their descriptions are right, four excepted.
UpgradesAgree ==
  /\ OthersKept
  /\ TooltipTrue
  /\ OffersAndPurchases

\* However its chunks are adjusted one after the other, a terrain has no gap and no
\* edge within a plateau, a position has a height of its own field, and what is
\* painted is current or marked dirty; a map loaded over another one leaves nothing of it.
SurfaceJoined ==
  /\ CornersMeet
  /\ RowsMeet
  /\ CentersBetween
  /\ PlateauLevel
  /\ HeightWithinField
  /\ OwnFieldsOnly
  /\ SameForClients
  /\ PictureCurrent

\* Neither end hands on a message that was not sent, except where reads overlap in the
\* shared buffer, were split, or writes overlap, and a callback meets a socket already destroyed only
\* if something was being sent.
ReadsWhole ==
  /\ HandledInOrder
  /\ ServerReadsWhole
  /\ ClientReadsWhole
  /\ DanglingNeedsSend

\* With transfers in one piece both directions of a connection are reliable channels;
\* in general what is sent is handled in the end or an overlap is to blame.
Channels ==
  /\ UpChannel
  /\ DownChannel
  /\ NothingLostQuietly

=============================================================================
