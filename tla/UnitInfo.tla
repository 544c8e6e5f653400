------------------------------ MODULE UnitInfo ------------------------------
(***************************************************************************)
(* What a unit can do, from the files of assets/units to the numbers both  *)
(* programs calculate with (unit_info.cpp, unit_info_collection.cpp,       *)
(* upgrade_info.cpp, upgrade_manager.cpp).  The server reads the files and *)
(* sends the result to a client as it joins.  The client offers the        *)
(* upgrades of each unit; one that is bought goes to the server, which     *)
(* applies the upgrades of all players in the order in which they come.    *)
(* Both sides then derive the values of a unit from its information, its   *)
(* level and the upgrades they know of: the server to fight, the client to *)
(* show them in a tooltip.  The hit points of a unit are set, with those   *)
(* of its information, before its upgrades are applied.                    *)
(*                                                                         *)
(* A JSON object is a function from its keys to values, numbers are        *)
(* integers in hundredths.  Reading from and into the same keys is all     *)
(* that is modelled of the conversions.  A client raises the price of a    *)
(* type it hires (module Placement): cost is left out of comparisons.      *)
(***************************************************************************)
EXTENDS Integers, Sequences, SequencesExt, FiniteSets, TLC

CONSTANTS Files,        \* the JSON documents of the unit files
          LevelFactor,  \* pow(level, UnitExperienceForLevelUpExponent()) in thousandths
          Rival,        \* upgrades the other player buys: <<type, index>>
          Promises,     \* what the descriptions of upgrades say: records type, name, stat, add
          Broken,       \* those of them that the simulation does not keep
          MaxPurchases  \* bound: upgrades that both players buy together

Levels == DOMAIN LevelFactor

VARIABLES known,      \* the client's UnitInfoCollection, <<>> before it has joined
          possible,   \* m_possibleUpgrades of the client: a sequence for every type
          bought,     \* m_boughtUpgrades of the client
          sent,       \* messages UnitUpgrade under way to the server
          upgrades    \* the upgrades of both players in the simulation of the server

vars == <<known, possible, bought, sent, upgrades>>

----------------------------------------------------------------------------
\* The JSON form of an upgrade: each value under its key, unless it changes nothing

KeyOf == [damage |-> "damage", barrierRange |-> "barrierRange", barrierHp |-> "barrierHp",
          attackSpeed |-> "attackTimerMax", movementSpeed |-> "movementSpeed",
          range |-> "range", hitpoints |-> "hitpoints", cost |-> "cost"]
Effects == DOMAIN KeyOf
NoEffect == [add |-> 0, factor |-> 0]

Field(present, key, value) == IF present THEN key :> value ELSE <<>>
Read(j, key, usual) == IF key \in DOMAIN j THEN j[key] ELSE usual
Each(F(_), s) == [i \in DOMAIN s |-> F(s[i])]

ReadUpgrade(j) == [name |-> j.name, upgCost |-> j.upgCost, armor |-> Read(j, "armor", <<>>),
                   value |-> [e \in Effects |-> Read(j, KeyOf[e], NoEffect)]]

\* Wrong when a value without a summand is taken for the default.
WriteUpgradeAdds(u) ==
    [name |-> u.name, upgCost |-> u.upgCost] @@ Field(u.armor # <<>>, "armor", u.armor)
    @@ [k \in {KeyOf[e] : e \in {e \in Effects : u.value[e].add # 0}} |->
            u.value[CHOOSE e \in Effects : KeyOf[e] = k]]
WriteUpgrade(u) ==
    [name |-> u.name, upgCost |-> u.upgCost] @@ Field(u.armor # <<>>, "armor", u.armor)
    @@ [k \in {KeyOf[e] : e \in {e \in Effects : u.value[e] # NoEffect}} |->
            u.value[CHOOSE e \in Effects : KeyOf[e] = k]]

\* Damage, armor and ai are objects of their own in the file.
DamageTypes(j) == Read(j.damage, "damageTypes", <<>>)
ArmorTypes(j) == Read(Read(j, "armor", <<>>), "armorTypes", <<>>)
AiValue(j, key) == Read(j.ai, key, 0)

ReadInfo(j) ==
    [type |-> j.type, expRequired |-> j.expRequiredForLevelUp, expGain |-> j.expGainWhenKilled,
     hp |-> j.hitpoints, damage |-> j.damage.damage,
     damageTypes |-> DamageTypes(j), armor |-> ArmorTypes(j),
     attackTimer |-> j.attackTimerMax, speed |-> j.movementSpeed,
     cost |-> j.cost, unlockCost |-> j.unlockCost, ai |-> j.ai.type,
     range |-> AiValue(j, "range"), arrowHeight |-> AiValue(j, "arrowHeight"),
     barrierHp |-> AiValue(j, "barrierHp"), upgrades |-> Each(ReadUpgrade, j.upgrades)]

WriteDamage(i) == [damage |-> i.damage]
                  @@ Field(i.damageTypes # <<>>, "damageTypes", i.damageTypes)
WriteAi(i) == [type |-> i.ai, range |-> i.range, arrowHeight |-> i.arrowHeight,
               barrierHp |-> i.barrierHp]

WriteInfo(i) ==
    [type |-> i.type, expRequiredForLevelUp |-> i.expRequired, expGainWhenKilled |-> i.expGain,
     hitpoints |-> i.hp,
     damage |-> WriteDamage(i), armor |-> [armorTypes |-> i.armor],
     attackTimerMax |-> i.attackTimer, movementSpeed |-> i.speed,
     cost |-> i.cost, unlockCost |-> i.unlockCost,
     ai |-> WriteAi(i), upgrades |-> Each(WriteUpgrade, i.upgrades)]

\* getInfoForType and getUpgradeForUnit throw when there is none; there always is one here.
InfoFor(infos, t) == SelectInSeq(infos, LAMBDA i : i.type = t)
TypeInfo(infos, t) == infos[InfoFor(infos, t)]
UpgradeFor(infos, t, n) ==
    LET all == TypeInfo(infos, t).upgrades IN all[SelectInSeq(all, LAMBDA u : u.name = n)]

ServerInfos == Each(ReadInfo, Files)
Types == {ServerInfos[k].type : k \in DOMAIN ServerInfos}

----------------------------------------------------------------------------
\* applyUpgrade: every effect changes one value, barrierRange the range of the ai

Order == << <<"hitpoints", "hp">>, <<"damage", "damage">>, <<"cost", "cost">>,
            <<"attackSpeed", "attackTimer">>, <<"movementSpeed", "speed">>,
            <<"range", "range">>, <<"barrierRange", "range">>, <<"barrierHp", "barrierHp">> >>

Changed(v, e) == (v * (100 + e.factor)) \div 100 + e.add

Whole(v) == (v \div 100) * 100      \* applyUpgradeInt

ApplyUpgrade(info, u) ==
    LET step(i, p) ==
            LET v == Changed(i[p[2]], u.value[p[1]])
            IN [i EXCEPT ![p[2]] = IF p[2] = "cost" THEN Whole(v) ELSE v]
        after == FoldLeft(step, info, Order)
    IN [after EXCEPT !.armor = u.armor \o @]

\* getUnitInfoWithLevelAndUpgrades
Full(info, level, ups) ==
    FoldLeft(ApplyUpgrade,
             [info EXCEPT !.hp = @ * level, !.damage = @ * level, !.cost = @ * level,
                          !.expGain = @ * level,
                          !.expRequired = (@ * LevelFactor[level]) \div 1000],
             ups)

\* ServerUnit::applyUpgrades; wrong when it does not ask whose upgrade it is.
UpgradesOfType(p, t) ==
    Each(LAMBDA g : g.upgrade, SelectSeq(upgrades, LAMBDA g : g.type = t))
UpgradesOf(p, t) ==
    Each(LAMBDA g : g.upgrade, SelectSeq(upgrades, LAMBDA g : g.player = p /\ g.type = t))

\* takeDamage: the share of damage of these types that the armor lets through, in percent.
Share(armor, types) ==
    LET factor(a, t, percent) == IF a \in Range(armor) /\ t \in types THEN percent ELSE 100
    IN (factor("25%RangedDamage", "ranged", 25) * factor("NoSplashDamage", "splash", 8)) \div 100

\* A unit as it begins a round: prepareSimulationForNewRound calls setRoundStartState,
\* which sets m_hp, and then applyUpgrades.
RoundStart(p, t, level) ==
    [Full(TypeInfo(ServerInfos, t), level, UpgradesOf(p, t)) EXCEPT
        !.hp = Full(TypeInfo(ServerInfos, t), level, <<>>).hp]

----------------------------------------------------------------------------
Purchases == Len(upgrades) + Len(sent)

Init == /\ known = <<>> /\ possible = [t \in Types |-> <<>>]
        /\ bought = [t \in Types |-> <<>>] /\ sent = <<>> /\ upgrades = <<>>

\* The client gets its id and with it all unit information, and lists the upgrades.
Join == /\ known = <<>>
        /\ known' = Each(ReadInfo, Each(WriteInfo, ServerInfos))
        /\ possible' = [t \in Types |-> TypeInfo(known', t).upgrades]
        /\ UNCHANGED <<bought, sent, upgrades>>

\* buyUpgrade: the upgrade of that name is bought and all of that name are taken off the list;
\* wrong when the list stays as it is.
StillOffered(offers, n) == offers
Without(offers, n) == SelectSeq(offers, LAMBDA u : u.name # n)

\* drawUnitUpgradeWindow: the button of an upgrade that is paid for (see Placement).
Buy(t, k) ==
    /\ known # <<>> /\ k \in DOMAIN possible[t] /\ Purchases < MaxPurchases
    /\ LET u == possible[t][k] IN
         /\ sent' = Append(sent, [playerID |-> 0, type |-> t, unitUpgrades |-> WriteUpgrade(u)])
         /\ bought' = [bought EXCEPT ![t] = Append(@, UpgradeFor(known, t, u.name))]
         /\ possible' = [possible EXCEPT ![t] = Without(@, u.name)]
    /\ UNCHANGED <<known, upgrades>>

\* handleMessageUnitUpgrade
Received(j) == [player |-> j.playerID, type |-> j.type, upgrade |-> ReadUpgrade(j.unitUpgrades)]
Deliver == /\ sent # <<>>
           /\ upgrades' = Append(upgrades, Received(Head(sent)))
           /\ sent' = Tail(sent)
           /\ UNCHANGED <<known, possible, bought>>

\* The other player's upgrades come in between.
RivalBuys(t, k) ==
    LET g == [player |-> 1, type |-> t, upgrade |-> TypeInfo(ServerInfos, t).upgrades[k]]
    IN /\ known # <<>> /\ Purchases < MaxPurchases
       /\ \A n \in DOMAIN upgrades : upgrades[n] # g
       /\ upgrades' = Append(upgrades, g)
       /\ UNCHANGED <<known, possible, bought, sent>>

Next == \/ Join \/ Deliver
        \/ \E t \in Types : \E k \in DOMAIN possible[t] : Buy(t, k)
        \/ \E r \in Rival : RivalBuys(r[1], r[2])
Spec == Init /\ [][Next]_vars

----------------------------------------------------------------------------
\* Properties

TypeOK == /\ known = <<>> \/ Len(known) = Len(Files)
          /\ \A t \in Types : /\ possible[t] \in Seq(Range(TypeInfo(ServerInfos, t).upgrades))
                              /\ bought[t] \in Seq(Range(TypeInfo(ServerInfos, t).upgrades))
          /\ \A n \in DOMAIN upgrades : upgrades[n].player \in {0, 1} /\ upgrades[n].type \in Types

\* Once its messages have arrived, the values a client shows for its own unit of any level are
\* those the server reads for it in a round, price aside: the same file, written and read once
\* more, and the same upgrades in the same order, whatever the other player buys in between
\* (drawUnitTooltipForOneUnit against ServerUnit::getUnitInfoFull, whose hit points are the
\* maximum the server names, not those a unit begins with).
Values(i) == <<i.expRequired, i.expGain, i.hp, i.damage, i.damageTypes, i.armor, i.attackTimer,
               i.speed, i.unlockCost, i.ai, i.range, i.arrowHeight, i.barrierHp>>
TooltipTrue ==
    known # <<>> /\ sent = <<>> =>
        \A t \in Types, l \in Levels :
            Values(Full(TypeInfo(known, t), l, bought[t]))
                = Values(Full(TypeInfo(ServerInfos, t), l, UpgradesOf(0, t)))

\* Every upgrade of a unit is either still offered or bought, never both and never twice.
OffersAndPurchases ==
    known # <<>> => \A t \in Types :
        LET all == TypeInfo(ServerInfos, t).upgrades IN
        /\ Len(possible[t]) + Len(bought[t]) = Len(all)
        /\ Range(possible[t]) \cup Range(bought[t]) = Range(all)

\* What a promise is about: a value, or the share of a kind of damage.
Stat(info, s) == IF s \in {"ranged", "splash"} THEN Share(info.armor, {s}) ELSE info[s]

\* The unit whose only upgrade is the promised one differs by what was promised.
Kept(p, player) ==
    Stat(RoundStart(player, p.type, 1), p.stat)
        = Stat(TypeInfo(ServerInfos, p.type), p.stat) + p.add

OnlyUpgrade(p, player) ==
    LET ups == UpgradesOf(player, p.type) IN Len(ups) = 1 /\ ups[1].name = p.name

\* Every upgrade does in a round what its description says, the text in assets/units that the
\* upgrade window shows as a tooltip.
EveryPromiseKept == \A p \in Promises, pl \in {0, 1} : OnlyUpgrade(p, pl) => Kept(p, pl)

\* The promises that are not kept are the broken ones and no others.
OthersKept ==
    \A p \in Promises, pl \in {0, 1} : OnlyUpgrade(p, pl) => (Kept(p, pl) <=> p \notin Broken)
=============================================================================
