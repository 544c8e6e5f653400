------------------------------ MODULE Placement ------------------------------
(* The placement phases of one client: PlacementManager, the internal state *)
(* PlaceUnits and the transitions of InternalStateManager around them. What *)
(* a player can do is one action per click; every click has a frame of its  *)
(* own. The rounds themselves are played by the server; here only their     *)
(* outcome for this player matters.                                         *)
EXTENDS Integers, Sequences, FiniteSets, SequencesExt, FiniteSetTheorems,
        Induction, TLAPS

CONSTANTS
  Type,          \* unit types
  NoType,        \* no type is selected for hiring, no unit is selected
  BaseCost,      \* UnitInfo::cost as the server sent it, by type
  UnlockCost,    \* UnitInfo::unlockCost, by type
  StartOption,   \* the starting units: records unit1, unit2, gold
  Upgrade,       \* upgrades: records type, cost, name
  Field,         \* fields of the player's placement areas
  MaxRound,      \* bound on the rounds played
  MaxUnits       \* bound on the units ever placed

CostAssumption ==
  /\ BaseCost \in [Type -> Nat]
  /\ UnlockCost \in [Type -> Nat]
  /\ NoType \notin Type
  /\ \A o \in StartOption : o.unit1 \in Type /\ o.unit2 \in Type /\ o.gold \in Nat
  /\ \A g \in Upgrade : g.type \in Type /\ g.cost \in Nat
BoundAssumption == MaxRound \in Nat /\ MaxUnits \in Nat

VARIABLES
  state,         \* InternalStateManager::m_activeState
  round,         \* StateGame::m_round
  lostRounds,    \* numberOfLostRounds of the transition to PlaceUnits
  funds,         \* m_availableFunds
  creditDebt,    \* m_creditDebt
  cost,          \* UnitInfo::cost, by type
  bought,        \* m_boughtUnits, by type
  unlocked,      \* m_unlockedTypes
  unlocksUsed,   \* m_unitsUnlockedThisRound
  placed,        \* m_placedUnits
  nextId,        \* UnitIdManager::m_ids of the player
  inUse,         \* m_placedUnitsMap
  active,        \* m_activeUnitType
  selling,       \* PlaceUnits::m_deleteUnitOnclick
  selected,      \* PlaceUnits::m_unitInterfaceSelected, its type
  upgraded,      \* m_boughtUpgrades
  army,          \* StateGame::m_units of this player
  toBeRemoved,   \* m_unitsToBeRemoved, ids
  sent,          \* what the server was told: the units this player has there
  purchases,     \* history: units hired and not undone, by type
  balance        \* history: all income less all expenses, placed units apart

wallet == <<funds, creditDebt>>
market == <<cost, bought, purchases>>
shop   == <<unlocked, unlocksUsed, upgraded>>
board  == <<placed, nextId, inUse>>
mode   == <<active, selling, selected>>
match  == <<state, round, lostRounds>>
field  == <<army, toBeRemoved, sent>>
vars   == <<wallet, market, shop, board, mode, match, field, balance>>

-----------------------------------------------------------------------------
(* Prices *)

\* std::round(x * n / d) for positive x.
RoundedQuotient(x, n, d) == (2 * x * n + d) \div (2 * d)

\* UnitInfoCollection::multiplyPriceForUnitBy(type, 1.08f) and (.., 1/1.08f).
Raise(c) == RoundedQuotient(c, 27, 25)
Lower(c) == RoundedQuotient(c, 25, 27)

\* Mutant: the counter is cleared without a new price.
BuyUnitKeepsPrice(t) ==
  /\ bought' = [bought EXCEPT ![t] = IF @ + 1 >= 3 THEN 0 ELSE @ + 1]
  /\ cost' = cost

\* buyUnit: every third unit of a type raises its price.
BuyUnit(t) ==
  IF bought[t] + 1 >= 3
  THEN /\ bought' = [bought EXCEPT ![t] = @ - 2]
       /\ cost' = [cost EXCEPT ![t] = Raise(@)]
  ELSE /\ bought' = [bought EXCEPT ![t] = @ + 1]
       /\ cost' = cost

\* Mutant: the price is lowered one unit too late.
TakeBackLate(t) ==
  IF bought[t] - 1 < -1
  THEN /\ bought' = [bought EXCEPT ![t] = @ + 2]
       /\ cost' = [cost EXCEPT ![t] = Lower(@)]
  ELSE /\ bought' = [bought EXCEPT ![t] = @ - 1]
       /\ cost' = cost

\* sellUnit, the part about prices.
TakeBack(t) ==
  IF bought[t] - 1 <= -1
  THEN /\ bought' = [bought EXCEPT ![t] = @ + 2]
       /\ cost' = [cost EXCEPT ![t] = Lower(@)]
  ELSE /\ bought' = [bought EXCEPT ![t] = @ - 1]
       /\ cost' = cost

\* placeUnit drops a type the player cannot pay any more, in every frame.
Affordable(t) == IF t \in Type /\ funds' < cost'[t] THEN NoType ELSE t

\* clamp(50 + 50 * round, 0, IncomePerRoundMax).
Income(r) == IF 50 + 50 * r > 440 THEN 440 ELSE 50 + 50 * r
LoserBonus == 100
RequiredLostRounds == 3

-----------------------------------------------------------------------------
(* Before the first placement *)

\* WaitForAllPlayers -> SelectStartingUnits created the manager; the player
\* takes one of the offers.
SelectStartingUnits ==
  /\ state = "SelectStartingUnits"
  /\ state' = "PlaceUnits"
  /\ \E o \in StartOption :
       /\ unlocked' = {o.unit1, o.unit2}
       /\ funds' = funds + o.gold - creditDebt
       /\ balance' = balance + o.gold - creditDebt
  /\ unlocksUsed' = 0
  /\ UNCHANGED <<creditDebt, upgraded, market, board, mode, round, lostRounds,
                 field>>

-----------------------------------------------------------------------------
(* Clicks of PlacementManager *)

\* The button of an unlocked type; hiring ends the selling of units.
ChooseType(t) ==
  /\ state = "PlaceUnits"
  /\ t \in unlocked /\ t # active
  /\ funds >= cost[t]
  /\ active' = t
  /\ selling' = FALSE
  /\ UNCHANGED <<wallet, market, shop, board, selected, match, field, balance>>

\* Right click; PlaceUnits only sees it while it is the active state.
RightClick ==
  /\ active' = NoType
  /\ IF state = "PlaceUnits" THEN selected' = NoType /\ selling' = FALSE
                             ELSE UNCHANGED <<selected, selling>>
  /\ UNCHANGED <<wallet, market, shop, board, match, field, balance>>

\* placeUnit: the manager is an object of the state, so that a type that is
\* still active can be placed in every phase. While units are placed the same
\* click may select the new unit, if its picture is under the mouse.
PlaceUnit(f, shift) ==
  /\ state # "SelectStartingUnits"
  /\ active # NoType
  /\ f \notin inUse
  /\ nextId < MaxUnits
  /\ placed' = Append(placed, [id |-> nextId, type |-> active, field |-> f,
                               paid |-> cost[active]])
  /\ nextId' = nextId + 1
  /\ inUse' = inUse \cup {f}
  /\ funds' = funds - cost[active]
  /\ BuyUnit(active)
  /\ purchases' = [purchases EXCEPT ![active] = @ + 1]
  /\ active' = IF shift THEN Affordable(active) ELSE NoType
  /\ selected' \in {selected} \cup (IF state = "PlaceUnits" THEN {active} ELSE {})
  /\ UNCHANGED <<creditDebt, shop, selling, match, field, balance>>

\* Mutant: a second credit may be taken on top of the first.
TakeCreditAgain ==
  /\ state = "PlaceUnits" /\ creditDebt <= 150
  /\ funds' = funds + 100
  /\ creditDebt' = creditDebt + 150
  /\ balance' = balance + 100
  /\ UNCHANGED <<market, shop, board, mode, match, field>>

\* "Take credit (+100 now, -150 next round)".
TakeCredit ==
  /\ state = "PlaceUnits" /\ creditDebt = 0
  /\ funds' = funds + 100
  /\ creditDebt' = 150
  /\ balance' = balance + 100
  /\ UNCHANGED <<market, shop, board, mode, match, field>>

\* Mutant: the price of the day is paid back.
UndoAtTodaysPrice ==
  /\ state = "PlaceUnits" /\ placed # <<>>
  /\ LET u == Last(placed) IN
       /\ inUse' = inUse \ {u.field}
       /\ funds' = funds + cost[u.type]
       /\ TakeBack(u.type)
       /\ purchases' = [purchases EXCEPT ![u.type] = @ - 1]
  /\ placed' = Front(placed)
  /\ UNCHANGED <<creditDebt, shop, nextId, mode, match, field, balance>>

\* "Undo last purchase": the unit remembers the price it was hired for.
Undo ==
  /\ state = "PlaceUnits" /\ placed # <<>>
  /\ LET u == Last(placed) IN
       /\ inUse' = inUse \ {u.field}
       /\ funds' = funds + u.paid
       /\ TakeBack(u.type)
       /\ purchases' = [purchases EXCEPT ![u.type] = @ - 1]
  /\ placed' = Front(placed)
  /\ UNCHANGED <<creditDebt, shop, nextId, mode, match, field, balance>>

\* The window "Unlock Units": from the second round, one type per round.
Unlock(t) ==
  /\ state = "PlaceUnits" /\ round >= 2
  /\ t \notin unlocked
  /\ funds >= UnlockCost[t]
  /\ unlocksUsed < 1
  /\ unlocked' = unlocked \cup {t}
  /\ unlocksUsed' = unlocksUsed + 1
  /\ funds' = funds - UnlockCost[t]
  /\ balance' = balance - UnlockCost[t]
  /\ UNCHANGED <<creditDebt, upgraded, market, board, selling, selected, match,
                 field>>
  /\ active' = Affordable(active)

-----------------------------------------------------------------------------
(* Clicks of PlaceUnits *)

\* A unit of the player that stands or was just placed is selected.
SelectUnit(t) ==
  /\ state = "PlaceUnits" /\ ~selling
  /\ \/ \E u \in army : u.type = t
     \/ \E i \in DOMAIN placed : placed[i].type = t
  /\ selected' = t
  /\ UNCHANGED <<wallet, market, shop, board, active, selling, match, field,
                 balance>>

\* drawUnitUpgradeWindow: the upgrade is sent at once and for good.
BuyUpgrade(g) ==
  /\ state = "PlaceUnits" /\ g.type = selected
  /\ g \notin upgraded
  /\ funds >= g.cost
  /\ upgraded' = upgraded \cup {g}
  /\ funds' = funds - g.cost
  /\ balance' = balance - g.cost
  /\ UNCHANGED <<creditDebt, unlocked, unlocksUsed, market, board, selling,
                 selected, match, field>>
  /\ active' = Affordable(active)

\* Mutant: a selection survives.
StartSellingKeepsSelection ==
  /\ state = "PlaceUnits" /\ round > 1 /\ ~selling
  /\ selling' = TRUE
  /\ active' = NoType
  /\ UNCHANGED <<wallet, market, shop, board, selected, match, field, balance>>

\* "Sell unit": units of a former round are on the screen.
StartSelling ==
  /\ state = "PlaceUnits" /\ round > 1 /\ ~selling
  /\ selling' = TRUE
  /\ active' = NoType
  /\ selected' = NoType
  /\ UNCHANGED <<wallet, market, shop, board, match, field, balance>>

\* "Cancel unit selling".
StopSelling ==
  /\ state = "PlaceUnits" /\ selling
  /\ selling' = FALSE
  /\ UNCHANGED <<wallet, market, shop, board, active, selected, match, field,
                 balance>>

\* Mutant: the price of the day, which may have risen since the playback.
SellAtTodaysPrice(u) ==
  /\ state = "PlaceUnits" /\ selling /\ u \in army
  /\ army' = army \ {u}
  /\ toBeRemoved' = toBeRemoved \cup {u.id}
  /\ inUse' = inUse \ {u.field}
  /\ funds' = funds + cost[u.type]
  /\ balance' = balance + cost[u.type]
  /\ UNCHANGED <<creditDebt, market, shop, placed, nextId, mode, match, sent>>

\* A click on a unit of a former round: StateGame::removeUnit and
\* sellUnitForPreviousRound, which leaves the prices alone.
Sell(u) ==
  /\ state = "PlaceUnits" /\ selling /\ u \in army
  /\ army' = army \ {u}
  /\ toBeRemoved' = toBeRemoved \cup {u.id}
  /\ inUse' = inUse \ {u.field}
  /\ funds' = funds + u.worth
  /\ balance' = balance + u.worth
  /\ UNCHANGED <<creditDebt, market, shop, placed, nextId, mode, match, sent>>

-----------------------------------------------------------------------------
(* Transitions of the round *)

PlacedUnits == ToSet(placed)
SumPaid(units) == SumFunction([i \in DOMAIN units |-> units[i].paid])
TotalPaid == SumPaid(placed)
Stationed(u) == [id |-> u.id, type |-> u.type, field |-> u.field]

\* Mutant: what was sold stays on the list.
EndPlacementForgetsSales ==
  /\ state = "PlaceUnits"
  /\ state' = "WaitForSimulationResults"
  /\ sent' = {Stationed(u) : u \in PlacedUnits} \cup sent
  /\ toBeRemoved' = {}
  /\ balance' = balance - TotalPaid
  /\ placed' = <<>>
  /\ UNCHANGED <<wallet, market, shop, nextId, inUse, mode, round, lostRounds,
                 army>>

\* PlaceUnits -> WaitForSimulationResults: readyRound with the units placed and
\* the units sold; the server removes the latter by their id.
EndPlacement ==
  /\ state = "PlaceUnits"
  /\ state' = "WaitForSimulationResults"
  /\ sent' = {u \in {Stationed(p) : p \in PlacedUnits} \cup sent :
                u.id \notin toBeRemoved}
  /\ toBeRemoved' = {}
  /\ balance' = balance - TotalPaid
  /\ placed' = <<>>
  /\ UNCHANGED <<wallet, market, shop, nextId, inUse, mode, round, lostRounds,
                 army>>

\* WaitForSimulationResults -> Playback: startPlayback drops all units, and the
\* first frame creates them anew with the price they have then.
StartPlayback ==
  /\ state = "WaitForSimulationResults"
  /\ state' = "Playback"
  /\ army' = {[id |-> u.id, type |-> u.type, field |-> u.field,
               worth |-> cost[u.type]] : u \in sent}
  /\ UNCHANGED <<wallet, market, shop, board, mode, round, lostRounds,
                 toBeRemoved, sent, balance>>

\* Playback -> PlaceUnits: income, debt, and a bonus from the third round lost
\* in a row.
EndPlayback ==
  /\ state = "Playback" /\ round < MaxRound
  /\ state' = "PlaceUnits"
  /\ round' = round + 1
  /\ unlocksUsed' = 0
  /\ \E lost \in BOOLEAN :
       LET n == IF lost THEN lostRounds + 1 ELSE 0
           bonus == IF n >= RequiredLostRounds THEN LoserBonus ELSE 0
           income == Income(round + 1) - creditDebt + bonus
       IN /\ lostRounds' = n
          /\ funds' = funds + income
          /\ balance' = balance + income
  /\ creditDebt' = 0
  /\ UNCHANGED <<unlocked, upgraded, market, board, mode, field>>

\* The last frame has a player without hit points: EndWin or EndLose.
EndMatch ==
  /\ state = "Playback"
  /\ state' = "End"
  /\ UNCHANGED <<wallet, market, shop, board, mode, round, lostRounds, field,
                 balance>>

-----------------------------------------------------------------------------
Init ==
  /\ state = "SelectStartingUnits" /\ round = 1 /\ lostRounds = 0
  /\ funds = 0 /\ creditDebt = 0 /\ balance = 0
  /\ cost = BaseCost /\ bought = [t \in Type |-> 0]
  /\ purchases = [t \in Type |-> 0]
  /\ unlocked = {} /\ unlocksUsed = 0 /\ upgraded = {}
  /\ placed = <<>> /\ nextId = 0 /\ inUse = {}
  /\ active = NoType /\ selling = FALSE /\ selected = NoType
  /\ army = {} /\ toBeRemoved = {} /\ sent = {}

Next ==
  \/ SelectStartingUnits
  \/ \E t \in Type : ChooseType(t) \/ Unlock(t) \/ SelectUnit(t)
  \/ RightClick
  \/ \E f \in Field, shift \in BOOLEAN : PlaceUnit(f, shift)
  \/ TakeCredit
  \/ Undo
  \/ \E g \in Upgrade : BuyUpgrade(g)
  \/ StartSelling
  \/ StopSelling
  \/ \E u \in army : Sell(u)
  \/ EndPlacement
  \/ StartPlayback
  \/ EndPlayback
  \/ EndMatch

Spec == Init /\ [][Next]_vars

-----------------------------------------------------------------------------
(* Properties *)

Purchase == [id : Nat, type : Type, field : Field, paid : Nat]
Station == [id : Nat, type : Type, field : Field]
Picture == [id : Nat, type : Type, field : Field, worth : Nat]

PlacesTyped ==
  /\ state \in {"SelectStartingUnits", "PlaceUnits", "WaitForSimulationResults",
                "Playback", "End"}
  /\ round \in Nat /\ lostRounds \in Nat
  /\ funds \in Int /\ creditDebt \in {0, 150}
  /\ cost \in [Type -> Nat] /\ bought \in [Type -> 0..2]
  /\ purchases \in [Type -> Nat]
  /\ unlocked \subseteq Type /\ unlocksUsed \in 0..1 /\ upgraded \subseteq Upgrade
  /\ placed \in Seq(Purchase)
  /\ nextId \in Nat /\ inUse \subseteq Field
  /\ active \in Type \cup {NoType} /\ selling \in BOOLEAN
  /\ selected \in Type \cup {NoType}
  /\ army \subseteq Picture
  /\ toBeRemoved \subseteq Nat
  /\ sent \subseteq Station

TypeOK == PlacesTyped /\ balance \in Int

\* Nobody plays on debt: the income of the round after a credit covers it, and
\* no sequence of purchases, undone or not, spends what is not there.
FundsNeverNegative == funds >= 0

\* In whatever order prices rise and purchases are undone, what the player has
\* is all income less all expenses and less what was paid for the units placed.
Books == funds = balance - TotalPaid

\* The price of a type after it rose k times; every third purchase raises it.
PriceAfter(t) ==
  LET p[k \in Nat] == IF k = 0 THEN BaseCost[t] ELSE Raise(p[k - 1]) IN p

\* The price is a function of the purchases alone: undoing purchases restores
\* the prices they raised, whatever the rounding.
PriceFollowsPurchases ==
  \A t \in Type : cost[t] = PriceAfter(t)[purchases[t] \div 3]

\* The units of former rounds that are not sold.
Kept == {v \in sent : v.id \notin toBeRemoved}

\* Where the units of this player that fight in the next round stand.
Standing == {u.field : u \in Kept} \cup {u.field : u \in PlacedUnits}

\* A field is in use exactly when one unit, placed now or in a former round and
\* not sold, stands on it.
FieldsMatchUnits ==
  /\ inUse = Standing
  /\ Cardinality(inUse) = Len(placed) + Cardinality(Kept)

\* While units are sold none is selected, so that no upgrade is bought for a
\* unit that is gone, and none can be hired with the same click.
SellingExcludesSelection == selling => selected = NoType /\ active = NoType

\* What the units of this player would bring, and the money there is.
SumWorth(units) == SumFunction([u \in units |-> u.worth])
Wealth == funds + TotalPaid - creditDebt + SumWorth(army)

\* Within a placement no click makes a player richer.
NoFreeMoneyStep ==
  state = "PlaceUnits" /\ state' = "PlaceUnits" => Wealth' <= Wealth
NoFreeMoney == [][NoFreeMoneyStep]_vars

-----------------------------------------------------------------------------
(* The inductive invariant of the proofs. *)

\* What is selected for hiring can be paid, and a debt is at most one income.
Solvent ==
  /\ funds >= 0 /\ round >= 1
  /\ active # NoType => funds >= cost[active]
  /\ state = "SelectStartingUnits" => creditDebt = 0

\* Everything the player has was numbered in the order of its purchase, a unit
\* of the placement later than one the server knows.
Numbered ==
  /\ \A i \in DOMAIN placed : placed[i].id < nextId
  /\ \A v \in sent : v.id < nextId
  /\ \A n \in toBeRemoved : n < nextId
  /\ \A i, j \in DOMAIN placed : placed[i].id = placed[j].id => i = j
  /\ \A i \in DOMAIN placed : placed[i].id \notin toBeRemoved
  /\ \A i \in DOMAIN placed, v \in sent : placed[i].id # v.id
  /\ \A u, v \in sent : u.id = v.id => u = v

\* No field carries two units.
Apart ==
  /\ \A i, j \in DOMAIN placed : placed[i].field = placed[j].field => i = j
  /\ \A i \in DOMAIN placed, v \in Kept : placed[i].field # v.field
  /\ \A u, v \in Kept : u.field = v.field => u = v

\* The units on the screen are those the server was told of and that are not
\* sold; only while results are awaited the former ones are still shown.
OnScreen ==
  /\ state # "PlaceUnits" => toBeRemoved = {}
  /\ state # "WaitForSimulationResults" => {Stationed(u) : u \in army} = Kept
  /\ \A u, v \in army : u.id = v.id => u = v

\* The units of a type that were placed and not undone were purchased.
PlacedOfType(t) == {i \in DOMAIN placed : placed[i].type = t}
Counted ==
  /\ IsFiniteSet(sent)
  /\ \A t \in Type : IsFiniteSet(PlacedOfType(t))
                      /\ Cardinality(PlacedOfType(t)) <= purchases[t]

PlacementInv ==
  /\ PlacesTyped /\ Solvent /\ SellingExcludesSelection
  /\ Numbered /\ inUse = Standing /\ Apart /\ OnScreen /\ Counted

\* A placement keeps its accounts: funds, credit and what units cost add up and
\* are never negative, prices follow the purchases, a field is in use exactly if
\* a unit stands on it, and nothing is sold while something else is selected.
Accounts ==
  /\ FundsNeverNegative /\ Books /\ PriceFollowsPurchases /\ FieldsMatchUnits
  /\ SellingExcludesSelection /\ PlacementInv

-----------------------------------------------------------------------------
(* Theorems. *)

\* What the last placed unit and the rest of the list are.
LEMMA FrontAndLast ==
  ASSUME NEW S, NEW s \in Seq(S), s # <<>>
  PROVE  /\ Len(s) \in Nat /\ Len(s) >= 1
         /\ Last(s) = s[Len(s)] /\ Last(s) \in S
         /\ Front(s) \in Seq(S)
         /\ DOMAIN Front(s) = 1..(Len(s) - 1)
         /\ \A i \in 1..(Len(s) - 1) : Front(s)[i] = s[i]
BY DEF Front, Last

\* A lower price is not higher, whatever the rounding.
LEMMA LowerIsLower ==
  ASSUME NEW c \in Nat
  PROVE  Lower(c) \in Nat /\ Lower(c) <= c
BY DEF Lower, RoundedQuotient

\* A raised price is a price, and lowering restores it.
LEMMA RaiseIsUndone ==
  ASSUME NEW c \in Nat
  PROVE  Raise(c) \in Nat /\ Lower(Raise(c)) = c
<1>1. Raise(c) = (54 * c + 25) \div 50  BY DEF Raise, RoundedQuotient
<1>2. PICK r \in Nat : r = Raise(c)  BY <1>1
<1>3. 50 * r <= 54 * c + 25 /\ 54 * c + 25 < 50 * r + 50  BY <1>1, <1>2
<1>4. Lower(r) = (50 * r + 27) \div 54  BY DEF Lower, RoundedQuotient
<1>5. 54 * c <= 50 * r + 27 /\ 50 * r + 27 < 54 * c + 54  BY <1>3
<1>6. (50 * r + 27) \div 54 = c  BY <1>5
<1> QED  BY <1>2, <1>4, <1>6

\* Buying keeps the counter below three and the price a price.
LEMMA BuyUnitTyped ==
  ASSUME PlacesTyped, NEW t \in Type, BuyUnit(t)
  PROVE  cost' \in [Type -> Nat] /\ bought' \in [Type -> 0..2]
<1>1. cost \in [Type -> Nat] /\ bought \in [Type -> 0..2]  BY DEF PlacesTyped
<1>2. Raise(cost[t]) \in Nat  BY <1>1, RaiseIsUndone
<1>3. CASE bought[t] + 1 >= 3
  <2>1. bought[t] - 2 \in 0..2  BY <1>1, <1>3
  <2>2. cost' = [cost EXCEPT ![t] = Raise(cost[t])]  BY <1>3 DEF BuyUnit
  <2>3. bought' = [bought EXCEPT ![t] = bought[t] - 2]  BY <1>3 DEF BuyUnit
  <2> QED  BY <1>1, <1>2, <2>1, <2>2, <2>3
<1>4. CASE ~(bought[t] + 1 >= 3)
  <2>1. bought[t] + 1 \in 0..2  BY <1>1, <1>4
  <2>2. cost' = cost /\ bought' = [bought EXCEPT ![t] = bought[t] + 1]
    BY <1>4 DEF BuyUnit
  <2> QED  BY <1>1, <2>1, <2>2
<1> QED  BY <1>3, <1>4

\* Taking a purchase back does so too and raises no price.
LEMMA TakeBackTyped ==
  ASSUME PlacesTyped, NEW t \in Type, TakeBack(t)
  PROVE  /\ cost' \in [Type -> Nat] /\ bought' \in [Type -> 0..2]
         /\ \A s \in Type : cost'[s] <= cost[s]
<1>1. cost[t] \in Nat /\ bought[t] \in 0..2  BY DEF PlacesTyped
<1>2. Lower(cost[t]) \in Nat /\ Lower(cost[t]) <= cost[t]
  BY <1>1, LowerIsLower
<1>3. CASE bought[t] - 1 <= -1
  <2>1. bought[t] + 2 \in 0..2  BY <1>1, <1>3
  <2>2. cost' = [cost EXCEPT ![t] = Lower(cost[t])]  BY <1>3 DEF TakeBack
  <2>3. bought' = [bought EXCEPT ![t] = bought[t] + 2]  BY <1>3 DEF TakeBack
  <2>4. \A s \in Type : cost'[s] <= cost[s]
    <3>1. TAKE s \in Type
    <3>2. cost[s] \in Nat  BY DEF PlacesTyped
    <3>3. CASE s = t  BY <1>2, <2>2, <3>3 DEF PlacesTyped
    <3>4. CASE s # t  BY <2>2, <3>2, <3>4 DEF PlacesTyped
    <3> QED  BY <3>3, <3>4
  <2> QED  BY <1>2, <2>1, <2>2, <2>3, <2>4 DEF PlacesTyped
<1>4. CASE ~(bought[t] - 1 <= -1)
  <2>1. bought[t] - 1 \in 0..2  BY <1>1, <1>4
  <2>2. cost' = cost /\ bought' = [bought EXCEPT ![t] = bought[t] - 1]
    BY <1>4 DEF TakeBack
  <2>3. \A s \in Type : cost[s] \in Nat  BY DEF PlacesTyped
  <2> QED  BY <2>1, <2>2, <2>3 DEF PlacesTyped
<1> QED  BY <1>3, <1>4

\* Every action keeps the types. The debt is that of one credit, and a unit
\* that is undone was purchased.
LEMMA TypesKept ==
  ASSUME CostAssumption, PlacementInv, [Next]_vars
  PROVE  PlacesTyped'
<1> USE DEF PlacesTyped, wallet, market, shop, board, mode, match, field
<1>0. PlacesTyped  BY DEF PlacementInv
<1>1. CASE SelectStartingUnits
  <2>1. PICK o \in StartOption :
          unlocked' = {o.unit1, o.unit2} /\ funds' = funds + o.gold - creditDebt
    BY <1>1 DEF SelectStartingUnits
  <2>2. o.unit1 \in Type /\ o.unit2 \in Type /\ o.gold \in Nat
    BY DEF CostAssumption
  <2>3. unlocked' \subseteq Type /\ funds' \in Int  BY <1>0, <2>1, <2>2
  <2>4. UNCHANGED <<creditDebt, upgraded, market, board, mode, round,
                    lostRounds, field>>
    BY <1>1 DEF SelectStartingUnits
  <2>5. state' = "PlaceUnits" /\ unlocksUsed' = 0
    BY <1>1 DEF SelectStartingUnits
  <2> QED  BY <1>0, <2>3, <2>4, <2>5
<1>2. CASE \E t \in Type : ChooseType(t)
  <2>1. PICK t \in Type : ChooseType(t)  BY <1>2
  <2>2. active' \in Type \cup {NoType} /\ selling' \in BOOLEAN
    BY <2>1 DEF ChooseType
  <2>3. UNCHANGED <<wallet, market, shop, board, selected, match, field>>
    BY <2>1 DEF ChooseType
  <2> QED  BY <1>0, <2>2, <2>3
<1>3. CASE \E t \in Type : Unlock(t)
  <2>1. PICK t \in Type : Unlock(t)  BY <1>3
  <2>2. UnlockCost[t] \in Nat  BY DEF CostAssumption
  <2>3. unlocksUsed' \in 0..1  BY <1>0, <2>1 DEF Unlock
  <2>4. active' \in Type \cup {NoType}
    BY <1>0, <2>1 DEF Unlock, Affordable
  <2>5. unlocked' \subseteq Type /\ funds' \in Int
    BY <1>0, <2>1, <2>2 DEF Unlock
  <2>6. UNCHANGED <<creditDebt, upgraded, market, board, selling, selected,
                    match, field>>
    BY <2>1 DEF Unlock
  <2> QED  BY <1>0, <2>3, <2>4, <2>5, <2>6
<1>4. CASE \E t \in Type : SelectUnit(t)
  BY <1>0, <1>4 DEF SelectUnit
<1>5. CASE RightClick
  BY <1>0, <1>5 DEF RightClick
<1>6. CASE \E f \in Field, shift \in BOOLEAN : PlaceUnit(f, shift)
  <2>1. PICK f \in Field, shift \in BOOLEAN : PlaceUnit(f, shift)  BY <1>6
  <2>2. active \in Type /\ cost[active] \in Nat
    BY <1>0, <2>1 DEF PlaceUnit
  <2>3. cost' \in [Type -> Nat] /\ bought' \in [Type -> 0..2]
    BY <1>0, <2>1, <2>2, BuyUnitTyped DEF PlaceUnit
  <2>4. placed' \in Seq(Purchase)
    BY <1>0, <2>1, <2>2 DEF PlaceUnit, Purchase
  <2>5. active' \in Type \cup {NoType}
    BY <2>1, <2>2 DEF PlaceUnit, Affordable
  <2>6. selected' \in Type \cup {NoType}
    BY <1>0, <2>1, <2>2 DEF PlaceUnit
  <2>7. purchases' = [purchases EXCEPT ![active] = purchases[active] + 1]
    BY <2>1 DEF PlaceUnit
  <2>8. purchases' \in [Type -> Nat]
    BY <1>0, <2>2, <2>7
  <2>9. funds' \in Int /\ nextId' \in Nat /\ inUse' \subseteq Field
    BY <1>0, <2>1, <2>2 DEF PlaceUnit
  <2> QED
    BY <1>0, <2>1, <2>3, <2>4, <2>5, <2>6, <2>8, <2>9 DEF PlaceUnit
<1>7. CASE TakeCredit
  BY <1>0, <1>7 DEF TakeCredit
<1>8. CASE Undo
  <2> DEFINE u == Last(placed)
  <2>0. placed \in Seq(Purchase) /\ placed # <<>>
    BY <1>0, <1>8 DEF Undo
  <2>1. /\ u \in Purchase
        /\ u = placed[Len(placed)] /\ Len(placed) \in DOMAIN placed
        /\ Front(placed) \in Seq(Purchase)
    BY <2>0, FrontAndLast
  <2>2. TakeBack(u.type)  BY <1>8 DEF Undo
  <2>3. u.type \in Type /\ u.paid \in Nat  BY <2>1 DEF Purchase
  <2>4. cost' \in [Type -> Nat] /\ bought' \in [Type -> 0..2]
    BY <1>0, <2>2, <2>3, TakeBackTyped
  <2>5. Len(placed) \in PlacedOfType(u.type)  BY <2>1 DEF PlacedOfType
  <2>6. /\ IsFiniteSet(PlacedOfType(u.type))
        /\ Cardinality(PlacedOfType(u.type)) <= purchases[u.type]
    BY <2>3 DEF PlacementInv, Counted
  <2>7. /\ Cardinality(PlacedOfType(u.type)) \in Nat
        /\ Cardinality(PlacedOfType(u.type)) # 0
    BY <2>5, <2>6, FS_CardinalityType, FS_EmptySet
  <2>8. purchases[u.type] \in Nat /\ purchases[u.type] >= 1
    BY <1>0, <2>3, <2>6, <2>7
  <2>9. purchases' = [purchases EXCEPT ![u.type] = purchases[u.type] - 1]
    BY <1>8 DEF Undo
  <2>10. purchases' \in [Type -> Nat]  BY <1>0, <2>3, <2>8, <2>9
  <2>11. funds' \in Int /\ inUse' \subseteq Field /\ placed' = Front(placed)
    BY <1>0, <1>8, <2>3 DEF Undo
  <2>12. UNCHANGED <<creditDebt, shop, nextId, mode, match, field>>
    BY <1>8 DEF Undo
  <2> QED  BY <1>0, <2>1, <2>4, <2>10, <2>11, <2>12
<1>9. CASE \E g \in Upgrade : BuyUpgrade(g)
  <2>1. PICK g \in Upgrade : BuyUpgrade(g)  BY <1>9
  <2>2. g.cost \in Nat  BY DEF CostAssumption
  <2>3. active' \in Type \cup {NoType}
    BY <1>0, <2>1 DEF BuyUpgrade, Affordable
  <2>4. upgraded' \subseteq Upgrade /\ funds' \in Int
    BY <1>0, <2>1, <2>2 DEF BuyUpgrade
  <2>5. UNCHANGED <<creditDebt, unlocked, unlocksUsed, market, board, selling,
                    selected, match, field>>
    BY <2>1 DEF BuyUpgrade
  <2> QED  BY <1>0, <2>3, <2>4, <2>5
<1>10. CASE StartSelling
  BY <1>0, <1>10 DEF StartSelling
<1>11. CASE StopSelling
  BY <1>0, <1>11 DEF StopSelling
<1>12. CASE \E u \in army : Sell(u)
  <2>1. PICK u \in army : Sell(u)  BY <1>12
  <2>2. u.id \in Nat /\ u.worth \in Nat  BY <1>0 DEF Picture
  <2>3. /\ army' = army \ {u} /\ toBeRemoved' = toBeRemoved \cup {u.id}
        /\ inUse' = inUse \ {u.field} /\ funds' = funds + u.worth
    BY <2>1 DEF Sell
  <2>4. UNCHANGED <<creditDebt, market, shop, placed, nextId, mode, match, sent>>
    BY <2>1 DEF Sell
  <2>5. /\ army' \subseteq Picture /\ toBeRemoved' \subseteq Nat
        /\ inUse' \subseteq Field
    <3>1. army \subseteq Picture /\ toBeRemoved \subseteq Nat /\ inUse \subseteq Field
      BY <1>0
    <3> QED  BY <2>2, <2>3, <3>1
  <2>6. funds' \in Int  BY <1>0, <2>2, <2>3
  <2> QED  BY <1>0, <2>4, <2>5, <2>6
<1>13. CASE EndPlacement
  <2>1. sent' \subseteq Station
    <3>1. sent' \subseteq {Stationed(p) : p \in PlacedUnits} \cup sent
      BY <1>13 DEF EndPlacement
    <3>2. \A p \in PlacedUnits : p \in Purchase
      BY <1>0 DEF PlacedUnits, ToSet
    <3>3. \A p \in PlacedUnits : Stationed(p) \in Station
      BY <3>2 DEF Stationed, Purchase, Station
    <3> QED  BY <1>0, <3>1, <3>3
  <2>2. placed' \in Seq(Purchase)
    BY <1>13 DEF EndPlacement
  <2> QED  BY <1>0, <1>13, <2>1, <2>2 DEF EndPlacement
<1>14. CASE StartPlayback
  <2>1. army' \subseteq Picture
    BY <1>0, <1>14 DEF StartPlayback, Station, Picture
  <2> QED  BY <1>0, <1>14, <2>1 DEF StartPlayback
<1>15. CASE EndPlayback
  <2>1. PICK lost \in BOOLEAN :
          LET n == IF lost THEN lostRounds + 1 ELSE 0
              bonus == IF n >= RequiredLostRounds THEN LoserBonus ELSE 0
              income == Income(round + 1) - creditDebt + bonus
          IN lostRounds' = n /\ funds' = funds + income
    BY <1>15 DEF EndPlayback
  <2>2. lostRounds' \in Nat /\ funds' \in Int
    BY <1>0, <2>1 DEF Income, LoserBonus
  <2>3. /\ state' = "PlaceUnits" /\ round' = round + 1 /\ unlocksUsed' = 0
        /\ creditDebt' = 0
        /\ UNCHANGED <<unlocked, upgraded, market, board, mode, field>>
    BY <1>15 DEF EndPlayback
  <2> QED  BY <1>0, <2>2, <2>3
<1>16. CASE EndMatch
  BY <1>0, <1>16 DEF EndMatch
<1>17. CASE UNCHANGED vars
  BY <1>0, <1>17 DEF vars
<1> QED
  BY <1>1, <1>2, <1>3, <1>4, <1>5, <1>6, <1>7, <1>8, <1>9, <1>10, <1>11,
     <1>12, <1>13, <1>14, <1>15, <1>16, <1>17 DEF Next

\* The income of a round, which pays every debt.
LEMMA IncomePaysDebt ==
  ASSUME NEW r \in Nat, r >= 2
  PROVE  Income(r) \in Nat /\ Income(r) >= 150
BY DEF Income

\* No action spends what is not there, and nothing is offered for hiring that
\* cannot be paid.
LEMMA StaysSolvent ==
  ASSUME CostAssumption, PlacementInv, [Next]_vars
  PROVE  Solvent'
<1> USE DEF wallet, market, shop, board, mode, match, field
<1>0. /\ funds \in Int /\ funds >= 0 /\ round \in Nat /\ round >= 1
      /\ creditDebt \in {0, 150}
      /\ active # NoType => active \in Type /\ funds >= cost[active]
      /\ state = "SelectStartingUnits" => creditDebt = 0
      /\ NoType \notin Type
      /\ \A t \in Type : cost[t] \in Nat
      /\ active \in Type \cup {NoType}
  BY DEF PlacementInv, PlacesTyped, Solvent, CostAssumption
<1>20. /\ funds' \in Int /\ \A t \in Type : cost'[t] \in Nat
  BY TypesKept DEF PlacesTyped
<1>1. CASE SelectStartingUnits
  <2>1. PICK o \in StartOption : funds' = funds + o.gold - creditDebt
    BY <1>1 DEF SelectStartingUnits
  <2>2. o.gold \in Nat  BY DEF CostAssumption
  <2> QED  BY <1>0, <1>1, <2>1, <2>2 DEF SelectStartingUnits, Solvent
<1>2. CASE \E t \in Type : ChooseType(t)
  BY <1>0, <1>2 DEF ChooseType, Solvent
<1>3. CASE \E t \in Type : Unlock(t)
  <2>1. PICK t \in Type : Unlock(t)  BY <1>3
  <2>2. UnlockCost[t] \in Nat  BY DEF CostAssumption
  <2>3. active' # NoType => funds' >= cost'[active']
    BY <1>0, <1>20, <2>1 DEF Unlock, Affordable
  <2> QED  BY <1>0, <2>1, <2>2, <2>3 DEF Unlock, Solvent
<1>4. CASE \E t \in Type : SelectUnit(t)
  BY <1>0, <1>4 DEF SelectUnit, Solvent
<1>5. CASE RightClick
  BY <1>0, <1>5 DEF RightClick, Solvent
<1>6. CASE \E f \in Field, shift \in BOOLEAN : PlaceUnit(f, shift)
  <2>1. PICK f \in Field, shift \in BOOLEAN : PlaceUnit(f, shift)  BY <1>6
  <2>2. active # NoType /\ funds' = funds - cost[active]
        /\ state # "SelectStartingUnits" /\ state' = state
        /\ round' = round /\ creditDebt' = creditDebt
        /\ active' = IF shift THEN Affordable(active) ELSE NoType
    BY <2>1 DEF PlaceUnit
  <2>3. active' # NoType => funds' >= cost'[active']
    BY <1>0, <1>20, <2>2 DEF Affordable
  <2> QED  BY <1>0, <2>2, <2>3 DEF Solvent
<1>7. CASE TakeCredit
  BY <1>0, <1>7 DEF TakeCredit, Solvent
<1>8. CASE Undo
  <2>0. placed \in Seq(Purchase) /\ placed # <<>>
    BY <1>8 DEF Undo, PlacementInv, PlacesTyped
  <2>1. PICK u \in Purchase : u = Last(placed)  BY <2>0, FrontAndLast
  <2>2. u.type \in Type /\ u.paid \in Nat  BY DEF Purchase
  <2>3. funds' = funds + u.paid /\ TakeBack(u.type)
        /\ UNCHANGED <<creditDebt, mode, match>>
    BY <1>8, <2>1 DEF Undo
  <2>4. \A s \in Type : cost'[s] <= cost[s]
    BY <2>2, <2>3, TakeBackTyped DEF PlacementInv
  <2>5. active # NoType => cost'[active] <= cost[active] /\ cost'[active] \in Nat
    BY <1>0, <1>20, <2>4
  <2> QED  BY <1>0, <2>2, <2>3, <2>5 DEF Solvent
<1>9. CASE \E g \in Upgrade : BuyUpgrade(g)
  <2>1. PICK g \in Upgrade : BuyUpgrade(g)  BY <1>9
  <2>2. g.cost \in Nat  BY DEF CostAssumption
  <2>3. active' # NoType => funds' >= cost'[active']
    BY <1>0, <1>20, <2>1 DEF BuyUpgrade, Affordable
  <2> QED  BY <1>0, <2>1, <2>2, <2>3 DEF BuyUpgrade, Solvent
<1>10. CASE StartSelling
  BY <1>0, <1>10 DEF StartSelling, Solvent
<1>11. CASE StopSelling
  BY <1>0, <1>11 DEF StopSelling, Solvent
<1>12. CASE \E u \in army : Sell(u)
  <2>1. PICK u \in army : Sell(u)  BY <1>12
  <2>2. u.worth \in Nat  BY DEF PlacementInv, PlacesTyped, Picture
  <2>3. active # NoType => cost[active] \in Nat  BY <1>0
  <2> QED  BY <1>0, <2>1, <2>2, <2>3 DEF Sell, Solvent
<1>13. CASE EndPlacement
  BY <1>0, <1>13 DEF EndPlacement, Solvent
<1>14. CASE StartPlayback
  BY <1>0, <1>14 DEF StartPlayback, Solvent
<1>15. CASE EndPlayback
  <2>1. PICK lost \in BOOLEAN :
          LET n == IF lost THEN lostRounds + 1 ELSE 0
              bonus == IF n >= RequiredLostRounds THEN LoserBonus ELSE 0
              income == Income(round + 1) - creditDebt + bonus
          IN funds' = funds + income
    BY <1>15 DEF EndPlayback
  <2>2. Income(round + 1) \in Nat /\ Income(round + 1) >= 150
    BY <1>0, IncomePaysDebt
  <2>3. funds' >= funds  BY <1>0, <2>1, <2>2 DEF LoserBonus
  <2>4. active # NoType => cost[active] \in Nat  BY <1>0
  <2>5. /\ cost' = cost /\ active' = active /\ state' = "PlaceUnits"
        /\ round' = round + 1
    BY <1>15 DEF EndPlayback
  <2>6. active' # NoType => funds' >= cost'[active']
    BY <1>0, <1>20, <2>3, <2>4, <2>5
  <2> QED  BY <1>0, <1>20, <2>3, <2>5, <2>6 DEF Solvent
<1>16. CASE EndMatch
  BY <1>0, <1>16 DEF EndMatch, Solvent
<1>17. CASE UNCHANGED vars
  BY <1>0, <1>17 DEF vars, Solvent
<1> QED
  BY <1>1, <1>2, <1>3, <1>4, <1>5, <1>6, <1>7, <1>8, <1>9, <1>10, <1>11,
     <1>12, <1>13, <1>14, <1>15, <1>16, <1>17 DEF Next

\* While units are sold nothing is selected: every action that selects needs
\* that none are sold, or ends it.
LEMMA SellingStaysAlone ==
  ASSUME CostAssumption, PlacementInv, [Next]_vars
  PROVE  SellingExcludesSelection'
<1> USE DEF wallet, market, shop, board, mode, match, field
<1>0. /\ selling => selected = NoType /\ active = NoType
      /\ NoType \notin Type
  BY DEF PlacementInv, SellingExcludesSelection, CostAssumption
<1>1. ASSUME NEW t \in Type, ChooseType(t) \/ Unlock(t) \/ SelectUnit(t)
      PROVE  SellingExcludesSelection'
  BY <1>0, <1>1 DEF ChooseType, Unlock, SelectUnit, Affordable,
                    SellingExcludesSelection
<1>2. ASSUME NEW f \in Field, NEW shift \in BOOLEAN, PlaceUnit(f, shift)
      PROVE  SellingExcludesSelection'
  <2>1. active # NoType /\ selling' = selling  BY <1>2 DEF PlaceUnit
  <2> QED  BY <1>0, <2>1 DEF SellingExcludesSelection
<1>3. ASSUME NEW g \in Upgrade, BuyUpgrade(g)
      PROVE  SellingExcludesSelection'
  BY <1>0, <1>3 DEF BuyUpgrade, Affordable, SellingExcludesSelection
<1>4. ASSUME NEW u \in army, Sell(u)  PROVE SellingExcludesSelection'
  BY <1>0, <1>4 DEF Sell, SellingExcludesSelection
<1>5. CASE SelectStartingUnits \/ RightClick \/ TakeCredit \/ Undo
  BY <1>0, <1>5 DEF SelectStartingUnits, RightClick, TakeCredit, Undo,
                    SellingExcludesSelection
<1>6. CASE StartSelling \/ StopSelling \/ EndPlacement
  BY <1>0, <1>6 DEF StartSelling, StopSelling, EndPlacement,
                    SellingExcludesSelection
<1>7. CASE StartPlayback \/ EndPlayback \/ EndMatch \/ UNCHANGED vars
  BY <1>0, <1>7 DEF StartPlayback, EndPlayback, EndMatch, vars,
                    SellingExcludesSelection
<1> QED  BY <1>1, <1>2, <1>3, <1>4, <1>5, <1>6, <1>7 DEF Next

\* Only these actions touch the units and their fields.
LEMMA BoardSteps ==
  ASSUME [Next]_vars
  PROVE  \/ \E f \in Field, shift \in BOOLEAN : PlaceUnit(f, shift)
         \/ Undo
         \/ \E u \in army : Sell(u)
         \/ EndPlacement
         \/ UNCHANGED <<market, placed, nextId, inUse, toBeRemoved, sent>>
<1> USE DEF board, field
<1>1. ASSUME NEW t \in Type, ChooseType(t) \/ Unlock(t) \/ SelectUnit(t)
      PROVE  UNCHANGED <<market, placed, nextId, inUse, toBeRemoved, sent>>
  BY <1>1 DEF ChooseType, Unlock, SelectUnit
<1>2. ASSUME NEW g \in Upgrade, BuyUpgrade(g)
      PROVE  UNCHANGED <<market, placed, nextId, inUse, toBeRemoved, sent>>
  BY <1>2 DEF BuyUpgrade
<1>3. CASE SelectStartingUnits \/ RightClick \/ TakeCredit
  BY <1>3 DEF SelectStartingUnits, RightClick, TakeCredit
<1>4. CASE StartSelling \/ StopSelling
  BY <1>4 DEF StartSelling, StopSelling
<1>5. CASE StartPlayback \/ EndPlayback \/ EndMatch \/ UNCHANGED vars
  BY <1>5 DEF StartPlayback, EndPlayback, EndMatch, vars
<1> QED  BY <1>1, <1>2, <1>3, <1>4, <1>5 DEF Next

\* A list that grows by one element.
LEMMA Appended ==
  ASSUME NEW S, NEW s \in Seq(S), NEW e \in S
  PROVE  /\ Len(s) \in Nat /\ DOMAIN s = 1..Len(s)
         /\ DOMAIN Append(s, e) = 1..(Len(s) + 1)
         /\ \A i \in DOMAIN s : Append(s, e)[i] = s[i]
         /\ Append(s, e)[Len(s) + 1] = e
OBVIOUS

\* The units on the list are those at its places.
LEMMA PlacedAt ==
  /\ PlacedUnits = {placed[i] : i \in DOMAIN placed}
  /\ Standing = {v.field : v \in Kept} \cup {placed[i].field : i \in DOMAIN placed}
BY DEF PlacedUnits, ToSet, Standing

\* What is kept of the board: numbers, fields and who stands on them.
BoardInv == Numbered /\ inUse = Standing /\ Apart

\* A unit is placed on a free field, under a number nobody has.
LEMMA PlaceUnitBoard ==
  ASSUME CostAssumption, PlacementInv, NEW f \in Field, NEW shift \in BOOLEAN,
         PlaceUnit(f, shift)
  PROVE  BoardInv'
<1> DEFINE n == Len(placed)
<1>1. PICK u \in Purchase :
        /\ u = [id |-> nextId, type |-> active, field |-> f, paid |-> cost[active]]
        /\ placed' = Append(placed, u)
  <2>1. active \in Type /\ cost[active] \in Nat /\ nextId \in Nat
    BY DEF PlaceUnit, PlacementInv, PlacesTyped
  <2>2. [id |-> nextId, type |-> active, field |-> f, paid |-> cost[active]]
          \in Purchase
    BY <2>1 DEF Purchase
  <2> QED  BY <2>2 DEF PlaceUnit
<1>2. u.id = nextId /\ u.field = f  BY <1>1
<1>3. /\ n \in Nat /\ DOMAIN placed = 1..n /\ DOMAIN placed' = 1..(n + 1)
      /\ \A i \in DOMAIN placed : placed'[i] = placed[i]
      /\ placed'[n + 1] = u
  BY <1>1, Appended DEF PlacementInv, PlacesTyped
<1>4. \A i \in DOMAIN placed' : i \in DOMAIN placed \/ i = n + 1
  BY <1>3
<1>5. /\ nextId \in Nat /\ nextId' = nextId + 1
      /\ sent' = sent /\ toBeRemoved' = toBeRemoved
      /\ inUse' = inUse \cup {f} /\ f \notin inUse
      /\ Kept' = Kept
  BY DEF PlaceUnit, PlacementInv, PlacesTyped, Kept, field
<1>6. /\ Numbered /\ Apart /\ inUse = Standing  BY DEF PlacementInv
<1>7. /\ \A i \in DOMAIN placed : placed[i].id \in Nat
      /\ \A v \in sent : v.id \in Nat
      /\ toBeRemoved \subseteq Nat
  <2>1. placed \in Seq(Purchase) /\ sent \subseteq Station /\ toBeRemoved \subseteq Nat
    BY DEF PlacementInv, PlacesTyped
  <2>2. \A i \in DOMAIN placed : placed[i] \in Purchase  BY <2>1
  <2> QED  BY <2>1, <2>2 DEF Purchase, Station
<1>8. Numbered'
  BY <1>2, <1>3, <1>4, <1>5, <1>6, <1>7 DEF Numbered
<1>9. /\ \A i \in DOMAIN placed : placed[i].field # f
      /\ \A v \in Kept : v.field # f
  BY <1>5, <1>6, PlacedAt
<1>10. Apart'
  BY <1>2, <1>3, <1>4, <1>5, <1>6, <1>9 DEF Apart
<1>11. Standing' = {v.field : v \in Kept'}
                     \cup {placed'[i].field : i \in DOMAIN placed'}
  BY DEF Standing, PlacedUnits, ToSet
<1>12. {placed'[i].field : i \in DOMAIN placed'}
          = {placed[i].field : i \in DOMAIN placed} \cup {f}
  BY <1>2, <1>3, <1>4
<1>13. inUse' = Standing'
  BY <1>5, <1>6, <1>11, <1>12, PlacedAt
<1> QED  BY <1>8, <1>10, <1>13 DEF BoardInv

\* The last placed unit gives its field back.
LEMMA UndoBoard ==
  ASSUME CostAssumption, PlacementInv, Undo
  PROVE  BoardInv'
<1> DEFINE n == Len(placed)
<1>0. placed \in Seq(Purchase) /\ placed # <<>>
  BY DEF Undo, PlacementInv, PlacesTyped
<1>1. /\ n \in Nat /\ n >= 1 /\ Last(placed) = placed[n]
      /\ DOMAIN Front(placed) = 1..(n - 1)
      /\ \A i \in 1..(n - 1) : Front(placed)[i] = placed[i]
  BY <1>0, FrontAndLast
<1>2. /\ placed' = Front(placed) /\ inUse' = inUse \ {placed[n].field}
      /\ sent' = sent /\ toBeRemoved' = toBeRemoved /\ nextId' = nextId
      /\ Kept' = Kept
  BY <1>1 DEF Undo, field, Kept
<1>3. /\ DOMAIN placed = 1..n /\ DOMAIN placed' = 1..(n - 1)
      /\ n \in DOMAIN placed
  BY <1>0, <1>1, <1>2
<1>4. /\ \A i \in DOMAIN placed' : placed'[i] = placed[i]
      /\ \A i \in DOMAIN placed : i \in DOMAIN placed' \/ i = n
      /\ \A i \in DOMAIN placed' : i \in DOMAIN placed /\ i # n
  BY <1>1, <1>2, <1>3
<1>5. /\ Numbered /\ Apart /\ inUse = Standing  BY DEF PlacementInv
<1>6. Numbered'  BY <1>2, <1>4, <1>5 DEF Numbered
<1>7. Apart'  BY <1>2, <1>4, <1>5 DEF Apart
<1>8. /\ \A i \in DOMAIN placed' : placed'[i].field # placed[n].field
      /\ \A v \in Kept : v.field # placed[n].field
  BY <1>3, <1>4, <1>5 DEF Apart
<1>9. Standing' = {v.field : v \in Kept'}
                     \cup {placed'[i].field : i \in DOMAIN placed'}
  BY DEF Standing, PlacedUnits, ToSet
<1>10. {placed'[i].field : i \in DOMAIN placed'}
          = {placed[i].field : i \in DOMAIN placed} \ {placed[n].field}
  BY <1>3, <1>4, <1>8
<1>11. inUse' = Standing'
  BY <1>2, <1>5, <1>8, <1>9, <1>10, PlacedAt
<1> QED  BY <1>6, <1>7, <1>11 DEF BoardInv

\* The picture that is sold is the one of a unit the server knows.
LEMMA SellBoard ==
  ASSUME CostAssumption, PlacementInv, NEW u \in army, Sell(u)
  PROVE  /\ BoardInv'
         /\ Kept' = Kept \ {Stationed(u)}
<1>1. /\ state = "PlaceUnits" /\ toBeRemoved' = toBeRemoved \cup {u.id}
      /\ inUse' = inUse \ {u.field}
      /\ placed' = placed /\ nextId' = nextId /\ sent' = sent
  BY DEF Sell
<1>2. /\ Numbered /\ Apart /\ inUse = Standing /\ OnScreen
  BY DEF PlacementInv
<1>3. PICK s \in Kept : s = Stationed(u)  BY <1>1, <1>2 DEF OnScreen
<1>4. s \in sent /\ s.id = u.id /\ s.field = u.field
  BY <1>3 DEF Stationed, Kept
<1>5. \A v \in Kept : v.id = u.id => v = s
  BY <1>2, <1>4 DEF Kept, Numbered
<1>6. Kept' = Kept \ {s}  BY <1>1, <1>4, <1>5 DEF Kept
<1>7. Numbered'  BY <1>1, <1>2, <1>4 DEF Numbered
<1>8. Apart'  BY <1>1, <1>2, <1>6 DEF Apart
<1>9. /\ \A i \in DOMAIN placed : placed[i].field # u.field
      /\ \A v \in Kept : v # s => v.field # u.field
  BY <1>2, <1>3, <1>4 DEF Apart
<1>10. Standing' = {v.field : v \in Kept'}
                     \cup {placed'[i].field : i \in DOMAIN placed'}
  BY DEF Standing, PlacedUnits, ToSet
<1>11. {v.field : v \in Kept'} = {v.field : v \in Kept} \ {u.field}
  BY <1>3, <1>4, <1>6, <1>9
<1>12. inUse' = Standing'
  BY <1>1, <1>2, <1>9, <1>10, <1>11, PlacedAt
<1> QED  BY <1>3, <1>6, <1>7, <1>8, <1>12 DEF BoardInv

\* What was placed is told to the server and is kept as it was.
LEMMA EndPlacementBoard ==
  ASSUME CostAssumption, PlacementInv, EndPlacement
  PROVE  BoardInv'
<1>1. /\ sent' = {u \in {Stationed(p) : p \in PlacedUnits} \cup sent :
                    u.id \notin toBeRemoved}
      /\ toBeRemoved' = {} /\ placed' = <<>> /\ nextId' = nextId
      /\ inUse' = inUse
  BY DEF EndPlacement
<1>2. /\ Numbered /\ Apart /\ inUse = Standing  BY DEF PlacementInv
<1>3. /\ \A i \in DOMAIN placed : /\ Stationed(placed[i]).id = placed[i].id
                                  /\ Stationed(placed[i]).field = placed[i].field
  BY DEF Stationed
<1>4. {Stationed(p) : p \in PlacedUnits}
        = {Stationed(placed[i]) : i \in DOMAIN placed}
  BY PlacedAt
<1>5. \A i \in DOMAIN placed : Stationed(placed[i]).id \notin toBeRemoved
  BY <1>2, <1>3 DEF Numbered
<1>6. sent' = {Stationed(placed[i]) : i \in DOMAIN placed} \cup Kept
  BY <1>1, <1>4, <1>5 DEF Kept
<1>7. Kept' = sent' /\ DOMAIN placed' = {}  BY <1>1 DEF Kept
<1>8. \A v \in sent' : \/ \E i \in DOMAIN placed : v = Stationed(placed[i])
                       \/ v \in Kept
  BY <1>6
<1>9. \A v \in Kept : v \in sent  BY DEF Kept
<1>10. \A v \in sent' : v.id < nextId
  BY <1>2, <1>3, <1>8, <1>9 DEF Numbered
<1>11. \A u, v \in sent' : u.id = v.id => u = v
  BY <1>2, <1>3, <1>8, <1>9 DEF Numbered
<1>12. \A u, v \in sent' : u.field = v.field => u = v
  BY <1>2, <1>3, <1>8 DEF Apart
<1>13. Numbered'  BY <1>1, <1>7, <1>10, <1>11 DEF Numbered
<1>14. Apart'  BY <1>7, <1>12 DEF Apart
<1>15. Standing' = {v.field : v \in sent'}
  BY <1>7 DEF Standing, PlacedUnits, ToSet
<1>16. {v.field : v \in sent'}
         = {placed[i].field : i \in DOMAIN placed} \cup {v.field : v \in Kept}
  BY <1>3, <1>6
<1>17. inUse' = Standing'  BY <1>1, <1>2, <1>15, <1>16, PlacedAt
<1> QED  BY <1>13, <1>14, <1>17 DEF BoardInv

\* No action moves a number or a field otherwise.
LEMMA BoardStays ==
  ASSUME CostAssumption, PlacementInv, [Next]_vars
  PROVE  BoardInv'
<1>1. CASE UNCHANGED <<market, placed, nextId, inUse, toBeRemoved, sent>>
  <2>1. Kept' = Kept /\ PlacedUnits' = PlacedUnits  BY <1>1 DEF Kept, PlacedUnits
  <2>2. Standing' = Standing  BY <2>1 DEF Standing
  <2>3. Numbered'  BY <1>1 DEF PlacementInv, Numbered
  <2>4. Apart'  BY <1>1, <2>1 DEF PlacementInv, Apart
  <2> QED  BY <1>1, <2>2, <2>3, <2>4 DEF PlacementInv, BoardInv
<1> QED
  BY <1>1, BoardSteps, PlaceUnitBoard, UndoBoard, SellBoard, EndPlacementBoard

\* The pictures are those of the units kept: only the playback makes new ones,
\* and one is taken away when its unit is sold.
LEMMA ScreenStays ==
  ASSUME CostAssumption, PlacementInv, [Next]_vars
  PROVE  OnScreen'
<1> USE DEF board, mode, match, field
<1>0. OnScreen  BY DEF PlacementInv
<1>1. ASSUME UNCHANGED <<state, army, toBeRemoved, sent>>
      PROVE  OnScreen'
  BY <1>0, <1>1 DEF OnScreen, Kept
<1>2. ASSUME UNCHANGED <<army, toBeRemoved, sent>>,
             state # "WaitForSimulationResults", toBeRemoved = {}
      PROVE  OnScreen'
  BY <1>0, <1>2 DEF OnScreen, Kept
<1>3. ASSUME NEW t \in Type, ChooseType(t) \/ Unlock(t) \/ SelectUnit(t)
      PROVE  OnScreen'
  BY <1>1, <1>3 DEF ChooseType, Unlock, SelectUnit
<1>4. ASSUME NEW f \in Field, NEW shift \in BOOLEAN, PlaceUnit(f, shift)
      PROVE  OnScreen'
  BY <1>1, <1>4 DEF PlaceUnit
<1>5. ASSUME NEW g \in Upgrade, BuyUpgrade(g)
      PROVE  OnScreen'
  BY <1>1, <1>5 DEF BuyUpgrade
<1>6. CASE RightClick \/ TakeCredit \/ Undo \/ StartSelling \/ StopSelling
  BY <1>1, <1>6 DEF RightClick, TakeCredit, Undo, StartSelling, StopSelling
<1>7. CASE SelectStartingUnits \/ EndPlayback \/ EndMatch
  <2>1. state # "PlaceUnits" /\ state # "WaitForSimulationResults"
    BY <1>7 DEF SelectStartingUnits, EndPlayback, EndMatch
  <2>2. toBeRemoved = {}  BY <1>0, <2>1 DEF OnScreen
  <2>3. UNCHANGED <<army, toBeRemoved, sent>>
    BY <1>7 DEF SelectStartingUnits, EndPlayback, EndMatch
  <2> QED  BY <1>2, <2>1, <2>2, <2>3
<1>8. ASSUME NEW u \in army, Sell(u)
      PROVE  OnScreen'
  <2>1. /\ army' = army \ {u} /\ state = "PlaceUnits" /\ state' = state
        /\ Kept' = Kept \ {Stationed(u)}
    BY <1>8, SellBoard DEF Sell
  <2>2. \A w \in army : Stationed(w) = Stationed(u) => w = u
    <3>1. \A w \in army : Stationed(w).id = w.id  BY DEF Stationed
    <3> QED  BY <1>0, <3>1 DEF OnScreen
  <2>3. {Stationed(w) : w \in army} = Kept  BY <1>0, <2>1 DEF OnScreen
  <2>4. {Stationed(w) : w \in army'} = Kept'  BY <2>1, <2>2, <2>3
  <2> QED  BY <1>0, <2>1, <2>4 DEF OnScreen
<1>9. CASE EndPlacement
  <2>1. /\ state' = "WaitForSimulationResults" /\ toBeRemoved' = {}
        /\ army' = army
    BY <1>9 DEF EndPlacement
  <2> QED  BY <1>0, <2>1 DEF OnScreen
<1>10. CASE StartPlayback
  <2>1. /\ state = "WaitForSimulationResults" /\ state' = "Playback"
        /\ army' = {[id |-> u.id, type |-> u.type, field |-> u.field,
                     worth |-> cost[u.type]] : u \in sent}
        /\ sent' = sent /\ toBeRemoved' = toBeRemoved
    BY <1>10 DEF StartPlayback
  <2>2. toBeRemoved' = {}  BY <1>0, <2>1 DEF OnScreen
  <2>3. Kept' = sent  BY <2>1, <2>2 DEF Kept
  <2>4. \A u \in sent :
          Stationed([id |-> u.id, type |-> u.type, field |-> u.field,
                     worth |-> cost[u.type]]) = u
    BY DEF PlacementInv, PlacesTyped, Station, Stationed
  <2>5. {Stationed(w) : w \in army'} = sent  BY <2>1, <2>4
  <2>6. \A u, v \in sent : u.id = v.id => u = v
    BY DEF PlacementInv, Numbered
  <2>7. \A u, v \in army' : u.id = v.id => u = v
    <3>1. SUFFICES ASSUME NEW u \in army', NEW v \in army', u.id = v.id
                   PROVE  u = v
      OBVIOUS
    <3>2. PICK x \in sent : u = [id |-> x.id, type |-> x.type,
                                 field |-> x.field, worth |-> cost[x.type]]
      BY <2>1
    <3>3. PICK y \in sent : v = [id |-> y.id, type |-> y.type,
                                 field |-> y.field, worth |-> cost[y.type]]
      BY <2>1
    <3>4. x.id = y.id  BY <3>1, <3>2, <3>3
    <3> QED  BY <2>6, <3>2, <3>3, <3>4
  <2> QED  BY <2>1, <2>2, <2>3, <2>5, <2>7 DEF OnScreen
<1>11. CASE UNCHANGED vars
  BY <1>1, <1>11 DEF vars
<1> QED
  BY <1>3, <1>4, <1>5, <1>6, <1>7, <1>8, <1>9, <1>10, <1>11 DEF Next

\* A list has finitely many units, so finitely many are told to the server.
LEMMA FinitelyManySent ==
  ASSUME PlacesTyped, IsFiniteSet(sent), EndPlacement
  PROVE  IsFiniteSet(sent')
<1> DEFINE D == DOMAIN placed
           T == {Stationed(placed[i]) : i \in D}
           f == [i \in D |-> Stationed(placed[i])]
<1>1. IsFiniteSet(D)
  <2>1. Len(placed) \in Nat /\ D = 1..Len(placed)  BY DEF PlacesTyped
  <2> QED  BY <2>1, FS_Interval
<1>2. f \in Surjection(D, T)
  BY DEF Surjection
<1>3. IsFiniteSet(T)  BY <1>1, <1>2, FS_Surjection
<1>4. IsFiniteSet(T \cup sent)  BY <1>3, FS_Union
<1>5. {Stationed(p) : p \in PlacedUnits} = T  BY PlacedAt
<1>6. sent' \in SUBSET (T \cup sent)  BY <1>5 DEF EndPlacement
<1> QED  BY <1>4, <1>6, FS_Subset

\* A purchase is counted when a unit is placed and taken off the count when
\* that unit is undone.
LEMMA PurchasesCounted ==
  ASSUME CostAssumption, PlacementInv, [Next]_vars
  PROVE  Counted'
<1>0. /\ IsFiniteSet(sent)
      /\ \A t \in Type : /\ IsFiniteSet(PlacedOfType(t))
                         /\ Cardinality(PlacedOfType(t)) \in Nat
                         /\ Cardinality(PlacedOfType(t)) <= purchases[t]
                         /\ purchases[t] \in Nat
      /\ purchases \in [Type -> Nat] /\ placed \in Seq(Purchase)
  BY FS_CardinalityType DEF PlacementInv, Counted, PlacesTyped
<1>1. ASSUME NEW f \in Field, NEW shift \in BOOLEAN, PlaceUnit(f, shift)
      PROVE  Counted'
  <2> DEFINE n == Len(placed)
  <2>1. active \in Type /\ cost[active] \in Nat /\ nextId \in Nat
    BY <1>1 DEF PlaceUnit, PlacementInv, PlacesTyped
  <2>2. PICK u \in Purchase : placed' = Append(placed, u) /\ u.type = active
    <3>1. [id |-> nextId, type |-> active, field |-> f, paid |-> cost[active]]
            \in Purchase
      BY <2>1 DEF Purchase
    <3> QED  BY <1>1, <3>1 DEF PlaceUnit
  <2>3. /\ n \in Nat /\ DOMAIN placed = 1..n /\ DOMAIN placed' = 1..(n + 1)
        /\ \A i \in DOMAIN placed : placed'[i] = placed[i]
        /\ placed'[n + 1] = u
    BY <1>0, <2>2, Appended
  <2>4. sent' = sent /\ purchases' = [purchases EXCEPT ![active] = purchases[active] + 1]
    BY <1>1 DEF PlaceUnit, field
  <2>5. ASSUME NEW t \in Type
        PROVE  /\ IsFiniteSet(PlacedOfType(t)')
               /\ Cardinality(PlacedOfType(t)') <= purchases'[t]
    <3>1. CASE t = active
      <4>1. PlacedOfType(t)' = PlacedOfType(t) \cup {n + 1}
        BY <2>2, <2>3, <3>1 DEF PlacedOfType
      <4>2. n + 1 \notin PlacedOfType(t)  BY <2>3 DEF PlacedOfType
      <4>3. IsFiniteSet(PlacedOfType(t)')
            /\ Cardinality(PlacedOfType(t)') = Cardinality(PlacedOfType(t)) + 1
        <5>1. ASSUME NEW S, IsFiniteSet(S), n + 1 \notin S
              PROVE  /\ IsFiniteSet(S \cup {n + 1})
                     /\ Cardinality(S \cup {n + 1}) = Cardinality(S) + 1
          BY <5>1, FS_AddElement, Zenon
        <5>2. IsFiniteSet(PlacedOfType(t))  BY <1>0
        <5> QED  BY <4>1, <4>2, <5>1, <5>2
      <4>4. purchases'[t] = purchases[t] + 1  BY <1>0, <2>4, <3>1
      <4> QED  BY <1>0, <4>3, <4>4
    <3>2. CASE t # active
      <4>1. PlacedOfType(t)' = PlacedOfType(t)
        BY <2>2, <2>3, <3>2 DEF PlacedOfType
      <4>2. purchases'[t] = purchases[t]  BY <1>0, <2>4, <3>2
      <4> QED  BY <1>0, <4>1, <4>2
    <3> QED  BY <3>1, <3>2
  <2> QED  BY <1>0, <2>4, <2>5 DEF Counted, PlacedOfType
<1>2. CASE Undo
  <2> DEFINE n == Len(placed)
  <2>1. placed # <<>>  BY <1>2 DEF Undo
  <2>2. /\ n \in Nat /\ n >= 1 /\ Last(placed) = placed[n]
        /\ placed[n] \in Purchase
        /\ DOMAIN Front(placed) = 1..(n - 1)
        /\ \A i \in 1..(n - 1) : Front(placed)[i] = placed[i]
    BY <1>0, <2>1, FrontAndLast
  <2>3. PICK u \in Purchase : u = placed[n]  BY <2>2
  <2>4. /\ placed' = Front(placed) /\ sent' = sent
        /\ purchases' = [purchases EXCEPT ![u.type] = purchases[u.type] - 1]
    BY <1>2, <2>2, <2>3 DEF Undo, field
  <2>5. u.type \in Type  BY DEF Purchase
  <2>6. DOMAIN placed = 1..n  BY <1>0
  <2>7. ASSUME NEW t \in Type
        PROVE  /\ IsFiniteSet(PlacedOfType(t)')
               /\ Cardinality(PlacedOfType(t)') <= purchases'[t]
    <3>1. CASE t = u.type
      <4>1. PlacedOfType(t)' = PlacedOfType(t) \ {n}
        BY <2>2, <2>4, <2>6 DEF PlacedOfType
      <4>2. n \in PlacedOfType(t)  BY <2>2, <2>3, <2>6, <3>1 DEF PlacedOfType
      <4>3. IsFiniteSet(PlacedOfType(t)')
            /\ Cardinality(PlacedOfType(t)') = Cardinality(PlacedOfType(t)) - 1
        <5>1. ASSUME NEW S, IsFiniteSet(S), n \in S
              PROVE  IsFiniteSet(S \ {n}) /\ Cardinality(S \ {n}) = Cardinality(S) - 1
          BY <5>1, FS_RemoveElement, Zenon
        <5>2. IsFiniteSet(PlacedOfType(t))  BY <1>0
        <5> QED  BY <4>1, <4>2, <5>1, <5>2
      <4>4. purchases'[t] = purchases[t] - 1  BY <1>0, <2>4, <3>1
      <4> QED  BY <1>0, <4>3, <4>4
    <3>2. CASE t # u.type
      <4>1. PlacedOfType(t)' = PlacedOfType(t)
        BY <2>2, <2>3, <2>4, <2>6, <3>2 DEF PlacedOfType
      <4>2. purchases'[t] = purchases[t]  BY <1>0, <2>4, <3>2
      <4> QED  BY <1>0, <4>1, <4>2
    <3> QED  BY <3>1, <3>2
  <2> QED  BY <1>0, <2>4, <2>7 DEF Counted, PlacedOfType
<1>3. ASSUME NEW u \in army, Sell(u)
      PROVE  Counted'
  BY <1>0, <1>3 DEF Sell, market, Counted, PlacedOfType
<1>4. CASE EndPlacement
  <2>1. IsFiniteSet(sent')  BY <1>0, <1>4, FinitelyManySent DEF PlacementInv
  <2>2. purchases' = purchases /\ placed' = <<>>  BY <1>4 DEF EndPlacement, market
  <2>3. \A t \in Type : PlacedOfType(t)' = {}  BY <2>2 DEF PlacedOfType
  <2>4. ASSUME NEW t \in Type
        PROVE  /\ IsFiniteSet(PlacedOfType(t)')
               /\ Cardinality(PlacedOfType(t)') <= purchases'[t]
    <3>1. IsFiniteSet({}) /\ Cardinality({}) = 0  BY FS_EmptySet
    <3>2. PlacedOfType(t)' = {}  BY <2>3
    <3>3. 0 <= purchases'[t]  BY <1>0, <2>2
    <3> QED  BY <3>1, <3>2, <3>3
  <2> QED  BY <2>1, <2>4 DEF Counted, PlacedOfType
<1>5. CASE UNCHANGED <<market, placed, nextId, inUse, toBeRemoved, sent>>
  BY <1>0, <1>5 DEF market, Counted, PlacedOfType
<1> QED  BY <1>1, <1>2, <1>3, <1>4, <1>5, BoardSteps

\* The invariant holds before the starting units are chosen.
LEMMA PlacementBegins ==
  ASSUME CostAssumption, Init
  PROVE  PlacementInv
<1>0. /\ state = "SelectStartingUnits" /\ round = 1 /\ lostRounds = 0
      /\ funds = 0 /\ creditDebt = 0 /\ unlocksUsed = 0
      /\ unlocked = {} /\ upgraded = {} /\ placed = <<>> /\ nextId = 0
      /\ inUse = {} /\ active = NoType /\ selling = FALSE /\ selected = NoType
      /\ army = {} /\ toBeRemoved = {} /\ sent = {}
  BY DEF Init
<1>1. PlacesTyped
  <2>1. placed \in Seq(Purchase)  BY <1>0
  <2>2. cost \in [Type -> Nat]  BY DEF Init, CostAssumption
  <2>3. bought \in [Type -> 0..2] /\ purchases \in [Type -> Nat]  BY DEF Init
  <2>4. /\ funds \in Int /\ creditDebt \in {0, 150}
        /\ round \in Nat /\ lostRounds \in Nat /\ nextId \in Nat
        /\ unlocksUsed \in 0..1
    BY <1>0
  <2>5. /\ unlocked \subseteq Type /\ upgraded \subseteq Upgrade
        /\ inUse \subseteq Field /\ army \subseteq Picture
        /\ toBeRemoved \subseteq Nat /\ sent \subseteq Station
    BY <1>0
  <2>6. /\ active \in Type \cup {NoType} /\ selected \in Type \cup {NoType}
        /\ selling \in BOOLEAN
    BY <1>0
  <2>7. state \in {"SelectStartingUnits", "PlaceUnits",
                   "WaitForSimulationResults", "Playback", "End"}
    BY <1>0
  <2> QED  BY <2>1, <2>2, <2>3, <2>4, <2>5, <2>6, <2>7 DEF PlacesTyped
<1>2. Solvent /\ SellingExcludesSelection
  BY <1>0 DEF Solvent, SellingExcludesSelection
<1>3. Kept = {} /\ DOMAIN placed = {}  BY <1>0 DEF Kept
<1>4. Numbered /\ Apart  BY <1>0, <1>3 DEF Numbered, Apart
<1>5. inUse = Standing  BY <1>0, <1>3, PlacedAt
<1>6. OnScreen  BY <1>0, <1>3 DEF OnScreen
<1>7. Counted
  <2>1. IsFiniteSet({}) /\ Cardinality({}) = 0  BY FS_EmptySet
  <2>2. ASSUME NEW t \in Type
        PROVE  IsFiniteSet(PlacedOfType(t)) /\ Cardinality(PlacedOfType(t)) <= purchases[t]
    <3>1. PlacedOfType(t) = {}  BY <1>3 DEF PlacedOfType
    <3>2. purchases[t] = 0  BY DEF Init
    <3> QED  BY <2>1, <3>1, <3>2
  <2>3. IsFiniteSet(sent)  BY <1>0, <2>1
  <2> QED  BY <2>2, <2>3 DEF Counted
<1> QED  BY <1>1, <1>2, <1>4, <1>5, <1>6, <1>7 DEF PlacementInv

\* Every action keeps the invariant.
LEMMA PlacementGoesOn ==
  ASSUME CostAssumption, PlacementInv, [Next]_vars
  PROVE  PlacementInv'
BY TypesKept, StaysSolvent, SellingStaysAlone, BoardStays, ScreenStays,
   PurchasesCounted DEF PlacementInv, BoardInv

\* The inductive invariant of a player's placements, for any types, prices,
\* offers, upgrades and fields, and any number of rounds: the types, money,
\* numbers, fields and pictures.
THEOREM PlacementInvariance ==
  ASSUME CostAssumption
  PROVE  Spec => []PlacementInv
<1>1. Init => PlacementInv  BY PlacementBegins
<1>2. PlacementInv /\ [Next]_vars => PlacementInv'  BY PlacementGoesOn
<1> QED  BY <1>1, <1>2, PTL DEF Spec

\* PlacementManager's funds are never negative: no order of hiring, undoing,
\* unlocking, upgrading, selling and taking a credit ends in a debt that the
\* income of the next round does not cover.
THEOREM NobodyPlaysOnDebt ==
  ASSUME CostAssumption
  PROVE  Spec => []FundsNeverNegative
<1>1. PlacementInv => FundsNeverNegative
  BY DEF PlacementInv, Solvent, FundsNeverNegative
<1> QED  BY <1>1, PlacementInvariance, PTL

\* While PlaceUnits sells units, no unit is selected and no type is hired.
THEOREM SellingIsExclusive ==
  ASSUME CostAssumption
  PROVE  Spec => []SellingExcludesSelection
<1>1. PlacementInv => SellingExcludesSelection  BY DEF PlacementInv
<1> QED  BY <1>1, PlacementInvariance, PTL

\* If no field carries two units, the fields are as many as the units.
LEMMA OneFieldEach ==
  ASSUME PlacementInv
  PROVE  FieldsMatchUnits
<1> DEFINE D == DOMAIN placed
           P == {placed[i].field : i \in D}
           K == {v.field : v \in Kept}
           p == [i \in D |-> placed[i].field]
           k == [v \in Kept |-> v.field]
<1>0. Apart /\ inUse = Standing  BY DEF PlacementInv
<1>1. Len(placed) \in Nat /\ D = 1..Len(placed)
  BY DEF PlacementInv, PlacesTyped
<1>2. IsFiniteSet(D) /\ Cardinality(D) = Len(placed)
  <2>1. ASSUME NEW n \in Nat
        PROVE  IsFiniteSet(1..n) /\ Cardinality(1..n) = n
    BY FS_Interval
  <2> QED  BY <1>1, <2>1
<1>3. p \in Bijection(D, P)
  BY <1>0 DEF Bijection, Injection, Surjection, IsInjective, Apart
<1>4. IsFiniteSet(P) /\ Cardinality(P) = Len(placed)
  BY <1>2, <1>3, FS_Bijection DEF ExistsBijection
<1>5. Kept \in SUBSET sent /\ IsFiniteSet(sent)
  BY DEF PlacementInv, Counted, Kept
<1>6. IsFiniteSet(Kept)  BY <1>5, FS_Subset
<1>7. k \in Bijection(Kept, K)
  BY <1>0 DEF Bijection, Injection, Surjection, IsInjective, Apart
<1>8. IsFiniteSet(K) /\ Cardinality(K) = Cardinality(Kept)
  BY <1>6, <1>7, FS_Bijection DEF ExistsBijection
<1>9. K \cap P = {}  BY <1>0 DEF Apart
<1>10. Cardinality(K \cap P) = 0  BY <1>9, FS_EmptySet
<1>11. Cardinality(K) \in Nat /\ Cardinality(P) \in Nat
  BY <1>4, <1>8, FS_CardinalityType
<1>12. Cardinality(K \cup P)
         = Cardinality(K) + Cardinality(P) - Cardinality(K \cap P)
  BY <1>4, <1>8, FS_Union
<1>13. inUse = K \cup P  BY <1>0, PlacedAt
<1>14. Cardinality(inUse) = Cardinality(K) + Cardinality(P)
  BY <1>10, <1>11, <1>12, <1>13
<1>15. Cardinality(inUse) = Len(placed) + Cardinality(Kept)
  BY <1>4, <1>8, <1>11, <1>14
<1> QED  BY <1>0, <1>15 DEF FieldsMatchUnits

\* m_placedUnitsMap has a field exactly if one unit stands on it, however units
\* of different rounds were placed, undone and sold.
THEOREM FieldsAreTrue ==
  ASSUME CostAssumption
  PROVE  Spec => []FieldsMatchUnits
<1>1. PlacementInv => FieldsMatchUnits  BY OneFieldEach
<1> QED  BY <1>1, PlacementInvariance, PTL

\* A table of the prices a type has after it rose k times.
IsPriceTable(table) ==
  /\ table \in [Type -> [Nat -> Nat]]
  /\ \A t \in Type : /\ table[t][0] = BaseCost[t]
                     /\ \A k \in Nat : table[t][k + 1] = Raise(table[t][k])

\* The prices are those of the table, and the counters show when they rise.
PricesOf(table) ==
  \A t \in Type : /\ cost[t] = table[t][purchases[t] \div 3]
                  /\ bought[t] = purchases[t] % 3

\* Purchases and purchases that are undone move along the table.
LEMMA PricesStay ==
  ASSUME CostAssumption, PlacementInv, NEW table, IsPriceTable(table),
         PricesOf(table), [Next]_vars
  PROVE  PricesOf(table)'
<1>0. /\ cost \in [Type -> Nat] /\ bought \in [Type -> 0..2]
      /\ purchases \in [Type -> Nat] /\ placed \in Seq(Purchase)
  BY DEF PlacementInv, PlacesTyped
<1>1. ASSUME NEW f \in Field, NEW shift \in BOOLEAN, PlaceUnit(f, shift)
      PROVE  PricesOf(table)'
  <2>1. PICK t \in Type : t = active
    BY <1>1 DEF PlaceUnit, PlacementInv, PlacesTyped
  <2>2. PICK n \in Nat : n = purchases[t]  BY <1>0
  <2>3. purchases' = [purchases EXCEPT ![t] = n + 1] /\ BuyUnit(t)
    BY <1>1, <2>1, <2>2 DEF PlaceUnit
  <2>4. cost[t] = table[t][n \div 3] /\ bought[t] = n % 3
    BY <2>2 DEF PricesOf
  <2>5. PICK k \in Nat : k = n \div 3  OBVIOUS
  <2>6. cost'[t] = table[t][(n + 1) \div 3] /\ bought'[t] = (n + 1) % 3
    <3>1. CASE n % 3 = 2
      <4>1. (n + 1) \div 3 = k + 1 /\ (n + 1) % 3 = 0  BY <2>5, <3>1
      <4>2. cost' = [cost EXCEPT ![t] = Raise(cost[t])]
            /\ bought' = [bought EXCEPT ![t] = bought[t] - 2]
        BY <2>3, <2>4, <3>1 DEF BuyUnit
      <4>3. cost'[t] = Raise(table[t][k])  BY <1>0, <2>4, <2>5, <4>2
      <4>4. table[t][k + 1] = Raise(table[t][k])  BY DEF IsPriceTable
      <4>5. bought'[t] = 0  BY <1>0, <2>4, <3>1, <4>2
      <4> QED  BY <4>1, <4>3, <4>4, <4>5
    <3>2. CASE n % 3 # 2
      <4>1. (n + 1) \div 3 = k /\ (n + 1) % 3 = (n % 3) + 1 /\ n % 3 \in 0..2
        BY <2>5, <3>2
      <4>2. cost' = cost /\ bought' = [bought EXCEPT ![t] = bought[t] + 1]
        BY <2>3, <2>4, <3>2, <4>1 DEF BuyUnit
      <4> QED  BY <1>0, <2>4, <2>5, <4>1, <4>2
    <3> QED  BY <3>1, <3>2
  <2>7. \A s \in Type : s # t => /\ cost'[s] = cost[s] /\ bought'[s] = bought[s]
                                 /\ purchases'[s] = purchases[s]
    BY <1>0, <2>3 DEF BuyUnit
  <2>8. purchases'[t] = n + 1  BY <1>0, <2>3
  <2> QED  BY <2>6, <2>7, <2>8 DEF PricesOf
<1>2. CASE Undo
  <2>1. placed # <<>>  BY <1>2 DEF Undo
  <2>2. PICK u \in Purchase : u = Last(placed) /\ u = placed[Len(placed)]
                              /\ Len(placed) \in DOMAIN placed
    BY <1>0, <2>1, FrontAndLast
  <2>3. PICK t \in Type : t = u.type  BY DEF Purchase
  <2>4. PICK n \in Nat : n = purchases[t]  BY <1>0
  <2>5. n >= 1
    <3>1. Len(placed) \in PlacedOfType(t)  BY <2>2, <2>3 DEF PlacedOfType
    <3>2. IsFiniteSet(PlacedOfType(t)) /\ Cardinality(PlacedOfType(t)) <= n
      BY <2>4 DEF PlacementInv, Counted
    <3>3. Cardinality(PlacedOfType(t)) \in Nat /\ Cardinality(PlacedOfType(t)) # 0
      BY <3>1, <3>2, FS_CardinalityType, FS_EmptySet
    <3> QED  BY <3>2, <3>3
  <2>6. purchases' = [purchases EXCEPT ![t] = n - 1] /\ TakeBack(t)
    BY <1>2, <2>2, <2>3, <2>4 DEF Undo
  <2>7. cost[t] = table[t][n \div 3] /\ bought[t] = n % 3
    BY <2>4 DEF PricesOf
  <2>8. cost'[t] = table[t][(n - 1) \div 3] /\ bought'[t] = (n - 1) % 3
    <3>1. CASE n % 3 = 0
      <4>1. PICK k \in Nat : n = 3 * k + 3
        <5>1. (n \div 3) - 1 \in Nat /\ n = 3 * ((n \div 3) - 1) + 3
          BY <2>5, <3>1
        <5> QED  BY <5>1
      <4>2. /\ n \div 3 = k + 1 /\ (n - 1) \div 3 = k /\ (n - 1) % 3 = 2
        BY <4>1
      <4>3. cost' = [cost EXCEPT ![t] = Lower(cost[t])]
            /\ bought' = [bought EXCEPT ![t] = bought[t] + 2]
        BY <2>6, <2>7, <3>1 DEF TakeBack
      <4>4. cost[t] = Raise(table[t][k]) /\ table[t][k] \in Nat
        BY <2>7, <4>2 DEF IsPriceTable
      <4>5. cost'[t] = table[t][k]  BY <1>0, <4>3, <4>4, RaiseIsUndone
      <4>6. bought'[t] = 2  BY <1>0, <2>7, <3>1, <4>3
      <4> QED  BY <4>2, <4>5, <4>6
    <3>2. CASE n % 3 # 0
      <4>1. (n - 1) \div 3 = n \div 3 /\ (n - 1) % 3 = (n % 3) - 1 /\ n % 3 \in 0..2
        BY <2>5, <3>2
      <4>2. cost' = cost /\ bought' = [bought EXCEPT ![t] = bought[t] - 1]
        BY <2>6, <2>7, <3>2, <4>1 DEF TakeBack
      <4> QED  BY <1>0, <2>7, <4>1, <4>2
    <3> QED  BY <3>1, <3>2
  <2>9. \A s \in Type : s # t => /\ cost'[s] = cost[s] /\ bought'[s] = bought[s]
                                 /\ purchases'[s] = purchases[s]
    BY <1>0, <2>6 DEF TakeBack
  <2>10. purchases'[t] = n - 1  BY <1>0, <2>6
  <2> QED  BY <2>8, <2>9, <2>10 DEF PricesOf
<1>3. ASSUME UNCHANGED market
      PROVE  PricesOf(table)'
  BY <1>3 DEF market, PricesOf
<1>4. ASSUME NEW u \in army, Sell(u)
      PROVE  PricesOf(table)'
  BY <1>3, <1>4 DEF Sell
<1>5. CASE EndPlacement
  BY <1>3, <1>5 DEF EndPlacement
<1>6. CASE UNCHANGED <<market, placed, nextId, inUse, toBeRemoved, sent>>
  BY <1>3, <1>6
<1> QED  BY <1>1, <1>2, <1>4, <1>5, <1>6, BoardSteps

\* The prices the property speaks of are such a table.
LEMMA PriceTableExists ==
  ASSUME CostAssumption
  PROVE  IsPriceTable([t \in Type |-> PriceAfter(t)])
<1> DEFINE step == [c \in Nat |-> Raise(c)]
<1>1. \A c \in Nat : step[c] \in Nat
  BY RaiseIsUndone
<1>2. ASSUME NEW t \in Type
      PROVE  /\ PriceAfter(t) \in [Nat -> Nat]
             /\ PriceAfter(t)[0] = BaseCost[t]
             /\ \A k \in Nat : PriceAfter(t)[k + 1] = Raise(PriceAfter(t)[k])
  <2> DEFINE Eq(p) == p = [k \in Nat |-> IF k = 0 THEN BaseCost[t]
                                                  ELSE Raise(p[k - 1])]
  <2>1. PICK r \in [Nat -> Nat] :
          r[0] = BaseCost[t] /\ \A k \in Nat : r[k + 1] = step[r[k]]
    <3>1. BaseCost[t] \in Nat
      BY DEF CostAssumption
    <3>2. \E r : IsRecursion(r, Nat, BaseCost[t], step)
      <4> HIDE DEF step
      <4> QED  BY <1>1, <3>1, RecursionExists
    <3> HIDE DEF step
    <3> QED  BY <3>2 DEF IsRecursion
  <2>2. Eq(r)
    <3>1. ASSUME NEW k \in Nat, k # 0
          PROVE  r[k] = Raise(r[k - 1])
      <4>1. k - 1 \in Nat /\ (k - 1) + 1 = k
        BY <3>1
      <4>2. r[(k - 1) + 1] = step[r[k - 1]]
        BY <2>1, <4>1
      <4> QED  BY <4>1, <4>2
    <3> QED  BY <2>1, <3>1
  <2>3. PriceAfter(t) = CHOOSE p : Eq(p)
    BY DEF PriceAfter
  <2>4. Eq(PriceAfter(t))
    <3> HIDE DEF Eq
    <3> QED  BY <2>2, <2>3
  <2> DEFINE p == PriceAfter(t)
             F == {k \in Nat : p[k] = r[k]}
  <2>5. 0 \in F
    BY <2>1, <2>4
  <2>6. ASSUME NEW k \in Nat, k \in F
        PROVE  k + 1 \in F
    <3>1. p[k + 1] = Raise(p[(k + 1) - 1])
      <4> HIDE DEF p
      <4>1. k + 1 \in Nat /\ k + 1 # 0
        OBVIOUS
      <4> QED  BY <2>4, <4>1 DEF p
    <3>2. r[k + 1] = Raise(r[k])
      BY <2>1
    <3>3. (k + 1) - 1 = k
      OBVIOUS
    <3> HIDE DEF p
    <3> QED  BY <2>6, <3>1, <3>2, <3>3
  <2>7. Nat \subseteq F
    <3> HIDE DEF F
    <3> QED  BY <2>5, <2>6, NumberInduction
  <2>8. \A k \in Nat : p[k] = r[k]
    BY <2>7
  <2>9. p = r
    <3>1. p = [k \in Nat |-> p[k]]
      BY <2>4
    <3> HIDE DEF p
    <3> QED  BY <2>8, <3>1
  <2>10. \A k \in Nat : r[k + 1] = Raise(r[k])
    BY <2>1
  <2> QED  BY <2>1, <2>9, <2>10
<1> QED  BY <1>2 DEF IsPriceTable

\* UnitInfoCollection's prices depend on the number of purchases alone: raising
\* by the float factor 1.08 and lowering by its inverse, each rounded, never
\* drift apart, in whatever order units of all types are hired and undone.
THEOREM PricesNeverDrift ==
  ASSUME CostAssumption
  PROVE  Spec => []PriceFollowsPurchases
<1> DEFINE table == [t \in Type |-> PriceAfter(t)]
<1>0. IsPriceTable(table)
  BY PriceTableExists
<1>1. Init => PricesOf(table)
  <2>1. SUFFICES ASSUME Init PROVE PricesOf(table)  OBVIOUS
  <2>2. \A t \in Type : cost[t] = BaseCost[t] /\ bought[t] = 0 /\ purchases[t] = 0
    BY <2>1 DEF Init
  <2>3. \A t \in Type : table[t][0] = BaseCost[t]  BY <1>0 DEF IsPriceTable
  <2>4. 0 \div 3 = 0 /\ 0 % 3 = 0  OBVIOUS
  <2> HIDE DEF table
  <2> QED  BY <2>2, <2>3, <2>4 DEF PricesOf
<1>2. PlacementInv /\ PricesOf(table) /\ [Next]_vars => PricesOf(table)'
  <2> HIDE DEF table
  <2>1. SUFFICES ASSUME PlacementInv, PricesOf(table), [Next]_vars
                 PROVE  PricesOf(table)'
    OBVIOUS
  <2> QED  BY <1>0, <2>1, PricesStay
<1>3. PricesOf(table) => PriceFollowsPurchases
  BY DEF PricesOf, PriceFollowsPurchases
<1> QED  BY <1>1, <1>2, <1>3, PlacementInvariance, PTL DEF Spec

\* What was paid for a list of units, when one is added or the last one is gone.
LEMMA SumPaidOver ==
  ASSUME NEW p \in Seq(Purchase)
  PROVE  /\ IsFiniteSet(1..Len(p))
         /\ \A S \in SUBSET (1..Len(p)) :
              SumFunctionOnSet([i \in DOMAIN p |-> p[i].paid], S) \in Int
         /\ SumPaid(p) = SumFunctionOnSet([i \in DOMAIN p |-> p[i].paid], 1..Len(p))
         /\ SumPaid(p) \in Int
<1> DEFINE paid == [i \in DOMAIN p |-> p[i].paid]
<1>1. PICK n \in Nat : n = Len(p) /\ DOMAIN p = 1..n
  OBVIOUS
<1> DEFINE I == 1..n
<1>2. IsFiniteSet(I)
  BY FS_Interval
<1>3. \A i \in I : paid[i] \in Int
  <2>1. \A i \in I : p[i] \in Purchase /\ paid[i] = p[i].paid
    BY <1>1
  <2>2. \A u \in Purchase : u.paid \in Int
    BY DEF Purchase
  <2> QED  BY <2>1, <2>2
<1>4. \A S \in SUBSET I : SumFunctionOnSet(paid, S) \in Int
  <2> HIDE DEF paid, I
  <2>1. ASSUME NEW S \in SUBSET I
        PROVE  IsFiniteSet(S) /\ \A i \in S : paid[i] \in Int
    BY <1>2, <1>3, FS_Subset
  <2> QED  BY <2>1, SumIsInt
<1>5. SumPaid(p) = SumFunctionOnSet(paid, DOMAIN paid) /\ DOMAIN paid = I
  BY <1>1 DEF SumPaid, SumFunction
<1>6. I \in SUBSET I
  OBVIOUS
<1> HIDE DEF paid
<1> QED  BY <1>1, <1>2, <1>4, <1>5, <1>6 DEF paid

LEMMA SumPaidOfNone == SumPaid(<<>>) = 0
<1>1. DOMAIN [i \in DOMAIN <<>> |-> <<>>[i].paid] = {}
  OBVIOUS
<1> QED  BY <1>1, EmptySum DEF SumPaid, SumFunction

LEMMA SumPaidOfOneMore ==
  ASSUME NEW p \in Seq(Purchase), NEW q \in Seq(Purchase), NEW u \in Purchase,
         Len(q) = Len(p) + 1, q[Len(q)] = u, \A i \in 1..Len(p) : q[i] = p[i]
  PROVE  SumPaid(q) = SumPaid(p) + u.paid
<1> DEFINE I == 1..Len(p)
           J == 1..Len(q)
           paidP == [i \in DOMAIN p |-> p[i].paid]
           paidQ == [i \in DOMAIN q |-> q[i].paid]
<1>1. PICK n \in Nat : n = Len(p) /\ Len(q) = n + 1 /\ I = 1..n /\ J = 1..(n + 1)
                       /\ DOMAIN p = I /\ DOMAIN q = J
  OBVIOUS
<1>2. n + 1 \in J /\ J \ {n + 1} = I
  BY <1>1
<1>3. IsFiniteSet(I) /\ IsFiniteSet(J)
  BY SumPaidOver
<1>4. \A i \in J : paidQ[i] \in Int
  <2>1. \A i \in J : q[i] \in Purchase /\ paidQ[i] = q[i].paid
    BY <1>1
  <2>2. \A v \in Purchase : v.paid \in Int
    BY DEF Purchase
  <2> QED  BY <2>1, <2>2
<1>5. SumFunctionOnSet(paidQ, J) = paidQ[n + 1] + SumFunctionOnSet(paidQ, J \ {n + 1})
  <2> HIDE DEF paidQ, J
  <2> QED  BY <1>2, <1>3, <1>4, SumFromAny
<1>6. \A i \in I : paidQ[i] \in Int /\ paidQ[i] = paidP[i]
  BY <1>1, <1>4
<1>7. SumFunctionOnSet(paidQ, I) = SumFunctionOnSet(paidP, I)
  <2> HIDE DEF paidP, paidQ, I
  <2> QED  BY <1>3, <1>6, SumOfEqual
<1>8. paidQ[n + 1] = u.paid
  BY <1>1, <1>2
<1>9. SumPaid(p) = SumFunctionOnSet(paidP, I) /\ SumPaid(q) = SumFunctionOnSet(paidQ, J)
      /\ SumPaid(p) \in Int
  BY SumPaidOver
<1>10. PICK c \in Int : c = u.paid
  BY DEF Purchase
<1> HIDE DEF paidP, paidQ, I, J
<1>11. SumPaid(q) = c + SumPaid(p)
  BY <1>2, <1>5, <1>7, <1>8, <1>9, <1>10
<1> QED  BY <1>9, <1>10, <1>11

\* What an army is worth, when one of its units is gone.
LEMMA SumWorthOfOneLess ==
  ASSUME NEW a \in SUBSET Picture, IsFiniteSet(a), NEW u \in a
  PROVE  /\ SumWorth(a) \in Int
         /\ SumWorth(a) = u.worth + SumWorth(a \ {u})
<1> DEFINE worthA == [v \in a |-> v.worth]
           b == a \ {u}
           worthB == [v \in b |-> v.worth]
<1>1. \A v \in a : worthA[v] \in Int
  BY DEF Picture
<1>2. SumFunctionOnSet(worthA, a) \in Int
      /\ SumFunctionOnSet(worthA, a) = worthA[u] + SumFunctionOnSet(worthA, a \ {u})
  <2> HIDE DEF worthA
  <2> QED  BY <1>1, SumFromAny, SumIsInt
<1>3. IsFiniteSet(b)
  BY FS_Subset
<1>4. \A v \in b : worthA[v] \in Int /\ worthA[v] = worthB[v]
  BY <1>1
<1>5. SumFunctionOnSet(worthA, b) = SumFunctionOnSet(worthB, b)
  <2> HIDE DEF worthA, worthB, b
  <2> QED  BY <1>3, <1>4, SumOfEqual
<1>6. DOMAIN worthA = a /\ DOMAIN worthB = b /\ worthA[u] = u.worth
  OBVIOUS
<1>7. SumWorth(a) = SumFunctionOnSet(worthA, a)
      /\ SumWorth(b) = SumFunctionOnSet(worthB, b)
  BY <1>6 DEF SumWorth, SumFunction
<1> HIDE DEF worthA, worthB
<1> QED  BY <1>2, <1>5, <1>6, <1>7

LEMMA SumWorthIsInt ==
  ASSUME NEW a \in SUBSET Picture, IsFiniteSet(a)
  PROVE  SumWorth(a) \in Int
<1> DEFINE worthA == [v \in a |-> v.worth]
<1>1. \A v \in a : worthA[v] \in Int
  BY DEF Picture
<1>2. SumFunctionOnSet(worthA, a) \in Int
  <2> HIDE DEF worthA
  <2> QED  BY <1>1, SumIsInt
<1> QED  BY <1>2 DEF SumWorth, SumFunction

\* The money of the placements: the books, and what they are kept of.
BooksInv == balance \in Int /\ Books /\ IsFiniteSet(army)

\* A step that neither places nor takes back a unit.
LEMMA OtherMoney ==
  ASSUME PlacementInv, PlacementInv', BooksInv,
         placed' = placed, army' = army, NEW d \in Int, NEW e \in Int, d <= e,
         funds' = funds + d, balance' = balance + d, creditDebt' = creditDebt + e
  PROVE  BooksInv' /\ NoFreeMoneyStep
<1>1. placed \in Seq(Purchase) /\ funds \in Int /\ creditDebt \in Int
      /\ army \in SUBSET Picture
  BY DEF PlacementInv, PlacesTyped
<1>2. TotalPaid \in Int /\ TotalPaid' = TotalPaid
  BY <1>1, SumPaidOver DEF TotalPaid
<1>3. SumWorth(army) \in Int /\ balance \in Int /\ funds = balance - TotalPaid
  BY <1>1, SumWorthIsInt DEF BooksInv, Books
<1>4. balance' \in Int /\ funds' = balance' - TotalPaid'
  BY <1>1, <1>2, <1>3
<1>5. Wealth' = funds' + TotalPaid - creditDebt' + SumWorth(army)
      /\ Wealth = funds + TotalPaid - creditDebt + SumWorth(army)
  BY <1>2 DEF Wealth
<1>6. Wealth' <= Wealth
  BY <1>1, <1>2, <1>3, <1>5
<1> QED  BY <1>4, <1>6 DEF BooksInv, Books, NoFreeMoneyStep

\* Every step keeps the books, and no click within a placement makes rich.
LEMMA MoneyMoves ==
  ASSUME CostAssumption, PlacementInv, BooksInv, [Next]_vars
  PROVE  BooksInv' /\ NoFreeMoneyStep
<1> USE DEF wallet, market, shop, board, mode, match, field
<1>0. /\ placed \in Seq(Purchase) /\ funds \in Int /\ creditDebt \in {0, 150}
      /\ army \in SUBSET Picture /\ cost \in [Type -> Nat]
      /\ active \in Type \cup {NoType} /\ sent \in SUBSET Station
      /\ lostRounds \in Nat /\ round \in Nat
  BY DEF PlacementInv, PlacesTyped
<1>1. PlacementInv'
  BY PlacementGoesOn
<1>2. balance \in Int /\ IsFiniteSet(army) /\ funds = balance - TotalPaid
  BY DEF BooksInv, Books
<1>3. SumWorth(army) \in Int /\ TotalPaid \in Int
  BY <1>0, <1>2, SumWorthIsInt, SumPaidOver DEF TotalPaid
<1>4. placed' \in Seq(Purchase) /\ funds' \in Int /\ creditDebt' \in {0, 150}
  BY <1>1 DEF PlacementInv, PlacesTyped
<1>19. Wealth = funds + TotalPaid - creditDebt + SumWorth(army)
  BY DEF Wealth
<1>5. CASE SelectStartingUnits
  <2>1. PICK o \in StartOption : /\ funds' = funds + o.gold - creditDebt
                                 /\ balance' = balance + o.gold - creditDebt
    BY <1>5 DEF SelectStartingUnits
  <2>2. o.gold \in Int
    BY DEF CostAssumption
  <2>3. /\ balance' \in Int /\ placed' = placed /\ army' = army
        /\ funds' = balance' - TotalPaid /\ state # "PlaceUnits"
    BY <1>0, <1>2, <1>3, <1>5, <2>1, <2>2 DEF SelectStartingUnits
  <2> QED  BY <1>2, <2>3 DEF BooksInv, Books, TotalPaid, NoFreeMoneyStep
<1>6. ASSUME UNCHANGED <<funds, creditDebt, balance, placed, army>>
      PROVE  BooksInv' /\ NoFreeMoneyStep
  <2>1. funds' = funds + 0 /\ balance' = balance + 0 /\ creditDebt' = creditDebt + 0
    BY <1>0, <1>2, <1>6
  <2> QED  BY <1>1, <1>6, <2>1, OtherMoney
<1>7. CASE \E t \in Type : ChooseType(t) \/ SelectUnit(t)
  BY <1>6, <1>7 DEF ChooseType, SelectUnit
<1>8. CASE RightClick \/ StartSelling \/ StopSelling \/ EndMatch
  BY <1>6, <1>8 DEF RightClick, StartSelling, StopSelling, EndMatch
<1>9. CASE \E t \in Type : Unlock(t)
  <2>1. PICK t \in Type : Unlock(t)
    BY <1>9
  <2>2. PICK c \in Nat : c = UnlockCost[t]
    BY DEF CostAssumption
  <2>3. /\ funds' = funds - c /\ balance' = balance - c
        /\ creditDebt' = creditDebt /\ placed' = placed /\ army' = army
    BY <2>1, <2>2 DEF Unlock
  <2>4. PICK d \in Int : d <= 0 /\ funds' = funds + d /\ balance' = balance + d
                          /\ creditDebt' = creditDebt + 0
    <3>1. PICK d \in Int : d = 0 - c
      OBVIOUS
    <3>2. d <= 0 /\ funds' = funds + d /\ balance' = balance + d
          /\ creditDebt' = creditDebt + 0
      BY <1>0, <1>2, <2>3, <3>1
    <3> QED  BY <3>2
  <2> QED  BY <1>1, <2>3, <2>4, OtherMoney
<1>10. CASE \E g \in Upgrade : BuyUpgrade(g)
  <2>1. PICK g \in Upgrade : BuyUpgrade(g)
    BY <1>10
  <2>2. PICK c \in Nat : c = g.cost
    BY DEF CostAssumption
  <2>3. /\ funds' = funds - c /\ balance' = balance - c
        /\ creditDebt' = creditDebt /\ placed' = placed /\ army' = army
    BY <2>1, <2>2 DEF BuyUpgrade
  <2>4. PICK d \in Int : d <= 0 /\ funds' = funds + d /\ balance' = balance + d
                          /\ creditDebt' = creditDebt + 0
    <3>1. PICK d \in Int : d = 0 - c
      OBVIOUS
    <3>2. d <= 0 /\ funds' = funds + d /\ balance' = balance + d
          /\ creditDebt' = creditDebt + 0
      BY <1>0, <1>2, <2>3, <3>1
    <3> QED  BY <3>2
  <2> QED  BY <1>1, <2>3, <2>4, OtherMoney
<1>11. CASE TakeCredit
  <2>1. /\ funds' = funds + 100 /\ balance' = balance + 100
        /\ creditDebt' = creditDebt + 150 /\ placed' = placed /\ army' = army
    BY <1>11 DEF TakeCredit
  <2> QED  BY <1>1, <2>1, OtherMoney
<1>12. CASE \E f \in Field, shift \in BOOLEAN : PlaceUnit(f, shift)
  <2>1. PICK f \in Field, shift \in BOOLEAN : PlaceUnit(f, shift)
    BY <1>12
  <2> DEFINE u == [id |-> nextId, type |-> active, field |-> f,
                   paid |-> cost[active]]
  <2>2. /\ placed' = Append(placed, u) /\ funds' = funds - cost[active]
        /\ creditDebt' = creditDebt /\ balance' = balance /\ army' = army
    BY <2>1 DEF PlaceUnit
  <2>3. Len(placed') = Len(placed) + 1 /\ placed'[Len(placed')] = u
        /\ \A i \in 1..Len(placed) : placed'[i] = placed[i]
    BY <1>0, <2>2
  <2>4. u \in Purchase
    <3>1. Len(placed') \in 1..Len(placed')
      BY <1>0, <2>3
    <3> HIDE DEF u
    <3> QED  BY <1>4, <2>3, <3>1
  <2>5. u.paid = cost[active] /\ u.paid \in Int
    BY <2>4 DEF Purchase
  <2>6. SumPaid(placed') = SumPaid(placed) + u.paid
    <3> HIDE DEF u
    <3> QED  BY <1>0, <1>4, <2>3, <2>4, SumPaidOfOneMore
  <2>7. PICK c \in Int : c = cost[active] /\ TotalPaid' = TotalPaid + c
    BY <2>5, <2>6 DEF TotalPaid
  <2>11. funds' = funds - c /\ balance' = balance
    BY <2>2, <2>7
  <2>8. funds' = balance' - TotalPaid'
    BY <1>0, <1>2, <1>3, <2>7, <2>11
  <2>9. Wealth' = funds' + TotalPaid' - creditDebt + SumWorth(army)
    BY <2>2 DEF Wealth
  <2>10. Wealth' <= Wealth
    <3>1. funds \in Int /\ creditDebt \in Int /\ TotalPaid' = TotalPaid + c
      BY <1>0, <2>7
    <3> HIDE DEF u
    <3> QED  BY <1>3, <1>19, <2>9, <2>11, <3>1
  <2> QED  BY <1>2, <2>2, <2>8, <2>10 DEF BooksInv, Books, NoFreeMoneyStep
<1>13. CASE Undo
  <2>1. placed # <<>>
    BY <1>13 DEF Undo
  <2>2. PICK u \in Purchase : u = Last(placed)
    BY <1>0, <2>1, FrontAndLast
  <2>3. /\ placed' = Front(placed) /\ funds' = funds + u.paid
        /\ creditDebt' = creditDebt /\ balance' = balance /\ army' = army
    BY <1>13, <2>2 DEF Undo
  <2>4. PICK c \in Int : c = u.paid
    BY DEF Purchase
  <2>10. funds' = funds + c /\ balance' = balance
    BY <2>3, <2>4
  <2>5. SumPaid(placed) = SumPaid(placed') + u.paid
    <3>1. /\ Len(placed) \in Nat /\ placed[Len(placed)] = u
          /\ DOMAIN placed' = 1..(Len(placed) - 1) /\ Len(placed) >= 1
          /\ \A i \in 1..(Len(placed) - 1) : placed'[i] = placed[i]
      BY <1>0, <2>1, <2>2, <2>3, FrontAndLast
    <3>2. Len(placed) = Len(placed') + 1
      BY <1>0, <1>4, <3>1
    <3>3. \A i \in 1..Len(placed') : placed[i] = placed'[i]
      BY <3>1, <3>2, <1>4
    <3> QED  BY <1>0, <1>4, <3>1, <3>2, <3>3, SumPaidOfOneMore
  <2>6. TotalPaid' \in Int /\ TotalPaid = TotalPaid' + c
    BY <1>4, <2>4, <2>5, SumPaidOver DEF TotalPaid
  <2>7. funds' = balance' - TotalPaid'
    BY <1>0, <1>2, <1>3, <2>6, <2>10
  <2>8. Wealth' = funds' + TotalPaid' - creditDebt + SumWorth(army)
    BY <2>3 DEF Wealth
  <2>9. Wealth' <= Wealth
    BY <1>0, <1>3, <1>19, <2>6, <2>8, <2>10
  <2> QED  BY <1>2, <2>3, <2>7, <2>9 DEF BooksInv, Books, NoFreeMoneyStep
<1>14. CASE \E u \in army : Sell(u)
  <2>1. PICK u \in army : Sell(u)
    BY <1>14
  <2>2. /\ army' = army \ {u} /\ funds' = funds + u.worth
        /\ balance' = balance + u.worth /\ creditDebt' = creditDebt
        /\ placed' = placed
    BY <2>1 DEF Sell
  <2>3. u.worth \in Int
    BY <1>0 DEF Picture
  <2>4. IsFiniteSet(army') /\ army' \in SUBSET Picture
    BY <1>0, <1>2, <2>2, FS_Subset
  <2>5. SumWorth(army) = u.worth + SumWorth(army')
    BY <1>0, <1>2, <2>2, SumWorthOfOneLess
  <2>6. SumWorth(army') \in Int
    BY <2>4, SumWorthIsInt
  <2>7. TotalPaid' = TotalPaid
    BY <2>2 DEF TotalPaid
  <2>8. funds' = balance' - TotalPaid' /\ balance' \in Int
    BY <1>0, <1>2, <1>3, <2>2, <2>3, <2>7
  <2>9. Wealth' = funds' + TotalPaid - creditDebt + SumWorth(army')
    BY <2>2, <2>7 DEF Wealth
  <2>10. Wealth' <= Wealth
    <3>1. PICK c \in Int : c = u.worth
      BY <2>3
    <3>2. PICK s \in Int : s = SumWorth(army')
      BY <2>6
    <3>3. funds' = funds + c /\ SumWorth(army) = c + s
      BY <2>2, <2>5, <3>1, <3>2
    <3>4. Wealth' = funds + c + TotalPaid - creditDebt + s
      BY <2>9, <3>2, <3>3
    <3>5. Wealth = funds + TotalPaid - creditDebt + (c + s)
      BY <1>19, <3>3
    <3> QED  BY <1>0, <1>3, <3>4, <3>5
  <2> QED  BY <2>4, <2>8, <2>10 DEF BooksInv, Books, NoFreeMoneyStep
<1>15. CASE EndPlacement
  <2>1. /\ placed' = <<>> /\ balance' = balance - TotalPaid /\ funds' = funds
        /\ army' = army /\ state' # "PlaceUnits"
    BY <1>15 DEF EndPlacement
  <2>2. TotalPaid' = 0
    BY <2>1, SumPaidOfNone DEF TotalPaid
  <2>3. funds' = balance' - TotalPaid' /\ balance' \in Int
    BY <1>0, <1>2, <1>3, <2>1, <2>2
  <2> QED  BY <1>2, <2>1, <2>3 DEF BooksInv, Books, NoFreeMoneyStep
<1>16. CASE StartPlayback
  <2>1. IsFiniteSet(sent)
    BY DEF PlacementInv, Counted
  <2>2. army' = {[id |-> u.id, type |-> u.type, field |-> u.field,
                  worth |-> cost[u.type]] : u \in sent}
    BY <1>16 DEF StartPlayback
  <2> DEFINE picture == [u \in sent |-> [id |-> u.id, type |-> u.type,
                           field |-> u.field, worth |-> cost[u.type]]]
  <2>3. army' = {picture[u] : u \in sent}
    BY <2>2
  <2>4. IsFiniteSet(army')
    <3>1. picture \in Surjection(sent, army')
      BY <2>3 DEF Surjection
    <3> HIDE DEF picture
    <3> QED  BY <2>1, <3>1, FS_Surjection
  <2>5. UNCHANGED <<funds, balance, placed>> /\ state' # "PlaceUnits"
    BY <1>16 DEF StartPlayback
  <2> QED  BY <1>2, <2>4, <2>5 DEF BooksInv, Books, TotalPaid, NoFreeMoneyStep
<1>17. CASE EndPlayback
  <2>1. PICK lost \in BOOLEAN :
          LET n == IF lost THEN lostRounds + 1 ELSE 0
              bonus == IF n >= RequiredLostRounds THEN LoserBonus ELSE 0
              income == Income(round + 1) - creditDebt + bonus
          IN funds' = funds + income /\ balance' = balance + income
    BY <1>17 DEF EndPlayback
  <2>2. PICK income \in Int : funds' = funds + income /\ balance' = balance + income
    <3>1. Income(round + 1) \in Nat
      BY <1>0 DEF Income
    <3> QED  BY <1>0, <2>1, <3>1 DEF LoserBonus
  <2>3. UNCHANGED <<army, placed>> /\ state # "PlaceUnits"
    BY <1>17 DEF EndPlayback
  <2>4. TotalPaid' = TotalPaid
    BY <2>3 DEF TotalPaid
  <2>5. funds' = balance' - TotalPaid' /\ balance' \in Int
    BY <1>0, <1>2, <1>3, <2>2, <2>4
  <2> QED  BY <1>2, <2>3, <2>5 DEF BooksInv, Books, NoFreeMoneyStep
<1>18. CASE UNCHANGED vars
  BY <1>6, <1>18 DEF vars
<1> QED
  BY <1>5, <1>7, <1>8, <1>9, <1>10, <1>11, <1>12, <1>13, <1>14, <1>15, <1>16,
     <1>17, <1>18 DEF Next

LEMMA BooksBegin ==
  ASSUME Init
  PROVE  BooksInv
<1>1. funds = 0 /\ balance = 0 /\ placed = <<>> /\ army = {}
  BY DEF Init
<1>2. TotalPaid = 0
  BY <1>1, SumPaidOfNone DEF TotalPaid
<1>3. IsFiniteSet(army)
  BY <1>1, FS_EmptySet
<1> QED  BY <1>1, <1>2, <1>3 DEF BooksInv, Books

\* m_availableFunds is the income less the expenses and less what was paid for
\* the units placed, which the units themselves remember, in whatever order
\* prices rise and purchases are undone.
THEOREM TheBooksBalance ==
  ASSUME CostAssumption
  PROVE  Spec => []Books
<1>1. Init => BooksInv  BY BooksBegin
<1>2. PlacementInv /\ BooksInv /\ [Next]_vars => BooksInv'  BY MoneyMoves
<1>3. BooksInv => Books  BY DEF BooksInv
<1> QED  BY <1>1, <1>2, <1>3, PlacementInvariance, PTL DEF Spec

\* No click within a placement, an undone purchase, a unit sold or a credit
\* included, makes a player richer.
THEOREM NobodyGetsRich ==
  ASSUME CostAssumption
  PROVE  Spec => NoFreeMoney
<1>1. Init => BooksInv  BY BooksBegin
<1>2. PlacementInv /\ BooksInv /\ [Next]_vars => BooksInv' /\ NoFreeMoneyStep
  BY MoneyMoves
<1>3. PlacementInv /\ BooksInv /\ [Next]_vars => [NoFreeMoneyStep]_vars
  BY <1>2
<1> QED  BY <1>1, <1>2, <1>3, PlacementInvariance, PTL DEF Spec, NoFreeMoney

\* All accounts of a placement are true, whatever is clicked.
THEOREM AccountsAreTrue ==
  ASSUME CostAssumption
  PROVE  Spec => []Accounts
<1>1. /\ FundsNeverNegative /\ Books /\ PriceFollowsPurchases /\ FieldsMatchUnits
      /\ SellingExcludesSelection /\ PlacementInv
      => Accounts
  BY DEF Accounts
<1> QED
  BY <1>1, PlacementInvariance, NobodyPlaysOnDebt, TheBooksBalance,
     PricesNeverDrift, FieldsAreTrue, SellingIsExclusive, PTL
=============================================================================
