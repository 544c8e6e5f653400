------------------------------- MODULE Hover -------------------------------
(* What the pointer shows while a player places units, frame by frame: the   *)
(* field on offer and the unit that would stand there (PlacementManager),    *)
(* the glow of the selected type, the tooltips and the circle of the range   *)
(* (PlaceUnits, CommonFunctions).  Module Placement has the money and the    *)
(* rounds: here the player can always pay.  Each click goes through the two  *)
(* objects that see it, one after the other.  The map is one column of       *)
(* fields, two points high each; a unit on high ground is drawn one point    *)
(* further up.                                                               *)
EXTENDS Integers, Sequences, SequencesExt, FiniteSets

CONSTANTS
    Type,           \* types of units
    CloseCombat,    \* those that fight hand to hand
    Fields,         \* the fields of the map: 1 .. n
    Area,           \* those of the player's placement areas
    High,           \* those on high ground
    MaxUnits        \* bound on the units on the map

None == "none"
Away == 0           \* position (-9999, -9999)

HoverAssumption ==
    /\ None \notin Type /\ CloseCombat \subseteq Type
    /\ Away \notin Fields /\ Area \subseteq Fields /\ High \subseteq Fields
    /\ MaxUnits \in Nat

(* The points of the screen, the field at a point, the points of a picture.  *)
Points == UNION {{2 * f, 2 * f + 1} : f \in Fields}
FieldAt(m) == m \div 2
Rect(f) == IF f \in High THEN {2 * f - 1, 2 * f} ELSE {2 * f, 2 * f + 1}

VARIABLES
    phase,          \* "placing" or "waiting" for the simulation
    army,           \* StateGame::m_units
    placed,         \* PlacementManager::m_placedUnits
    sent,           \* units the server was told of at the end of the phase
    active,         \* m_activeUnitType
    selected,       \* PlaceUnits::m_selectedUnitType
    offer,          \* where m_fieldHighlight is, and the image of the active type
    tooltips,       \* units whose tooltip was drawn last
    ranges          \* circles drawn last: type and field

lists == <<army, placed, sent>>
shown == <<offer, tooltips, ranges>>
vars == <<phase, lists, active, selected, shown>>

Unit(t, f, mine) == [type |-> t, field |-> f, mine |-> mine, glow |-> FALSE]

(* A unit of the opponent may stand beyond the player's areas.               *)
Opponents == {<<>>} \cup {<<Unit(t, f, FALSE)>> : t \in Type, f \in Fields \ Area}

(* PlaceUnits is entered.                                                    *)
Init ==
    /\ phase = "placing" /\ army \in Opponents /\ placed = <<>> /\ sent = <<>>
    /\ active = None /\ selected = None
    /\ offer = Away
    /\ tooltips = {} /\ ranges = {}

(* m_placedUnitsMap: the fields of the player's units.                       *)
Taken(a, p) ==
    LET all == a \o sent \o p IN {all[i].field : i \in {j \in DOMAIN all : all[j].mine}}

(* canUnitBePlacedInField.                                                   *)
CanBePlaced(f, a, p) == f \in Area \ Taken(a, p)

(* isMouseOver.                                                              *)
Hovers(m, u) == m \in Rect(u.field)

(* The first unit of a list that has the property, if any.                   *)
First(list, Test(_)) ==
    LET i == SelectInSeq(list, Test) IN IF i = 0 THEN {} ELSE {list[i]}

-----------------------------------------------------------------------------
(* Mutant: the glow of the type selected before stays on.                    *)
HighlightedToo(list, type) ==
    [i \in DOMAIN list |-> IF list[i].mine /\ list[i].type = type
                           THEN [list[i] EXCEPT !.glow = TRUE] ELSE list[i]]

(* doHighlight of one list.                                                  *)
Highlighted(list, type) ==
    [i \in DOMAIN list |-> IF list[i].mine THEN [list[i] EXCEPT !.glow = list[i].type = type]
                                           ELSE list[i]]

(* selectUnit over both lists: a unit just placed takes the selection from   *)
(* one that stood there.                                                     *)
Selected(m, a, p) ==
    LET mineHere(u) == u.mine /\ Hovers(m, u)
        hit == IF First(p, mineHere) # {} THEN First(p, mineHere) ELSE First(a, mineHere)
    IN IF hit = {} THEN selected ELSE (CHOOSE u \in hit : TRUE).type

(* drawUnitTooltips: the first unit of each list.                            *)
Tooltips(m, a, p) == First(a, LAMBDA u : Hovers(m, u)) \cup First(p, LAMBDA u : Hovers(m, u))

Circle(t, f) == [type |-> t, field |-> f]

(* Mutant: a unit that fights hand to hand is given a circle, too.           *)
RangesOfAll(m, t, a, p) ==
    IF t \notin {None} \cup CloseCombat /\ CanBePlaced(FieldAt(m), a, p)
    THEN {Circle(t, FieldAt(m))}
    ELSE {Circle(u.type, u.field) :
            u \in First(a, LAMBDA v : Hovers(m, v)) \cup First(p, LAMBDA v : Hovers(m, v))}

(* drawRangeIndicator: of the type to be placed here, or else of the first   *)
(* unit in each list that is under the pointer and shoots.                   *)
Ranges(m, t, a, p) ==
    IF t \notin {None} \cup CloseCombat /\ CanBePlaced(FieldAt(m), a, p)
    THEN {Circle(t, FieldAt(m))}
    ELSE LET shoots(u) == Hovers(m, u) /\ u.type \notin CloseCombat
         IN {Circle(u.type, u.field) : u \in First(a, shoots) \cup First(p, shoots)}

-----------------------------------------------------------------------------
(* placeUnit: what it leaves of the placed units.  Its first check, of the   *)
(* funds, which ends the active type, is left to Placement: Hover is played  *)
(* by somebody who can pay.                                                  *)
Placed(m, left, p) ==
    IF active # None /\ left /\ CanBePlaced(FieldAt(m), army, p) /\ Len(army) + Len(sent) + Len(p) < MaxUnits
    THEN Append(p, Unit(active, FieldAt(m), TRUE)) ELSE p

(* Mutant: the offer is worked out before the click is.                      *)
OfferBefore(f, p) == IF CanBePlaced(f, army, placed) THEN f ELSE Away

(* The rest of doUpdate: the offer for the units that are placed now.        *)
Offer(f, p) == IF CanBePlaced(f, army, p) THEN f ELSE Away

(* PlacementManager::doUpdate: what it leaves.                               *)
ManagerUpdated(m, left, right, shift) ==
    LET p == Placed(m, left, placed)
        type == IF right \/ (p # placed /\ ~shift) THEN None ELSE active
        place == Offer(FieldAt(m), p)
    IN [placed |-> p, active |-> type, offer |-> place]

(* Mutant: only the units of former rounds are highlighted.                  *)
NewUnitsHighlighted(list, type) == list

NewUnits(list, type) == Highlighted(list, type)

(* A frame while units are placed: the manager, PlaceUnits::update and what  *)
(* is drawn.  A right click ends the selection after the glow is set.        *)
PlacingFrame == \E m \in Points, left, right, shift \in BOOLEAN :
    /\ phase = "placing"
    /\ LET manager == ManagerUpdated(m, left, right, shift)
           chosen == IF left THEN Selected(m, army, manager.placed) ELSE selected
       IN /\ active' = manager.active /\ offer' = manager.offer
          /\ placed' = NewUnits(manager.placed, chosen)
          /\ army' = Highlighted(army, chosen)
          /\ selected' = IF right THEN None ELSE chosen
          /\ tooltips' = Tooltips(m, army', placed')
          /\ ranges' = Ranges(m, active', army', placed')
    /\ UNCHANGED <<phase, sent>>

(* A frame while the results are awaited: the manager goes on, the selection *)
(* does not, and only tooltips are drawn.                                    *)
WaitingFrame == \E m \in Points, left, right, shift \in BOOLEAN :
    /\ phase = "waiting"
    /\ LET manager == ManagerUpdated(m, left, right, shift)
       IN /\ active' = manager.active /\ offer' = manager.offer
          /\ placed' = manager.placed
    /\ tooltips' = Tooltips(m, army, placed')
    /\ ranges' = {}
    /\ UNCHANGED <<phase, army, sent, selected>>

(* The button of a type, drawn with the manager.                             *)
ChooseType == \E t \in Type :
    /\ phase = "placing" /\ active' = t
    /\ UNCHANGED <<phase, lists, selected, shown>>

(* The loops of the transition.                                              *)
Dimmed(list) == [i \in DOMAIN list |-> [list[i] EXCEPT !.glow = FALSE]]

(* The button "end placement" and its transition.                            *)
EndPlacement ==
    /\ phase = "placing" /\ phase' = "waiting"
    /\ sent' = placed /\ placed' = <<>>
    /\ army' = Dimmed(army)
    /\ UNCHANGED <<active, selected, shown>>

(* The next round: startPlayback made all units anew; those placed while the *)
(* player waited are still only placed.                                      *)
NextRound ==
    /\ phase = "waiting" /\ phase' = "placing"
    /\ army' = Dimmed(army \o sent) /\ sent' = <<>>
    /\ UNCHANGED <<placed, active, selected, shown>>

Next == PlacingFrame \/ WaitingFrame \/ ChooseType \/ EndPlacement \/ NextRound

Spec == Init /\ [][Next]_vars

-----------------------------------------------------------------------------
Everyone == {army[i] : i \in DOMAIN army} \cup {placed[i] : i \in DOMAIN placed}

(* The variables have their types, and no two units of the player share a    *)
(* field, over the rounds.                                                   *)
TypeOK ==
    /\ phase \in {"placing", "waiting"}
    /\ \A u \in Everyone : u.type \in Type /\ u.field \in Fields
    /\ active \in Type \cup {None} /\ selected \in Type \cup {None}
    /\ offer \in Fields \cup {Away}
    /\ ranges \subseteq [type : Type, field : Fields]
    /\ LET all == army \o sent \o placed IN \A i, j \in DOMAIN all :
         i # j /\ all[i].mine /\ all[j].mine => all[i].field # all[j].field

(* After a frame the highlight marks a field only if a click there would     *)
(* place a unit: not the field a unit was placed on in the same frame.       *)
OfferIsGoodStep ==
  PlacingFrame \/ WaitingFrame =>
    (offer' # Away => offer' \in Area \ Taken(army', placed'))
OfferIsGood == [][OfferIsGoodStep]_vars

(* All units of the player of one type glow or none does, those of this      *)
(* round and of former ones alike, and the opponent's never do.              *)
GlowsTogether == phase = "placing" => \A u, v \in Everyone :
    /\ u.glow => u.mine
    /\ u.glow /\ v.glow => u.type = v.type

(* After a frame, a unit of the type that glows is not left dark.            *)
NoneLeftDarkStep ==
  PlacingFrame => \A u, v \in Everyone' :
    u.glow /\ v.mine /\ v.type = u.type => v.glow
NoneLeftDark == [][NoneLeftDarkStep]_vars

(* A circle is only drawn around a unit that shoots; and while such a unit   *)
(* is about to be placed, around no other.                                   *)
CirclesOfShootersStep ==
  PlacingFrame =>
    /\ \A c \in ranges' : c.type \notin CloseCombat
    /\ active' \notin {None} \cup CloseCombat /\ offer' # Away =>
         ranges' = {Circle(active', offer')}
CirclesOfShooters == [][CirclesOfShootersStep]_vars

=============================================================================
