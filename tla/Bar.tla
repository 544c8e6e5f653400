-------------------------------- MODULE Bar --------------------------------
(* The progress bars of the engine (jt::Bar) as the game uses them: one      *)
(* above every unit (Unit::doUpdate and doDraw) and a single one that        *)
(* StateGame::onDraw moves from barrier to barrier.  Hit points are whole    *)
(* numbers; what a bar shows is the pair of its value and its maximum at the *)
(* last update.                                                              *)
EXTENDS Integers, Sequences, SequencesExt

CONSTANTS
    HpMax,          \* the most hit points a unit type can get by upgrades
    BaseHp,         \* the hit points of the unit's type without upgrades
    BarrierHp,      \* hpMax of each barrier of the round, in their order
    Nothing         \* no bar is drawn

BarAssumption ==
    /\ BaseHp \in Nat \ {0} /\ HpMax \in Nat /\ BaseHp <= HpMax
    /\ BarrierHp \in Seq(Nat \ {0})

VARIABLES
    hp, hpMax,      \* m_hp and m_hpMax of the unit
    bar,            \* the bar of the unit
    drawn,          \* what the bar of the unit showed in the last frame
    grown,          \* did m_hpMax change in the last frame
    barriers,       \* hpCurrent of the barriers the simulation reports
    barrierBar,     \* m_barrierBar
    barriersDrawn   \* what it showed for each barrier in the last frame

vars == <<hp, hpMax, bar, drawn, grown, barriers, barrierBar, barriersDrawn>>

-----------------------------------------------------------------------------
(* The constructor of jt::Bar. *)
NewBar == [max |-> 1, current |-> 0, shown |-> <<0, 1>>]

(* Bar::setCurrentValue keeps to the maximum the bar has now. *)
SetCurrentValue(b, v) ==
    [b EXCEPT !.current = IF v < 0 THEN 0 ELSE IF v > b.max THEN b.max ELSE v]

(* Bar::setMaxValue does not look at the current value again. *)
SetMaxValue(b, m) == [b EXCEPT !.max = m]

(* Bar::doUpdate: the progress shape is scaled by the fraction. *)
UpdateBar(b) == [b EXCEPT !.shown = <<b.current, b.max>>]

(* A mutant: the bar is updated before it is set. *)
UnitBarLate(b, h, m) == SetMaxValue(SetCurrentValue(UpdateBar(b), h), m)
(* A mutant: its maximum is not set. *)
UnitBarOldMax(b, h, m) == UpdateBar(SetCurrentValue(b, h))

(* Unit::doUpdate: the bar part. *)
UnitBar(b, h, m) == UpdateBar(SetMaxValue(SetCurrentValue(b, h), m))

(* Unit::doDraw: no bar over a dead unit or one without a scratch. *)
Draws(h, m) == h > 0 /\ h < m

(* StateGame::onDraw: one bar for all barriers, set, updated and drawn for   *)
(* each in turn.                                                             *)
DrawBarrier(acc, i) ==
    LET b == UpdateBar(SetCurrentValue(SetMaxValue(acc.bar, BarrierHp[i]), acc.hps[i])) IN
    IF Draws(acc.hps[i], BarrierHp[i])
    THEN [acc EXCEPT !.bar = b, !.drawn[i] = b.shown]
    ELSE acc

(* One frame of playback: what the simulation says of the unit (if it says   *)
(* anything) and of the barriers, then the update, then the drawing.         *)
Frame(h, m, bs) ==
    LET b == UnitBar(bar, h, m)
        d == FoldLeft(DrawBarrier,
                 [bar |-> barrierBar, hps |-> bs, drawn |-> [i \in DOMAIN bs |-> Nothing]],
                 [i \in DOMAIN bs |-> i])
    IN
    /\ hp' = h /\ hpMax' = m
    /\ bar' = b
    /\ drawn' = IF Draws(h, m) THEN b.shown ELSE Nothing
    /\ grown' = (m # hpMax)
    /\ barriers' = bs
    /\ barrierBar' = d.bar /\ barriersDrawn' = d.drawn

(* A frame without news of the simulation. *)
QuietFrame == Frame(hp, hpMax, barriers)

(* Unit::updateState comes first: upgrades only ever raise the maximum.      *)
NewsFrame(m, h, bs) == m >= hpMax /\ h <= m /\ Frame(h, m, bs)

(* Unit::doCreate. *)
Init ==
    /\ hp = BaseHp /\ hpMax = BaseHp
    /\ bar = SetMaxValue(NewBar, BaseHp)
    /\ drawn = Nothing /\ grown = FALSE
    /\ barriers = BarrierHp
    /\ barrierBar = NewBar
    /\ barriersDrawn = [i \in DOMAIN BarrierHp |-> Nothing]

BarrierStates == {bs \in [DOMAIN BarrierHp -> 0 .. HpMax] :
                    \A i \in DOMAIN bs : bs[i] <= BarrierHp[i]}

Next ==
    \/ QuietFrame
    \/ \E m, h \in 0 .. HpMax, bs \in BarrierStates : NewsFrame(m, h, bs)

Spec == Init /\ [][Next]_vars

-----------------------------------------------------------------------------
Fractions == {Nothing} \cup ((0 .. HpMax) \X (0 .. HpMax))

(* Every variable keeps to its type. *)
TypeOK ==
    /\ hp \in 0 .. HpMax /\ hpMax \in BaseHp .. HpMax
    /\ bar.current \in 0 .. HpMax /\ bar.max \in 1 .. HpMax
    /\ drawn \in Fractions /\ grown \in BOOLEAN
    /\ barriers \in BarrierStates
    /\ \A i \in DOMAIN barriersDrawn : barriersDrawn[i] \in Fractions

(* The bar over a unit tells the truth from the second frame on with the     *)
(* same maximum, although its value is set before its maximum and so is cut  *)
(* off at the maximum of the frame before.                                   *)
UnitBarTrue == (drawn # Nothing /\ ~grown) => drawn[1] * hpMax = hp * drawn[2]

(* In the one frame in which an upgrade shows for the first time, the bar    *)
(* makes the unit look worse than it is, never better, and it is never more  *)
(* than full.                                                                *)
UnitBarModest == drawn # Nothing =>
    /\ drawn[1] * hpMax <= hp * drawn[2]
    /\ drawn[1] <= drawn[2]

=============================================================================
