---------------------------- MODULE RoundProtocol ---------------------------
(***************************************************************************)
(* What a match promises its players, independently of sockets, messages   *)
(* and threads.  Players prepare their armies at their own pace; a round   *)
(* is fought once every player has handed in an army for it, with exactly  *)
(* these armies; every player sees every round before preparing the next.  *)
(***************************************************************************)
EXTENDS Integers, TLAPS

CONSTANTS Player, UnitId, MaxRounds

VARIABLES
  submitted,   \* rounds for which each player has handed in an army
  army,        \* each player's units, by the armies handed in so far
  fought,      \* rounds fought so far
  battle,      \* the armies of the last round fought
  seen,        \* rounds each player has seen
  view         \* the armies in the last round each player has seen

protocolVars == <<submitted, army, fought, battle, seen, view>>

None == [p \in Player |-> {}]

Init ==
  /\ submitted = [p \in Player |-> 0] /\ army = None
  /\ fought = 0 /\ battle = None
  /\ seen = [p \in Player |-> 0] /\ view = [p \in Player |-> None]

\* A player who has seen all rounds it took part in places and sells units.
Submit(p) ==
  /\ submitted[p] = seen[p]
  /\ submitted[p] < MaxRounds
  /\ submitted' = [submitted EXCEPT ![p] = @ + 1]
  /\ \E placed, sold \in SUBSET UnitId :
       army' = [army EXCEPT ![p] = (@ \cup placed) \ sold]
  /\ UNCHANGED <<fought, battle, seen, view>>

Fight ==
  /\ \A p \in Player : submitted[p] = fought + 1
  /\ fought' = fought + 1
  /\ battle' = army
  /\ UNCHANGED <<submitted, army, seen, view>>

See(p) ==
  /\ seen[p] < fought
  /\ seen' = [seen EXCEPT ![p] = @ + 1]
  /\ view' = [view EXCEPT ![p] = battle]
  /\ UNCHANGED <<submitted, army, fought, battle>>

Next == Fight \/ \E p \in Player : Submit(p) \/ See(p)

\* Players may take as long as they like, the rounds may not.
Fairness == WF_protocolVars(Fight) /\ \A p \in Player : WF_protocolVars(See(p))

Spec == Init /\ [][Next]_protocolVars /\ Fairness
-----------------------------------------------------------------------------
(* What the protocol gives its players                                      *)

\* Nobody is a round ahead: who has not handed in an army for the next round
\* waits for the others, and who has not seen a round does not hand one in.
InStep ==
  \A p \in Player : /\ seen[p] <= fought /\ fought <= submitted[p]
                    /\ submitted[p] <= seen[p] + 1

\* Players who have seen the same rounds have seen the same armies fight.
SameBattle == \A p, q \in Player : seen[p] = seen[q] => view[p] = view[q]

\* A player who has seen all its rounds has seen its own army in the last one.
OwnArmySeen == \A p \in Player : seen[p] = submitted[p] => view[p][p] = army[p]

Promise == InStep /\ SameBattle /\ OwnArmySeen

ProtocolTypeOK ==
  /\ submitted \in [Player -> Nat] /\ seen \in [Player -> Nat] /\ fought \in Nat
  /\ army \in [Player -> SUBSET UnitId] /\ battle \in [Player -> SUBSET UnitId]
  /\ view \in [Player -> [Player -> SUBSET UnitId]]

\* The last battle was fought by the armies handed in for it, and who has seen
\* it has that battle in view.
LastBattle == \A p \in Player : /\ submitted[p] = fought => army[p] = battle[p]
                                /\ seen[p] = fought => view[p] = battle

\* The inductive invariant.
PromiseInv == ProtocolTypeOK /\ LastBattle /\ Promise

LEMMA InitPromise == Init => PromiseInv
BY DEF Init, None, PromiseInv, ProtocolTypeOK, LastBattle, Promise, InStep,
       SameBattle, OwnArmySeen

\* Where a player stands, as numbers.
LEMMA Standing ==
  ASSUME PromiseInv, NEW p \in Player
  PROVE  /\ seen[p] \in Nat /\ submitted[p] \in Nat /\ fought \in Nat
         /\ seen[p] <= fought /\ fought <= submitted[p]
         /\ submitted[p] <= seen[p] + 1
BY DEF PromiseInv, Promise, ProtocolTypeOK, InStep

LEMMA SubmitKeeps ==
  ASSUME PromiseInv, NEW p \in Player, Submit(p)
  PROVE  PromiseInv'
<1> USE DEF PromiseInv, Promise
<1>1. /\ submitted[p] = seen[p] /\ fought = seen[p]
      /\ submitted' = [submitted EXCEPT ![p] = submitted[p] + 1]
      /\ army' \in [Player -> SUBSET UnitId]
      /\ UNCHANGED <<fought, battle, seen, view>>
  <2>1. submitted[p] = seen[p] /\ fought = seen[p]
    BY Standing DEF Submit
  <2>2. army' \in [Player -> SUBSET UnitId]
    BY DEF Submit, ProtocolTypeOK
  <2> QED BY <2>1, <2>2 DEF Submit
<1>2. \A q \in Player : q # p => army'[q] = army[q] /\ submitted'[q] = submitted[q]
  BY DEF Submit, ProtocolTypeOK
<1>3. submitted'[p] = seen[p] + 1 /\ seen[p] \in Nat
  BY <1>1 DEF ProtocolTypeOK
<1>4. ProtocolTypeOK'
  BY <1>1 DEF ProtocolTypeOK
<1>5. ASSUME NEW q \in Player
      PROVE  /\ seen[q] <= fought /\ fought <= submitted'[q]
             /\ submitted'[q] <= seen[q] + 1
             /\ submitted'[q] = fought => army'[q] = battle[q]
             /\ seen[q] = submitted'[q] => view[q][q] = army'[q]
  <2>1. CASE q = p
    BY <1>1, <1>3, <2>1
  <2>2. CASE q # p
    BY <1>2, <2>2 DEF InStep, LastBattle, OwnArmySeen
  <2> QED BY <2>1, <2>2
<1> QED BY <1>1, <1>4, <1>5 DEF LastBattle, InStep, SameBattle, OwnArmySeen

LEMMA FightKeeps ==
  ASSUME PromiseInv, Fight
  PROVE  PromiseInv'
<1> USE DEF PromiseInv, Promise
<1>1. /\ \A p \in Player : submitted[p] = fought + 1
      /\ fought' = fought + 1 /\ battle' = army
      /\ UNCHANGED <<submitted, army, seen, view>>
  BY DEF Fight
<1>2. ProtocolTypeOK'
  BY <1>1 DEF ProtocolTypeOK
<1>3. \A p \in Player : seen[p] = fought /\ seen[p] \in Nat
  BY <1>1, Standing
<1> QED BY <1>1, <1>2, <1>3 DEF LastBattle, InStep, SameBattle, OwnArmySeen

LEMMA SeeKeeps ==
  ASSUME PromiseInv, NEW p \in Player, See(p)
  PROVE  PromiseInv'
<1> USE DEF PromiseInv, Promise
<1>1. /\ seen' = [seen EXCEPT ![p] = @ + 1]
      /\ view' = [view EXCEPT ![p] = battle]
      /\ UNCHANGED <<submitted, army, fought, battle>>
  BY DEF See
<1>2. seen[p] + 1 = fought /\ submitted[p] = fought
  BY Standing DEF See
<1>3. /\ seen'[p] = fought /\ view'[p] = battle /\ army[p] = battle[p]
      /\ \A q \in Player : q # p => seen'[q] = seen[q] /\ view'[q] = view[q]
  BY <1>1, <1>2 DEF ProtocolTypeOK, LastBattle
<1>4. ProtocolTypeOK'
  BY <1>1 DEF ProtocolTypeOK
<1>5. ASSUME NEW q \in Player
      PROVE  /\ seen'[q] <= fought /\ fought <= submitted[q]
             /\ submitted[q] <= seen'[q] + 1
             /\ seen'[q] = fought => view'[q] = battle
             /\ seen'[q] = submitted[q] => view'[q][q] = army[q]
  <2>1. CASE q = p
    BY <1>2, <1>3, <2>1 DEF ProtocolTypeOK
  <2>2. CASE q # p
    BY <1>3, <2>2 DEF InStep, LastBattle, OwnArmySeen
  <2> QED BY <2>1, <2>2
<1>6. SameBattle'
  <2> SUFFICES ASSUME NEW q \in Player, NEW r \in Player, seen'[q] = seen'[r]
               PROVE  view'[q] = view'[r]
    BY DEF SameBattle
  <2>1. CASE q = p \/ r = p
    BY <1>3, <1>5, <2>1
  <2>2. CASE q # p /\ r # p
    BY <1>3, <2>2 DEF SameBattle
  <2> QED BY <2>1, <2>2
<1> QED BY <1>1, <1>4, <1>5, <1>6 DEF LastBattle, InStep, OwnArmySeen

LEMMA NextPromise ==
  ASSUME PromiseInv, [Next]_protocolVars
  PROVE  PromiseInv'
<1>1. CASE UNCHANGED protocolVars
  BY <1>1 DEF protocolVars, PromiseInv, ProtocolTypeOK, LastBattle, Promise,
              InStep, SameBattle, OwnArmySeen
<1> QED BY <1>1, SubmitKeeps, FightKeeps, SeeKeeps DEF Next

\* Whatever the pace of the players: nobody is a round ahead, all who have seen
\* the same rounds have seen the same battle, and everybody its own army.
THEOREM PromiseKept == Init /\ [][Next]_protocolVars => []Promise
<1>1. PromiseInv => Promise
  BY DEF PromiseInv
<1> QED BY <1>1, InitPromise, NextPromise, PTL
=============================================================================
