-------------------------- MODULE SimulationProofs --------------------------
(* Proofs about Simulation, for any units, types, upgrades and frames.       *)
EXTENDS Simulation, Induction

-----------------------------------------------------------------------------
(* Folds over a sequence *)

\* The order in which FoldLeft goes through a sequence.
Backwards(s) == [T \in SUBSET DOMAIN s |-> Max(T)]

LEMMA BackwardsIsIn ==
  ASSUME NEW X, NEW s \in Seq(X)
  PROVE  /\ IsFiniteSet(DOMAIN s)
         /\ \A T \in SUBSET DOMAIN s : T # {} => Backwards(s)[T] \in T /\ Max(T) \in T
<1>1. DOMAIN s = 1..Len(s) /\ Len(s) \in Nat
  OBVIOUS
<1>2. IsFiniteSet(DOMAIN s)
  BY <1>1, FS_Interval
<1>3. ASSUME NEW T \in SUBSET DOMAIN s, T # {}
      PROVE  Max(T) \in T
  <2>1. T \in SUBSET Int
    BY <1>1
  <2>2. IsFiniteSet(T)
    BY <1>2, FS_Subset
  <2>3. PICK n \in T : \A k \in T : k <= n
    BY <1>3, <2>1, <2>2, GreatestNumber
  <2>4. \A k \in T : n >= k
    BY <2>1, <2>3
  <2> QED  BY <2>4 DEF Max
<1> QED  BY <1>2, <1>3 DEF Backwards

\* What holds of no position of s, and of a set of them if it holds without the
\* last one, holds of all.
LEMMA BackwardsInduction ==
  ASSUME NEW X, NEW s \in Seq(X), NEW F, {} \in F,
         \A T \in SUBSET DOMAIN s : T # {} /\ T \ {Max(T)} \in F => T \in F
  PROVE  DOMAIN s \in F
<1> DEFINE I == DOMAIN s
<1>1. \A T \in SUBSET I : T # {} => \E x \in T : T \ {x} \in F => T \in F
  BY BackwardsIsIn
<1>2. IsFiniteSet(I)
  BY BackwardsIsIn
<1>3. SUBSET I \subseteq F
  <2> HIDE DEF I
  <2> QED  BY <1>1, <1>2, SetInduction
<1> QED  BY <1>3

\* A sequence with one element more.
LEMMA AppendIs ==
  ASSUME NEW X, NEW r \in Seq(X), NEW x \in X
  PROVE  /\ Append(r, x) \in Seq(X)
         /\ ToSet(Append(r, x)) = ToSet(r) \cup {x}
         /\ IsInjective(r) /\ x \notin ToSet(r) => IsInjective(Append(r, x))
<1> DEFINE s == Append(r, x)
<1>1. /\ DOMAIN s = 1..(Len(r) + 1) /\ DOMAIN r = 1..Len(r) /\ Len(r) \in Nat
      /\ \A k \in 1..(Len(r) + 1) : s[k] = IF k <= Len(r) THEN r[k] ELSE x
      /\ s \in Seq(X)
  OBVIOUS
<1> HIDE DEF s
<1>2. ToSet(s) = ToSet(r) \cup {x}
  <2>1. /\ \A k \in DOMAIN r : k \in DOMAIN s /\ s[k] = r[k]
        /\ \A k \in DOMAIN s : \/ k \in DOMAIN r /\ s[k] = r[k]
                              \/ s[k] = x
        /\ Len(r) + 1 \in DOMAIN s /\ s[Len(r) + 1] = x
    BY <1>1
  <2> QED  BY <2>1 DEF ToSet
<1>3. ASSUME IsInjective(r), x \notin ToSet(r)
      PROVE  IsInjective(s)
  <2>1. \A k \in DOMAIN r : r[k] # x
    BY <1>3 DEF ToSet
  <2>2. \A k, l \in DOMAIN r : r[k] = r[l] => k = l
    BY <1>3 DEF IsInjective
  <2>3. ASSUME NEW k \in DOMAIN s, NEW l \in DOMAIN s, s[k] = s[l]
        PROVE  k = l
    BY <1>1, <2>1, <2>2, <2>3
  <2> QED  BY <2>3 DEF IsInjective
<1> QED  BY <1>1, <1>2, <1>3 DEF s

\* What Keep computes for each set of positions.
Keeps(h, s, S) ==
  h = [T \in SUBSET DOMAIN s |->
         IF T = {} THEN <<>>
         ELSE IF s[Max(T)] \in S
              THEN Append(h[T \ {Max(T)}], s[Max(T)])
              ELSE h[T \ {Max(T)}]]

LEMMA KeepUnfolds ==
  ASSUME NEW s, NEW S
  PROVE  Keep(s, S) = (CHOOSE h : Keeps(h, s, S))[DOMAIN s]
BY DEF Keep, FoldLeft, MapThenFoldSet, Keeps

LEMMA KeepsExists ==
  ASSUME NEW X, NEW s \in Seq(X), NEW S
  PROVE  \E h : Keeps(h, s, S)
<1> DEFINE c == Backwards(s)
           next == [i \in DOMAIN s |-> [v \in Seq(X) |->
                      IF s[i] \in S THEN Append(v, s[i]) ELSE v]]
<1>1. \A i \in DOMAIN s, v \in Seq(X) : next[i][v] \in Seq(X)
  OBVIOUS
<1>2. PICK h : IsFold(h, DOMAIN s, Seq(X), <<>>, c, next)
  <2>1. <<>> \in Seq(X)
    OBVIOUS
  <2> HIDE DEF c, next
  <2>2. \A T \in SUBSET DOMAIN s : T # {} => c[T] \in T
    BY BackwardsIsIn DEF c
  <2> QED  BY <1>1, <2>1, <2>2, BackwardsIsIn, FoldExists
<1>3. h \in [SUBSET DOMAIN s -> Seq(X)]
  BY <1>2 DEF IsFold
<1>4. ASSUME NEW T \in SUBSET DOMAIN s, T # {}
      PROVE  h[T] = IF s[Max(T)] \in S
                    THEN Append(h[T \ {Max(T)}], s[Max(T)])
                    ELSE h[T \ {Max(T)}]
  <2>1. h[T] = next[c[T]][h[T \ {c[T]}]]
    <3> HIDE DEF c, next
    <3> QED  BY <1>2, <1>4, Zenon DEF IsFold, Folds
  <2>2. c[T] = Max(T) /\ Max(T) \in DOMAIN s
    BY <1>4, BackwardsIsIn DEF Backwards
  <2>3. h[T \ {Max(T)}] \in Seq(X)
    BY <1>3
  <2> QED  BY <2>1, <2>2, <2>3
<1>5. h[{}] = <<>>
  <2> HIDE DEF c, next
  <2> QED  BY <1>2 DEF IsFold, Folds
<1>6. Keeps(h, s, S)
  BY <1>3, <1>4, <1>5 DEF Keeps
<1> QED  BY <1>6

\* Keep keeps the elements that are in S, each as often as it was there.
LEMMA KeepIs ==
  ASSUME NEW X, NEW s \in Seq(X), NEW S
  PROVE  /\ Keep(s, S) \in Seq(X)
         /\ ToSet(Keep(s, S)) = ToSet(s) \cap S
         /\ IsInjective(s) => IsInjective(Keep(s, S))
<1> DEFINE h == CHOOSE h : Keeps(h, s, S)
           F == {T \in SUBSET DOMAIN s :
                   /\ h[T] \in Seq(X)
                   /\ ToSet(h[T]) = {s[i] : i \in T} \cap S
                   /\ IsInjective(s) => IsInjective(h[T])}
<1>1. Keeps(h, s, S)
  BY KeepsExists
<1>2. Keep(s, S) = h[DOMAIN s]
  BY KeepUnfolds
<1> HIDE DEF h
<1>3. {} \in F
  <2>1. h[{}] = <<>>
    BY <1>1 DEF Keeps
  <2>2. <<>> \in Seq(X) /\ ToSet(<<>>) = {}
    BY DEF ToSet
  <2>3. IsInjective(<<>>)
    BY DEF IsInjective
  <2> QED  BY <2>1, <2>2, <2>3
<1>4. ASSUME NEW T \in SUBSET DOMAIN s, T # {}, T \ {Max(T)} \in F
      PROVE  T \in F
  <2>1. PICK i \in T : i = Max(T)
    BY <1>4, BackwardsIsIn
  <2>2. PICK r \in Seq(X) : /\ r = h[T \ {i}]
                            /\ ToSet(r) = {s[j] : j \in T \ {i}} \cap S
                            /\ IsInjective(s) => IsInjective(r)
    BY <1>4, <2>1
  <2>3. CASE s[i] \in S
    <3>1. h[T] = Append(r, s[i])
      BY <1>1, <1>4, <2>1, <2>2, <2>3 DEF Keeps
    <3>2. s[i] \in X
      BY <2>1
    <3>3. ToSet(h[T]) = {s[j] : j \in T} \cap S
      <4>1. ToSet(Append(r, s[i])) = ToSet(r) \cup {s[i]}
        BY <3>2, AppendIs
      <4> QED  BY <2>1, <2>2, <2>3, <3>1, <4>1
    <3>4. ASSUME IsInjective(s)
          PROVE  IsInjective(h[T])
      <4>1. s[i] \notin ToSet(r)
        BY <2>1, <2>2, <3>4 DEF IsInjective
      <4>2. IsInjective(Append(r, s[i]))
        BY <2>2, <3>2, <3>4, <4>1, AppendIs
      <4> QED  BY <3>1, <4>2
    <3>5. h[T] \in Seq(X)
      BY <3>1, <3>2
    <3> QED  BY <3>3, <3>4, <3>5
  <2>4. CASE s[i] \notin S
    <3>1. h[T] = r
      BY <1>1, <1>4, <2>1, <2>2, <2>4 DEF Keeps
    <3>2. {s[j] : j \in T \ {i}} \cap S = {s[j] : j \in T} \cap S
      BY <2>4
    <3> QED  BY <2>2, <3>1, <3>2
  <2> QED  BY <2>3, <2>4
<1>5. DOMAIN s \in F
  <2> HIDE DEF F
  <2> QED  BY <1>3, <1>4, BackwardsInduction
<1> QED  BY <1>2, <1>5 DEF ToSet
-----------------------------------------------------------------------------
(* What a frame works on *)

SimulationAssumption == UnitAssumption /\ BoundAssumption

DamageTypes == {Info[t].damageTypes : t \in DOMAIN Info}

Soldier == [hp : Int, level : 1..UnitLevelMax, exp : Nat, timer : Nat,
            woven : BOOLEAN, ups : Seq(Upgrade)]
Veteran == [level : 1..UnitLevelMax, exp : Nat]
Wall == [weaver : Unit, hp : Int]

\* The records that a frame with the units D goes through.
World(D) == [obj : [D -> Soldier], start : [D -> Veteran],
             barriers : Seq(Wall), credits : Seq(D \X D)]

\* Each of the dead was paid for once, to the other side.
Settled(paid, men) ==
  /\ \A i, j \in DOMAIN paid : paid[i][2] = paid[j][2] => i = j
  /\ \A i \in DOMAIN paid : Owner[paid[i][1]] # Owner[paid[i][2]]
  /\ {paid[i][2] : i \in DOMAIN paid} = {u \in DOMAIN men : ~Alive(men[u])}

\* What is kept of a unit is what it has learned, and no level is owed to it.
Recorded(book, men) ==
  \A u \in DOMAIN men :
    /\ book[u].level = men[u].level /\ book[u].exp = men[u].exp
    /\ book[u].level < UnitLevelMax =>
         book[u].exp < ExpRequired(OfType[u], book[u].level)

Fair(w) == Settled(w.credits, w.obj) /\ Recorded(w.start, w.obj)

\* x is a world in which w may have turned: no barrier was added, and nobody
\* has become a weaver at work.
Follows(x, w) ==
  /\ DOMAIN x.barriers = DOMAIN w.barriers
  /\ \A i \in DOMAIN w.barriers : x.barriers[i].weaver = w.barriers[i].weaver
  /\ \A u \in DOMAIN w.obj : x.obj[u].woven = w.obj[u].woven

-----------------------------------------------------------------------------
(* Levels *)

LEMMA LevelsAreNumbers ==
  ASSUME SimulationAssumption, NEW u \in Unit, NEW level \in 1..UnitLevelMax
  PROVE  /\ ExpRequired(OfType[u], level) \in Nat \ {0}
         /\ ExpGain(OfType[u], level) \in Nat
         /\ DamageOf(OfType[u], level) \in Nat
         /\ Info[OfType[u]].hp * level \in Nat \ {0}
<1>1. OfType[u] \in DOMAIN Info
  BY DEF SimulationAssumption, UnitAssumption
<1>2. PICK e \in Nat \ {0} : e = Info[OfType[u]].expRequired
  BY <1>1 DEF SimulationAssumption, UnitAssumption
<1>3. PICK g \in Nat : g = Info[OfType[u]].expGain
  BY <1>1 DEF SimulationAssumption, UnitAssumption
<1>4. PICK d \in Nat : d = Info[OfType[u]].damage
  BY <1>1 DEF SimulationAssumption, UnitAssumption
<1>5. PICK h \in Nat \ {0} : h = Info[OfType[u]].hp
  BY <1>1 DEF SimulationAssumption, UnitAssumption
<1>6. level \in {1, 2, 3, 4, 5, 6}
  BY DEF UnitLevelMax
<1>7. (e * LevelFactor[level]) \div 1000 \in Nat \ {0}
  <2>1. LevelFactor[level] \in {1000, 1834, 2615, 3363, 4088, 4795}
    BY <1>6 DEF LevelFactor
  <2> QED  BY <2>1
<1>8. g * level \in Nat /\ d * level \in Nat /\ h * level \in Nat \ {0}
  BY <1>6
<1> QED  BY <1>2, <1>3, <1>4, <1>5, <1>7, <1>8 DEF ExpRequired, ExpGain, DamageOf

\* GainExperience writes what a unit has learned to both places.
LEMMA GainIsFair ==
  ASSUME SimulationAssumption, NEW D \in SUBSET Unit, NEW w \in World(D),
         NEW u \in D, NEW e \in Nat
  PROVE  LET x == GainExperience(w, u, e) IN
           /\ x \in World(D)
           /\ Recorded(w.start, w.obj) => Recorded(x.start, x.obj)
           /\ x.credits = w.credits /\ x.barriers = w.barriers
           /\ \A v \in D : /\ x.obj[v].hp = w.obj[v].hp
                           /\ x.obj[v].woven = w.obj[v].woven
<1> DEFINE o == w.obj[u]
           up == o.exp + e >= ExpRequired(OfType[u], o.level)
           n == [o EXCEPT !.level = IF up THEN @ + 1 ELSE @,
                          !.exp = IF up THEN 0 ELSE @ + e]
           x == GainExperience(w, u, e)
<1>1. CASE o.level >= UnitLevelMax
  BY <1>1 DEF GainExperience
<1>2. CASE ~(o.level >= UnitLevelMax)
  <2>1. x = [w EXCEPT !.obj[u] = n, !.start[u] = [level |-> n.level, exp |-> n.exp]]
    BY <1>2 DEF GainExperience
  <2>2. o \in Soldier /\ w.obj \in [D -> Soldier] /\ w.start \in [D -> Veteran]
    BY DEF World
  <2>3. o.level \in 1..5 /\ o.exp \in Nat
    BY <1>2, <2>2 DEF Soldier, UnitLevelMax
  <2>4. PICK q \in Nat \ {0} : q = ExpRequired(OfType[u], o.level)
    <3>1. o.level \in 1..UnitLevelMax
      BY <2>3 DEF UnitLevelMax
    <3> QED  BY <3>1, LevelsAreNumbers
  <2>5. /\ n \in Soldier /\ n.hp = o.hp /\ n.woven = o.woven
        /\ n.level = (IF up THEN o.level + 1 ELSE o.level)
        /\ n.exp = (IF up THEN 0 ELSE o.exp + e)
    <3>1. /\ n.hp = o.hp /\ n.woven = o.woven /\ n.timer = o.timer /\ n.ups = o.ups
          /\ n.level = (IF up THEN o.level + 1 ELSE o.level)
          /\ n.exp = (IF up THEN 0 ELSE o.exp + e)
      <4> HIDE DEF o, up
      <4> QED  BY <2>2 DEF Soldier
    <3>2. n.level \in 1..6 /\ n.exp \in Nat
      <4> HIDE DEF o, up, n
      <4> QED  BY <2>3, <3>1
    <3>3. n \in Soldier
      <4> DEFINE level == IF up THEN o.level + 1 ELSE o.level
                 exp == IF up THEN 0 ELSE o.exp + e
      <4>1. n = [o EXCEPT !.level = level, !.exp = exp]
        <5> HIDE DEF o, up
        <5> QED  OBVIOUS
      <4>2. level \in 1..6 /\ exp \in Nat
        <5> HIDE DEF o, up, n
        <5> QED  BY <3>1, <3>2
      <4> HIDE DEF o, up, n, level, exp
      <4> QED  BY <2>2, <4>1, <4>2 DEF Soldier, UnitLevelMax
    <3> HIDE DEF o, up, n
    <3> QED  BY <3>1, <3>3
  <2>6. ASSUME n.level < UnitLevelMax
        PROVE  n.exp < ExpRequired(OfType[u], n.level)
    <3>1. CASE up
      <4>1. n.level \in 1..UnitLevelMax
        BY <2>5 DEF Soldier
      <4>2. ExpRequired(OfType[u], n.level) \in Nat \ {0}
        BY <4>1, LevelsAreNumbers
      <4> QED  BY <2>5, <3>1, <4>2
    <3>2. CASE ~up
      BY <2>3, <2>4, <2>5, <3>2
    <3> QED  BY <3>1, <3>2
  <2>7. [level |-> n.level, exp |-> n.exp] \in Veteran
    BY <2>5 DEF Soldier, Veteran
  <2> HIDE DEF n, o
  <2>8. /\ x.obj = [w.obj EXCEPT ![u] = n]
        /\ x.start = [w.start EXCEPT ![u] = [level |-> n.level, exp |-> n.exp]]
        /\ x.credits = w.credits /\ x.barriers = w.barriers
    <3> HIDE DEF x
    <3> QED  BY <2>1 DEF World
  <2>9. x \in World(D)
    <3>1. x = [obj |-> x.obj, start |-> x.start, barriers |-> x.barriers,
               credits |-> x.credits]
      <4> HIDE DEF x
      <4> QED  BY <2>1 DEF World
    <3>2. x.obj \in [D -> Soldier] /\ x.start \in [D -> Veteran]
      <4> HIDE DEF x
      <4> QED  BY <2>2, <2>5, <2>7, <2>8
    <3> HIDE DEF x
    <3> QED  BY <2>8, <3>1, <3>2 DEF World
  <2>10. /\ x.obj[u] = n /\ x.start[u].level = n.level /\ x.start[u].exp = n.exp
         /\ \A v \in D : v # u => x.obj[v] = w.obj[v] /\ x.start[v] = w.start[v]
    <3> HIDE DEF x
    <3> QED  BY <2>2, <2>8
  <2>11. DOMAIN x.obj = D /\ DOMAIN w.obj = D
    <3> HIDE DEF x
    <3> QED  BY <2>2, <2>8
  <2>12. Recorded(w.start, w.obj) => Recorded(x.start, x.obj)
    <3> HIDE DEF x
    <3> QED  BY <2>6, <2>10, <2>11 DEF Recorded
  <2>13. \A v \in D : /\ x.obj[v].hp = w.obj[v].hp
                      /\ x.obj[v].woven = w.obj[v].woven
    <3> HIDE DEF x
    <3>1. o = w.obj[u]
      BY DEF o
    <3> QED  BY <2>5, <2>10, <3>1
  <2> HIDE DEF x
  <2>14. x = GainExperience(w, u, e)
    BY DEF x
  <2> QED  BY <2>8, <2>9, <2>12, <2>13, <2>14
<1> QED  BY <1>1, <1>2
-----------------------------------------------------------------------------
(* Blows *)

LEMMA DamageIsInt ==
  ASSUME NEW u, NEW o, NEW damage \in Nat, NEW types
  PROVE  Reduced(u, o, damage, types) \in Int
BY DEF Reduced

\* Strike pays for a unit that it kills, and touches the hit points of no other.
LEMMA StrikeIsFair ==
  ASSUME SimulationAssumption, NEW D \in SUBSET Unit, NEW w \in World(D),
         NEW a \in D, NEW u \in D, NEW damage \in Nat, NEW types
  PROVE  LET x == Strike(w, a, u, damage, types) IN
           /\ x \in World(D) /\ x.barriers = w.barriers
           /\ \A v \in D : v # u => x.obj[v].hp = w.obj[v].hp
           /\ \A v \in D : x.obj[v].woven = w.obj[v].woven
           /\ Fair(w) /\ Owner[a] # Owner[u] /\ Alive(w.obj[u]) => Fair(x)
<1> DEFINE o == w.obj[u]
           p == [o EXCEPT !.hp = @ - Reduced(u, o, damage, types)]
           hit == [w EXCEPT !.obj[u] = p]
           paid == [hit EXCEPT !.credits = Append(@, <<a, u>>)]
           gain == ExpGain(OfType[u], o.level)
           x == Strike(w, a, u, damage, types)
<1>1. o \in Soldier /\ w.obj \in [D -> Soldier] /\ w.start \in [D -> Veteran]
      /\ w.credits \in Seq(D \X D) /\ w.barriers \in Seq(Wall)
  BY DEF World
<1>2. x = IF Alive(hit.obj[u]) THEN hit ELSE GainExperience(paid, a, gain)
  BY <1>1 DEF Strike, World, Soldier
<1>3. /\ p \in Soldier /\ p.level = o.level /\ p.exp = o.exp /\ p.woven = o.woven
  <2>1. PICK r \in Int : r = Reduced(u, o, damage, types)
    BY DamageIsInt
  <2>2. o.hp \in Int
    BY <1>1 DEF Soldier
  <2>3. PICK m \in Int : m = o.hp - r
    BY <2>1, <2>2
  <2>4. p = [o EXCEPT !.hp = m]
    BY <1>1, <2>1, <2>3 DEF Soldier
  <2> HIDE DEF o, p
  <2> QED  BY <1>1, <2>4 DEF Soldier
<1> HIDE DEF p, o
<1>4. /\ hit \in World(D) /\ hit.obj = [w.obj EXCEPT ![u] = p]
      /\ hit.start = w.start /\ hit.credits = w.credits /\ hit.barriers = w.barriers
  BY <1>1, <1>3 DEF World
<1> HIDE DEF hit
<1>5. /\ paid \in World(D) /\ paid.obj = hit.obj /\ paid.start = w.start
      /\ paid.credits = Append(w.credits, <<a, u>>) /\ paid.barriers = w.barriers
  <2>1. PICK c \in Seq(D \X D) : c = Append(hit.credits, <<a, u>>)
    <3> DEFINE P == D \X D
               e == <<a, u>>
    <3>1. e \in P /\ hit.credits \in Seq(P)
      BY <1>1, <1>4
    <3>2. Append(hit.credits, e) \in Seq(P)
      <4> HIDE DEF P, e
      <4> QED  BY <3>1
    <3> QED  BY <3>2
  <2>2. paid = [hit EXCEPT !.credits = c]
    BY <2>1
  <2> HIDE DEF paid
  <2> QED  BY <1>4, <2>1, <2>2 DEF World
<1> HIDE DEF paid
<1>6. gain \in Nat
  <2>1. o.level \in 1..UnitLevelMax
    BY <1>1 DEF Soldier
  <2> QED  BY <2>1, LevelsAreNumbers
<1>7. /\ hit.obj[u] = p /\ \A v \in D : v # u => hit.obj[v] = w.obj[v]
      /\ DOMAIN hit.obj = D /\ DOMAIN w.obj = D
  BY <1>1, <1>4
<1>8. \A v \in D : hit.obj[v].level = w.obj[v].level /\ hit.obj[v].exp = w.obj[v].exp
                   /\ hit.obj[v].woven = w.obj[v].woven
  <2>1. o = w.obj[u]
    BY DEF o
  <2> QED  BY <1>3, <1>7, <2>1
<1>9. Recorded(w.start, w.obj) => Recorded(w.start, hit.obj)
  BY <1>7, <1>8 DEF Recorded
<1>10. CASE Alive(hit.obj[u])
  <2>1. x = hit
    BY <1>2, <1>10
  <2>2. ASSUME Fair(w), Alive(w.obj[u]) PROVE Fair(hit)
    <3>1. \A v \in D : Alive(hit.obj[v]) <=> Alive(w.obj[v])
      BY <1>7, <1>10, <2>2
    <3>2. {v \in DOMAIN w.obj : ~Alive(w.obj[v])}
            = {v \in DOMAIN hit.obj : ~Alive(hit.obj[v])}
      BY <1>7, <3>1
    <3> QED  BY <1>4, <1>9, <2>2, <3>2 DEF Fair, Settled
  <2> HIDE DEF x
  <2>3. x = Strike(w, a, u, damage, types)
    BY DEF x
  <2> QED  BY <1>4, <1>7, <1>8, <2>1, <2>2, <2>3
<1>11. CASE ~Alive(hit.obj[u])
  <2>1. x = GainExperience(paid, a, gain)
    BY <1>2, <1>11
  <2>2. /\ x \in World(D)
        /\ Recorded(paid.start, paid.obj) => Recorded(x.start, x.obj)
        /\ x.credits = paid.credits /\ x.barriers = paid.barriers
        /\ \A v \in D : /\ x.obj[v].hp = paid.obj[v].hp
                        /\ x.obj[v].woven = paid.obj[v].woven
    <3> HIDE DEF x, gain
    <3> QED  BY <1>5, <1>6, <2>1, GainIsFair
  <2> HIDE DEF x
  <2>3. x.obj \in [D -> Soldier]
    BY <2>2 DEF World
  <2>4. ASSUME Fair(w), Owner[a] # Owner[u], Alive(w.obj[u]) PROVE Fair(x)
    <3>1. \A v \in D : Alive(x.obj[v]) <=> v # u /\ Alive(w.obj[v])
      BY <1>5, <1>7, <1>11, <2>2 DEF Alive
    <3>2. PICK c \in Seq(D \X D) : c = w.credits
      BY <1>1
    <3>3. x.credits = Append(c, <<a, u>>)
      BY <1>5, <2>2, <3>2
    <3>4. \A i \in DOMAIN c : c[i][2] # u
      <4>1. {c[i][2] : i \in DOMAIN c} = {v \in DOMAIN w.obj : ~Alive(w.obj[v])}
        BY <2>4, <3>2 DEF Fair, Settled
      <4> QED  BY <2>4, <4>1
    <3>5. /\ DOMAIN x.credits = 1..(Len(c) + 1) /\ DOMAIN c = 1..Len(c)
          /\ Len(c) \in Nat
          /\ \A i \in 1..Len(c) : x.credits[i] = c[i]
          /\ x.credits[Len(c) + 1] = <<a, u>>
      BY <3>2, <3>3
    <3>6. \A i, j \in DOMAIN x.credits : x.credits[i][2] = x.credits[j][2] => i = j
      <4>1. \A i, j \in DOMAIN c : c[i][2] = c[j][2] => i = j
        BY <2>4, <3>2 DEF Fair, Settled
      <4> QED  BY <3>4, <3>5, <4>1
    <3>7. \A i \in DOMAIN x.credits : Owner[x.credits[i][1]] # Owner[x.credits[i][2]]
      <4>1. \A i \in DOMAIN c : Owner[c[i][1]] # Owner[c[i][2]]
        BY <2>4, <3>2 DEF Fair, Settled
      <4> QED  BY <2>4, <3>5, <4>1
    <3>8. {x.credits[i][2] : i \in DOMAIN x.credits}
            = {c[i][2] : i \in DOMAIN c} \cup {u}
      BY <3>5
    <3>9. {c[i][2] : i \in DOMAIN c} = {v \in D : ~Alive(w.obj[v])}
      BY <1>7, <2>4, <3>2 DEF Fair, Settled
    <3>10. {x.credits[i][2] : i \in DOMAIN x.credits}
             = {v \in DOMAIN x.obj : ~Alive(x.obj[v])}
      BY <2>3, <3>1, <3>8, <3>9
    <3>11. Recorded(x.start, x.obj)
      BY <1>5, <1>9, <2>2, <2>4 DEF Fair
    <3> QED  BY <3>6, <3>7, <3>10, <3>11 DEF Fair, Settled
  <2>5. x = Strike(w, a, u, damage, types)
    BY DEF x
  <2> QED  BY <1>5, <1>7, <1>8, <2>2, <2>4, <2>5
<1> QED  BY <1>10, <1>11
\* What is on its way between the units D: blows, arrows to come, and arrows.
Blows(D) == {a \in [left : Int, attacker : D, attacked : D, damage : Nat,
                    types : DamageTypes] : Owner[a.attacker] # Owner[a.attacked]}
Shots(D) == [left : Int, shooter : D, splash : BOOLEAN, flight : Int, damage : Nat,
             types : DamageTypes]
Arrows(D) == [shooter : D, splash : BOOLEAN, damage : Nat, types : DamageTypes,
              left : Int]

LEMMA CountedDown ==
  ASSUME NEW D
  PROVE  /\ \A s \in Seq(Blows(D)) :
              /\ CountDown(s) \in Seq(Blows(D)) /\ Due(CountDown(s)) \in Seq(Blows(D))
              /\ Pending(CountDown(s)) \in Seq(Blows(D))
         /\ \A s \in Seq(Shots(D)) :
              /\ CountDown(s) \in Seq(Shots(D)) /\ Due(CountDown(s)) \in Seq(Shots(D))
              /\ Pending(CountDown(s)) \in Seq(Shots(D))
<1>1. ASSUME NEW X, \A x \in X : [x EXCEPT !.left = @ - 1] \in X, NEW s \in Seq(X)
      PROVE  /\ CountDown(s) \in Seq(X) /\ Due(CountDown(s)) \in Seq(X)
             /\ Pending(CountDown(s)) \in Seq(X)
  <2>1. CountDown(s) \in Seq(X)
    <3>1. \A i \in 1..Len(s) : s[i] \in X
      OBVIOUS
    <3>2. DOMAIN s = 1..Len(s) /\ Len(s) \in Nat
      OBVIOUS
    <3> QED  BY <1>1, <3>1, <3>2 DEF CountDown
  <2> QED  BY <2>1, KeepIs DEF Due, Pending
<1>2. \A a \in Blows(D) : [a EXCEPT !.left = @ - 1] \in Blows(D)
  BY DEF Blows
<1>3. \A a \in Shots(D) : [a EXCEPT !.left = @ - 1] \in Shots(D)
  BY DEF Shots
<1> QED  BY <1>1, <1>2, <1>3

\* The worlds that w may turn into in a frame.
Turns(D, w) == {x \in World(D) : Fair(x) /\ Follows(x, w)}

LEMMA StrikeTurns ==
  ASSUME SimulationAssumption, NEW D \in SUBSET Unit, NEW w \in World(D),
         NEW x \in Turns(D, w), NEW a \in D, NEW u \in D, NEW damage \in Nat, NEW types,
         Owner[a] # Owner[u], Alive(x.obj[u])
  PROVE  /\ Strike(x, a, u, damage, types) \in Turns(D, w)
         /\ \A v \in D : v # u => Strike(x, a, u, damage, types).obj[v].hp = x.obj[v].hp
<1> DEFINE y == Strike(x, a, u, damage, types)
<1>1. x \in World(D) /\ Fair(x) /\ Follows(x, w)
  BY DEF Turns
<1>2. /\ y \in World(D) /\ y.barriers = x.barriers /\ Fair(y)
      /\ \A v \in D : v # u => y.obj[v].hp = x.obj[v].hp
      /\ \A v \in D : y.obj[v].woven = x.obj[v].woven
  <2> HIDE DEF y
  <2>1. y = Strike(x, a, u, damage, types)
    BY DEF y
  <2> QED  BY <1>1, <2>1, StrikeIsFair
<1>3. DOMAIN w.obj = D
  BY DEF World
<1> HIDE DEF y
<1>4. y \in Turns(D, w)
  BY <1>1, <1>2, <1>3 DEF Turns, Follows
<1>5. y = Strike(x, a, u, damage, types)
  BY DEF y
<1> QED  BY <1>2, <1>4, <1>5

LEMMA LandAttackTurns ==
  ASSUME SimulationAssumption, NEW D \in SUBSET Unit, NEW w \in World(D),
         NEW x \in Turns(D, w), NEW a \in Blows(D)
  PROVE  LandAttack(a, x) \in Turns(D, w)
<1>1. /\ a.attacker \in D /\ a.attacked \in D /\ a.damage \in Nat
      /\ Owner[a.attacker] # Owner[a.attacked]
  BY DEF Blows
<1> QED  BY <1>1, StrikeTurns DEF LandAttack

\* What HandleScheduledAttacks computes for each set of positions.
Lands(h, s, w) ==
  h = [T \in SUBSET DOMAIN s |->
         IF T = {} THEN w ELSE LandAttack(s[Max(T)], h[T \ {Max(T)}])]

LEMMA AttacksTurn ==
  ASSUME SimulationAssumption, NEW D \in SUBSET Unit, NEW w \in World(D), Fair(w),
         attacks \in Seq(Blows(D))
  PROVE  HandleScheduledAttacks(w) \in Turns(D, w)
<1>1. PICK s \in Seq(Blows(D)) : s = Due(CountDown(attacks))
  BY CountedDown
<1> DEFINE h == CHOOSE h : Lands(h, s, w)
<1>2. HandleScheduledAttacks(w) = h[DOMAIN s]
  BY <1>1 DEF HandleScheduledAttacks, FoldLeft, MapThenFoldSet, Lands
<1> DEFINE c == Backwards(s)
           V == Turns(D, w)
           next == [i \in DOMAIN s |-> [x \in V |-> LandAttack(s[i], x)]]
<1>3. w \in V
  BY DEF Turns, Follows
<1>4. \A i \in DOMAIN s, x \in V : LandAttack(s[i], x) \in V
  BY LandAttackTurns
<1>5. PICK g : IsFold(g, DOMAIN s, V, w, c, next)
  <2>1. \A i \in DOMAIN s, x \in V : next[i][x] \in V
    <3> HIDE DEF V
    <3> QED  BY <1>4
  <2>2. \A T \in SUBSET DOMAIN s : T # {} => c[T] \in T
    BY BackwardsIsIn
  <2>3. IsFiniteSet(DOMAIN s)
    BY BackwardsIsIn
  <2> HIDE DEF c, next, V
  <2> QED  BY <1>3, <2>1, <2>2, <2>3, FoldExists
<1> HIDE DEF V
<1>6. g \in [SUBSET DOMAIN s -> V] /\ g[{}] = w
  <2> HIDE DEF c, next
  <2> QED  BY <1>5 DEF IsFold, Folds
<1>7. ASSUME NEW T \in SUBSET DOMAIN s, T # {}
      PROVE  g[T] = LandAttack(s[Max(T)], g[T \ {Max(T)}])
  <2>1. g[T] = next[c[T]][g[T \ {c[T]}]]
    <3> HIDE DEF c, next
    <3> QED  BY <1>5, <1>7, Zenon DEF IsFold, Folds
  <2>2. c[T] = Max(T) /\ Max(T) \in DOMAIN s
    BY <1>7, BackwardsIsIn DEF Backwards
  <2>3. g[T \ {Max(T)}] \in V
    BY <1>6
  <2> QED  BY <2>1, <2>2, <2>3
<1>8. Lands(g, s, w)
  BY <1>6, <1>7 DEF Lands
<1>9. Lands(h, s, w)
  BY <1>8
<1> HIDE DEF h
<1> DEFINE F == {T \in SUBSET DOMAIN s : h[T] \in V}
<1>10. {} \in F
  BY <1>3, <1>9 DEF Lands
<1>11. ASSUME NEW T \in SUBSET DOMAIN s, T # {}, T \ {Max(T)} \in F
       PROVE  T \in F
  <2>1. Max(T) \in DOMAIN s
    BY <1>11, BackwardsIsIn
  <2>2. h[T] = LandAttack(s[Max(T)], h[T \ {Max(T)}])
    BY <1>9, <1>11 DEF Lands
  <2> QED  BY <1>4, <1>11, <2>1, <2>2
<1>12. DOMAIN s \in F
  <2> HIDE DEF F
  <2> QED  BY <1>10, <1>11, BackwardsInduction
<1> QED  BY <1>2, <1>12 DEF V
-----------------------------------------------------------------------------
(* Arrows *)

\* What Burst computes for each set of positions.
Bursts(h, x, a, s) ==
  h = [T \in SUBSET DOMAIN s |->
         IF T = {} THEN x
         ELSE Strike(h[T \ {Max(T)}], a.shooter, s[Max(T)], a.damage, a.types)]

\* An explosion strikes each unit once, so each is alive when it is struck.
LEMMA BurstTurns ==
  ASSUME SimulationAssumption, NEW D \in SUBSET Unit, NEW w \in World(D),
         NEW x \in Turns(D, w), NEW a \in Arrows(D), NEW s \in Seq(D), IsInjective(s),
         \A i \in DOMAIN s : s[i] \in LivingEnemies(x, Owner[a.shooter])
  PROVE  Burst(x, a, s) \in Turns(D, w)
<1> DEFINE h == CHOOSE h : Bursts(h, x, a, s)
           c == Backwards(s)
           V == World(D)
           strike(v, u) == Strike(v, a.shooter, u, a.damage, a.types)
           next == [i \in DOMAIN s |-> [v \in V |-> strike(v, s[i])]]
<1>1. Burst(x, a, s) = h[DOMAIN s]
  BY DEF Burst, FoldLeft, MapThenFoldSet, Bursts
<1>2. a.shooter \in D /\ a.damage \in Nat
  BY DEF Arrows
<1>3. x \in V /\ x \in Turns(D, w)
  BY DEF Turns
<1>4. \A u \in D, v \in V : strike(v, u) \in V
  BY <1>2, StrikeIsFair
<1> HIDE DEF strike
<1>5. PICK g : IsFold(g, DOMAIN s, V, x, c, next)
  <2>1. \A i \in DOMAIN s, v \in V : next[i][v] \in V
    <3> HIDE DEF V
    <3> QED  BY <1>4
  <2>2. \A T \in SUBSET DOMAIN s : T # {} => c[T] \in T
    BY BackwardsIsIn
  <2>3. IsFiniteSet(DOMAIN s)
    BY BackwardsIsIn
  <2> HIDE DEF c, next, V
  <2> QED  BY <1>3, <2>1, <2>2, <2>3, FoldExists
<1> HIDE DEF V
<1>6. g \in [SUBSET DOMAIN s -> V] /\ g[{}] = x
  <2> HIDE DEF c, next
  <2> QED  BY <1>5 DEF IsFold, Folds
<1>7. ASSUME NEW T \in SUBSET DOMAIN s, T # {}
      PROVE  g[T] = strike(g[T \ {Max(T)}], s[Max(T)])
  <2>1. g[T] = next[c[T]][g[T \ {c[T]}]]
    <3> HIDE DEF c, next
    <3> QED  BY <1>5, <1>7, Zenon DEF IsFold, Folds
  <2>2. c[T] = Max(T) /\ Max(T) \in DOMAIN s
    BY <1>7, BackwardsIsIn DEF Backwards
  <2>3. g[T \ {Max(T)}] \in V
    BY <1>6
  <2> QED  BY <2>1, <2>2, <2>3
<1>8. Bursts(g, x, a, s)
  BY <1>6, <1>7 DEF Bursts, strike
<1>9. Bursts(h, x, a, s)
  BY <1>8
<1> HIDE DEF h
<1> DEFINE F == {T \in SUBSET DOMAIN s :
                   /\ h[T] \in Turns(D, w)
                   /\ \A i \in DOMAIN s \ T : h[T].obj[s[i]].hp = x.obj[s[i]].hp}
<1>10. {} \in F
  <2>1. h[{}] = x
    BY <1>9 DEF Bursts
  <2> QED  BY <1>3, <2>1
<1>11. ASSUME NEW T \in SUBSET DOMAIN s, T # {}, T \ {Max(T)} \in F
       PROVE  T \in F
  <2>1. PICK i \in T : i = Max(T)
    BY <1>11, BackwardsIsIn
  <2>2. PICK v \in Turns(D, w) :
          /\ v = h[T \ {i}]
          /\ \A j \in DOMAIN s \ (T \ {i}) : v.obj[s[j]].hp = x.obj[s[j]].hp
    BY <1>11, <2>1
  <2>3. h[T] = strike(v, s[i])
    BY <1>9, <1>11, <2>1, <2>2 DEF Bursts, strike
  <2>4. s[i] \in D /\ Owner[a.shooter] # Owner[s[i]] /\ Alive(x.obj[s[i]])
    BY <2>1 DEF LivingEnemies
  <2>5. Alive(v.obj[s[i]])
    BY <2>1, <2>2, <2>4 DEF Alive
  <2>6. /\ strike(v, s[i]) \in Turns(D, w)
        /\ \A u \in D : u # s[i] => strike(v, s[i]).obj[u].hp = v.obj[u].hp
    BY <1>2, <2>4, <2>5, StrikeTurns DEF strike
  <2>7. ASSUME NEW j \in DOMAIN s \ T
        PROVE  h[T].obj[s[j]].hp = x.obj[s[j]].hp
    <3>1. s[j] \in D /\ s[j] # s[i]
      BY <2>1 DEF IsInjective
    <3>2. v.obj[s[j]].hp = x.obj[s[j]].hp
      BY <2>2
    <3> QED  BY <2>3, <2>6, <3>1, <3>2
  <2> QED  BY <2>3, <2>6, <2>7
<1>12. DOMAIN s \in F
  <2> HIDE DEF F
  <2> QED  BY <1>10, <1>11, BackwardsInduction
<1> QED  BY <1>1, <1>12

LEMMA StopArrowTurns ==
  ASSUME NEW D, NEW w \in World(D), NEW x \in Turns(D, w), NEW i, NEW damage \in Nat
  PROVE  StopArrow(x, i, damage) \in Turns(D, w)
<1> DEFINE y == StopArrow(x, i, damage)
           b == x.barriers
           n == [b EXCEPT ![i].hp = @ - damage]
<1>1. x \in World(D) /\ Fair(x) /\ Follows(x, w) /\ b \in Seq(Wall)
  BY DEF Turns, World
<1>2. y = [x EXCEPT !.barriers = n]
  BY <1>1 DEF StopArrow, World
<1>3. n \in Seq(Wall) /\ DOMAIN n = DOMAIN b
      /\ \A j \in DOMAIN b : n[j].weaver = b[j].weaver
  <2>1. /\ DOMAIN n = DOMAIN b
        /\ \A j \in DOMAIN b : n[j] = IF j = i THEN [b[i] EXCEPT !.hp = @ - damage] ELSE b[j]
    BY <1>1
  <2>2. \A j \in DOMAIN b : b[j] \in Wall
    BY <1>1
  <2>3. \A m \in Wall : /\ [m EXCEPT !.hp = @ - damage] \in Wall
                        /\ [m EXCEPT !.hp = @ - damage].weaver = m.weaver
    BY DEF Wall
  <2>4. \A j \in DOMAIN b : n[j] \in Wall /\ n[j].weaver = b[j].weaver
    BY <2>1, <2>2, <2>3
  <2>5. DOMAIN b = 1..Len(b) /\ Len(b) \in Nat
    BY <1>1
  <2>6. n = [j \in 1..Len(b) |-> n[j]]
    BY <2>1, <2>5
  <2> HIDE DEF n
  <2>7. n \in Seq(Wall)
    BY <2>4, <2>5, <2>6
  <2> QED  BY <2>1, <2>4, <2>7
<1> HIDE DEF n
<1>4. /\ y \in World(D) /\ y.obj = x.obj /\ y.start = x.start /\ y.credits = x.credits
      /\ y.barriers = n
  <2> HIDE DEF y
  <2> QED  BY <1>1, <1>2, <1>3 DEF World
<1> HIDE DEF y
<1>5. y \in Turns(D, w)
  BY <1>1, <1>3, <1>4 DEF Turns, Fair, Follows
<1> QED  BY <1>5 DEF y

LEMMA FlyArrowTurns ==
  ASSUME SimulationAssumption, NEW D \in SUBSET Unit, NEW w \in World(D),
         NEW x \in Turns(D, w), NEW a \in Arrows(D), NEW e,
         order \in Seq(Unit), IsInjective(order)
  PROVE  FlyArrow(x, a, e).w \in Turns(D, w) /\ FlyArrow(x, a, e).arrow \in Arrows(D)
<1> DEFINE flown == [a EXCEPT !.left = @ - 1]
           targets == Targets(x, a, e.near)
           stopped == e.barrier > 0 /\ BarrierStops(x, a, e.barrier)
<1>1. flown \in Arrows(D) /\ a.damage \in Nat /\ a.shooter \in D
  BY DEF Arrows
<1>2. DOMAIN x.obj = D
  BY DEF Turns, World
<1>3. /\ targets \in Seq(D) /\ IsInjective(targets)
      /\ \A i \in DOMAIN targets : targets[i] \in LivingEnemies(x, Owner[a.shooter])
  <2>1. /\ targets \in Seq(Unit) /\ IsInjective(targets)
        /\ ToSet(targets) \subseteq LivingEnemies(x, Owner[a.shooter])
    BY KeepIs DEF Targets
  <2> HIDE DEF targets
  <2>2. \A i \in DOMAIN targets : targets[i] \in LivingEnemies(x, Owner[a.shooter])
    BY <2>1 DEF ToSet
  <2>3. \A i \in DOMAIN targets : targets[i] \in D
    BY <1>2, <2>2 DEF LivingEnemies
  <2>4. targets \in Seq(D)
    <3>1. DOMAIN targets = 1..Len(targets) /\ Len(targets) \in Nat
          /\ targets = [i \in 1..Len(targets) |-> targets[i]]
      BY <2>1
    <3> QED  BY <2>3, <3>1
  <2> QED  BY <2>1, <2>2, <2>4
<1>4. CASE stopped
  <2>1. FlyArrow(x, a, e)
          = [w |-> StopArrow(x, e.barrier, a.damage), gone |-> TRUE, arrow |-> flown]
    BY <1>4 DEF FlyArrow
  <2> QED  BY <1>1, <2>1, StopArrowTurns
<1>5. CASE ~stopped /\ ~a.splash
  <2>1. CASE targets = <<>>
    <3>1. FlyArrow(x, a, e) = [w |-> x, gone |-> flown.left < 0, arrow |-> flown]
      BY <1>5, <2>1 DEF FlyArrow
    <3> QED  BY <1>1, <3>1
  <2>2. CASE targets # <<>>
    <3>1. FlyArrow(x, a, e)
            = [w |-> Strike(x, a.shooter, Head(targets), a.damage, a.types),
               gone |-> TRUE, arrow |-> flown]
      BY <1>5, <2>2 DEF FlyArrow
    <3>2. /\ Head(targets) \in D /\ Owner[a.shooter] # Owner[Head(targets)]
          /\ Alive(x.obj[Head(targets)])
      <4>1. Head(targets) = targets[1] /\ 1 \in DOMAIN targets
        <5> HIDE DEF targets
        <5> QED  BY <1>3, <2>2
      <4> HIDE DEF targets
      <4> QED  BY <1>2, <1>3, <4>1 DEF LivingEnemies
    <3> HIDE DEF targets, flown
    <3> QED  BY <1>1, <3>1, <3>2, StrikeTurns
  <2> QED  BY <2>1, <2>2
<1>6. CASE ~stopped /\ a.splash
  <2>1. FlyArrow(x, a, e)
          = [w |-> IF flown.left <= 0 THEN Burst(x, a, targets) ELSE x,
             gone |-> flown.left <= 0 /\ ~e.exact, arrow |-> flown]
    BY <1>6 DEF FlyArrow
  <2>2. Burst(x, a, targets) \in Turns(D, w)
    <3> HIDE DEF targets
    <3> QED  BY <1>3, BurstTurns
  <2> HIDE DEF targets, flown
  <2> QED  BY <1>1, <2>1, <2>2
<1> QED  BY <1>4, <1>5, <1>6
\* What HandleArrows computes for each set of arrows.
Flight(x, a, e) ==
  LET f == FlyArrow(x.w, a, e) IN
    [w |-> f.w, arrows |-> IF f.gone THEN x.arrows ELSE Append(x.arrows, f.arrow)]

Flies(h, w, flying, encounter) ==
  LET n == [i \in DOMAIN flying |-> i] IN
  h = [T \in SUBSET DOMAIN n |->
         IF T = {} THEN [w |-> w, arrows |-> <<>>]
         ELSE Flight(h[T \ {Max(T)}], flying[n[Max(T)]], encounter[n[Max(T)]])]

LEMMA HandleArrowsUnfolds ==
  ASSUME NEW w, NEW flying, NEW encounter
  PROVE  HandleArrows(w, flying, encounter)
           = (CHOOSE h : Flies(h, w, flying, encounter))[DOMAIN [i \in DOMAIN flying |-> i]]
BY DEF HandleArrows, FoldLeft, MapThenFoldSet, Flies, Flight

LEMMA ArrowsTurn ==
  ASSUME SimulationAssumption, NEW D \in SUBSET Unit, NEW w \in World(D),
         NEW x \in Turns(D, w), NEW s \in Seq(Arrows(D)), NEW encounter,
         order \in Seq(Unit), IsInjective(order)
  PROVE  /\ HandleArrows(x, s, encounter).w \in Turns(D, w)
         /\ HandleArrows(x, s, encounter).arrows \in Seq(Arrows(D))
<1> DEFINE n == [i \in DOMAIN s |-> i]
           h == CHOOSE h : Flies(h, x, s, encounter)
           c == Backwards(n)
           V == [w : Turns(D, w), arrows : Seq(Arrows(D))]
           first == [w |-> x, arrows |-> <<>>]
           next == [i \in DOMAIN n |-> [v \in V |-> Flight(v, s[n[i]], encounter[n[i]])]]
<1>1. HandleArrows(x, s, encounter) = h[DOMAIN n]
  BY HandleArrowsUnfolds
<1>2. n \in Seq(Nat) /\ DOMAIN n = DOMAIN s /\ \A i \in DOMAIN n : n[i] = i
  OBVIOUS
<1>3. first \in V
  OBVIOUS
<1>4. \A i \in DOMAIN s, v \in V : Flight(v, s[i], encounter[i]) \in V
  <2> SUFFICES ASSUME NEW i \in DOMAIN s, NEW v \in V
               PROVE  Flight(v, s[i], encounter[i]) \in V
    OBVIOUS
  <2>1. v.w \in Turns(D, w) /\ v.arrows \in Seq(Arrows(D)) /\ s[i] \in Arrows(D)
    OBVIOUS
  <2> DEFINE f == FlyArrow(v.w, s[i], encounter[i])
  <2>2. f.w \in Turns(D, w) /\ f.arrow \in Arrows(D)
    BY <2>1, FlyArrowTurns
  <2> HIDE DEF f
  <2>3. [w |-> f.w, arrows |-> IF f.gone THEN v.arrows ELSE Append(v.arrows, f.arrow)] \in V
    BY <2>1, <2>2
  <2> QED  BY <2>3 DEF Flight, f
<1> HIDE DEF first
<1>5. PICK g : IsFold(g, DOMAIN n, V, first, c, next)
  <2>1. \A i \in DOMAIN n, v \in V : next[i][v] \in V
    <3> HIDE DEF V
    <3> QED  BY <1>2, <1>4
  <2>2. \A T \in SUBSET DOMAIN n : T # {} => c[T] \in T
    <3> HIDE DEF n
    <3> QED  BY <1>2, BackwardsIsIn
  <2>3. IsFiniteSet(DOMAIN n)
    <3> HIDE DEF n
    <3> QED  BY <1>2, BackwardsIsIn
  <2> HIDE DEF c, next, V, n
  <2> QED  BY <1>3, <2>1, <2>2, <2>3, FoldExists
<1> HIDE DEF V
<1>6. g \in [SUBSET DOMAIN n -> V] /\ g[{}] = first
  <2> HIDE DEF c, next, n
  <2> QED  BY <1>5 DEF IsFold, Folds
<1>7. ASSUME NEW T \in SUBSET DOMAIN n, T # {}
      PROVE  g[T] = Flight(g[T \ {Max(T)}], s[n[Max(T)]], encounter[n[Max(T)]])
  <2>1. g[T] = next[c[T]][g[T \ {c[T]}]]
    <3> HIDE DEF c, next, n
    <3> QED  BY <1>5, <1>7, Zenon DEF IsFold, Folds
  <2>2. c[T] = Max(T) /\ Max(T) \in DOMAIN n
    <3> HIDE DEF n
    <3> QED  BY <1>2, <1>7, BackwardsIsIn DEF Backwards
  <2>3. g[T \ {Max(T)}] \in V
    <3> HIDE DEF n
    <3> QED  BY <1>6
  <2> HIDE DEF n
  <2> QED  BY <2>1, <2>2, <2>3
<1>8. Flies(g, x, s, encounter)
  BY <1>6, <1>7 DEF Flies, first
<1>9. Flies(h, x, s, encounter)
  BY <1>8
<1> HIDE DEF h
<1> DEFINE F == {T \in SUBSET DOMAIN n : h[T] \in V}
<1>10. {} \in F
  BY <1>3, <1>9 DEF Flies, first
<1>11. ASSUME NEW T \in SUBSET DOMAIN n, T # {}, T \ {Max(T)} \in F
       PROVE  T \in F
  <2>1. Max(T) \in DOMAIN n
    <3> HIDE DEF n
    <3> QED  BY <1>2, <1>11, BackwardsIsIn
  <2>2. h[T] = Flight(h[T \ {Max(T)}], s[n[Max(T)]], encounter[n[Max(T)]])
    BY <1>9, <1>11 DEF Flies
  <2>3. n[Max(T)] = Max(T) /\ Max(T) \in DOMAIN s
    BY <1>2, <2>1
  <2> HIDE DEF n
  <2> QED  BY <1>4, <1>11, <2>2, <2>3
<1>12. DOMAIN n \in F
  <2> HIDE DEF F, n
  <2> QED  BY <1>2, <1>10, <1>11, BackwardsInduction
<1> QED  BY <1>1, <1>12 DEF V

LEMMA DropBarriersTurns ==
  ASSUME NEW D, NEW w \in World(D), NEW x \in Turns(D, w)
  PROVE  LET y == DropBarriers(x) IN
           /\ y \in Turns(D, w) /\ y.obj = x.obj
           /\ \A i \in DOMAIN y.barriers :
                LET u == y.barriers[i].weaver IN
                  u \in D /\ ~Alive(y.obj[u]) => y.barriers[i].hp = 0
<1> DEFINE y == DropBarriers(x)
           b == x.barriers
           falls(i) == b[i].weaver \in DOMAIN x.obj /\ ~Alive(x.obj[b[i].weaver])
           n == [i \in DOMAIN b |-> IF falls(i) THEN [b[i] EXCEPT !.hp = 0] ELSE b[i]]
<1>1. x \in World(D) /\ Fair(x) /\ Follows(x, w) /\ b \in Seq(Wall) /\ DOMAIN x.obj = D
  BY DEF Turns, World
<1>2. y = [x EXCEPT !.barriers = n]
  BY <1>1 DEF DropBarriers, World
<1>3. n \in Seq(Wall) /\ DOMAIN n = DOMAIN b
      /\ \A j \in DOMAIN b : /\ n[j].weaver = b[j].weaver
                             /\ falls(j) => n[j].hp = 0
  <2>1. \A m \in Wall : /\ [m EXCEPT !.hp = 0] \in Wall
                        /\ [m EXCEPT !.hp = 0].weaver = m.weaver
                        /\ [m EXCEPT !.hp = 0].hp = 0
    BY DEF Wall
  <2>2. \A j \in DOMAIN b : b[j] \in Wall
    BY <1>1
  <2>3. DOMAIN b = 1..Len(b) /\ Len(b) \in Nat
    BY <1>1
  <2> HIDE DEF falls
  <2>4. \A j \in DOMAIN b : /\ n[j] \in Wall /\ n[j].weaver = b[j].weaver
                            /\ falls(j) => n[j].hp = 0
    BY <2>1, <2>2
  <2>5. DOMAIN n = DOMAIN b /\ n = [j \in 1..Len(b) |-> n[j]]
    BY <2>3
  <2>6. n \in Seq(Wall)
    <3>1. PICK k \in Nat : k = Len(b) /\ DOMAIN b = 1..k
      BY <2>3
    <3>2. n \in [1..k -> Wall]
      <4> HIDE DEF n
      <4> QED  BY <2>4, <2>5, <3>1
    <3> HIDE DEF n
    <3> QED  BY <3>1, <3>2
  <2> HIDE DEF n
  <2> QED  BY <2>4, <2>5, <2>6
<1> HIDE DEF n
<1>4. /\ y \in World(D) /\ y.obj = x.obj /\ y.start = x.start /\ y.credits = x.credits
      /\ y.barriers = n
  <2> HIDE DEF y
  <2> QED  BY <1>1, <1>2, <1>3 DEF World
<1> HIDE DEF y
<1>5. y \in Turns(D, w)
  BY <1>1, <1>3, <1>4 DEF Turns, Fair, Follows
<1>6. \A i \in DOMAIN y.barriers :
        y.barriers[i].weaver \in D /\ ~Alive(y.obj[y.barriers[i].weaver])
          => y.barriers[i].hp = 0
  BY <1>1, <1>3, <1>4
<1> QED  BY <1>4, <1>5, <1>6 DEF y
-----------------------------------------------------------------------------
(* The inductive invariant *)

Armies ==
  /\ phase \in {"placing", "fighting"} /\ round \in 0..MaxRound
  /\ step \in 0..NumberOfSteps
  /\ DOMAIN start \in SUBSET Unit /\ start \in [DOMAIN start -> Veteran]
  /\ order \in Seq(Unit) /\ IsInjective(order) /\ ToSet(order) = DOMAIN start
  /\ DOMAIN obj \in SUBSET Unit /\ obj \in [DOMAIN obj -> Soldier]
  /\ upgrades \in Seq(Upgrade) /\ barriers \in Seq(Wall)
  /\ playerHp \in [{0, 1} -> Int] /\ \A p \in {0, 1} : playerHp[p] <= InitialPlayerHP

\* While a round is simulated, those who fight are those who were placed.
InFight ==
  phase = "fighting" =>
    /\ round < MaxRound /\ step < NumberOfSteps
    /\ DOMAIN obj = DOMAIN start
    /\ credits \in Seq((DOMAIN obj) \X (DOMAIN obj))
    /\ attacks \in Seq(Blows(DOMAIN obj)) /\ spawning \in Seq(Shots(DOMAIN obj))
    /\ arrows \in Seq(Arrows(DOMAIN obj))
    /\ Recorded(start, obj)

\* The barriers of a weaver, and whether it has spawned that of this round.
Sustained(walls, u) == {i \in DOMAIN walls : walls[i].weaver = u}
AtWork(u) == phase = "fighting" /\ u \in DOMAIN obj /\ obj[u].woven

Weaving ==
  /\ \A u \in Unit :
       Cardinality(Sustained(barriers, u)) <= IF AtWork(u) THEN round + 1 ELSE round
  /\ \A u \in Unit : AtWork(u) => Info[OfType[u]].kind = "weaver"

SimulationInv ==
  Armies /\ InFight /\ Settled(credits, obj) /\ NoLevelOwed /\ BarriersOfTheDeadFall
    /\ Weaving
-----------------------------------------------------------------------------
(* Between the rounds *)

LEMMA PlacingIsQuiet ==
  ASSUME SimulationInv, phase = "placing"
  PROVE  \A u \in Unit : Cardinality(Sustained(barriers, u)) <= round
BY DEF SimulationInv, Weaving, AtWork

\* Everything but the units that are placed and the upgrades is as it was.
LEMMA QuietStep ==
  ASSUME SimulationInv, phase = "placing",
         UNCHANGED <<phase, round, combat, barriers, playerHp>>
  PROVE  /\ InFight' /\ Settled(credits, obj)' /\ BarriersOfTheDeadFall' /\ Weaving'
         /\ step' = step /\ obj' = obj
<1>1. UNCHANGED <<phase, round, obj, credits, step, barriers>>
  BY DEF combat
<1>2. InFight'
  BY <1>1 DEF InFight
<1>3. Settled(credits, obj)'
  BY <1>1 DEF SimulationInv, Settled
<1>4. BarriersOfTheDeadFall'
  BY <1>1 DEF SimulationInv, BarriersOfTheDeadFall
<1>5. Weaving'
  <2>1. \A u : AtWork(u)' = AtWork(u)
    BY <1>1 DEF AtWork
  <2>2. \A u : Sustained(barriers, u)' = Sustained(barriers, u)
    BY <1>1 DEF Sustained
  <2> QED  BY <1>1, <2>1, <2>2 DEF SimulationInv, Weaving
<1> QED  BY <1>1, <1>2, <1>3, <1>4, <1>5

LEMMA AddUnitKeeps ==
  ASSUME SimulationAssumption, SimulationInv, NEW u \in Unit, AddUnit(u)
  PROVE  SimulationInv'
<1>1. /\ phase = "placing" /\ u \notin DOMAIN start
      /\ start' = [v \in DOMAIN start \cup {u} |->
                     IF v = u THEN [level |-> 1, exp |-> 0] ELSE start[v]]
      /\ order' = Append(order, u)
      /\ UNCHANGED <<phase, round, upgrades, combat, barriers, playerHp>>
  BY DEF AddUnit
<1>2. InFight' /\ Settled(credits, obj)' /\ BarriersOfTheDeadFall' /\ Weaving'
      /\ step' = step /\ obj' = obj
  BY <1>1, QuietStep
<1>3. Armies
  BY DEF SimulationInv
<1>4. [level |-> 1, exp |-> 0] \in Veteran
  BY DEF Veteran, UnitLevelMax
<1>5. DOMAIN start' \in SUBSET Unit /\ start' \in [DOMAIN start' -> Veteran]
  BY <1>1, <1>3, <1>4 DEF Armies
<1>6. order' \in Seq(Unit) /\ IsInjective(order') /\ ToSet(order') = DOMAIN start'
  BY <1>1, <1>3, AppendIs DEF Armies
<1>7. Armies'
  BY <1>1, <1>2, <1>3, <1>5, <1>6 DEF Armies
<1>8. NoLevelOwed'
  <2> SUFFICES ASSUME NEW v \in DOMAIN start', start'[v].level < UnitLevelMax
               PROVE  start'[v].exp < ExpRequired(OfType[v], start'[v].level)
    BY DEF NoLevelOwed
  <2>1. CASE v = u
    <3>1. start'[v].level = 1 /\ start'[v].exp = 0
      BY <1>1, <2>1
    <3>2. ExpRequired(OfType[u], 1) \in Nat \ {0}
      BY LevelsAreNumbers DEF UnitLevelMax
    <3> QED  BY <2>1, <3>1, <3>2
  <2>2. CASE v # u
    BY <1>1, <2>2 DEF SimulationInv, NoLevelOwed
  <2> QED  BY <2>1, <2>2
<1> QED  BY <1>2, <1>7, <1>8 DEF SimulationInv

LEMMA RemoveUnitKeeps ==
  ASSUME SimulationAssumption, SimulationInv, NEW u \in Unit, RemoveUnit(u)
  PROVE  SimulationInv'
<1>1. /\ phase = "placing" /\ u \in DOMAIN start
      /\ start' = [v \in DOMAIN start \ {u} |-> start[v]]
      /\ order' = Keep(order, DOMAIN start \ {u})
      /\ UNCHANGED <<phase, round, upgrades, combat, barriers, playerHp>>
  BY DEF RemoveUnit
<1>2. InFight' /\ Settled(credits, obj)' /\ BarriersOfTheDeadFall' /\ Weaving'
      /\ step' = step /\ obj' = obj
  BY <1>1, QuietStep
<1>3. Armies
  BY DEF SimulationInv
<1>4. DOMAIN start' \in SUBSET Unit /\ start' \in [DOMAIN start' -> Veteran]
  BY <1>1, <1>3 DEF Armies
<1>5. order' \in Seq(Unit) /\ IsInjective(order') /\ ToSet(order') = DOMAIN start'
  BY <1>1, <1>3, KeepIs DEF Armies
<1>6. Armies'
  BY <1>1, <1>2, <1>3, <1>4, <1>5 DEF Armies
<1>7. NoLevelOwed'
  BY <1>1 DEF SimulationInv, NoLevelOwed
<1> QED  BY <1>2, <1>6, <1>7 DEF SimulationInv

LEMMA AddUnitUpgradeKeeps ==
  ASSUME SimulationInv, NEW g \in Upgrade, AddUnitUpgrade(g)
  PROVE  SimulationInv'
<1>1. /\ phase = "placing" /\ upgrades' = Append(upgrades, g)
      /\ UNCHANGED <<phase, round, start, order, combat, barriers, playerHp>>
  BY DEF AddUnitUpgrade
<1>2. InFight' /\ Settled(credits, obj)' /\ BarriersOfTheDeadFall' /\ Weaving'
      /\ step' = step /\ obj' = obj
  BY <1>1, QuietStep
<1>3. Armies'
  BY <1>1, <1>2 DEF SimulationInv, Armies
<1>4. NoLevelOwed'
  BY <1>1 DEF SimulationInv, NoLevelOwed
<1> QED  BY <1>2, <1>3, <1>4 DEF SimulationInv

\* Without upgrades the hit points are those of the type and level.
LEMMA NoUpgrades ==
  ASSUME NEW t, NEW level, Info[t].hp * level \in Int
  PROVE  HitpointsMax(t, level, <<>>) = Info[t].hp * level
<1>1. ASSUME NEW f(_)
      PROVE  Sum(f, <<>>) = 0
  <2> DEFINE Sums0(h) ==
               h = [T \in SUBSET DOMAIN <<>> |->
                      IF T = {} THEN 0
                      ELSE f(<<>>[CHOOSE x \in T : TRUE]) + h[T \ {CHOOSE x \in T : TRUE}]]
             none == [T \in SUBSET DOMAIN <<>> |-> 0]
  <2>1. Sum(f, <<>>) = (CHOOSE h : Sums0(h))[DOMAIN <<>>]
    BY DEF Sum, FoldSeq, FoldFunction, FoldFunctionOnSet, MapThenFoldSet
  <2>2. DOMAIN <<>> = {}
    OBVIOUS
  <2>3. Sums0(none)
    BY <2>2
  <2>4. Sums0(CHOOSE h : Sums0(h))
    <3> HIDE DEF Sums0, none
    <3> QED  BY <2>3
  <2>5. \A h : Sums0(h) => h[{}] = 0
    BY <2>2
  <2> HIDE DEF Sums0
  <2> QED  BY <2>1, <2>2, <2>4, <2>5
<1> QED  BY <1>1 DEF HitpointsMax

LEMMA RoundStartIs ==
  ASSUME SimulationAssumption, Armies, NEW u \in DOMAIN start, NEW timer \in Nat
  PROVE  LET o == RoundStartState(u, timer) IN
           /\ o \in Soldier /\ Alive(o) /\ ~o.woven
           /\ o.level = start[u].level /\ o.exp = start[u].exp
<1>1. PICK level \in 1..UnitLevelMax : level = start[u].level
  BY DEF Armies, Veteran
<1>2. start[u].exp \in Nat /\ u \in Unit
  BY DEF Armies, Veteran
<1>3. PICK m \in Nat \ {0} : m = Info[OfType[u]].hp * level
  BY <1>2, LevelsAreNumbers
<1>4. HitpointsMax(OfType[u], level, <<>>) = m
  BY <1>3, NoUpgrades
<1>5. UpgradesOf(u) \in Seq(Upgrade)
  BY KeepIs DEF Armies, UpgradesOf
<1> QED  BY <1>1, <1>2, <1>3, <1>4, <1>5 DEF RoundStartState, Soldier, Alive
LEMMA PrepareKeeps ==
  ASSUME SimulationAssumption, SimulationInv, Prepare
  PROVE  SimulationInv'
<1>1. /\ phase = "placing" /\ round < MaxRound /\ phase' = "fighting" /\ step' = 0
      /\ attacks' = <<>> /\ spawning' = <<>> /\ arrows' = <<>> /\ credits' = <<>>
      /\ UNCHANGED <<round, start, order, upgrades, barriers, playerHp>>
  BY DEF Prepare, data
<1>2. PICK late \in [DOMAIN start -> {0, 1}] :
        obj' = [u \in DOMAIN start |-> RoundStartState(u, FirstTimer(u) + late[u])]
  BY DEF Prepare
<1>3. Armies
  BY DEF SimulationInv
<1>4. /\ DOMAIN obj' = DOMAIN start
      /\ \A u \in DOMAIN start :
           /\ obj'[u] \in Soldier /\ Alive(obj'[u]) /\ ~obj'[u].woven
           /\ obj'[u].level = start[u].level /\ obj'[u].exp = start[u].exp
  <2> SUFFICES ASSUME NEW u \in DOMAIN start
               PROVE  LET o == RoundStartState(u, FirstTimer(u) + late[u]) IN
                        /\ o \in Soldier /\ Alive(o) /\ ~o.woven
                        /\ o.level = start[u].level /\ o.exp = start[u].exp
    BY <1>2
  <2>1. FirstTimer(u) + late[u] \in Nat
    BY DEF FirstTimer
  <2> QED  BY <1>3, <2>1, RoundStartIs
<1>5. obj' \in [DOMAIN obj' -> Soldier]
  <2>1. obj' = [u \in DOMAIN start |-> obj'[u]]
    BY <1>2
  <2> QED  BY <1>4, <2>1
<1>6. NumberOfSteps \in Nat \ {0} /\ round \in Nat
  BY <1>3 DEF SimulationAssumption, BoundAssumption, Armies
<1>7. Armies'
  BY <1>1, <1>3, <1>4, <1>5, <1>6 DEF Armies
<1>8. NoLevelOwed'
  BY <1>1 DEF SimulationInv, NoLevelOwed
<1>9. Recorded(start, obj)'
  BY <1>1, <1>4 DEF SimulationInv, NoLevelOwed, Recorded
<1>10. InFight'
  BY <1>1, <1>4, <1>6, <1>9 DEF InFight
<1>11. Settled(credits, obj)'
  BY <1>1, <1>4 DEF Settled
<1>12. BarriersOfTheDeadFall'
  BY <1>4 DEF BarriersOfTheDeadFall
<1>13. Weaving'
  <2>1. \A u : ~AtWork(u)'
    BY <1>4 DEF AtWork
  <2>2. \A u : Sustained(barriers, u)' = Sustained(barriers, u)
    BY <1>1 DEF Sustained
  <2> QED  BY <1>1, <2>1, <2>2, PlacingIsQuiet DEF Weaving
<1> QED  BY <1>7, <1>8, <1>10, <1>11, <1>12, <1>13 DEF SimulationInv

\* Nobody and nothing is there.
LEMMA NobodyIsFair ==
  ASSUME phase = "placing", round \in 0..MaxRound, step \in 0..NumberOfSteps,
         start = <<>>, order = <<>>, upgrades = <<>>, obj = <<>>, barriers = <<>>,
         credits = <<>>, playerHp \in [{0, 1} -> Int],
         \A p \in {0, 1} : playerHp[p] <= InitialPlayerHP
  PROVE  SimulationInv
<1>1. DOMAIN start = {} /\ DOMAIN obj = {} /\ DOMAIN barriers = {}
      /\ DOMAIN credits = {} /\ DOMAIN order = {}
  OBVIOUS
<1>2. start \in [{} -> Veteran] /\ obj \in [{} -> Soldier]
  BY <1>1
<1>3. ToSet(order) = {} /\ IsInjective(order)
  BY <1>1 DEF ToSet, IsInjective
<1>4. Armies
  BY <1>1, <1>2, <1>3 DEF Armies
<1>5. InFight
  BY DEF InFight
<1>6. Settled(credits, obj)
  BY <1>1 DEF Settled
<1>7. NoLevelOwed /\ BarriersOfTheDeadFall
  BY <1>1 DEF NoLevelOwed, BarriersOfTheDeadFall
<1>8. Weaving
  <2>1. \A u : Sustained(barriers, u) = {}
    BY <1>1 DEF Sustained
  <2>2. \A u : Cardinality(Sustained(barriers, u)) = 0 /\ ~AtWork(u)
    BY <2>1, FS_EmptySet DEF AtWork
  <2>3. 0 <= round
    OBVIOUS
  <2> QED  BY <2>2, <2>3 DEF Weaving
<1> QED  BY <1>4, <1>5, <1>6, <1>7, <1>8 DEF SimulationInv

LEMMA InitSimulation == ASSUME SimulationAssumption, Init PROVE SimulationInv
<1>1. /\ NumberOfSteps \in Nat /\ MaxRound \in Nat /\ InitialPlayerHP \in Int
  BY DEF SimulationAssumption, BoundAssumption
<1>2. playerHp \in [{0, 1} -> Int] /\ \A p \in {0, 1} : playerHp[p] <= InitialPlayerHP
  BY <1>1 DEF Init
<1>3. step \in 0..NumberOfSteps /\ round \in 0..MaxRound
  BY <1>1 DEF Init
<1> QED  BY <1>2, <1>3, NobodyIsFair DEF Init

LEMMA ClearKeeps ==
  ASSUME SimulationAssumption, SimulationInv, Clear
  PROVE  SimulationInv'
<1>1. Armies
  BY DEF SimulationInv
<1>2. /\ phase' = "placing" /\ round' = round /\ step' = step
      /\ start' = <<>> /\ order' = <<>> /\ upgrades' = <<>> /\ obj' = <<>>
      /\ barriers' = <<>> /\ credits' = <<>>
      /\ playerHp' = [p \in {0, 1} |-> InitialPlayerHP]
  BY DEF Clear
<1>3. playerHp' \in [{0, 1} -> Int] /\ \A p \in {0, 1} : playerHp'[p] <= InitialPlayerHP
  BY <1>2 DEF SimulationAssumption, BoundAssumption
<1>4. (/\ phase = "placing" /\ round \in 0..MaxRound /\ step \in 0..NumberOfSteps
       /\ start = <<>> /\ order = <<>> /\ upgrades = <<>> /\ obj = <<>>
       /\ barriers = <<>> /\ credits = <<>> /\ playerHp \in [{0, 1} -> Int]
       /\ \A p \in {0, 1} : playerHp[p] <= InitialPlayerHP)'
  BY <1>1, <1>2, <1>3 DEF Armies
<1> QED  BY <1>4, NobodyIsFair, PTL

-----------------------------------------------------------------------------
(* A frame *)

LEMMA MaxIsNat == ASSUME NEW n \in Int PROVE Max({0, n}) \in Nat
<1>1. \E x \in {0, n} : \A y \in {0, n} : x >= y
  OBVIOUS
<1>2. Max({0, n}) \in {0, n} /\ \A y \in {0, n} : Max({0, n}) >= y
  BY <1>1 DEF Max
<1> QED  BY <1>2

\* The update of a unit sets its timer, and starts the work of a weaver.
LEMMA UpdateIs ==
  ASSUME SimulationAssumption, NEW u \in Unit, NEW o \in Soldier, NEW attacking
  PROVE  LET n == UpdateUnit(o, u, attacking) IN
           /\ n \in Soldier /\ n.hp = o.hp /\ n.level = o.level /\ n.exp = o.exp
           /\ n.woven = IF Alive(o) THEN Info[OfType[u]].kind = "weaver" ELSE o.woven
<1>1. CASE ~Alive(o)
  BY <1>1 DEF UpdateUnit
<1>2. CASE Alive(o)
  <2>1. Info[OfType[u]].timer \in Nat
    BY DEF SimulationAssumption, UnitAssumption
  <2>2. o.timer - 1 \in Int
    BY DEF Soldier
  <2>3. PICK k \in Nat : k = IF attacking THEN Info[OfType[u]].timer
                             ELSE Max({0, o.timer - 1})
    BY <2>1, <2>2, MaxIsNat
  <2>4. PICK b \in BOOLEAN : b = (Info[OfType[u]].kind = "weaver")
    OBVIOUS
  <2>5. UpdateUnit(o, u, attacking) = [o EXCEPT !.timer = k, !.woven = b]
    BY <1>2, <2>3, <2>4 DEF UpdateUnit, Soldier
  <2> QED  BY <1>2, <2>4, <2>5 DEF Soldier
<1> QED  BY <1>1, <1>2

\* Who attacks is in the fight, and so is whom it attacks, on the other side.
LEMMA TargetedIs ==
  ASSUME NEW w, NEW f \in Targeted(w)
  PROVE  /\ DOMAIN f \subseteq DOMAIN w.obj
         /\ \A u \in DOMAIN f : f[u] \in LivingEnemies(w, Owner[u])
BY DEF Targeted, Ready
LEMMA SpawnedAre ==
  ASSUME NEW D, NEW w, spawning \in Seq(Shots(D))
  PROVE  Spawned(w) \in Seq(Arrows(D))
<1>1. PICK s \in Seq(Shots(D)) :
        s = Keep(Due(CountDown(spawning)),
                 {a \in ToSet(CountDown(spawning)) : Alive(w.obj[a.shooter])})
  BY CountedDown, KeepIs
<1>2. Spawned(w) = [i \in DOMAIN s |-> Arrow(s[i])]
  BY <1>1 DEF Spawned
<1>3. \A a \in Shots(D) : Arrow(a) \in Arrows(D)
  BY DEF Shots, Arrows, Arrow
<1>4. DOMAIN s = 1..Len(s) /\ Len(s) \in Nat /\ \A i \in 1..Len(s) : s[i] \in Shots(D)
  <2> DEFINE X == Shots(D)
  <2>1. s \in Seq(X)
    OBVIOUS
  <2> HIDE DEF X
  <2>2. DOMAIN s = 1..Len(s) /\ Len(s) \in Nat /\ \A i \in 1..Len(s) : s[i] \in X
    BY <2>1
  <2> QED  BY <2>2 DEF X
<1> QED  BY <1>2, <1>3, <1>4

\* The attackers of some kinds, in order.
LEMMA AttackersAre ==
  ASSUME order \in Seq(Unit), NEW w, NEW f \in Targeted(w), NEW kinds
  PROVE  LET s == Attackers(f, kinds) IN
           /\ DOMAIN s = 1..Len(s) /\ Len(s) \in Nat
           /\ \A i \in DOMAIN s : s[i] \in DOMAIN f
<1> DEFINE s == Attackers(f, kinds)
<1>1. s \in Seq(Unit) /\ ToSet(s) \subseteq DOMAIN f
  BY KeepIs DEF Attackers
<1> HIDE DEF s
<1>2. \A i \in DOMAIN s : s[i] \in DOMAIN f
  BY <1>1 DEF ToSet
<1> QED  BY <1>1, <1>2 DEF s

LEMMA BlowsAre ==
  ASSUME SimulationAssumption, order \in Seq(Unit), NEW D \in SUBSET Unit,
         NEW w \in World(D), NEW f \in Targeted(w)
  PROVE  NewBlows(w, f) \in Seq(Blows(D))
<1> DEFINE s == Attackers(f, {"close"})
<1>1. ASSUME NEW u \in DOMAIN f
      PROVE  Blow(w, u, f[u]) \in Blows(D)
  <2>1. u \in D /\ f[u] \in D /\ Owner[f[u]] # Owner[u]
    BY <1>1, TargetedIs DEF World, LivingEnemies
  <2>2. w.obj[u].level \in 1..UnitLevelMax
    BY <2>1 DEF World, Soldier
  <2>3. DamageOf(OfType[u], w.obj[u].level) \in Nat
    BY <2>1, <2>2, LevelsAreNumbers
  <2>4. Info[OfType[u]].damageTypes \in DamageTypes
    BY <2>1 DEF DamageTypes, SimulationAssumption, UnitAssumption
  <2> QED  BY <2>1, <2>3, <2>4 DEF Blow, Blows
<1>2. DOMAIN s = 1..Len(s) /\ Len(s) \in Nat /\ \A i \in DOMAIN s : s[i] \in DOMAIN f
  BY AttackersAre
<1> HIDE DEF s
<1>3. [i \in DOMAIN s |-> Blow(w, s[i], f[s[i]])] \in Seq(Blows(D))
  BY <1>1, <1>2
<1> QED  BY <1>3 DEF s, NewBlows

LEMMA ShotsAre ==
  ASSUME SimulationAssumption, order \in Seq(Unit), NEW D \in SUBSET Unit,
         NEW w \in World(D), NEW f \in Targeted(w), NEW flight \in Int
  PROVE  NewShots(w, f, flight) \in Seq(Shots(D))
<1> DEFINE s == Attackers(f, {"ranged", "cannon"})
<1>1. ASSUME NEW u \in DOMAIN f
      PROVE  Shot(w, u, flight) \in Shots(D)
  <2>1. u \in D
    BY <1>1, TargetedIs DEF World
  <2>2. w.obj[u].level \in 1..UnitLevelMax
    BY <2>1 DEF World, Soldier
  <2>3. DamageOf(OfType[u], w.obj[u].level) \in Nat
    BY <2>1, <2>2, LevelsAreNumbers
  <2>4. Info[OfType[u]].damageTypes \in DamageTypes
    BY <2>1 DEF DamageTypes, SimulationAssumption, UnitAssumption
  <2>5. RangedShot(w, u, flight) \in Shots(D)
    BY <2>1, <2>3, <2>4 DEF RangedShot, Shots
  <2>6. CannonShot(w, u, flight) \in Shots(D)
    BY <2>1, <2>3, <2>4 DEF CannonShot, Shots
  <2> QED  BY <2>5, <2>6 DEF Shot
<1>2. DOMAIN s = 1..Len(s) /\ Len(s) \in Nat /\ \A i \in DOMAIN s : s[i] \in DOMAIN f
  BY AttackersAre
<1> HIDE DEF s
<1>3. [i \in DOMAIN s |-> Shot(w, s[i], flight)] \in Seq(Shots(D))
  BY <1>1, <1>2
<1> QED  BY <1>3 DEF s, NewShots

\* A new barrier for each living weaver that has none in this round.
LEMMA NewBarriersAre ==
  ASSUME SimulationAssumption, order \in Seq(Unit), IsInjective(order),
         NEW D \in SUBSET Unit, NEW w \in World(D)
  PROVE  LET b == NewBarriers(w) IN
           /\ b \in Seq(Wall)
           /\ \A i \in DOMAIN b :
                LET u == b[i].weaver IN
                  /\ u \in D /\ Info[OfType[u]].kind = "weaver"
                  /\ Alive(w.obj[u]) /\ ~w.obj[u].woven
           /\ \A i, j \in DOMAIN b : b[i].weaver = b[j].weaver => i = j
<1> DEFINE W == {u \in DOMAIN w.obj : /\ Info[OfType[u]].kind = "weaver"
                                      /\ Alive(w.obj[u]) /\ ~w.obj[u].woven}
           s == Keep(order, W)
           b == NewBarriers(w)
<1>1. b = [i \in DOMAIN s |-> [weaver |-> s[i], hp |-> Info[OfType[s[i]]].barrierHp]]
  BY DEF NewBarriers
<1>2. s \in Seq(Unit) /\ IsInjective(s) /\ ToSet(s) \subseteq W
  BY KeepIs
<1> HIDE DEF s, W
<1>3. DOMAIN s = 1..Len(s) /\ Len(s) \in Nat
      /\ \A i \in DOMAIN s : s[i] \in W /\ s[i] \in Unit
  BY <1>2 DEF ToSet
<1>4. \A u \in Unit : [weaver |-> u, hp |-> Info[OfType[u]].barrierHp] \in Wall
  BY DEF SimulationAssumption, UnitAssumption, Wall
<1>5. b \in Seq(Wall)
  <2> HIDE DEF b
  <2> QED  BY <1>1, <1>3, <1>4
<1>6. DOMAIN b = DOMAIN s /\ \A i \in DOMAIN b : b[i].weaver = s[i]
  <2> HIDE DEF b
  <2> QED  BY <1>1
<1>7. DOMAIN w.obj = D
  BY DEF World
<1> HIDE DEF b
<1>8. ASSUME NEW i \in DOMAIN b
      PROVE  /\ b[i].weaver \in D /\ Info[OfType[b[i].weaver]].kind = "weaver"
             /\ Alive(w.obj[b[i].weaver]) /\ ~w.obj[b[i].weaver].woven
  BY <1>3, <1>6, <1>7, <1>8 DEF W
<1>9. \A i, j \in DOMAIN b : b[i].weaver = b[j].weaver => i = j
  BY <1>2, <1>6 DEF IsInjective
<1> QED  BY <1>5, <1>8, <1>9 DEF b

\* The survivors never do the other side good, and without any it loses nothing.
LEMMA HurtIs ==
  ASSUME SimulationAssumption, NEW D \in SUBSET Unit, IsFiniteSet(D),
         NEW men \in [D -> Soldier], NEW hp \in [{0, 1} -> Int]
  PROVE  /\ SurvivorsHurt(men, hp) \in [{0, 1} -> Int]
         /\ \A p \in {0, 1} : SurvivorsHurt(men, hp)[p] <= hp[p]
         /\ \A p \in {0, 1} :
              (\A u \in D : Owner[u] = 1 - p => ~Alive(men[u]))
                => SurvivorsHurt(men, hp)[p] = hp[p]
<1> DEFINE cost == [u \in DOMAIN men |-> Info[OfType[u]].cost]
           survivors(p) == {u \in DOMAIN men : Owner[u] = p /\ Alive(men[u])}
<1>1. SurvivorsHurt(men, hp)
        = [p \in {0, 1} |-> hp[p] - SumFunctionOnSet(cost, survivors(1 - p))]
  BY DEF SurvivorsHurt
<1>2. ASSUME NEW p \in {0, 1}
      PROVE  SumFunctionOnSet(cost, survivors(1 - p)) \in Nat
  <2>1. IsFiniteSet(survivors(1 - p))
    <3>1. survivors(1 - p) \in SUBSET D
      OBVIOUS
    <3> HIDE DEF survivors
    <3> QED  BY <3>1, FS_Subset
  <2>2. \A u \in survivors(1 - p) : cost[u] \in Nat
    BY DEF SimulationAssumption, UnitAssumption
  <2> HIDE DEF survivors, cost
  <2> QED  BY <2>1, <2>2, SumIsNat
<1>3. ASSUME NEW p \in {0, 1}, \A u \in D : Owner[u] = 1 - p => ~Alive(men[u])
      PROVE  SumFunctionOnSet(cost, survivors(1 - p)) = 0
  <2>1. survivors(1 - p) = {}
    BY <1>3
  <2> HIDE DEF survivors, cost
  <2> QED  BY <2>1, EmptySum
<1> HIDE DEF cost, survivors
<1> QED  BY <1>1, <1>2, <1>3

\* The world in which a frame starts.
Now == [obj |-> obj, start |-> start, barriers |-> barriers, credits |-> credits]

LEMMA NowIsFair ==
  ASSUME SimulationInv, phase = "fighting"
  PROVE  /\ DOMAIN obj \in SUBSET Unit /\ DOMAIN start = DOMAIN obj
         /\ IsFiniteSet(DOMAIN obj)
         /\ Now \in World(DOMAIN obj) /\ Fair(Now)
<1>1. /\ DOMAIN obj \in SUBSET Unit /\ obj \in [DOMAIN obj -> Soldier]
      /\ start \in [DOMAIN obj -> Veteran] /\ DOMAIN start = DOMAIN obj
      /\ barriers \in Seq(Wall) /\ credits \in Seq((DOMAIN obj) \X (DOMAIN obj))
  BY DEF SimulationInv, Armies, InFight
<1>2. Now \in World(DOMAIN obj)
  BY <1>1 DEF Now, World
<1>3. Fair(Now)
  BY DEF SimulationInv, InFight, Fair, Now
<1>4. IsFiniteSet(DOMAIN obj)
  <2>1. order \in Seq(Unit) /\ ToSet(order) = DOMAIN obj
    BY <1>1 DEF SimulationInv, Armies
  <2>2. order \in Surjection(1..Len(order), DOMAIN obj) /\ Len(order) \in Nat
    <3>1. order \in [1..Len(order) -> DOMAIN obj] /\ Len(order) \in Nat
      BY <2>1 DEF ToSet
    <3>2. \A u \in DOMAIN obj : \E i \in 1..Len(order) : order[i] = u
      BY <2>1 DEF ToSet
    <3> QED  BY <3>1, <3>2 DEF Surjection
  <2> QED  BY <2>2, FS_Interval, FS_Surjection
<1> QED  BY <1>1, <1>2, <1>3, <1>4

\* Where a frame ends: x is the world after the attacks and arrows, in which the
\* barriers of the dead have fallen, and f says whom the units attack.
Frame(x, f) ==
  /\ obj' = [u \in DOMAIN obj |-> UpdateUnit(x.obj[u], u, u \in DOMAIN f)]
  /\ start' = x.start /\ credits' = x.credits
  /\ barriers' = x.barriers \o NewBarriers(x)
  /\ \A i \in DOMAIN x.barriers :
       LET u == x.barriers[i].weaver IN
         u \in DOMAIN obj /\ ~Alive(x.obj[u]) => x.barriers[i].hp = 0

\* What becomes of the round.
RoundGoesOn ==
  /\ step' = step + 1
  /\ \/ /\ CheckIsLastFrame(obj', step)
        /\ phase' = "placing" /\ round' = round + 1
        /\ playerHp' = SurvivorsHurt(obj', playerHp)
     \/ /\ ~CheckIsLastFrame(obj', step)
        /\ phase' = "fighting" /\ UNCHANGED <<round, playerHp>>
  /\ UNCHANGED <<order, upgrades>>

LEMMA StepDoes ==
  ASSUME SimulationAssumption, SimulationInv, Step
  PROVE  /\ phase = "fighting"
         /\ \E x \in Turns(DOMAIN obj, Now) : \E f \in Targeted(x) : Frame(x, f)
         /\ RoundGoesOn
         /\ attacks' \in Seq(Blows(DOMAIN obj)) /\ spawning' \in Seq(Shots(DOMAIN obj))
         /\ arrows' \in Seq(Arrows(DOMAIN obj))
<1> DEFINE D == DOMAIN obj
<1>1. phase = "fighting"
  BY DEF Step
<1>2. PICK w1, flying, encounter, h, w2, targeted, flight :
        /\ w1 = HandleScheduledAttacks(Now)
        /\ flying = arrows \o Spawned(w1)
        /\ h = HandleArrows(w1, flying, encounter)
        /\ w2 = DropBarriers(h.w)
        /\ targeted \in Targeted(w2)
        /\ flight \in {0, 1}
        /\ UpdateUnits(w2, targeted, flight)
        /\ arrows' = h.arrows
  BY Zenon DEF Step, Now
<1>3. /\ D \in SUBSET Unit /\ Now \in World(D) /\ Fair(Now)
  BY <1>1, NowIsFair
<1>4. /\ attacks \in Seq(Blows(D)) /\ spawning \in Seq(Shots(D))
      /\ arrows \in Seq(Arrows(D)) /\ order \in Seq(Unit) /\ IsInjective(order)
  BY <1>1 DEF SimulationInv, InFight, Armies
<1> HIDE DEF D
<1>5. w1 \in Turns(D, Now)
  BY <1>2, <1>3, <1>4, AttacksTurn
<1>6. flying \in Seq(Arrows(D))
  <2>1. Spawned(w1) \in Seq(Arrows(D))
    BY <1>4, SpawnedAre
  <2> QED  BY <1>2, <1>4, <2>1
<1>7. h.w \in Turns(D, Now) /\ h.arrows \in Seq(Arrows(D))
  BY <1>2, <1>3, <1>4, <1>5, <1>6, ArrowsTurn
<1>8. /\ w2 \in Turns(D, Now)
      /\ \A i \in DOMAIN w2.barriers :
           LET u == w2.barriers[i].weaver IN
             u \in D /\ ~Alive(w2.obj[u]) => w2.barriers[i].hp = 0
  BY <1>2, <1>3, <1>7, DropBarriersTurns
<1>9. w2 \in World(D) /\ DOMAIN w2.obj = D
  BY <1>8 DEF Turns, World
<1>10. Frame(w2, targeted)
  BY <1>2, <1>8, <1>9 DEF Frame, UpdateUnits, D
<1>11. RoundGoesOn
  <2>1. UNCHANGED <<order, upgrades>>
    BY DEF Step
  <2> QED  BY <1>2, <2>1 DEF RoundGoesOn, UpdateUnits, NextFrame
<1>12. attacks' \in Seq(Blows(D))
  <2>1. Pending(CountDown(attacks)) \in Seq(Blows(D))
    BY <1>4, CountedDown
  <2>2. NewBlows(w2, targeted) \in Seq(Blows(D))
    BY <1>2, <1>3, <1>4, <1>9, BlowsAre
  <2> QED  BY <1>2, <2>1, <2>2 DEF UpdateUnits
<1>13. spawning' \in Seq(Shots(D))
  <2>1. Pending(CountDown(spawning)) \in Seq(Shots(D))
    BY <1>4, CountedDown
  <2>2. NewShots(w2, targeted, flight) \in Seq(Shots(D))
    <3>1. flight \in Int
      BY <1>2
    <3> QED  BY <1>2, <1>3, <1>4, <1>9, <3>1, ShotsAre
  <2> QED  BY <1>2, <2>1, <2>2 DEF UpdateUnits
<1>14. arrows' \in Seq(Arrows(D))
  BY <1>2, <1>7
<1> QED  BY <1>1, <1>2, <1>8, <1>10, <1>11, <1>12, <1>13, <1>14 DEF D
\* What the units are after a frame.
LEMMA UnitsAfterFrame ==
  ASSUME SimulationAssumption, SimulationInv, phase = "fighting",
         NEW x \in Turns(DOMAIN obj, Now), NEW f \in Targeted(x), Frame(x, f)
  PROVE  /\ obj' \in [DOMAIN obj -> Soldier] /\ DOMAIN obj' = DOMAIN obj
         /\ \A u \in DOMAIN obj :
              /\ Alive(obj'[u]) <=> Alive(x.obj[u])
              /\ obj'[u].level = x.obj[u].level /\ obj'[u].exp = x.obj[u].exp
              /\ obj'[u].woven = IF Alive(x.obj[u]) THEN Info[OfType[u]].kind = "weaver"
                                                    ELSE obj[u].woven
<1> DEFINE D == DOMAIN obj
<1>1. D \in SUBSET Unit /\ x.obj \in [D -> Soldier]
      /\ \A u \in D : x.obj[u].woven = obj[u].woven
  BY NowIsFair DEF Turns, World, Follows, Now
<1> HIDE DEF D
<1>2. ASSUME NEW u \in D
      PROVE  LET n == UpdateUnit(x.obj[u], u, u \in DOMAIN f) IN
               /\ n \in Soldier /\ n.hp = x.obj[u].hp /\ n.level = x.obj[u].level
               /\ n.exp = x.obj[u].exp
               /\ n.woven = IF Alive(x.obj[u]) THEN Info[OfType[u]].kind = "weaver"
                                               ELSE x.obj[u].woven
  <2>1. x.obj[u] \in Soldier /\ u \in Unit
    BY <1>1
  <2> QED  BY <2>1, UpdateIs
<1>3. obj' = [u \in D |-> UpdateUnit(x.obj[u], u, u \in DOMAIN f)]
  BY DEF Frame, D
<1>4. \A u \in D : /\ obj'[u] \in Soldier /\ obj'[u].hp = x.obj[u].hp
                   /\ obj'[u].level = x.obj[u].level /\ obj'[u].exp = x.obj[u].exp
                   /\ obj'[u].woven = IF Alive(x.obj[u])
                                      THEN Info[OfType[u]].kind = "weaver"
                                      ELSE x.obj[u].woven
  BY <1>2, <1>3
<1>5. obj' \in [D -> Soldier] /\ DOMAIN obj' = D
  BY <1>3, <1>4
<1>6. \A u \in D : Alive(obj'[u]) <=> Alive(x.obj[u])
  BY <1>4 DEF Alive
<1> QED  BY <1>1, <1>4, <1>5, <1>6 DEF D

\* A weaver that has spawned its barrier in this round spawns no other.
LEMMA BarriersAfterFrame ==
  ASSUME SimulationAssumption, SimulationInv, phase = "fighting",
         NEW x \in Turns(DOMAIN obj, Now), NEW f \in Targeted(x), Frame(x, f)
  PROVE  /\ barriers' \in Seq(Wall)
         /\ \A i \in DOMAIN barriers' :
              LET u == barriers'[i].weaver IN
                u \in DOMAIN obj /\ ~Alive(x.obj[u]) => barriers'[i].hp = 0
         /\ \A u \in Unit :
              \/ Cardinality(Sustained(barriers', u)) <= round
              \/ /\ Cardinality(Sustained(barriers', u)) <= round + 1
                 /\ u \in DOMAIN obj
                 /\ \/ obj[u].woven
                    \/ Alive(x.obj[u]) /\ Info[OfType[u]].kind = "weaver"
<1> DEFINE D == DOMAIN obj
           b == x.barriers
           n == NewBarriers(x)
<1>1. /\ D \in SUBSET Unit /\ x \in World(D) /\ b \in Seq(Wall)
      /\ barriers \in Seq(Wall) /\ DOMAIN b = DOMAIN barriers
      /\ \A i \in DOMAIN b : b[i].weaver = barriers[i].weaver
      /\ \A u \in D : x.obj[u].woven = obj[u].woven
  BY NowIsFair DEF Turns, World, Follows, Now
<1>2. /\ n \in Seq(Wall)
      /\ \A i \in DOMAIN n : /\ n[i].weaver \in D
                             /\ Info[OfType[n[i].weaver]].kind = "weaver"
                             /\ Alive(x.obj[n[i].weaver])
                             /\ ~obj[n[i].weaver].woven
      /\ \A i, j \in DOMAIN n : n[i].weaver = n[j].weaver => i = j
  <2>1. order \in Seq(Unit) /\ IsInjective(order)
    BY DEF SimulationInv, Armies
  <2> HIDE DEF D
  <2> QED  BY <1>1, <2>1, NewBarriersAre
<1>3. /\ barriers' = b \o n
      /\ \A i \in DOMAIN b : b[i].weaver \in D /\ ~Alive(x.obj[b[i].weaver]) => b[i].hp = 0
  BY DEF Frame
<1> HIDE DEF n, D
<1>4. /\ barriers' \in Seq(Wall) /\ Len(b) \in Nat /\ Len(n) \in Nat
      /\ DOMAIN barriers' = 1..(Len(b) + Len(n))
      /\ DOMAIN b = 1..Len(b) /\ DOMAIN n = 1..Len(n)
      /\ \A i \in 1..Len(b) : barriers'[i] = b[i]
      /\ \A i \in 1..Len(n) : barriers'[Len(b) + i] = n[i]
  BY <1>1, <1>2, <1>3
<1>5. \A i \in DOMAIN barriers' :
        \/ i \in DOMAIN b /\ barriers'[i] = b[i]
        \/ i - Len(b) \in DOMAIN n /\ barriers'[i] = n[i - Len(b)]
  <2> SUFFICES ASSUME NEW i \in 1..(Len(b) + Len(n)), ~(i \in 1..Len(b))
               PROVE  i - Len(b) \in 1..Len(n) /\ barriers'[i] = n[i - Len(b)]
    BY <1>4
  <2>1. i - Len(b) \in 1..Len(n) /\ Len(b) + (i - Len(b)) = i
    BY <1>4
  <2> QED  BY <1>4, <2>1
<1>6. \A i \in DOMAIN barriers' :
        barriers'[i].weaver \in D /\ ~Alive(x.obj[barriers'[i].weaver])
          => barriers'[i].hp = 0
  BY <1>2, <1>3, <1>5
<1>7. ASSUME NEW u \in Unit
      PROVE  /\ IsFiniteSet(Sustained(barriers, u))
             /\ Cardinality(Sustained(barriers, u)) \in Nat
             /\ Sustained(b, u) = Sustained(barriers, u)
  <2>1. Sustained(barriers, u) \in SUBSET (1..Len(b))
    BY <1>1, <1>4 DEF Sustained
  <2>2. IsFiniteSet(1..Len(b))
    <3>1. PICK m \in Nat : m = Len(b)
      BY <1>4
    <3>2. IsFiniteSet(1..m)
      BY FS_Interval
    <3> QED  BY <3>1, <3>2
  <2>3. IsFiniteSet(Sustained(barriers, u))
    BY <2>1, <2>2, FS_Subset
  <2>4. Sustained(b, u) = Sustained(barriers, u)
    BY <1>1 DEF Sustained
  <2> QED  BY <2>3, <2>4, FS_CardinalityType
<1>8. ASSUME NEW u \in Unit, \A i \in DOMAIN n : n[i].weaver # u
      PROVE  Sustained(barriers', u) = Sustained(barriers, u)
  <2>1. \A i \in DOMAIN barriers' : barriers'[i].weaver = u => i \in DOMAIN b /\ b[i].weaver = u
    BY <1>5, <1>8
  <2>2. \A i \in DOMAIN b : i \in DOMAIN barriers' /\ barriers'[i] = b[i]
    BY <1>4
  <2>3. Sustained(barriers', u) = Sustained(b, u)
    BY <2>1, <2>2 DEF Sustained
  <2> QED  BY <1>7, <2>3
<1>9. ASSUME NEW u \in Unit, NEW k \in DOMAIN n, n[k].weaver = u
      PROVE  Sustained(barriers', u) = Sustained(barriers, u) \cup {Len(b) + k}
  <2>1. \A i \in DOMAIN barriers' : barriers'[i].weaver = u =>
          (i \in DOMAIN b /\ b[i].weaver = u) \/ i = Len(b) + k
    <3> SUFFICES ASSUME NEW i \in DOMAIN barriers', barriers'[i].weaver = u,
                        i - Len(b) \in DOMAIN n, barriers'[i] = n[i - Len(b)]
                 PROVE  i = Len(b) + k
      BY <1>5
    <3>1. i - Len(b) = k
      BY <1>2, <1>9
    <3> QED  BY <1>4, <3>1
  <2>2. \A i \in DOMAIN b : i \in DOMAIN barriers' /\ barriers'[i] = b[i]
    BY <1>4
  <2>3. Len(b) + k \in DOMAIN barriers' /\ barriers'[Len(b) + k].weaver = u
    BY <1>4, <1>9
  <2>4. Sustained(barriers', u) = Sustained(b, u) \cup {Len(b) + k}
    BY <2>1, <2>2, <2>3 DEF Sustained
  <2> QED  BY <1>7, <2>4
<1>10. round \in Nat
  BY DEF SimulationInv, Armies, SimulationAssumption, BoundAssumption
<1>11. ASSUME NEW u \in Unit
       PROVE  \/ Cardinality(Sustained(barriers', u)) <= round
              \/ /\ Cardinality(Sustained(barriers', u)) <= round + 1
                 /\ u \in D
                 /\ \/ obj[u].woven
                    \/ Alive(x.obj[u]) /\ Info[OfType[u]].kind = "weaver"
  <2>1. Cardinality(Sustained(barriers, u))
          <= IF u \in D /\ obj[u].woven THEN round + 1 ELSE round
    BY DEF SimulationInv, Weaving, AtWork, D
  <2>2. CASE \A i \in DOMAIN n : n[i].weaver # u
    BY <1>8, <2>1, <2>2
  <2>3. CASE \E i \in DOMAIN n : n[i].weaver = u
    <3>1. PICK k \in DOMAIN n : n[k].weaver = u
      BY <2>3
    <3>2. u \in D /\ ~obj[u].woven /\ Alive(x.obj[u]) /\ Info[OfType[u]].kind = "weaver"
      BY <1>2, <3>1
    <3>3. Sustained(barriers', u) = Sustained(barriers, u) \cup {Len(b) + k}
      BY <1>9, <3>1
    <3>4. PICK S : S = Sustained(barriers, u)
      OBVIOUS
    <3>5. PICK c \in Nat : c = Cardinality(S)
      BY <1>7, <3>4
    <3>6. Cardinality(S \cup {Len(b) + k}) \in {c, c + 1}
      BY <1>7, <3>4, <3>5, FS_AddElement
    <3> QED  BY <1>10, <2>1, <3>2, <3>3, <3>4, <3>5, <3>6
  <2> QED  BY <2>2, <2>3
<1> QED  BY <1>4, <1>6, <1>11 DEF D

-----------------------------------------------------------------------------
(* A frame keeps the invariant *)

\* The number of frames and of rounds stays within the bounds.
LEMMA RoundsAreCounted ==
  ASSUME SimulationAssumption, SimulationInv, phase = "fighting", RoundGoesOn
  PROVE  /\ step' \in 0..NumberOfSteps /\ round' \in 0..MaxRound
         /\ round \in Nat /\ round < MaxRound
         /\ phase' \in {"placing", "fighting"}
         /\ phase' = "fighting" => round' = round /\ step' < NumberOfSteps
         /\ phase' = "placing" => round' = round + 1
<1>1. /\ NumberOfSteps \in Nat /\ MaxRound \in Nat
      /\ round \in 0..MaxRound /\ step \in 0..NumberOfSteps
      /\ round < MaxRound /\ step < NumberOfSteps
  BY DEF SimulationAssumption, BoundAssumption, SimulationInv, Armies, InFight
<1>2. step' = step + 1
  BY DEF RoundGoesOn
<1>3. CASE CheckIsLastFrame(obj', step)
  <2>1. phase' = "placing" /\ round' = round + 1
    BY <1>3 DEF RoundGoesOn
  <2> QED  BY <1>1, <1>2, <2>1
<1>4. CASE ~CheckIsLastFrame(obj', step)
  <2>1. phase' = "fighting" /\ round' = round
    BY <1>4 DEF RoundGoesOn
  <2>2. step # NumberOfSteps - 1
    BY <1>4 DEF CheckIsLastFrame
  <2> QED  BY <1>1, <1>2, <2>1, <2>2
<1> QED  BY <1>3, <1>4

LEMMA SustainedAreFinite ==
  ASSUME NEW walls \in Seq(Wall), NEW u
  PROVE  IsFiniteSet(Sustained(walls, u)) /\ Cardinality(Sustained(walls, u)) \in Nat
<1>1. PICK m \in Nat : DOMAIN walls = 1..m
  OBVIOUS
<1>2. Sustained(walls, u) \in SUBSET (1..m)
  BY <1>1 DEF Sustained
<1>3. IsFiniteSet(1..m)
  BY FS_Interval
<1> QED  BY <1>2, <1>3, FS_Subset, FS_CardinalityType

LEMMA StepKeeps ==
  ASSUME SimulationAssumption, SimulationInv, Step
  PROVE  SimulationInv'
<1> DEFINE D == DOMAIN obj
<1>1. /\ phase = "fighting" /\ RoundGoesOn
      /\ attacks' \in Seq(Blows(D)) /\ spawning' \in Seq(Shots(D))
      /\ arrows' \in Seq(Arrows(D))
  BY StepDoes
<1>2. PICK x \in Turns(D, Now) : \E f \in Targeted(x) : Frame(x, f)
  BY StepDoes
<1> PICK f \in Targeted(x) : Frame(x, f)
  BY <1>2
<1>3. /\ x.obj \in [D -> Soldier] /\ x.start \in [D -> Veteran]
      /\ x.credits \in Seq(D \X D)
      /\ Settled(x.credits, x.obj) /\ Recorded(x.start, x.obj)
  BY DEF Turns, World, Fair
<1>4. /\ start' = x.start /\ credits' = x.credits /\ DOMAIN start' = D
  BY <1>3 DEF Frame
<1>5. /\ obj' \in [D -> Soldier] /\ DOMAIN obj' = D
      /\ \A u \in D :
           /\ Alive(obj'[u]) <=> Alive(x.obj[u])
           /\ obj'[u].level = x.obj[u].level /\ obj'[u].exp = x.obj[u].exp
           /\ obj'[u].woven = IF Alive(x.obj[u]) THEN Info[OfType[u]].kind = "weaver"
                                                 ELSE obj[u].woven
  BY <1>1, UnitsAfterFrame
<1>6. /\ barriers' \in Seq(Wall)
      /\ \A i \in DOMAIN barriers' :
           LET u == barriers'[i].weaver IN
             u \in D /\ ~Alive(x.obj[u]) => barriers'[i].hp = 0
      /\ \A u \in Unit :
           \/ Cardinality(Sustained(barriers', u)) <= round
           \/ /\ Cardinality(Sustained(barriers', u)) <= round + 1
              /\ u \in D
              /\ \/ obj[u].woven
                 \/ Alive(x.obj[u]) /\ Info[OfType[u]].kind = "weaver"
  BY <1>1, BarriersAfterFrame
<1>7. /\ D \in SUBSET Unit /\ DOMAIN start = D /\ IsFiniteSet(D)
  BY <1>1, NowIsFair
<1>8. Armies
  BY DEF SimulationInv
<1>9. playerHp' \in [{0, 1} -> Int] /\ \A p \in {0, 1} : playerHp'[p] <= InitialPlayerHP
  <2>1. /\ playerHp \in [{0, 1} -> Int] /\ InitialPlayerHP \in Int
        /\ \A p \in {0, 1} : playerHp[p] <= InitialPlayerHP
    BY <1>8 DEF Armies, SimulationAssumption, BoundAssumption
  <2>2. /\ SurvivorsHurt(obj', playerHp) \in [{0, 1} -> Int]
        /\ \A p \in {0, 1} : SurvivorsHurt(obj', playerHp)[p] <= playerHp[p]
    <3> HIDE DEF D
    <3> QED  BY <1>5, <1>7, <2>1, HurtIs
  <2>3. playerHp' = playerHp \/ playerHp' = SurvivorsHurt(obj', playerHp)
    BY <1>1 DEF RoundGoesOn
  <2>4. CASE playerHp' = playerHp
    BY <2>1, <2>4
  <2>5. CASE playerHp' = SurvivorsHurt(obj', playerHp)
    <3> PICK hp : hp = SurvivorsHurt(obj', playerHp)
      OBVIOUS
    <3>1. hp \in [{0, 1} -> Int] /\ \A p \in {0, 1} : hp[p] <= playerHp[p]
      BY <2>2
    <3> QED  BY <2>1, <2>5, <3>1
  <2> QED  BY <2>3, <2>4, <2>5
<1>10. /\ step' \in 0..NumberOfSteps /\ round' \in 0..MaxRound
       /\ round \in Nat /\ round < MaxRound
       /\ phase' \in {"placing", "fighting"}
       /\ phase' = "fighting" => round' = round /\ step' < NumberOfSteps
       /\ phase' = "placing" => round' = round + 1
  BY <1>1, RoundsAreCounted
<1>11. UNCHANGED <<order, upgrades>>
  BY <1>1 DEF RoundGoesOn
<1> HIDE DEF D
<1>12. Armies'
  BY <1>3, <1>4, <1>5, <1>6, <1>7, <1>8, <1>9, <1>10, <1>11 DEF Armies
<1>13. Recorded(start, obj)'
  BY <1>3, <1>4, <1>5 DEF Recorded
<1>14. InFight'
  BY <1>1, <1>3, <1>4, <1>5, <1>10, <1>13 DEF InFight
<1>15. Settled(credits, obj)'
  BY <1>3, <1>4, <1>5 DEF Settled
<1>16. NoLevelOwed'
  BY <1>3, <1>4 DEF Recorded, NoLevelOwed
<1>17. BarriersOfTheDeadFall'
  BY <1>5, <1>6 DEF BarriersOfTheDeadFall
<1>18. ASSUME NEW u \in Unit, AtWork(u)'
       PROVE  Info[OfType[u]].kind = "weaver"
  <2>1. u \in D /\ obj'[u].woven
    BY <1>5, <1>18 DEF AtWork
  <2>2. CASE Alive(x.obj[u])
    BY <1>5, <2>1, <2>2
  <2>3. CASE ~Alive(x.obj[u])
    <3>1. obj[u].woven
      BY <1>5, <2>1, <2>3
    <3> QED  BY <1>1, <2>1, <3>1 DEF AtWork, SimulationInv, Weaving, D
  <2> QED  BY <2>2, <2>3
<1>19. ASSUME NEW u \in Unit
       PROVE  Cardinality(Sustained(barriers', u))
                <= IF AtWork(u)' THEN round' + 1 ELSE round'
  <2>1. Cardinality(Sustained(barriers', u)) \in Nat
    BY <1>6, SustainedAreFinite
  <2>2. CASE Cardinality(Sustained(barriers', u)) <= round
    BY <1>10, <2>1, <2>2
  <2>3. CASE /\ Cardinality(Sustained(barriers', u)) <= round + 1 /\ u \in D
             /\ \/ obj[u].woven
                \/ Alive(x.obj[u]) /\ Info[OfType[u]].kind = "weaver"
    <3>1. obj[u].woven => Info[OfType[u]].kind = "weaver"
      BY <1>1, <2>3 DEF AtWork, SimulationInv, Weaving, D
    <3>2. obj'[u].woven
      BY <1>5, <2>3, <3>1
    <3>3. phase' = "fighting" => AtWork(u)'
      BY <1>5, <2>3, <3>2 DEF AtWork
    <3> QED  BY <1>10, <2>1, <2>3, <3>3
  <2> QED  BY <1>6, <2>2, <2>3
<1>20. Weaving'
  BY <1>18, <1>19 DEF Weaving
<1> QED  BY <1>12, <1>14, <1>15, <1>16, <1>17, <1>20 DEF SimulationInv

LEMMA NextSimulation ==
  ASSUME SimulationAssumption, SimulationInv, [Next]_vars
  PROVE  SimulationInv'
<1>1. CASE \E u \in Unit : AddUnit(u) \/ RemoveUnit(u)
  BY <1>1, AddUnitKeeps, RemoveUnitKeeps
<1>2. CASE \E g \in Upgrade : AddUnitUpgrade(g)
  BY <1>2, AddUnitUpgradeKeeps
<1>3. CASE Prepare
  BY <1>3, PrepareKeeps
<1>4. CASE Step
  BY <1>4, StepKeeps
<1>5. CASE Clear
  BY <1>5, ClearKeeps
<1>6. CASE UNCHANGED vars
  <2>1. UNCHANGED <<phase, round, start, order, upgrades, obj, attacks, spawning, arrows,
                    step, credits, barriers, playerHp>>
    BY <1>6 DEF vars, data, combat
  <2>2. Armies'
    BY <2>1 DEF SimulationInv, Armies
  <2>3. InFight'
    BY <2>1 DEF SimulationInv, InFight, Recorded
  <2>4. Settled(credits, obj)'
    BY <2>1 DEF SimulationInv, Settled
  <2>5. NoLevelOwed' /\ BarriersOfTheDeadFall'
    BY <2>1 DEF SimulationInv, NoLevelOwed, BarriersOfTheDeadFall
  <2>6. Weaving'
    <3>1. \A u : AtWork(u)' = AtWork(u)
      BY <2>1 DEF AtWork
    <3>2. \A u : Sustained(barriers, u)' = Sustained(barriers, u)
      BY <2>1 DEF Sustained
    <3> QED  BY <2>1, <3>1, <3>2 DEF SimulationInv, Weaving
  <2> QED  BY <2>2, <2>3, <2>4, <2>5, <2>6 DEF SimulationInv
<1> QED  BY <1>1, <1>2, <1>3, <1>4, <1>5, <1>6 DEF Next

\* The inductive invariant: what is kept of a unit is what it knows, those who
\* fight are those who were placed, each of the dead was paid for once, and a
\* weaver that has spawned its barrier spawns no other in this round.
THEOREM SimulationIsSound == ASSUME SimulationAssumption PROVE Spec => []SimulationInv
<1>1. Init => SimulationInv
  BY InitSimulation
<1>2. SimulationInv /\ [Next]_vars => SimulationInv'
  BY NextSimulation
<1> QED  BY <1>1, <1>2, PTL DEF Spec

-----------------------------------------------------------------------------
(* What a fight promises *)

\* Types of the simulation; each unit placed has one place in the order.
THEOREM SimulationIsTyped == ASSUME SimulationAssumption PROVE Spec => []TypeOK
<1>1. ASSUME SimulationInv PROVE TypeOK
  <2>1. Armies
    BY <1>1 DEF SimulationInv
  <2>2. Len(order) = Cardinality(DOMAIN start)
    <3>1. PICK m \in Nat : m = Len(order)
      BY <2>1 DEF Armies
    <3>2. order \in Bijection(1..m, DOMAIN start)
      <4>1. order \in [1..m -> DOMAIN start]
        BY <2>1, <3>1 DEF Armies, ToSet
      <4>2. \A u \in DOMAIN start : \E i \in 1..m : order[i] = u
        BY <2>1, <3>1 DEF Armies, ToSet
      <4>3. \A i, j \in 1..m : order[i] = order[j] => i = j
        BY <2>1, <3>1 DEF Armies, IsInjective
      <4> QED  BY <4>1, <4>2, <4>3 DEF Bijection, Injection, Surjection, IsInjective
    <3>3. IsFiniteSet(1..m) /\ Cardinality(1..m) = m
      BY FS_Interval
    <3>4. Cardinality(1..m) = Cardinality(DOMAIN start)
      BY <3>2, <3>3, FS_Bijection DEF ExistsBijection
    <3> QED  BY <3>1, <3>3, <3>4
  <2>3. \A u \in DOMAIN start : start[u].level \in 1..UnitLevelMax /\ start[u].exp \in Nat
    BY <2>1 DEF Armies, Veteran
  <2>4. \A u \in DOMAIN obj : /\ obj[u].hp \in Int /\ obj[u].timer \in Nat
                              /\ obj[u].level \in 1..UnitLevelMax /\ obj[u].exp \in Nat
                              /\ obj[u].ups \in Seq(Upgrade)
    BY <2>1 DEF Armies, Soldier
  <2>5. \A i \in DOMAIN barriers : barriers[i].weaver \in Unit /\ barriers[i].hp \in Int
    <3>1. \A i \in DOMAIN barriers : barriers[i] \in Wall
      BY <2>1 DEF Armies
    <3> QED  BY <3>1 DEF Wall
  <2> QED  BY <2>1, <2>2, <2>3, <2>4, <2>5 DEF TypeOK, Armies
<1> QED  BY <1>1, SimulationIsSound, PTL

\* Whatever lands after whom: a unit that dies in a round is paid for once and to
\* the other player, no level is owed to anyone, the barriers of the dead have
\* fallen, and a weaver has one barrier at most for each round it fought in
\* (performSimulation, ServerUnit::takeDamage and gainExperience, AiBarrierWeaver).
THEOREM FightsAreFair == ASSUME SimulationAssumption PROVE Spec => []FightIsFair
<1>1. ASSUME SimulationInv PROVE FightIsFair
  <2>1. KillsPaidOnce
    BY <1>1 DEF SimulationInv, Settled, KillsPaidOnce, Killed
  <2>2. OneBarrierPerRound
    <3> SUFFICES ASSUME NEW u \in DOMAIN obj
                 PROVE  Cardinality(Sustained(barriers, u))
                          <= IF phase = "fighting" THEN round + 1 ELSE round
      BY DEF OneBarrierPerRound, Sustained
    <3>1. u \in Unit /\ barriers \in Seq(Wall) /\ round \in Nat
      BY <1>1 DEF SimulationInv, Armies, SimulationAssumption, BoundAssumption
    <3>2. Cardinality(Sustained(barriers, u))
            <= IF AtWork(u) THEN round + 1 ELSE round
      BY <1>1, <3>1 DEF SimulationInv, Weaving
    <3>3. Cardinality(Sustained(barriers, u)) \in Nat
      BY <3>1, SustainedAreFinite
    <3>4. AtWork(u) => phase = "fighting"
      BY DEF AtWork
    <3> QED  BY <3>1, <3>2, <3>3, <3>4
  <2> QED  BY <1>1, <2>1, <2>2 DEF FightIsFair, SimulationInv
<1> QED  BY <1>1, SimulationIsSound, PTL

LEMMA OnlyStepFights ==
  ASSUME [Next]_vars, phase = "fighting"
  PROVE  Step \/ UNCHANGED vars
BY DEF Next, AddUnit, RemoveUnit, AddUnitUpgrade, Prepare, Clear

\* What the next round starts from is, after each frame, what the unit itself has
\* (gainExperience writes through to m_unitInformationForRoundStart).
THEOREM VeteransAreKept == ASSUME SimulationAssumption PROVE Spec => VeteransKept
<1>1. ASSUME SimulationInv, [Next]_vars PROVE VeteransKeptStep
  <2> SUFFICES ASSUME phase = "fighting"
               PROVE  \A u \in DOMAIN obj' : /\ start'[u].level = obj'[u].level
                                             /\ start'[u].exp = obj'[u].exp
    BY DEF VeteransKeptStep
  <2>1. CASE Step
    <3>1. PICK x \in Turns(DOMAIN obj, Now) : \E f \in Targeted(x) : Frame(x, f)
      BY <1>1, <2>1, StepDoes
    <3>2. PICK f \in Targeted(x) : Frame(x, f)
      BY <3>1
    <3>3. /\ DOMAIN obj' = DOMAIN obj
          /\ \A u \in DOMAIN obj : /\ obj'[u].level = x.obj[u].level
                                   /\ obj'[u].exp = x.obj[u].exp
      BY <1>1, <3>2, UnitsAfterFrame
    <3>4. Recorded(x.start, x.obj) /\ DOMAIN x.obj = DOMAIN obj /\ start' = x.start
      BY <3>2 DEF Turns, World, Fair, Frame
    <3> QED  BY <3>3, <3>4 DEF Recorded
  <2>2. CASE UNCHANGED vars
    <3>1. start' = start /\ obj' = obj
      BY <2>2 DEF vars, data, combat
    <3> QED  BY <1>1, <3>1 DEF SimulationInv, InFight, Recorded
  <2> QED  BY <1>1, <2>1, <2>2, OnlyStepFights
<1> QED  BY <1>1, SimulationIsSound, PTL DEF Spec, VeteransKept

\* Hit points of a player are lost at the end of a round only, and then by a player
\* whose army is dead, or when time has run out.
THEOREM TheBeatenAreHurt == ASSUME SimulationAssumption PROVE Spec => OnlyTheBeatenAreHurt
<1>1. ASSUME SimulationInv, [Next]_vars PROVE OnlyTheBeatenAreHurtStep
  <2> SUFFICES ASSUME NEW p \in {0, 1}, playerHp'[p] < playerHp[p]
               PROVE  /\ phase = "fighting" /\ phase' = "placing"
                      /\ \/ step' = NumberOfSteps
                         \/ \A u \in DOMAIN obj' : Owner[u] = p => ~Alive(obj'[u])
    BY DEF OnlyTheBeatenAreHurtStep
  <2>1. /\ playerHp \in [{0, 1} -> Int] /\ InitialPlayerHP \in Int
        /\ playerHp[p] <= InitialPlayerHP
        /\ step \in Nat /\ NumberOfSteps \in Nat
    BY <1>1 DEF SimulationInv, Armies, SimulationAssumption, BoundAssumption
  <2>2. playerHp' # playerHp /\ playerHp'[p] # InitialPlayerHP
    BY <2>1
  <2>3. Step
    <3>1. ~Clear
      BY <2>2 DEF Clear
    <3>2. ~UNCHANGED vars
      BY <2>2 DEF vars
    <3> QED  BY <1>1, <2>2, <3>1, <3>2
             DEF Next, AddUnit, RemoveUnit, AddUnitUpgrade, Prepare
  <2>4. phase = "fighting" /\ RoundGoesOn
    BY <1>1, <2>3, StepDoes
  <2>5. /\ CheckIsLastFrame(obj', step) /\ phase' = "placing"
        /\ playerHp' = SurvivorsHurt(obj', playerHp) /\ step' = step + 1
    BY <2>2, <2>4 DEF RoundGoesOn
  <2>6. CASE step = NumberOfSteps - 1
    BY <2>1, <2>4, <2>5, <2>6
  <2>7. CASE \E q \in {0, 1} : \A u \in DOMAIN obj' : Owner[u] = q => ~Alive(obj'[u])
    <3>1. PICK q \in {0, 1} : \A u \in DOMAIN obj' : Owner[u] = q => ~Alive(obj'[u])
      BY <2>7
    <3>2. /\ DOMAIN obj \in SUBSET Unit /\ IsFiniteSet(DOMAIN obj)
          /\ obj' \in [DOMAIN obj -> Soldier] /\ DOMAIN obj' = DOMAIN obj
      <4>1. PICK x \in Turns(DOMAIN obj, Now) : \E f \in Targeted(x) : Frame(x, f)
        BY <1>1, <2>3, StepDoes
      <4>2. PICK f \in Targeted(x) : Frame(x, f)
        BY <4>1
      <4> QED  BY <1>1, <2>4, <4>2, NowIsFair, UnitsAfterFrame
    <3>3. CASE q = 1 - p
      <4>1. SurvivorsHurt(obj', playerHp)[p] = playerHp[p]
        <5>1. \A u \in DOMAIN obj : Owner[u] = 1 - p => ~Alive(obj'[u])
          BY <3>1, <3>2, <3>3
        <5> QED  BY <2>1, <3>2, <5>1, HurtIs
      <4> QED  BY <2>1, <2>5, <4>1
    <3>4. CASE q = p
      BY <2>4, <2>5, <3>1, <3>4
    <3> QED  BY <3>3, <3>4
  <2> QED  BY <2>5, <2>6, <2>7 DEF CheckIsLastFrame
<1> QED  BY <1>1, SimulationIsSound, PTL DEF Spec, OnlyTheBeatenAreHurt

=============================================================================
