------------------------------ MODULE Objects ------------------------------
(* The objects of a GameState: GameObjectCollection, the alive flag of      *)
(* GameObject, and an ObjectGroup that refers to some of them weakly. A     *)
(* pass of update() walks over the objects; the code of an object may add   *)
(* objects and kill any that it can reach while the pass is under way, and  *)
(* so may the code of the state between two passes.                         *)
EXTENDS Integers, Sequences, SequencesExt

CONSTANTS
  MaxObjects,    \* bound on the objects ever added
  MaxPasses      \* bound on the passes of update()

ObjectsAssumption == MaxObjects \in Nat \ {0} /\ MaxPasses \in Nat

\* The first object is the group.
Group == 1

VARIABLES
  objects,       \* m_objects
  toAdd,         \* m_objectsToAdd
  dead,          \* objects with m_alive = false
  destroyed,     \* objects that destroy() was called for
  held,          \* objects the game keeps a shared_ptr to
  group,         \* m_data of the group
  at,            \* index of the object that is updated, 0 between passes
  pass,          \* history: number of the pass
  age,           \* history: updates of each object
  joined,        \* history: the pass in which an object was first updated
  doomed         \* history: objects that were dead when the pass began

collection == <<objects, toAdd>>
flags      == <<dead, destroyed, held>>
history    == <<pass, age, joined, doomed>>
vars       == <<collection, flags, group, at, history>>

Made == DOMAIN age

Stored == ToSet(objects) \cup ToSet(toAdd)

\* A weak_ptr to an object nobody owns any more.
Expired(o) == o \notin Stored \cup held

\* What the code that runs can call: what it owns, what the group refers to,
\* and the object that is updated.
Reachable ==
  held \cup {o \in ToSet(group) : ~Expired(o)}
       \cup (IF at = 0 THEN {} ELSE {objects[at]})

-----------------------------------------------------------------------------
(* Calls of the code of the objects and of the state *)

\* Mutant: a new object joins the others at once.
AddNow(o) == objects' = Append(objects, o) /\ UNCHANGED toAdd

\* GameObjectCollection::add.
AddLater(o) == toAdd' = Append(toAdd, o) /\ UNCHANGED objects

\* GameState::add: the object is created and added; the caller may keep it, and
\* may put it into the group.
Add ==
  /\ Len(age) < MaxObjects
  /\ LET o == Len(age) + 1 IN
       /\ AddLater(o)
       /\ held' \in {held, held \cup {o}}
       /\ group' \in {group, Append(group, o)}
       /\ age' = Append(age, 0) /\ joined' = Append(joined, 0)
  /\ UNCHANGED <<dead, destroyed, at, pass, doomed>>

Kill ==
  /\ \E o \in Reachable : dead' = dead \cup {o}
  /\ UNCHANGED <<collection, destroyed, held, group, at, history>>

\* The code drops a shared_ptr.
Release ==
  /\ \E o \in held : held' = held \ {o}
  /\ UNCHANGED <<collection, dead, destroyed, group, at, history>>

\* GameObjectCollection::pop_back: the last object that was updated, dead or
\* not, while those that wait in m_objectsToAdd are not looked at.
PopBack ==
  /\ at = 0 /\ objects # <<>>
  /\ dead' = dead \cup {Last(objects)}
  /\ UNCHANGED <<collection, destroyed, held, group, at, pass, age, joined, doomed>>

-----------------------------------------------------------------------------
(* GameObjectCollection::update *)

\* addNewObjects: from the back of m_objectsToAdd.
WithNew == objects \o Reverse(toAdd)

\* Mutant: new objects are not looked at.
AliveOrNew(os) == SelectSeq(os, LAMBDA o : o \notin dead \/ o \in ToSet(toAdd))

\* cleanUpObjects, of the objects with the new ones.
Alive(os) == SelectSeq(os, LAMBDA o : o \notin dead)

\* Mutant: the new objects are added again by the next pass.
StillToAdd == toAdd

NoneToAdd == <<>>

BeginUpdate ==
  /\ at = 0 /\ pass < MaxPasses
  /\ objects' = Alive(WithNew)
  /\ toAdd' = NoneToAdd
  /\ destroyed' = destroyed \cup (ToSet(WithNew) \ ToSet(objects'))
  /\ at' = IF objects' = <<>> THEN 0 ELSE 1
  /\ pass' = pass + 1
  /\ doomed' = dead
  /\ joined' = [o \in Made |-> IF joined[o] = 0 /\ o \in ToSet(objects') THEN pass'
                                ELSE joined[o]]
  /\ UNCHANGED <<dead, held, group, age>>

\* Mutant: a group forgets the objects that were killed.
InGroupAlive(o) == o \notin dead

\* ObjectGroup::doUpdate.
InGroup(o) == ~Expired(o)

UpdateObject ==
  /\ at # 0
  /\ age' = [age EXCEPT ![objects[at]] = @ + 1]
  /\ group' = IF objects[at] = Group THEN SelectSeq(group, InGroup) ELSE group
  /\ at' = IF at = Len(objects) THEN 0 ELSE at + 1
  /\ UNCHANGED <<collection, flags, pass, joined, doomed>>

Init ==
  /\ objects = <<>> /\ toAdd = <<Group>>
  /\ dead = {} /\ destroyed = {} /\ held = {Group}
  /\ group = <<>> /\ at = 0
  /\ pass = 0 /\ age = <<0>> /\ joined = <<0>> /\ doomed = {}

Next ==
  \/ Add \/ Kill \/ Release \/ PopBack
  \/ BeginUpdate \/ UpdateObject

Spec == Init /\ [][Next]_vars

-----------------------------------------------------------------------------
(* Properties *)

TypeOK ==
  /\ ToSet(objects) \cup ToSet(toAdd) \cup dead \cup destroyed \cup held \subseteq Made
  /\ IsInjective(objects \o toAdd)
  /\ at \in 0..Len(objects)
  /\ pass \in 0..MaxPasses
  /\ DOMAIN joined = Made

\* The walk over the objects is never disturbed by what the objects do: the
\* vector keeps its elements until the next pass.
WalkUndisturbedStep ==
  at # 0 => objects' = objects
WalkUndisturbed == [][WalkUndisturbedStep]_vars

\* Every object is updated exactly once in every pass from the one it joined.
UpdatedEveryPass ==
  \A i \in DOMAIN objects : \E o \in {objects[i]} :
    age[o] = pass - joined[o] + IF at # 0 /\ i >= at THEN 0 ELSE 1

\* An object that was dead when a pass began is not updated in it, whether it
\* had been updated before or not, and destroy() is called for it.
DeadNotUpdated ==
  at # 0 => objects[at] \notin doomed /\ doomed \subseteq destroyed

\* The group loses no object that anybody still owns.
GroupCompleteStep ==
  \A o \in ToSet(group) : (o \in ToSet(group)' \/ Expired(o)')
GroupComplete == [][GroupCompleteStep]_vars

=============================================================================
