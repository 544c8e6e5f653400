------------------------------- MODULE Tweens -------------------------------
(* Tween and TweenCollection: animations of drawable objects that the       *)
(* GameState (or the PlacementManager) updates once per frame, with         *)
(* callbacks that run when a tween completes. A tween holds its object by a *)
(* weak_ptr; a callback is arbitrary code of the game: it may add a tween,  *)
(* cancel one, or drop an object. Time is counted in updates.               *)
EXTENDS Integers, Sequences, SequencesExt

CONSTANTS
  Object,        \* drawables
  Total,         \* durations of tweens
  Delay,         \* start delays
  MaxTweens      \* bound on the tweens ever made

TweensAssumption ==
  Total \subseteq Nat \ {0} /\ Delay \subseteq Nat /\ MaxTweens \in Nat

VARIABLES
  tweens,        \* m_tweens
  toAdd,         \* m_tweensToAdd
  tween,         \* the Tween objects made so far
  owned,         \* drawables that somebody owns
  shown,         \* what each drawable shows of its tweens
  at,            \* index of the tween that is updated, 0 between two updates
  calls,         \* history: how often the callbacks of a tween ran, at most 2
  cancelled,     \* history: tweens that were cancelled
  left,          \* history: those cancelled between two updates
  cleared        \* history: tweens dropped by clear()

lists   == <<tweens, toAdd>>
history == <<calls, cancelled, left, cleared>>
vars    == <<lists, tween, owned, shown, at, history>>

Made    == DOMAIN tween
Stored  == ToSet(tweens) \cup ToSet(toAdd)
Running == {t \in Made : tween[t].alive /\ t \in Stored}

Tween == [obj : Object, total : Total, delay : Delay, skip : {0, 1},
          repeat : BOOLEAN, age : Nat, alive : BOOLEAN]

-----------------------------------------------------------------------------
(* One tween *)

\* getAgePercent: the numerator, of a fraction with denominator total.
Percent(w) == w.age - w.delay

\* precheck of Lerp::linear: what every kind of tween makes of the percentage.
Clamped(w) ==
  IF Percent(w) <= 0 THEN "start"
  ELSE IF Percent(w) >= w.total THEN "end" ELSE "between"

Complete(w) == Percent(w) >= w.total

\* Mutant: every tween starts again.
AlwaysRestarted(w) == [w EXCEPT !.age = 0]

\* Tween::finish, after its callbacks.
Finished(w) ==
  IF w.repeat THEN [w EXCEPT !.age = 0] ELSE [w EXCEPT !.alive = FALSE]

-----------------------------------------------------------------------------
(* What the code of the game does, between updates or in a callback *)

\* TweenCollection::add
AddLater(t) == /\ toAdd' = Append(toAdd, t) /\ UNCHANGED tweens

New(o, total, delay, skip, repeat) ==
  [obj |-> o, total |-> total, delay |-> delay, skip |-> skip,
   repeat |-> repeat, age |-> 0, alive |-> TRUE]

\* The tweens after one call of the game's code; "made" is what the Tween
\* objects are when it begins.
AddTween(made) ==
  /\ Len(calls) < MaxTweens
  /\ \E o \in owned, total \in Total, delay \in Delay, skip \in {0, 1},
        repeat \in BOOLEAN :
       tween' = Append(made, New(o, total, delay, skip, repeat))
  /\ AddLater(Len(made) + 1)
  /\ UNCHANGED <<owned, cancelled, left>>

\* A tween that is cancelled is still in m_tweens until the next update.
Cancel(made) ==
  /\ \E t \in Running :
       /\ tween' = [made EXCEPT ![t].alive = FALSE]
       /\ cancelled' = cancelled \cup {t}
       /\ left' = IF at = 0 THEN left \cup {t} ELSE left
  /\ UNCHANGED <<lists, owned>>

\* The owner of a drawable is destroyed (a PlacedUnit that is undone).
Release(made) ==
  /\ \E o \in owned : owned' = owned \ {o}
  /\ tween' = made
  /\ UNCHANGED <<lists, cancelled, left>>

Nothing(made) == tween' = made /\ UNCHANGED <<lists, owned, cancelled, left>>

GameCode(made) == AddTween(made) \/ Cancel(made) \/ Release(made)

\* The counters of the tweens of the next state.
Counted(count) == IF Len(tween') > Len(count) THEN Append(count, 0) ELSE count

BetweenUpdates ==
  /\ at = 0
  /\ GameCode(tween)
  /\ calls' = Counted(calls)
  /\ UNCHANGED <<shown, at, cleared>>

\* GameState::internalEnter.
Clear ==
  /\ at = 0
  /\ cleared' = cleared \cup Stored
  /\ tweens' = <<>> /\ toAdd' = <<>>
  /\ UNCHANGED <<tween, owned, shown, at, calls, cancelled, left>>

-----------------------------------------------------------------------------
(* TweenCollection::update *)

\* Mutant: the dead are not erased.
DeadKept(all) == all

Alive(all) == SelectSeq(all, LAMBDA t : tween[t].alive)

BeginUpdate ==
  /\ at = 0
  /\ Stored # {}
  /\ tweens' = Alive(tweens \o toAdd)
  /\ toAdd' = <<>>
  /\ at' = IF tweens' = <<>> THEN 0 ELSE 1
  /\ UNCHANGED <<tween, owned, shown, history>>

NextTween == at' = IF at < Len(tweens') THEN at + 1 ELSE 0

SkipFrame(t) ==
  /\ tween[t].skip > 0
  /\ tween' = [tween EXCEPT ![t].skip = @ - 1]
  /\ UNCHANGED <<lists, owned, shown, history>>

Aged(t) == [tween[t] EXCEPT !.age = @ + 1]

\* Mutant: the tween of an object that has gone is dropped without a callback.
NoCallbackIfExpired(complete, expired) == IF complete THEN 1 ELSE 0

\* finish() runs at the end of the tween, and once more if the object is gone.
Finishes(complete, expired) ==
  (IF complete THEN 1 ELSE 0) + (IF expired THEN 1 ELSE 0)

\* Mutant: doUpdate returns after finish().
LastValueOmitted(old, w, complete) == IF complete THEN old ELSE Clamped(w)

\* What doUpdateObject shows, after the finish() of a complete tween.
Value(old, w, complete) == Clamped(IF complete THEN Finished(w) ELSE w)

\* Tween::doUpdate. The callbacks may do what the code of the game may do; if
\* they run twice, the second time changes nothing more.
Update(t) ==
  LET w        == [tween[t] EXCEPT !.age = @ + 1]
      complete == Complete(w)
      ends     == complete \/ w.obj \notin owned
      made     == [tween EXCEPT ![t] = IF ends THEN Finished(w) ELSE w]
      n        == Finishes(complete, w.obj \notin owned')
  IN
  /\ tween[t].skip = 0
  /\ Nothing(made) \/ (ends /\ GameCode(made))
  /\ calls' = [Counted(calls) EXCEPT ![t] = IF @ + n > 2 THEN 2 ELSE @ + n]
  /\ shown' = IF w.obj \in owned'
               THEN [shown EXCEPT ![w.obj] = Value(@, w, complete)] ELSE shown
  /\ UNCHANGED cleared

UpdateTween ==
  /\ at # 0
  /\ LET t == tweens[at] IN SkipFrame(t) \/ Update(t)
  /\ NextTween

-----------------------------------------------------------------------------
Init ==
  /\ tweens = <<>> /\ toAdd = <<>> /\ tween = <<>>
  /\ owned = Object /\ shown = [o \in Object |-> "start"]
  /\ at = 0
  /\ calls = <<>> /\ cancelled = {} /\ left = {} /\ cleared = {}

Frame == BeginUpdate \/ UpdateTween

Next == BetweenUpdates \/ Clear \/ Frame

\* The game loop goes on for ever.
Spec == Init /\ [][Next]_vars /\ WF_vars(Frame)

-----------------------------------------------------------------------------
(* Properties *)

TypeOK ==
  /\ tween \in Seq(Tween) /\ Len(tween) <= MaxTweens
  /\ Stored \subseteq Made /\ at \in 0..Len(tweens)
  /\ owned \subseteq Object
  /\ shown \in [Object -> {"start", "between", "end"}]
  /\ calls \in [Made -> 0..2]
  /\ cancelled \subseteq Made
  /\ left \subseteq cancelled /\ cleared \subseteq Made

\* A tween that went its way out of the collection, neither cancelled nor
\* cleared, has run its callbacks: what a completion is to start (the sound of
\* a unit that has landed, placement_manager.cpp:337) is not lost, whatever
\* other callbacks did in between and whether or not its object still exists.
CallbackRan == \A t \in Made \ (Stored \cup cancelled \cup cleared) : calls[t] > 0

\* The callbacks of a tween that does not repeat run once, if its object is
\* there when it ends: the dead are erased (tween_collection.cpp:20) before
\* they could be updated again.
CalledOnce ==
  \A t \in Made : ~tween[t].repeat /\ tween[t].obj \in owned => calls[t] <= 1

\* A tween that was cancelled while no update was under way does nothing more.
\* (One that is cancelled by a callback may still be updated, and even run its
\* callbacks, if it stands behind the one that completed.)
CancelledLeftAloneStep ==
  \A t \in left : tween'[t] = tween[t] /\ calls'[t] = calls[t]
CancelledLeftAlone == [][CancelledLeftAloneStep]_vars

\* The update that completes a tween leaves its object with the final value,
\* although the last step is not of the exact length (tween_base.cpp:75-82).
EndShownStep ==
  \A t \in Made :
    calls[t] = 0 /\ calls'[t] > 0 /\ ~tween[t].repeat
      /\ tween[t].obj \in owned'
    => shown'[tween[t].obj] = "end"
EndShown == [][EndShownStep]_vars

\* Every tween that does not repeat leaves the collection.
OnlyRepeatingStored == \A t \in Made : tween[t].repeat \/ t \notin Stored
TweensEnd == []<>OnlyRepeatingStored

=============================================================================
