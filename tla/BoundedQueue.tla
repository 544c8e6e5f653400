---------------------------- MODULE BoundedQueue ----------------------------
(* What CircularBuffer promises: a queue of the last Capacity values that   *)
(* were put and not yet taken; taking from an empty queue gives a default.  *)
EXTENDS Naturals, Sequences

CONSTANTS Value, Default, Capacity

VARIABLES queue, answer

Init == queue = <<>> /\ answer = Default

Put(v) ==
  /\ queue' = Append(IF Len(queue) = Capacity THEN Tail(queue) ELSE queue, v)
  /\ UNCHANGED answer

Get ==
  \/ queue # <<>> /\ answer' = Head(queue) /\ queue' = Tail(queue)
  \/ queue = <<>> /\ answer' = Default /\ UNCHANGED queue

Next == (\E v \in Value : Put(v)) \/ Get

Spec == Init /\ [][Next]_<<queue, answer>>
=============================================================================
