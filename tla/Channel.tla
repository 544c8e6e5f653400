------------------------------- MODULE Channel -------------------------------
(* What one direction of a connection promises to the game: messages are    *)
(* handled one by one, in the order they were sent, and none is lost. The   *)
(* k-th message is the number k.                                            *)
EXTENDS Naturals

CONSTANT Bound      \* bound on the messages sent

VARIABLES sent,     \* messages sent so far
          received  \* messages handled so far

Init == sent = 0 /\ received = 0

Send == sent < Bound /\ sent' = sent + 1 /\ received' = received

Receive == received < sent /\ received' = received + 1 /\ sent' = sent

Next == Send \/ Receive

Spec == Init /\ [][Next]_<<sent, received>> /\ WF_<<sent, received>>(Receive)
=============================================================================
