---------------------------- MODULE MCLoopOutbox ----------------------------
(* The reviews of a small instance; tick is the process that the scheduler  *)
(* can be trusted to launch, the others come and go as they like.           *)
EXTENDS LoopOutbox

CONSTANT tick

MCFairSpec == Spec /\ Fairness(tick)
=============================================================================
