--------------------------- MODULE MCIntegration ---------------------------
(* Instances of Integration. *)
EXTENDS Integration, Backoff, TLC

(* redeliveryDelay: four times the base once the delivery was read *)
MCDelay == [a \in 0..MaxAttempts |->
             [read \in BOOLEAN |-> BackoffDelay(IF read THEN 4 ELSE 1, MaxDelay, a)]]
RunSymmetry == Permutations(Run)
============================================================================
