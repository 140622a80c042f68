----------------------------- MODULE MCHostHub -----------------------------
(* Instances of HostHub.  Names are naturals so that keys have their order. *)
EXTENDS HostHub, Backoff, TLC

MCRetryDelay == [a \in 0..MaxAttempts |-> BackoffDelay(1, 2, a)]
MCOneRecipient == [m \in Msg |-> {1}]
MCFanOut == [m \in Msg |-> IF m \in Channel THEN Name ELSE {1}]
RunSymmetry == Permutations(Run)
============================================================================
