------------------------------ MODULE Backoff ------------------------------
(***************************************************************************)
(* The retry backoff of dispatchQueued and handleDeliveryNak:              *)
(* min(5 s * 2^max(attempts - 1, 0), 5 min), in ticks.                     *)
(***************************************************************************)
EXTENDS Integers

BackoffDelay(base, cap, attempts) ==
  LET exponent == IF attempts > 1 THEN attempts - 1 ELSE 0
      delay == base * 2^exponent
  IN IF delay < cap THEN delay ELSE cap
============================================================================
