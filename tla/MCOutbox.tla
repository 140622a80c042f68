------------------------------ MODULE MCOutbox ------------------------------
(* Instances of Outbox. *)
EXTENDS Outbox, TLC

(* No wait before the first attempt, then one tick *)
MCWait == [a \in 0..MaxTries |-> a]
SlotSymmetry == Permutations(Slot)

(* A tick stands for hours.  A round of the loop and the frames it sends take *)
(* less: time passes while the loop is idle, has reaped and has nothing that  *)
(* it could send.                                                             *)
Timely == /\ flush.phase = "idle" /\ ~reapDue /\ (online => Eligible = {})
          /\ \A x \in Slot : slot[x] = Free

(* Offline for less than a tick *)
TimelyTick == online /\ Timely /\ Tick
TimelySpec == Init /\ [][Work \/ TimelyTick]_vars /\ Progress /\ SF_vars(TimelyTick)
=============================================================================
