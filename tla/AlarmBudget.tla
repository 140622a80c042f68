---------------------------- MODULE AlarmBudget ----------------------------
(***************************************************************************)
(* The per-object alarm budget of lib/transit/alarm-budget.ts, as pure     *)
(* operators on the pair (budget, alarm) that a Durable Object keeps.      *)
(*                                                                         *)
(* Time is relative.  An alarm is the number of ticks left until it is     *)
(* due, NoAlarm when none is set.  A budget is a record: left, the ticks   *)
(* left in the current hour; count, the alarms granted in it; resumed,     *)
(* whether the alarm for the start of the next hour was already set.       *)
(* The code keys its counters by the hour they belong to and drops the     *)
(* ones of an earlier hour on the next call: a counter that starts again   *)
(* at zero when the hour turns, as here.                                   *)
(***************************************************************************)
EXTENDS Integers

CONSTANTS Hour,     \* ticks in an hour
          Limit     \* alarms granted per hour (120, or 900 for a poller)

ASSUME BudgetAssumption == Hour \in Nat \ {0} /\ Limit \in Nat

NoAlarm == -1

Budgets == [left : 1..Hour, count : 0..Limit, resumed : BOOLEAN]
Alarms  == Nat \union {NoAlarm}

FreshBudget == [left |-> Hour, count |-> 0, resumed |-> FALSE]

(* variant: the limit itself is granted once more *)
BudgetAfterOneMore(b) ==
  IF b.count <= Limit THEN [b EXCEPT !.count = @ + 1]
                      ELSE [b EXCEPT !.resumed = TRUE]

(***************************************************************************)
(* budgetedAlarm(storage, at): grant the alarm while the hour has budget;  *)
(* otherwise set, once in the hour, the alarm for the start of the next.   *)
(* setAlarm replaces whatever alarm was set before.                        *)
(***************************************************************************)
BudgetAfter(b) ==
  IF b.count < Limit THEN [b EXCEPT !.count = @ + 1]
                     ELSE [b EXCEPT !.resumed = TRUE]

(* variant: a spent budget sets no alarm for the next hour *)
AlarmAfterNoResume(b, alarm, at) == IF b.count < Limit THEN at ELSE alarm

AlarmAfter(b, alarm, at) ==
  IF b.count < Limit THEN at ELSE IF b.resumed THEN alarm ELSE b.left

(* One tick: the hour turns when its last tick passes. *)
BudgetTick(b) == IF b.left = 1 THEN FreshBudget ELSE [b EXCEPT !.left = @ - 1]
AlarmTick(alarm) == IF alarm > 0 THEN alarm - 1 ELSE alarm
============================================================================
