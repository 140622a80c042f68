------------------------------ MODULE RoomLog ------------------------------
(***************************************************************************)
(* What a room promises (docs/rooms.md, "Ordered transcript and posts"):   *)
(* one log, each message in it once, numbered without gaps in the order    *)
(* of acceptance, and per member the highest number it acknowledged, which *)
(* only grows while the agent stays and never names a number that was not  *)
(* given out.  Deleting the room starts it over.                           *)
(***************************************************************************)
EXTENDS Naturals, Sequences

CONSTANTS Message, Reader

VARIABLES log,     \* the accepted messages, in order
          issued,  \* the highest number given out so far, over deletions too
          acked    \* reader -> the highest number it acknowledged

LogInit ==
  /\ log = << >>
  /\ issued = 0
  /\ acked = [a \in Reader |-> 0]

Accept(m) ==
  /\ \A i \in 1..Len(log) : log[i] # m
  /\ log' = Append(log, m)
  /\ issued' = IF Len(log') > issued THEN Len(log') ELSE issued
  /\ UNCHANGED acked

Acked(a, n) ==
  /\ acked[a] < n /\ n <= issued
  /\ acked' = [acked EXCEPT ![a] = n]
  /\ UNCHANGED <<log, issued>>

Forget(a) ==
  /\ acked' = [acked EXCEPT ![a] = 0]
  /\ UNCHANGED <<log, issued>>

Reset ==
  /\ log' = << >>
  /\ acked' = [a \in Reader |-> 0]
  /\ UNCHANGED issued

LogNext ==
  \/ \E m \in Message : Accept(m)
  \/ \E a \in Reader : (\E n \in 1..issued : Acked(a, n)) \/ Forget(a)
  \/ Reset

LogSpec == LogInit /\ [][LogNext]_<<log, issued, acked>>
============================================================================
