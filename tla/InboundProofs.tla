---------------------------- MODULE InboundProofs ----------------------------
(***************************************************************************)
(* Proofs about Inbound, for any number of agents, messages and failures.  *)
(***************************************************************************)
EXTENDS Inbound, FiniteSetTheorems, SequenceTheorems, TLAPS

-----------------------------------------------------------------------------
(* The inductive invariant *)

(* What the plug-in of a harness k may say when the session has taken seen:   *)
(* "ack" of a message in it, "dead" where nothing can be injected.                  *)
Honest(k, seen) == {f \in Frames : /\ f.t = "ack" => f.id \in seen
                                   /\ f.t = "dead" => k = "omp_old"}

Truthful == \A a \in Agent : /\ up[a] \in Seq(Honest(kind[a], Held[a]))
                             /\ outbound[a] \in Seq(Honest(kind[a], Held[a]))

(* A receipt is of a message that the session has taken.                      *)
Receipted == \A a \in Agent : receipts[a] \subseteq branch[a] /\ branch[a] \subseteq Held[a]

(* An injection belongs to the plug-in of its agent's harness.                *)
OpOK(o, k, seen) ==
  /\ o.pc = "send" => k \in {"omp", "omp_old"}
  /\ o.pc = "receipt" => k = "omp" /\ o.id \in seen
  /\ o.pc \in {"look", "prompt", "poll"} => k = "opencode"

OpsGood(S, k, seen) == IsFiniteSet(S) /\ \A o \in S : OpOK(o, k, seen)
OpsOwned == \A a \in Agent : OpsGood(ops[a], kind[a], Held[a])

(* An old OMP injects nothing, and only there a message is refused for good.  *)
OldIsMute == \A a \in Agent : /\ kind[a] = "omp_old" => \A m \in Msg : copies[a][m] = 0
                              /\ dead[a] # {} => kind[a] = "omp_old"

(* A delivery is to an agent the message is for.                              *)
Addressed == \A a \in Agent, m \in Msg : flight[a][m].pc # "none" => a \in For[m]

(* What is about to be recorded was taken by the agent's session; what was    *)
(* recorded or acknowledged, by that of some agent the message is for.        *)
Somewhere(m) == \E b \in For[m] : m \in Held[b]
AboutToRecord == \A a \in Agent, m \in Msg : flight[a][m].pc = "record" => m \in Held[a]
OnRecordShown == /\ \A m \in recorded : Somewhere(m)
                 /\ \A a \in Agent : \A m \in settled[a] : Somewhere(m)

(* What the search of a session finds.                                        *)
Sighted == [a \in Agent |-> {m \in Msg : Seen(a, m)}]

(* Of the injections S: those that may still make a copy of m, and whether    *)
(* one of them is the client's; whether no other may begin.                   *)
Ahead(S, m, seen) == {o \in S : /\ o.id = m
                                /\ o.pc \in {"send", "prompt"} \/ (o.pc = "look" /\ m \notin seen)}
Owned(S, m, inc) == \E o \in S : o.id = m /\ o.inc = inc
Covered(S, m, inc, known, k, seen) ==
  Owned(S, m, inc) \/ m \in (IF k = "opencode" THEN seen ELSE known)

Counted(c, S, m, inc, known, k, seen, d) ==
  c + Cardinality(Ahead(S, m, seen)) <= d + (IF Covered(S, m, inc, known, k, seen) THEN 1 ELSE 0)

CopiesCounted == \A a \in Agent, m \in Msg :
  Counted(copies[a][m], ops[a], m, client[a].inc, receipts[a], kind[a], Sighted[a], doubts[a][m])

(* Every new client and every lost outcome is a fault.                        *)
ClientsPaid == \A a \in Agent : client[a].inc <= faults + 1
DoubtsPaid  == \A a \in Agent, m \in Msg : doubts[a][m] <= faults

IInv == /\ TypeOK /\ Truthful /\ Receipted /\ OpsOwned /\ OldIsMute /\ Addressed
        /\ AboutToRecord /\ OnRecordShown /\ CopiesCounted /\ ClientsPaid /\ DoubtsPaid

-----------------------------------------------------------------------------
(* Which actions write what *)

(* Deliveries under way in the daemon. *)
FlightMoves ==
  \/ UNCHANGED flight
  \/ \E a \in Agent : \E m \in Msg : Follow(a, m)
  \/ \E a \in Agent : \E m \in Msg : DeliverNative(a, m)
  \/ \E a \in Agent : Control(a)
  \/ \E a \in Agent : \E m \in Msg : Record(a, m)
  \/ \E a \in Agent : \E m \in Msg : RecordFails(a, m)
  \/ \E a \in Agent : \E m \in Msg : Timeout(a, m)
  \/ \E a \in Agent : \E m \in Msg : Cancelled(a, m)
  \/ WireDrop
  \/ \E a \in Agent : \E g \in Gens : Deregister(a, g)
  \/ \E a \in Agent : \E m \in Msg : WriteFails(a, m)
  \/ DaemonRestart

(* What the Worker was told. *)
AnswerMoves ==
  \/ UNCHANGED <<settled, dead>>
  \/ \E a \in Agent : \E m \in Msg : OnRecord(a, m)
  \/ \E a \in Agent : Control(a)
  \/ \E a \in Agent : \E m \in Msg : Record(a, m)
  \/ \E a \in Agent : \E m \in Msg : RecordFails(a, m)
  \/ \E a \in Agent : \E m \in Msg : Timeout(a, m)
  \/ \E a \in Agent : \E m \in Msg : Cancelled(a, m)

(* The daemon's history. *)
RecordMoves ==
  \/ UNCHANGED recorded
  \/ \E a \in Agent : \E m \in Msg : Record(a, m)

(* Drafts. *)
DraftMoves ==
  \/ UNCHANGED draft
  \/ \E a \in Agent : Typing(a)

(* The registered adapters. *)
AdapterMoves ==
  \/ UNCHANGED adapter
  \/ \E a \in Agent : \E g \in Gens : Deregister(a, g)
  \/ \E a \in Agent : \E m \in Msg : WriteFails(a, m)
  \/ DaemonRestart
  \/ \E a \in Agent : Connect(a)

(* The clients. *)
ClientMoves ==
  \/ UNCHANGED client
  \/ DaemonRestart
  \/ \E a \in Agent : Connect(a)
  \/ \E a \in Agent : Registered(a)
  \/ \E a \in Agent : Closed(a)
  \/ \E a \in Agent : OmpRestart(a)
  \/ \E a \in Agent : OcRestart(a)

(* Frames to the plug-ins. *)
DownMoves ==
  \/ UNCHANGED down
  \/ \E a \in Agent : \E m \in Msg : DeliverNative(a, m)
  \/ DaemonRestart
  \/ \E a \in Agent : Closed(a)
  \/ \E a \in Agent : OmpDeliver(a)
  \/ \E a \in Agent : OcDeliver(a)
  \/ \E a \in Agent : OmpRestart(a)
  \/ \E a \in Agent : OcRestart(a)

(* Frames from the plug-ins. *)
UpMoves ==
  \/ UNCHANGED <<up, outbound>>
  \/ \E a \in Agent : Control(a)
  \/ DaemonRestart
  \/ \E a \in Agent : Registered(a)
  \/ \E a \in Agent : Closed(a)
  \/ \E a \in Agent : OmpDeliver(a)
  \/ \E a \in Agent : \E o \in ops[a] : OmpSend(a, o)
  \/ \E a \in Agent : \E o \in ops[a] : OmpSendFails(a, o)
  \/ \E a \in Agent : \E o \in ops[a] : OmpReceipt(a, o)
  \/ \E a \in Agent : \E o \in ops[a] : OmpReceiptFails(a, o)
  \/ \E a \in Agent : \E o \in ops[a] : OcLook(a, o)
  \/ \E a \in Agent : \E o \in ops[a] : OcPoll(a, o)
  \/ \E a \in Agent : \E o \in ops[a] : OcFails(a, o)
  \/ \E a \in Agent : OmpRestart(a)
  \/ \E a \in Agent : OcRestart(a)

(* Injections under way. *)
OpsMoves ==
  \/ UNCHANGED ops
  \/ \E a \in Agent : OmpDeliver(a)
  \/ \E a \in Agent : \E o \in ops[a] : OmpSend(a, o)
  \/ \E a \in Agent : \E o \in ops[a] : OmpReceipt(a, o)
  \/ \E a \in Agent : \E o \in ops[a] : OmpSendFails(a, o)
  \/ \E a \in Agent : \E o \in ops[a] : OmpReceiptFails(a, o)
  \/ \E a \in Agent : OmpRestart(a)
  \/ \E a \in Agent : OcDeliver(a)
  \/ \E a \in Agent : \E o \in ops[a] : OcLook(a, o)
  \/ \E a \in Agent : \E o \in ops[a] : OcPrompt(a, o)
  \/ \E a \in Agent : \E o \in ops[a] : OcPoll(a, o)
  \/ \E a \in Agent : \E o \in ops[a] : OcFails(a, o)
  \/ \E a \in Agent : OcRestart(a)

(* Receipts. *)
ReceiptMoves ==
  \/ UNCHANGED <<receipts, branch>>
  \/ \E a \in Agent : \E o \in ops[a] : OmpReceipt(a, o)
  \/ \E a \in Agent : OmpRestart(a)

(* What sessions show. *)
ShownMoves ==
  \/ UNCHANGED shown
  \/ \E a \in Agent : OmpUnwinds(a)
  \/ \E a \in Agent : \E o \in ops[a] : OmpSend(a, o)
  \/ \E a \in Agent : \E m \in Msg : OcPersist(a, m)

(* What was accepted and is not visible yet. *)
PendingMoves ==
  \/ UNCHANGED pending
  \/ \E a \in Agent : \E o \in ops[a] : OmpSend(a, o)
  \/ \E a \in Agent : OmpUnwinds(a)
  \/ \E a \in Agent : OmpRestart(a)
  \/ \E a \in Agent : \E o \in ops[a] : OcPrompt(a, o)
  \/ \E a \in Agent : \E m \in Msg : OcPersist(a, m)
  \/ \E a \in Agent : \E o \in ops[a] : OcFails(a, o)
  \/ \E a \in Agent : OcRestart(a)

(* Copies that were made. *)
CopyMoves ==
  \/ UNCHANGED copies
  \/ \E a \in Agent : \E o \in ops[a] : OmpSend(a, o)
  \/ \E a \in Agent : \E o \in ops[a] : OcPrompt(a, o)
  \/ \E a \in Agent : \E o \in ops[a] : OcFails(a, o)

(* Outcomes that were lost. *)
DoubtMoves ==
  \/ UNCHANGED doubts
  \/ \E a \in Agent : \E o \in ops[a] : OmpReceiptFails(a, o)
  \/ \E a \in Agent : \E o \in ops[a] : OcFails(a, o)
  \/ \E a \in Agent : OmpRestart(a)
  \/ \E a \in Agent : OcRestart(a)

(* What the count of copies depends on. *)
SessionMoves ==
  \/ UNCHANGED <<copies, ops, receipts, shown, doubts, client>>
  \/ \E a \in Agent : OmpUnwinds(a)
  \/ DaemonRestart
  \/ \E a \in Agent : Connect(a)
  \/ \E a \in Agent : Registered(a)
  \/ \E a \in Agent : Closed(a)
  \/ \E a \in Agent : OmpDeliver(a)
  \/ \E a \in Agent : \E o \in ops[a] : OmpSend(a, o)
  \/ \E a \in Agent : \E o \in ops[a] : OmpReceipt(a, o)
  \/ \E a \in Agent : \E o \in ops[a] : OmpSendFails(a, o)
  \/ \E a \in Agent : \E o \in ops[a] : OmpReceiptFails(a, o)
  \/ \E a \in Agent : OmpRestart(a)
  \/ \E a \in Agent : OcDeliver(a)
  \/ \E a \in Agent : \E o \in ops[a] : OcLook(a, o)
  \/ \E a \in Agent : \E o \in ops[a] : OcPrompt(a, o)
  \/ \E a \in Agent : \E o \in ops[a] : OcPoll(a, o)
  \/ \E a \in Agent : \E o \in ops[a] : OcFails(a, o)
  \/ \E a \in Agent : OcRestart(a)
  \/ \E a \in Agent : \E m \in Msg : OcPersist(a, m)

(* Failures are counted. *)
FaultMoves ==
  \/ UNCHANGED faults
  \/ Fault

Moves == /\ UNCHANGED kind
         /\ FlightMoves /\ AnswerMoves /\ RecordMoves /\ DraftMoves /\ AdapterMoves
         /\ ClientMoves /\ DownMoves /\ UpMoves /\ OpsMoves /\ ReceiptMoves
         /\ ShownMoves /\ PendingMoves /\ CopyMoves /\ DoubtMoves /\ SessionMoves
         /\ FaultMoves

(* Every action, looked at once for all that follows. *)
LEMMA Frame == [Next]_vars => Moves
<1> SUFFICES ASSUME [Next]_vars PROVE Moves
  OBVIOUS
<1> USE DEF Moves, FlightMoves, AnswerMoves, RecordMoves, DraftMoves, AdapterMoves,
     ClientMoves, DownMoves, UpMoves, OpsMoves, ReceiptMoves, ShownMoves, PendingMoves,
     CopyMoves, DoubtMoves, SessionMoves, FaultMoves, worker, socket, session
<1>1. ASSUME NEW a \in Agent, NEW m \in Msg, Follow(a, m)
      PROVE  Moves
  BY <1>1 DEF Follow
<1>2. ASSUME NEW a \in Agent, NEW m \in Msg, OnRecord(a, m)
      PROVE  Moves
  BY <1>2 DEF OnRecord
<1>3. ASSUME NEW a \in Agent, NEW m \in Msg, DeliverNative(a, m)
      PROVE  Moves
  BY <1>3 DEF DeliverNative, Waits
<1>4. ASSUME NEW a \in Agent, NEW m \in Msg, Record(a, m)
      PROVE  Moves
  BY <1>4 DEF Record, Answered
<1>5. ASSUME NEW a \in Agent, NEW m \in Msg, RecordFails(a, m)
      PROVE  Moves
  BY <1>5 DEF RecordFails, Answered
<1>6. ASSUME NEW a \in Agent, NEW m \in Msg, Timeout(a, m)
      PROVE  Moves
  BY <1>6 DEF Timeout, Answered
<1>7. ASSUME NEW a \in Agent, NEW m \in Msg, Cancelled(a, m)
      PROVE  Moves
  BY <1>7 DEF Cancelled, Answered
<1>8. ASSUME NEW a \in Agent, Control(a)
      PROVE  Moves
  BY <1>8 DEF Control, Answered
<1>9. ASSUME NEW a \in Agent, Typing(a)
      PROVE  Moves
  BY <1>9 DEF Typing
<1>10. ASSUME NEW a \in Agent, NEW g \in Gens, Deregister(a, g)
      PROVE  Moves
  BY <1>10 DEF Deregister, Drop
<1>11. CASE WireDrop
  BY <1>11 DEF WireDrop
<1>12. CASE DaemonRestart
  BY <1>12 DEF DaemonRestart
<1>13. ASSUME NEW a \in Agent, Connect(a)
      PROVE  Moves
  BY <1>13 DEF Connect
<1>14. ASSUME NEW a \in Agent, Registered(a)
      PROVE  Moves
  BY <1>14 DEF Registered
<1>15. ASSUME NEW a \in Agent, Closed(a)
      PROVE  Moves
  BY <1>15 DEF Closed
<1>16. ASSUME NEW a \in Agent, OmpDeliver(a)
      PROVE  Moves
  BY <1>16 DEF OmpDeliver, Queue, Began, Read
<1>17. ASSUME NEW a \in Agent, NEW o \in ops[a], OmpSend(a, o)
      PROVE  Moves
  BY <1>17 DEF OmpSend, Queue, Ended, Injected, Moved
<1>18. ASSUME NEW a \in Agent, NEW o \in ops[a], OmpReceipt(a, o)
      PROVE  Moves
  BY <1>18 DEF OmpReceipt, Queue, Ended
<1>19. ASSUME NEW a \in Agent, NEW o \in ops[a], OmpSendFails(a, o)
      PROVE  Moves
  BY <1>19 DEF OmpSendFails, Queue, Ended
<1>20. ASSUME NEW a \in Agent, NEW o \in ops[a], OmpReceiptFails(a, o)
      PROVE  Moves
  BY <1>20 DEF OmpReceiptFails, Queue, Ended, Doubt
<1>21. ASSUME NEW a \in Agent, OmpRestart(a)
      PROVE  Moves
  BY <1>21 DEF OmpRestart, NewClient
<1>22. ASSUME NEW a \in Agent, OcDeliver(a)
      PROVE  Moves
  BY <1>22 DEF OcDeliver, Began, Read
<1>23. ASSUME NEW a \in Agent, NEW o \in ops[a], OcLook(a, o)
      PROVE  Moves
  BY <1>23 DEF OcLook, Queue, Ended, Moved
<1>24. ASSUME NEW a \in Agent, NEW o \in ops[a], OcPrompt(a, o)
      PROVE  Moves
  BY <1>24 DEF OcPrompt, Injected, Moved
<1>25. ASSUME NEW a \in Agent, NEW o \in ops[a], OcPoll(a, o)
      PROVE  Moves
  BY <1>25 DEF OcPoll, Queue, Ended
<1>26. ASSUME NEW a \in Agent, NEW m \in Msg, OcPersist(a, m)
      PROVE  Moves
  BY <1>26 DEF OcPersist
<1>27. ASSUME NEW a \in Agent, NEW o \in ops[a], OcFails(a, o)
      PROVE  Moves
  BY <1>27 DEF OcFails, Queue, Ended, Doubt, Injected
<1>28. ASSUME NEW a \in Agent, OcRestart(a)
      PROVE  Moves
  BY <1>28 DEF OcRestart, NewClient
<1>29. CASE UNCHANGED vars
  BY <1>29 DEF vars
<1>30. ASSUME NEW a \in Agent, NEW m \in Msg, WriteFails(a, m)
      PROVE  Moves
  BY <1>30 DEF WriteFails, Drop
<1>31. ASSUME NEW a \in Agent, OmpUnwinds(a)
      PROVE  Moves
  BY <1>31 DEF OmpUnwinds
<1>. QED BY <1>1, <1>2, <1>3, <1>4, <1>5, <1>6, <1>7, <1>8, <1>9, <1>10, <1>11, <1>12,
     <1>13, <1>14, <1>15, <1>16, <1>17, <1>18, <1>19, <1>20, <1>21, <1>22, <1>23, <1>24,
     <1>25, <1>26, <1>27, <1>28, <1>29, <1>30, <1>31
     DEF Next, Daemon, OmpStep, OmpFault, OcStep, OcFault, OmpConnect, OmpRegistered, OmpClosed,
         OcConnect, OcRegistered, OcClosed
-----------------------------------------------------------------------------
(* Types, piece by piece *)

FlightRec == [pc : {"none", "wait", "record"}, gen : Gens \union {0}, ctx : BOOLEAN,
              heard : BOOLEAN]
ClientRec == [gen : Gens \union {0}, link : {"closed", "open", "up"}, inc : Gens]
OpRec     == [id : Msg, pc : {"send", "receipt", "look", "prompt", "poll"}, inc : Gens]

LEMMA Types ==
  TypeOK =>
    /\ kind \in [Agent -> Kinds]
    /\ settled \in [Agent -> SUBSET Msg] /\ dead \in [Agent -> SUBSET Msg]
    /\ flight \in [Agent -> [Msg -> FlightRec]]
    /\ recorded \subseteq Msg /\ draft \in [Agent -> BOOLEAN]
    /\ adapter \in [Agent -> Gens \union {0}]
    /\ down \in [Agent -> Seq(Msg)] /\ up \in [Agent -> Seq(Frames)]
    /\ client \in [Agent -> ClientRec] /\ outbound \in [Agent -> Seq(Frames)]
    /\ ops \in [Agent -> SUBSET OpRec]
    /\ receipts \in [Agent -> SUBSET Msg] /\ branch \in [Agent -> SUBSET Msg]
    /\ shown \in [Agent -> SUBSET Msg] /\ pending \in [Agent -> SUBSET Msg]
    /\ copies \in [Agent -> [Msg -> Nat]] /\ doubts \in [Agent -> [Msg -> 0..MaxFaults]]
    /\ faults \in 0..MaxFaults
BY DEF TypeOK, FlightRec, ClientRec, OpRec

LEMMA GensAreNaturals ==
  /\ MaxFaults \in Nat /\ Gens \subseteq Nat /\ 0 \notin Gens /\ 1 \in Gens
  /\ \A g \in Nat : g \in Gens <=> 1 <= g /\ g <= MaxFaults + 1
BY LinkAssumption DEF Gens

(* What an injection and a client are made of. *)
LEMMA OpParts ==
  /\ \A o \in OpRec : o.id \in Msg /\ o.inc \in Gens
  /\ \A o \in OpRec : o.pc \in {"send", "receipt", "look", "prompt", "poll"}
BY DEF OpRec

LEMMA ClientParts ==
  /\ \A c \in ClientRec : c.gen \in Gens \union {0} /\ c.inc \in Gens
  /\ \A c \in ClientRec : c.link \in {"closed", "open", "up"}
BY DEF ClientRec

(* An injection that moved is the same but for where it is. *)
LEMMA MovedOp ==
  ASSUME NEW o \in OpRec, NEW pc \in {"send", "receipt", "look", "prompt", "poll"}
  PROVE  LET n == [o EXCEPT !.pc = pc]
         IN n \in OpRec /\ n.pc = pc /\ n.id = o.id /\ n.inc = o.inc
BY DEF OpRec

(* A sequence of some things is one of more things. *)
LEMMA SeqGrows ==
  ASSUME NEW S, NEW T, S \subseteq T, NEW s \in Seq(S)
  PROVE  s \in Seq(T)
<1>1. /\ Len(s) \in Nat /\ s \in [1..Len(s) -> S]
  BY LenProperties
<1>2. s \in [1..Len(s) -> T]
  BY <1>1
<1>. QED BY <1>1, <1>2, SeqDef

(* A session that shows more makes nothing untrue that was said. *)
LEMMA HonestGrows ==
  ASSUME NEW k, NEW seen, NEW more, seen \subseteq more
  PROVE  Honest(k, seen) \subseteq Honest(k, more)
BY DEF Honest

-----------------------------------------------------------------------------
(* Counting injections *)

(* Finite sets, one of which has an element less, the same, or one more. *)
LEMMA Fewer ==
  ASSUME NEW A, IsFiniteSet(A), NEW B, B \subseteq A
  PROVE  /\ IsFiniteSet(B) /\ Cardinality(A) \in Nat /\ Cardinality(B) \in Nat
         /\ Cardinality(B) <= Cardinality(A)
BY FS_Subset, FS_CardinalityType

LEMMA OneFewer ==
  ASSUME NEW A, IsFiniteSet(A), NEW x \in A, NEW B, B \subseteq A \ {x}
  PROVE  Cardinality(B) + 1 <= Cardinality(A)
<1>1. IsFiniteSet(A \ {x}) /\ Cardinality(A \ {x}) = Cardinality(A) - 1
  BY FS_RemoveElement
<1>2. /\ Cardinality(A) \in Nat /\ Cardinality(B) \in Nat
      /\ Cardinality(B) <= Cardinality(A \ {x})
  BY <1>1, Fewer, FS_CardinalityType
<1>. QED BY <1>1, <1>2

LEMMA OneMore ==
  ASSUME NEW A, IsFiniteSet(A), NEW x, NEW B, B \subseteq A \union {x}
  PROVE  Cardinality(B) <= Cardinality(A) + 1
<1>0. Cardinality(A) \in Nat
  BY FS_CardinalityType
<1>1. IsFiniteSet(A \union {x}) /\ Cardinality(A \union {x}) <= Cardinality(A) + 1
  <2>1. /\ IsFiniteSet(A \union {x})
        /\ Cardinality(A \union {x}) = IF x \in A THEN Cardinality(A) ELSE Cardinality(A) + 1
    BY FS_AddElement
  <2>. QED BY <1>0, <2>1
<1>2. /\ Cardinality(A \union {x}) \in Nat /\ Cardinality(B) \in Nat
      /\ Cardinality(B) <= Cardinality(A \union {x})
  BY <1>1, Fewer
<1>. QED BY <1>0, <1>1, <1>2

LEMMA AheadFinite ==
  ASSUME NEW S, IsFiniteSet(S), NEW m, NEW seen
  PROVE  IsFiniteSet(Ahead(S, m, seen)) /\ Cardinality(Ahead(S, m, seen)) \in Nat
<1>1. Ahead(S, m, seen) \subseteq S
  BY DEF Ahead
<1>. QED BY <1>1, Fewer

(* Injections of other messages do not count. *)
LEMMA Elsewhere ==
  ASSUME NEW S, NEW T, NEW m, \A o : o.id = m => (o \in S <=> o \in T)
  PROVE  /\ \A seen : Ahead(S, m, seen) = Ahead(T, m, seen)
         /\ \A inc : Owned(S, m, inc) <=> Owned(T, m, inc)
BY DEF Ahead, Owned

-----------------------------------------------------------------------------
(* What a step does to each part of the state *)

(* Sessions forget nothing. *)
LEMMA ShownStep ==
  ASSUME TypeOK, Moves
  PROVE  /\ shown' \in [Agent -> SUBSET Msg]
         /\ \A a \in Agent : shown[a] \subseteq shown'[a]
<1>t. /\ shown \in [Agent -> SUBSET Msg] /\ pending \in [Agent -> SUBSET Msg]
      /\ ops \in [Agent -> SUBSET OpRec]
  BY Types
<1> DEFINE Good == shown' \in [Agent -> SUBSET Msg] /\ \A b \in Agent : shown[b] \subseteq shown'[b]
<1>0. ASSUME NEW a \in Agent, NEW S \in SUBSET Msg,
             shown' = shown \/ shown' = [shown EXCEPT ![a] = @ \union S]
      PROVE  Good
  BY <1>t, <1>0
<1>1. UNCHANGED shown => Good
  BY <1>t
<1> HIDE DEF Good
<1>2. ASSUME NEW a \in Agent, NEW o \in ops[a], OmpSend(a, o)
      PROVE  Good
  <2>1. o.id \in Msg /\ {o.id} \in SUBSET Msg
    BY <1>t, OpParts
  <2>2. UNCHANGED shown \/ shown' = [shown EXCEPT ![a] = @ \union {o.id}]
    BY <1>2 DEF OmpSend
  <2>. QED BY <1>0, <2>1, <2>2
<1>3. ASSUME NEW a \in Agent, NEW m \in Msg, OcPersist(a, m)
      PROVE  Good
  <2>1. {m} \in SUBSET Msg /\ shown' = [shown EXCEPT ![a] = @ \union {m}]
    BY <1>3 DEF OcPersist
  <2>. QED BY <1>0, <2>1
<1>4. ASSUME NEW a \in Agent, OmpUnwinds(a)
      PROVE  Good
  <2>1. pending[a] \in SUBSET Msg /\ shown' = [shown EXCEPT ![a] = @ \union pending[a]]
    BY <1>t, <1>4 DEF OmpUnwinds
  <2>. QED BY <1>0, <2>1
<1>. QED BY <1>1, <1>2, <1>3, <1>4 DEF Moves, ShownMoves, Good

(* What a search found it finds again, and what a session took it keeps. *)
LEMMA HeldStep ==
  ASSUME TypeOK, Moves
  PROVE  /\ \A a \in Agent : Sighted[a] \subseteq Sighted'[a]
         /\ \A a \in Agent : Held[a] \subseteq Held'[a]
<1>t. copies \in [Agent -> [Msg -> Nat]] /\ ops \in [Agent -> SUBSET OpRec]
  BY Types
<1>k. kind' = kind
  BY DEF Moves
<1>1. \A a \in Agent, m \in Msg : Seen(a, m) => Seen(a, m)'
  BY ShownStep DEF Seen
<1>2. \A a \in Agent, m \in Msg : copies[a][m] > 0 => copies'[a][m] > 0
  <2>1. ASSUME NEW a \in Agent, NEW m \in Msg, Injected(a, m)
        PROVE  \A b \in Agent, n \in Msg : copies[b][n] > 0 => copies'[b][n] > 0
    BY <1>t, <2>1 DEF Injected
  <2>2. ASSUME NEW a \in Agent, NEW o \in ops[a],
               OmpSend(a, o) \/ OcPrompt(a, o) \/ OcFails(a, o)
        PROVE  \A b \in Agent, n \in Msg : copies[b][n] > 0 => copies'[b][n] > 0
    <3>1. o.id \in Msg
      BY <1>t, OpParts
    <3>2. UNCHANGED copies \/ Injected(a, o.id)
      BY <2>2 DEF OmpSend, OcPrompt, OcFails
    <3>. QED BY <2>1, <3>1, <3>2
  <2>. QED BY <2>2 DEF Moves, CopyMoves
<1>3. \A a \in Agent : Sighted[a] \subseteq Sighted'[a]
  BY <1>1 DEF Sighted
<1>4. \A a \in Agent : Held[a] \subseteq Held'[a]
  BY <1>k, <1>1, <1>2 DEF Held, OpenCode
<1>. QED BY <1>3, <1>4

(* What the session of OpenCode took is what a search finds in it. *)
LEMMA HeldParts ==
  ASSUME NEW a \in Agent, NEW m \in Msg
  PROVE  /\ kind[a] = "opencode" => (m \in Held[a] <=> Seen(a, m))
         /\ kind[a] # "opencode" => (m \in Held[a] <=> copies[a][m] > 0)
         /\ m \in Sighted[a] <=> Seen(a, m)
BY DEF Held, Sighted, OpenCode

(* A failure is counted once. *)
LEMMA FaultStep ==
  ASSUME TypeOK, Moves
  PROVE  /\ faults \in Nat /\ faults' \in 0..MaxFaults /\ faults <= faults'
         /\ Fault => faults' = faults + 1
<1>1. faults \in 0..MaxFaults
  BY Types
<1>. QED BY <1>1, GensAreNaturals DEF Moves, FaultMoves, Fault

(* The receipts of a session and of its client. *)
LEMMA ReceiptStep ==
  ASSUME TypeOK, Receipted, OpsOwned, Moves
  PROVE  /\ receipts' \in [Agent -> SUBSET Msg] /\ branch' \in [Agent -> SUBSET Msg]
         /\ Receipted'
<1>t. /\ receipts \in [Agent -> SUBSET Msg] /\ branch \in [Agent -> SUBSET Msg]
      /\ ops \in [Agent -> SUBSET OpRec]
  BY Types
<1>s. \A a \in Agent : Held[a] \subseteq Held'[a]
  BY HeldStep
<1>r. \A a \in Agent : receipts[a] \subseteq branch[a] /\ branch[a] \subseteq Held[a]
  BY DEF Receipted
<1>1. CASE UNCHANGED <<receipts, branch>>
  BY <1>t, <1>r, <1>s, <1>1 DEF Receipted
<1>2. ASSUME NEW a \in Agent, NEW o \in ops[a], OmpReceipt(a, o)
      PROVE  /\ receipts' \in [Agent -> SUBSET Msg] /\ branch' \in [Agent -> SUBSET Msg]
             /\ Receipted'
  <2>1. o.id \in Msg
    BY <1>t, OpParts
  <2>2. o.id \in Held[a]
    BY <1>2 DEF OmpReceipt, OpsOwned, OpsGood, OpOK
  <2>3. /\ branch' = [branch EXCEPT ![a] = @ \union {o.id}]
        /\ receipts' = receipts \/ receipts' = [receipts EXCEPT ![a] = @ \union {o.id}]
    BY <1>2 DEF OmpReceipt
  <2>4. /\ receipts' \in [Agent -> SUBSET Msg] /\ branch' \in [Agent -> SUBSET Msg]
    BY <1>t, <2>1, <2>3
  <2>5. \A b \in Agent : receipts'[b] \subseteq branch'[b] /\ branch'[b] \subseteq Held'[b]
    BY <1>t, <1>r, <1>s, <2>2, <2>3
  <2>. QED BY <2>4, <2>5 DEF Receipted
<1>3. ASSUME NEW a \in Agent, OmpRestart(a)
      PROVE  /\ receipts' \in [Agent -> SUBSET Msg] /\ branch' \in [Agent -> SUBSET Msg]
             /\ Receipted'
  <2>1. branch' = branch /\ receipts' = [receipts EXCEPT ![a] = branch[a]]
    BY <1>3 DEF OmpRestart
  <2>2. /\ receipts' \in [Agent -> SUBSET Msg] /\ branch' \in [Agent -> SUBSET Msg]
    BY <1>t, <2>1
  <2>3. \A b \in Agent : receipts'[b] \subseteq branch'[b] /\ branch'[b] \subseteq Held'[b]
    BY <1>t, <1>r, <1>s, <2>1
  <2>. QED BY <2>2, <2>3 DEF Receipted
<1>. QED BY <1>1, <1>2, <1>3 DEF Moves, ReceiptMoves

(* What is not visible yet are messages. *)
LEMMA PendingStep ==
  ASSUME TypeOK, Moves
  PROVE  pending' \in [Agent -> SUBSET Msg]
<1>t. pending \in [Agent -> SUBSET Msg] /\ ops \in [Agent -> SUBSET OpRec]
  BY Types
<1>1. CASE UNCHANGED pending
  BY <1>t, <1>1
<1>2. ASSUME NEW a \in Agent, NEW o \in ops[a],
             OmpSend(a, o) \/ OcPrompt(a, o) \/ OcFails(a, o)
      PROVE  pending' \in [Agent -> SUBSET Msg]
  <2>1. o.id \in Msg
    BY <1>t, OpParts
  <2>2. pending' = pending \/ pending' = [pending EXCEPT ![a] = @ \union {o.id}]
    BY <1>2 DEF OmpSend, OcPrompt, OcFails
  <2>. QED BY <1>t, <2>1, <2>2
<1>3. ASSUME NEW a \in Agent, NEW m \in Msg, OcPersist(a, m)
      PROVE  pending' \in [Agent -> SUBSET Msg]
  BY <1>t, <1>3 DEF OcPersist
<1>4. ASSUME NEW a \in Agent, OcRestart(a) \/ OmpRestart(a) \/ OmpUnwinds(a)
      PROVE  pending' \in [Agent -> SUBSET Msg]
  <2>1. UNCHANGED pending \/ pending' = [pending EXCEPT ![a] = {}]
    BY <1>4 DEF OcRestart, OmpRestart, OmpUnwinds
  <2>. QED BY <1>t, <2>1
<1>. QED BY <1>1, <1>2, <1>3, <1>4 DEF Moves, PendingMoves

(* What the daemon has on record are messages; drafts come and go. *)
LEMMA RecordedType ==
  ASSUME TypeOK, Moves
  PROVE  recorded' \subseteq Msg /\ draft' \in [Agent -> BOOLEAN]
<1>t. recorded \subseteq Msg /\ draft \in [Agent -> BOOLEAN]
  BY Types
<1>1. recorded' \subseteq Msg
  BY <1>t DEF Moves, RecordMoves, Record
<1>2. draft' \in [Agent -> BOOLEAN]
  BY <1>t DEF Moves, DraftMoves, Typing
<1>. QED BY <1>1, <1>2

(* A connection and a client are counted; every new client is a failure. *)
LEMMA ClientStep ==
  ASSUME TypeOK, ClientsPaid, Moves
  PROVE  client' \in [Agent -> ClientRec] /\ ClientsPaid'
<1>t. client \in [Agent -> ClientRec] /\ \A a \in Agent : client[a].inc <= faults + 1
  BY Types DEF ClientsPaid
<1>f. /\ faults \in Nat /\ faults' \in Nat /\ faults' <= MaxFaults /\ faults <= faults'
      /\ Fault => faults' = faults + 1
  BY FaultStep, GensAreNaturals
<1>n. \A a \in Agent : client[a].inc \in Nat /\ client[a].inc >= 1
  BY <1>t, ClientParts, GensAreNaturals
<1>p. \A a \in Agent : client[a].inc <= faults' + 1
  BY <1>t, <1>f, <1>n
<1>1. CASE UNCHANGED client
  <2>1. \A a \in Agent : client'[a].inc <= faults' + 1
    BY <1>p, <1>1
  <2>. QED BY <1>t, <1>1, <2>1 DEF ClientsPaid
<1>2. ASSUME NEW a \in Agent, NEW c \in ClientRec, client' = [client EXCEPT ![a] = c],
             c.inc = client[a].inc \/ (c.inc = client[a].inc + 1 /\ Fault)
      PROVE  client' \in [Agent -> ClientRec] /\ ClientsPaid'
  <2>2. c.inc <= faults' + 1
    BY <1>t, <1>f, <1>n, <1>p, <1>2
  <2>3. \A b \in Agent : client'[b].inc <= faults' + 1
    BY <1>t, <1>p, <1>2, <2>2
  <2>. QED BY <1>t, <1>2, <2>3 DEF ClientsPaid
<1>3. CASE DaemonRestart
  <2>1. client' = [a \in Agent |-> [client[a] EXCEPT !.link = "closed"]]
    BY <1>3 DEF DaemonRestart
  <2>2. \A c \in ClientRec : /\ [c EXCEPT !.link = "closed"] \in ClientRec
                             /\ [c EXCEPT !.link = "closed"].inc = c.inc
    BY DEF ClientRec
  <2>3. \A a \in Agent : client'[a] \in ClientRec /\ client'[a].inc = client[a].inc
    BY <1>t, <2>1, <2>2
  <2>4. \A a \in Agent : client'[a].inc <= faults' + 1
    BY <1>p, <2>3
  <2>. QED BY <2>1, <2>3, <2>4 DEF ClientsPaid
<1>4. ASSUME NEW a \in Agent, Connect(a)
      PROVE  client' \in [Agent -> ClientRec] /\ ClientsPaid'
  <2> DEFINE c == [client[a] EXCEPT !.gen = client[a].gen + 1, !.link = "open"]
  <2>1. client[a].gen + 1 \in Gens
    BY <1>4, GensAreNaturals DEF Connect
  <2>2. client[a] \in ClientRec
    BY <1>t
  <2>3. c \in ClientRec /\ c.inc = client[a].inc
    BY <2>1, <2>2 DEF ClientRec
  <2>4. client' = [client EXCEPT ![a] = c]
    BY <1>t, <1>4 DEF Connect
  <2> HIDE DEF c
  <2>. QED BY <1>2, <2>3, <2>4
<1>5. ASSUME NEW a \in Agent, NEW l \in {"closed", "open", "up"},
             client' = [client EXCEPT ![a].link = l]
      PROVE  client' \in [Agent -> ClientRec] /\ ClientsPaid'
  <2> DEFINE c == [client[a] EXCEPT !.link = l]
  <2>1. client[a] \in ClientRec
    BY <1>t
  <2>2. c \in ClientRec /\ c.inc = client[a].inc
    BY <2>1 DEF ClientRec
  <2>3. client' = [client EXCEPT ![a] = c]
    BY <1>t, <1>5
  <2> HIDE DEF c
  <2>. QED BY <1>2, <2>2, <2>3
<1>6. ASSUME NEW a \in Agent, Fault, NewClient(a)
      PROVE  client' \in [Agent -> ClientRec] /\ ClientsPaid'
  <2> DEFINE c == [client[a] EXCEPT !.inc = client[a].inc + 1, !.link = "closed"]
  <2>1. client[a] \in ClientRec
    BY <1>t
  <2>2. client[a].inc + 1 \in Gens
    <3>1. client[a].inc <= faults + 1 /\ faults + 1 <= MaxFaults
      BY <1>t, <1>f, <1>6
    <3>2. client[a].inc + 1 \in Nat /\ 1 <= client[a].inc + 1 /\ client[a].inc + 1 <= MaxFaults + 1
      BY <1>f, <1>n, <3>1, GensAreNaturals
    <3>. QED BY <3>2, GensAreNaturals
  <2>3. c \in ClientRec /\ c.inc = client[a].inc + 1
    BY <2>1, <2>2 DEF ClientRec
  <2>4. client' = [client EXCEPT ![a] = c]
    BY <1>t, <1>6 DEF NewClient
  <2> HIDE DEF c
  <2>. QED BY <1>2, <1>6, <2>3, <2>4
<1>7. ASSUME NEW a \in Agent, Registered(a) \/ Closed(a)
      PROVE  client' \in [Agent -> ClientRec] /\ ClientsPaid'
  BY <1>5, <1>7 DEF Registered, Closed
<1>8. ASSUME NEW a \in Agent, OmpRestart(a) \/ OcRestart(a)
      PROVE  client' \in [Agent -> ClientRec] /\ ClientsPaid'
  BY <1>6, <1>8 DEF OmpRestart, OcRestart
<1>. QED BY <1>1, <1>3, <1>4, <1>7, <1>8 DEF Moves, ClientMoves

(* The adapter of an agent is one of its connections. *)
LEMMA AdapterStep ==
  ASSUME TypeOK, Moves
  PROVE  adapter' \in [Agent -> Gens \union {0}]
<1>t. adapter \in [Agent -> Gens \union {0}] /\ client \in [Agent -> ClientRec]
  BY Types
<1>1. ASSUME NEW a \in Agent, Connect(a)
      PROVE  adapter' \in [Agent -> Gens \union {0}]
  <2>1. client[a].gen + 1 \in Gens
    BY <1>1, GensAreNaturals DEF Connect
  <2>2. adapter' = [adapter EXCEPT ![a] = client[a].gen + 1]
    BY <1>1 DEF Connect
  <2>. QED BY <1>t, <2>1, <2>2
<1>2. ASSUME NEW a \in Agent, NEW g \in Gens, Deregister(a, g)
      PROVE  adapter' \in [Agent -> Gens \union {0}]
  BY <1>t, <1>2 DEF Deregister, Drop
<1>4. ASSUME NEW a \in Agent, NEW m \in Msg, WriteFails(a, m)
      PROVE  adapter' \in [Agent -> Gens \union {0}]
  BY <1>t, <1>4 DEF WriteFails, Drop
<1>3. CASE DaemonRestart
  BY <1>3 DEF DaemonRestart
<1>. QED BY <1>t, <1>1, <1>2, <1>3, <1>4 DEF Moves, AdapterMoves

(* Injections stay those of the plug-in of their agent's harness. *)
LEMMA OpsStep ==
  ASSUME TypeOK, OpsOwned, Moves
  PROVE  ops' \in [Agent -> SUBSET OpRec] /\ OpsOwned'
<1>t. /\ ops \in [Agent -> SUBSET OpRec] /\ client \in [Agent -> ClientRec]
      /\ down \in [Agent -> Seq(Msg)]
  BY Types
<1>k. kind' = kind
  BY DEF Moves
<1>s. \A a \in Agent : Held[a] \subseteq Held'[a]
  BY HeldStep
<1>o. \A a \in Agent : /\ IsFiniteSet(ops[a])
                       /\ \A o \in ops[a] : OpOK(o, kind[a], Held[a]) /\ OpOK(o, kind[a], Held'[a])
  BY <1>s DEF OpsOwned, OpsGood, OpOK
<1> DEFINE Good == ops' \in [Agent -> SUBSET OpRec] /\ OpsOwned'
<1>1. ASSUME NEW a \in Agent, NEW S \in SUBSET OpRec, ops' = [ops EXCEPT ![a] = S],
             IsFiniteSet(S), \A o \in S : OpOK(o, kind[a], Held'[a])
      PROVE  Good
  <2>1. ops' \in [Agent -> SUBSET OpRec]
    BY <1>t, <1>1
  <2>2. \A b \in Agent : IsFiniteSet(ops'[b]) /\ \A o \in ops'[b] : OpOK(o, kind'[b], Held'[b])
    BY <1>t, <1>k, <1>o, <1>1
  <2>. QED BY <2>1, <2>2 DEF OpsOwned, OpsGood
<1> HIDE DEF Good
<1>2. ASSUME NEW a \in Agent, NEW o \in ops[a], Ended(a, o)
      PROVE  Good
  <2>1. IsFiniteSet(ops[a] \ {o})
    BY <1>o, FS_RemoveElement
  <2>2. ops' = [ops EXCEPT ![a] = ops[a] \ {o}] /\ ops[a] \ {o} \in SUBSET OpRec
    BY <1>t, <1>2 DEF Ended
  <2>. QED BY <1>1, <1>o, <2>1, <2>2
<1>3. ASSUME NEW a \in Agent, NEW n \in OpRec, NEW S \in SUBSET ops[a],
             ops' = [ops EXCEPT ![a] = S \union {n}], OpOK(n, kind[a], Held'[a])
      PROVE  Good
  <2>1. IsFiniteSet(S)
    BY <1>o, FS_Subset
  <2>2. IsFiniteSet(S \union {n})
    BY <2>1, FS_AddElement
  <2>3. S \union {n} \in SUBSET OpRec /\ \A o \in S \union {n} : OpOK(o, kind[a], Held'[a])
    BY <1>t, <1>o, <1>3
  <2>. QED BY <1>1, <1>3, <2>2, <2>3
<1>4. ASSUME NEW a \in Agent, NEW o \in ops[a],
             NEW pc \in {"send", "receipt", "look", "prompt", "poll"}, Moved(a, o, pc),
             pc = "receipt" => kind[a] = "omp" /\ o.id \in Held'[a],
             pc # "send", pc \in {"look", "prompt", "poll"} => kind[a] = "opencode"
      PROVE  Good
  <2> DEFINE n == [o EXCEPT !.pc = pc]
  <2>1. n \in OpRec /\ n.pc = pc /\ n.id = o.id
    BY <1>t, MovedOp
  <2>2. ops' = [ops EXCEPT ![a] = (ops[a] \ {o}) \union {n}] /\ ops[a] \ {o} \in SUBSET ops[a]
    BY <1>t, <1>4 DEF Moved
  <2> HIDE DEF n
  <2>3. OpOK(n, kind[a], Held'[a])
    BY <1>4, <2>1 DEF OpOK
  <2>. QED BY <1>3, <2>1, <2>2, <2>3
<1>5. ASSUME NEW a \in Agent, NEW m \in Msg, NEW pc \in {"send", "look"}, Began(a, m, pc),
             pc = "send" => kind[a] \in {"omp", "omp_old"}, pc = "look" => kind[a] = "opencode"
      PROVE  Good
  <2> DEFINE n == [id |-> m, pc |-> pc, inc |-> client[a].inc]
  <2>1. n \in OpRec /\ n.pc = pc
    BY <1>t, ClientParts DEF OpRec
  <2>2. ops' = [ops EXCEPT ![a] = ops[a] \union {n}] /\ ops[a] \in SUBSET ops[a]
    BY <1>t, <1>5 DEF Began
  <2> HIDE DEF n
  <2>3. OpOK(n, kind[a], Held'[a])
    BY <1>5, <2>1 DEF OpOK
  <2>. QED BY <1>3, <2>1, <2>2, <2>3
<1>6. ASSUME UNCHANGED ops
      PROVE  Good
  BY <1>t, <1>k, <1>o, <1>6 DEF Good, OpsOwned, OpsGood
<1>7. ASSUME NEW a \in Agent, ops' = [ops EXCEPT ![a] = {}]
      PROVE  Good
  BY <1>1, <1>7, FS_EmptySet
<1>8. ASSUME NEW a \in Agent, OmpDeliver(a)
      PROVE  Good
  <2>1. /\ Head(down[a]) \in Msg /\ kind[a] \in {"omp", "omp_old"}
    BY <1>t, <1>8, HeadTailProperties DEF OmpDeliver, Read, Omp
  <2>2. UNCHANGED ops \/ Began(a, Head(down[a]), "send")
    BY <1>8 DEF OmpDeliver
  <2>. QED BY <1>5, <1>6, <2>1, <2>2
<1>9. ASSUME NEW a \in Agent, OcDeliver(a)
      PROVE  Good
  <2>1. /\ Head(down[a]) \in Msg /\ kind[a] = "opencode"
    BY <1>t, <1>9, HeadTailProperties DEF OcDeliver, Read, OpenCode
  <2>2. UNCHANGED ops \/ Began(a, Head(down[a]), "look")
    BY <1>9 DEF OcDeliver
  <2>. QED BY <1>5, <1>6, <2>1, <2>2
<1>10. ASSUME NEW a \in Agent, NEW o \in ops[a], OmpSend(a, o)
       PROVE  Good
  <2>1. CASE kind[a] = "omp"
    <3>1. copies \in [Agent -> [Msg -> Nat]] /\ o.id \in Msg
      BY <1>t, Types, OpParts
    <3>2. Moved(a, o, "receipt") /\ Injected(a, o.id)
      BY <1>10, <2>1 DEF OmpSend
    <3>3. copies'[a][o.id] > 0
      BY <3>1, <3>2 DEF Injected
    <3>4. o.id \in Held'[a]
      BY <1>k, <2>1, <3>1, <3>3 DEF Held, OpenCode
    <3>. QED BY <1>4, <2>1, <3>2, <3>4
  <2>2. CASE kind[a] # "omp"
    BY <1>2, <1>10, <2>2 DEF OmpSend
  <2>. QED BY <2>1, <2>2
<1>11. ASSUME NEW a \in Agent, NEW o \in ops[a],
              OmpReceipt(a, o) \/ OmpSendFails(a, o) \/ OmpReceiptFails(a, o) \/ OcPoll(a, o)
              \/ OcFails(a, o)
       PROVE  Good
  <2>1. Ended(a, o)
    BY <1>11 DEF OmpReceipt, OmpSendFails, OmpReceiptFails, OcPoll, OcFails
  <2>. QED BY <1>2, <2>1
<1>12. ASSUME NEW a \in Agent, NEW o \in ops[a], OcLook(a, o)
       PROVE  Good
  <2>1. kind[a] = "opencode"
    BY <1>o, <1>12 DEF OcLook, OpOK
  <2>2. Ended(a, o) \/ Moved(a, o, "prompt")
    BY <1>12 DEF OcLook
  <2>. QED BY <1>2, <1>4, <2>1, <2>2
<1>13. ASSUME NEW a \in Agent, NEW o \in ops[a], OcPrompt(a, o)
       PROVE  Good
  <2>1. kind[a] = "opencode"
    BY <1>o, <1>13 DEF OcPrompt, OpOK
  <2>2. Moved(a, o, "poll")
    BY <1>13 DEF OcPrompt
  <2>. QED BY <1>4, <2>1, <2>2
<1>14. ASSUME NEW a \in Agent, OmpRestart(a) \/ OcRestart(a)
       PROVE  Good
  <2>1. UNCHANGED ops \/ ops' = [ops EXCEPT ![a] = {}]
    BY <1>14 DEF OmpRestart, OcRestart
  <2>. QED BY <1>6, <1>7, <2>1
<1>. QED BY <1>6, <1>8, <1>9, <1>10, <1>11, <1>12, <1>13, <1>14 DEF Moves, OpsMoves, Good

(* Frames to a plug-in are messages. *)
LEMMA DownStep ==
  ASSUME TypeOK, Moves
  PROVE  down' \in [Agent -> Seq(Msg)]
<1>t. down \in [Agent -> Seq(Msg)]
  BY Types
<1>e. << >> \in Seq(Msg)
  BY EmptySeq
<1>1. ASSUME NEW a \in Agent, NEW m \in Msg, DeliverNative(a, m)
      PROVE  down' \in [Agent -> Seq(Msg)]
  <2>1. Append(down[a], m) \in Seq(Msg)
    BY <1>t, AppendProperties
  <2>2. down' = down \/ down' = [down EXCEPT ![a] = Append(down[a], m)]
    BY <1>t, <1>1 DEF DeliverNative
  <2>. QED BY <1>t, <2>1, <2>2
<1>2. ASSUME NEW a \in Agent, OmpDeliver(a) \/ OcDeliver(a)
      PROVE  down' \in [Agent -> Seq(Msg)]
  <2>1. down[a] # << >> /\ down' = [down EXCEPT ![a] = Tail(down[a])]
    BY <1>t, <1>2 DEF OmpDeliver, OcDeliver, Read
  <2>2. Tail(down[a]) \in Seq(Msg)
    BY <1>t, <2>1, HeadTailProperties
  <2>. QED BY <1>t, <2>1, <2>2
<1>3. CASE DaemonRestart
  BY <1>e, <1>3 DEF DaemonRestart
<1>4. ASSUME NEW a \in Agent, Closed(a) \/ OmpRestart(a) \/ OcRestart(a)
      PROVE  down' \in [Agent -> Seq(Msg)]
  BY <1>t, <1>e, <1>4 DEF Closed, OmpRestart, OcRestart, NewClient
<1>. QED BY <1>t, <1>1, <1>2, <1>3, <1>4 DEF Moves, DownMoves

(* What a plug-in says is true, whoever hears it and when. *)
LEMMA UpStep ==
  ASSUME TypeOK, Truthful, Receipted, OpsOwned, Moves
  PROVE  /\ up' \in [Agent -> Seq(Frames)] /\ outbound' \in [Agent -> Seq(Frames)]
         /\ Truthful'
<1>t. /\ up \in [Agent -> Seq(Frames)] /\ outbound \in [Agent -> Seq(Frames)]
      /\ ops \in [Agent -> SUBSET OpRec] /\ down \in [Agent -> Seq(Msg)]
  BY Types
<1>k. kind' = kind
  BY DEF Moves
<1>s. \A a \in Agent : Held[a] \subseteq Held'[a]
  BY HeldStep
<1> DEFINE H(a) == Honest(kind[a], Held'[a])
<1>h. \A a \in Agent : Honest(kind[a], Held[a]) \subseteq H(a) /\ H(a) \subseteq Frames
  BY <1>s, HonestGrows DEF Honest
<1>u. \A a \in Agent : up[a] \in Seq(H(a)) /\ outbound[a] \in Seq(H(a))
  <2> HIDE DEF H
  <2> TAKE a \in Agent
  <2> DEFINE S == Honest(kind[a], Held[a])
  <2>1. up[a] \in Seq(S) /\ outbound[a] \in Seq(S)
    BY DEF Truthful
  <2>2. S \subseteq H(a)
    BY <1>h
  <2> HIDE DEF S
  <2>. QED BY <2>1, <2>2, SeqGrows
<1>e. \A a \in Agent : << >> \in Seq(H(a))
  BY EmptySeq
<1> HIDE DEF H
<1> DEFINE Good == /\ up' \in [Agent -> Seq(Frames)] /\ outbound' \in [Agent -> Seq(Frames)]
                   /\ Truthful'
<1>1. ASSUME up' = [a \in Agent |-> up'[a]], outbound' = [a \in Agent |-> outbound'[a]],
             \A a \in Agent : up'[a] \in Seq(H(a)) /\ outbound'[a] \in Seq(H(a))
      PROVE  Good
  <2>1. \A a \in Agent : up'[a] \in Seq(Frames) /\ outbound'[a] \in Seq(Frames)
    BY <1>1, <1>h, SeqGrows
  <2>2. Truthful'
    BY <1>1, <1>k DEF Truthful, H
  <2>. QED BY <1>1, <2>1, <2>2
<1>2. CASE UNCHANGED <<up, outbound>>
  BY <1>1, <1>2, <1>t, <1>u
<1> HIDE DEF Good
<1>3. ASSUME NEW a \in Agent, NEW s \in Seq(H(a)), NEW r \in Seq(H(a)),
             up' = up \/ up' = [up EXCEPT ![a] = s],
             outbound' = outbound \/ outbound' = [outbound EXCEPT ![a] = r]
      PROVE  Good
  <2>1. up' = [b \in Agent |-> up'[b]] /\ outbound' = [b \in Agent |-> outbound'[b]]
    BY <1>t, <1>3
  <2>2. \A b \in Agent : up'[b] \in Seq(H(b)) /\ outbound'[b] \in Seq(H(b))
    BY <1>t, <1>u, <1>3
  <2>. QED BY <1>1, <2>1, <2>2
<1>4. ASSUME NEW a \in Agent, NEW inc, NEW t \in {"ack", "nak", "dead"}, NEW m \in Msg,
             Queue(a, inc, t, m), t = "ack" => m \in Held'[a], t = "dead" => kind[a] = "omp_old"
      PROVE  Good
  <2> DEFINE f == [t |-> t, id |-> m]
  <2>1. f \in H(a)
    BY <1>4 DEF H, Honest, Frames
  <2>2. up' = up \/ up' = [up EXCEPT ![a] = Append(up[a], f)]
    BY <1>t, <1>4 DEF Queue
  <2>3. outbound' = outbound \/ outbound' = [outbound EXCEPT ![a] = Append(outbound[a], f)]
    BY <1>t, <1>4 DEF Queue
  <2> HIDE DEF f
  <2>4. Append(up[a], f) \in Seq(H(a)) /\ Append(outbound[a], f) \in Seq(H(a))
    BY <1>u, <2>1, AppendProperties
  <2>. QED BY <1>3, <2>2, <2>3, <2>4
<1>5. ASSUME NEW a \in Agent, Control(a)
      PROVE  Good
  <2>1. up[a] # << >> /\ up' = [up EXCEPT ![a] = Tail(up[a])] /\ outbound' = outbound
    BY <1>t, <1>5 DEF Control
  <2>2. Tail(up[a]) \in Seq(H(a))
    BY <1>u, <2>1, HeadTailProperties
  <2>. QED BY <1>3, <1>e, <2>1, <2>2
<1>6. ASSUME DaemonRestart
      PROVE  Good
  <2>1. up' = [a \in Agent |-> << >>] /\ outbound' = outbound
    BY <1>6 DEF DaemonRestart
  <2>. QED BY <1>1, <1>t, <1>u, <1>e, <2>1
<1>7. ASSUME NEW a \in Agent, Registered(a)
      PROVE  Good
  <2>1. /\ up' = [up EXCEPT ![a] = up[a] \o outbound[a]]
        /\ outbound' = [outbound EXCEPT ![a] = << >>]
    BY <1>t, <1>7 DEF Registered
  <2>2. up[a] \o outbound[a] \in Seq(H(a))
    BY <1>u, ConcatProperties
  <2>. QED BY <1>3, <1>e, <2>1, <2>2
<1>8. ASSUME NEW a \in Agent, Closed(a) \/ OmpRestart(a) \/ OcRestart(a)
      PROVE  Good
  <2>1. /\ up' = [up EXCEPT ![a] = << >>]
        /\ outbound' = outbound \/ outbound' = [outbound EXCEPT ![a] = << >>]
    BY <1>8 DEF Closed, OmpRestart, OcRestart, NewClient
  <2>. QED BY <1>3, <1>e, <2>1
<1>9. ASSUME NEW a \in Agent, OmpDeliver(a)
      PROVE  Good
  <2>1. Head(down[a]) \in Msg
    BY <1>t, <1>9, HeadTailProperties DEF OmpDeliver, Read
  <2>2. CASE Head(down[a]) \in receipts[a]
    <3>1. Head(down[a]) \in Held'[a]
      BY <1>s, <2>2 DEF Receipted
    <3>2. Queue(a, client[a].inc, "ack", Head(down[a]))
      BY <1>9, <2>2 DEF OmpDeliver
    <3>. QED BY <1>4, <2>1, <3>1, <3>2
  <2>3. CASE Head(down[a]) \notin receipts[a]
    BY <1>2, <1>9, <2>3 DEF OmpDeliver, Good
  <2>. QED BY <2>2, <2>3
<1>i. \A a \in Agent : \A o \in ops[a] : o.id \in Msg /\ OpOK(o, kind[a], Held[a])
  BY <1>t, OpParts DEF OpsOwned, OpsGood
<1>10. ASSUME NEW a \in Agent, NEW o \in ops[a], OmpSend(a, o)
       PROVE  Good
  <2>1. \/ UNCHANGED <<up, outbound>>
        \/ kind[a] = "omp_old" /\ Queue(a, o.inc, "dead", o.id)
    BY <1>10 DEF OmpSend
  <2>2. UNCHANGED <<up, outbound>> => Good
    BY <1>2 DEF Good
  <2>. QED BY <1>4, <1>i, <2>1, <2>2
<1>11. ASSUME NEW a \in Agent, NEW o \in ops[a],
              OmpSendFails(a, o) \/ OmpReceiptFails(a, o) \/ OcFails(a, o)
       PROVE  Good
  <2>1. Queue(a, o.inc, "nak", o.id)
    BY <1>11 DEF OmpSendFails, OmpReceiptFails, OcFails
  <2>. QED BY <1>4, <1>i, <2>1
<1>12. ASSUME NEW a \in Agent, NEW o \in ops[a], OmpReceipt(a, o)
       PROVE  Good
  <2>1. Queue(a, o.inc, "ack", o.id) /\ o.pc = "receipt"
    BY <1>12 DEF OmpReceipt
  <2>2. o.id \in Held'[a]
    BY <1>i, <1>s, <2>1 DEF OpOK
  <2>. QED BY <1>4, <1>i, <2>1, <2>2
<1>13. ASSUME NEW a \in Agent, NEW o \in ops[a], OcLook(a, o) \/ OcPoll(a, o)
       PROVE  Good
  <2>0. kind[a] = "opencode" /\ o.id \in Msg
    BY <1>i, <1>13 DEF OcLook, OcPoll, OpOK
  <2>1. \/ UNCHANGED <<up, outbound>>
        \/ o.id \in Held[a] /\ Queue(a, o.inc, "ack", o.id)
    BY <1>13, <2>0, HeldParts DEF OcLook, OcPoll
  <2>2. UNCHANGED <<up, outbound>> => Good
    BY <1>2 DEF Good
  <2>. QED BY <1>4, <1>i, <1>s, <2>1, <2>2
<1>14. UNCHANGED <<up, outbound>> => Good
  BY <1>2 DEF Good
<1>. QED BY <1>5, <1>6, <1>7, <1>8, <1>9, <1>10, <1>11, <1>12, <1>13, <1>14
     DEF Moves, UpMoves, Good

(* What is about to be recorded was acknowledged by the plug-in. *)
LEMMA FlightStep ==
  ASSUME TypeOK, Truthful, Addressed, AboutToRecord, Moves
  PROVE  flight' \in [Agent -> [Msg -> FlightRec]] /\ Addressed' /\ AboutToRecord'
<1>t. /\ flight \in [Agent -> [Msg -> FlightRec]] /\ adapter \in [Agent -> Gens \union {0}]
      /\ up \in [Agent -> Seq(Frames)]
  BY Types
<1>s. \A a \in Agent : Held[a] \subseteq Held'[a]
  BY HeldStep
<1>r. \A a \in Agent, m \in Msg : flight[a][m].pc = "record" => m \in Held'[a]
  BY <1>s DEF AboutToRecord
<1>f. \A a \in Agent, m \in Msg : flight[a][m].pc # "none" => a \in For[m]
  BY DEF Addressed
<1>n. NoFlight \in FlightRec /\ NoFlight.pc = "none"
  BY DEF NoFlight, FlightRec
<1> DEFINE Good == /\ flight' \in [Agent -> [Msg -> FlightRec]]
                   /\ Addressed' /\ AboutToRecord'
<1>1. ASSUME NEW a \in Agent, NEW m \in Msg, NEW n \in FlightRec,
             flight' = [flight EXCEPT ![a][m] = n], n.pc = "record" => m \in Held'[a],
             n.pc # "none" => a \in For[m]
      PROVE  Good
  <2>1. flight' \in [Agent -> [Msg -> FlightRec]]
    BY <1>t, <1>1
  <2>2. \A b \in Agent, k \in Msg : flight'[b][k].pc = "record" => k \in Held'[b]
    BY <1>t, <1>r, <1>1
  <2>3. \A b \in Agent, k \in Msg : flight'[b][k].pc # "none" => b \in For[k]
    BY <1>t, <1>f, <1>1
  <2>. QED BY <2>1, <2>2, <2>3 DEF Addressed, AboutToRecord
<1>2. ASSUME UNCHANGED flight
      PROVE  Good
  BY <1>t, <1>r, <1>f, <1>2 DEF Addressed, AboutToRecord
<1>3. ASSUME NEW f \in [Agent -> [Msg -> FlightRec]], flight' = f,
             \A a \in Agent, m \in Msg : f[a][m].pc \in {"none", flight[a][m].pc}
      PROVE  Good
  BY <1>r, <1>f, <1>3 DEF Addressed, AboutToRecord
<1> HIDE DEF Good
<1>4. ASSUME NEW a \in Agent, NEW m \in Msg, NEW out, Answered(a, m, out)
      PROVE  Good
  <2>1. flight' = [flight EXCEPT ![a][m] = NoFlight]
    BY <1>4 DEF Answered
  <2>. QED BY <1>1, <1>n, <2>1
<1>5. ASSUME NEW a \in Agent, NEW m \in Msg, Follow(a, m)
      PROVE  Good
  <2> DEFINE n == [flight[a][m] EXCEPT !.heard = TRUE]
  <2>1. flight[a][m] \in FlightRec
    BY <1>t
  <2>2. n \in FlightRec /\ n.pc = flight[a][m].pc
    BY <2>1 DEF FlightRec
  <2>3. flight' = [flight EXCEPT ![a][m] = n]
    BY <1>t, <1>5 DEF Follow
  <2>4. a \in For[m]
    BY <1>5 DEF Follow, Due
  <2> HIDE DEF n
  <2>. QED BY <1>1, <1>r, <2>2, <2>3, <2>4
<1>6. ASSUME NEW a \in Agent, NEW m \in Msg, DeliverNative(a, m)
      PROVE  Good
  <2> DEFINE n == [pc |-> "wait", gen |-> adapter[a], ctx |-> TRUE, heard |-> TRUE]
  <2>1. n \in FlightRec /\ n.pc # "record"
    BY <1>t DEF FlightRec
  <2>2. flight' = [flight EXCEPT ![a][m] = n] /\ a \in For[m]
    BY <1>6 DEF DeliverNative, Waits, Deliverable, Due
  <2> HIDE DEF n
  <2>. QED BY <1>1, <2>1, <2>2
<1>7. ASSUME NEW a \in Agent, Control(a)
      PROVE  Good
  <2> DEFINE f == Head(up[a])
  <2>1. up[a] \in Seq(Honest(kind[a], Held[a])) /\ up[a] # << >>
    BY <1>7 DEF Truthful, Control
  <2>2. f \in Honest(kind[a], Held[a])
    BY <2>1, HeadTailProperties
  <2>3. f.id \in Msg /\ (f.t = "ack" => f.id \in Held'[a])
    BY <2>2, <1>s DEF Honest, Frames
  <2>4. CASE UNCHANGED flight
    BY <1>2, <2>4
  <2>5. CASE /\ f.t = "ack" /\ flight' = [flight EXCEPT ![a][f.id].pc = "record"]
             /\ a \in For[f.id]
    <3> DEFINE n == [flight[a][f.id] EXCEPT !.pc = "record"]
    <3>1. flight[a][f.id] \in FlightRec
      BY <1>t, <2>3
    <3>2. n \in FlightRec
      BY <3>1 DEF FlightRec
    <3>3. flight' = [flight EXCEPT ![a][f.id] = n]
      BY <1>t, <2>3, <2>5
    <3>4. f.id \in Msg /\ f.id \in Held'[a] /\ a \in For[f.id]
      BY <2>3, <2>5
    <3> HIDE DEF n, f
    <3>. QED BY <1>1, <3>2, <3>3, <3>4
  <2>6. CASE Answered(a, f.id, f.t)
    BY <1>4, <2>3, <2>6
  <2>8. \A g : Waiting(a, f.id, g) => a \in For[f.id]
    BY <1>f, <2>3 DEF Waiting
  <2>7. \/ UNCHANGED flight
        \/ /\ f.t = "ack" /\ flight' = [flight EXCEPT ![a][f.id].pc = "record"]
           /\ a \in For[f.id]
        \/ Answered(a, f.id, f.t)
    BY <1>7, <2>8 DEF Control
  <2>. QED BY <2>4, <2>5, <2>6, <2>7
<1>8. ASSUME NEW a \in Agent, NEW m \in Msg,
             Record(a, m) \/ RecordFails(a, m) \/ Timeout(a, m) \/ Cancelled(a, m)
      PROVE  Good
  BY <1>4, <1>8 DEF Record, RecordFails, Timeout, Cancelled
<1>9. ASSUME WireDrop
      PROVE  Good
  <2> DEFINE g == [a \in Agent |-> [m \in Msg |->
                     [flight[a][m] EXCEPT !.ctx = FALSE, !.heard = FALSE]]]
  <2>1. \A a \in Agent, m \in Msg : flight[a][m] \in FlightRec
    BY <1>t
  <2>2. \A x \in FlightRec : /\ [x EXCEPT !.ctx = FALSE, !.heard = FALSE] \in FlightRec
                             /\ [x EXCEPT !.ctx = FALSE, !.heard = FALSE].pc = x.pc
    BY DEF FlightRec
  <2>3. g \in [Agent -> [Msg -> FlightRec]]
    BY <2>1, <2>2
  <2>4. \A a \in Agent, m \in Msg : g[a][m].pc = flight[a][m].pc
    BY <2>1, <2>2
  <2>5. flight' = g
    BY <1>9 DEF WireDrop
  <2> HIDE DEF g
  <2>. QED BY <1>3, <2>3, <2>4, <2>5
<1>10. ASSUME NEW a \in Agent, NEW g, Drop(a, g)
       PROVE  Good
  <2> DEFINE h == [m \in Msg |-> IF Waiting(a, m, g) THEN NoFlight ELSE flight[a][m]]
             f == [flight EXCEPT ![a] = h]
  <2>1. h \in [Msg -> FlightRec]
    BY <1>t, <1>n
  <2>2. \A m \in Msg : h[m].pc \in {"none", flight[a][m].pc}
    BY <1>n
  <2>3. flight' = f
    BY <1>t, <1>10 DEF Drop
  <2> HIDE DEF h
  <2>4. f \in [Agent -> [Msg -> FlightRec]]
    BY <1>t, <2>1
  <2>5. \A b \in Agent, m \in Msg : f[b][m].pc \in {"none", flight[b][m].pc}
    BY <1>t, <2>2
  <2> HIDE DEF f
  <2>. QED BY <1>3, <2>3, <2>4, <2>5
<1>11. ASSUME DaemonRestart
       PROVE  Good
  <2> DEFINE f == [a \in Agent |-> [m \in Msg |-> NoFlight]]
  <2>1. /\ f \in [Agent -> [Msg -> FlightRec]]
        /\ \A b \in Agent, m \in Msg : f[b][m].pc = "none"
    BY <1>n
  <2>2. flight' = f
    BY <1>11 DEF DaemonRestart
  <2> HIDE DEF f
  <2>. QED BY <1>3, <2>1, <2>2
<1>12. ASSUME NEW a \in Agent, NEW g, Deregister(a, g)
       PROVE  Good
  BY <1>10, <1>12 DEF Deregister
<1>13. ASSUME NEW a \in Agent, NEW m \in Msg, WriteFails(a, m)
       PROVE  Good
  BY <1>10, <1>13 DEF WriteFails
<1>. QED BY <1>2, <1>5, <1>6, <1>7, <1>8, <1>9, <1>11, <1>12, <1>13 DEF Moves, FlightMoves, Good

(* The Worker hears of a message what its agent's plug-in said, or what the   *)
(* daemon has on record of some agent.                                        *)
LEMMA AnswerStep ==
  ASSUME TypeOK, Truthful, Addressed, AboutToRecord, OnRecordShown, OldIsMute, Moves
  PROVE  /\ settled' \in [Agent -> SUBSET Msg] /\ dead' \in [Agent -> SUBSET Msg]
         /\ OnRecordShown'
         /\ \A a \in Agent : dead'[a] # {} => kind'[a] = "omp_old"
<1>t. /\ settled \in [Agent -> SUBSET Msg] /\ dead \in [Agent -> SUBSET Msg]
      /\ recorded \subseteq Msg /\ up \in [Agent -> Seq(Frames)]
  BY Types
<1>k. kind' = kind
  BY DEF Moves
<1>s. \A a \in Agent : Held[a] \subseteq Held'[a]
  BY HeldStep
<1>w. /\ \A m \in recorded : \E b \in For[m] : m \in Held'[b]
      /\ \A a \in Agent : \A m \in settled[a] : \E b \in For[m] : m \in Held'[b]
  <2>1. \A m \in Msg : For[m] \subseteq Agent
    BY LinkAssumption
  <2>. QED BY <1>s, <1>t, <2>1 DEF OnRecordShown, Somewhere
<1>f. \A a \in Agent, m \in Msg : flight[a][m].pc # "none" => a \in For[m]
  BY DEF Addressed
<1>d. \A a \in Agent : dead[a] # {} => kind[a] = "omp_old"
  BY DEF OldIsMute
<1>1. \A m \in recorded' : \E b \in For[m] : m \in Held'[b]
  <2>1. ASSUME NEW a \in Agent, NEW m \in Msg, Record(a, m)
        PROVE  \A n \in recorded' : \E b \in For[n] : n \in Held'[b]
    <3>1. m \in Held'[a] /\ a \in For[m] /\ recorded' = recorded \union {m}
      BY <1>s, <1>f, <2>1 DEF Record, AboutToRecord
    <3>. QED BY <1>w, <3>1
  <2>. QED BY <1>w, <2>1 DEF Moves, RecordMoves
<1> DEFINE Told(s, d) == /\ s \in [Agent -> SUBSET Msg] /\ d \in [Agent -> SUBSET Msg]
                         /\ \A a \in Agent : \A m \in s[a] : \E b \in For[m] : m \in Held'[b]
                         /\ \A a \in Agent : d[a] # {} => kind[a] = "omp_old"
<1>2. ASSUME NEW a \in Agent, NEW m \in Msg,
             settled' = settled \/ settled' = [settled EXCEPT ![a] = settled[a] \union {m}],
             dead' = dead \/ dead' = [dead EXCEPT ![a] = dead[a] \union {m}],
             settled' # settled => \E b \in For[m] : m \in Held'[b],
             dead' # dead => kind[a] = "omp_old"
      PROVE  Told(settled', dead')
  <2>1. settled' \in [Agent -> SUBSET Msg] /\ dead' \in [Agent -> SUBSET Msg]
    <3>1. settled' \in [Agent -> SUBSET Msg]
      <4>1. CASE settled' = settled
        BY <1>t, <4>1
      <4>2. CASE settled' = [settled EXCEPT ![a] = settled[a] \union {m}]
        BY <1>t, <4>2
      <4>. QED BY <1>2, <4>1, <4>2
    <3>2. dead' \in [Agent -> SUBSET Msg]
      BY <1>t, <1>2
    <3>. QED BY <3>1, <3>2
  <2>2. \A c \in Agent : \A n \in settled'[c] : \E b \in For[n] : n \in Held'[b]
    <3>1. CASE settled' = settled
      BY <1>w, <3>1
    <3>2. CASE settled' # settled
      <4>1. \E b \in For[m] : m \in Held'[b]
        BY <1>2, <3>2
      <4>2. settled' = [settled EXCEPT ![a] = settled[a] \union {m}]
        BY <1>2, <3>2
      <4>3. \A c \in Agent : \A n \in settled'[c] : n \in settled[c] \/ n = m
        BY <1>t, <4>2
      <4>. QED BY <1>w, <4>1, <4>3
    <3>. QED BY <3>1, <3>2
  <2>3. \A c \in Agent : dead'[c] # {} => kind[c] = "omp_old"
    BY <1>t, <1>d, <1>2
  <2>. QED BY <2>1, <2>2, <2>3
<1>3. UNCHANGED <<settled, dead>> => Told(settled', dead')
  BY <1>t, <1>w, <1>d
<1> HIDE DEF Told
<1>4. ASSUME NEW a \in Agent, NEW m \in Msg, NEW out, Answered(a, m, out),
             out = "ack" => m \in Held'[a] /\ a \in For[m],
             out = "dead" => kind[a] = "omp_old"
      PROVE  Told(settled', dead')
  <2>1. /\ settled' = settled \/ settled' = [settled EXCEPT ![a] = settled[a] \union {m}]
        /\ settled' # settled => out = "ack"
    BY <1>t, <1>4 DEF Answered
  <2>2. /\ dead' = dead \/ dead' = [dead EXCEPT ![a] = dead[a] \union {m}]
        /\ dead' # dead => out = "dead"
    BY <1>t, <1>4 DEF Answered
  <2>. QED BY <1>2, <1>4, <2>1, <2>2
<1>5. ASSUME NEW a \in Agent, NEW m \in Msg, OnRecord(a, m)
      PROVE  Told(settled', dead')
  <2>1. /\ settled' = [settled EXCEPT ![a] = settled[a] \union {m}] /\ dead' = dead
        /\ m \in recorded
    BY <1>t, <1>5 DEF OnRecord
  <2>2. \E b \in For[m] : m \in Held'[b]
    BY <1>w, <2>1
  <2>. QED BY <1>2, <2>1, <2>2
<1>6. ASSUME NEW a \in Agent, Control(a)
      PROVE  Told(settled', dead')
  <2> DEFINE f == Head(up[a])
  <2>1. up[a] \in Seq(Honest(kind[a], Held[a])) /\ up[a] # << >>
    BY <1>6 DEF Truthful, Control
  <2>2. f \in Honest(kind[a], Held[a])
    BY <2>1, HeadTailProperties
  <2>3. /\ f.id \in Msg /\ (f.t = "ack" => f.id \in Held'[a])
        /\ f.t = "dead" => kind[a] = "omp_old"
    BY <2>2, <1>s DEF Honest, Frames
  <2>4. UNCHANGED <<settled, dead>> \/ (Answered(a, f.id, f.t) /\ a \in For[f.id])
    <3>1. \A g : Waiting(a, f.id, g) => a \in For[f.id]
      BY <1>f, <2>3 DEF Waiting
    <3>. QED BY <1>6, <3>1 DEF Control, worker
  <2> HIDE DEF f
  <2>. QED BY <1>3, <1>4, <2>3, <2>4
<1>7. ASSUME NEW a \in Agent, NEW m \in Msg, Record(a, m)
      PROVE  Told(settled', dead')
  <2>1. Answered(a, m, "ack") /\ m \in Held'[a] /\ a \in For[m]
    BY <1>s, <1>f, <1>7 DEF Record, AboutToRecord
  <2>. QED BY <1>4, <2>1
<1>8. ASSUME NEW a \in Agent, NEW m \in Msg,
             RecordFails(a, m) \/ Timeout(a, m) \/ Cancelled(a, m)
      PROVE  Told(settled', dead')
  <2>1. Answered(a, m, "nak")
    BY <1>8 DEF RecordFails, Timeout, Cancelled
  <2>. QED BY <1>4, <2>1
<1>9. Told(settled', dead')
  BY <1>3, <1>5, <1>6, <1>7, <1>8 DEF Moves, AnswerMoves
<1>. QED BY <1>1, <1>9, <1>k DEF Told, OnRecordShown, Somewhere

-----------------------------------------------------------------------------
(* The copies of a message *)

(* What a session may gain: copies where the plug-in injects, and doubts that *)
(* were paid with a failure.                                                  *)
LEMMA CopiesStep ==
  ASSUME TypeOK, OpsOwned, OldIsMute, Moves
  PROVE  /\ copies' \in [Agent -> [Msg -> Nat]]
         /\ \A a \in Agent : kind'[a] = "omp_old" => \A m \in Msg : copies'[a][m] = 0
<1>t. copies \in [Agent -> [Msg -> Nat]] /\ ops \in [Agent -> SUBSET OpRec]
  BY Types
<1>k. kind' = kind
  BY DEF Moves
<1>m. \A a \in Agent : kind[a] = "omp_old" => \A m \in Msg : copies[a][m] = 0
  BY DEF OldIsMute
<1> DEFINE Good == /\ copies' \in [Agent -> [Msg -> Nat]]
                   /\ \A a \in Agent : kind[a] = "omp_old" => \A m \in Msg : copies'[a][m] = 0
<1>1. ASSUME NEW a \in Agent, NEW m \in Msg, Injected(a, m), kind[a] # "omp_old"
      PROVE  Good
  <2>1. copies' = [copies EXCEPT ![a][m] = copies[a][m] + 1] /\ copies[a][m] + 1 \in Nat
    BY <1>t, <1>1 DEF Injected
  <2>2. copies' \in [Agent -> [Msg -> Nat]]
    BY <1>t, <2>1
  <2>3. \A b \in Agent : b # a => copies'[b] = copies[b]
    BY <1>t, <2>1
  <2>. QED BY <1>m, <1>1, <2>2, <2>3
<1>2. UNCHANGED copies => Good
  BY <1>t, <1>m
<1> HIDE DEF Good
<1>3. ASSUME NEW a \in Agent, NEW o \in ops[a],
             OmpSend(a, o) \/ OcPrompt(a, o) \/ OcFails(a, o)
      PROVE  Good
  <2>1. o.id \in Msg /\ OpOK(o, kind[a], Held[a])
    BY <1>t, OpParts DEF OpsOwned, OpsGood
  <2>2. \/ UNCHANGED copies
        \/ Injected(a, o.id) /\ kind[a] # "omp_old"
    BY <1>3, <2>1 DEF OmpSend, OcPrompt, OcFails, OpenCode, OpOK
  <2>. QED BY <1>1, <1>2, <2>1, <2>2
<1>4. Good
  BY <1>2, <1>3 DEF Moves, CopyMoves
<1>. QED BY <1>4, <1>k DEF Good

LEMMA DoubtsStep ==
  ASSUME TypeOK, DoubtsPaid, Moves
  PROVE  doubts' \in [Agent -> [Msg -> 0..MaxFaults]] /\ DoubtsPaid'
<1>t. doubts \in [Agent -> [Msg -> 0..MaxFaults]] /\ ops \in [Agent -> SUBSET OpRec]
  BY Types
<1>f. /\ faults \in Nat /\ faults' \in Nat /\ faults' <= MaxFaults /\ faults <= faults'
      /\ Fault => faults' = faults + 1
  BY FaultStep, GensAreNaturals
<1>n. \A a \in Agent, m \in Msg : doubts[a][m] \in Nat /\ doubts[a][m] <= faults
  BY <1>t, GensAreNaturals DEF DoubtsPaid
<1>1. ASSUME NEW d \in [Agent -> [Msg -> Nat]], doubts' = d,
             \A a \in Agent, m \in Msg : d[a][m] <= faults'
      PROVE  doubts' \in [Agent -> [Msg -> 0..MaxFaults]] /\ DoubtsPaid'
  <2>1. \A a \in Agent, m \in Msg : d[a][m] \in 0..MaxFaults
    BY <1>f, <1>1, GensAreNaturals
  <2>. QED BY <1>1, <2>1 DEF DoubtsPaid
<1>2. CASE UNCHANGED doubts
  <2>1. \A a \in Agent, m \in Msg : doubts[a][m] <= faults'
    BY <1>f, <1>n
  <2>. QED BY <1>t, <1>2, <2>1 DEF DoubtsPaid
<1>3. ASSUME NEW a \in Agent, NEW o \in ops[a], OmpReceiptFails(a, o) \/ OcFails(a, o)
      PROVE  doubts' \in [Agent -> [Msg -> 0..MaxFaults]] /\ DoubtsPaid'
  <2>1. o.id \in Msg
    BY <1>t, OpParts
  <2>2. CASE Doubt(a, o.id)
    <3>0. faults' = faults + 1
      BY <1>f, <1>3 DEF OmpReceiptFails, OcFails
    <3> DEFINE x == doubts[a][o.id] + 1
               d == [doubts EXCEPT ![a][o.id] = x]
    <3>1. doubts' = d
      BY <2>2 DEF Doubt
    <3>2. x \in Nat /\ x <= faults'
      BY <1>f, <1>n, <2>1, <3>0
    <3>5. \A b \in Agent, m \in Msg : doubts[b][m] <= faults'
      BY <1>f, <1>n
    <3> HIDE DEF x
    <3>3. d \in [Agent -> [Msg -> Nat]]
      BY <1>t, <1>n, <3>2
    <3>4. \A b \in Agent, m \in Msg : d[b][m] <= faults'
      BY <1>t, <3>2, <3>5
    <3> HIDE DEF d
    <3>. QED BY <1>1, <3>1, <3>3, <3>4
  <2>3. CASE UNCHANGED doubts
    BY <1>2, <2>3
  <2>. QED BY <1>3, <2>2, <2>3 DEF OmpReceiptFails, OcFails
<1>4. ASSUME NEW a \in Agent, OmpRestart(a) \/ OcRestart(a)
      PROVE  doubts' \in [Agent -> [Msg -> 0..MaxFaults]] /\ DoubtsPaid'
  <2>0. faults' = faults + 1
    BY <1>f, <1>4 DEF OmpRestart, OcRestart
  <2> DEFINE P(m) == \E o \in ops[a] : o.id = m /\ o.inc = client[a].inc
             h == [m \in Msg |-> IF P(m) THEN doubts[a][m] + 1 ELSE doubts[a][m]]
             d == [doubts EXCEPT ![a] = h]
  <2>1. doubts' = d
    BY <1>t, <1>4 DEF OmpRestart, OcRestart, NewClient
  <2> HIDE DEF P
  <2>2. h \in [Msg -> Nat] /\ \A m \in Msg : h[m] <= faults'
    BY <1>f, <1>n, <2>0
  <2>5. \A b \in Agent, m \in Msg : doubts[b][m] <= faults'
    BY <1>f, <1>n
  <2> HIDE DEF h
  <2>3. d \in [Agent -> [Msg -> Nat]]
    BY <1>t, <1>n, <2>2
  <2>4. \A b \in Agent, m \in Msg : d[b][m] <= faults'
    BY <1>t, <2>2, <2>5
  <2> HIDE DEF d
  <2>. QED BY <1>1, <2>1, <2>3, <2>4
<1>. QED BY <1>2, <1>3, <1>4 DEF Moves, DoubtMoves

-----------------------------------------------------------------------------
(* Copies, injections under way, doubts and cover *)

(* Nothing that concerns m changes, or its session shows more, or its client  *)
(* knows more receipts.                                                       *)
LEMMA Untouched ==
  ASSUME NEW S, IsFiniteSet(S), NEW T, NEW m, NEW inc, NEW known, NEW known2, NEW k,
         NEW seen, NEW seen2, NEW c \in Nat, NEW d \in Nat,
         Counted(c, S, m, inc, known, k, seen, d),
         \A o : o.id = m => (o \in S <=> o \in T),
         seen \subseteq seen2, known \subseteq known2
  PROVE  Counted(c, T, m, inc, known2, k, seen2, d)
<1>1. Ahead(T, m, seen2) \subseteq Ahead(S, m, seen)
  BY DEF Ahead
<1>2. /\ Cardinality(Ahead(S, m, seen)) \in Nat /\ Cardinality(Ahead(T, m, seen2)) \in Nat
      /\ Cardinality(Ahead(T, m, seen2)) <= Cardinality(Ahead(S, m, seen))
  BY <1>1, AheadFinite, Fewer
<1>3. Covered(S, m, inc, known, k, seen) => Covered(T, m, inc, known2, k, seen2)
  BY DEF Covered, Owned
<1>. QED BY <1>2, <1>3 DEF Counted

(* An injection of m ends without a copy, or with one whose outcome is lost.  *)
LEMMA Spent ==
  ASSUME NEW S, IsFiniteSet(S), NEW m, NEW inc, NEW known, NEW k, NEW seen,
         NEW c \in Nat, NEW d \in Nat, NEW c2 \in Nat, NEW d2 \in Nat,
         Counted(c, S, m, inc, known, k, seen, d),
         NEW o \in Ahead(S, m, seen), c2 + d <= c + d2
  PROVE  Counted(c2, S \ {o}, m, inc, known, k, seen, d2)
<1> DEFINE T == S \ {o}
<1>1. Ahead(T, m, seen) \subseteq Ahead(S, m, seen) \ {o}
  BY DEF Ahead
<1>2. IsFiniteSet(Ahead(S, m, seen)) /\ Cardinality(Ahead(S, m, seen)) \in Nat
  BY AheadFinite
<1>3. Cardinality(Ahead(T, m, seen)) \in Nat
  BY <1>1, <1>2, Fewer
<1> HIDE DEF T
<1>4. Cardinality(Ahead(T, m, seen)) + 1 <= Cardinality(Ahead(S, m, seen))
  BY <1>1, <1>2, OneFewer
<1>5. Counted(c2, T, m, inc, known, k, seen, d2)
  BY <1>2, <1>3, <1>4 DEF Counted
<1>. QED BY <1>5 DEF T

(* An injection of m is over: the message is covered, or there is a doubt.    *)
LEMMA Over ==
  ASSUME NEW S, IsFiniteSet(S), NEW o, NEW m, NEW inc, NEW known, NEW known2, NEW k,
         NEW seen, NEW c \in Nat, NEW d \in Nat, NEW d2 \in Nat,
         Counted(c, S, m, inc, known, k, seen, d), d <= d2,
         (Covered(S, m, inc, known, k, seen) => Covered(S \ {o}, m, inc, known2, k, seen))
         \/ d + 1 <= d2
  PROVE  Counted(c, S \ {o}, m, inc, known2, k, seen, d2)
<1> DEFINE T == S \ {o}
<1>1. Ahead(T, m, seen) \subseteq Ahead(S, m, seen)
  BY DEF Ahead
<1> HIDE DEF T
<1>2. /\ Cardinality(Ahead(S, m, seen)) \in Nat /\ Cardinality(Ahead(T, m, seen)) \in Nat
      /\ Cardinality(Ahead(T, m, seen)) <= Cardinality(Ahead(S, m, seen))
  BY <1>1, AheadFinite, Fewer
<1>3. (Covered(S, m, inc, known, k, seen) => Covered(T, m, inc, known2, k, seen)) \/ d + 1 <= d2
  BY DEF T
<1>4. Counted(c, T, m, inc, known2, k, seen, d2)
  BY <1>2, <1>3 DEF Counted
<1>. QED BY <1>4 DEF T

(* An injection of m makes its copy and is not over. *)
LEMMA Made ==
  ASSUME NEW S, IsFiniteSet(S), NEW m, NEW inc, NEW known, NEW k, NEW seen, NEW seen2,
         NEW c \in Nat, NEW d \in Nat, Counted(c, S, m, inc, known, k, seen, d),
         NEW o \in Ahead(S, m, seen), NEW n, n.id = o.id, n.inc = o.inc,
         n.pc \in {"receipt", "poll"}, seen \subseteq seen2
  PROVE  Counted(c + 1, (S \ {o}) \union {n}, m, inc, known, k, seen2, d)
<1> DEFINE T == (S \ {o}) \union {n}
<1>1. Ahead(T, m, seen2) \subseteq Ahead(S, m, seen) \ {o}
  BY DEF Ahead
<1>2. IsFiniteSet(Ahead(S, m, seen)) /\ Cardinality(Ahead(S, m, seen)) \in Nat
  BY AheadFinite
<1>5. Covered(S, m, inc, known, k, seen) => Covered(T, m, inc, known, k, seen2)
  BY DEF Covered, Owned
<1> HIDE DEF T
<1>3. Cardinality(Ahead(T, m, seen2)) \in Nat
  BY <1>1, <1>2, Fewer
<1>4. Cardinality(Ahead(T, m, seen2)) + 1 <= Cardinality(Ahead(S, m, seen))
  BY <1>1, <1>2, OneFewer
<1>6. Counted(c + 1, T, m, inc, known, k, seen2, d)
  BY <1>2, <1>3, <1>4, <1>5 DEF Counted
<1>. QED BY <1>6 DEF T

(* An injection of m goes on to its prompt. *)
LEMMA Prompts ==
  ASSUME NEW S, IsFiniteSet(S), NEW m, NEW inc, NEW known, NEW k, NEW seen,
         NEW c \in Nat, NEW d \in Nat, Counted(c, S, m, inc, known, k, seen, d),
         NEW o \in Ahead(S, m, seen), NEW n, n.id = o.id, n.inc = o.inc
  PROVE  Counted(c, (S \ {o}) \union {n}, m, inc, known, k, seen, d)
<1> DEFINE T == (S \ {o}) \union {n}
           A == Ahead(S, m, seen)
<1>1. Ahead(T, m, seen) \subseteq (A \ {o}) \union {n}
  BY DEF Ahead
<1>2. IsFiniteSet(A) /\ Cardinality(A) \in Nat
  BY AheadFinite
<1>5. Covered(S, m, inc, known, k, seen) => Covered(T, m, inc, known, k, seen)
  BY DEF Covered, Owned, Ahead
<1> HIDE DEF T, A
<1>3. IsFiniteSet(A \ {o}) /\ Cardinality(A \ {o}) \in Nat /\ Cardinality(A \ {o}) + 1 <= Cardinality(A)
  BY <1>2, Fewer, OneFewer DEF A
<1>4. Cardinality(Ahead(T, m, seen)) <= Cardinality(A \ {o}) + 1
  BY <1>1, <1>3, OneMore
<1>6. Cardinality(Ahead(T, m, seen)) \in Nat
  <2>1. IsFiniteSet((A \ {o}) \union {n})
    BY <1>3, FS_AddElement
  <2>. QED BY <1>1, <2>1, Fewer
<1>7. Counted(c, T, m, inc, known, k, seen, d)
  BY <1>2, <1>3, <1>4, <1>5, <1>6 DEF Counted, A
<1>. QED BY <1>7 DEF T

(* An injection of m begins: it was not covered, and now it is. *)
LEMMA Begun ==
  ASSUME NEW S, IsFiniteSet(S), NEW m, NEW inc, NEW known, NEW k, NEW seen,
         NEW c \in Nat, NEW d \in Nat, Counted(c, S, m, inc, known, k, seen, d),
         NEW n, n.id = m, n.inc = inc, n.pc \in {"send", "look"},
         ~Covered(S, m, inc, known, k, seen) \/ (n.pc = "look" /\ m \in seen)
  PROVE  Counted(c, S \union {n}, m, inc, known, k, seen, d)
<1> DEFINE T == S \union {n}
           A == Ahead(S, m, seen)
<1>1. /\ Ahead(T, m, seen) \subseteq A \union {n}
      /\ n.pc = "look" /\ m \in seen => Ahead(T, m, seen) \subseteq A
  BY DEF Ahead
<1>2. IsFiniteSet(A) /\ Cardinality(A) \in Nat
  BY AheadFinite
<1>3. Covered(T, m, inc, known, k, seen)
  BY DEF Covered, Owned
<1> HIDE DEF T, A
<1>4. /\ Cardinality(Ahead(T, m, seen)) <= Cardinality(A) + 1
      /\ Cardinality(Ahead(T, m, seen)) \in Nat
  <2>1. IsFiniteSet(A \union {n})
    BY <1>2, FS_AddElement
  <2>2. Cardinality(Ahead(T, m, seen)) \in Nat
    BY <1>1, <2>1, Fewer
  <2>. QED BY <1>1, <1>2, <2>2, OneMore
<1>5. CASE ~Covered(S, m, inc, known, k, seen)
  <2>1. Counted(c, T, m, inc, known, k, seen, d)
    BY <1>2, <1>3, <1>4, <1>5 DEF Counted, A
  <2>. QED BY <2>1 DEF T
<1>6. CASE n.pc = "look" /\ m \in seen
  <2>1. Cardinality(Ahead(T, m, seen)) <= Cardinality(A)
    BY <1>1, <1>2, <1>6, Fewer
  <2>2. Counted(c, T, m, inc, known, k, seen, d)
    BY <1>2, <1>3, <1>4, <2>1 DEF Counted, A
  <2>. QED BY <2>2 DEF T
<1>. QED BY <1>5, <1>6

(* A new client: what the old one was injecting is in doubt. *)
LEMMA Replaced ==
  ASSUME NEW S, IsFiniteSet(S), NEW T, T \subseteq S, NEW m, NEW inc, NEW inc2, NEW known,
         NEW known2, NEW k, NEW seen, NEW c \in Nat, NEW d \in Nat, NEW d2 \in Nat,
         Counted(c, S, m, inc, known, k, seen, d), known \subseteq known2,
         d <= d2, Owned(S, m, inc) => d + 1 <= d2
  PROVE  Counted(c, T, m, inc2, known2, k, seen, d2)
<1>1. Ahead(T, m, seen) \subseteq Ahead(S, m, seen)
  BY DEF Ahead
<1>2. /\ Cardinality(Ahead(S, m, seen)) \in Nat /\ Cardinality(Ahead(T, m, seen)) \in Nat
      /\ Cardinality(Ahead(T, m, seen)) <= Cardinality(Ahead(S, m, seen))
  BY <1>1, AheadFinite, Fewer
<1>3. \/ Covered(S, m, inc, known, k, seen) => Covered(T, m, inc2, known2, k, seen)
      \/ d + 1 <= d2
  BY DEF Covered
<1>. QED BY <1>2, <1>3 DEF Counted

-----------------------------------------------------------------------------
(* A step keeps the count *)

(* What is known of the state before a step, for all that follows. *)
LEMMA CountFacts ==
  ASSUME TypeOK, OpsOwned, CopiesCounted
  PROVE  \A a \in Agent :
           /\ IsFiniteSet(ops[a])
           /\ \A o \in ops[a] : o.id \in Msg /\ OpOK(o, kind[a], Held[a])
           /\ \A m \in Msg : /\ copies[a][m] \in Nat /\ doubts[a][m] \in Nat
                             /\ Counted(copies[a][m], ops[a], m, client[a].inc, receipts[a],
                                        kind[a], Sighted[a], doubts[a][m])
<1>1. /\ copies \in [Agent -> [Msg -> Nat]] /\ doubts \in [Agent -> [Msg -> 0..MaxFaults]]
      /\ ops \in [Agent -> SUBSET OpRec]
  BY Types
<1>2. \A a \in Agent, m \in Msg : copies[a][m] \in Nat /\ doubts[a][m] \in Nat
  BY <1>1, GensAreNaturals
<1>3. \A a \in Agent : \A o \in ops[a] : o.id \in Msg
  BY <1>1, OpParts
<1>. QED BY <1>2, <1>3 DEF OpsOwned, OpsGood, CopiesCounted

(* What an action may leave alone. *)
Elsewhen(b) == /\ copies'[b] = copies[b] /\ ops'[b] = ops[b]
               /\ client'[b].inc = client[b].inc /\ receipts'[b] = receipts[b]
               /\ Sighted'[b] = Sighted[b] /\ doubts'[b] = doubts[b]

CountedAt(a, m) == Counted(copies[a][m], ops[a], m, client[a].inc, receipts[a], kind[a],
                           Sighted[a], doubts[a][m])

(* One agent's session at a time. *)
LEMMA OneAgent ==
  ASSUME TypeOK, OpsOwned, CopiesCounted, kind' = kind, NEW a \in Agent,
         \A b \in Agent : b # a => Elsewhen(b),
         \A m \in Msg : CountedAt(a, m)'
  PROVE  CopiesCounted'
<1>1. ASSUME NEW b \in Agent, NEW m \in Msg
      PROVE  CountedAt(b, m)'
  <2>1. CASE b = a
    BY <2>1
  <2>2. CASE b # a
    <3>1. CountedAt(b, m)
      BY DEF CopiesCounted, CountedAt
    <3>. QED BY <2>2, <3>1 DEF CountedAt, Elsewhen
  <2>. QED BY <2>1, <2>2
<1>. QED BY <1>1 DEF CopiesCounted, CountedAt

(* An injection o of the session of a ends, moves on or begins; the other     *)
(* messages are not concerned.                                                *)
LEMMA OneMessage ==
  ASSUME TypeOK, OpsOwned, CopiesCounted, kind' = kind, NEW a \in Agent, NEW m \in Msg,
         \A b \in Agent : b # a => Elsewhen(b),
         client'[a].inc = client[a].inc, receipts[a] \subseteq receipts'[a],
         Sighted[a] \subseteq Sighted'[a],
         \A n \in Msg : n # m => copies'[a][n] = copies[a][n] /\ doubts'[a][n] = doubts[a][n],
         \A o : o.id # m => (o \in ops[a] <=> o \in ops'[a]),
         CountedAt(a, m)'
  PROVE  CopiesCounted'
<1>1. ASSUME NEW n \in Msg, n # m
      PROVE  CountedAt(a, n)'
  <2>1. /\ IsFiniteSet(ops[a]) /\ copies[a][n] \in Nat /\ doubts[a][n] \in Nat
        /\ Counted(copies[a][n], ops[a], n, client[a].inc, receipts[a], kind[a], Sighted[a],
                   doubts[a][n])
    BY CountFacts
  <2>2. \A o : o.id = n => (o \in ops[a] <=> o \in ops'[a])
    BY <1>1
  <2>3. Counted(copies[a][n], ops'[a], n, client[a].inc, receipts'[a], kind[a], Sighted'[a],
                doubts[a][n])
    BY <2>1, <2>2, Untouched
  <2>. QED BY <1>1, <2>3 DEF CountedAt
<1>2. \A n \in Msg : CountedAt(a, n)'
  BY <1>1
<1>. QED BY <1>2, OneAgent

(* A frame begins an injection of m. *)
LEMMA BeginStep ==
  ASSUME TypeOK, OpsOwned, CopiesCounted, NEW a \in Agent, NEW m \in Msg,
         NEW pc \in {"send", "look"}, Began(a, m, pc),
         UNCHANGED <<kind, client, copies, doubts, receipts, Sighted>>,
         ~Own(a, m), kind[a] = "opencode" => pc = "look",
         kind[a] # "opencode" => m \notin receipts[a]
  PROVE  CopiesCounted'
<1> DEFINE n == [id |-> m, pc |-> pc, inc |-> client[a].inc]
<1>1. ops \in [Agent -> SUBSET OpRec]
  BY Types
<1>2. /\ IsFiniteSet(ops[a]) /\ copies[a][m] \in Nat /\ doubts[a][m] \in Nat
      /\ Counted(copies[a][m], ops[a], m, client[a].inc, receipts[a], kind[a], Sighted[a],
                 doubts[a][m])
  BY CountFacts
<1>3. ~Owned(ops[a], m, client[a].inc)
  BY DEF Own, Owned
<1>4. \/ ~Covered(ops[a], m, client[a].inc, receipts[a], kind[a], Sighted[a])
      \/ pc = "look" /\ m \in Sighted[a]
  BY <1>3 DEF Covered
<1>5. n.id = m /\ n.pc = pc /\ n.inc = client[a].inc
  OBVIOUS
<1>6. ops' = [ops EXCEPT ![a] = ops[a] \union {n}]
  BY <1>1 DEF Began
<1> HIDE DEF n
<1>7. Counted(copies[a][m], ops[a] \union {n}, m, client[a].inc, receipts[a], kind[a],
              Sighted[a], doubts[a][m])
  BY <1>2, <1>4, <1>5, Begun
<1>8. ops'[a] = ops[a] \union {n} /\ \A b \in Agent : b # a => Elsewhen(b)
  BY <1>1, <1>6 DEF Elsewhen
<1>9. CountedAt(a, m)'
  BY <1>7, <1>8 DEF CountedAt
<1>10. \A o : o.id # m => (o \in ops[a] <=> o \in ops'[a])
  BY <1>5, <1>8
<1>. QED BY <1>8, <1>9, <1>10, OneMessage

(* An injection ends without a copy, or with one whose outcome is lost. *)
LEMMA SpentStep ==
  ASSUME TypeOK, OpsOwned, CopiesCounted, NEW a \in Agent, NEW o \in ops[a], Ended(a, o),
         UNCHANGED <<kind, client, receipts, Sighted>>,
         o.pc \in {"send", "prompt"} \/ (o.pc = "look" /\ o.id \notin Sighted[a]),
         \/ UNCHANGED <<copies, doubts>>
         \/ Injected(a, o.id) /\ Doubt(a, o.id)
  PROVE  CopiesCounted'
<1> DEFINE m == o.id
<1>1. /\ ops \in [Agent -> SUBSET OpRec] /\ copies \in [Agent -> [Msg -> Nat]]
      /\ doubts \in [Agent -> [Msg -> 0..MaxFaults]]
  BY Types
<1>2. /\ IsFiniteSet(ops[a]) /\ m \in Msg /\ copies[a][m] \in Nat /\ doubts[a][m] \in Nat
      /\ Counted(copies[a][m], ops[a], m, client[a].inc, receipts[a], kind[a], Sighted[a],
                 doubts[a][m])
  BY CountFacts
<1>3. o \in Ahead(ops[a], m, Sighted[a])
  BY DEF Ahead
<1>4. /\ ops'[a] = ops[a] \ {o}
      /\ \A b \in Agent : b # a => Elsewhen(b)
      /\ \A n \in Msg : n # m => copies'[a][n] = copies[a][n] /\ doubts'[a][n] = doubts[a][n]
  BY <1>1, <1>2 DEF Ended, Elsewhen, Injected, Doubt
<1>5. /\ copies'[a][m] \in Nat /\ doubts'[a][m] \in Nat
      /\ copies'[a][m] + doubts[a][m] <= copies[a][m] + doubts'[a][m]
  BY <1>1, <1>2 DEF Injected, Doubt
<1>6. Counted(copies'[a][m], ops[a] \ {o}, m, client[a].inc, receipts[a], kind[a], Sighted[a],
              doubts'[a][m])
  BY <1>2, <1>3, <1>5, Spent
<1>7. CountedAt(a, m)'
  BY <1>4, <1>6 DEF CountedAt
<1>8. \A x : x.id # m => (x \in ops[a] <=> x \in ops'[a])
  BY <1>4
<1>. QED BY <1>2, <1>4, <1>7, <1>8, OneMessage

(* An injection is over: its message is covered, or there is a doubt. *)
LEMMA OverStep ==
  ASSUME TypeOK, OpsOwned, CopiesCounted, NEW a \in Agent, NEW o \in ops[a], Ended(a, o),
         UNCHANGED <<kind, client, copies, Sighted>>,
         receipts' = receipts
           \/ (o.inc = client[a].inc /\ receipts' = [receipts EXCEPT ![a] = @ \union {o.id}]),
         \/ /\ UNCHANGED doubts
            /\ \/ kind[a] = "opencode" /\ o.id \in Sighted[a]
               \/ kind[a] # "opencode" /\ (o.inc = client[a].inc => o.id \in receipts'[a])
         \/ Doubt(a, o.id)
  PROVE  CopiesCounted'
<1> DEFINE m == o.id
<1>1. /\ ops \in [Agent -> SUBSET OpRec] /\ receipts \in [Agent -> SUBSET Msg]
      /\ doubts \in [Agent -> [Msg -> 0..MaxFaults]]
  BY Types
<1>2. /\ IsFiniteSet(ops[a]) /\ m \in Msg /\ copies[a][m] \in Nat /\ doubts[a][m] \in Nat
      /\ Counted(copies[a][m], ops[a], m, client[a].inc, receipts[a], kind[a], Sighted[a],
                 doubts[a][m])
  BY CountFacts
<1>3. /\ ops'[a] = ops[a] \ {o} /\ receipts[a] \subseteq receipts'[a]
      /\ \A b \in Agent : b # a => Elsewhen(b)
      /\ \A n \in Msg : n # m => copies'[a][n] = copies[a][n] /\ doubts'[a][n] = doubts[a][n]
  BY <1>1, <1>2 DEF Ended, Elsewhen, Doubt
<1>4. /\ doubts'[a][m] \in Nat /\ doubts[a][m] <= doubts'[a][m]
      /\ Doubt(a, m) => doubts[a][m] + 1 <= doubts'[a][m]
  BY <1>1, <1>2 DEF Doubt
<1>5. \/ Covered(ops[a], m, client[a].inc, receipts[a], kind[a], Sighted[a]) =>
           Covered(ops[a] \ {o}, m, client[a].inc, receipts'[a], kind[a], Sighted[a])
      \/ doubts[a][m] + 1 <= doubts'[a][m]
  BY <1>3, <1>4 DEF Covered, Owned
<1>6. Counted(copies[a][m], ops[a] \ {o}, m, client[a].inc, receipts'[a], kind[a], Sighted[a],
              doubts'[a][m])
  BY <1>2, <1>4, <1>5, Over
<1>7. CountedAt(a, m)'
  BY <1>3, <1>6 DEF CountedAt
<1>8. \A x : x.id # m => (x \in ops[a] <=> x \in ops'[a])
  BY <1>3
<1>. QED BY <1>2, <1>3, <1>7, <1>8, OneMessage

(* An injection makes its copy and waits for the session to store it. *)
LEMMA MadeStep ==
  ASSUME TypeOK, OpsOwned, CopiesCounted, NEW a \in Agent, NEW o \in ops[a],
         NEW pc \in {"receipt", "poll"}, Moved(a, o, pc), Injected(a, o.id),
         UNCHANGED <<kind, client, receipts, doubts>>,
         o.pc \in {"send", "prompt"}, Sighted[a] \subseteq Sighted'[a],
         \A b \in Agent : b # a => Sighted'[b] = Sighted[b]
  PROVE  CopiesCounted'
<1> DEFINE m == o.id
           n == [o EXCEPT !.pc = pc]
<1>1. /\ ops \in [Agent -> SUBSET OpRec] /\ copies \in [Agent -> [Msg -> Nat]]
  BY Types
<1>2. /\ IsFiniteSet(ops[a]) /\ m \in Msg /\ copies[a][m] \in Nat /\ doubts[a][m] \in Nat
      /\ Counted(copies[a][m], ops[a], m, client[a].inc, receipts[a], kind[a], Sighted[a],
                 doubts[a][m])
  BY CountFacts
<1>3. o \in Ahead(ops[a], m, Sighted[a])
  BY DEF Ahead
<1>4. n.id = m /\ n.inc = o.inc /\ n.pc = pc
  BY <1>1, MovedOp
<1>5. ops' = [ops EXCEPT ![a] = (ops[a] \ {o}) \union {n}]
  BY <1>1 DEF Moved
<1> HIDE DEF n
<1>6. /\ ops'[a] = (ops[a] \ {o}) \union {n} /\ Sighted[a] \subseteq Sighted'[a]
      /\ \A b \in Agent : b # a => Elsewhen(b)
      /\ \A k \in Msg : k # m => copies'[a][k] = copies[a][k]
      /\ copies'[a][m] = copies[a][m] + 1
  BY <1>1, <1>2, <1>5 DEF Elsewhen, Injected
<1>7. Counted(copies[a][m] + 1, (ops[a] \ {o}) \union {n}, m, client[a].inc, receipts[a],
              kind[a], Sighted'[a], doubts[a][m])
  BY <1>2, <1>3, <1>4, <1>6, Made
<1>8. CountedAt(a, m)'
  BY <1>6, <1>7 DEF CountedAt
<1>9. \A x : x.id # m => (x \in ops[a] <=> x \in ops'[a])
  BY <1>4, <1>6
<1>. QED BY <1>2, <1>6, <1>8, <1>9, OneMessage

(* The session does not show the message: the injection goes on to a prompt. *)
LEMMA PromptsStep ==
  ASSUME TypeOK, OpsOwned, CopiesCounted, NEW a \in Agent, NEW o \in ops[a],
         Moved(a, o, "prompt"), o.pc = "look", o.id \notin Sighted[a],
         UNCHANGED <<kind, client, receipts, doubts, copies, Sighted>>
  PROVE  CopiesCounted'
<1> DEFINE m == o.id
           n == [o EXCEPT !.pc = "prompt"]
<1>1. ops \in [Agent -> SUBSET OpRec]
  BY Types
<1>2. /\ IsFiniteSet(ops[a]) /\ m \in Msg /\ copies[a][m] \in Nat /\ doubts[a][m] \in Nat
      /\ Counted(copies[a][m], ops[a], m, client[a].inc, receipts[a], kind[a], Sighted[a],
                 doubts[a][m])
  BY CountFacts
<1>3. o \in Ahead(ops[a], m, Sighted[a])
  BY DEF Ahead
<1>4. n.id = m /\ n.inc = o.inc
  BY <1>1, MovedOp
<1>5. ops' = [ops EXCEPT ![a] = (ops[a] \ {o}) \union {n}]
  BY <1>1 DEF Moved
<1> HIDE DEF n
<1>6. ops'[a] = (ops[a] \ {o}) \union {n} /\ \A b \in Agent : b # a => Elsewhen(b)
  BY <1>1, <1>5 DEF Elsewhen
<1>7. Counted(copies[a][m], (ops[a] \ {o}) \union {n}, m, client[a].inc, receipts[a],
              kind[a], Sighted[a], doubts[a][m])
  BY <1>2, <1>3, <1>4, Prompts
<1>8. CountedAt(a, m)'
  BY <1>6, <1>7 DEF CountedAt
<1>9. \A x : x.id # m => (x \in ops[a] <=> x \in ops'[a])
  BY <1>4, <1>6
<1>. QED BY <1>2, <1>6, <1>8, <1>9, OneMessage

(* A new client takes over; what the old one was injecting is in doubt. *)
LEMMA ReplacedStep ==
  ASSUME TypeOK, Receipted, OpsOwned, CopiesCounted, NEW a \in Agent, NewClient(a),
         UNCHANGED <<kind, copies, Sighted>>,
         UNCHANGED ops \/ ops' = [ops EXCEPT ![a] = {}],
         UNCHANGED receipts \/ receipts' = [receipts EXCEPT ![a] = branch[a]]
  PROVE  CopiesCounted'
<1>1. /\ ops \in [Agent -> SUBSET OpRec] /\ client \in [Agent -> ClientRec]
      /\ receipts \in [Agent -> SUBSET Msg] /\ doubts \in [Agent -> [Msg -> 0..MaxFaults]]
  BY Types
<1>2. /\ \A b \in Agent : b # a => client'[b] = client[b] /\ doubts'[b] = doubts[b]
      /\ doubts'[a] = [m \in Msg |->
           IF Owned(ops[a], m, client[a].inc) THEN doubts[a][m] + 1 ELSE doubts[a][m]]
  BY <1>1 DEF NewClient, Owned
<1>3. \A b \in Agent : b # a => Elsewhen(b)
  BY <1>1, <1>2 DEF Elsewhen
<1>4. receipts[a] \subseteq receipts'[a] /\ ops'[a] \subseteq ops[a]
  BY <1>1 DEF Receipted
<1>5. ASSUME NEW m \in Msg
      PROVE  CountedAt(a, m)'
  <2>1. /\ IsFiniteSet(ops[a]) /\ copies[a][m] \in Nat /\ doubts[a][m] \in Nat
        /\ Counted(copies[a][m], ops[a], m, client[a].inc, receipts[a], kind[a], Sighted[a],
                   doubts[a][m])
    BY CountFacts
  <2>2. /\ doubts'[a][m] \in Nat /\ doubts[a][m] <= doubts'[a][m]
        /\ Owned(ops[a], m, client[a].inc) => doubts[a][m] + 1 <= doubts'[a][m]
    BY <1>2, <2>1
  <2>3. Counted(copies[a][m], ops'[a], m, client'[a].inc, receipts'[a], kind[a], Sighted[a],
                doubts'[a][m])
    BY <1>4, <2>1, <2>2, Replaced
  <2>. QED BY <2>3 DEF CountedAt
<1>. QED BY <1>3, <1>5, OneAgent

(* The session shows more. *)
LEMMA ShowsStep ==
  ASSUME TypeOK, OpsOwned, CopiesCounted, NEW a \in Agent, Sighted[a] \subseteq Sighted'[a],
         \A b \in Agent : b # a => Sighted'[b] = Sighted[b],
         UNCHANGED <<kind, client, ops, receipts, copies, doubts>>
  PROVE  CopiesCounted'
<1>1. \A b \in Agent : b # a => Elsewhen(b)
  BY DEF Elsewhen
<1>2. ASSUME NEW m \in Msg
      PROVE  CountedAt(a, m)'
  <2>1. /\ IsFiniteSet(ops[a]) /\ copies[a][m] \in Nat /\ doubts[a][m] \in Nat
        /\ Counted(copies[a][m], ops[a], m, client[a].inc, receipts[a], kind[a], Sighted[a],
                   doubts[a][m])
    BY CountFacts
  <2>2. Counted(copies[a][m], ops[a], m, client[a].inc, receipts[a], kind[a], Sighted'[a],
                doubts[a][m])
    BY <2>1, Untouched
  <2>. QED BY <2>2 DEF CountedAt
<1>. QED BY <1>1, <1>2, OneAgent

(* Sockets come and go without a new client. *)
LEMMA QuietStep ==
  ASSUME TypeOK, CopiesCounted, UNCHANGED <<kind, copies, ops, receipts, Sighted, doubts>>,
         \/ UNCHANGED client \/ DaemonRestart
         \/ \E a \in Agent : Connect(a) \/ Registered(a) \/ Closed(a)
  PROVE  CopiesCounted'
<1>t. client \in [Agent -> ClientRec]
  BY Types
<1>0. \A c \in ClientRec : [c EXCEPT !.link = "closed"].inc = c.inc
  BY DEF ClientRec
<1>1. ASSUME NEW a \in Agent, Connect(a)
      PROVE  \A b \in Agent : client'[b].inc = client[b].inc
  <2> DEFINE c == [client[a] EXCEPT !.gen = client[a].gen + 1, !.link = "open"]
  <2>1. client[a] \in ClientRec
    BY <1>t
  <2>2. c.inc = client[a].inc
    BY <2>1 DEF ClientRec
  <2>3. client' = [client EXCEPT ![a] = c]
    BY <1>t, <1>1 DEF Connect
  <2> HIDE DEF c
  <2>. QED BY <1>t, <2>2, <2>3
<1>2. ASSUME NEW a \in Agent, NEW l, client' = [client EXCEPT ![a].link = l]
      PROVE  \A b \in Agent : client'[b].inc = client[b].inc
  <2> DEFINE c == [client[a] EXCEPT !.link = l]
  <2>1. client[a] \in ClientRec
    BY <1>t
  <2>2. c.inc = client[a].inc
    BY <2>1 DEF ClientRec
  <2>3. client' = [client EXCEPT ![a] = c]
    BY <1>t, <1>2
  <2> HIDE DEF c
  <2>. QED BY <1>t, <2>2, <2>3
<1>3. ASSUME DaemonRestart
      PROVE  \A b \in Agent : client'[b].inc = client[b].inc
  BY <1>t, <1>0, <1>3 DEF DaemonRestart
<1>4. ASSUME NEW a \in Agent, Registered(a) \/ Closed(a)
      PROVE  \A b \in Agent : client'[b].inc = client[b].inc
  BY <1>2, <1>4 DEF Registered, Closed
<1>5. \A b \in Agent : client'[b].inc = client[b].inc
  BY <1>1, <1>3, <1>4
<1>. QED BY <1>5 DEF CopiesCounted

LEMMA CountStep ==
  ASSUME TypeOK, Receipted, OpsOwned, CopiesCounted, Moves
  PROVE  CopiesCounted'
<1>k. kind' = kind
  BY DEF Moves
<1>o. \A a \in Agent : \A o \in ops[a] : o.id \in Msg /\ OpOK(o, kind[a], Held[a])
  BY CountFacts
<1>t. down \in [Agent -> Seq(Msg)] /\ shown \in [Agent -> SUBSET Msg]
  BY Types
<1>s. \A a \in Agent : Sighted[a] \subseteq Sighted'[a]
  BY HeldStep
<1>u. shown' = shown => Sighted' = Sighted
  BY DEF Sighted, Seen
<1>w. ASSUME NEW a \in Agent, NEW S, shown' = shown \/ shown' = [shown EXCEPT ![a] = S]
      PROVE  \A b \in Agent : b # a => Sighted'[b] = Sighted[b]
  <2>1. \A b \in Agent : b # a => shown'[b] = shown[b]
    BY <1>t, <1>w
  <2>. QED BY <2>1 DEF Sighted, Seen
<1>1. CASE UNCHANGED <<copies, ops, receipts, shown, doubts, client>>
  BY <1>k, <1>1, <1>u, QuietStep
<1>2. ASSUME \/ DaemonRestart
             \/ \E a \in Agent : Connect(a) \/ Registered(a) \/ Closed(a)
      PROVE  CopiesCounted'
  <2>1. UNCHANGED <<copies, ops, receipts, Sighted, doubts>>
    BY <1>2, <1>u DEF DaemonRestart, Connect, Registered, Closed, session
  <2>. QED BY <1>k, <1>2, <2>1, QuietStep
<1>3. ASSUME NEW a \in Agent, OmpDeliver(a)
      PROVE  CopiesCounted'
  <2> DEFINE m == Head(down[a])
  <2>1. m \in Msg /\ kind[a] # "opencode"
    BY <1>t, <1>3, HeadTailProperties DEF OmpDeliver, Read, Omp
  <2>2. UNCHANGED <<kind, client, copies, doubts, receipts, Sighted>>
    BY <1>3, <1>u DEF OmpDeliver
  <2>3. UNCHANGED ops \/ (m \notin receipts[a] /\ ~Own(a, m) /\ Began(a, m, "send"))
    BY <1>3 DEF OmpDeliver
  <2> HIDE DEF m
  <2>4. CASE UNCHANGED ops
    BY <2>2, <2>4, QuietStep
  <2>. QED BY <2>1, <2>2, <2>3, <2>4, BeginStep
<1>4. ASSUME NEW a \in Agent, OcDeliver(a)
      PROVE  CopiesCounted'
  <2> DEFINE m == Head(down[a])
  <2>1. m \in Msg /\ kind[a] = "opencode"
    BY <1>t, <1>4, HeadTailProperties DEF OcDeliver, Read, OpenCode
  <2>2. UNCHANGED <<kind, client, copies, doubts, receipts, Sighted>>
    BY <1>4, <1>u DEF OcDeliver
  <2>3. UNCHANGED ops \/ (~Own(a, m) /\ Began(a, m, "look"))
    BY <1>4 DEF OcDeliver
  <2> HIDE DEF m
  <2>4. CASE UNCHANGED ops
    BY <2>2, <2>4, QuietStep
  <2>. QED BY <2>1, <2>2, <2>3, <2>4, BeginStep
<1>5. ASSUME NEW a \in Agent, NEW o \in ops[a], OmpSend(a, o)
      PROVE  CopiesCounted'
  <2>1. CASE kind[a] = "omp_old"
    <3>1. /\ Ended(a, o) /\ o.pc = "send"
          /\ UNCHANGED <<kind, client, receipts, Sighted, copies, doubts>>
      BY <1>5, <1>u, <2>1 DEF OmpSend
    <3>. QED BY <3>1, SpentStep
  <2>2. CASE kind[a] # "omp_old"
    <3>1. /\ Moved(a, o, "receipt") /\ Injected(a, o.id) /\ o.pc = "send"
          /\ shown' = shown \/ shown' = [shown EXCEPT ![a] = shown[a] \union {o.id}]
          /\ UNCHANGED <<kind, client, receipts, doubts>>
      BY <1>5, <2>2 DEF OmpSend
    <3>2. \A b \in Agent : b # a => Sighted'[b] = Sighted[b]
      BY <1>w, <3>1
    <3>. QED BY <1>s, <3>1, <3>2, MadeStep
  <2>. QED BY <2>1, <2>2
<1>6. ASSUME NEW a \in Agent, NEW o \in ops[a], OmpSendFails(a, o)
      PROVE  CopiesCounted'
  BY <1>6, <1>u, SpentStep DEF OmpSendFails
<1>7. ASSUME NEW a \in Agent, NEW o \in ops[a], OmpReceipt(a, o)
      PROVE  CopiesCounted'
  <2>1. kind[a] # "opencode" /\ o.id \in Msg
    BY <1>o, <1>7 DEF OmpReceipt, OpOK
  <2>2. /\ Ended(a, o) /\ UNCHANGED <<kind, client, copies, Sighted, doubts>>
        /\ receipts' = IF o.inc = client[a].inc
                         THEN [receipts EXCEPT ![a] = @ \union {o.id}] ELSE receipts
    BY <1>7, <1>u DEF OmpReceipt
  <2>3. receipts \in [Agent -> SUBSET Msg]
    BY Types
  <2>4. o.inc = client[a].inc => o.id \in receipts'[a]
    BY <2>2, <2>3
  <2>. QED BY <2>1, <2>2, <2>4, OverStep
<1>8. ASSUME NEW a \in Agent, NEW o \in ops[a], OmpReceiptFails(a, o)
      PROVE  CopiesCounted'
  BY <1>8, <1>u, OverStep DEF OmpReceiptFails
<1>9. ASSUME NEW a \in Agent, NEW o \in ops[a], OcLook(a, o)
      PROVE  CopiesCounted'
  <2>1. kind[a] = "opencode" /\ (o.id \in Sighted[a] <=> Seen(a, o.id))
    BY <1>o, <1>9, HeldParts DEF OcLook, OpOK
  <2>2. CASE o.id \in Sighted[a]
    BY <1>9, <1>u, <2>1, <2>2, OverStep DEF OcLook
  <2>3. CASE o.id \notin Sighted[a]
    BY <1>9, <1>u, <2>1, <2>3, PromptsStep DEF OcLook
  <2>. QED BY <2>2, <2>3
<1>10. ASSUME NEW a \in Agent, NEW o \in ops[a], OcPrompt(a, o)
       PROVE  CopiesCounted'
  BY <1>10, <1>u, MadeStep DEF OcPrompt
<1>11. ASSUME NEW a \in Agent, NEW o \in ops[a], OcPoll(a, o)
       PROVE  CopiesCounted'
  <2>1. kind[a] = "opencode" /\ (o.id \in Sighted[a] <=> Seen(a, o.id))
    BY <1>o, <1>11, HeldParts DEF OcPoll, OpOK
  <2>. QED BY <1>11, <1>u, <2>1, OverStep DEF OcPoll
<1>12. ASSUME NEW a \in Agent, NEW o \in ops[a], OcFails(a, o)
       PROVE  CopiesCounted'
  <2>1. /\ kind[a] = "opencode" /\ Ended(a, o)
        /\ UNCHANGED <<kind, client, receipts, Sighted>>
    BY <1>12, <1>u DEF OcFails, OpenCode
  <2>2. CASE o.pc = "look" /\ o.id \in Sighted[a] /\ UNCHANGED <<copies, doubts>>
    BY <2>1, <2>2, OverStep
  <2>3. CASE o.pc = "poll" /\ Doubt(a, o.id) /\ UNCHANGED copies
    BY <2>1, <2>3, OverStep
  <2>4. CASE /\ o.pc = "prompt" \/ (o.pc = "look" /\ o.id \notin Sighted[a])
             /\ UNCHANGED <<copies, doubts>> \/ (Injected(a, o.id) /\ Doubt(a, o.id))
    BY <2>1, <2>4, SpentStep
  <2>. QED BY <1>12, <2>2, <2>3, <2>4 DEF OcFails
<1>13. ASSUME NEW a \in Agent, OmpRestart(a)
       PROVE  CopiesCounted'
  <2>1. /\ NewClient(a) /\ UNCHANGED <<kind, copies, Sighted>>
        /\ UNCHANGED ops \/ ops' = [ops EXCEPT ![a] = {}]
        /\ receipts' = [receipts EXCEPT ![a] = branch[a]]
    BY <1>13, <1>u DEF OmpRestart
  <2>. QED BY <2>1, ReplacedStep
<1>14. ASSUME NEW a \in Agent, OcRestart(a)
       PROVE  CopiesCounted'
  <2>1. /\ NewClient(a) /\ UNCHANGED <<kind, copies, Sighted, receipts>>
        /\ UNCHANGED ops \/ ops' = [ops EXCEPT ![a] = {}]
    BY <1>14, <1>u DEF OcRestart
  <2>. QED BY <2>1, ReplacedStep
<1>15. ASSUME NEW a \in Agent, NEW S, shown' = [shown EXCEPT ![a] = S],
              UNCHANGED <<client, ops, receipts, copies, doubts>>
       PROVE  CopiesCounted'
  BY <1>15, <1>k, <1>s, <1>w, ShowsStep
<1>16. ASSUME NEW a \in Agent, NEW m \in Msg, OcPersist(a, m)
       PROVE  CopiesCounted'
  <2>1. /\ shown' = [shown EXCEPT ![a] = shown[a] \union {m}]
        /\ UNCHANGED <<client, ops, receipts, copies, doubts>>
    BY <1>16 DEF OcPersist, socket
  <2>. QED BY <1>15, <2>1
<1>17. ASSUME NEW a \in Agent, OmpUnwinds(a)
       PROVE  CopiesCounted'
  <2>1. /\ shown' = [shown EXCEPT ![a] = shown[a] \union pending[a]]
        /\ UNCHANGED <<client, ops, receipts, copies, doubts>>
    BY <1>17 DEF OmpUnwinds, socket
  <2>. QED BY <1>15, <2>1
<1>. QED BY <1>1, <1>2, <1>3, <1>4, <1>5, <1>6, <1>7, <1>8, <1>9, <1>10, <1>11, <1>12, <1>13,
     <1>14, <1>16, <1>17 DEF Moves, SessionMoves

-----------------------------------------------------------------------------
(* The invariant *)

LEMMA InitInv == Init => IInv
<1> SUFFICES ASSUME Init PROVE IInv
  OBVIOUS
<1> USE DEF Init, LinkInit
<1>n. /\ NoFlight \in FlightRec /\ NoFlight.pc = "none"
      /\ [gen |-> 0, link |-> "closed", inc |-> 1] \in ClientRec
  BY GensAreNaturals DEF NoFlight, FlightRec, ClientRec
<1>1. TypeOK
  <2>1. /\ flight \in [Agent -> [Msg -> FlightRec]] /\ client \in [Agent -> ClientRec]
    BY <1>n
  <2>2. /\ down \in [Agent -> Seq(Msg)] /\ up \in [Agent -> Seq(Frames)]
        /\ outbound \in [Agent -> Seq(Frames)]
    BY EmptySeq
  <2>3. /\ copies \in [Agent -> [Msg -> Nat]] /\ doubts \in [Agent -> [Msg -> 0..MaxFaults]]
        /\ faults \in 0..MaxFaults
    BY GensAreNaturals
  <2>4. /\ kind \in [Agent -> Kinds]
        /\ settled \in [Agent -> SUBSET Msg] /\ dead \in [Agent -> SUBSET Msg]
        /\ recorded \subseteq Msg /\ draft \in [Agent -> BOOLEAN]
        /\ adapter \in [Agent -> Gens \union {0}]
        /\ ops \in [Agent -> SUBSET OpRec]
        /\ receipts \in [Agent -> SUBSET Msg] /\ branch \in [Agent -> SUBSET Msg]
        /\ shown \in [Agent -> SUBSET Msg] /\ pending \in [Agent -> SUBSET Msg]
    OBVIOUS
  <2>. QED BY <2>1, <2>2, <2>3, <2>4 DEF TypeOK, FlightRec, ClientRec, OpRec
<1>2. Truthful
  BY EmptySeq DEF Truthful
<1>3. Receipted /\ OldIsMute /\ OnRecordShown
  BY DEF Receipted, OldIsMute, OnRecordShown
<1>4. OpsOwned
  BY FS_EmptySet DEF OpsOwned, OpsGood
<1>5. Addressed /\ AboutToRecord
  BY <1>n DEF Addressed, AboutToRecord
<1>6. CopiesCounted
  <2>1. ASSUME NEW a \in Agent, NEW m \in Msg
        PROVE  CountedAt(a, m)
    <3>1. /\ copies[a][m] = 0 /\ doubts[a][m] = 0 /\ ops[a] = {}
      OBVIOUS
    <3>2. Ahead({}, m, Sighted[a]) = {}
      BY DEF Ahead
    <3>3. Cardinality(Ahead({}, m, Sighted[a])) = 0
      BY <3>2, FS_EmptySet
    <3>. QED BY <3>1, <3>3 DEF CountedAt, Counted
  <2>. QED BY <2>1 DEF CopiesCounted, CountedAt
<1>7. ClientsPaid /\ DoubtsPaid
  BY DEF ClientsPaid, DoubtsPaid
<1>. QED BY <1>1, <1>2, <1>3, <1>4, <1>5, <1>6, <1>7 DEF IInv

LEMMA Step == IInv /\ [Next]_vars => IInv'
<1> SUFFICES ASSUME IInv, [Next]_vars PROVE IInv'
  OBVIOUS
<1>i. /\ TypeOK /\ Truthful /\ Receipted /\ OpsOwned /\ OldIsMute /\ Addressed
      /\ AboutToRecord /\ OnRecordShown /\ CopiesCounted /\ ClientsPaid /\ DoubtsPaid
  BY DEF IInv
<1>m. Moves
  BY Frame
<1>1. TypeOK'
  <2>1. /\ kind \in [Agent -> Kinds] /\ kind' = kind
    BY <1>i, <1>m, Types DEF Moves
  <2>2. /\ flight' \in [Agent -> [Msg -> FlightRec]] /\ client' \in [Agent -> ClientRec]
        /\ ops' \in [Agent -> SUBSET OpRec]
    BY <1>i, <1>m, FlightStep, ClientStep, OpsStep
  <2>3. /\ settled' \in [Agent -> SUBSET Msg] /\ dead' \in [Agent -> SUBSET Msg]
        /\ recorded' \subseteq Msg /\ draft' \in [Agent -> BOOLEAN]
        /\ adapter' \in [Agent -> Gens \union {0}]
        /\ down' \in [Agent -> Seq(Msg)] /\ up' \in [Agent -> Seq(Frames)]
        /\ outbound' \in [Agent -> Seq(Frames)]
    BY <1>i, <1>m, AnswerStep, RecordedType, AdapterStep, DownStep, UpStep
  <2>4. /\ receipts' \in [Agent -> SUBSET Msg] /\ branch' \in [Agent -> SUBSET Msg]
        /\ shown' \in [Agent -> SUBSET Msg] /\ pending' \in [Agent -> SUBSET Msg]
        /\ copies' \in [Agent -> [Msg -> Nat]] /\ doubts' \in [Agent -> [Msg -> 0..MaxFaults]]
        /\ faults' \in 0..MaxFaults
    BY <1>i, <1>m, ReceiptStep, ShownStep, PendingStep, CopiesStep, DoubtsStep, FaultStep
  <2>. QED BY <2>1, <2>2, <2>3, <2>4 DEF TypeOK, FlightRec, ClientRec, OpRec
<1>2. Truthful' /\ Receipted' /\ OpsOwned'
  BY <1>i, <1>m, UpStep, ReceiptStep, OpsStep
<1>3. OldIsMute'
  BY <1>i, <1>m, CopiesStep, AnswerStep DEF OldIsMute
<1>4. Addressed' /\ AboutToRecord' /\ OnRecordShown'
  BY <1>i, <1>m, FlightStep, AnswerStep
<1>5. CopiesCounted' /\ ClientsPaid' /\ DoubtsPaid'
  BY <1>i, <1>m, CountStep, ClientStep, DoubtsStep
<1>. QED BY <1>1, <1>2, <1>3, <1>4, <1>5 DEF IInv

THEOREM Invariance == Spec => []IInv
BY InitInv, Step, PTL DEF Spec

(***************************************************************************)
(* The sockets, the flights, the clients and the sessions keep their types *)
(* (deliver.go, adapter.go and both plug-ins).                             *)
(***************************************************************************)
THEOREM TypeCorrect == Spec => []TypeOK
<1>1. IInv => TypeOK
  BY DEF IInv
<1>. QED BY <1>1, Invariance, PTL

(***************************************************************************)
(* A message is injected once, and once more at most for every time the    *)
(* outcome of an injection was lost (Own and receipts in the plug-ins,     *)
(* the search of the session, coalescing and history in the daemon).       *)
(***************************************************************************)
THEOREM CopiesAccountedHolds == Spec => []CopiesAccounted
<1>1. IInv => CopiesAccounted
  <2> SUFFICES ASSUME IInv, NEW a \in Agent, NEW m \in Msg
               PROVE  copies[a][m] <= 1 + doubts[a][m]
    BY DEF CopiesAccounted
  <2>1. /\ IsFiniteSet(ops[a]) /\ copies[a][m] \in Nat /\ doubts[a][m] \in Nat
        /\ Counted(copies[a][m], ops[a], m, client[a].inc, receipts[a], kind[a], Sighted[a],
                   doubts[a][m])
    BY CountFacts DEF IInv
  <2>2. Cardinality(Ahead(ops[a], m, Sighted[a])) \in Nat
    BY <2>1, AheadFinite
  <2>. QED BY <2>1, <2>2 DEF Counted
<1>. QED BY <1>1, Invariance, PTL

(***************************************************************************)
(* What the Worker is told has a ground, on a host with any number of      *)
(* agents: an acknowledged message was taken by the session of an agent it *)
(* is for (OMP: its sendMessage accepted it; OpenCode: its session shows   *)
(* it, or a message that quotes it), and one refused for good was never    *)
(* injected.  Where a message is for one agent of the host, the session is *)
(* that agent's; where it is for more it need not be, because the daemon's *)
(* history is kept by the id of the message (RecordIncoming in             *)
(* daemon/deliver.go).                                                     *)
(***************************************************************************)
THEOREM AnswersAreTrueHolds == Spec => []AnswersAreTrue
<1>1. IInv => AnswersAreTrue
  <2> SUFFICES ASSUME IInv, NEW a \in Agent
               PROVE  /\ \A m \in settled[a] : \E b \in For[m] : m \in Held[b]
                      /\ \A m \in dead[a] : copies[a][m] = 0
    BY DEF AnswersAreTrue
  <2>1. dead \in [Agent -> SUBSET Msg]
    BY Types DEF IInv
  <2>2. \A m \in settled[a] : \E b \in For[m] : m \in Held[b]
    BY DEF IInv, OnRecordShown, Somewhere
  <2>. QED BY <2>1, <2>2 DEF IInv, OldIsMute
<1>. QED BY <1>1, Invariance, PTL

=============================================================================
