-------------------------- MODULE IntegrationProofs --------------------------
(***************************************************************************)
(* Proofs about Integration, for any number of deliveries, invocations,    *)
(* attempts, alarms and faults.                                            *)
(***************************************************************************)
EXTENDS Integration, WellFoundedInduction, TLAPS

-----------------------------------------------------------------------------
(* The inductive invariant *)

Known    == {d \in Event : delivery[d] # None}
Answered == {d \in Event : reply[d] # None}

(* What an invocation holds by where it is: known and answered are the        *)
(* deliveries and replies on record, got is taken, there is landed.           *)
InvOK(i, known, answered, got, there) ==
  /\ i.phase \in {"checking", "queueing", "queued", "posting", "posted"} =>
       i.d \in known /\ i.del # None
  /\ i.phase \in {"routed", "cancelling"} => i.d # None
  /\ i.phase \in {"routed", "checking"} => i.src = "call"
  /\ i.phase \in {"posting", "posted"} => i.src \in {"call", "retrying"} /\ i.d \in answered
  /\ i.phase = "posted" /\ i.ok => i.d \in there
  /\ i.phase = "looping" => i.del = None
  /\ i.replies # {} => i.src = "retrying"
  /\ i.replies \subseteq answered /\ i.dues \subseteq known
  /\ i.del # None /\ i.del.held /\ i.d \notin ToRoom => i.d \in got
  /\ \A d \in Event : i.dels[d] # None /\ i.dels[d].held /\ d \notin ToRoom => d \in got

Invocations == \A r \in Run : InvOK(run[r], Known, Answered, taken, landed)

(* What the records of a delivery say of each other and of its HostHub.       *)
HeldTaken   == \A d \in Event : delivery[d] # None /\ delivery[d].held /\ d \notin ToRoom => d \in taken
ReportTaken == \A d \in Event : <<d, "adapter">> \in reports /\ d \notin ToRoom => d \in taken
HubKnown    == \A d \in Event : /\ hub[d] # "none" => d \in Known
                                /\ \A via \in Via : <<d, via>> \in reports => d \in Known
ReplyTimed  == \A d \in Event : reply[d] # None => /\ d \in Known
                                                   /\ ~reply[d].posted => reply[d].due # NoAlarm

(* A budget that is spent has its alarm at the start of the next hour.        *)
BudgetKept == budget.resumed => budget.count >= Limit /\ alarm = budget.left

(* An alarm is set, or its handler is under way and will set one.             *)
AlarmComes == alarm # NoAlarm \/ \E r \in Run : run[r].src \in {"retrying", "waking"}

(* A call on behalf of a daemon or an agent is at one of these awaits for d.  *)
Calling(i, d, phases) == i.src = "call" /\ i.phase \in phases /\ i.d = d

Owed(d)    == delivery[d] # None /\ ~delivery[d].settled /\ reply[d] = None /\ d \notin taken
Pending(d) == reply[d] # None /\ ~reply[d].posted

(* NothingForgotten while invocations are in progress.                        *)
Kept ==
  ~lapsed => \A d \in Event :
    /\ Owed(d) => \/ delivery[d].due # NoAlarm /\ AlarmComes
                  \/ \E r \in Run : Calling(run[r], d, {"queueing", "queued"})
    /\ Pending(d) => AlarmComes \/ \E r \in Run : Calling(run[r], d, {"posting", "posted"})

IInv == /\ TypeOK /\ Invocations /\ HeldTaken /\ ReportTaken /\ HubKnown /\ ReplyTimed
        /\ ReplyOnRecord /\ BudgetKept /\ Kept

-----------------------------------------------------------------------------
(* Numbers and alarms *)

(* A set of naturals that is not empty has a least element. *)
LEMMA LeastNat ==
  ASSUME NEW T \in SUBSET Nat, T # {}
  PROVE  \E x \in T : \A y \in T : x <= y
<1> DEFINE R == OpToRel(<, Nat)
<1>1. IsWellFoundedOn(R, Nat)
  BY NatLessThanWellFounded
<1>2. \A ss \in Nat \X Nat : ss \in R <=> ss[1] < ss[2]
  BY DEF OpToRel
<1>3. \A x \in Nat, y \in Nat : y < x => <<y, x>> \in R
  BY <1>2
<1> HIDE DEF R
<1>4. \E x \in T : \A y \in T : ~(<<y, x>> \in R)
  BY <1>1, WFMin, Zenon
<1>5. PICK x \in T : \A y \in T : ~(<<y, x>> \in R)
  BY <1>4, Zenon
<1>6. x \in Nat /\ \A y \in T : y \in Nat
  OBVIOUS
<1>7. \A y \in T : ~(y < x)
  BY <1>3, <1>5, <1>6, Zenon
<1>8. \A y \in T : x <= y
  BY <1>6, <1>7
<1>. QED BY <1>8

LEMMA DueTypes ==
  /\ Due \subseteq Alarms /\ 0 \in Ticks /\ ReplyRetry \in Ticks /\ Ticks \subseteq Nat
  /\ NoAlarm \notin Ticks
  /\ \A t \in Due : Sooner(t) \in Due
  /\ \A t \in Due : t # NoAlarm => t \in Ticks /\ Sooner(t) # NoAlarm
BY IntegrationAssumption DEF Due, Ticks, Alarms, NoAlarm, Sooner

(* budgetedAlarm: what is granted is an alarm, and if the budget is spent the *)
(* alarm at the start of the next hour stands.                                *)
LEMMA BudgetedOK ==
  ASSUME NEW b \in Budgets, NEW a \in Alarms, NEW at \in Nat,
         b.resumed => b.count >= Limit /\ a = b.left
  PROVE  /\ BudgetAfter(b) \in Budgets /\ AlarmAfter(b, a, at) \in Nat
         /\ BudgetAfter(b).resumed =>
              BudgetAfter(b).count >= Limit /\ AlarmAfter(b, a, at) = BudgetAfter(b).left
<1>1. b.left \in 1..Hour /\ b.count \in 0..Limit /\ b.resumed \in BOOLEAN
  BY DEF Budgets
<1>2. CASE b.count < Limit
  <2> DEFINE s == [b EXCEPT !.count = b.count + 1]
  <2>1. b.count + 1 \in 0..Limit
    BY <1>1, <1>2, BudgetAssumption
  <2>2. s \in Budgets
    BY <2>1 DEF Budgets
  <2>3. s.resumed = b.resumed
    BY DEF Budgets
  <2>4. BudgetAfter(b) = s /\ AlarmAfter(b, a, at) = at
    BY <1>2 DEF BudgetAfter, AlarmAfter
  <2> HIDE DEF s
  <2>5. ~b.resumed
    BY <1>1, <1>2, BudgetAssumption
  <2>. QED BY <2>2, <2>3, <2>4, <2>5
<1>3. CASE ~(b.count < Limit)
  <2> DEFINE s == [b EXCEPT !.resumed = TRUE]
  <2>1. s \in Budgets
    BY DEF Budgets
  <2>2. s.count = b.count /\ s.left = b.left
    BY DEF Budgets
  <2>3. BudgetAfter(b) = s /\ AlarmAfter(b, a, at) = IF b.resumed THEN a ELSE b.left
    BY <1>3 DEF BudgetAfter, AlarmAfter
  <2> HIDE DEF s
  <2>4. b.count >= Limit /\ b.left \in Nat
    BY <1>1, <1>3, BudgetAssumption
  <2>. QED BY <2>1, <2>2, <2>3, <2>4
<1>. QED BY <1>2, <1>3

(* One tick of the alarm and of the hour. *)
LEMMA TickOK ==
  ASSUME NEW b \in Budgets, NEW a \in Alarms, b.resumed => b.count >= Limit /\ a = b.left
  PROVE  /\ BudgetTick(b) \in Budgets /\ AlarmTick(a) \in Alarms
         /\ a # NoAlarm => AlarmTick(a) # NoAlarm
         /\ BudgetTick(b).resumed => BudgetTick(b).count >= Limit /\ AlarmTick(a) = BudgetTick(b).left
<1>1. b.left \in 1..Hour /\ b.count \in 0..Limit /\ b.resumed \in BOOLEAN
  BY DEF Budgets
<1>2. AlarmTick(a) \in Alarms /\ (a # NoAlarm => AlarmTick(a) # NoAlarm)
  BY DEF AlarmTick, Alarms, NoAlarm
<1>3. CASE b.left = 1
  <2>1. Hour \in 1..Hour /\ 0 \in 0..Limit
    BY BudgetAssumption
  <2>2. FreshBudget \in Budgets /\ FreshBudget.resumed = FALSE
    BY <2>1 DEF FreshBudget, Budgets
  <2>. QED BY <1>2, <1>3, <2>2 DEF BudgetTick
<1>4. CASE b.left # 1
  <2> DEFINE s == [b EXCEPT !.left = b.left - 1]
  <2>1. b.left - 1 \in 1..Hour
    BY <1>1, <1>4, BudgetAssumption
  <2>2. s \in Budgets
    BY <2>1 DEF Budgets
  <2>3. s.left = b.left - 1 /\ s.count = b.count /\ s.resumed = b.resumed
    BY DEF Budgets
  <2>4. BudgetTick(b) = s
    BY <1>4 DEF BudgetTick
  <2> HIDE DEF s
  <2>5. a = b.left => AlarmTick(a) = b.left - 1
    BY <1>1, BudgetAssumption DEF AlarmTick
  <2>. QED BY <1>2, <2>2, <2>3, <2>4, <2>5
<1>. QED BY <1>3, <1>4

(* scheduleAt never takes an alarm away. *)
LEMMA ScheduleAtOK ==
  ASSUME alarm \in Alarms, budget \in Budgets, BudgetKept, NEW at \in Due, ScheduleAt(at)
  PROVE  /\ alarm' \in Alarms /\ budget' \in Budgets /\ BudgetKept'
         /\ alarm # NoAlarm \/ at # NoAlarm => alarm' # NoAlarm
<1>1. CASE at = NoAlarm \/ (alarm # NoAlarm /\ alarm <= at)
  BY <1>1 DEF ScheduleAt, BudgetKept
<1>2. CASE ~(at = NoAlarm \/ (alarm # NoAlarm /\ alarm <= at))
  <2>1. at \in Nat
    BY <1>2, DueTypes
  <2>2. alarm' = AlarmAfter(budget, alarm, at) /\ budget' = BudgetAfter(budget)
    BY <1>2 DEF ScheduleAt
  <2>3. /\ budget' \in Budgets /\ alarm' \in Nat
        /\ budget'.resumed => budget'.count >= Limit /\ alarm' = budget'.left
    BY <2>1, <2>2, BudgetedOK DEF BudgetKept
  <2>4. alarm' \in Alarms /\ alarm' # NoAlarm
    BY <2>3 DEF Alarms, NoAlarm
  <2>. QED BY <2>3, <2>4 DEF BudgetKept
<1>. QED BY <1>1, <1>2

-----------------------------------------------------------------------------
(* Records *)

LEMMA Unset == None \notin Event /\ None \notin Delivery /\ None \notin Reply
BY IntegrationAssumption

LEMMA DeliveryFields ==
  ASSUME NEW x \in Delivery
  PROVE  /\ x.attempts \in 0..MaxAttempts /\ x.due \in Due /\ x.read \in BOOLEAN
         /\ x.held \in BOOLEAN /\ x.settled \in BOOLEAN
BY DEF Delivery

LEMMA FreshOK == Fresh \in Delivery /\ ~Fresh.held
<1>1. 0 \in 0..MaxAttempts /\ NoAlarm \in Due
  BY IntegrationAssumption DEF Due
<1>. QED BY <1>1 DEF Fresh, Delivery

(* armRedelivery: unless an adapter holds it there is a time for the next. *)
LEMMA ArmedOK ==
  ASSUME NEW x \in Delivery, NEW d
  PROVE  /\ Armed(d, x) \in Delivery /\ Armed(d, x).held = x.held
         /\ (x.held /\ d \notin ToRoom) \/ Armed(d, x).due # NoAlarm
<1> DEFINE t == IF SessionHeld(d, x) THEN NoAlarm ELSE Delay[x.attempts][x.read]
<1>1. Delay[x.attempts][x.read] \in Ticks
  BY DeliveryFields, IntegrationAssumption
<1>2. t \in Due /\ (SessionHeld(d, x) \/ t # NoAlarm)
  BY <1>1, DueTypes DEF Due
<1>3. Armed(d, x) = [x EXCEPT !.due = t]
  BY DEF Armed
<1> HIDE DEF t
<1>4. [x EXCEPT !.due = t] \in Delivery
  BY <1>2 DEF Delivery
<1>5. [x EXCEPT !.due = t].due = t /\ [x EXCEPT !.due = t].held = x.held
  BY DEF Delivery
<1>. QED BY <1>2, <1>3, <1>4, <1>5 DEF SessionHeld

LEMMA HandledOK ==
  ASSUME NEW x \in Delivery
  PROVE  Handled(x) \in Delivery /\ Handled(x).settled /\ Handled(x).held = x.held
<1>1. NoAlarm \in Due
  BY DEF Due
<1>2. Handled(x) \in Delivery
  BY <1>1 DEF Handled, Delivery
<1>. QED BY <1>2 DEF Handled, Delivery

LEMMA CopyOK ==
  ASSUME NEW d \in Event, delivery \in [Event -> Delivery \union {None}], delivery[d] # None
  PROVE  Copy(d) \in Delivery /\ Copy(d).held = delivery[d].held
<1>1. delivery[d] \in Delivery
  OBVIOUS
<1>2. NoAlarm \in Due
  BY DEF Due
<1>3. Copy(d) \in Delivery
  BY <1>1, <1>2 DEF Copy, Delivery
<1>4. Copy(d).held = delivery[d].held
  BY <1>1 DEF Copy, Delivery
<1>. QED BY <1>3, <1>4

LEMMA ReplyForms ==
  /\ [posted |-> FALSE, due |-> 0] \in Reply /\ [posted |-> TRUE, due |-> NoAlarm] \in Reply
  /\ [posted |-> FALSE, due |-> ReplyRetry] \in Reply
<1>1. 0 \in Due /\ NoAlarm \in Due /\ ReplyRetry \in Due
  BY DueTypes DEF Due
<1>. QED BY <1>1 DEF Reply

(* dispatchDelivery counts an attempt that succeeded. *)
LEMMA DispatchedOK ==
  ASSUME NEW r \in Run, run[r].del \in Delivery
  PROVE  Dispatched(r) \in Delivery /\ Dispatched(r).held = run[r].del.held
<1> DEFINE x == run[r].del
           n == IF x.attempts < MaxAttempts THEN x.attempts + 1 ELSE x.attempts
           y == [x EXCEPT !.attempts = n]
<1>1. n \in 0..MaxAttempts
  BY DeliveryFields, IntegrationAssumption
<1>2. Dispatched(r) = IF run[r].ok THEN y ELSE x
  BY DEF Dispatched
<1> HIDE DEF n
<1>3. y \in Delivery
  BY <1>1 DEF Delivery
<1>4. y.held = x.held
  BY DEF Delivery
<1>. QED BY <1>2, <1>3, <1>4

-----------------------------------------------------------------------------
(* Which actions write what *)

(* The invocations in progress. *)
RunMoves ==
  \/ UNCHANGED run
  \/ \E r \in Run, d \in Event : IngestRoute(r, d)
  \/ \E r \in Run : IngestEvent(r)
  \/ \E r \in Run : IngestRefused(r)
  \/ \E r \in Run : HubQueues(r)
  \/ \E r \in Run : HubRefuses(r)
  \/ \E r \in Run : DispatchEnds(r)
  \/ \E r \in Run, d \in Event, what \in {"read", "reply", "handled"} : Call(r, d, what)
  \/ \E r \in Run : CallRefused(r)
  \/ \E r \in Run : ReadMessage(r)
  \/ \E r \in Run : MarkHandled(r)
  \/ \E r \in Run, d \in Event : OperatorMarkHandled(r, d)
  \/ \E r \in Run : ChatReply(r)
  \/ \E r \in Run : PostLands(r)
  \/ \E r \in Run : PostFails(r)
  \/ \E r \in Run : PostSettles(r)
  \/ \E r \in Run : PostPending(r)
  \/ \E r \in Run : CancelHostQueue(r)
  \/ \E r \in Run : AlarmFires(r)
  \/ \E r \in Run, d \in Event : RetryReply(r, d)
  \/ \E r \in Run : ListsDue(r)
  \/ \E r \in Run, d \in Event : DispatchDue(r, d)
  \/ \E r \in Run, d \in Event : SettleNext(r, d)
  \/ \E r \in Run : LoopEnds(r)
  \/ \E r \in Run : SettleConversation(r)
  \/ \E r \in Run : Resume(r)
  \/ Restart

(* The records of deliveries. *)
DeliveryMoves ==
  \/ UNCHANGED delivery
  \/ \E r \in Run : IngestEvent(r)
  \/ \E r \in Run : DispatchEnds(r)
  \/ \E r \in Run : ReadMessage(r)
  \/ \E r \in Run : MarkHandled(r)
  \/ \E r \in Run, d \in Event : OperatorMarkHandled(r, d)
  \/ \E r \in Run : ChatReply(r)
  \/ \E r \in Run : PostSettles(r)
  \/ \E r \in Run, d \in Event : SettleNext(r, d)
  \/ \E d \in Event, via \in Via : ReportInjection(d, via)
  \/ Tick

(* The records of replies. *)
ReplyMoves ==
  \/ UNCHANGED reply
  \/ \E r \in Run : ChatReply(r)
  \/ \E r \in Run : PostSettles(r)
  \/ \E r \in Run : PostPending(r)
  \/ Tick

(* The alarm and its budget. *)
AlarmMoves ==
  \/ UNCHANGED <<alarm, budget>>
  \/ \E r \in Run : DispatchEnds(r)
  \/ \E r \in Run : ReadMessage(r)
  \/ \E r \in Run : PostPending(r)
  \/ \E r \in Run : AlarmFires(r)
  \/ \E r \in Run : LoopEnds(r)
  \/ Restart
  \/ Tick

(* The HostHub's markers and reports, and what agents have. *)
HubMoves ==
  \/ UNCHANGED <<hub, reports, taken>>
  \/ \E r \in Run : HubQueues(r)
  \/ \E r \in Run : CancelHostQueue(r)
  \/ \E d \in Event, via \in Via : HubAcks(d, via)
  \/ \E d \in Event, via \in Via : ReportInjection(d, via)
  \/ \E d \in Event : HubDies(d)

(* What reached the service. *)
LandedMoves ==
  \/ UNCHANGED landed
  \/ \E r \in Run : PostLands(r)

(* The alarm that fired in vain, the run that was cut. *)
LapsedMoves ==
  \/ UNCHANGED lapsed
  \/ \E r \in Run : AlarmFires(r)
  \/ Restart

(* The status, at the object and in D1. *)
MetaMoves ==
  \/ UNCHANGED <<meta, row, writes, patch>>
  \/ \E r \in Run : LoopEnds(r)
  \/ CreateIntegration
  \/ PatchRead
  \/ PatchIntegration
  \/ Pause
  \/ \E r \in Run : Resume(r)
  \/ \E w \in writes : WriteLands(w)
  \/ \E w \in writes : WriteFails(w)

(* Faults are counted. *)
FaultMoves ==
  \/ UNCHANGED faults
  \/ Fault

Moves == /\ RunMoves /\ DeliveryMoves /\ ReplyMoves /\ AlarmMoves
         /\ HubMoves /\ LandedMoves /\ LapsedMoves /\ MetaMoves
         /\ FaultMoves

(* Every action, looked at once for all that follows. *)
LEMMA Frame == [Next]_vars => Moves
<1> SUFFICES ASSUME [Next]_vars PROVE Moves
  OBVIOUS
<1> USE DEF Moves, RunMoves, DeliveryMoves, ReplyMoves, AlarmMoves, HubMoves, LandedMoves,
     LapsedMoves, MetaMoves, FaultMoves, d1, outside
<1>1. ASSUME NEW r \in Run, IngestEvent(r)
      PROVE  Moves
  BY <1>1 DEF IngestEvent
<1>2. ASSUME NEW r \in Run, IngestRefused(r)
      PROVE  Moves
  BY <1>2 DEF IngestRefused
<1>3. ASSUME NEW r \in Run, HubQueues(r)
      PROVE  Moves
  BY <1>3 DEF HubQueues
<1>4. ASSUME NEW r \in Run, HubRefuses(r)
      PROVE  Moves
  BY <1>4 DEF HubRefuses
<1>5. ASSUME NEW r \in Run, DispatchEnds(r)
      PROVE  Moves
  BY <1>5 DEF DispatchEnds
<1>6. ASSUME NEW r \in Run, CallRefused(r)
      PROVE  Moves
  BY <1>6 DEF CallRefused
<1>7. ASSUME NEW r \in Run, ReadMessage(r)
      PROVE  Moves
  BY <1>7 DEF ReadMessage, ScheduleAt
<1>8. ASSUME NEW r \in Run, MarkHandled(r)
      PROVE  Moves
  BY <1>8 DEF MarkHandled
<1>9. ASSUME NEW r \in Run, ChatReply(r)
      PROVE  Moves
  BY <1>9 DEF ChatReply
<1>10. ASSUME NEW r \in Run, PostLands(r)
      PROVE  Moves
  BY <1>10 DEF PostLands
<1>11. ASSUME NEW r \in Run, PostFails(r)
      PROVE  Moves
  BY <1>11 DEF PostFails
<1>12. ASSUME NEW r \in Run, PostSettles(r)
      PROVE  Moves
  BY <1>12 DEF PostSettles
<1>13. ASSUME NEW r \in Run, PostPending(r)
      PROVE  Moves
  BY <1>13 DEF PostPending
<1>14. ASSUME NEW r \in Run, CancelHostQueue(r)
      PROVE  Moves
  BY <1>14 DEF CancelHostQueue
<1>15. ASSUME NEW r \in Run, NEW d \in Event, RetryReply(r, d)
      PROVE  Moves
  BY <1>15 DEF RetryReply
<1>16. ASSUME NEW r \in Run, NEW d \in Event, DispatchDue(r, d)
      PROVE  Moves
  BY <1>16 DEF DispatchDue
<1>17. ASSUME NEW r \in Run, NEW d \in Event, SettleNext(r, d)
      PROVE  Moves
  BY <1>17 DEF SettleNext
<1>18. ASSUME NEW r \in Run, ListsDue(r)
      PROVE  Moves
  BY <1>18 DEF ListsDue
<1>19. ASSUME NEW r \in Run, LoopEnds(r)
      PROVE  Moves
  BY <1>19 DEF LoopEnds
<1>20. ASSUME NEW r \in Run, AlarmFires(r)
      PROVE  Moves
  BY <1>20 DEF AlarmFires
<1>21. ASSUME NEW r \in Run, SettleConversation(r)
      PROVE  Moves
  BY <1>21 DEF SettleConversation
<1>22. ASSUME NEW r \in Run, Resume(r)
      PROVE  Moves
  BY <1>22 DEF Resume
<1>23. ASSUME Pause
      PROVE  Moves
  BY <1>23 DEF Pause
<1>24. ASSUME NEW r \in Run, NEW d \in Event, IngestRoute(r, d)
      PROVE  Moves
  BY <1>24 DEF IngestRoute
<1>25. ASSUME NEW r \in Run, NEW d \in Event, OperatorMarkHandled(r, d)
      PROVE  Moves
  BY <1>25 DEF OperatorMarkHandled
<1>26. ASSUME NEW r \in Run, NEW d \in Event, NEW what \in {"read", "reply", "handled"}, Call(r, d, what)
      PROVE  Moves
  BY <1>26 DEF Call
<1>27. ASSUME NEW d \in Event, NEW via \in Via, HubAcks(d, via)
      PROVE  Moves
  BY <1>27 DEF HubAcks
<1>28. ASSUME NEW d \in Event, NEW via \in Via, ReportInjection(d, via)
      PROVE  Moves
  BY <1>28 DEF ReportInjection
<1>29. ASSUME NEW d \in Event, HubDies(d)
      PROVE  Moves
  BY <1>29 DEF HubDies
<1>30. ASSUME CreateIntegration
      PROVE  Moves
  BY <1>30 DEF CreateIntegration, Configure
<1>31. ASSUME PatchRead
      PROVE  Moves
  BY <1>31 DEF PatchRead
<1>32. ASSUME PatchIntegration
      PROVE  Moves
  BY <1>32 DEF PatchIntegration, Configure
<1>33. ASSUME NEW w \in writes, WriteLands(w)
      PROVE  Moves
  BY <1>33 DEF WriteLands
<1>34. ASSUME NEW w \in writes, WriteFails(w)
      PROVE  Moves
  BY <1>34 DEF WriteFails
<1>35. ASSUME Restart
      PROVE  Moves
  BY <1>35 DEF Restart
<1>36. ASSUME Tick
      PROVE  Moves
  BY <1>36 DEF Tick
<1>37. CASE UNCHANGED vars
  BY <1>37 DEF vars
<1>. QED BY <1>1, <1>2, <1>3, <1>4, <1>5, <1>6, <1>7, <1>8, <1>9, <1>10, <1>11, <1>12,
     <1>13, <1>14, <1>15, <1>16, <1>17, <1>18, <1>19, <1>20, <1>21, <1>22, <1>23, <1>24,
     <1>25, <1>26, <1>27, <1>28, <1>29, <1>30, <1>31, <1>32, <1>33, <1>34, <1>35, <1>36,
     <1>37 DEF Next, Step, PauseIntegration, RpcReadMessage, RpcChatReply, RpcMarkHandled

-----------------------------------------------------------------------------
(* Invocations: what they hold as they begin, go on and end *)

LEMMA InvFields ==
  ASSUME NEW i \in Invocation
  PROVE  /\ i.d \in Event \union {None} /\ i.del \in Delivery \union {None} /\ i.ok \in BOOLEAN
         /\ i.replies \subseteq Event /\ i.dues \subseteq Event
         /\ i.dels \in [Event -> Delivery \union {None}]
BY DEF Invocation

(* What an invocation holds stays so while records and histories grow. *)
LEMMA InvLater ==
  ASSUME NEW i \in Invocation, NEW k, NEW a, NEW g, NEW l, InvOK(i, k, a, g, l),
         NEW k2, NEW a2, NEW g2, NEW l2,
         k \subseteq k2, a \subseteq a2, g \subseteq g2, l \subseteq l2
  PROVE  InvOK(i, k2, a2, g2, l2)
BY DEF InvOK

LEMMA IdleOK ==
  ASSUME NEW k, NEW a, NEW g, NEW l
  PROVE  Idle \in Invocation /\ InvOK(Idle, k, a, g, l)
<1>1. NoDels \in [Event -> Delivery \union {None}] /\ \A e \in Event : NoDels[e] = None
  BY DEF NoDels
<1>2. Idle \in Invocation
  BY <1>1 DEF Idle, Invocation
<1>. QED BY <1>1, <1>2 DEF Idle, InvOK

(* POST /ingest *)
LEMMA RoutedOK ==
  ASSUME NEW k \in SUBSET Event, NEW a \in SUBSET Event, NEW g, NEW l,
         NEW d \in Event
  PROVE  [Idle EXCEPT !.src = "call", !.phase = "routed", !.d = d] \in Invocation
         /\ InvOK([Idle EXCEPT !.src = "call", !.phase = "routed", !.d = d], k, a, g, l)
<1> DEFINE s == [Idle EXCEPT !.src = "call", !.phase = "routed", !.d = d]
<1>0. NoDels \in [Event -> Delivery \union {None}] /\ \A e \in Event : NoDels[e] = None
  BY DEF NoDels
<1>1. s \in Invocation
  BY <1>0 DEF Invocation, Idle
<1>2. /\ s.src = "call" /\ s.phase = "routed" /\ s.what = "none" /\ s.d = d /\ s.del = None
      /\ s.ok = FALSE /\ s.replies = {} /\ s.dues = {} /\ s.dels = NoDels
  BY DEF Invocation, Idle
<1> HIDE DEF s
<1>3. InvOK(s, k, a, g, l)
  BY <1>0, <1>2, Unset DEF InvOK
<1>. QED BY <1>1, <1>3 DEF s

(* A call of a tool reads the record. *)
LEMMA CallOK ==
  ASSUME NEW k \in SUBSET Event, NEW a \in SUBSET Event, NEW g, NEW l,
         NEW d \in k,
         NEW x \in Delivery,
         NEW w \in {"read", "reply", "handled"},
         x.held /\ d \notin ToRoom => d \in g
  PROVE  [Idle EXCEPT !.src = "call", !.phase = "checking", !.what = w, !.d = d, !.del = x] \in Invocation
         /\ InvOK([Idle EXCEPT !.src = "call", !.phase = "checking", !.what = w, !.d = d, !.del = x], k, a, g, l)
<1> DEFINE s == [Idle EXCEPT !.src = "call", !.phase = "checking", !.what = w, !.d = d, !.del = x]
<1>0. NoDels \in [Event -> Delivery \union {None}] /\ \A e \in Event : NoDels[e] = None
  BY DEF NoDels
<1>1. s \in Invocation
  BY <1>0 DEF Invocation, Idle
<1>2. /\ s.src = "call" /\ s.phase = "checking" /\ s.what = w /\ s.d = d /\ s.del = x
      /\ s.ok = FALSE /\ s.replies = {} /\ s.dues = {} /\ s.dels = NoDels
  BY DEF Invocation, Idle
<1> HIDE DEF s
<1>3. InvOK(s, k, a, g, l)
  BY <1>0, <1>2, Unset DEF InvOK
<1>. QED BY <1>1, <1>3 DEF s

(* An operator's call has settled its delivery. *)
LEMMA OperatorOK ==
  ASSUME NEW k \in SUBSET Event, NEW a \in SUBSET Event, NEW g, NEW l,
         NEW d \in Event
  PROVE  [Idle EXCEPT !.src = "call", !.phase = "cancelling", !.d = d] \in Invocation
         /\ InvOK([Idle EXCEPT !.src = "call", !.phase = "cancelling", !.d = d], k, a, g, l)
<1> DEFINE s == [Idle EXCEPT !.src = "call", !.phase = "cancelling", !.d = d]
<1>0. NoDels \in [Event -> Delivery \union {None}] /\ \A e \in Event : NoDels[e] = None
  BY DEF NoDels
<1>1. s \in Invocation
  BY <1>0 DEF Invocation, Idle
<1>2. /\ s.src = "call" /\ s.phase = "cancelling" /\ s.what = "none" /\ s.d = d /\ s.del = None
      /\ s.ok = FALSE /\ s.replies = {} /\ s.dues = {} /\ s.dels = NoDels
  BY DEF Invocation, Idle
<1> HIDE DEF s
<1>3. InvOK(s, k, a, g, l)
  BY <1>0, <1>2, Unset DEF InvOK
<1>. QED BY <1>1, <1>3 DEF s

(* The alarm takes the list of replies that are due. *)
LEMMA RetryingOK ==
  ASSUME NEW k \in SUBSET Event, NEW a \in SUBSET Event, NEW g, NEW l,
         NEW T \in SUBSET a
  PROVE  [Looping("retrying") EXCEPT !.replies = T] \in Invocation
         /\ InvOK([Looping("retrying") EXCEPT !.replies = T], k, a, g, l)
<1> DEFINE s == [Looping("retrying") EXCEPT !.replies = T]
<1>0. NoDels \in [Event -> Delivery \union {None}] /\ \A d \in Event : NoDels[d] = None
  BY DEF NoDels
<1>1. s \in Invocation
  BY <1>0 DEF Invocation, Idle, Looping
<1>2. /\ s.src = "retrying" /\ s.phase = "looping" /\ s.what = "none" /\ s.d = None
      /\ s.del = None /\ s.ok = FALSE /\ s.replies = T /\ s.dues = {} /\ s.dels = NoDels
  BY DEF Invocation, Idle, Looping
<1> HIDE DEF s
<1>3. InvOK(s, k, a, g, l)
  BY <1>0, <1>2, Unset DEF InvOK
<1>. QED BY <1>1, <1>3 DEF s

(* Resuming takes the list of deliveries that are due. *)
LEMMA ResumingOK ==
  ASSUME NEW k \in SUBSET Event, NEW a \in SUBSET Event, NEW g, NEW l,
         NEW T \in SUBSET k
  PROVE  [Looping("resuming") EXCEPT !.dues = T] \in Invocation
         /\ InvOK([Looping("resuming") EXCEPT !.dues = T], k, a, g, l)
<1> DEFINE s == [Looping("resuming") EXCEPT !.dues = T]
<1>0. NoDels \in [Event -> Delivery \union {None}] /\ \A d \in Event : NoDels[d] = None
  BY DEF NoDels
<1>1. s \in Invocation
  BY <1>0 DEF Invocation, Idle, Looping
<1>2. /\ s.src = "resuming" /\ s.phase = "looping" /\ s.what = "none" /\ s.d = None
      /\ s.del = None /\ s.ok = FALSE /\ s.replies = {} /\ s.dues = T /\ s.dels = NoDels
  BY DEF Invocation, Idle, Looping
<1> HIDE DEF s
<1>3. InvOK(s, k, a, g, l)
  BY <1>0, <1>2, Unset DEF InvOK
<1>. QED BY <1>1, <1>3 DEF s

(* Settling a conversation takes its records. *)
LEMMA SettlingOK ==
  ASSUME NEW k \in SUBSET Event, NEW a \in SUBSET Event, NEW g, NEW l,
         NEW f \in [Event -> Delivery \union {None}],
         \A d \in Event : f[d] # None /\ f[d].held /\ d \notin ToRoom => d \in g
  PROVE  [Looping("settling") EXCEPT !.dels = f] \in Invocation
         /\ InvOK([Looping("settling") EXCEPT !.dels = f], k, a, g, l)
<1> DEFINE s == [Looping("settling") EXCEPT !.dels = f]
<1>0. NoDels \in [Event -> Delivery \union {None}] /\ \A d \in Event : NoDels[d] = None
  BY DEF NoDels
<1>1. s \in Invocation
  BY <1>0 DEF Invocation, Idle, Looping
<1>2. /\ s.src = "settling" /\ s.phase = "looping" /\ s.what = "none" /\ s.d = None
      /\ s.del = None /\ s.ok = FALSE /\ s.replies = {} /\ s.dues = {} /\ s.dels = f
  BY DEF Invocation, Idle, Looping
<1> HIDE DEF s
<1>3. InvOK(s, k, a, g, l)
  BY <1>0, <1>2, Unset DEF InvOK
<1>. QED BY <1>1, <1>3 DEF s

(* dispatchDelivery asks the HostHub. *)
LEMMA AskingOK ==
  ASSUME NEW i \in Invocation,
         NEW k \in SUBSET Event, NEW a \in SUBSET Event, NEW g, NEW l,
         InvOK(i, k, a, g, l),
         NEW d \in k,
         NEW x \in Delivery,
         x.held /\ d \notin ToRoom => d \in g
  PROVE  [i EXCEPT !.phase = "queueing", !.d = d, !.del = x] \in Invocation
         /\ InvOK([i EXCEPT !.phase = "queueing", !.d = d, !.del = x], k, a, g, l)
<1> DEFINE s == [i EXCEPT !.phase = "queueing", !.d = d, !.del = x]
<1>1. s \in Invocation
  BY InvFields DEF Invocation
<1>2. /\ s.src = i.src /\ s.phase = "queueing" /\ s.what = i.what /\ s.d = d /\ s.del = x
      /\ s.ok = i.ok /\ s.replies = i.replies /\ s.dues = i.dues /\ s.dels = i.dels
  BY DEF Invocation
<1> HIDE DEF s
<1>3. InvOK(s, k, a, g, l)
  BY <1>2, Unset DEF InvOK
<1>. QED BY <1>1, <1>3 DEF s

(* The HostHub has answered, or not. *)
LEMMA QueuedOK ==
  ASSUME NEW i \in Invocation,
         NEW k \in SUBSET Event, NEW a \in SUBSET Event, NEW g, NEW l,
         InvOK(i, k, a, g, l),
         NEW b \in BOOLEAN,
         i.phase = "queueing"
  PROVE  [i EXCEPT !.phase = "queued", !.ok = b] \in Invocation
         /\ InvOK([i EXCEPT !.phase = "queued", !.ok = b], k, a, g, l)
<1> DEFINE s == [i EXCEPT !.phase = "queued", !.ok = b]
<1>1. s \in Invocation
  BY InvFields DEF Invocation
<1>2. /\ s.src = i.src /\ s.phase = "queued" /\ s.what = i.what /\ s.d = i.d /\ s.del = i.del
      /\ s.ok = b /\ s.replies = i.replies /\ s.dues = i.dues /\ s.dels = i.dels
  BY DEF Invocation
<1> HIDE DEF s
<1>3. InvOK(s, k, a, g, l)
  BY <1>2, Unset DEF InvOK
<1>. QED BY <1>1, <1>3 DEF s

(* The reply is recorded and about to be posted. *)
LEMMA PostingOK ==
  ASSUME NEW i \in Invocation,
         NEW k \in SUBSET Event, NEW a \in SUBSET Event, NEW g, NEW l,
         InvOK(i, k, a, g, l),
         i.phase = "checking",
         i.d \in a
  PROVE  [i EXCEPT !.phase = "posting", !.what = "none"] \in Invocation
         /\ InvOK([i EXCEPT !.phase = "posting", !.what = "none"], k, a, g, l)
<1> DEFINE s == [i EXCEPT !.phase = "posting", !.what = "none"]
<1>1. s \in Invocation
  BY InvFields DEF Invocation
<1>2. /\ s.src = i.src /\ s.phase = "posting" /\ s.what = "none" /\ s.d = i.d /\ s.del = i.del
      /\ s.ok = i.ok /\ s.replies = i.replies /\ s.dues = i.dues /\ s.dels = i.dels
  BY DEF Invocation
<1> HIDE DEF s
<1>3. InvOK(s, k, a, g, l)
  BY <1>2, Unset DEF InvOK
<1>. QED BY <1>1, <1>3 DEF s

(* The service has answered, or not. *)
LEMMA PostedOK ==
  ASSUME NEW i \in Invocation,
         NEW k \in SUBSET Event, NEW a \in SUBSET Event, NEW g, NEW l,
         InvOK(i, k, a, g, l),
         NEW b \in BOOLEAN,
         i.phase = "posting",
         b => i.d \in l
  PROVE  [i EXCEPT !.phase = "posted", !.ok = b] \in Invocation
         /\ InvOK([i EXCEPT !.phase = "posted", !.ok = b], k, a, g, l)
<1> DEFINE s == [i EXCEPT !.phase = "posted", !.ok = b]
<1>1. s \in Invocation
  BY InvFields DEF Invocation
<1>2. /\ s.src = i.src /\ s.phase = "posted" /\ s.what = i.what /\ s.d = i.d /\ s.del = i.del
      /\ s.ok = b /\ s.replies = i.replies /\ s.dues = i.dues /\ s.dels = i.dels
  BY DEF Invocation
<1> HIDE DEF s
<1>3. InvOK(s, k, a, g, l)
  BY <1>2, Unset DEF InvOK
<1>. QED BY <1>1, <1>3 DEF s

(* The delivery is settled. *)
LEMMA CancellingOK ==
  ASSUME NEW i \in Invocation,
         NEW k \in SUBSET Event, NEW a \in SUBSET Event, NEW g, NEW l,
         InvOK(i, k, a, g, l),
         NEW w \in {"none", "read", "handled", "reply"},
         NEW b \in BOOLEAN,
         i.d # None
  PROVE  [i EXCEPT !.phase = "cancelling", !.what = w, !.del = None, !.ok = b] \in Invocation
         /\ InvOK([i EXCEPT !.phase = "cancelling", !.what = w, !.del = None, !.ok = b], k, a, g, l)
<1> DEFINE s == [i EXCEPT !.phase = "cancelling", !.what = w, !.del = None, !.ok = b]
<1>1. s \in Invocation
  BY InvFields DEF Invocation
<1>2. /\ s.src = i.src /\ s.phase = "cancelling" /\ s.what = w /\ s.d = i.d /\ s.del = None
      /\ s.ok = b /\ s.replies = i.replies /\ s.dues = i.dues /\ s.dels = i.dels
  BY DEF Invocation
<1> HIDE DEF s
<1>3. InvOK(s, k, a, g, l)
  BY <1>2, Unset DEF InvOK
<1>. QED BY <1>1, <1>3 DEF s

(* What goes on with its loop. *)
LEMMA LoopOK ==
  ASSUME NEW i \in Invocation,
         NEW k \in SUBSET Event, NEW a \in SUBSET Event, NEW g, NEW l,
         InvOK(i, k, a, g, l)
  PROVE  [i EXCEPT !.phase = "looping", !.d = None, !.del = None, !.ok = FALSE] \in Invocation
         /\ InvOK([i EXCEPT !.phase = "looping", !.d = None, !.del = None, !.ok = FALSE], k, a, g, l)
<1> DEFINE s == [i EXCEPT !.phase = "looping", !.d = None, !.del = None, !.ok = FALSE]
<1>1. s \in Invocation
  BY InvFields DEF Invocation
<1>2. /\ s.src = i.src /\ s.phase = "looping" /\ s.what = i.what /\ s.d = None /\ s.del = None
      /\ s.ok = FALSE /\ s.replies = i.replies /\ s.dues = i.dues /\ s.dels = i.dels
  BY DEF Invocation
<1> HIDE DEF s
<1>3. InvOK(s, k, a, g, l)
  BY <1>2, Unset DEF InvOK
<1>. QED BY <1>1, <1>3 DEF s

(* The alarm posts a reply of its list. *)
LEMMA RetryOK ==
  ASSUME NEW i \in Invocation,
         NEW k \in SUBSET Event, NEW a \in SUBSET Event, NEW g, NEW l,
         InvOK(i, k, a, g, l),
         NEW d \in k,
         d \in i.replies,
         NEW x \in Delivery,
         x.held /\ d \notin ToRoom => d \in g
  PROVE  [i EXCEPT !.phase = "posting", !.d = d, !.del = x, !.replies = i.replies \ {d}] \in Invocation
         /\ InvOK([i EXCEPT !.phase = "posting", !.d = d, !.del = x, !.replies = i.replies \ {d}], k, a, g, l)
<1> DEFINE s == [i EXCEPT !.phase = "posting", !.d = d, !.del = x, !.replies = i.replies \ {d}]
<1>1. s \in Invocation
  BY InvFields DEF Invocation
<1>2. /\ s.src = i.src /\ s.phase = "posting" /\ s.what = i.what /\ s.d = d /\ s.del = x
      /\ s.ok = i.ok /\ s.replies = i.replies \ {d} /\ s.dues = i.dues /\ s.dels = i.dels
  BY DEF Invocation
<1> HIDE DEF s
<1>3. InvOK(s, k, a, g, l)
  BY <1>2, Unset DEF InvOK
<1>. QED BY <1>1, <1>3 DEF s

(* The alarm goes on to the deliveries that are due. *)
LEMMA WakingOK ==
  ASSUME NEW i \in Invocation,
         NEW k \in SUBSET Event, NEW a \in SUBSET Event, NEW g, NEW l,
         InvOK(i, k, a, g, l),
         NEW T \in SUBSET k,
         i.phase = "looping",
         i.replies = {}
  PROVE  [i EXCEPT !.src = "waking", !.dues = T] \in Invocation
         /\ InvOK([i EXCEPT !.src = "waking", !.dues = T], k, a, g, l)
<1> DEFINE s == [i EXCEPT !.src = "waking", !.dues = T]
<1>1. s \in Invocation
  BY InvFields DEF Invocation
<1>2. /\ s.src = "waking" /\ s.phase = i.phase /\ s.what = i.what /\ s.d = i.d /\ s.del = i.del
      /\ s.ok = i.ok /\ s.replies = i.replies /\ s.dues = T /\ s.dels = i.dels
  BY DEF Invocation
<1> HIDE DEF s
<1>3. InvOK(s, k, a, g, l)
  BY <1>2, Unset DEF InvOK
<1>. QED BY <1>1, <1>3 DEF s

(* A delivery of the list is done with. *)
LEMMA DuesOK ==
  ASSUME NEW i \in Invocation,
         NEW k \in SUBSET Event, NEW a \in SUBSET Event, NEW g, NEW l,
         InvOK(i, k, a, g, l),
         NEW d
  PROVE  [i EXCEPT !.dues = i.dues \ {d}] \in Invocation
         /\ InvOK([i EXCEPT !.dues = i.dues \ {d}], k, a, g, l)
<1> DEFINE s == [i EXCEPT !.dues = i.dues \ {d}]
<1>1. s \in Invocation
  BY InvFields DEF Invocation
<1>2. /\ s.src = i.src /\ s.phase = i.phase /\ s.what = i.what /\ s.d = i.d /\ s.del = i.del
      /\ s.ok = i.ok /\ s.replies = i.replies /\ s.dues = i.dues \ {d} /\ s.dels = i.dels
  BY DEF Invocation
<1> HIDE DEF s
<1>3. InvOK(s, k, a, g, l)
  BY <1>2, Unset DEF InvOK
<1>. QED BY <1>1, <1>3 DEF s

(* A delivery of the conversation is settled. *)
LEMMA SettleOK ==
  ASSUME NEW i \in Invocation,
         NEW k \in SUBSET Event, NEW a \in SUBSET Event, NEW g, NEW l,
         InvOK(i, k, a, g, l),
         NEW d \in Event,
         i.phase = "looping"
  PROVE  [i EXCEPT !.phase = "cancelling", !.d = d, !.dels = [i.dels EXCEPT ![d] = None]] \in Invocation
         /\ InvOK([i EXCEPT !.phase = "cancelling", !.d = d, !.dels = [i.dels EXCEPT ![d] = None]], k, a, g, l)
<1> DEFINE s == [i EXCEPT !.phase = "cancelling", !.d = d, !.dels = [i.dels EXCEPT ![d] = None]]
<1>1. s \in Invocation
  BY InvFields DEF Invocation
<1>2. /\ s.src = i.src /\ s.phase = "cancelling" /\ s.what = i.what /\ s.d = d /\ s.del = i.del
      /\ s.ok = i.ok /\ s.replies = i.replies /\ s.dues = i.dues
      /\ s.dels = [i.dels EXCEPT ![d] = None]
  BY DEF Invocation
<1> HIDE DEF s
<1>3. InvOK(s, k, a, g, l)
  BY <1>2, Unset DEF InvOK
<1>. QED BY <1>1, <1>3 DEF s

-----------------------------------------------------------------------------
(* The records *)

LEMMA Holdings ==
  ASSUME IInv, NEW r \in Run
  PROVE  /\ run[r] \in Invocation /\ InvOK(run[r], Known, Answered, taken, landed)
         /\ run[r].d \in Event \union {None} /\ run[r].del \in Delivery \union {None}
BY InvFields DEF IInv, TypeOK, Invocations

LEMMA TakenStep == IInv /\ [Next]_vars => taken \subseteq taken' /\ taken' \subseteq Event
<1> SUFFICES ASSUME IInv, [Next]_vars
             PROVE  taken \subseteq taken' /\ taken' \subseteq Event
  OBVIOUS
<1>t. taken \subseteq Event
  BY DEF IInv, TypeOK
<1>m. HubMoves
  BY Frame DEF Moves
<1>1. CASE UNCHANGED <<hub, reports, taken>>
  BY <1>1, <1>t
<1>2. ASSUME NEW r \in Run, HubQueues(r)
      PROVE  taken \subseteq taken' /\ taken' \subseteq Event
  BY <1>2, <1>t DEF HubQueues
<1>3. ASSUME NEW r \in Run, CancelHostQueue(r)
      PROVE  taken \subseteq taken' /\ taken' \subseteq Event
  BY <1>3, <1>t DEF CancelHostQueue
<1>4. ASSUME NEW d \in Event, NEW via \in Via, HubAcks(d, via)
      PROVE  taken \subseteq taken' /\ taken' \subseteq Event
  BY <1>4, <1>t DEF HubAcks
<1>5. ASSUME NEW d \in Event, NEW via \in Via, ReportInjection(d, via)
      PROVE  taken \subseteq taken' /\ taken' \subseteq Event
  BY <1>5, <1>t DEF ReportInjection
<1>6. ASSUME NEW d \in Event, HubDies(d)
      PROVE  taken \subseteq taken' /\ taken' \subseteq Event
  BY <1>6, <1>t DEF HubDies
<1>. QED BY <1>m, <1>1, <1>2, <1>3, <1>4, <1>5, <1>6 DEF HubMoves

DeliveryKept == /\ delivery' \in [Event -> Delivery \union {None}]
                /\ Known \subseteq Known' /\ HeldTaken'

(* A record is written: it is held only if its agent has the delivery. *)
LEMMA OneDelivery ==
  ASSUME IInv, taken \subseteq taken', NEW d \in Event, NEW x \in Delivery,
         x.held /\ d \notin ToRoom => d \in taken',
         delivery' = [delivery EXCEPT ![d] = x]
  PROVE  DeliveryKept /\ delivery'[d] = x /\ d \in Known'
<1>1. delivery \in [Event -> Delivery \union {None}]
  BY DEF IInv, TypeOK
<1>2. delivery' \in [Event -> Delivery \union {None}]
  BY <1>1
<1>3. delivery'[d] = x /\ \A e \in Event : e # d => delivery'[e] = delivery[e]
  BY <1>1
<1>4. x # None
  BY Unset
<1>5. Known \subseteq Known' /\ d \in Known'
  BY <1>3, <1>4 DEF Known
<1>6. HeldTaken'
  BY <1>3 DEF HeldTaken, IInv
<1>. QED BY <1>2, <1>3, <1>5, <1>6 DEF DeliveryKept

LEMMA DeliveryStep == IInv /\ [Next]_vars => DeliveryKept
<1> SUFFICES ASSUME IInv, [Next]_vars
             PROVE  DeliveryKept
  OBVIOUS
<1>g. taken \subseteq taken'
  BY TakenStep
<1>t. delivery \in [Event -> Delivery \union {None}]
  BY DEF IInv, TypeOK
<1>m. DeliveryMoves
  BY Frame DEF Moves
<1>1. CASE UNCHANGED delivery
  BY <1>1, <1>g DEF DeliveryKept, IInv, TypeOK, HeldTaken, Known
<1>2. ASSUME NEW r \in Run, IngestEvent(r)
      PROVE  DeliveryKept
  <2>1. run[r].d \in Event
    BY <1>2, Holdings DEF InvOK, IngestEvent
  <2>2. delivery' = [delivery EXCEPT ![run[r].d] = Fresh]
    BY <1>2 DEF IngestEvent
  <2>. QED BY <1>g, <2>1, <2>2, FreshOK, OneDelivery
<1>3. ASSUME NEW r \in Run, DispatchEnds(r)
      PROVE  DeliveryKept
  <2>1. /\ run[r].d \in Event /\ run[r].del \in Delivery
        /\ run[r].del.held /\ run[r].d \notin ToRoom => run[r].d \in taken
    BY <1>3, Holdings DEF InvOK, DispatchEnds, Known
  <2>2. Dispatched(r) \in Delivery /\ Dispatched(r).held = run[r].del.held
    BY <2>1, DispatchedOK
  <2> DEFINE x == Armed(run[r].d, Dispatched(r))
  <2>3. x \in Delivery /\ x.held = run[r].del.held
    BY <2>2, ArmedOK
  <2>4. delivery' = [delivery EXCEPT ![run[r].d] = x]
    BY <1>3 DEF DispatchEnds
  <2> HIDE DEF x
  <2>. QED BY <1>g, <2>1, <2>3, <2>4, OneDelivery
<1>4. ASSUME NEW r \in Run, ReadMessage(r)
      PROVE  DeliveryKept
  <2>1. /\ run[r].d \in Event /\ run[r].del \in Delivery
        /\ run[r].del.held /\ run[r].d \notin ToRoom => run[r].d \in taken
    BY <1>4, Holdings DEF InvOK, ReadMessage, MayGoOn, Known
  <2> DEFINE y == [run[r].del EXCEPT !.read = TRUE]
             x == Armed(run[r].d, y)
  <2>2. y \in Delivery /\ y.held = run[r].del.held
    BY <2>1 DEF Delivery
  <2> HIDE DEF y
  <2>3. x \in Delivery /\ x.held = run[r].del.held
    BY <2>2, ArmedOK
  <2>4. UNCHANGED delivery \/ delivery' = [delivery EXCEPT ![run[r].d] = x]
    BY <1>4 DEF ReadMessage, y
  <2> HIDE DEF x
  <2>. QED BY <1>1, <1>g, <2>1, <2>3, <2>4, OneDelivery
<1>5. ASSUME NEW r \in Run, MarkHandled(r)
      PROVE  DeliveryKept
  <2>1. /\ run[r].d \in Event /\ run[r].del \in Delivery
        /\ run[r].del.held /\ run[r].d \notin ToRoom => run[r].d \in taken
    BY <1>5, Holdings DEF InvOK, MarkHandled, MayGoOn, Known
  <2>2. UNCHANGED delivery \/ delivery' = [delivery EXCEPT ![run[r].d] = Handled(run[r].del)]
    BY <1>5 DEF MarkHandled
  <2>. QED BY <1>1, <1>g, <2>1, <2>2, HandledOK, OneDelivery
<1>6. ASSUME NEW r \in Run, NEW d \in Event, OperatorMarkHandled(r, d)
      PROVE  DeliveryKept
  <2>1. delivery[d] \in Delivery /\ delivery' = [delivery EXCEPT ![d] = Handled(delivery[d])]
    BY <1>6, <1>t DEF OperatorMarkHandled
  <2>2. delivery[d].held /\ d \notin ToRoom => d \in taken
    BY <2>1, Unset DEF IInv, HeldTaken
  <2>. QED BY <1>g, <2>1, <2>2, HandledOK, OneDelivery
<1>7. ASSUME NEW r \in Run, ChatReply(r)
      PROVE  DeliveryKept
  <2>1. /\ run[r].d \in Event /\ run[r].del \in Delivery
        /\ run[r].del.held /\ run[r].d \notin ToRoom => run[r].d \in taken
    BY <1>7, Holdings DEF InvOK, ChatReply, MayGoOn, Known
  <2>2. delivery' = [delivery EXCEPT ![run[r].d] = run[r].del]
    BY <1>7 DEF ChatReply
  <2>. QED BY <1>g, <2>1, <2>2, OneDelivery
<1>8. ASSUME NEW r \in Run, PostSettles(r)
      PROVE  DeliveryKept
  <2>1. /\ run[r].d \in Event /\ run[r].del \in Delivery
        /\ run[r].del.held /\ run[r].d \notin ToRoom => run[r].d \in taken
    BY <1>8, Holdings DEF InvOK, PostSettles, Known
  <2>2. delivery' = [delivery EXCEPT ![run[r].d] = Handled(run[r].del)]
    BY <1>8 DEF PostSettles
  <2>. QED BY <1>g, <2>1, <2>2, HandledOK, OneDelivery
<1>9. ASSUME NEW r \in Run, NEW d \in Event, SettleNext(r, d)
      PROVE  DeliveryKept
  <2>1. run[r].dels[d] \in Delivery
    BY <1>9, Holdings, InvFields DEF SettleNext
  <2>2. run[r].dels[d].held /\ d \notin ToRoom => d \in taken
    BY <1>9, Holdings DEF InvOK, SettleNext
  <2>3. delivery' = [delivery EXCEPT ![d] = Handled(run[r].dels[d])]
    BY <1>9 DEF SettleNext
  <2>. QED BY <1>g, <2>1, <2>2, <2>3, HandledOK, OneDelivery
<1>10. ASSUME NEW d \in Event, NEW via \in Via, ReportInjection(d, via)
       PROVE  DeliveryKept
  <2>1. CASE UNCHANGED delivery
    BY <1>1, <2>1
  <2>2. CASE ~UNCHANGED delivery
    <3>1. delivery[d] \in Delivery
      BY <1>10, <1>t DEF ReportInjection, IInv, HubKnown, Known
    <3>2. d \notin ToRoom /\ (via = "adapter" => d \in taken)
      BY <1>10, <2>2 DEF ReportInjection, RecordInjection, IInv, ReportTaken
    <3> DEFINE y == [delivery[d] EXCEPT !.held = (via = "adapter")]
               x == [y EXCEPT !.due = IF SessionHeld(d, y) THEN NoAlarm ELSE y.due]
    <3>3. y \in Delivery /\ y.held = (via = "adapter")
      BY <3>1 DEF Delivery
    <3>4. delivery' = [delivery EXCEPT ![d] = x]
      BY <1>10, <2>2, <3>1 DEF ReportInjection, RecordInjection
    <3> HIDE DEF y
    <3>5. (IF SessionHeld(d, y) THEN NoAlarm ELSE y.due) \in Due
      BY <3>3, DeliveryFields DEF Due
    <3>6. x \in Delivery /\ x.held = y.held
      BY <3>3, <3>5 DEF Delivery
    <3> HIDE DEF x
    <3>. QED BY <1>g, <3>2, <3>3, <3>4, <3>6, OneDelivery
  <2>. QED BY <2>1, <2>2
<1>11. CASE Tick
  <2>1. \A d \in Event : delivery'[d] =
          IF delivery[d] = None THEN None ELSE [delivery[d] EXCEPT !.due = Sooner(delivery[d].due)]
    BY <1>11 DEF Tick
  <2>2. ASSUME NEW d \in Event, delivery[d] # None
        PROVE  delivery'[d] \in Delivery /\ delivery'[d].held = delivery[d].held
    <3>1. delivery[d] \in Delivery /\ Sooner(delivery[d].due) \in Due
      BY <1>t, <2>2, DeliveryFields, DueTypes
    <3>. QED BY <2>1, <2>2, <3>1 DEF Delivery
  <2>3. delivery' \in [Event -> Delivery \union {None}]
    BY <1>11, <2>1, <2>2 DEF Tick
  <2>4. Known \subseteq Known'
    BY <2>2, Unset DEF Known
  <2>5. HeldTaken'
    BY <1>g, <2>1, <2>2 DEF HeldTaken, IInv
  <2>. QED BY <2>3, <2>4, <2>5 DEF DeliveryKept
<1>. QED BY <1>m, <1>1, <1>2, <1>3, <1>4, <1>5, <1>6, <1>7, <1>8, <1>9, <1>10, <1>11 DEF DeliveryMoves

ReplyKept == /\ reply' \in [Event -> Reply \union {None}]
             /\ Answered \subseteq Answered' /\ ReplyTimed'
             /\ \A d \in Event : reply'[d] # None /\ reply'[d].posted => d \in landed

(* A reply is written, for a delivery on record. *)
LEMMA OneReply ==
  ASSUME IInv, DeliveryKept, NEW d \in Known', NEW x \in Reply,
         ~x.posted => x.due # NoAlarm, x.posted => d \in landed,
         reply' = [reply EXCEPT ![d] = x]
  PROVE  ReplyKept /\ reply'[d] = x /\ d \in Answered'
<1>1. reply \in [Event -> Reply \union {None}] /\ d \in Event
  BY DEF IInv, TypeOK, Known
<1>2. reply' \in [Event -> Reply \union {None}]
  BY <1>1
<1>3. reply'[d] = x /\ \A e \in Event : e # d => reply'[e] = reply[e]
  BY <1>1
<1>4. x # None
  BY Unset
<1>5. Answered \subseteq Answered' /\ d \in Answered'
  BY <1>1, <1>3, <1>4 DEF Answered
<1>6. ReplyTimed'
  <2> SUFFICES ASSUME NEW e \in Event, reply'[e] # None
               PROVE  e \in Known' /\ (~reply'[e].posted => reply'[e].due # NoAlarm)
    BY DEF ReplyTimed
  <2>1. CASE e = d
    BY <1>3, <2>1
  <2>2. CASE e # d
    BY <1>3, <2>2 DEF IInv, ReplyTimed, DeliveryKept
  <2>. QED BY <2>1, <2>2
<1>7. \A e \in Event : reply'[e] # None /\ reply'[e].posted => e \in landed
  BY <1>3 DEF IInv, ReplyOnRecord
<1>. QED BY <1>2, <1>3, <1>5, <1>6, <1>7 DEF ReplyKept

LEMMA ReplyStep == IInv /\ [Next]_vars => ReplyKept
<1> SUFFICES ASSUME IInv, [Next]_vars
             PROVE  ReplyKept
  OBVIOUS
<1>k. DeliveryKept
  BY DeliveryStep
<1>t. reply \in [Event -> Reply \union {None}]
  BY DEF IInv, TypeOK
<1>m. ReplyMoves
  BY Frame DEF Moves
<1>1. CASE UNCHANGED reply
  BY <1>1, <1>k DEF ReplyKept, DeliveryKept, IInv, TypeOK, ReplyTimed, ReplyOnRecord, Answered
<1>2. ASSUME NEW r \in Run, ChatReply(r)
      PROVE  ReplyKept
  <2>1. run[r].d \in Known'
    BY <1>2, <1>k, Holdings DEF InvOK, ChatReply, MayGoOn, DeliveryKept
  <2> DEFINE x == [posted |-> FALSE, due |-> 0]
  <2>2. x \in Reply /\ ~x.posted /\ x.due # NoAlarm
    BY ReplyForms DEF NoAlarm
  <2>3. reply' = [reply EXCEPT ![run[r].d] = x]
    BY <1>2 DEF ChatReply
  <2> HIDE DEF x
  <2>. QED BY <1>k, <2>1, <2>2, <2>3, OneReply
<1>3. ASSUME NEW r \in Run, PostSettles(r)
      PROVE  ReplyKept
  <2>1. run[r].d \in Known' /\ run[r].d \in landed
    BY <1>3, <1>k, Holdings DEF InvOK, PostSettles, DeliveryKept
  <2> DEFINE x == [posted |-> TRUE, due |-> NoAlarm]
  <2>2. x \in Reply /\ x.posted
    BY ReplyForms
  <2>3. reply' = [reply EXCEPT ![run[r].d] = x]
    BY <1>3 DEF PostSettles
  <2> HIDE DEF x
  <2>. QED BY <1>k, <2>1, <2>2, <2>3, OneReply
<1>4. ASSUME NEW r \in Run, PostPending(r)
      PROVE  ReplyKept
  <2>1. run[r].d \in Known'
    BY <1>4, <1>k, Holdings DEF InvOK, PostPending, DeliveryKept
  <2> DEFINE x == [posted |-> FALSE, due |-> ReplyRetry]
  <2>2. x \in Reply /\ ~x.posted /\ x.due # NoAlarm
    BY ReplyForms, DueTypes
  <2>3. reply' = [reply EXCEPT ![run[r].d] = x]
    BY <1>4 DEF PostPending
  <2> HIDE DEF x
  <2>. QED BY <1>k, <2>1, <2>2, <2>3, OneReply
<1>5. CASE Tick
  <2>1. \A d \in Event : reply'[d] =
          IF reply[d] = None THEN None ELSE [reply[d] EXCEPT !.due = Sooner(reply[d].due)]
    BY <1>5 DEF Tick
  <2>2. ASSUME NEW d \in Event, reply[d] # None
        PROVE  /\ reply'[d] \in Reply /\ reply'[d].posted = reply[d].posted
               /\ reply[d].due # NoAlarm => reply'[d].due # NoAlarm
    <3>1. reply[d] \in Reply
      BY <1>t, <2>2
    <3>2. Sooner(reply[d].due) \in Due /\ (reply[d].due # NoAlarm => Sooner(reply[d].due) # NoAlarm)
      BY <3>1, DueTypes DEF Reply
    <3>. QED BY <2>1, <2>2, <3>1, <3>2 DEF Reply
  <2>3. reply' \in [Event -> Reply \union {None}]
    BY <1>5, <2>1, <2>2 DEF Tick
  <2>4. Answered \subseteq Answered'
    BY <2>2, Unset DEF Answered
  <2>5. ReplyTimed'
    BY <1>k, <2>1, <2>2 DEF ReplyTimed, IInv, DeliveryKept
  <2>6. \A d \in Event : reply'[d] # None /\ reply'[d].posted => d \in landed
    BY <2>1, <2>2 DEF IInv, ReplyOnRecord
  <2>. QED BY <2>3, <2>4, <2>5, <2>6 DEF ReplyKept
<1>. QED BY <1>m, <1>1, <1>2, <1>3, <1>4, <1>5 DEF ReplyMoves

LandedKept == landed \subseteq landed' /\ landed' \subseteq Event /\ ReplyOnRecord'

(* A post was on record before it was made. *)
LEMMA LandedStep == IInv /\ [Next]_vars => LandedKept
<1> SUFFICES ASSUME IInv, [Next]_vars
             PROVE  LandedKept
  OBVIOUS
<1>k. ReplyKept
  BY ReplyStep
<1>t. landed \subseteq Event
  BY DEF IInv, TypeOK
<1>o. \A d \in landed : d \in Answered
  BY <1>t DEF IInv, ReplyOnRecord, Answered
<1>m. LandedMoves
  BY Frame DEF Moves
<1>1. landed \subseteq landed' /\ landed' \subseteq Event /\ \A d \in landed' : d \in Answered
  <2>1. CASE UNCHANGED landed
    BY <1>t, <1>o, <2>1
  <2>2. ASSUME NEW r \in Run, PostLands(r)
        PROVE  landed \subseteq landed' /\ landed' \subseteq Event /\ \A d \in landed' : d \in Answered
    <3>1. landed' = landed \union {run[r].d}
      BY <2>2 DEF PostLands
    <3>2. run[r].d \in Answered
      BY <2>2, Holdings DEF InvOK, PostLands
    <3>. QED BY <1>t, <1>o, <3>1, <3>2 DEF Answered
  <2>. QED BY <1>m, <2>1, <2>2 DEF LandedMoves
<1>2. ReplyOnRecord'
  BY <1>k, <1>1 DEF ReplyKept, ReplyOnRecord, Answered
<1>. QED BY <1>1, <1>2 DEF LandedKept

HubKept == /\ hub' \in [Event -> {"none", "queued", "injected", "dead"}]
           /\ reports' \subseteq Event \X Via /\ ReportTaken' /\ HubKnown'

LEMMA HubStep == IInv /\ [Next]_vars => HubKept
<1> SUFFICES ASSUME IInv, [Next]_vars
             PROVE  HubKept
  OBVIOUS
<1>g. taken \subseteq taken' /\ Known \subseteq Known'
  BY TakenStep, DeliveryStep DEF DeliveryKept
<1>t. /\ hub \in [Event -> {"none", "queued", "injected", "dead"}]
      /\ reports \subseteq Event \X Via
  BY DEF IInv, TypeOK
<1>h. ReportTaken /\ HubKnown
  BY DEF IInv
<1>m. HubMoves
  BY Frame DEF Moves
<1>1. CASE UNCHANGED <<hub, reports, taken>>
  BY <1>1, <1>g, <1>t, <1>h DEF HubKept, ReportTaken, HubKnown
<1>2. ASSUME NEW r \in Run, HubQueues(r)
      PROVE  HubKept
  <2>1. run[r].d \in Known
    BY <1>2, Holdings DEF InvOK, HubQueues
  <2>2. reports' = reports
    BY <1>2 DEF HubQueues
  <2>3. hub' \in [Event -> {"none", "queued", "injected", "dead"}]
    BY <1>2, <1>t DEF HubQueues
  <2>4. \A d \in Event : d # run[r].d => hub'[d] = hub[d]
    BY <1>2, <1>t DEF HubQueues
  <2>. QED BY <1>g, <1>t, <1>h, <2>1, <2>2, <2>3, <2>4 DEF HubKept, ReportTaken, HubKnown
<1>3. ASSUME NEW r \in Run, CancelHostQueue(r)
      PROVE  HubKept
  <2>1. reports' = reports
    BY <1>3 DEF CancelHostQueue
  <2>2. hub' \in [Event -> {"none", "queued", "injected", "dead"}]
    BY <1>3, <1>t DEF CancelHostQueue
  <2>3. \A d \in Event : hub'[d] # "none" => hub[d] # "none"
    BY <1>3, <1>t DEF CancelHostQueue
  <2>. QED BY <1>g, <1>t, <1>h, <2>1, <2>2, <2>3 DEF HubKept, ReportTaken, HubKnown
<1>4. ASSUME NEW d \in Event, NEW via \in Via, HubAcks(d, via)
      PROVE  HubKept
  <2>1. reports' = reports \union {<<d, via>>} /\ d \in Known
    BY <1>4, <1>h DEF HubAcks, HubKnown
  <2>2. hub' \in [Event -> {"none", "queued", "injected", "dead"}]
    BY <1>4, <1>t DEF HubAcks
  <2>3. \A e \in Event : hub'[e] # "none" => hub[e] # "none"
    BY <1>4, <1>t DEF HubAcks
  <2>4. via = "adapter" /\ d \notin ToRoom => d \in taken'
    BY <1>4 DEF HubAcks
  <2>5. ReportTaken'
    BY <1>g, <1>h, <2>1, <2>4 DEF ReportTaken
  <2>6. HubKnown'
    BY <1>g, <1>h, <2>1, <2>3 DEF HubKnown
  <2>. QED BY <1>t, <2>1, <2>2, <2>5, <2>6 DEF HubKept
<1>5. ASSUME NEW d \in Event, NEW via \in Via, ReportInjection(d, via)
      PROVE  HubKept
  <2>1. reports' \subseteq reports /\ hub' = hub
    BY <1>5 DEF ReportInjection
  <2>. QED BY <1>g, <1>t, <1>h, <2>1 DEF HubKept, ReportTaken, HubKnown
<1>6. ASSUME NEW d \in Event, HubDies(d)
      PROVE  HubKept
  <2>1. reports' = reports
    BY <1>6 DEF HubDies
  <2>2. hub' \in [Event -> {"none", "queued", "injected", "dead"}]
    BY <1>6, <1>t DEF HubDies
  <2>3. \A e \in Event : hub'[e] # "none" => hub[e] # "none"
    BY <1>6, <1>t DEF HubDies
  <2>. QED BY <1>g, <1>t, <1>h, <2>1, <2>2, <2>3 DEF HubKept, ReportTaken, HubKnown
<1>. QED BY <1>m, <1>1, <1>2, <1>3, <1>4, <1>5, <1>6 DEF HubMoves

MetaKept == /\ meta' \in Status \union {"new"} /\ row' \in Status \union {"none"}
            /\ writes' \subseteq Writes /\ patch' \in Status \union {"idle"}

LEMMA MetaStep == IInv /\ [Next]_vars => MetaKept
<1> SUFFICES ASSUME IInv, [Next]_vars
             PROVE  MetaKept
  OBVIOUS
<1>t. /\ meta \in Status \union {"new"} /\ row \in Status \union {"none"}
      /\ writes \subseteq Writes /\ patch \in Status \union {"idle"}
  BY DEF IInv, TypeOK
<1>w. \A s \in Status : Update(s) \in Writes /\ Upsert(s) \in Writes
  BY DEF Update, Upsert, Writes
<1>s. "active" \in Status /\ "paused" \in Status /\ "idle" \notin Status /\ "none" \notin Status
  BY DEF Status
<1>m. MetaMoves
  BY Frame DEF Moves
<1>1. CASE UNCHANGED <<meta, row, writes, patch>>
  BY <1>1, <1>t DEF MetaKept
<1>2. ASSUME NEW r \in Run, LoopEnds(r)
      PROVE  MetaKept
  BY <1>2, <1>t, <1>w, <1>s DEF LoopEnds, MetaKept
<1>3. CASE CreateIntegration
  BY <1>3, <1>t, <1>w, <1>s DEF CreateIntegration, Configure, MetaKept
<1>4. CASE PatchRead
  BY <1>4, <1>t DEF PatchRead, MetaKept
<1>5. CASE PatchIntegration
  <2>1. patch \in Status
    BY <1>5, <1>t DEF PatchIntegration
  <2>. QED BY <1>5, <1>t, <1>w, <2>1 DEF PatchIntegration, Configure, MetaKept
<1>6. CASE Pause
  BY <1>6, <1>t, <1>w, <1>s DEF Pause, MetaKept
<1>7. ASSUME NEW r \in Run, Resume(r)
      PROVE  MetaKept
  BY <1>7, <1>t, <1>s DEF Resume, MetaKept, d1
<1>8. ASSUME NEW w \in writes, WriteLands(w)
      PROVE  MetaKept
  <2>1. w.status \in Status
    BY <1>t DEF Writes
  <2>. QED BY <1>8, <1>t, <2>1 DEF WriteLands, MetaKept
<1>9. ASSUME NEW w \in writes, WriteFails(w)
      PROVE  MetaKept
  BY <1>9, <1>t DEF WriteFails, MetaKept
<1>. QED BY <1>m, <1>1, <1>2, <1>3, <1>4, <1>5, <1>6, <1>7, <1>8, <1>9 DEF MetaMoves

FaultsKept == faults' \in 0..MaxFaults /\ lapsed' \in BOOLEAN /\ (lapsed => lapsed')

LEMMA FaultsStep == IInv /\ [Next]_vars => FaultsKept
<1> SUFFICES ASSUME IInv, [Next]_vars
             PROVE  FaultsKept
  OBVIOUS
<1>t. faults \in 0..MaxFaults /\ lapsed \in BOOLEAN
  BY DEF IInv, TypeOK
<1>m. FaultMoves /\ LapsedMoves
  BY Frame DEF Moves
<1>1. faults' \in 0..MaxFaults
  BY <1>m, <1>t, IntegrationAssumption DEF FaultMoves, Fault
<1>2. lapsed' \in BOOLEAN /\ (lapsed => lapsed')
  <2>1. CASE UNCHANGED lapsed
    BY <2>1, <1>t
  <2>2. ASSUME NEW r \in Run, AlarmFires(r)
        PROVE  lapsed' \in BOOLEAN /\ (lapsed => lapsed')
    <3>1. UNCHANGED lapsed \/ lapsed' = TRUE
      BY <2>2 DEF AlarmFires
    <3>. QED BY <3>1, <1>t
  <2>3. CASE Restart
    <3>1. lapsed' = (lapsed \/ \E r \in Run : run[r].src \notin {"idle", "retrying", "waking"})
      BY <2>3 DEF Restart
    <3>. QED BY <3>1, <1>t
  <2>. QED BY <1>m, <2>1, <2>2, <2>3 DEF LapsedMoves
<1>. QED BY <1>1, <1>2 DEF FaultsKept

(* scheduleNext finds a time if anything is owed at one. *)
LEMMA EarliestOK ==
  ASSUME IInv
  PROVE  Earliest \in Due /\ (Times \ {NoAlarm} # {} => Earliest # NoAlarm)
<1>1. \A d \in Event : delivery[d] # None => delivery[d].due \in Due
  BY DeliveryFields DEF IInv, TypeOK
<1>2. \A d \in Event : reply[d] # None => reply[d].due \in Due
  BY DEF IInv, TypeOK, Reply
<1>3. Times \subseteq Due
  BY <1>1, <1>2 DEF Times
<1> DEFINE ts == Times \ {NoAlarm}
<1>4. ts \in SUBSET Nat /\ ts \subseteq Ticks
  BY <1>3, DueTypes
<1>5. Earliest = IF ts = {} THEN NoAlarm ELSE CHOOSE t \in ts : \A u \in ts : t <= u
  BY DEF Earliest
<1> HIDE DEF ts
<1>6. CASE ts = {}
  BY <1>5, <1>6 DEF ts, Due
<1>7. CASE ts # {}
  <2>1. \E t \in ts : \A u \in ts : t <= u
    BY <1>4, <1>7, LeastNat
  <2>2. Earliest \in ts
    BY <1>5, <1>7, <2>1
  <2>. QED BY <1>4, <2>2, DueTypes DEF Due
<1>. QED BY <1>6, <1>7 DEF ts

AlarmKept ==
  /\ alarm' \in Alarms /\ budget' \in Budgets /\ BudgetKept'
  /\ alarm # NoAlarm => alarm' # NoAlarm \/ \E r \in Run : AlarmFires(r)

LEMMA AlarmStep == IInv /\ [Next]_vars => AlarmKept
<1> SUFFICES ASSUME IInv, [Next]_vars
             PROVE  AlarmKept
  OBVIOUS
<1>t. alarm \in Alarms /\ budget \in Budgets /\ BudgetKept
  BY DEF IInv, TypeOK
<1>b. budget.left \in 1..Hour
  BY <1>t DEF Budgets
<1>m. AlarmMoves
  BY Frame DEF Moves
<1>1. CASE UNCHANGED <<alarm, budget>>
  BY <1>1, <1>t DEF AlarmKept, BudgetKept
<1>2. ASSUME NEW r \in Run, DispatchEnds(r)
      PROVE  AlarmKept
  <2>1. run[r].del \in Delivery
    BY <1>2, Holdings DEF InvOK, DispatchEnds
  <2> DEFINE x == Armed(run[r].d, Dispatched(r))
  <2>2. x.due \in Due
    BY <2>1, DispatchedOK, ArmedOK, DeliveryFields
  <2>3. ScheduleAt(x.due)
    BY <1>2 DEF DispatchEnds
  <2> HIDE DEF x
  <2>. QED BY <1>t, <2>2, <2>3, ScheduleAtOK DEF AlarmKept
<1>3. ASSUME NEW r \in Run, ReadMessage(r)
      PROVE  AlarmKept
  <2>1. run[r].del \in Delivery
    BY <1>3, Holdings DEF InvOK, ReadMessage, MayGoOn
  <2> DEFINE y == [run[r].del EXCEPT !.read = TRUE]
             x == Armed(run[r].d, y)
  <2>2. y \in Delivery
    BY <2>1 DEF Delivery
  <2> HIDE DEF y
  <2>3. x.due \in Due
    BY <2>2, ArmedOK, DeliveryFields
  <2>4. UNCHANGED <<alarm, budget>> \/ ScheduleAt(x.due)
    BY <1>3 DEF ReadMessage, y
  <2> HIDE DEF x
  <2>. QED BY <1>1, <1>t, <2>3, <2>4, ScheduleAtOK DEF AlarmKept
<1>4. ASSUME NEW r \in Run, PostPending(r)
      PROVE  AlarmKept
  <2>1. UNCHANGED <<alarm, budget>> \/ ScheduleAt(ReplyRetry)
    BY <1>4 DEF PostPending
  <2>2. ReplyRetry \in Due
    BY DueTypes DEF Due
  <2>. QED BY <1>1, <1>t, <2>1, <2>2, ScheduleAtOK DEF AlarmKept
<1>5. ASSUME NEW r \in Run, AlarmFires(r)
      PROVE  AlarmKept
  <2>1. alarm = 0 /\ alarm' = NoAlarm /\ budget' = budget
    BY <1>5 DEF AlarmFires
  <2>2. ~budget.resumed
    BY <1>t, <1>b, <2>1, BudgetAssumption DEF BudgetKept
  <2>. QED BY <1>t, <1>5, <2>1, <2>2 DEF AlarmKept, BudgetKept, Alarms
<1>6. ASSUME NEW r \in Run, LoopEnds(r)
      PROVE  AlarmKept
  <2>1. UNCHANGED <<alarm, budget>> \/ ScheduleAt(Earliest)
    BY <1>6 DEF LoopEnds
  <2>. QED BY <1>1, <1>t, <2>1, EarliestOK, ScheduleAtOK DEF AlarmKept
<1>7. CASE Restart
  <2>1. budget' = budget /\ (alarm' = alarm \/ (alarm = NoAlarm /\ alarm' = 0))
    <3> DEFINE P == \E r \in Run : run[r].src \in {"retrying", "waking"}
    <3>1. budget' = budget /\ alarm' = IF alarm = NoAlarm /\ P THEN 0 ELSE alarm
      BY <1>7 DEF Restart
    <3> HIDE DEF P
    <3>. QED BY <3>1
  <2>2. alarm = NoAlarm => ~budget.resumed
    BY <1>t, <1>b, BudgetAssumption DEF BudgetKept, NoAlarm
  <2>. QED BY <1>t, <2>1, <2>2 DEF AlarmKept, BudgetKept, Alarms, NoAlarm
<1>8. CASE Tick
  BY <1>8, <1>t, TickOK DEF Tick, AlarmKept, BudgetKept
<1>. QED BY <1>m, <1>1, <1>2, <1>3, <1>4, <1>5, <1>6, <1>7, <1>8 DEF AlarmMoves

-----------------------------------------------------------------------------
(* The invocations *)

InvsKept == run' \in [Run -> Invocation] /\ Invocations'

(* Where the records and histories stand after a step. *)
Grown == /\ Known \subseteq Known' /\ Answered \subseteq Answered'
         /\ taken \subseteq taken' /\ landed \subseteq landed'
         /\ Known' \in SUBSET Event /\ Answered' \in SUBSET Event

LEMMA Growing == IInv /\ [Next]_vars => Grown
<1> SUFFICES ASSUME IInv, [Next]_vars PROVE Grown
  OBVIOUS
<1>1. Known' \in SUBSET Event /\ Answered' \in SUBSET Event
  BY DEF Known, Answered
<1>. QED BY <1>1, DeliveryStep, ReplyStep, TakenStep, LandedStep
         DEF DeliveryKept, ReplyKept, LandedKept, Grown

(* What an invocation holds as the step finds it. *)
LEMMA Before ==
  ASSUME IInv, Grown, NEW r \in Run
  PROVE  run[r] \in Invocation /\ InvOK(run[r], Known', Answered', taken', landed')
BY Holdings, InvLater DEF Grown

(* One invocation begins, goes on or ends. *)
LEMMA OneInvocation ==
  ASSUME IInv, Grown, NEW r \in Run, NEW s \in Invocation,
         InvOK(s, Known', Answered', taken', landed'),
         run' = [run EXCEPT ![r] = s]
  PROVE  InvsKept
<1>1. run \in [Run -> Invocation]
  BY DEF IInv, TypeOK
<1>2. run' \in [Run -> Invocation]
  BY <1>1
<1>3. ASSUME NEW q \in Run
      PROVE  InvOK(run'[q], Known', Answered', taken', landed')
  <2>1. CASE q = r
    BY <1>1, <2>1
  <2>2. CASE q # r
    <3>1. run'[q] = run[q]
      BY <1>1, <2>2
    <3>. QED BY <3>1, Before
  <2>. QED BY <2>1, <2>2
<1>. QED BY <1>2, <1>3 DEF InvsKept, Invocations

(* What goes on with its loop, or ends. *)
LEMMA BackOK ==
  ASSUME IInv, Grown, NEW r \in Run, run' = [run EXCEPT ![r] = Back(r)]
  PROVE  InvsKept
<1> DEFINE s == [run[r] EXCEPT !.phase = "looping", !.d = None, !.del = None, !.ok = FALSE]
<1>1. s \in Invocation /\ InvOK(s, Known', Answered', taken', landed')
  BY Before, LoopOK DEF Grown
<1>2. Idle \in Invocation /\ InvOK(Idle, Known', Answered', taken', landed')
  BY IdleOK
<1>3. Back(r) = Idle \/ Back(r) = s
  BY DEF Back
<1> HIDE DEF s
<1>. QED BY <1>1, <1>2, <1>3, OneInvocation

LEMMA EndOK ==
  ASSUME IInv, Grown, NEW r \in Run, run' = [run EXCEPT ![r] = Idle]
  PROVE  InvsKept
<1>1. Idle \in Invocation /\ InvOK(Idle, Known', Answered', taken', landed')
  BY IdleOK
<1>. QED BY <1>1, OneInvocation

LEMMA InvsStep == IInv /\ [Next]_vars => InvsKept
<1> SUFFICES ASSUME IInv, [Next]_vars PROVE InvsKept
  OBVIOUS
<1>g. Grown
  BY Growing
<1>t. run \in [Run -> Invocation] /\ delivery \in [Event -> Delivery \union {None}]
  BY DEF IInv, TypeOK
<1>k. Known' \in SUBSET Event /\ Answered' \in SUBSET Event
  BY <1>g DEF Grown
<1>m. RunMoves
  BY Frame DEF Moves

<1>1. CASE UNCHANGED run
  <2>1. \A r \in Run : run'[r] = run[r]
    BY <1>1
  <2>. QED BY <1>1, <1>t, <1>g, <2>1, Before DEF InvsKept, Invocations
<1>2. ASSUME NEW r \in Run, NEW d \in Event, IngestRoute(r, d)
      PROVE  InvsKept
  <2> DEFINE s == [Idle EXCEPT !.src = "call", !.phase = "routed", !.d = d]
  <2>1. s \in Invocation /\ InvOK(s, Known', Answered', taken', landed')
    BY <1>k, Before, <1>g, RoutedOK
  <2>2. run' = [run EXCEPT ![r] = s]
    BY <1>2, <1>t DEF IngestRoute
  <2> HIDE DEF s
  <2>. QED BY <1>g, <2>1, <2>2, OneInvocation
<1>3. ASSUME NEW r \in Run, IngestEvent(r)
      PROVE  InvsKept
  <2>1. run[r].d \in Known'
    <3>1. run[r].d \in Event
      BY <1>3, Holdings DEF InvOK, IngestEvent
    <3>2. delivery' = [delivery EXCEPT ![run[r].d] = Fresh]
      BY <1>3 DEF IngestEvent
    <3>. QED BY <3>1, <3>2, <1>t, FreshOK, Unset DEF Known
  <2>2. Fresh \in Delivery /\ ~Fresh.held
    BY FreshOK
  <2> DEFINE s == [run[r] EXCEPT !.phase = "queueing", !.d = run[r].d, !.del = Fresh]
  <2>3. s \in Invocation /\ InvOK(s, Known', Answered', taken', landed')
    BY <1>k, <2>1, <2>2, Before, <1>g, AskingOK
  <2>4. run' = [run EXCEPT ![r] = s]
    BY <1>3, <1>t DEF IngestEvent, Asking
  <2> HIDE DEF s
  <2>. QED BY <1>g, <2>3, <2>4, OneInvocation
<1>4. ASSUME NEW r \in Run, IngestRefused(r)
      PROVE  InvsKept
  BY <1>4, <1>g, EndOK DEF IngestRefused
<1>5. ASSUME NEW r \in Run, HubQueues(r)
      PROVE  InvsKept
  <2>1. PICK b \in BOOLEAN : run' = [run EXCEPT ![r] = [run[r] EXCEPT !.phase = "queued", !.ok = b]]
    BY <1>5 DEF HubQueues
  <2>2. run[r].phase = "queueing"
    BY <1>5 DEF HubQueues
  <2> DEFINE s == [run[r] EXCEPT !.phase = "queued", !.ok = b]
  <2>3. s \in Invocation /\ InvOK(s, Known', Answered', taken', landed')
    BY <1>k, <2>2, Before, <1>g, QueuedOK
  <2> HIDE DEF s
  <2>. QED BY <1>g, <2>1, <2>3, OneInvocation DEF s
<1>6. ASSUME NEW r \in Run, HubRefuses(r)
      PROVE  InvsKept
  <2>1. PICK b \in BOOLEAN : run' = [run EXCEPT ![r] = [run[r] EXCEPT !.phase = "queued", !.ok = b]]
    BY <1>6 DEF HubRefuses
  <2>2. run[r].phase = "queueing"
    BY <1>6 DEF HubRefuses
  <2> DEFINE s == [run[r] EXCEPT !.phase = "queued", !.ok = b]
  <2>3. s \in Invocation /\ InvOK(s, Known', Answered', taken', landed')
    BY <1>k, <2>2, Before, <1>g, QueuedOK
  <2> HIDE DEF s
  <2>. QED BY <1>g, <2>1, <2>3, OneInvocation DEF s
<1>7. ASSUME NEW r \in Run, DispatchEnds(r)
      PROVE  InvsKept
  BY <1>7, <1>g, BackOK DEF DispatchEnds
<1>8. ASSUME NEW r \in Run, NEW d \in Event, NEW what \in {"read", "reply", "handled"}, Call(r, d, what)
      PROVE  InvsKept
  <2>1. d \in Known' /\ delivery[d] # None
    BY <1>8, <1>g DEF Call, Grown, Known
  <2>2. Copy(d) \in Delivery /\ Copy(d).held = delivery[d].held
    BY <1>t, <2>1, CopyOK
  <2>3. Copy(d).held /\ d \notin ToRoom => d \in taken'
    BY <1>g, <2>1, <2>2 DEF Grown, IInv, HeldTaken
  <2> DEFINE s == [Idle EXCEPT !.src = "call", !.phase = "checking", !.what = what, !.d = d, !.del = Copy(d)]
  <2>4. s \in Invocation /\ InvOK(s, Known', Answered', taken', landed')
    BY <1>k, <2>1, <2>2, <2>3, Before, <1>g, CallOK
  <2>5. run' = [run EXCEPT ![r] = s]
    BY <1>8, <1>t DEF Call
  <2> HIDE DEF s
  <2>. QED BY <1>g, <2>4, <2>5, OneInvocation
<1>9. ASSUME NEW r \in Run, CallRefused(r)
      PROVE  InvsKept
  BY <1>9, <1>g, EndOK DEF CallRefused
<1>10. ASSUME NEW r \in Run, ReadMessage(r)
      PROVE  InvsKept
  BY <1>10, <1>g, EndOK DEF ReadMessage
<1>11. ASSUME NEW r \in Run, MarkHandled(r)
      PROVE  InvsKept
  <2>1. CASE run' = [run EXCEPT ![r] = Idle]
    BY <2>1, <1>g, EndOK
  <2>2. CASE run' # [run EXCEPT ![r] = Idle]
    <3> DEFINE s == [run[r] EXCEPT !.phase = "cancelling", !.what = "none", !.del = None,
                                   !.ok = run[r].ok]
    <3>1. run[r].d # None
      BY <1>11, Holdings, Unset DEF InvOK, MarkHandled, MayGoOn, Known
    <3>2. s \in Invocation /\ InvOK(s, Known', Answered', taken', landed')
      BY <1>k, <3>1, Before, InvFields, <1>g, CancellingOK
    <3>3. run' = [run EXCEPT ![r] = [run[r] EXCEPT !.phase = "cancelling", !.what = "none", !.del = None]]
      BY <1>11, <2>2 DEF MarkHandled
    <3>4. [run[r] EXCEPT !.phase = "cancelling", !.what = "none", !.del = None] = s
      BY Before, <1>g DEF Invocation
    <3> HIDE DEF s
    <3>. QED BY <1>g, <3>2, <3>3, <3>4, OneInvocation
  <2>. QED BY <2>1, <2>2
<1>12. ASSUME NEW r \in Run, NEW d \in Event, OperatorMarkHandled(r, d)
      PROVE  InvsKept
  <2> DEFINE s == [Idle EXCEPT !.src = "call", !.phase = "cancelling", !.d = d]
  <2>1. s \in Invocation /\ InvOK(s, Known', Answered', taken', landed')
    BY <1>k, Before, <1>g, OperatorOK
  <2>2. run' = [run EXCEPT ![r] = s]
    BY <1>12, <1>t DEF OperatorMarkHandled
  <2> HIDE DEF s
  <2>. QED BY <1>g, <2>1, <2>2, OneInvocation
<1>13. ASSUME NEW r \in Run, ChatReply(r)
      PROVE  InvsKept
  <2>1. run[r].phase = "checking"
    BY <1>13 DEF ChatReply, MayGoOn
  <2>2. run[r].d \in Answered'
    <3>1. run[r].d \in Event
      BY <2>1, Holdings DEF InvOK, Known
    <3>2. reply' = [reply EXCEPT ![run[r].d] = [posted |-> FALSE, due |-> 0]]
      BY <1>13 DEF ChatReply
    <3>3. reply \in [Event -> Reply \union {None}]
      BY DEF IInv, TypeOK
    <3>. QED BY <3>1, <3>2, <3>3, ReplyForms, Unset DEF Answered
  <2> DEFINE s == [run[r] EXCEPT !.phase = "posting", !.what = "none"]
  <2>3. s \in Invocation /\ InvOK(s, Known', Answered', taken', landed')
    BY <1>k, <2>1, <2>2, Before, <1>g, PostingOK
  <2>4. run' = [run EXCEPT ![r] = s]
    BY <1>13, <1>t DEF ChatReply
  <2> HIDE DEF s
  <2>. QED BY <1>g, <2>3, <2>4, OneInvocation
<1>14. ASSUME NEW r \in Run, PostLands(r)
      PROVE  InvsKept
  <2> DEFINE y == [run[r] EXCEPT !.phase = "posted", !.ok = TRUE]
             n == [run[r] EXCEPT !.phase = "posted", !.ok = FALSE]
  <2>1. \/ run' = [run EXCEPT ![r] = y] /\ run[r].d \in landed'
        \/ run' = [run EXCEPT ![r] = n]
    BY <1>14 DEF PostLands
  <2>2. run[r].phase = "posting"
    BY <1>14 DEF PostLands
  <2>3. n \in Invocation /\ InvOK(n, Known', Answered', taken', landed')
    BY <1>k, <2>2, Before, <1>g, PostedOK
  <2>4. run[r].d \in landed' => y \in Invocation /\ InvOK(y, Known', Answered', taken', landed')
    BY <1>k, <2>2, Before, <1>g, PostedOK
  <2> HIDE DEF y, n
  <2>. QED BY <1>g, <2>1, <2>3, <2>4, OneInvocation
<1>15. ASSUME NEW r \in Run, PostFails(r)
      PROVE  InvsKept
  <2>1. run[r].phase = "posting"
    BY <1>15 DEF PostFails
  <2> DEFINE s == [run[r] EXCEPT !.phase = "posted", !.ok = FALSE]
  <2>2. s \in Invocation /\ InvOK(s, Known', Answered', taken', landed')
    BY <1>k, <2>1, Before, <1>g, PostedOK
  <2>3. run' = [run EXCEPT ![r] = s]
    BY <1>15, <1>t DEF PostFails
  <2> HIDE DEF s
  <2>. QED BY <1>g, <2>2, <2>3, OneInvocation
<1>16. ASSUME NEW r \in Run, PostSettles(r)
      PROVE  InvsKept
  <2> DEFINE s == [run[r] EXCEPT !.phase = "cancelling", !.what = run[r].what, !.del = None,
                                 !.ok = FALSE]
  <2>1. run[r].d # None /\ run[r].what \in {"none", "read", "handled", "reply"}
    BY <1>16, Holdings, Unset DEF InvOK, PostSettles, Known, Invocation
  <2>2. s \in Invocation /\ InvOK(s, Known', Answered', taken', landed')
    BY <1>k, <2>1, Before, <1>g, CancellingOK
  <2>3. run' = [run EXCEPT ![r] = [run[r] EXCEPT !.phase = "cancelling", !.del = None, !.ok = FALSE]]
    BY <1>16 DEF PostSettles
  <2>4. [run[r] EXCEPT !.phase = "cancelling", !.del = None, !.ok = FALSE] = s
    BY Before, <1>g DEF Invocation
  <2> HIDE DEF s
  <2>. QED BY <1>g, <2>2, <2>3, <2>4, OneInvocation
<1>17. ASSUME NEW r \in Run, PostPending(r)
      PROVE  InvsKept
  BY <1>17, <1>g, BackOK DEF PostPending
<1>18. ASSUME NEW r \in Run, CancelHostQueue(r)
      PROVE  InvsKept
  BY <1>18, <1>g, BackOK DEF CancelHostQueue
<1>19. ASSUME NEW r \in Run, AlarmFires(r)
      PROVE  InvsKept
  <2>1. CASE UNCHANGED run
    BY <1>1, <2>1
  <2>2. CASE ~UNCHANGED run
    <3> DEFINE s == [Looping("retrying") EXCEPT !.replies = OverdueReplies]
    <3>1. OverdueReplies \in SUBSET Answered'
      BY <1>g DEF OverdueReplies, Answered, Grown
    <3>2. s \in Invocation /\ InvOK(s, Known', Answered', taken', landed')
      BY <1>k, <3>1, RetryingOK
    <3>3. run' = [run EXCEPT ![r] = s]
      BY <1>19, <2>2 DEF AlarmFires
    <3> HIDE DEF s
    <3>. QED BY <1>g, <3>2, <3>3, OneInvocation
  <2>. QED BY <2>1, <2>2
<1>20. ASSUME NEW r \in Run, NEW d \in Event, RetryReply(r, d)
      PROVE  InvsKept
  <2>1. d \in run[r].replies
    BY <1>20 DEF RetryReply
  <2>2. d \in Known' /\ delivery[d] # None
    BY <1>g, <2>1, Holdings DEF InvOK, Answered, IInv, ReplyTimed, Known, Grown
  <2>3. Copy(d) \in Delivery /\ Copy(d).held = delivery[d].held
    BY <1>t, <2>2, CopyOK
  <2>4. Copy(d).held /\ d \notin ToRoom => d \in taken'
    BY <1>g, <2>2, <2>3 DEF Grown, IInv, HeldTaken
  <2> DEFINE s == [run[r] EXCEPT !.phase = "posting", !.d = d, !.del = Copy(d), !.replies = run[r].replies \ {d}]
  <2>5. s \in Invocation /\ InvOK(s, Known', Answered', taken', landed')
    BY <1>k, <2>1, <2>2, <2>3, <2>4, Before, <1>g, RetryOK
  <2>6. run' = [run EXCEPT ![r] = s]
    BY <1>20, <1>t DEF RetryReply
  <2> HIDE DEF s
  <2>. QED BY <1>g, <2>5, <2>6, OneInvocation
<1>21. ASSUME NEW r \in Run, ListsDue(r)
      PROVE  InvsKept
  <2>1. run[r].phase = "looping" /\ run[r].replies = {}
    BY <1>21 DEF ListsDue
  <2>2. OverdueDeliveries \in SUBSET Known'
    BY <1>g DEF OverdueDeliveries, Known, Grown
  <2> DEFINE s == [run[r] EXCEPT !.src = "waking", !.dues = OverdueDeliveries]
  <2>3. s \in Invocation /\ InvOK(s, Known', Answered', taken', landed')
    BY <1>k, <2>1, <2>2, Before, <1>g, WakingOK
  <2>4. run' = [run EXCEPT ![r] = s]
    BY <1>21, <1>t DEF ListsDue
  <2> HIDE DEF s
  <2>. QED BY <1>g, <2>3, <2>4, OneInvocation
<1>22. ASSUME NEW r \in Run, NEW d \in Event, DispatchDue(r, d)
      PROVE  InvsKept
  <2> DEFINE i == [run[r] EXCEPT !.dues = run[r].dues \ {d}]
             s == [i EXCEPT !.phase = "queueing", !.d = d, !.del = Copy(d)]
  <2>1. d \in run[r].dues /\ (run' = [run EXCEPT ![r] = i] \/ run' = [run EXCEPT ![r] = s])
    BY <1>22 DEF DispatchDue, Asking
  <2>2. i \in Invocation /\ InvOK(i, Known', Answered', taken', landed')
    BY <1>k, Before, <1>g, DuesOK
  <2> HIDE DEF i
  <2>3. d \in Known' /\ delivery[d] # None
    BY <1>g, <2>1, Holdings DEF InvOK, Known, Grown
  <2>4. Copy(d) \in Delivery /\ Copy(d).held = delivery[d].held
    BY <1>t, <2>3, CopyOK
  <2>5. Copy(d).held /\ d \notin ToRoom => d \in taken'
    BY <1>g, <2>3, <2>4 DEF Grown, IInv, HeldTaken
  <2>6. s \in Invocation /\ InvOK(s, Known', Answered', taken', landed')
    BY <1>k, <2>2, <2>3, <2>4, <2>5, AskingOK
  <2> HIDE DEF s
  <2>. QED BY <1>g, <2>1, <2>2, <2>6, OneInvocation
<1>23. ASSUME NEW r \in Run, NEW d \in Event, SettleNext(r, d)
      PROVE  InvsKept
  <2>1. run[r].phase = "looping"
    BY <1>23 DEF SettleNext
  <2> DEFINE s == [run[r] EXCEPT !.phase = "cancelling", !.d = d, !.dels = [run[r].dels EXCEPT ![d] = None]]
  <2>2. s \in Invocation /\ InvOK(s, Known', Answered', taken', landed')
    BY <1>k, <2>1, Before, <1>g, SettleOK
  <2>3. run' = [run EXCEPT ![r] = s]
    BY <1>23, <1>t DEF SettleNext
  <2> HIDE DEF s
  <2>. QED BY <1>g, <2>2, <2>3, OneInvocation
<1>24. ASSUME NEW r \in Run, LoopEnds(r)
      PROVE  InvsKept
  BY <1>24, <1>g, EndOK DEF LoopEnds
<1>25. ASSUME NEW r \in Run, SettleConversation(r)
      PROVE  InvsKept
  <2> DEFINE f == [d \in Event |-> IF d \in Conversation /\ delivery[d] # None /\ ~delivery[d].settled
                                  THEN Copy(d) ELSE None]
             s == [Looping("settling") EXCEPT !.dels = f]
  <2>1. \A d \in Event : delivery[d] # None => Copy(d) \in Delivery /\ Copy(d).held = delivery[d].held
    BY <1>t, CopyOK
  <2>2. f \in [Event -> Delivery \union {None}]
    BY <2>1
  <2>3. \A d \in Event : f[d] # None /\ f[d].held /\ d \notin ToRoom => d \in taken'
    BY <1>g, <2>1 DEF Grown, IInv, HeldTaken
  <2>4. run' = [run EXCEPT ![r] = s]
    BY <1>25 DEF SettleConversation
  <2> HIDE DEF f
  <2>5. s \in Invocation /\ InvOK(s, Known', Answered', taken', landed')
    BY <1>k, <2>2, <2>3, SettlingOK
  <2> HIDE DEF s
  <2>. QED BY <1>g, <2>4, <2>5, OneInvocation
<1>26. ASSUME NEW r \in Run, Resume(r)
      PROVE  InvsKept
  <2>1. OverdueDeliveries \in SUBSET Known'
    BY <1>g DEF OverdueDeliveries, Known, Grown
  <2> DEFINE s == [Looping("resuming") EXCEPT !.dues = OverdueDeliveries]
  <2>2. s \in Invocation /\ InvOK(s, Known', Answered', taken', landed')
    BY <1>k, <2>1, Before, <1>g, ResumingOK
  <2>3. run' = [run EXCEPT ![r] = s]
    BY <1>26, <1>t DEF Resume
  <2> HIDE DEF s
  <2>. QED BY <1>g, <2>2, <2>3, OneInvocation
<1>27. CASE Restart
  <2>1. run' = [r \in Run |-> Idle]
    BY <1>27 DEF Restart
  <2>2. \A r \in Run : run'[r] = Idle
    BY <2>1
  <2>. QED BY <2>1, <2>2, IdleOK DEF InvsKept, Invocations
<1>. QED BY <1>m, <1>1, <1>2, <1>3, <1>4, <1>5, <1>6, <1>7, <1>8, <1>9, <1>10, <1>11,
    <1>12, <1>13, <1>14, <1>15, <1>16, <1>17, <1>18, <1>19, <1>20, <1>21, <1>22, <1>23,
    <1>24, <1>25, <1>26, <1>27 DEF RunMoves

-----------------------------------------------------------------------------
(* Nothing is forgotten *)

(* Where an invocation that stands for a delivery or a reply goes.            *)
Traced(q) ==
  /\ run[q].src = "call" /\ run[q].phase \in {"queueing", "queued"} /\ ~lapsed' =>
       DispatchEnds(q) \/ Calling(run'[q], run[q].d, {"queueing", "queued"})
  /\ run[q].src = "call" /\ run[q].phase \in {"posting", "posted"} /\ ~lapsed' =>
       PostSettles(q) \/ PostPending(q) \/ Calling(run'[q], run[q].d, {"posting", "posted"})
  /\ run[q].src \in {"retrying", "waking"} =>
       run'[q].src \in {"retrying", "waking"} \/ LoopEnds(q) \/ alarm' # NoAlarm

LEMMA TraceStep == IInv /\ [Next]_vars => \A q \in Run : Traced(q)
<1> SUFFICES ASSUME IInv, [Next]_vars, NEW q \in Run PROVE Traced(q)
  OBVIOUS
<1>t. run \in [Run -> Invocation]
  BY DEF IInv, TypeOK
<1>i. run[q] \in Invocation /\ InvOK(run[q], Known, Answered, taken, landed)
  BY Holdings
<1>m. RunMoves
  BY Frame DEF Moves
<1>1. CASE UNCHANGED run
  BY <1>1 DEF Traced, Calling
<1>2. ASSUME NEW r \in Run, NEW d \in Event, IngestRoute(r, d)
      PROVE  Traced(q)
  <2>1. CASE q # r
    <3>1. run'[q] = run[q]
      BY <1>2, <1>t, <2>1 DEF IngestRoute
    <3>. QED BY <3>1 DEF Traced, Calling
  <2>2. CASE q = r
    <3>1. run[q].src = "idle"
      BY <1>2, <2>2 DEF IngestRoute, Idle
    <3>. QED BY <3>1 DEF Traced
  <2>. QED BY <2>1, <2>2
<1>3. ASSUME NEW r \in Run, IngestEvent(r)
      PROVE  Traced(q)
  <2>1. CASE q # r
    <3>1. run'[q] = run[q]
      BY <1>3, <1>t, <2>1 DEF IngestEvent
    <3>. QED BY <3>1 DEF Traced, Calling
  <2>2. CASE q = r
    <3>1. run[q].src = "call" /\ run[q].phase \in {"routed", "checking"}
      BY <1>3, <1>i, <2>2 DEF InvOK, IngestEvent
    <3>. QED BY <3>1 DEF Traced
  <2>. QED BY <2>1, <2>2
<1>4. ASSUME NEW r \in Run, IngestRefused(r)
      PROVE  Traced(q)
  <2>1. CASE q # r
    <3>1. run'[q] = run[q]
      BY <1>4, <1>t, <2>1 DEF IngestRefused
    <3>. QED BY <3>1 DEF Traced, Calling
  <2>2. CASE q = r
    <3>1. run[q].src = "call" /\ run[q].phase \in {"routed", "checking"}
      BY <1>4, <1>i, <2>2 DEF InvOK, IngestRefused
    <3>. QED BY <3>1 DEF Traced
  <2>. QED BY <2>1, <2>2
<1>5. ASSUME NEW r \in Run, HubQueues(r)
      PROVE  Traced(q)
  <2>1. CASE q # r
    <3>1. run'[q] = run[q]
      BY <1>5, <1>t, <2>1 DEF HubQueues
    <3>. QED BY <3>1 DEF Traced, Calling
  <2>2. CASE q = r
    <3>1. run[q].phase = "queueing" /\ run'[q].phase = "queued"
      BY <1>5, <1>t, <1>i, <2>2 DEF HubQueues, Invocation
    <3>2. run'[q].src = run[q].src /\ run'[q].d = run[q].d
      BY <1>5, <1>t, <1>i, <2>2 DEF HubQueues, Invocation
    <3>. QED BY <3>1, <3>2 DEF Traced, Calling
  <2>. QED BY <2>1, <2>2
<1>6. ASSUME NEW r \in Run, HubRefuses(r)
      PROVE  Traced(q)
  <2>1. CASE q # r
    <3>1. run'[q] = run[q]
      BY <1>6, <1>t, <2>1 DEF HubRefuses
    <3>. QED BY <3>1 DEF Traced, Calling
  <2>2. CASE q = r
    <3>1. run[q].phase = "queueing" /\ run'[q].phase = "queued"
      BY <1>6, <1>t, <1>i, <2>2 DEF HubRefuses, Invocation
    <3>2. run'[q].src = run[q].src /\ run'[q].d = run[q].d
      BY <1>6, <1>t, <1>i, <2>2 DEF HubRefuses, Invocation
    <3>. QED BY <3>1, <3>2 DEF Traced, Calling
  <2>. QED BY <2>1, <2>2
<1>7. ASSUME NEW r \in Run, DispatchEnds(r)
      PROVE  Traced(q)
  <2>1. CASE q # r
    <3>1. run'[q] = run[q]
      BY <1>7, <1>t, <2>1 DEF DispatchEnds
    <3>. QED BY <3>1 DEF Traced, Calling
  <2>2. CASE q = r
    <3>1. run'[q] = Back(q) /\ run[q].phase = "queued"
      BY <1>7, <1>t, <2>2 DEF DispatchEnds
    <3>2. run[q].src # "call" => run'[q].src = run[q].src
      BY <3>1, <1>i DEF Back, Invocation
    <3>. QED BY <1>7, <2>2, <3>1, <3>2 DEF Traced
  <2>. QED BY <2>1, <2>2
<1>8. ASSUME NEW r \in Run, NEW d \in Event, NEW what \in {"read", "reply", "handled"}, Call(r, d, what)
      PROVE  Traced(q)
  <2>1. CASE q # r
    <3>1. run'[q] = run[q]
      BY <1>8, <1>t, <2>1 DEF Call
    <3>. QED BY <3>1 DEF Traced, Calling
  <2>2. CASE q = r
    <3>1. run[q].src = "idle"
      BY <1>8, <2>2 DEF Call, Idle
    <3>. QED BY <3>1 DEF Traced
  <2>. QED BY <2>1, <2>2
<1>9. ASSUME NEW r \in Run, CallRefused(r)
      PROVE  Traced(q)
  <2>1. CASE q # r
    <3>1. run'[q] = run[q]
      BY <1>9, <1>t, <2>1 DEF CallRefused
    <3>. QED BY <3>1 DEF Traced, Calling
  <2>2. CASE q = r
    <3>1. run[q].src = "call" /\ run[q].phase \in {"routed", "checking"}
      BY <1>9, <1>i, <2>2 DEF InvOK, CallRefused
    <3>. QED BY <3>1 DEF Traced
  <2>. QED BY <2>1, <2>2
<1>10. ASSUME NEW r \in Run, ReadMessage(r)
      PROVE  Traced(q)
  <2>1. CASE q # r
    <3>1. run'[q] = run[q]
      BY <1>10, <1>t, <2>1 DEF ReadMessage
    <3>. QED BY <3>1 DEF Traced, Calling
  <2>2. CASE q = r
    <3>1. run[q].src = "call" /\ run[q].phase \in {"routed", "checking"}
      BY <1>10, <1>i, <2>2 DEF InvOK, ReadMessage, MayGoOn
    <3>. QED BY <3>1 DEF Traced
  <2>. QED BY <2>1, <2>2
<1>11. ASSUME NEW r \in Run, MarkHandled(r)
      PROVE  Traced(q)
  <2>1. CASE q # r
    <3>1. run'[q] = run[q]
      BY <1>11, <1>t, <2>1 DEF MarkHandled
    <3>. QED BY <3>1 DEF Traced, Calling
  <2>2. CASE q = r
    <3>1. run[q].src = "call" /\ run[q].phase \in {"routed", "checking"}
      BY <1>11, <1>i, <2>2 DEF InvOK, MarkHandled, MayGoOn
    <3>. QED BY <3>1 DEF Traced
  <2>. QED BY <2>1, <2>2
<1>12. ASSUME NEW r \in Run, NEW d \in Event, OperatorMarkHandled(r, d)
      PROVE  Traced(q)
  <2>1. CASE q # r
    <3>1. run'[q] = run[q]
      BY <1>12, <1>t, <2>1 DEF OperatorMarkHandled
    <3>. QED BY <3>1 DEF Traced, Calling
  <2>2. CASE q = r
    <3>1. run[q].src = "idle"
      BY <1>12, <2>2 DEF OperatorMarkHandled, Idle
    <3>. QED BY <3>1 DEF Traced
  <2>. QED BY <2>1, <2>2
<1>13. ASSUME NEW r \in Run, ChatReply(r)
      PROVE  Traced(q)
  <2>1. CASE q # r
    <3>1. run'[q] = run[q]
      BY <1>13, <1>t, <2>1 DEF ChatReply
    <3>. QED BY <3>1 DEF Traced, Calling
  <2>2. CASE q = r
    <3>1. run[q].src = "call" /\ run[q].phase \in {"routed", "checking"}
      BY <1>13, <1>i, <2>2 DEF InvOK, ChatReply, MayGoOn
    <3>. QED BY <3>1 DEF Traced
  <2>. QED BY <2>1, <2>2
<1>14. ASSUME NEW r \in Run, PostLands(r)
      PROVE  Traced(q)
  <2>1. CASE q # r
    <3>1. run'[q] = run[q]
      BY <1>14, <1>t, <2>1 DEF PostLands
    <3>. QED BY <3>1 DEF Traced, Calling
  <2>2. CASE q = r
    <3>1. run[q].phase = "posting" /\ run'[q].phase = "posted"
      BY <1>14, <1>t, <1>i, <2>2 DEF PostLands, Invocation
    <3>2. run'[q].src = run[q].src /\ run'[q].d = run[q].d
      BY <1>14, <1>t, <1>i, <2>2 DEF PostLands, Invocation
    <3>. QED BY <3>1, <3>2 DEF Traced, Calling
  <2>. QED BY <2>1, <2>2
<1>15. ASSUME NEW r \in Run, PostFails(r)
      PROVE  Traced(q)
  <2>1. CASE q # r
    <3>1. run'[q] = run[q]
      BY <1>15, <1>t, <2>1 DEF PostFails
    <3>. QED BY <3>1 DEF Traced, Calling
  <2>2. CASE q = r
    <3>1. run[q].phase = "posting" /\ run'[q].phase = "posted"
      BY <1>15, <1>t, <1>i, <2>2 DEF PostFails, Invocation
    <3>2. run'[q].src = run[q].src /\ run'[q].d = run[q].d
      BY <1>15, <1>t, <1>i, <2>2 DEF PostFails, Invocation
    <3>. QED BY <3>1, <3>2 DEF Traced, Calling
  <2>. QED BY <2>1, <2>2
<1>16. ASSUME NEW r \in Run, PostSettles(r)
      PROVE  Traced(q)
  <2>1. CASE q # r
    <3>1. run'[q] = run[q]
      BY <1>16, <1>t, <2>1 DEF PostSettles
    <3>. QED BY <3>1 DEF Traced, Calling
  <2>2. CASE q = r
    <3>1. run[q].phase = "posted"
      BY <1>16, <2>2 DEF PostSettles
    <3>2. run'[q].src = run[q].src
      BY <1>16, <1>t, <1>i, <2>2 DEF PostSettles, Invocation
    <3>. QED BY <1>16, <2>2, <3>1, <3>2 DEF Traced
  <2>. QED BY <2>1, <2>2
<1>17. ASSUME NEW r \in Run, PostPending(r)
      PROVE  Traced(q)
  <2>1. CASE q # r
    <3>1. run'[q] = run[q]
      BY <1>17, <1>t, <2>1 DEF PostPending
    <3>. QED BY <3>1 DEF Traced, Calling
  <2>2. CASE q = r
    <3>1. run'[q] = Back(q) /\ run[q].phase = "posted"
      BY <1>17, <1>t, <2>2 DEF PostPending
    <3>2. run[q].src # "call" => run'[q].src = run[q].src
      BY <3>1, <1>i DEF Back, Invocation
    <3>. QED BY <1>17, <2>2, <3>1, <3>2 DEF Traced
  <2>. QED BY <2>1, <2>2
<1>18. ASSUME NEW r \in Run, CancelHostQueue(r)
      PROVE  Traced(q)
  <2>1. CASE q # r
    <3>1. run'[q] = run[q]
      BY <1>18, <1>t, <2>1 DEF CancelHostQueue
    <3>. QED BY <3>1 DEF Traced, Calling
  <2>2. CASE q = r
    <3>1. run'[q] = Back(q) /\ run[q].phase = "cancelling"
      BY <1>18, <1>t, <2>2 DEF CancelHostQueue
    <3>2. run[q].src # "call" => run'[q].src = run[q].src
      BY <3>1, <1>i DEF Back, Invocation
    <3>. QED BY <1>18, <2>2, <3>1, <3>2 DEF Traced
  <2>. QED BY <2>1, <2>2
<1>19. ASSUME NEW r \in Run, AlarmFires(r)
      PROVE  Traced(q)
  <2>1. CASE q # r
    <3>1. run'[q] = run[q]
      BY <1>19, <1>t, <2>1 DEF AlarmFires
    <3>. QED BY <3>1 DEF Traced, Calling
  <2>2. CASE q = r
    <3>1. run[q].src = "idle"
      BY <1>19, <2>2 DEF AlarmFires, Idle
    <3>. QED BY <3>1 DEF Traced
  <2>. QED BY <2>1, <2>2
<1>20. ASSUME NEW r \in Run, NEW d \in Event, RetryReply(r, d)
      PROVE  Traced(q)
  <2>1. CASE q # r
    <3>1. run'[q] = run[q]
      BY <1>20, <1>t, <2>1 DEF RetryReply
    <3>. QED BY <3>1 DEF Traced, Calling
  <2>2. CASE q = r
    <3>1. run[q].phase = "looping"
      BY <1>20, <2>2 DEF RetryReply
    <3>2. run'[q].src = run[q].src
      BY <1>20, <1>t, <1>i, <2>2 DEF RetryReply, Invocation
    <3>. QED BY <1>20, <2>2, <3>1, <3>2 DEF Traced
  <2>. QED BY <2>1, <2>2
<1>21. ASSUME NEW r \in Run, ListsDue(r)
      PROVE  Traced(q)
  <2>1. CASE q # r
    <3>1. run'[q] = run[q]
      BY <1>21, <1>t, <2>1 DEF ListsDue
    <3>. QED BY <3>1 DEF Traced, Calling
  <2>2. CASE q = r
    <3>1. run[q].phase = "looping" /\ run'[q].src = "waking"
      BY <1>21, <1>t, <1>i, <2>2 DEF ListsDue, Invocation
    <3>. QED BY <3>1 DEF Traced
  <2>. QED BY <2>1, <2>2
<1>22. ASSUME NEW r \in Run, NEW d \in Event, DispatchDue(r, d)
      PROVE  Traced(q)
  <2>1. CASE q # r
    <3>1. run'[q] = run[q]
      BY <1>22, <1>t, <2>1 DEF DispatchDue
    <3>. QED BY <3>1 DEF Traced, Calling
  <2>2. CASE q = r
    <3>1. run[q].phase = "looping"
      BY <1>22, <2>2 DEF DispatchDue
    <3>2. run'[q].src = run[q].src
      BY <1>22, <1>t, <1>i, <2>2 DEF DispatchDue, Asking, Invocation
    <3>. QED BY <1>22, <2>2, <3>1, <3>2 DEF Traced
  <2>. QED BY <2>1, <2>2
<1>23. ASSUME NEW r \in Run, NEW d \in Event, SettleNext(r, d)
      PROVE  Traced(q)
  <2>1. CASE q # r
    <3>1. run'[q] = run[q]
      BY <1>23, <1>t, <2>1 DEF SettleNext
    <3>. QED BY <3>1 DEF Traced, Calling
  <2>2. CASE q = r
    <3>1. run[q].phase = "looping"
      BY <1>23, <2>2 DEF SettleNext
    <3>2. run'[q].src = run[q].src
      BY <1>23, <1>t, <1>i, <2>2 DEF SettleNext, Invocation
    <3>. QED BY <1>23, <2>2, <3>1, <3>2 DEF Traced
  <2>. QED BY <2>1, <2>2
<1>24. ASSUME NEW r \in Run, LoopEnds(r)
      PROVE  Traced(q)
  <2>1. CASE q # r
    <3>1. run'[q] = run[q]
      BY <1>24, <1>t, <2>1 DEF LoopEnds
    <3>. QED BY <3>1 DEF Traced, Calling
  <2>2. CASE q = r
    <3>1. run[q].phase = "looping"
      BY <1>24, <2>2 DEF LoopEnds
    <3>. QED BY <1>24, <2>2, <3>1 DEF Traced
  <2>. QED BY <2>1, <2>2
<1>25. ASSUME NEW r \in Run, SettleConversation(r)
      PROVE  Traced(q)
  <2>1. CASE q # r
    <3>1. run'[q] = run[q]
      BY <1>25, <1>t, <2>1 DEF SettleConversation
    <3>. QED BY <3>1 DEF Traced, Calling
  <2>2. CASE q = r
    <3>1. run[q].src = "idle"
      BY <1>25, <2>2 DEF SettleConversation, Idle
    <3>. QED BY <3>1 DEF Traced
  <2>. QED BY <2>1, <2>2
<1>26. ASSUME NEW r \in Run, Resume(r)
      PROVE  Traced(q)
  <2>1. CASE q # r
    <3>1. run'[q] = run[q]
      BY <1>26, <1>t, <2>1 DEF Resume
    <3>. QED BY <3>1 DEF Traced, Calling
  <2>2. CASE q = r
    <3>1. run[q].src = "idle"
      BY <1>26, <2>2 DEF Resume, Idle
    <3>. QED BY <3>1 DEF Traced
  <2>. QED BY <2>1, <2>2
<1>27. CASE Restart
  <2>1. run[q].src = "call" => lapsed'
    <3>1. run[q].src = "call" => \E r \in Run : run[r].src \notin {"idle", "retrying", "waking"}
      OBVIOUS
    <3>2. lapsed' = (lapsed \/ \E r \in Run : run[r].src \notin {"idle", "retrying", "waking"})
      BY <1>27 DEF Restart
    <3>. QED BY <3>1, <3>2, Zenon
  <2>2. run[q].src \in {"retrying", "waking"} => alarm' # NoAlarm
    <3> DEFINE P == \E r \in Run : run[r].src \in {"retrying", "waking"}
    <3>1. alarm' = IF alarm = NoAlarm /\ P THEN 0 ELSE alarm
      BY <1>27 DEF Restart
    <3>2. run[q].src \in {"retrying", "waking"} => P
      OBVIOUS
    <3> HIDE DEF P
    <3>. QED BY <3>1, <3>2 DEF NoAlarm
  <2>. QED BY <2>1, <2>2 DEF Traced
<1>. QED BY <1>m, <1>1, <1>2, <1>3, <1>4, <1>5, <1>6, <1>7, <1>8, <1>9, <1>10, <1>11,
    <1>12, <1>13, <1>14, <1>15, <1>16, <1>17, <1>18, <1>19, <1>20, <1>21, <1>22, <1>23,
    <1>24, <1>25, <1>26, <1>27 DEF RunMoves

(* A dispatch that ends leaves a time for the next and an alarm, unless the    *)
(* agent has the delivery.                                                     *)
LEMMA DispatchArms ==
  ASSUME IInv, Grown, NEW r \in Run, DispatchEnds(r), NEW d \in Event, d = run[r].d, Owed(d)'
  PROVE  delivery'[d].due # NoAlarm /\ alarm' # NoAlarm
<1> DEFINE x == Armed(d, Dispatched(r))
<1>1. /\ run[r].del \in Delivery
      /\ run[r].del.held /\ d \notin ToRoom => d \in taken
  BY Holdings DEF InvOK, DispatchEnds, Known
<1>2. Dispatched(r) \in Delivery /\ Dispatched(r).held = run[r].del.held
  BY <1>1, DispatchedOK
<1>3. x \in Delivery /\ ((run[r].del.held /\ d \notin ToRoom) \/ x.due # NoAlarm)
  BY <1>2, ArmedOK
<1>4. delivery' = [delivery EXCEPT ![d] = x] /\ ScheduleAt(x.due)
  BY DEF DispatchEnds
<1>5. d \notin taken
  BY DEF Owed, Grown
<1> HIDE DEF x
<1>6. x.due # NoAlarm /\ x.due \in Due
  BY <1>1, <1>3, <1>5, DeliveryFields
<1>7. alarm' # NoAlarm
  BY <1>4, <1>6, ScheduleAtOK DEF IInv, TypeOK
<1>8. delivery'[d] = x
  BY <1>1, <1>4 DEF IInv, TypeOK
<1>. QED BY <1>6, <1>7, <1>8

(* How a delivery that is owed came to be so. *)
OwedTraced(d) ==
  Owed(d)' => \/ Owed(d) /\ (delivery[d].due # NoAlarm => delivery'[d].due # NoAlarm)
              \/ delivery'[d].due # NoAlarm /\ alarm' # NoAlarm
              \/ \E r \in Run : Calling(run'[r], d, {"queueing", "queued"})

LEMMA Untouched ==
  ASSUME Grown, NEW d \in Event, delivery'[d] = delivery[d]
  PROVE  OwedTraced(d)
<1>1. reply'[d] = None => reply[d] = None
  BY DEF Grown, Answered
<1>2. d \notin taken' => d \notin taken
  BY DEF Grown
<1>. QED BY <1>1, <1>2 DEF OwedTraced, Owed

LEMMA SettledNow ==
  ASSUME NEW d \in Event, NEW x \in Delivery, delivery'[d] = Handled(x)
  PROVE  OwedTraced(d)
BY HandledOK DEF OwedTraced, Owed

LEMMA OwedStep == IInv /\ [Next]_vars => \A e \in Event : OwedTraced(e)
<1> SUFFICES ASSUME IInv, [Next]_vars, NEW e \in Event PROVE OwedTraced(e)
  OBVIOUS
<1>g. Grown
  BY Growing
<1>t. delivery \in [Event -> Delivery \union {None}] /\ run \in [Run -> Invocation]
  BY DEF IInv, TypeOK
<1>u. delivery'[e] = delivery[e] => OwedTraced(e)
  BY <1>g, Untouched
<1>m. DeliveryMoves
  BY Frame DEF Moves
<1>1. CASE UNCHANGED delivery
  BY <1>1, <1>u
<1>2. ASSUME NEW r \in Run, IngestEvent(r)
      PROVE  OwedTraced(e)
  <2>1. CASE e = run[r].d
    <3>1. run' = [run EXCEPT ![r] = Asking(run[r], run[r].d, Fresh)]
      BY <1>2 DEF IngestEvent
    <3>2. run[r].src = "call"
      BY <1>2, Holdings DEF InvOK, IngestEvent
    <3>3. run'[r].src = "call" /\ run'[r].phase = "queueing" /\ run'[r].d = e
      BY <1>t, <2>1, <3>1, <3>2 DEF Asking, Invocation
    <3>. QED BY <3>3 DEF OwedTraced, Calling
  <2>2. CASE e # run[r].d
    BY <1>2, <1>t, <1>u, <2>2 DEF IngestEvent
  <2>. QED BY <2>1, <2>2
<1>3. ASSUME NEW r \in Run, DispatchEnds(r)
      PROVE  OwedTraced(e)
  <2>1. CASE e = run[r].d
    BY <1>3, <1>g, <2>1, DispatchArms DEF OwedTraced
  <2>2. CASE e # run[r].d
    BY <1>3, <1>t, <1>u, <2>2 DEF DispatchEnds
  <2>. QED BY <2>1, <2>2
<1>4. ASSUME NEW r \in Run, ReadMessage(r)
      PROVE  OwedTraced(e)
  <2>1. CASE UNCHANGED delivery
    BY <1>1, <2>1
  <2>2. CASE ~UNCHANGED delivery /\ e = run[r].d
    <3> DEFINE y == [run[r].del EXCEPT !.read = TRUE]
               x == Armed(e, y)
    <3>1. /\ run[r].del \in Delivery
          /\ run[r].del.held /\ e \notin ToRoom => e \in taken
      BY <1>4, <2>2, Holdings DEF InvOK, ReadMessage, MayGoOn, Known
    <3>2. y \in Delivery /\ y.held = run[r].del.held
      BY <3>1 DEF Delivery
    <3>3. delivery' = [delivery EXCEPT ![e] = x] /\ ScheduleAt(x.due)
      BY <1>4, <2>2 DEF ReadMessage
    <3> HIDE DEF y
    <3>4. x \in Delivery /\ (x.due # NoAlarm \/ e \in taken)
      BY <3>1, <3>2, ArmedOK
    <3> HIDE DEF x
    <3>5. x.due \in Due
      BY <3>4, DeliveryFields
    <3>6. x.due # NoAlarm => alarm' # NoAlarm
      BY <3>3, <3>5, ScheduleAtOK DEF IInv, TypeOK
    <3>7. delivery'[e] = x
      BY <1>t, <3>3
    <3>. QED BY <1>g, <3>4, <3>6, <3>7 DEF OwedTraced, Owed, Grown
  <2>3. CASE ~UNCHANGED delivery /\ e # run[r].d
    BY <1>4, <1>t, <1>u, <2>3 DEF ReadMessage
  <2>. QED BY <2>1, <2>2, <2>3
<1>5. ASSUME NEW r \in Run, MarkHandled(r)
      PROVE  OwedTraced(e)
  <2>1. run[r].del \in Delivery
    BY <1>5, Holdings DEF InvOK, MarkHandled, MayGoOn
  <2>2. UNCHANGED delivery \/ delivery' = [delivery EXCEPT ![run[r].d] = Handled(run[r].del)]
    BY <1>5 DEF MarkHandled
  <2>3. delivery'[e] = delivery[e] \/ delivery'[e] = Handled(run[r].del)
    BY <1>t, <2>2
  <2>. QED BY <1>u, <2>1, <2>3, SettledNow
<1>6. ASSUME NEW r \in Run, NEW d \in Event, OperatorMarkHandled(r, d)
      PROVE  OwedTraced(e)
  <2>1. delivery[d] \in Delivery /\ delivery' = [delivery EXCEPT ![d] = Handled(delivery[d])]
    BY <1>6, <1>t DEF OperatorMarkHandled
  <2>2. delivery'[e] = delivery[e] \/ delivery'[e] = Handled(delivery[d])
    BY <1>t, <2>1
  <2>. QED BY <1>u, <2>1, <2>2, SettledNow
<1>7. ASSUME NEW r \in Run, ChatReply(r)
      PROVE  OwedTraced(e)
  <2>1. CASE e = run[r].d
    <3>1. reply' = [reply EXCEPT ![e] = [posted |-> FALSE, due |-> 0]]
      BY <1>7, <2>1 DEF ChatReply
    <3>2. reply'[e] # None
      BY <3>1, ReplyForms, Unset DEF IInv, TypeOK
    <3>. QED BY <3>2 DEF OwedTraced, Owed
  <2>2. CASE e # run[r].d
    BY <1>7, <1>t, <1>u, <2>2 DEF ChatReply
  <2>. QED BY <2>1, <2>2
<1>8. ASSUME NEW r \in Run, PostSettles(r)
      PROVE  OwedTraced(e)
  <2>1. run[r].del \in Delivery
    BY <1>8, Holdings DEF InvOK, PostSettles
  <2>2. delivery' = [delivery EXCEPT ![run[r].d] = Handled(run[r].del)]
    BY <1>8 DEF PostSettles
  <2>3. delivery'[e] = delivery[e] \/ delivery'[e] = Handled(run[r].del)
    BY <1>t, <2>2
  <2>. QED BY <1>u, <2>1, <2>3, SettledNow
<1>9. ASSUME NEW r \in Run, NEW d \in Event, SettleNext(r, d)
      PROVE  OwedTraced(e)
  <2>1. run[r].dels[d] \in Delivery
    BY <1>9, Holdings, InvFields DEF SettleNext
  <2>2. delivery' = [delivery EXCEPT ![d] = Handled(run[r].dels[d])]
    BY <1>9 DEF SettleNext
  <2>3. delivery'[e] = delivery[e] \/ delivery'[e] = Handled(run[r].dels[d])
    BY <1>t, <2>2
  <2>. QED BY <1>u, <2>1, <2>3, SettledNow
<1>10. ASSUME NEW d \in Event, NEW via \in Via, ReportInjection(d, via)
       PROVE  OwedTraced(e)
  <2>1. CASE UNCHANGED delivery
    BY <1>1, <2>1
  <2>2. CASE ~UNCHANGED delivery
    <3>1. delivery[d] \in Delivery
      BY <1>10, <1>t DEF ReportInjection, IInv, HubKnown, Known
    <3>2. /\ d \notin ToRoom /\ ~delivery[d].settled /\ (via = "adapter" => d \in taken)
          /\ taken' = taken /\ reply' = reply
      BY <1>10, <2>2 DEF ReportInjection, RecordInjection, IInv, ReportTaken
    <3> DEFINE y == [delivery[d] EXCEPT !.held = (via = "adapter")]
               x == [y EXCEPT !.due = IF SessionHeld(d, y) THEN NoAlarm ELSE y.due]
    <3>3. y \in Delivery /\ y.held = (via = "adapter") /\ y.due = delivery[d].due
      BY <3>1 DEF Delivery
    <3>4. delivery' = [delivery EXCEPT ![d] = x]
      BY <1>10, <2>2, <3>1 DEF ReportInjection, RecordInjection
    <3> HIDE DEF y
    <3>5. x.due = IF SessionHeld(d, y) THEN NoAlarm ELSE y.due
      BY <3>3 DEF Delivery
    <3> HIDE DEF x
    <3>6. CASE e = d
      <4>1. delivery'[e] = x
        BY <1>t, <3>4, <3>6
      <4>2. d \in taken \/ x.due = delivery[d].due
        BY <3>2, <3>3, <3>5 DEF SessionHeld
      <4>3. delivery[d] # None
        BY <3>1, Unset
      <4>. QED BY <3>2, <3>6, <4>1, <4>2, <4>3 DEF OwedTraced, Owed
    <3>7. CASE e # d
      BY <1>t, <1>u, <3>4, <3>7
    <3>. QED BY <3>6, <3>7
  <2>. QED BY <2>1, <2>2
<1>11. CASE Tick
  <2>1. CASE delivery[e] = None
    BY <1>11, <1>u, <2>1 DEF Tick
  <2>2. CASE delivery[e] # None
    <3>1. delivery'[e] = [delivery[e] EXCEPT !.due = Sooner(delivery[e].due)]
      BY <1>11, <2>2 DEF Tick
    <3>2. delivery[e] \in Delivery
      BY <1>t, <2>2
    <3>3. delivery'[e].settled = delivery[e].settled /\ delivery'[e].due = Sooner(delivery[e].due)
      BY <3>1, <3>2 DEF Delivery
    <3>4. delivery[e].due # NoAlarm => delivery'[e].due # NoAlarm
      BY <3>2, <3>3, DeliveryFields, DueTypes
    <3>5. reply'[e] = None => reply[e] = None
      BY <1>g DEF Grown, Answered
    <3>. QED BY <1>g, <2>2, <3>3, <3>4, <3>5 DEF OwedTraced, Owed, Grown
  <2>. QED BY <2>1, <2>2
<1>. QED BY <1>m, <1>1, <1>2, <1>3, <1>4, <1>5, <1>6, <1>7, <1>8, <1>9, <1>10, <1>11 DEF DeliveryMoves

(* A reply that failed to be posted leaves an alarm. *)
LEMMA PendingArms ==
  ASSUME IInv, NEW r \in Run, PostPending(r)
  PROVE  AlarmComes'
<1>t. run \in [Run -> Invocation]
  BY DEF IInv, TypeOK
<1>1. CASE run[r].src = "call"
  <2>1. ScheduleAt(ReplyRetry) /\ ReplyRetry \in Due /\ ReplyRetry # NoAlarm
    BY <1>1, DueTypes DEF PostPending, Due
  <2>2. alarm' # NoAlarm
    BY <2>1, ScheduleAtOK DEF IInv, TypeOK
  <2>. QED BY <2>2 DEF AlarmComes
<1>2. CASE run[r].src # "call"
  <2>1. run[r].src = "retrying"
    BY <1>2, Holdings DEF InvOK, PostPending
  <2>2. run'[r] = Back(r)
    BY <1>t DEF PostPending
  <2>3. run'[r].src = "retrying"
    BY <1>t, <2>1, <2>2 DEF Back, Invocation
  <2>. QED BY <2>3 DEF AlarmComes
<1>. QED BY <1>1, <1>2

PendingTraced(d) ==
  Pending(d)' => \/ Pending(d) \/ AlarmComes'
                 \/ \E r \in Run : Calling(run'[r], d, {"posting", "posted"})

LEMMA PendingStep == IInv /\ [Next]_vars => \A e \in Event : PendingTraced(e)
<1> SUFFICES ASSUME IInv, [Next]_vars, NEW e \in Event PROVE PendingTraced(e)
  OBVIOUS
<1>t. reply \in [Event -> Reply \union {None}] /\ run \in [Run -> Invocation]
  BY DEF IInv, TypeOK
<1>u. reply'[e] = reply[e] => PendingTraced(e)
  BY DEF PendingTraced, Pending
<1>m. ReplyMoves
  BY Frame DEF Moves
<1>1. CASE UNCHANGED reply
  BY <1>1, <1>u
<1>2. ASSUME NEW r \in Run, ChatReply(r)
      PROVE  PendingTraced(e)
  <2>1. CASE e = run[r].d
    <3>1. run[r].src = "call"
      BY <1>2, Holdings DEF InvOK, ChatReply, MayGoOn
    <3>2. run'[r].src = "call" /\ run'[r].phase = "posting" /\ run'[r].d = e
      BY <1>2, <1>t, <2>1, <3>1 DEF ChatReply, Invocation
    <3>. QED BY <3>2 DEF PendingTraced, Calling
  <2>2. CASE e # run[r].d
    BY <1>2, <1>t, <1>u, <2>2 DEF ChatReply
  <2>. QED BY <2>1, <2>2
<1>3. ASSUME NEW r \in Run, PostSettles(r)
      PROVE  PendingTraced(e)
  <2>1. CASE e = run[r].d
    <3>1. reply'[e].posted
      BY <1>3, <1>t, <2>1 DEF PostSettles
    <3>. QED BY <3>1 DEF PendingTraced, Pending
  <2>2. CASE e # run[r].d
    BY <1>3, <1>t, <1>u, <2>2 DEF PostSettles
  <2>. QED BY <2>1, <2>2
<1>4. ASSUME NEW r \in Run, PostPending(r)
      PROVE  PendingTraced(e)
  BY <1>4, PendingArms DEF PendingTraced
<1>5. CASE Tick
  <2>1. CASE reply[e] = None
    BY <1>5, <1>u, <2>1 DEF Tick
  <2>2. CASE reply[e] # None
    <3>1. reply'[e] = [reply[e] EXCEPT !.due = Sooner(reply[e].due)] /\ reply[e] \in Reply
      BY <1>5, <1>t, <2>2 DEF Tick
    <3>2. reply'[e].posted = reply[e].posted
      BY <3>1 DEF Reply
    <3>. QED BY <2>2, <3>2 DEF PendingTraced, Pending
  <2>. QED BY <2>1, <2>2
<1>. QED BY <1>m, <1>1, <1>2, <1>3, <1>4, <1>5 DEF ReplyMoves

(* While anything is owed at a time an alarm that would come still comes.     *)
LEMMA AlarmLasts ==
  ASSUME IInv, [Next]_vars, AlarmComes, ~lapsed', NEW d \in Event,
         (Owed(d) /\ delivery[d].due # NoAlarm) \/ Pending(d)
  PROVE  AlarmComes'
<1>t. run \in [Run -> Invocation]
  BY DEF IInv, TypeOK
<1>1. CASE alarm # NoAlarm
  <2>1. CASE alarm' # NoAlarm
    BY <2>1 DEF AlarmComes
  <2>2. ASSUME NEW r \in Run, AlarmFires(r)
        PROVE  AlarmComes'
    <3>1. run' = [run EXCEPT ![r] = [Looping("retrying") EXCEPT !.replies = OverdueReplies]]
      BY <2>2 DEF AlarmFires
    <3>2. run'[r].src = "retrying"
      BY <1>t, <3>1 DEF Looping, Idle
    <3>. QED BY <3>2 DEF AlarmComes
  <2>. QED BY <1>1, <2>1, <2>2, AlarmStep DEF AlarmKept
<1>2. ASSUME NEW r \in Run, run[r].src \in {"retrying", "waking"}
      PROVE  AlarmComes'
  <2>1. CASE run'[r].src \in {"retrying", "waking"} \/ alarm' # NoAlarm
    BY <2>1 DEF AlarmComes
  <2>2. CASE LoopEnds(r)
    <3>1. ScheduleAt(Earliest)
      BY <1>2, <2>2 DEF LoopEnds
    <3>2. Times \ {NoAlarm} # {}
      <4>1. CASE Owed(d) /\ delivery[d].due # NoAlarm
        <5>1. delivery[d].due \in Times
          BY <4>1 DEF Owed, Times
        <5>. QED BY <4>1, <5>1
      <4>2. CASE Pending(d)
        <5>1. reply[d].due \in Times
          BY <4>2 DEF Pending, Times
        <5>2. reply[d].due # NoAlarm
          BY <4>2 DEF Pending, IInv, ReplyTimed
        <5>. QED BY <5>1, <5>2
      <4>. QED BY <4>1, <4>2
    <3>3. alarm' # NoAlarm
      BY <3>1, <3>2, EarliestOK, ScheduleAtOK DEF IInv, TypeOK
    <3>. QED BY <3>3 DEF AlarmComes
  <2>. QED BY <1>2, <2>1, <2>2, TraceStep DEF Traced
<1>. QED BY <1>1, <1>2 DEF AlarmComes

LEMMA KeptStep == IInv /\ [Next]_vars => Kept'
<1> SUFFICES ASSUME IInv, [Next]_vars, ~lapsed', NEW d \in Event
             PROVE  /\ Owed(d)' => \/ delivery'[d].due # NoAlarm /\ AlarmComes'
                                   \/ \E r \in Run : Calling(run'[r], d, {"queueing", "queued"})
                    /\ Pending(d)' => \/ AlarmComes'
                                      \/ \E r \in Run : Calling(run'[r], d, {"posting", "posted"})
  BY DEF Kept
<1>g. Grown
  BY Growing
<1>l. Kept /\ ~lapsed
  BY FaultsStep DEF FaultsKept, IInv
<1>1. ASSUME Owed(d)'
      PROVE  \/ delivery'[d].due # NoAlarm /\ AlarmComes'
             \/ \E r \in Run : Calling(run'[r], d, {"queueing", "queued"})
  <2>1. CASE Owed(d) /\ (delivery[d].due # NoAlarm => delivery'[d].due # NoAlarm)
    <3>1. CASE delivery[d].due # NoAlarm /\ AlarmComes
      BY <2>1, <3>1, AlarmLasts
    <3>2. ASSUME NEW r \in Run, Calling(run[r], d, {"queueing", "queued"})
          PROVE  \/ delivery'[d].due # NoAlarm /\ AlarmComes'
                 \/ \E q \in Run : Calling(run'[q], d, {"queueing", "queued"})
      <4>1. /\ run[r].d = d
            /\ DispatchEnds(r) \/ Calling(run'[r], run[r].d, {"queueing", "queued"})
        BY <3>2, TraceStep DEF Calling, Traced
      <4>2. CASE DispatchEnds(r)
        BY <1>1, <1>g, <4>1, <4>2, DispatchArms DEF AlarmComes
      <4>. QED BY <4>1, <4>2
    <3>. QED BY <1>l, <2>1, <3>1, <3>2 DEF Kept
  <2>2. CASE delivery'[d].due # NoAlarm /\ alarm' # NoAlarm
    BY <2>2 DEF AlarmComes
  <2>. QED BY <1>1, <2>1, <2>2, OwedStep DEF OwedTraced
<1>2. ASSUME Pending(d)'
      PROVE  AlarmComes' \/ \E r \in Run : Calling(run'[r], d, {"posting", "posted"})
  <2>1. CASE Pending(d)
    <3>1. CASE AlarmComes
      BY <2>1, <3>1, AlarmLasts
    <3>2. ASSUME NEW r \in Run, Calling(run[r], d, {"posting", "posted"})
          PROVE  AlarmComes' \/ \E q \in Run : Calling(run'[q], d, {"posting", "posted"})
      <4>1. /\ run[r].d = d
            /\ PostSettles(r) \/ PostPending(r) \/ Calling(run'[r], run[r].d, {"posting", "posted"})
        BY <3>2, TraceStep DEF Calling, Traced
      <4>2. CASE PostSettles(r)
        <5>1. reply'[d].posted
          BY <4>1, <4>2 DEF PostSettles, IInv, TypeOK
        <5>. QED BY <1>2, <5>1 DEF Pending
      <4>3. CASE PostPending(r)
        BY <4>3, PendingArms
      <4>. QED BY <4>1, <4>2, <4>3
    <3>. QED BY <1>l, <2>1, <3>1, <3>2 DEF Kept
  <2>. QED BY <1>2, <2>1, PendingStep DEF PendingTraced
<1>. QED BY <1>1, <1>2

-----------------------------------------------------------------------------
(* The theorems *)

LEMMA Starts == Init => IInv
<1> SUFFICES ASSUME Init PROVE IInv
  OBVIOUS
<1>1. /\ \A d \in Event : delivery[d] = None /\ reply[d] = None /\ hub[d] = "none"
      /\ \A r \in Run : run[r] = Idle
  BY DEF Init, NoDels
<1>2. Hour \in 1..Hour /\ 0 \in 0..Limit
  BY BudgetAssumption
<1>3. budget \in Budgets /\ budget.resumed = FALSE
  BY <1>2 DEF Init, FreshBudget, Budgets
<1>4. run \in [Run -> Invocation]
  BY <1>1, IdleOK DEF Init
<1>5. /\ delivery \in [Event -> Delivery \union {None}] /\ reply \in [Event -> Reply \union {None}]
      /\ hub \in [Event -> {"none", "queued", "injected", "dead"}]
  BY DEF Init, NoDels
<1>6. /\ meta \in Status \union {"new"} /\ row \in Status \union {"none"}
      /\ writes \subseteq Writes /\ patch \in Status \union {"idle"} /\ lapsed \in BOOLEAN
  BY DEF Init
<1>a. /\ faults \in 0..MaxFaults /\ alarm \in Alarms
      /\ reports \subseteq Event \X Via /\ taken \subseteq Event /\ landed \subseteq Event
  BY IntegrationAssumption DEF Init, Alarms
<1>7. Invocations
  BY <1>1, IdleOK DEF Invocations
<1>8. \A r \in Run : run[r].phase = "idle"
  BY <1>1 DEF Idle
<1>9. TypeOK
  BY <1>3, <1>4, <1>5, <1>6, <1>8, <1>a DEF TypeOK
<1>10. HeldTaken /\ HubKnown /\ ReplyTimed /\ ReplyOnRecord /\ Kept
  BY <1>1 DEF Init, HeldTaken, HubKnown, ReplyTimed, ReplyOnRecord, Kept, Owed, Pending
<1>11. ReportTaken /\ BudgetKept
  BY <1>3 DEF Init, ReportTaken, BudgetKept
<1>. QED BY <1>7, <1>9, <1>10, <1>11 DEF IInv

LEMMA Preserved == IInv /\ [Next]_vars => IInv'
<1> SUFFICES ASSUME IInv, [Next]_vars PROVE IInv'
  OBVIOUS
<1>1. DeliveryKept /\ ReplyKept /\ LandedKept /\ HubKept /\ MetaKept /\ FaultsKept
  BY DeliveryStep, ReplyStep, LandedStep, HubStep, MetaStep, FaultsStep
<1>2. AlarmKept /\ InvsKept /\ Kept' /\ taken' \subseteq Event
  BY AlarmStep, InvsStep, KeptStep, TakenStep
<1>3. \A r \in Run : /\ run'[r].phase \in {"checking", "queueing", "queued", "posting", "posted"} =>
                          run'[r].d # None /\ run'[r].del # None
                     /\ run'[r].phase \in {"routed", "cancelling"} => run'[r].d # None
  BY <1>2, Unset DEF InvsKept, Invocations, InvOK, Known
<1>4. TypeOK'
  BY <1>1, <1>2, <1>3 DEF TypeOK, DeliveryKept, ReplyKept, LandedKept, HubKept, MetaKept,
     FaultsKept, AlarmKept, InvsKept
<1>. QED BY <1>1, <1>2, <1>4 DEF IInv, DeliveryKept, ReplyKept, LandedKept, HubKept, AlarmKept, InvsKept

LEMMA Invariance == Spec => []IInv
BY Starts, Preserved, PTL DEF Spec

(***************************************************************************)
(* TypeOK, for any number of deliveries, invocations, attempts and faults: *)
(* whatever awaits was cut and whatever record came to be old, a handler   *)
(* that goes on has the delivery it works on and a record to write back.   *)
(***************************************************************************)
THEOREM TypeCorrect == Spec => []TypeOK
<1>1. IInv => TypeOK
  BY DEF IInv
<1>. QED BY <1>1, Invariance, PTL

(***************************************************************************)
(* chatReply writes the reply before it posts: nothing reaches the service *)
(* that is not on record, and nothing is recorded as posted that did not.  *)
(***************************************************************************)
THEOREM ReplyOnRecordHolds == Spec => []ReplyOnRecord
<1>1. IInv => ReplyOnRecord
  BY DEF IInv
<1>. QED BY <1>1, Invariance, PTL

(***************************************************************************)
(* Between invocations, whatever is owed to an agent or to the service has *)
(* a time and an alarm (scheduleAt, armRedelivery, scheduleNext).          *)
(***************************************************************************)
THEOREM NothingForgottenHolds == Spec => []NothingForgotten
<1>1. IInv => NothingForgotten
  <2> SUFFICES ASSUME IInv, ~lapsed, \A r \in Run : run[r] = Idle, NEW d \in Event
               PROVE  /\ Owed(d) => delivery[d].due # NoAlarm /\ alarm # NoAlarm
                      /\ Pending(d) => reply[d].due # NoAlarm /\ alarm # NoAlarm
    BY DEF NothingForgotten, Owed, Pending
  <2>1. \A r \in Run : run[r].src = "idle"
    BY DEF Idle
  <2>2. AlarmComes => alarm # NoAlarm
    BY <2>1 DEF AlarmComes
  <2>3. \A r \in Run : ~Calling(run[r], d, {"queueing", "queued"}) /\ ~Calling(run[r], d, {"posting", "posted"})
    BY <2>1 DEF Calling
  <2>. QED BY <2>2, <2>3 DEF IInv, Kept, ReplyTimed, Pending
<1>. QED BY <1>1, Invariance, PTL
=============================================================================
