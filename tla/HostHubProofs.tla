--------------------------- MODULE HostHubProofs ---------------------------
(***************************************************************************)
(* Proofs about HostHub, for any number of agents, messages, concurrent    *)
(* dispatch runs, attempts and faults.                                     *)
(***************************************************************************)
EXTENDS HostHub, FiniteSetTheorems, WellFoundedInduction, TLAPS

(* The two conversions of relative time stay in range (dispatchQueued). *)
LEMMA TimeTypes ==
  ASSUME NEW a \in Ages, NEW b \in Ages, NEW c \in Ages \union {NoAlarm}
  PROVE  Later(a, b) \in Ages /\ Earlier(c, b) \in Ages /\ Later(a, 1) \in Ages
BY HubAssumption DEF Later, Earlier, Ages, NoAlarm

(* budgetedAlarm and the passing of an hour keep alarm and budget typed. *)
LEMMA BudgetTypes ==
  ASSUME NEW b \in Budgets, NEW a \in Alarms, NEW at \in Nat
  PROVE  /\ BudgetAfter(b) \in Budgets /\ AlarmAfter(b, a, at) \in Alarms
         /\ BudgetTick(b) \in Budgets /\ AlarmTick(a) \in Alarms
<1>1. b.left \in 1..Hour /\ b.count \in 0..Limit /\ b.resumed \in BOOLEAN
  BY DEF Budgets
<1>2. AlarmAfter(b, a, at) \in Alarms /\ AlarmTick(a) \in Alarms
  BY <1>1, BudgetAssumption DEF AlarmAfter, AlarmTick, Alarms, NoAlarm
<1>3. BudgetAfter(b) \in Budgets
  <2>1. CASE b.count < Limit
    <3>1. b.count + 1 \in 0..Limit
      BY <1>1, <2>1, BudgetAssumption
    <3>. QED BY <2>1, <3>1 DEF BudgetAfter, Budgets
  <2>2. CASE ~(b.count < Limit)
    BY <2>2 DEF BudgetAfter, Budgets
  <2>. QED BY <2>1, <2>2
<1>4. BudgetTick(b) \in Budgets
  <2>1. Hour \in 1..Hour /\ 0 \in 0..Limit
    BY BudgetAssumption
  <2>2. CASE b.left = 1
    BY <2>1, <2>2 DEF BudgetTick, FreshBudget, Budgets
  <2>3. CASE b.left # 1
    <3>1. b.left - 1 \in 1..Hour
      BY <1>1, <2>3, BudgetAssumption
    <3>. QED BY <2>3, <3>1 DEF BudgetTick, Budgets
  <2>. QED BY <2>2, <2>3
<1>. QED BY <1>2, <1>3, <1>4

(* So does every handler that calls it. *)
LEMMA SetAlarmType ==
  ASSUME TypeOK, NEW at \in Nat, SetAlarm(at)
  PROVE  alarm' \in Alarms /\ budget' \in Budgets
BY BudgetTypes DEF TypeOK, SetAlarm

(* A started run lists rows of the queue, each under its key. *)
LEMMA DispatchingType ==
  ASSUME NEW q \in [Key -> Item \union {None}], NEW auto \in BOOLEAN
  PROVE  /\ Dispatching(q, auto) \in Runs
         /\ \A row \in Dispatching(q, auto).todo :
              row.key \in Key /\ q[row.key] # None /\ row.item = q[row.key]
<1>1. ASSUME NEW row \in Rows(q)
      PROVE  row \in Row /\ row.key \in Key /\ q[row.key] # None /\ row.item = q[row.key]
  <2>1. PICK k \in LiveKeys(q) : row = [key |-> k, item |-> q[k]]
    BY DEF Rows
  <2>2. k \in Key /\ q[k] # None /\ q[k] \in Item
    BY <2>1 DEF LiveKeys
  <2>. QED BY <2>1, <2>2 DEF Row
<1>2. 0 \in Ages
  BY HubAssumption DEF Ages
<1>3. IdleRun \in Runs
  BY <1>2 DEF IdleRun, Runs
<1>4. CASE LiveKeys(q) = {}
  <2>1. Dispatching(q, auto) = IdleRun
    BY <1>4 DEF Dispatching
  <2>2. IdleRun.todo = {}
    BY DEF IdleRun
  <2>. QED BY <1>3, <2>1, <2>2
<1>5. CASE LiveKeys(q) # {}
  <2> DEFINE full == Cardinality(Rows(q)) = Batch
             sink == IF socket = "none" THEN "none" ELSE "open"
  <2>1. Dispatching(q, auto) =
          [phase |-> "loop", todo |-> Rows(q), sink |-> sink, lag |-> 0,
           next |-> NoAlarm, full |-> full, live |-> FALSE, auto |-> auto]
    BY <1>5 DEF Dispatching, IdleRun
  <2>2. full \in BOOLEAN /\ sink \in {"none", "open"} /\ Rows(q) \in SUBSET Row
    BY <1>1
  <2> HIDE DEF full, sink
  <2>. QED BY <1>1, <1>2, <2>1, <2>2 DEF Runs
<1>. QED BY <1>4, <1>5

(* applyRoster maps names to names. *)
LEMMA RenameMapType ==
  ASSUME NEW new PROVE RenameMap(new) \in [Name -> Name]
<1>1. \A n \in Name : RenamedTo(new, n) \subseteq Name
  BY DEF RenamedTo
<1>2. \A n \in Name : RenamedTo(new, n) # {} =>
        (CHOOSE x \in RenamedTo(new, n) : TRUE) \in Name
  BY <1>1
<1>. QED BY <1>2 DEF RenameMap

(* The inductive invariant: types, no black hole, and the ownership of       *)
(* sequence numbers that keeps stale copies of an entry harmless.            *)
IInv == TypeOK /\ QueuedHasEntry /\ SeqsOwned

(* What an ack or nak resolves to is a recipient with its entry in place. *)
LEMMA AnswerableType ==
  ASSUME IInv, NEW m \in Msg, NEW e, NEW x \in Answerable(m, e)
  PROVE  /\ x \in Name /\ marker[m][x].status = "queued"
         /\ marker[m][x].key \in Key /\ queue[marker[m][x].key] \in Item
         /\ queue[marker[m][x].key].id = m /\ queue[marker[m][x].key].agent = x
<1>1. x \in Name /\ marker[m][x].status = "queued"
  BY DEF Answerable, Resolved, QueuedFor
<1>2. marker[m][x].key \in Key /\ queue[marker[m][x].key] # None
      /\ queue[marker[m][x].key].id = m /\ queue[marker[m][x].key].agent = x
  BY <1>1 DEF IInv, QueuedHasEntry
<1>. QED BY <1>1, <1>2 DEF IInv, TypeOK

(* A dead marker keeps a real queue key, so that requeue can use it. *)
LEMMA DeadKey ==
  ASSUME IInv, NEW m \in Msg, NEW n \in Name, marker[m][n].status = "dead"
  PROVE  marker[m][n].key \in Key /\ marker[m][n].key[1] = n
BY DEF IInv, SeqsOwned, OwnedBy, MarkerOwned

(* markDead keeps queue and marker typed. *)
LEMMA MarkDeadType ==
  ASSUME TypeOK, NEW k \in Key, NEW item \in Item, MarkDead(k, item)
  PROVE  queue' \in [Key -> Item \union {None}] /\ marker' \in [Msg -> [Name -> Markers]]
<1>1. Dead(k) \in Markers
  BY DEF Dead, Markers
<1>. QED BY <1>1 DEF TypeOK, MarkDead

(* The rows a run or the rename loop works on are rows. *)
LEMMA FirstType ==
  ASSUME TypeOK
  PROVE  /\ \A r \in Run : \A row \in First(run[r].todo) :
              row \in run[r].todo /\ row.key \in Key /\ row.item \in Item
         /\ \A row \in First(rename.todo) :
              row \in rename.todo /\ row.key \in Key /\ row.item \in Item
<1>1. \A r \in Run : run[r].todo \in SUBSET Row
  BY DEF TypeOK, Runs
<1>2. rename.todo \in SUBSET Row
  BY DEF TypeOK
<1>. QED BY <1>1, <1>2 DEF First, Row

(* Moving on to the next row keeps the run typed. *)
LEMMA NextRowType ==
  ASSUME TypeOK, NEW r \in Run, NEW row, NEW phase \in {"loop", "dead"},
         NEW next \in Ages \union {NoAlarm}, NextRow(r, row, phase, next)
  PROVE  run' \in [Run -> Runs]
<1>1. run[r] \in Runs
  BY DEF TypeOK
<1>2. [run[r] EXCEPT !.phase = phase, !.todo = @ \ {row}, !.next = next, !.live = FALSE] \in Runs
  BY <1>1 DEF Runs
<1>. QED BY <1>2 DEF TypeOK, NextRow

(* The operators that rewrite an entry return entries of the same message. *)
LEMMA EntryTypes ==
  ASSUME NEW item \in Item, NEW m \in Msg, NEW n \in Name, NEW lag \in Ages
  PROVE  /\ NewItem(m, n) \in Item /\ NewItem(m, n).id = m /\ NewItem(m, n).agent = n
         /\ Held(item) \in Item /\ Held(item).id = item.id /\ Held(item).agent = item.agent
         /\ Older(item) \in Item /\ Older(item).id = item.id /\ Older(item).agent = item.agent
         /\ ~Expired(item) => Attempted(item, lag) \in Item
         /\ Attempted(item, lag).id = item.id /\ Attempted(item, lag).agent = item.agent
         /\ [item EXCEPT !.agent = n] \in Item
<1>1. 0 \in Ages /\ TTL \in Ages /\ 0 \in 0..MaxAttempts
  BY HubAssumption DEF Ages
<1>2. /\ item.attempts \in 0..MaxAttempts /\ item.age \in Ages /\ item.wait \in Ages
      /\ item.id \in Msg /\ item.agent \in Name
  BY DEF Item
<1>3. Later(item.age, 1) \in Ages /\ Later(item.wait, 1) \in Ages /\ Later(item.age, lag) \in Ages
  BY <1>2, TimeTypes
<1>4. NewItem(m, n) \in Item /\ NewItem(m, n).id = m /\ NewItem(m, n).agent = n
  BY <1>1 DEF NewItem, Item
<1>5. (IF item.attempts > 0 THEN item.attempts - 1 ELSE 0) \in 0..MaxAttempts
  BY <1>2, HubAssumption
<1>6. Held(item) \in Item /\ Held(item).id = item.id /\ Held(item).agent = item.agent
  BY <1>5 DEF Held, Item
<1>7. Older(item) \in Item /\ Older(item).id = item.id /\ Older(item).agent = item.agent
  BY <1>3 DEF Older, Item
<1>8. ~Expired(item) => item.attempts + 1 \in 0..MaxAttempts
  BY <1>2, HubAssumption DEF Expired
<1>9. /\ ~Expired(item) => Attempted(item, lag) \in Item
      /\ Attempted(item, lag).id = item.id /\ Attempted(item, lag).agent = item.agent
  BY <1>3, <1>8 DEF Attempted, Item
<1>10. [item EXCEPT !.agent = n] \in Item
  BY DEF Item
<1>. QED BY <1>4, <1>6, <1>7, <1>9, <1>10

(* Every step of the hub keeps every variable in its type. *)
LEMMA TypeStep == IInv /\ [Next]_vars => TypeOK'
<1> SUFFICES ASSUME IInv, [Next]_vars PROVE TypeOK'
  OBVIOUS
<1> USE DEF IInv
<1>t. TypeOK
  OBVIOUS
<1>i. IdleRun \in Runs /\ NoRename \in [todo : SUBSET Row, to : [Name -> Name]]
  BY HubAssumption DEF IdleRun, Runs, NoRename, Ages
<1>r. ASSUME NEW r \in Run, NEW q \in [Key -> Item \union {None}], CallsDispatch(r, q)
      PROVE  run' \in [Run -> Runs]
  BY <1>r, <1>t, DispatchingType DEF CallsDispatch, TypeOK
<1>p. ASSUME NEW r \in Run, NEW phase \in {"start", "loop", "query", "answered"}
      PROVE  [run[r] EXCEPT !.phase = phase] \in Runs
  <2>1. run[r] \in Runs
    BY <1>t DEF TypeOK
  <2>. QED BY <2>1 DEF Runs
<1>w. ASSUME NEW r \in Run, WillDispatch(r) PROVE run' \in [Run -> Runs]
  <2>1. [run[r] EXCEPT !.phase = "start"] \in Runs
    BY <1>p
  <2>. QED BY <1>w, <1>t, <2>1 DEF WillDispatch, TypeOK
<1>f. \A c \in BOOLEAN : Fault(c) => faults' \in 0..MaxFaults
  BY <1>t, HubAssumption DEF Fault, TypeOK
<1>m. ASSUME NEW k \in Key
      PROVE  Queued(k) \in Markers /\ Dead(k) \in Markers /\ Injected \in Markers
             /\ NoMarker \in Markers
  BY DEF Queued, Dead, Injected, NoMarker, Markers
<1>1. ASSUME NEW r \in Run, NEW m \in Msg, NEW re \in BOOLEAN, NEW n \in Recipients[m],
             QueueDelivery(m, n, re, r)
      PROVE  TypeOK'
  <2>1. n \in Name /\ qseq + 1 \in Seqs /\ <<n, qseq + 1>> \in Key /\ qseq' \in 0..MaxSeq
    BY <1>1, <1>t, HubAssumption DEF QueueDelivery, TypeOK, Seqs, Key
  <2>2. NewItem(m, n) \in Item
    BY <2>1, HubAssumption DEF NewItem, Item, Ages
  <2>3. queue' \in [Key -> Item \union {None}]
    BY <1>1, <1>t, <2>1, <2>2 DEF QueueDelivery, TypeOK
  <2>4. marker' \in [Msg -> [Name -> Markers]]
    BY <1>1, <1>t, <1>m, <2>1 DEF QueueDelivery, TypeOK
  <2>5. run' \in [Run -> Runs]
    BY <1>1, <1>w DEF QueueDelivery
  <2>. QED BY <1>1, <1>t, <2>1, <2>3, <2>4, <2>5 DEF QueueDelivery, TypeOK, clock
<1>2. ASSUME NEW m \in Msg, NEW n \in Name, NEW e \in {n, None}, DeliverAck(m, n, e)
      PROVE  TypeOK'
  <2>1. PICK x \in Answerable(m, e) : /\ queue' = [queue EXCEPT ![marker[m][x].key] = None]
                                      /\ marker' = [marker EXCEPT ![m][x] = Injected]
    BY <1>2 DEF DeliverAck, HandleDeliveryAck
  <2>2. marker' \in [Msg -> [Name -> Markers]] /\ queue' \in [Key -> Item \union {None}]
    BY <2>1, <1>m, <1>t, AnswerableType DEF TypeOK
  <2>3. frames' \in [Msg -> [Name -> 0..MaxFrames]]
    BY <1>2, <1>t, HubAssumption DEF DeliverAck, Answered, TypeOK
  <2>. QED BY <1>2, <1>t, <2>2, <2>3 DEF DeliverAck, TypeOK, clock
<1>3. ASSUME NEW m \in Msg, NEW n \in Name, NEW e \in {n, None}, NakDead(m, n, e)
      PROVE  TypeOK'
  <2>1. PICK x \in Answerable(m, e) : MarkDead(marker[m][x].key, queue[marker[m][x].key])
    BY <1>3 DEF NakDead
  <2>2. marker' \in [Msg -> [Name -> Markers]] /\ queue' \in [Key -> Item \union {None}]
    BY <2>1, <1>t, AnswerableType, MarkDeadType
  <2>3. frames' \in [Msg -> [Name -> 0..MaxFrames]]
    BY <1>3, <1>t, HubAssumption DEF NakDead, Answered, TypeOK
  <2>. QED BY <1>3, <1>t, <2>2, <2>3 DEF NakDead, TypeOK, clock
<1>4. ASSUME NEW m \in Msg, NEW n \in Name, NEW e \in {n, None}, NakHold(m, n, e)
      PROVE  TypeOK'
  <2>1. PICK x \in Answerable(m, e) :
          queue' = [queue EXCEPT ![marker[m][x].key] = Held(queue[marker[m][x].key])]
    BY <1>4 DEF NakHold
  <2>2. marker[m][x].key \in Key /\ queue[marker[m][x].key] \in Item
    BY <2>1, AnswerableType
  <2>3. Held(queue[marker[m][x].key]) \in Item
    <3>1. 0 \in Ages
      BY HubAssumption DEF Ages
    <3>. QED BY <2>2, <3>1, EntryTypes
  <2>4. queue' \in [Key -> Item \union {None}]
    BY <2>1, <2>2, <2>3, <1>t DEF TypeOK
  <2>5. frames' \in [Msg -> [Name -> 0..MaxFrames]]
    BY <1>4, <1>t, HubAssumption DEF NakHold, Answered, TypeOK
  <2>6. alarm' \in Alarms /\ budget' \in Budgets
    BY <1>4, <1>t, HubAssumption, SetAlarmType DEF NakHold
  <2>. QED BY <1>4, <1>t, <2>4, <2>5, <2>6 DEF NakHold, TypeOK
<1>5. ASSUME NEW m \in Msg, NEW n \in Name, NEW e \in {n, None}, NakRetry(m, n, e)
      PROVE  TypeOK'
  <2>1. PICK x \in Answerable(m, e) : SetAlarm(RetryDelay[queue[marker[m][x].key].attempts])
    BY <1>5 DEF NakRetry
  <2>2. queue[marker[m][x].key] \in Item
    BY <2>1, AnswerableType
  <2>3. RetryDelay[queue[marker[m][x].key].attempts] \in Nat
    BY <2>2, HubAssumption DEF Item
  <2>5. frames' \in [Msg -> [Name -> 0..MaxFrames]]
    BY <1>5, <1>t, HubAssumption DEF NakRetry, Answered, TypeOK
  <2>6. alarm' \in Alarms /\ budget' \in Budgets
    BY <2>1, <2>3, <1>t, SetAlarmType
  <2>. QED BY <1>5, <1>t, <2>5, <2>6 DEF NakRetry, TypeOK
<1>6. ASSUME NEW m \in Msg, NEW n \in Name, NEW e \in {n, None}, AnswerIgnored(m, n, e)
      PROVE  TypeOK'
  <2>1. frames' \in [Msg -> [Name -> 0..MaxFrames]]
    BY <1>6, <1>t, HubAssumption DEF AnswerIgnored, Answered, TypeOK
  <2>. QED BY <1>6, <1>t, <2>1 DEF AnswerIgnored, TypeOK, clock
<1>7. ASSUME NEW m \in Msg, CancelDelivery(m) PROVE TypeOK'
  <2>1. \A k \in Key : queue'[k] \in Item \union {None}
    BY <1>7, <1>t DEF CancelDelivery, TypeOK
  <2>2. Injected \in Markers
    BY DEF Injected, Markers
  <2>3. marker' \in [Msg -> [Name -> Markers]]
    BY <1>7, <1>t, <2>2 DEF CancelDelivery, TypeOK
  <2>4. queue' \in [Key -> Item \union {None}]
    BY <1>7, <2>1 DEF CancelDelivery
  <2>. QED BY <1>7, <1>t, <2>3, <2>4 DEF CancelDelivery, TypeOK, clock
<1>8. ASSUME NEW m \in Msg, NEW n \in Inbox, SettleInbox(m, n) PROVE TypeOK'
  <2>1. PICK x \in Answerable(m, n) : /\ queue' = [queue EXCEPT ![marker[m][x].key] = None]
                                      /\ marker' = [marker EXCEPT ![m][x] = Injected]
    BY <1>8 DEF SettleInbox, HandleDeliveryAck
  <2>2. marker' \in [Msg -> [Name -> Markers]] /\ queue' \in [Key -> Item \union {None}]
    BY <2>1, <1>m, <1>t, AnswerableType DEF TypeOK
  <2>. QED BY <1>8, <1>t, <2>2 DEF SettleInbox, TypeOK, clock
<1>9. ASSUME NEW r \in Run, NEW m \in Requeueable, Requeue(m, r) PROVE TypeOK'
  <2>0. m \in Msg
    BY HubAssumption
  <2>1. PICK n \in FirstDead(m) :
          /\ queue' = [queue EXCEPT ![marker[m][n].key] = NewItem(m, n)]
          /\ marker' = [marker EXCEPT ![m][n] = Queued(marker[m][n].key)]
    BY <1>9 DEF Requeue
  <2>2. n \in Name /\ marker[m][n].status = "dead"
    BY <2>1 DEF FirstDead
  <2>3. marker[m][n].key \in Key
    BY <2>0, <2>2, DeadKey
  <2>4. NewItem(m, n) \in Item
    BY <2>0, <2>2, HubAssumption DEF NewItem, Item, Ages
  <2>5. queue' \in [Key -> Item \union {None}] /\ marker' \in [Msg -> [Name -> Markers]]
    BY <2>0, <2>1, <2>2, <2>3, <2>4, <1>m, <1>t DEF TypeOK
  <2>6. run' \in [Run -> Runs]
    BY <1>9, <2>5, <1>r DEF Requeue
  <2>. QED BY <1>9, <1>t, <2>5, <2>6 DEF Requeue, TypeOK, clock
<1>10. CASE RenameEntry
  <2>1. PICK row \in First(rename.todo) :
          LET new == rename.to[row.item.agent]
              key == <<new, row.key[2]>>
          IN /\ queue' = [queue EXCEPT ![row.key] = None,
                                       ![key] = [row.item EXCEPT !.agent = new]]
             /\ marker' = [marker EXCEPT ![row.item.id][row.item.agent] = NoMarker,
                                         ![row.item.id][new] = Queued(key)]
             /\ rename' = IF rename.todo = {row} THEN NoRename
                          ELSE [rename EXCEPT !.todo = @ \ {row}]
    BY <1>10 DEF RenameEntry
  <2> DEFINE new == rename.to[row.item.agent]
             key == <<new, row.key[2]>>
             moved == [row.item EXCEPT !.agent = new]
  <2>2. row.key \in Key /\ row.item \in Item
    BY <2>1, <1>t, FirstType
  <2>3. new \in Name /\ row.item.id \in Msg
    BY <2>2, <1>t DEF TypeOK, Item
  <2>4. key \in Key
    BY <2>2, <2>3 DEF Key
  <2>5. moved \in Item
    BY <2>2, <2>3 DEF Item
  <2>6. Queued(key) \in Markers /\ NoMarker \in Markers
    BY <2>4, <1>m
  <2>7. rename' \in [todo : SUBSET Row, to : [Name -> Name]]
    BY <2>1, <1>t, <1>i DEF TypeOK
  <2>8. queue' = [queue EXCEPT ![row.key] = None, ![key] = moved]
        /\ marker' = [marker EXCEPT ![row.item.id][row.item.agent] = NoMarker,
                                    ![row.item.id][new] = Queued(key)]
    BY <2>1
  <2> HIDE DEF new, key, moved
  <2>9. queue' \in [Key -> Item \union {None}] /\ marker' \in [Msg -> [Name -> Markers]]
    BY <2>4, <2>5, <2>6, <2>8, <1>t DEF TypeOK
  <2>. QED BY <1>10, <1>t, <2>7, <2>9 DEF RenameEntry, TypeOK, clock
<1>c. ASSUME NEW r \in Run
      PROVE  [run[r] EXCEPT !.sink = IF @ = "open" THEN "closed" ELSE @] \in Runs
  <2>1. run[r] \in Runs
    BY <1>t DEF TypeOK
  <2>. QED BY <2>1 DEF Runs
<1>11. CASE AcceptDaemon
  <2>1. run' \in [Run -> Runs]
    BY <1>11, <1>c DEF AcceptDaemon, SinksClosed
  <2>2. faults' \in 0..MaxFaults
    BY <1>11, <1>f DEF AcceptDaemon
  <2>. QED BY <1>11, <1>t, <2>1, <2>2 DEF AcceptDaemon, TypeOK, clock
<1>12. CASE CloseDaemon
  <2>1. run' \in [Run -> Runs]
    BY <1>12, <1>c DEF CloseDaemon, SinksClosed
  <2>2. faults' \in 0..MaxFaults
    BY <1>12, <1>f DEF CloseDaemon
  <2>. QED BY <1>12, <1>t, <2>1, <2>2 DEF CloseDaemon, TypeOK, clock
<1>13. ASSUME NEW r \in Run, HandleHello(r) PROVE TypeOK'
  <2>1. run' \in [Run -> Runs]
    BY <1>13, <1>r, <1>t DEF HandleHello, TypeOK
  <2>. QED BY <1>13, <1>t, <2>1 DEF HandleHello, TypeOK, clock
<1>14. ASSUME NEW r \in Run, NEW new \in Rosters, ApplyRoster(new, r) PROVE TypeOK'
  <2>1. run' \in [Run -> Runs]
    BY <1>14, <1>w DEF ApplyRoster
  <2>2. faults' \in 0..MaxFaults
    BY <1>14, <1>f DEF ApplyRoster
  <2>3. roster' \in [Name -> Pane \union {None}]
    BY <1>14 DEF ApplyRoster, Rosters
  <2>4. gone' \in [Name -> Ages]
    BY <1>14, <1>t, HubAssumption DEF ApplyRoster, TypeOK, Ages
  <2>5. \A k \in LiveKeys(queue) : [key |-> k, item |-> queue[k]] \in Row
    BY <1>t DEF LiveKeys, TypeOK, Row
  <2>6. rename'.todo \in SUBSET Row /\ rename' = [todo |-> rename'.todo, to |-> RenameMap(new)]
    BY <1>14, <2>5 DEF ApplyRoster
  <2>7. rename' \in [todo : SUBSET Row, to : [Name -> Name]]
    BY <2>6, RenameMapType
  <2>. QED BY <1>14, <1>t, <2>1, <2>2, <2>3, <2>4, <2>7 DEF ApplyRoster, TypeOK, clock
<1>15. ASSUME NEW r \in Run, RunStep(r) PROVE TypeOK'
  <2>1. CASE RunBegins(r)
    <3>1. run' \in [Run -> Runs]
      BY <2>1, <1>t, DispatchingType DEF RunBegins, TypeOK
    <3>. QED BY <2>1, <1>t, <3>1 DEF RunBegins, TypeOK, clock
  <2>2. CASE RunExpires(r)
    <3>1. PICK row \in First(run[r].todo) :
            MarkDead(row.key, row.item) /\ NextRow(r, row, "dead", run[r].next)
      BY <2>2 DEF RunExpires
    <3>2. row.key \in Key /\ row.item \in Item /\ run[r].next \in Ages \union {NoAlarm}
      BY <3>1, <1>t, FirstType DEF TypeOK, Runs
    <3>3. queue' \in [Key -> Item \union {None}] /\ marker' \in [Msg -> [Name -> Markers]]
      BY <3>1, <3>2, <1>t, MarkDeadType
    <3>4. run' \in [Run -> Runs]
      BY <3>1, <3>2, <1>t, NextRowType
    <3>. QED BY <2>2, <1>t, <3>3, <3>4 DEF RunExpires, TypeOK, clock
  <2>3. CASE RunAsks(r)
    <3>1. run' \in [Run -> Runs]
      BY <2>3, <1>t, <1>p DEF RunAsks, TypeOK
    <3>. QED BY <2>3, <1>t, <3>1 DEF RunAsks, TypeOK, clock
  <2>4. CASE QueryAnswers(r)
    <3>1. run[r] \in Runs /\ connected \in BOOLEAN
      BY <1>t DEF TypeOK
    <3>2. [run[r] EXCEPT !.phase = "answered", !.live = connected] \in Runs
      BY <3>1 DEF Runs
    <3>3. run' = [run EXCEPT ![r] = [run[r] EXCEPT !.phase = "answered", !.live = connected]]
      BY <2>4, <1>t DEF QueryAnswers, TypeOK
    <3>4. run' \in [Run -> Runs]
      BY <3>2, <3>3, <1>t DEF TypeOK
    <3>. QED BY <2>4, <1>t, <3>4 DEF QueryAnswers, TypeOK, clock
  <2>5. CASE RunRevokes(r)
    <3>1. PICK row \in First(run[r].todo) :
            MarkDead(row.key, row.item) /\ NextRow(r, row, "dead", run[r].next)
      BY <2>5 DEF RunRevokes
    <3>2. row.key \in Key /\ row.item \in Item /\ run[r].next \in Ages \union {NoAlarm}
      BY <3>1, <1>t, FirstType DEF TypeOK, Runs
    <3>3. queue' \in [Key -> Item \union {None}] /\ marker' \in [Msg -> [Name -> Markers]]
      BY <3>1, <3>2, <1>t, MarkDeadType
    <3>4. run' \in [Run -> Runs]
      BY <3>1, <3>2, <1>t, NextRowType
    <3>. QED BY <2>5, <1>t, <3>3, <3>4 DEF RunRevokes, TypeOK, clock
  <2>6. CASE RunResumes(r)
    <3>1. run' \in [Run -> Runs]
      BY <2>6, <1>t, <1>p DEF RunResumes, TypeOK
    <3>. QED BY <2>6, <1>t, <3>1 DEF RunResumes, TypeOK, clock
  <2>7. CASE RunHolds(r)
    <3>1. PICK row \in First(run[r].todo) :
            NextRow(r, row, "loop", Earlier(run[r].next, TTL - row.item.age))
      BY <2>7 DEF RunHolds
    <3>2. row.item \in Item /\ run[r].next \in Ages \union {NoAlarm}
      BY <3>1, <1>t, FirstType DEF TypeOK, Runs
    <3>3. TTL - row.item.age \in Ages
      BY <3>2, HubAssumption DEF Item, Ages
    <3> DEFINE next == Earlier(run[r].next, TTL - row.item.age)
    <3>a. next \in Ages \union {NoAlarm}
      BY <3>2, <3>3, TimeTypes
    <3>b. NextRow(r, row, "loop", next)
      BY <3>1
    <3> HIDE DEF next
    <3>4. run' \in [Run -> Runs]
      BY <3>a, <3>b, <1>t, NextRowType
    <3>. QED BY <2>7, <1>t, <3>4 DEF RunHolds, TypeOK, clock
  <2>8. CASE RunWaits(r)
    <3>1. PICK row \in First(run[r].todo) :
            /\ ~Due(row.item)
            /\ NextRow(r, row, "loop",
                       Earlier(run[r].next, RetryDelay[row.item.attempts] - row.item.wait))
      BY <2>8 DEF RunWaits
    <3>2. row.item \in Item /\ run[r].next \in Ages \union {NoAlarm}
      BY <3>1, <1>t, FirstType DEF TypeOK, Runs
    <3>3. RetryDelay[row.item.attempts] - row.item.wait \in Ages
      <4> DEFINE delay == RetryDelay[row.item.attempts]
                 wait  == row.item.wait
      <4>1. row.item.attempts \in 0..MaxAttempts /\ wait \in Ages
        BY <3>2 DEF Item
      <4>2. delay \in 0..TTL
        BY <4>1, HubAssumption
      <4>3. ~(wait >= delay)
        BY <3>1 DEF Due
      <4> HIDE DEF delay, wait
      <4>4. delay - wait \in Ages
        BY <4>1, <4>2, <4>3, HubAssumption DEF Ages
      <4>. QED BY <4>4 DEF delay, wait
    <3> DEFINE next == Earlier(run[r].next, RetryDelay[row.item.attempts] - row.item.wait)
    <3>a. next \in Ages \union {NoAlarm}
      BY <3>2, <3>3, TimeTypes
    <3>b. NextRow(r, row, "loop", next)
      BY <3>1
    <3> HIDE DEF next
    <3>4. run' \in [Run -> Runs]
      BY <3>a, <3>b, <1>t, NextRowType
    <3>. QED BY <2>8, <1>t, <3>4 DEF RunWaits, TypeOK, clock
  <2>9. CASE RunLosesClaim(r)
    <3>1. PICK row \in First(run[r].todo) : NextRow(r, row, "loop", run[r].next)
      BY <2>9 DEF RunLosesClaim
    <3>2. run[r].next \in Ages \union {NoAlarm}
      BY <1>t DEF TypeOK, Runs
    <3>3. run' \in [Run -> Runs]
      BY <3>1, <3>2, <1>t, NextRowType
    <3>. QED BY <2>9, <1>t, <3>3 DEF RunLosesClaim, TypeOK, clock
  <2>10. CASE RunSends(r)
    <3>1. PICK row \in First(run[r].todo) :
            /\ ~Expired(row.item)
            /\ queue' = [queue EXCEPT ![row.key] = Attempted(row.item, run[r].lag)]
            /\ frames' = [frames EXCEPT ![row.item.id][row.item.agent] =
                       IF run[r].sink = "open" /\ @ < MaxFrames THEN @ + 1 ELSE @]
            /\ NextRow(r, row, "loop", Earlier(run[r].next, RetryDelay[row.item.attempts + 1]))
      BY <2>10 DEF RunSends, Cleared
    <3>c. row.item \in Item /\ row.key \in Key
      BY <1>t, FirstType
    <3>d. run[r].next \in Ages \union {NoAlarm} /\ run[r].lag \in Ages
      BY <1>t DEF TypeOK, Runs
    <3>2. /\ row.item \in Item /\ row.key \in Key
          /\ run[r].next \in Ages \union {NoAlarm} /\ run[r].lag \in Ages
      BY <3>c, <3>d
    <3>3. row.item.id \in Msg /\ row.item.agent \in Name /\ row.item.attempts + 1 \in 0..MaxAttempts
      BY <3>1, <3>2, HubAssumption DEF Item, Expired
    <3>4. RetryDelay[row.item.attempts + 1] \in Ages
      BY <3>3, HubAssumption DEF Ages
    <3> DEFINE next == Earlier(run[r].next, RetryDelay[row.item.attempts + 1])
    <3>a. next \in Ages \union {NoAlarm}
      BY <3>2, <3>4, TimeTypes
    <3>b. NextRow(r, row, "loop", next)
      BY <3>1
    <3> HIDE DEF next
    <3>5. run' \in [Run -> Runs]
      BY <3>a, <3>b, <1>t, NextRowType
    <3>6. Attempted(row.item, run[r].lag) \in Item
      BY <3>1, <3>2, <3>3, EntryTypes
    <3>7. queue' \in [Key -> Item \union {None}]
      BY <3>1, <3>6, <1>t DEF TypeOK
    <3> DEFINE f == frames[row.item.id][row.item.agent]
               g == IF run[r].sink = "open" /\ f < MaxFrames THEN f + 1 ELSE f
    <3>8. frames' \in [Msg -> [Name -> 0..MaxFrames]]
      <4>1. f \in 0..MaxFrames
        BY <3>3, <1>t DEF TypeOK
      <4>2. frames' = [frames EXCEPT ![row.item.id][row.item.agent] = g]
        BY <3>1
      <4> HIDE DEF f
      <4>3. g \in 0..MaxFrames
        BY <4>1, HubAssumption
      <4> HIDE DEF g
      <4>. QED BY <4>2, <4>3, <3>3, <1>t DEF TypeOK
    <3>. QED BY <2>10, <1>t, <3>5, <3>7, <3>8 DEF RunSends, TypeOK, clock
  <2>11. CASE RunFinishes(r)
    <3>1. run[r].next \in Ages \union {NoAlarm} /\ run[r].lag \in Ages
      BY <1>t DEF TypeOK, Runs
    <3> DEFINE next == IF run[r].full THEN 0 ELSE run[r].next
    <3>2. next \in Ages \union {NoAlarm}
      BY <3>1, HubAssumption DEF Ages
    <3>3. next # NoAlarm => (IF next > run[r].lag THEN next - run[r].lag ELSE 0) \in Nat
      BY <3>1, <3>2, HubAssumption DEF Ages
    <3>4. CASE next = NoAlarm
      <4>1. alarm' = alarm /\ budget' = budget
        BY <2>11, <3>4 DEF RunFinishes, clock
      <4>2. run' \in [Run -> Runs]
        BY <2>11, <1>t, <1>i DEF RunFinishes, TypeOK
      <4>. QED BY <2>11, <1>t, <4>1, <4>2 DEF RunFinishes, TypeOK
    <3>5. CASE next # NoAlarm
      <4>1. SetAlarm(IF next > run[r].lag THEN next - run[r].lag ELSE 0)
        BY <2>11, <3>5 DEF RunFinishes
      <4>2. alarm' \in Alarms /\ budget' \in Budgets
        BY <3>3, <3>5, <4>1, <1>t, SetAlarmType
      <4>3. run' \in [Run -> Runs]
        BY <2>11, <1>t, <1>i DEF RunFinishes, TypeOK
      <4>. QED BY <2>11, <1>t, <4>2, <4>3 DEF RunFinishes, TypeOK
    <3>. QED BY <3>4, <3>5
  <2>. QED BY <1>15, <2>1, <2>2, <2>3, <2>4, <2>5, <2>6, <2>7, <2>8, <2>9, <2>10, <2>11 DEF RunStep
<1>a. \A R : RetriedAlarm(R) \in Alarms
  BY <1>t DEF RetriedAlarm, TypeOK, Alarms
<1>16. ASSUME NEW r \in Run, QueryFails(r) PROVE TypeOK'
  <2>1. faults' \in 0..MaxFaults
    BY <1>16, <1>f DEF QueryFails
  <2>2. run' \in [Run -> Runs]
    BY <1>16, <1>t, <1>i DEF QueryFails, TypeOK
  <2>. QED BY <1>16, <1>t, <1>a, <2>1, <2>2 DEF QueryFails, TypeOK
<1>17. ASSUME NEW r \in Run, AlarmFires(r) PROVE TypeOK'
  <2>1. run' \in [Run -> Runs]
    BY <1>17, <1>t, DispatchingType DEF AlarmFires, TypeOK
  <2>. QED BY <1>17, <1>t, <2>1 DEF AlarmFires, TypeOK, Alarms
<1>18. CASE Restart
  <2>1. faults' \in 0..MaxFaults
    BY <1>18, <1>f DEF Restart
  <2>2. run' \in [Run -> Runs]
    BY <1>18, <1>i DEF Restart
  <2>3. rename' \in [todo : SUBSET Row, to : [Name -> Name]]
    BY <1>18, <1>i DEF Restart
  <2>4. socket' \in {"none", "open", "ready"}
    BY <1>18, <1>t DEF Restart, TypeOK
  <2>. QED BY <1>18, <1>t, <1>a, <2>1, <2>2, <2>3, <2>4 DEF Restart, TypeOK
<1>19. CASE RevokeConnection
  BY <1>19, <1>t DEF RevokeConnection, TypeOK, clock
<1>20. CASE Tick
  <2>1. 1 \in Ages /\ 0 \in Ages
    BY HubAssumption DEF Ages
  <2>2. \A item \in Item : Older(item) \in Item
    <3>1. ASSUME NEW item \in Item
          PROVE  Older(item) \in Item
      <4>1. Later(item.age, 1) \in Ages /\ Later(item.wait, 1) \in Ages
        BY TimeTypes DEF Item
      <4>. QED BY <4>1 DEF Older, Item
    <3>. QED BY <3>1
  <2>3. queue' \in [Key -> Item \union {None}]
    BY <1>20, <1>t, <2>2 DEF Tick, TypeOK
  <2>4. gone' \in [Name -> Ages]
    BY <1>20, <1>t, <2>1, TimeTypes DEF Tick, TypeOK
  <2>5. ASSUME NEW r \in Run PROVE [run[r] EXCEPT !.lag = Later(@, 1)] \in Runs
    <3>1. run[r] \in Runs /\ Later(run[r].lag, 1) \in Ages
      BY <1>t, <2>1, TimeTypes DEF TypeOK, Runs
    <3>. QED BY <3>1 DEF Runs
  <2>6. run' \in [Run -> Runs]
    BY <1>20, <1>t, <2>5 DEF Tick, TypeOK
  <2>7. alarm' \in Alarms /\ budget' \in Budgets
    BY <1>20, <1>t, <2>1, BudgetTypes DEF Tick, TypeOK
  <2>. QED BY <1>20, <1>t, <2>3, <2>4, <2>6, <2>7 DEF Tick, TypeOK
<1>21. CASE UNCHANGED vars
  BY <1>21, <1>t DEF vars, TypeOK
<1>22. CASE Next
  BY <1>22, <1>1, <1>2, <1>3, <1>4, <1>5, <1>6, <1>7, <1>8, <1>9, <1>10, <1>11, <1>12,
     <1>13, <1>14, <1>15, <1>16, <1>17, <1>18, <1>19, <1>20
     DEF Next, DaemonAnswers
<1>. QED BY <1>21, <1>22

(* A step that only drops or rewrites entries in place keeps the ownership. *)
LEMMA OwnedShrinks ==
  ASSUME TypeOK, TypeOK', NEW own, OwnedBy(own), qseq' = qseq,
         \A k \in Key : queue'[k] # None =>
            queue[k] # None /\ queue'[k].id = queue[k].id /\ queue'[k].agent = queue[k].agent,
         \A m \in Msg, n \in Name : marker'[m][n].status \in {"queued", "dead"} =>
            marker'[m][n] = marker[m][n],
         \A r \in Run : run'[r].todo \subseteq run[r].todo,
         rename'.todo \subseteq rename.todo
  PROVE  OwnedBy(own)'
<1>1. \A k \in Key : queue'[k] # None => RowOwned(own, qseq', k, queue'[k])
  BY DEF OwnedBy, RowOwned
<1>2. \A m \in Msg, n \in Name : MarkerOwned(own, qseq', m, n, marker'[m][n])
  BY DEF OwnedBy, MarkerOwned
<1>3. \A r \in Run : \A row \in run'[r].todo : RowOwned(own, qseq', row.key, row.item)
  BY DEF OwnedBy, RowOwned
<1>4. \A row \in rename'.todo : RowOwned(own, qseq', row.key, row.item)
  BY DEF OwnedBy, RowOwned
<1>. QED BY <1>1, <1>2, <1>3, <1>4 DEF OwnedBy

(* A quiet step touches neither entries nor markers and lists no new rows. *)
Quiet ==
  /\ queue' = queue /\ marker' = marker /\ qseq' = qseq
  /\ \A r \in Run : run'[r].todo \subseteq run[r].todo
  /\ rename'.todo \subseteq rename.todo

(* Quiet steps keep the two inductive parts. *)
LEMMA QuietStep ==
  ASSUME IInv, TypeOK', Quiet PROVE QueuedHasEntry' /\ SeqsOwned'
<1>1. PICK own \in [Seqs -> Msg \union {None}] : OwnedBy(own)
  BY DEF IInv, SeqsOwned
<1>2. OwnedBy(own)'
  BY <1>1, OwnedShrinks DEF IInv, Quiet
<1>3. QueuedHasEntry'
  BY DEF IInv, QueuedHasEntry, Quiet
<1>. QED BY <1>2, <1>3 DEF SeqsOwned

(* A run that lists the queue gets owned rows. *)
LEMMA ListedOwned ==
  ASSUME NEW q \in [Key -> Item \union {None}], NEW auto \in BOOLEAN, NEW own, NEW last,
         \A k \in Key : q[k] # None => RowOwned(own, last, k, q[k])
  PROVE  \A row \in Dispatching(q, auto).todo : RowOwned(own, last, row.key, row.item)
BY DispatchingType

(* A step whose only effect on entries and rows is that run r lists the queue. *)
LEMMA ListStep ==
  ASSUME IInv, TypeOK', NEW r \in Run, NEW auto \in BOOLEAN,
         run' = [run EXCEPT ![r] = Dispatching(queue, auto)],
         queue' = queue, marker' = marker, qseq' = qseq, rename' = rename
  PROVE  QueuedHasEntry' /\ SeqsOwned'
<1>1. PICK own \in [Seqs -> Msg \union {None}] : OwnedBy(own)
  BY DEF IInv, SeqsOwned
<1>2. \A row \in Dispatching(queue, auto).todo : RowOwned(own, qseq, row.key, row.item)
  BY <1>1, ListedOwned DEF OwnedBy, IInv, TypeOK
<1>3. \A x \in Run : \A row \in run'[x].todo : RowOwned(own, qseq', row.key, row.item)
  BY <1>1, <1>2 DEF OwnedBy, IInv, TypeOK
<1>4. OwnedBy(own)'
  BY <1>1, <1>3 DEF OwnedBy
<1>5. QueuedHasEntry'
  BY DEF IInv, QueuedHasEntry
<1>. QED BY <1>4, <1>5 DEF SeqsOwned

(* An entry is removed together with the marker that points to it, which     *)
(* becomes mk: an ack, a nak or markDead with a row as stale as it may be.   *)
LEMMA RemoveStep ==
  ASSUME IInv, TypeOK', NEW own \in [Seqs -> Msg \union {None}], OwnedBy(own),
         NEW k \in Key, NEW m \in Msg, k[1] \in Name, own[k[2]] = m, NEW mk,
         mk.status # "queued", MarkerOwned(own, qseq, m, k[1], mk),
         queue' = [queue EXCEPT ![k] = None],
         marker' = [marker EXCEPT ![m][k[1]] = mk],
         qseq' = qseq, rename' = rename,
         \A r \in Run : run'[r].todo \subseteq run[r].todo
  PROVE  QueuedHasEntry' /\ SeqsOwned'
<1>1. /\ queue'[k] = None
      /\ \A j \in Key : j # k => queue'[j] = queue[j]
  BY DEF IInv, TypeOK
<1>2. marker'[m][k[1]] = mk
      /\ \A m2 \in Msg, n2 \in Name : (m2 # m \/ n2 # k[1]) => marker'[m2][n2] = marker[m2][n2]
  BY DEF IInv, TypeOK
<1>3. OwnedBy(own)'
  <2>1. \A j \in Key : queue'[j] # None => RowOwned(own, qseq', j, queue'[j])
    BY <1>1 DEF OwnedBy
  <2>2. \A m2 \in Msg, n2 \in Name : MarkerOwned(own, qseq', m2, n2, marker'[m2][n2])
    BY <1>2 DEF OwnedBy
  <2>3. \A r \in Run : \A row \in run'[r].todo : RowOwned(own, qseq', row.key, row.item)
    BY DEF OwnedBy
  <2>4. \A row \in rename'.todo : RowOwned(own, qseq', row.key, row.item)
    BY DEF OwnedBy
  <2>. QED BY <2>1, <2>2, <2>3, <2>4 DEF OwnedBy
<1>4. ASSUME NEW m2 \in Msg, NEW n2 \in Name, marker'[m2][n2].status = "queued"
      PROVE  /\ marker'[m2][n2].key \in Key
             /\ queue'[marker'[m2][n2].key] # None
             /\ queue'[marker'[m2][n2].key].id = m2 /\ queue'[marker'[m2][n2].key].agent = n2
  <2>1. m2 # m \/ n2 # k[1]
    BY <1>2, <1>4
  <2>2. marker'[m2][n2] = marker[m2][n2]
    BY <1>2, <2>1
  <2>3. /\ marker[m2][n2].key \in Key /\ queue[marker[m2][n2].key] # None
        /\ queue[marker[m2][n2].key].id = m2 /\ queue[marker[m2][n2].key].agent = n2
    BY <1>4, <2>2 DEF IInv, QueuedHasEntry
  <2>4. marker[m2][n2].key # k
    BY <2>1, <2>3 DEF OwnedBy, RowOwned
  <2>. QED BY <1>1, <2>2, <2>3, <2>4
<1>5. QueuedHasEntry'
  BY <1>4 DEF QueuedHasEntry
<1>. QED BY <1>3, <1>5 DEF SeqsOwned

(* markDead keeps them, for the row of a run however stale it is. *)
LEMMA MarkDeadStep ==
  ASSUME IInv, TypeOK', NEW own \in [Seqs -> Msg \union {None}], OwnedBy(own),
         NEW k \in Key, NEW item \in Item, RowOwned(own, qseq, k, item),
         MarkDead(k, item), qseq' = qseq, rename' = rename,
         \A r \in Run : run'[r].todo \subseteq run[r].todo
  PROVE  QueuedHasEntry' /\ SeqsOwned'
<1>1. item.id \in Msg /\ item.agent = k[1] /\ k[1] \in Name /\ own[k[2]] = item.id
  BY DEF Item, RowOwned, Key
<1>2. Dead(k).status # "queued" /\ MarkerOwned(own, qseq, item.id, k[1], Dead(k))
  BY <1>1 DEF Dead, MarkerOwned, RowOwned
<1>3. /\ queue' = [queue EXCEPT ![k] = None]
      /\ marker' = [marker EXCEPT ![item.id][k[1]] = Dead(k)]
  BY <1>1 DEF MarkDead
<1> HIDE DEF Dead
<1>. QED BY <1>1, <1>2, <1>3, RemoveStep

(* Entries are rewritten in place and keep their message and agent. *)
LEMMA RewriteStep ==
  ASSUME IInv, TypeOK', marker' = marker, qseq' = qseq, rename' = rename,
         \A k \in Key : queue'[k] # None => queue[k] # None,
         \A k \in Key : queue[k] # None =>
            queue'[k] # None /\ queue'[k].id = queue[k].id /\ queue'[k].agent = queue[k].agent,
         \A r \in Run : run'[r].todo \subseteq run[r].todo
  PROVE  QueuedHasEntry' /\ SeqsOwned'
<1>1. PICK own \in [Seqs -> Msg \union {None}] : OwnedBy(own)
  BY DEF IInv, SeqsOwned
<1>2. OwnedBy(own)'
  BY <1>1, OwnedShrinks DEF IInv
<1>3. QueuedHasEntry'
  BY DEF IInv, QueuedHasEntry
<1>. QED BY <1>2, <1>3 DEF SeqsOwned

(* An ack settles one recipient and removes its entry. *)
LEMMA AckStep ==
  ASSUME IInv, TypeOK', NEW m \in Msg, NEW e, HandleDeliveryAck(m, e),
         qseq' = qseq, rename' = rename, run' = run
  PROVE  QueuedHasEntry' /\ SeqsOwned'
<1>1. PICK own \in [Seqs -> Msg \union {None}] : OwnedBy(own)
  BY DEF IInv, SeqsOwned
<1>2. PICK x \in Answerable(m, e) : /\ queue' = [queue EXCEPT ![marker[m][x].key] = None]
                                    /\ marker' = [marker EXCEPT ![m][x] = Injected]
  BY DEF HandleDeliveryAck
<1> DEFINE k == marker[m][x].key
<1>3. /\ x \in Name /\ k \in Key /\ queue[k] \in Item
      /\ queue[k].id = m /\ queue[k].agent = x
  BY AnswerableType
<1>4. queue[k] # None
  BY <1>3, HubAssumption
<1>5. k[1] = x /\ own[k[2]] = m
  BY <1>1, <1>3, <1>4 DEF OwnedBy, RowOwned
<1>6. Injected.status # "queued" /\ MarkerOwned(own, qseq, m, k[1], Injected)
  BY DEF Injected, MarkerOwned
<1>7. queue' = [queue EXCEPT ![k] = None] /\ marker' = [marker EXCEPT ![m][k[1]] = Injected]
  BY <1>2, <1>5
<1> HIDE DEF k, Injected
<1>. QED BY <1>1, <1>3, <1>5, <1>6, <1>7, RemoveStep

(* A new entry under a fresh sequence number. *)
LEMMA QueueStep ==
  ASSUME IInv, TypeOK', NEW r \in Run, NEW m \in Msg, NEW n \in Name, NEW re \in BOOLEAN,
         QueueDelivery(m, n, re, r)
  PROVE  QueuedHasEntry' /\ SeqsOwned'
<1>1. PICK own \in [Seqs -> Msg \union {None}] : OwnedBy(own)
  BY DEF IInv, SeqsOwned
<1>0. PICK s : s = qseq + 1
  OBVIOUS
<1>a. PICK k : k = <<n, s>>
  OBVIOUS
<1>b. PICK now : now = [own EXCEPT ![s] = m]
  OBVIOUS
<1>2. s \in Seqs /\ k \in Key /\ qseq \in Nat /\ qseq' = s /\ rename' = rename
  BY <1>0, <1>a, HubAssumption DEF IInv, TypeOK, QueueDelivery, Seqs, Key
<1>3. NewItem(m, n).id = m /\ NewItem(m, n).agent = n /\ NewItem(m, n) # None
  BY HubAssumption DEF NewItem, Item, Ages
<1>4. queue'[k] = NewItem(m, n) /\ \A j \in Key : j # k => queue'[j] = queue[j]
  BY <1>0, <1>a, <1>2 DEF IInv, TypeOK, QueueDelivery
<1>5. marker'[m][n] = Queued(k)
      /\ \A m2 \in Msg, n2 \in Name : (m2 # m \/ n2 # n) => marker'[m2][n2] = marker[m2][n2]
  BY <1>0, <1>a DEF IInv, TypeOK, QueueDelivery
<1>6. \A x \in Run : run'[x].todo = run[x].todo
  BY DEF IInv, TypeOK, QueueDelivery, WillDispatch
<1>7. now \in [Seqs -> Msg \union {None}] /\ now[s] = m
      /\ \A t \in Seqs : t <= qseq => now[t] = own[t]
  BY <1>0, <1>b, <1>2 DEF Seqs
<1>8. \A j \in Key : j[2] \in Seqs /\ j[1] \in Name
  BY DEF Key
<1>9. \A j \in Key, i \in Item : RowOwned(own, qseq, j, i) => RowOwned(now, s, j, i)
  BY <1>0, <1>2, <1>7, <1>8, HubAssumption DEF RowOwned, Seqs
<1>10. RowOwned(now, s, k, NewItem(m, n))
  BY <1>0, <1>a, <1>2, <1>3, <1>7 DEF RowOwned
<1>11. \A m2 \in Msg, n2 \in Name :
         MarkerOwned(own, qseq, m2, n2, marker[m2][n2]) => MarkerOwned(now, s, m2, n2, marker[m2][n2])
  BY <1>0, <1>2, <1>7, <1>8 DEF MarkerOwned, Seqs
<1>12. MarkerOwned(now, s, m, n, Queued(k))
  BY <1>0, <1>a, <1>2, <1>7 DEF MarkerOwned, Queued
<1>13. \A j \in Key : queue[j] # None => queue[j] \in Item
  BY DEF IInv, TypeOK
<1>14. \A x \in Run : \A row \in run[x].todo : row.key \in Key /\ row.item \in Item
  BY DEF IInv, TypeOK, Runs, Row
<1>15. \A row \in rename.todo : row.key \in Key /\ row.item \in Item
  BY DEF IInv, TypeOK, Row
<1>16. OwnedBy(now)'
  <2>1. \A j \in Key : queue'[j] # None => RowOwned(now, qseq', j, queue'[j])
    BY <1>1, <1>2, <1>4, <1>9, <1>10, <1>13 DEF OwnedBy
  <2>2. \A m2 \in Msg, n2 \in Name : MarkerOwned(now, qseq', m2, n2, marker'[m2][n2])
    BY <1>1, <1>2, <1>5, <1>11, <1>12 DEF OwnedBy
  <2>3. \A x \in Run : \A row \in run'[x].todo : RowOwned(now, qseq', row.key, row.item)
    BY <1>1, <1>2, <1>6, <1>9, <1>14 DEF OwnedBy
  <2>4. \A row \in rename'.todo : RowOwned(now, qseq', row.key, row.item)
    BY <1>1, <1>2, <1>9, <1>15 DEF OwnedBy
  <2>. QED BY <2>1, <2>2, <2>3, <2>4 DEF OwnedBy
<1>17. ASSUME NEW m2 \in Msg, NEW n2 \in Name, marker'[m2][n2].status = "queued"
       PROVE  /\ marker'[m2][n2].key \in Key
              /\ queue'[marker'[m2][n2].key] # None
              /\ queue'[marker'[m2][n2].key].id = m2 /\ queue'[marker'[m2][n2].key].agent = n2
  <2>1. CASE m2 = m /\ n2 = n
    BY <2>1, <1>2, <1>3, <1>4, <1>5 DEF Queued
  <2>2. CASE m2 # m \/ n2 # n
    <3>1. marker'[m2][n2] = marker[m2][n2]
      BY <1>5, <2>2
    <3>2. /\ marker[m2][n2].key \in Key /\ queue[marker[m2][n2].key] # None
          /\ queue[marker[m2][n2].key].id = m2 /\ queue[marker[m2][n2].key].agent = n2
      BY <1>17, <3>1 DEF IInv, QueuedHasEntry
    <3>3. marker[m2][n2].key[2] <= qseq
      BY <1>1, <3>2 DEF OwnedBy, RowOwned
    <3>4. marker[m2][n2].key # k
      BY <3>3, <1>0, <1>a, <1>2
    <3>. QED BY <1>4, <3>1, <3>2, <3>4
  <2>. QED BY <2>1, <2>2
<1>18. QueuedHasEntry'
  BY <1>17 DEF QueuedHasEntry
<1>. QED BY <1>7, <1>16, <1>18 DEF SeqsOwned

(* requeue puts a dead letter back under the key its marker kept. *)
LEMMA RequeueStep ==
  ASSUME IInv, TypeOK', NEW r \in Run, NEW m \in Msg, Requeue(m, r)
  PROVE  QueuedHasEntry' /\ SeqsOwned'
<1>1. PICK own \in [Seqs -> Msg \union {None}] : OwnedBy(own)
  BY DEF IInv, SeqsOwned
<1>2. PICK n \in FirstDead(m) :
        /\ queue' = [queue EXCEPT ![marker[m][n].key] = NewItem(m, n)]
        /\ marker' = [marker EXCEPT ![m][n] = Queued(marker[m][n].key)]
  BY DEF Requeue
<1> DEFINE k == marker[m][n].key
<1>3. n \in Name /\ marker[m][n].status = "dead"
  BY <1>2 DEF FirstDead
<1>4. k \in Key /\ k[1] = n /\ own[k[2]] = m /\ k[2] <= qseq
  BY <1>1, <1>3 DEF OwnedBy, MarkerOwned
<1>5. NewItem(m, n).id = m /\ NewItem(m, n).agent = n /\ NewItem(m, n) # None
  BY <1>3, HubAssumption DEF NewItem, Item, Ages
<1>6. queue' = [queue EXCEPT ![k] = NewItem(m, n)] /\ marker' = [marker EXCEPT ![m][n] = Queued(k)]
  BY <1>2
<1>7. qseq' = qseq /\ rename' = rename /\ run' = [run EXCEPT ![r] = Dispatching(queue', FALSE)]
  BY DEF Requeue, CallsDispatch
<1> HIDE DEF k
<1>8. queue'[k] = NewItem(m, n) /\ \A j \in Key : j # k => queue'[j] = queue[j]
  BY <1>4, <1>6 DEF IInv, TypeOK
<1>9. marker'[m][n] = Queued(k)
      /\ \A m2 \in Msg, n2 \in Name : (m2 # m \/ n2 # n) => marker'[m2][n2] = marker[m2][n2]
  BY <1>3, <1>6 DEF IInv, TypeOK
<1>10. \A j \in Key : queue'[j] # None => RowOwned(own, qseq', j, queue'[j])
  BY <1>1, <1>4, <1>5, <1>7, <1>8 DEF OwnedBy, RowOwned
<1>11. \A row \in Dispatching(queue', FALSE).todo : RowOwned(own, qseq', row.key, row.item)
  BY <1>10, ListedOwned DEF TypeOK
<1>12. OwnedBy(own)'
  <2>1. \A m2 \in Msg, n2 \in Name : MarkerOwned(own, qseq', m2, n2, marker'[m2][n2])
    BY <1>1, <1>4, <1>7, <1>9 DEF OwnedBy, MarkerOwned, Queued
  <2>2. \A x \in Run : \A row \in run'[x].todo : RowOwned(own, qseq', row.key, row.item)
    BY <1>1, <1>7, <1>11 DEF OwnedBy, IInv, TypeOK
  <2>3. \A row \in rename'.todo : RowOwned(own, qseq', row.key, row.item)
    BY <1>1, <1>7 DEF OwnedBy
  <2>. QED BY <1>10, <2>1, <2>2, <2>3 DEF OwnedBy
<1>13. ASSUME NEW m2 \in Msg, NEW n2 \in Name, marker'[m2][n2].status = "queued"
       PROVE  /\ marker'[m2][n2].key \in Key
              /\ queue'[marker'[m2][n2].key] # None
              /\ queue'[marker'[m2][n2].key].id = m2 /\ queue'[marker'[m2][n2].key].agent = n2
  <2>1. CASE m2 = m /\ n2 = n
    BY <2>1, <1>4, <1>5, <1>8, <1>9 DEF Queued
  <2>2. CASE m2 # m \/ n2 # n
    <3>1. marker'[m2][n2] = marker[m2][n2]
      BY <1>9, <2>2
    <3>2. /\ marker[m2][n2].key \in Key /\ queue[marker[m2][n2].key] # None
          /\ queue[marker[m2][n2].key].id = m2 /\ queue[marker[m2][n2].key].agent = n2
      BY <1>13, <3>1 DEF IInv, QueuedHasEntry
    <3>3. marker[m2][n2].key # k
      BY <1>1, <1>4, <2>2, <3>2 DEF OwnedBy, RowOwned
    <3>. QED BY <1>8, <3>1, <3>2, <3>3
  <2>. QED BY <2>1, <2>2
<1>14. QueuedHasEntry'
  BY <1>13 DEF QueuedHasEntry
<1>. QED BY <1>12, <1>14 DEF SeqsOwned

(* applyRoster lists the entries it will move: rows of the queue. *)
LEMMA RosterStep ==
  ASSUME IInv, TypeOK', NEW r \in Run, NEW new \in Rosters, ApplyRoster(new, r)
  PROVE  QueuedHasEntry' /\ SeqsOwned'
<1>1. PICK own \in [Seqs -> Msg \union {None}] : OwnedBy(own)
  BY DEF IInv, SeqsOwned
<1>2. queue' = queue /\ marker' = marker /\ qseq' = qseq
  BY DEF ApplyRoster
<1>3. \A x \in Run : run'[x].todo = run[x].todo
  BY DEF IInv, TypeOK, ApplyRoster, WillDispatch
<1>4. \A row \in rename'.todo : RowOwned(own, qseq', row.key, row.item)
  <2>1. SUFFICES ASSUME NEW row \in rename'.todo PROVE RowOwned(own, qseq, row.key, row.item)
    BY <1>2
  <2>2. PICK k \in LiveKeys(queue) : row = [key |-> k, item |-> queue[k]]
    BY DEF ApplyRoster
  <2>3. k \in Key /\ queue[k] # None
    BY DEF LiveKeys
  <2>. QED BY <1>1, <2>2, <2>3 DEF OwnedBy
<1>5. OwnedBy(own)'
  BY <1>1, <1>2, <1>3, <1>4 DEF OwnedBy
<1>6. QueuedHasEntry'
  BY <1>2 DEF IInv, QueuedHasEntry
<1>. QED BY <1>5, <1>6 DEF SeqsOwned

(* cancelDelivery removes exactly the entries whose markers it settles. *)
LEMMA CancelStep ==
  ASSUME IInv, TypeOK', NEW m \in Msg, CancelDelivery(m)
  PROVE  QueuedHasEntry' /\ SeqsOwned'
<1>1. PICK own \in [Seqs -> Msg \union {None}] : OwnedBy(own)
  BY DEF IInv, SeqsOwned
<1>2. \A k \in Key : queue'[k] = IF \E n \in QueuedFor(m) : marker[m][n].key = k
                                 THEN None ELSE queue[k]
  BY DEF CancelDelivery
<1>3. \A n \in Name : marker'[m][n] = IF n \in QueuedFor(m) THEN Injected ELSE marker[m][n]
  BY DEF CancelDelivery, IInv, TypeOK
<1>4. \A m2 \in Msg, n \in Name : m2 # m => marker'[m2][n] = marker[m2][n]
  BY DEF CancelDelivery, IInv, TypeOK
<1>5. Injected.status = "injected"
  BY DEF Injected
<1>6. qseq' = qseq /\ run' = run /\ rename' = rename
  BY DEF CancelDelivery
<1>7. \A k \in Key : queue'[k] # None => queue[k] # None /\ queue'[k] = queue[k]
  BY <1>2
<1>8. \A m2 \in Msg, n \in Name : marker'[m2][n].status \in {"queued", "dead"} =>
        marker'[m2][n] = marker[m2][n]
  BY <1>3, <1>4, <1>5
<1>9. OwnedBy(own)'
  BY <1>1, <1>6, <1>7, <1>8, OwnedShrinks DEF IInv
<1>10. ASSUME NEW m2 \in Msg, NEW n2 \in Name, marker'[m2][n2].status = "queued"
       PROVE  /\ marker'[m2][n2].key \in Key
              /\ queue'[marker'[m2][n2].key] # None
              /\ queue'[marker'[m2][n2].key].id = m2 /\ queue'[marker'[m2][n2].key].agent = n2
  <2>1. marker'[m2][n2] = marker[m2][n2]
    BY <1>8, <1>10
  <2>2. m2 # m
    BY <1>3, <1>5, <1>10, <2>1 DEF QueuedFor
  <2>3. /\ marker[m2][n2].key \in Key /\ queue[marker[m2][n2].key] # None
        /\ queue[marker[m2][n2].key].id = m2 /\ queue[marker[m2][n2].key].agent = n2
    BY <1>10, <2>1 DEF IInv, QueuedHasEntry
  <2>4. ~ \E n \in QueuedFor(m) : marker[m][n].key = marker[m2][n2].key
    BY <2>2, <2>3 DEF IInv, QueuedHasEntry, QueuedFor
  <2>. QED BY <1>2, <2>1, <2>3, <2>4
<1>11. QueuedHasEntry'
  BY <1>10 DEF QueuedHasEntry
<1>. QED BY <1>9, <1>11 DEF SeqsOwned

(* Moving one entry to the agent's new name moves its marker along; whatever *)
(* stood at the new key carried the same sequence number, hence the same     *)
(* message, so no third marker loses its entry.                              *)
LEMMA RenameStep ==
  ASSUME IInv, TypeOK', RenameEntry
  PROVE  QueuedHasEntry' /\ SeqsOwned'
<1>1. PICK own \in [Seqs -> Msg \union {None}] : OwnedBy(own)
  BY DEF IInv, SeqsOwned
<1>2. PICK row \in First(rename.todo) :
        LET new == rename.to[row.item.agent]
            key == <<new, row.key[2]>>
        IN /\ queue' = [queue EXCEPT ![row.key] = None,
                                     ![key] = [row.item EXCEPT !.agent = new]]
           /\ marker' = [marker EXCEPT ![row.item.id][row.item.agent] = NoMarker,
                                       ![row.item.id][new] = Queued(key)]
           /\ rename' = IF rename.todo = {row} THEN NoRename
                        ELSE [rename EXCEPT !.todo = @ \ {row}]
  BY DEF RenameEntry
<1>3. row \in rename.todo /\ row.key \in Key /\ row.item \in Item
  BY FirstType DEF IInv, TypeOK, Row, First
<1>4. PICK k : k = row.key
  OBVIOUS
<1>5. PICK id : id = row.item.id
  OBVIOUS
<1>6. PICK old : old = row.item.agent
  OBVIOUS
<1>7. PICK new : new = rename.to[old]
  OBVIOUS
<1>8. PICK key : key = <<new, k[2]>>
  OBVIOUS
<1>9. PICK moved : moved = [row.item EXCEPT !.agent = new]
  OBVIOUS
<1>10. k \in Key /\ id \in Msg /\ old \in Name /\ k[2] \in Seqs
  BY <1>3, <1>4, <1>5, <1>6 DEF Item, Key
<1>11. new \in Name
  BY <1>7, <1>10 DEF IInv, TypeOK
<1>12. key \in Key /\ key[1] = new /\ key[2] = k[2]
  BY <1>8, <1>10, <1>11 DEF Key
<1>13. RowOwned(own, qseq, k, row.item)
  BY <1>1, <1>3, <1>4 DEF OwnedBy
<1>14. old = k[1] /\ own[k[2]] = id /\ k[2] <= qseq
  BY <1>13, <1>5, <1>6 DEF RowOwned
<1>15. moved \in Item /\ moved.id = id /\ moved.agent = new
  BY <1>3, <1>5, <1>9, <1>11 DEF Item
<1>16. moved # None
  BY <1>15, HubAssumption
<1>17. queue' = [queue EXCEPT ![k] = None, ![key] = moved]
  BY <1>2, <1>4, <1>6, <1>7, <1>8, <1>9
<1>18. queue'[key] = moved /\ (k # key => queue'[k] = None)
       /\ \A j \in Key : j # k /\ j # key => queue'[j] = queue[j]
  BY <1>10, <1>12, <1>17 DEF IInv, TypeOK
<1>19. marker' = [marker EXCEPT ![id][old] = NoMarker, ![id][new] = Queued(key)]
  BY <1>2, <1>4, <1>5, <1>6, <1>7, <1>8
<1>20. marker'[id][new] = Queued(key) /\ (old # new => marker'[id][old] = NoMarker)
       /\ \A m2 \in Msg, n2 \in Name :
            m2 # id \/ (n2 # old /\ n2 # new) => marker'[m2][n2] = marker[m2][n2]
  BY <1>10, <1>11, <1>19 DEF IInv, TypeOK
<1>21. qseq' = qseq /\ run' = run /\ rename'.todo \subseteq rename.todo
  BY <1>2 DEF RenameEntry, NoRename, IInv, TypeOK
<1>22. OwnedBy(own)'
  <2>1. \A j \in Key : queue'[j] # None => RowOwned(own, qseq', j, queue'[j])
    BY <1>1, <1>12, <1>14, <1>15, <1>18, <1>21 DEF OwnedBy, RowOwned
  <2>2. MarkerOwned(own, qseq, id, new, Queued(key))
    BY <1>12, <1>14 DEF MarkerOwned, Queued
  <2>3. MarkerOwned(own, qseq, id, old, NoMarker)
    BY DEF MarkerOwned, NoMarker
  <2>4. \A m2 \in Msg, n2 \in Name : MarkerOwned(own, qseq', m2, n2, marker'[m2][n2])
    BY <1>1, <1>20, <1>21, <2>2, <2>3 DEF OwnedBy
  <2>5. \A r \in Run : \A x \in run'[r].todo : RowOwned(own, qseq', x.key, x.item)
    BY <1>1, <1>21 DEF OwnedBy
  <2>6. \A x \in rename'.todo : RowOwned(own, qseq', x.key, x.item)
    BY <1>1, <1>21 DEF OwnedBy
  <2>. QED BY <2>1, <2>4, <2>5, <2>6 DEF OwnedBy
<1>23. ASSUME NEW m2 \in Msg, NEW n2 \in Name, marker'[m2][n2].status = "queued"
       PROVE  /\ marker'[m2][n2].key \in Key
              /\ queue'[marker'[m2][n2].key] # None
              /\ queue'[marker'[m2][n2].key].id = m2 /\ queue'[marker'[m2][n2].key].agent = n2
  <2>1. CASE m2 = id /\ n2 = new
    <3>1. marker'[m2][n2].key = key
      BY <2>1, <1>20 DEF Queued
    <3>. QED BY <2>1, <3>1, <1>12, <1>15, <1>16, <1>18
  <2>2. CASE m2 = id /\ n2 = old /\ n2 # new
    BY <2>2, <1>20, <1>23 DEF NoMarker
  <2>3. CASE m2 # id \/ (n2 # old /\ n2 # new)
    <3>1. marker'[m2][n2] = marker[m2][n2]
      BY <1>20, <2>3
    <3>2. /\ marker[m2][n2].key \in Key /\ queue[marker[m2][n2].key] # None
          /\ queue[marker[m2][n2].key].id = m2 /\ queue[marker[m2][n2].key].agent = n2
      BY <1>23, <3>1 DEF IInv, QueuedHasEntry
    <3>3. marker[m2][n2].key # k /\ marker[m2][n2].key # key
      BY <1>1, <1>12, <1>14, <2>3, <3>2 DEF OwnedBy, RowOwned
    <3>. QED BY <1>18, <3>1, <3>2, <3>3
  <2>. QED BY <2>1, <2>2, <2>3
<1>24. QueuedHasEntry'
  BY <1>23 DEF QueuedHasEntry
<1>. QED BY <1>22, <1>24 DEF SeqsOwned

(* The inductive step for the two safety parts, one case per handler. *)
LEMMA SafeStep ==
  ASSUME IInv, TypeOK', [Next]_vars PROVE QueuedHasEntry' /\ SeqsOwned'
<1>t. TypeOK /\ run \in [Run -> Runs]
  BY DEF IInv, TypeOK
<1>o. PICK own \in [Seqs -> Msg \union {None}] : OwnedBy(own)
  BY DEF IInv, SeqsOwned
<1>1. ASSUME NEW r \in Run, NEW m \in Msg, NEW re \in BOOLEAN, NEW n \in Recipients[m],
             QueueDelivery(m, n, re, r)
      PROVE  QueuedHasEntry' /\ SeqsOwned'
  <2>1. n \in Name
    BY HubAssumption
  <2>. QED BY <1>1, <2>1, QueueStep
<1>2. ASSUME NEW m \in Msg, NEW n \in Name, NEW e \in {n, None},
             \/ DeliverAck(m, n, e) \/ NakDead(m, n, e) \/ NakHold(m, n, e)
             \/ NakRetry(m, n, e) \/ AnswerIgnored(m, n, e)
      PROVE  QueuedHasEntry' /\ SeqsOwned'
  <2>1. CASE DeliverAck(m, n, e)
    BY <2>1, AckStep DEF DeliverAck
  <2>2. CASE NakDead(m, n, e)
    <3>1. PICK x \in Answerable(m, e) : MarkDead(marker[m][x].key, queue[marker[m][x].key])
      BY <2>2 DEF NakDead
    <3>2. marker[m][x].key \in Key /\ queue[marker[m][x].key] \in Item
      BY AnswerableType
    <3>3. RowOwned(own, qseq, marker[m][x].key, queue[marker[m][x].key])
      BY <1>o, <3>2, HubAssumption DEF OwnedBy
    <3>4. qseq' = qseq /\ rename' = rename /\ run' = run
      BY <2>2 DEF NakDead
    <3>. QED BY <1>o, <3>1, <3>2, <3>3, <3>4, MarkDeadStep
  <2>3. CASE NakHold(m, n, e)
    <3>1. PICK x \in Answerable(m, e) :
            queue' = [queue EXCEPT ![marker[m][x].key] = Held(queue[marker[m][x].key])]
      BY <2>3 DEF NakHold
    <3>2. PICK k : k = marker[m][x].key
      OBVIOUS
    <3>3. k \in Key /\ queue[k] \in Item /\ queue[k] # None
      BY <3>2, AnswerableType, HubAssumption
    <3>4. Held(queue[k]).id = queue[k].id /\ Held(queue[k]).agent = queue[k].agent
          /\ Held(queue[k]) \in Item
      BY <3>3, EntryTypes DEF Held, Item
    <3>5. Held(queue[k]) # None
      BY <3>4, HubAssumption
    <3>6. queue'[k] = Held(queue[k]) /\ \A j \in Key : j # k => queue'[j] = queue[j]
      BY <1>t, <3>1, <3>2, <3>3 DEF TypeOK
    <3>7. /\ \A j \in Key : queue'[j] # None => queue[j] # None
          /\ \A j \in Key : queue[j] # None =>
               queue'[j] # None /\ queue'[j].id = queue[j].id /\ queue'[j].agent = queue[j].agent
      BY <3>3, <3>4, <3>5, <3>6
    <3>8. marker' = marker /\ qseq' = qseq /\ rename' = rename /\ run' = run
      BY <2>3 DEF NakHold
    <3>. QED BY <3>7, <3>8, RewriteStep
  <2>4. CASE NakRetry(m, n, e)
    <3>1. Quiet
      BY <2>4 DEF NakRetry, Quiet
    <3>. QED BY <3>1, QuietStep
  <2>5. CASE AnswerIgnored(m, n, e)
    <3>1. Quiet
      BY <2>5 DEF AnswerIgnored, Quiet
    <3>. QED BY <3>1, QuietStep
  <2>. QED BY <1>2, <2>1, <2>2, <2>3, <2>4, <2>5
<1>3. ASSUME NEW m \in Msg, CancelDelivery(m) PROVE QueuedHasEntry' /\ SeqsOwned'
  BY <1>3, CancelStep
<1>4. ASSUME NEW m \in Msg, NEW n \in Inbox, SettleInbox(m, n) PROVE QueuedHasEntry' /\ SeqsOwned'
  BY <1>4, AckStep DEF SettleInbox
<1>5. ASSUME NEW r \in Run, NEW m \in Requeueable, Requeue(m, r) PROVE QueuedHasEntry' /\ SeqsOwned'
  <2>1. m \in Msg
    BY HubAssumption
  <2>. QED BY <1>5, <2>1, RequeueStep
<1>6. CASE AcceptDaemon \/ CloseDaemon
  <2>1. \A r \in Run : SinksClosed[r].todo = run[r].todo
    BY <1>t DEF SinksClosed, Runs
  <2>2. Quiet
    BY <1>6, <2>1 DEF AcceptDaemon, CloseDaemon, Quiet
  <2>. QED BY <2>2, QuietStep
<1>7. CASE RenameEntry
  BY <1>7, RenameStep
<1>8. ASSUME NEW r \in Run, HandleHello(r) PROVE QueuedHasEntry' /\ SeqsOwned'
  BY <1>8, ListStep DEF HandleHello, CallsDispatch
<1>9. ASSUME NEW r \in Run, NEW new \in Rosters, ApplyRoster(new, r)
      PROVE  QueuedHasEntry' /\ SeqsOwned'
  BY <1>9, RosterStep
<1>10. ASSUME NEW r \in Run, AlarmFires(r) PROVE QueuedHasEntry' /\ SeqsOwned'
  BY <1>10, ListStep DEF AlarmFires
<1>q. ASSUME NEW r \in Run, NEW row, NEW p, NEW nxt, NextRow(r, row, p, nxt)
      PROVE  \A x \in Run : run'[x].todo \subseteq run[x].todo
  BY <1>q, <1>t DEF NextRow, Runs
<1>i. IdleRun.todo = {}
  BY DEF IdleRun
<1>11. ASSUME NEW r \in Run, RunStep(r) PROVE QueuedHasEntry' /\ SeqsOwned'
  <2>1. CASE RunBegins(r)
    BY <2>1, ListStep DEF RunBegins
  <2>2. CASE RunExpires(r) \/ RunRevokes(r)
    <3>1. PICK row \in First(run[r].todo) : /\ MarkDead(row.key, row.item)
                                            /\ NextRow(r, row, "dead", run[r].next)
      BY <2>2 DEF RunExpires, RunRevokes
    <3>2. row \in run[r].todo /\ row.key \in Key /\ row.item \in Item
      BY <1>t, FirstType
    <3>3. RowOwned(own, qseq, row.key, row.item)
      BY <1>o, <3>2 DEF OwnedBy
    <3>4. qseq' = qseq /\ rename' = rename
      BY <2>2 DEF RunExpires, RunRevokes
    <3>. QED BY <1>o, <1>q, <3>1, <3>2, <3>3, <3>4, MarkDeadStep
  <2>3. CASE RunAsks(r) \/ QueryAnswers(r) \/ RunResumes(r)
    <3>1. Quiet
      BY <2>3, <1>t DEF RunAsks, QueryAnswers, RunResumes, Quiet, Runs
    <3>. QED BY <3>1, QuietStep
  <2>4. CASE RunHolds(r) \/ RunWaits(r) \/ RunLosesClaim(r)
    <3>1. Quiet
      BY <2>4, <1>q DEF RunHolds, RunWaits, RunLosesClaim, Quiet
    <3>. QED BY <3>1, QuietStep
  <2>5. CASE RunSends(r)
    <3>1. PICK row \in First(run[r].todo) :
            /\ Cleared(r, row) /\ Claimable(row)
            /\ queue' = [queue EXCEPT ![row.key] = Attempted(row.item, run[r].lag)]
            /\ NextRow(r, row, "loop", Earlier(run[r].next, RetryDelay[row.item.attempts + 1]))
      BY <2>5 DEF RunSends
    <3>2. row \in run[r].todo /\ row.key \in Key /\ row.item \in Item /\ run[r].lag \in Ages
      BY <1>t, FirstType DEF Runs
    <3>3. RowOwned(own, qseq, row.key, row.item)
      BY <1>o, <3>2 DEF OwnedBy
    <3>4. queue[row.key] # None /\ RowOwned(own, qseq, row.key, queue[row.key])
      BY <1>o, <3>1, <3>2 DEF Claimable, OwnedBy
    <3>5. PICK sent : sent = Attempted(row.item, run[r].lag)
      OBVIOUS
    <3>6. sent \in Item /\ sent.id = row.item.id /\ sent.agent = row.item.agent
      <4>1. row.item.id \in Msg /\ row.item.agent \in Name /\ ~Expired(row.item)
        BY <3>1, <3>2 DEF Cleared, Item
      <4>. QED BY <3>2, <3>5, <4>1, EntryTypes
    <3>7. queue'[row.key] = sent /\ \A j \in Key : j # row.key => queue'[j] = queue[j]
      BY <1>t, <3>1, <3>2, <3>5 DEF TypeOK
    <3>8. /\ \A j \in Key : queue'[j] # None => queue[j] # None
          /\ \A j \in Key : queue[j] # None =>
               queue'[j] # None /\ queue'[j].id = queue[j].id /\ queue'[j].agent = queue[j].agent
      BY <3>3, <3>4, <3>6, <3>7, HubAssumption DEF RowOwned
    <3>9. marker' = marker /\ qseq' = qseq /\ rename' = rename
      BY <2>5 DEF RunSends
    <3>. QED BY <1>q, <3>1, <3>8, <3>9, RewriteStep
  <2>6. CASE RunFinishes(r)
    <3>1. Quiet
      BY <2>6, <1>t, <1>i DEF RunFinishes, Quiet
    <3>. QED BY <3>1, QuietStep
  <2>. QED BY <1>11, <2>1, <2>2, <2>3, <2>4, <2>5, <2>6 DEF RunStep
<1>12. ASSUME NEW r \in Run, QueryFails(r) PROVE QueuedHasEntry' /\ SeqsOwned'
  <2>1. Quiet
    BY <1>12, <1>t, <1>i DEF QueryFails, Quiet
  <2>. QED BY <2>1, QuietStep
<1>13. CASE Restart
  <2>1. Quiet
    BY <1>13, <1>i DEF Restart, Quiet, NoRename
  <2>. QED BY <2>1, QuietStep
<1>14. CASE RevokeConnection \/ UNCHANGED vars
  <2>1. Quiet
    BY <1>14 DEF RevokeConnection, vars, Quiet
  <2>. QED BY <2>1, QuietStep
<1>15. CASE Tick
  <2>1. \A r \in Run : run'[r].todo = run[r].todo
    BY <1>15, <1>t DEF Tick, Runs
  <2>2. \A item \in Item : Older(item).id = item.id /\ Older(item).agent = item.agent
    BY DEF Older, Item
  <2>3. \A item \in Item : Older(item) # None
    <3>1. 1 \in Ages
      BY HubAssumption DEF Ages
    <3>2. SUFFICES ASSUME NEW item \in Item PROVE Older(item) \in Item
      BY HubAssumption
    <3>3. Later(item.age, 1) \in Ages /\ Later(item.wait, 1) \in Ages
      BY <3>1, TimeTypes DEF Item
    <3>. QED BY <3>3 DEF Older, Item
  <2>4. /\ \A j \in Key : queue'[j] # None => queue[j] # None
        /\ \A j \in Key : queue[j] # None =>
             queue'[j] # None /\ queue'[j].id = queue[j].id /\ queue'[j].agent = queue[j].agent
    BY <1>15, <1>t, <2>2, <2>3 DEF Tick, TypeOK
  <2>5. marker' = marker /\ qseq' = qseq /\ rename' = rename
    BY <1>15 DEF Tick
  <2>. QED BY <2>1, <2>4, <2>5, RewriteStep
<1>. QED BY <1>1, <1>2, <1>3, <1>4, <1>5, <1>6, <1>7, <1>8, <1>9, <1>10, <1>11, <1>12, <1>13,
            <1>14, <1>15 DEF Next, DaemonAnswers

(* Storage starts empty, with no run, rename or frame in progress. *)
LEMMA InitInv ==
  ASSUME Init PROVE IInv
<1>1. 0 \in Ages /\ TTL \in Ages /\ 0 \in 0..MaxSeq /\ 0 \in 0..MaxFrames /\ 0 \in 0..MaxFaults
  BY HubAssumption DEF Ages
<1>2. NoMarker \in Markers /\ NoMarker.status = "none"
  BY DEF NoMarker, Markers
<1>3. IdleRun \in Runs /\ IdleRun.todo = {}
  BY <1>1 DEF IdleRun, Runs
<1>4. NoRename \in [todo : SUBSET Row, to : [Name -> Name]] /\ NoRename.todo = {}
  BY DEF NoRename
<1>5. FreshBudget \in Budgets /\ NoAlarm \in Alarms
  BY BudgetAssumption DEF FreshBudget, Budgets, Alarms
<1>6. TypeOK
  BY <1>1, <1>2, <1>3, <1>4, <1>5 DEF Init, TypeOK
<1>7. QueuedHasEntry
  BY <1>2 DEF Init, QueuedHasEntry
<1>8. PICK own : own = [s \in Seqs |-> None]
  OBVIOUS
<1>9. OwnedBy(own)
  BY <1>2, <1>3, <1>4 DEF Init, OwnedBy, MarkerOwned
<1>10. own \in [Seqs -> Msg \union {None}]
  BY <1>8
<1>. QED BY <1>6, <1>7, <1>9, <1>10 DEF IInv, SeqsOwned

(* The inductive invariant holds of every behaviour of HostHub's handlers. *)
THEOREM Invariance == Spec => []IInv
<1>1. Init => IInv
  BY InitInv
<1>2. IInv /\ [Next]_vars => IInv'
  BY TypeStep, SafeStep DEF IInv
<1>. QED BY <1>1, <1>2, PTL DEF Spec

(* Every variable keeps its type for every number of agents, messages and    *)
(* concurrent runs; in particular no claim, hold or requeue pushes an entry  *)
(* past MAX_DELIVERY_ATTEMPTS.                                               *)
THEOREM TypeCorrect == Spec => []TypeOK
<1>1. IInv => TypeOK
  BY DEF IInv
<1>. QED BY <1>1, Invariance, PTL

(* No black hole in the delivery queue: a "queued" marker, on which          *)
(* queueDelivery answers "duplicate", always has its entry behind it.        *)
THEOREM NoBlackHole == Spec => []QueuedHasEntry
<1>1. IInv => QueuedHasEntry
  BY DEF IInv
<1>. QED BY <1>1, Invariance, PTL

(* A queue sequence number belongs to one message for good, however stale    *)
(* the copies of its entry that dispatch runs and renames still hold.        *)
THEOREM SequencesOwned == Spec => []SeqsOwned
<1>1. IInv => SeqsOwned
  BY DEF IInv
<1>. QED BY <1>1, Invariance, PTL

-----------------------------------------------------------------------------
(* Two runs do not send one entry in a row *)

(* Copies of one entry age: a later one has more attempts behind it, or as   *)
(* many and a longer wait since the last.                                     *)
Behind(old, new) ==
  \/ old.attempts < new.attempts
  \/ old.attempts = new.attempts /\ old.wait <= new.wait

(* What keeps two runs from sending one entry in a row: a sequence number is *)
(* under one key at a time, and the rows that runs have listed are behind    *)
(* the entry, wherever renames have moved it.                                 *)
Paced ==
  /\ \A j, k \in Key : queue[j] # None /\ queue[k] # None /\ j[2] = k[2] => j = k
  /\ \A x \in rename.todo, k \in Key : queue[k] # None /\ k[2] = x.key[2] =>
       k = x.key /\ queue[k].attempts >= x.item.attempts
  /\ \A x, y \in rename.todo : x.key[2] = y.key[2] => x = y
  /\ \A r \in Run : \A row \in run[r].todo :
       /\ \A k \in Key : queue[k] # None /\ k[2] = row.key[2] => Behind(row.item, queue[k])
       /\ \A x \in rename.todo : x.key[2] = row.key[2] => Behind(row.item, x.item)

(* Behind is transitive, and entries only move ahead when time passes, when  *)
(* they are sent, or when they are renamed.                                   *)
LEMMA BehindMoves ==
  /\ \A a, b, c \in Item : Behind(a, b) /\ Behind(b, c) => Behind(a, c)
  /\ \A a \in Item : Behind(a, a) /\ Behind(a, Older(a))
<1>1. ASSUME NEW a \in Item, NEW b \in Item, NEW c \in Item, Behind(a, b), Behind(b, c)
      PROVE  Behind(a, c)
  <2>1. /\ a.attempts \in Nat /\ b.attempts \in Nat /\ c.attempts \in Nat
        /\ a.wait \in Nat /\ b.wait \in Nat /\ c.wait \in Nat
    BY HubAssumption DEF Item, Ages
  <2>. QED BY <1>1, <2>1 DEF Behind
<1>2. \A a \in Item : Behind(a, a)
  BY HubAssumption DEF Behind, Item, Ages
<1>3. ASSUME NEW a \in Item PROVE Behind(a, Older(a))
  <2>1. Later(a.wait, 1) >= a.wait /\ a.attempts \in Nat /\ a.wait \in Nat
    BY HubAssumption DEF Later, Item, Ages
  <2>2. Older(a).attempts = a.attempts /\ Older(a).wait = Later(a.wait, 1)
    BY DEF Older, Item
  <2>3. Later(a.wait, 1) \in Nat
    BY HubAssumption DEF Later, Item, Ages
  <2>. QED BY <2>1, <2>2, <2>3 DEF Behind
<1>. QED BY <1>1, <1>2, <1>3

(* The rows of runs and of the rename loop, and what they hold. *)
LEMMA RowTypes ==
  ASSUME TypeOK
  PROVE  /\ \A k \in Key : queue[k] # None => queue[k] \in Item
         /\ \A r \in Run : \A row \in run[r].todo : row.key \in Key /\ row.item \in Item
         /\ \A x \in rename.todo : x.key \in Key /\ x.item \in Item
BY DEF TypeOK, Runs, Row

(* Entries that disappear or move ahead, and rows that are done with. *)
LEMMA PacedShrinks ==
  ASSUME TypeOK, TypeOK', Paced,
         \A k \in Key : queue'[k] # None => queue[k] # None /\ Behind(queue[k], queue'[k]),
         \A r \in Run : run'[r].todo \subseteq run[r].todo,
         rename'.todo \subseteq rename.todo
  PROVE  Paced'
<1>1. \A j, k \in Key : queue'[j] # None /\ queue'[k] # None /\ j[2] = k[2] => j = k
  BY DEF Paced
<1>2. ASSUME NEW x \in rename'.todo, NEW k \in Key, queue'[k] # None, k[2] = x.key[2]
      PROVE  k = x.key /\ queue'[k].attempts >= x.item.attempts
  <2>1. x \in rename.todo /\ queue[k] # None /\ Behind(queue[k], queue'[k])
    BY <1>2
  <2>2. k = x.key /\ queue[k].attempts >= x.item.attempts
    BY <1>2, <2>1 DEF Paced
  <2>3. queue[k] \in Item /\ queue'[k] \in Item /\ x.item \in Item
    BY <1>2, <2>1, RowTypes DEF TypeOK
  <2>. QED BY <2>1, <2>2, <2>3, HubAssumption DEF Behind, Item
<1>3. \A x, y \in rename'.todo : x.key[2] = y.key[2] => x = y
  BY DEF Paced
<1>4. ASSUME NEW r \in Run, NEW row \in run'[r].todo
      PROVE  /\ \A k \in Key : queue'[k] # None /\ k[2] = row.key[2] => Behind(row.item, queue'[k])
             /\ \A x \in rename'.todo : x.key[2] = row.key[2] => Behind(row.item, x.item)
  <2>1. row \in run[r].todo /\ row.item \in Item
    BY <1>4, RowTypes
  <2>2. ASSUME NEW k \in Key, queue'[k] # None, k[2] = row.key[2]
        PROVE  Behind(row.item, queue'[k])
    <3>1. queue[k] # None /\ Behind(queue[k], queue'[k]) /\ Behind(row.item, queue[k])
      BY <2>1, <2>2 DEF Paced
    <3>2. queue[k] \in Item /\ queue'[k] \in Item
      BY <2>2, <3>1 DEF TypeOK
    <3>. QED BY <2>1, <3>1, <3>2, BehindMoves
  <2>. QED BY <2>1, <2>2 DEF Paced
<1>. QED BY <1>1, <1>2, <1>3, <1>4 DEF Paced

(* A run that lists the queue gets current rows; it does so when no rename   *)
(* is under way.                                                              *)
LEMMA PacedLists ==
  ASSUME TypeOK, Paced, NEW r \in Run, NEW auto \in BOOLEAN, rename.todo = {},
         run' = [run EXCEPT ![r] = Dispatching(queue, auto)],
         queue' = queue, rename' = rename
  PROVE  Paced'
<1>1. ASSUME NEW row \in Dispatching(queue, auto).todo, NEW k \in Key, queue[k] # None,
             k[2] = row.key[2]
      PROVE  Behind(row.item, queue[k])
  <2>1. row.key \in Key /\ queue[row.key] # None /\ row.item = queue[row.key]
    BY <1>1, DispatchingType DEF TypeOK
  <2>2. k = row.key
    BY <1>1, <2>1 DEF Paced
  <2>. QED BY <2>1, <2>2, RowTypes, BehindMoves
<1>2. \A x \in Run : run'[x].todo = IF x = r THEN Dispatching(queue, auto).todo ELSE run[x].todo
  BY DEF TypeOK
<1>3. \A x \in Run : \A row \in run'[x].todo : \A k \in Key :
        queue[k] # None /\ k[2] = row.key[2] => Behind(row.item, queue[k])
  BY <1>1, <1>2 DEF Paced
<1>. QED BY <1>3 DEF Paced

(* A fresh sequence number is in nobody's rows. *)
LEMMA PacedQueues ==
  ASSUME IInv, Paced, NEW r \in Run, NEW m \in Msg, NEW n \in Name, NEW re \in BOOLEAN,
         QueueDelivery(m, n, re, r)
  PROVE  Paced'
<1>1. PICK own \in [Seqs -> Msg \union {None}] : OwnedBy(own)
  BY DEF IInv, SeqsOwned
<1>0. PICK s : s = qseq + 1
  OBVIOUS
<1>a. PICK k : k = <<n, s>>
  OBVIOUS
<1>2. s \in Seqs /\ k \in Key /\ qseq \in Nat /\ rename' = rename /\ k[2] = s
  BY <1>0, <1>a, HubAssumption DEF IInv, TypeOK, QueueDelivery, Seqs, Key
<1>3. \A j \in Key : j # k => queue'[j] = queue[j]
  BY <1>0, <1>a, <1>2 DEF IInv, TypeOK, QueueDelivery
<1>4. \A x \in Run : run'[x].todo = run[x].todo
  BY DEF IInv, TypeOK, QueueDelivery, WillDispatch
<1>5. /\ \A j \in Key : queue[j] # None => j[2] # s
      /\ \A x \in Run : \A row \in run[x].todo : row.key[2] # s
      /\ \A x \in rename.todo : x.key[2] # s
  BY <1>0, <1>1, <1>2 DEF OwnedBy, RowOwned
<1>6. \A j \in Key : queue'[j] # None /\ j[2] # s => queue'[j] = queue[j]
  BY <1>2, <1>3
<1>7. \A j \in Key : queue'[j] # None /\ j[2] = s => j = k
  BY <1>3, <1>5
<1>8. \A i, j \in Key : queue'[i] # None /\ queue'[j] # None /\ i[2] = j[2] => i = j
  BY <1>6, <1>7 DEF Paced
<1>9. \A x \in rename'.todo, j \in Key : queue'[j] # None /\ j[2] = x.key[2] =>
        j = x.key /\ queue'[j].attempts >= x.item.attempts
  BY <1>2, <1>5, <1>6 DEF Paced
<1>10. \A x \in Run : \A row \in run'[x].todo :
         /\ \A j \in Key : queue'[j] # None /\ j[2] = row.key[2] => Behind(row.item, queue'[j])
         /\ \A y \in rename'.todo : y.key[2] = row.key[2] => Behind(row.item, y.item)
  BY <1>2, <1>4, <1>5, <1>6 DEF Paced
<1>11. \A x, y \in rename'.todo : x.key[2] = y.key[2] => x = y
  BY <1>2 DEF Paced
<1>. QED BY <1>8, <1>9, <1>10, <1>11 DEF Paced

(* The rename loop starts from current rows. *)
LEMMA PacedRoster ==
  ASSUME TypeOK, Paced, NEW r \in Run, NEW new \in Rosters, ApplyRoster(new, r)
  PROVE  Paced'
<1>1. queue' = queue
  BY DEF ApplyRoster
<1>2. \A x \in Run : run'[x].todo = run[x].todo
  BY DEF TypeOK, ApplyRoster, WillDispatch
<1>3. \A x \in rename'.todo : x.key \in Key /\ queue[x.key] # None /\ x.item = queue[x.key]
                              /\ x = [key |-> x.key, item |-> x.item]
  BY DEF ApplyRoster, LiveKeys
<1>4. \A x \in rename'.todo, k \in Key : queue[k] # None /\ k[2] = x.key[2] =>
        k = x.key /\ queue[k].attempts >= x.item.attempts
  <2>. SUFFICES ASSUME NEW x \in rename'.todo, NEW k \in Key, queue[k] # None, k[2] = x.key[2]
                PROVE  k = x.key /\ queue[k].attempts >= x.item.attempts
    OBVIOUS
  <2>1. k = x.key /\ x.item = queue[k]
    BY <1>3 DEF Paced
  <2>2. queue[k].attempts \in Nat
    BY HubAssumption DEF TypeOK, Item
  <2>. QED BY <2>1, <2>2
<1>5. \A x, y \in rename'.todo : x.key[2] = y.key[2] => x = y
  BY <1>3 DEF Paced
<1>6. \A z \in Run : \A row \in run[z].todo : \A x \in rename'.todo :
        x.key[2] = row.key[2] => Behind(row.item, x.item)
  BY <1>3 DEF Paced
<1>7. \A z \in Run : \A row \in run[z].todo : \A k \in Key :
        queue[k] # None /\ k[2] = row.key[2] => Behind(row.item, queue[k])
  BY DEF Paced
<1>8. \A j, k \in Key : queue[j] # None /\ queue[k] # None /\ j[2] = k[2] => j = k
  BY DEF Paced
<1>. QED BY <1>1, <1>2, <1>4, <1>5, <1>6, <1>7, <1>8 DEF Paced

(* What the rename loop does to one entry: it leaves the key it was listed    *)
(* under and is written, otherwise unchanged, under the new name's.           *)
EntryMoves(x, key, moved) ==
  /\ x.key \in Key /\ x.item \in Item /\ key[2] = x.key[2]
  /\ moved.attempts = x.item.attempts /\ moved.wait = x.item.wait
  /\ moved.id = x.item.id /\ moved.agent = key[1]
  /\ queue'[key] = moved /\ (key # x.key => queue'[x.key] = None)
  /\ \A k \in Key : k # key /\ k # x.key => queue'[k] = queue[k]
  /\ marker' = [marker EXCEPT ![x.item.id][x.item.agent] = NoMarker,
                              ![x.item.id][key[1]] = Queued(key)]
  /\ rename'.todo \subseteq rename.todo \ {x}

(* Each step of the rename loop moves one listed entry. *)
LEMMA Moves ==
  ASSUME TypeOK, RenameEntry
  PROVE  \E x \in rename.todo, key \in Key, moved \in Item : EntryMoves(x, key, moved)
<1>1. PICK x \in First(rename.todo) :
        LET new == rename.to[x.item.agent]
            key == <<new, x.key[2]>>
        IN /\ queue' = [queue EXCEPT ![x.key] = None,
                                     ![key] = [x.item EXCEPT !.agent = new]]
           /\ marker' = [marker EXCEPT ![x.item.id][x.item.agent] = NoMarker,
                                       ![x.item.id][new] = Queued(key)]
           /\ rename' = IF rename.todo = {x} THEN NoRename
                        ELSE [rename EXCEPT !.todo = @ \ {x}]
  BY DEF RenameEntry
<1>2. x \in rename.todo /\ x.key \in Key /\ x.item \in Item
  BY FirstType
<1>. PICK new : new = rename.to[x.item.agent]
  OBVIOUS
<1>. PICK key : key = <<new, x.key[2]>>
  OBVIOUS
<1>. PICK moved : moved = [x.item EXCEPT !.agent = new]
  OBVIOUS
<1>3. new \in Name
  BY <1>2 DEF TypeOK, Item
<1>4. key \in Key /\ key[1] = new /\ key[2] = x.key[2]
  BY <1>2, <1>3 DEF Key
<1>5. /\ moved \in Item /\ moved.attempts = x.item.attempts /\ moved.wait = x.item.wait
      /\ moved.id = x.item.id /\ moved.agent = new
  BY <1>2, <1>3 DEF Item
<1>6. queue' = [queue EXCEPT ![x.key] = None, ![key] = moved]
  BY <1>1
<1>7. queue'[key] = moved /\ (key # x.key => queue'[x.key] = None)
      /\ \A k \in Key : k # key /\ k # x.key => queue'[k] = queue[k]
  BY <1>2, <1>4, <1>6 DEF TypeOK
<1>8. marker' = [marker EXCEPT ![x.item.id][x.item.agent] = NoMarker,
                               ![x.item.id][key[1]] = Queued(key)]
  BY <1>1, <1>4
<1>9. rename'.todo \subseteq rename.todo \ {x}
  <2>1. rename' = IF rename.todo = {x} THEN NoRename ELSE [rename EXCEPT !.todo = @ \ {x}]
    BY <1>1
  <2>. QED BY <2>1 DEF NoRename, TypeOK
<1>. QED BY <1>2, <1>4, <1>5, <1>7, <1>8, <1>9 DEF EntryMoves

(* An entry that moves stays ahead of the rows listed under its old key. *)
LEMMA PacedMoves ==
  ASSUME TypeOK, Paced, RenameEntry
  PROVE  Paced'
<1>0. PICK x \in rename.todo, key \in Key, moved \in Item : EntryMoves(x, key, moved)
  BY Moves
<1>1. /\ x.key \in Key /\ x.item \in Item /\ key[2] = x.key[2]
      /\ moved.attempts = x.item.attempts /\ moved.wait = x.item.wait
      /\ queue'[key] = moved /\ (key # x.key => queue'[x.key] = None)
      /\ \A k \in Key : k # key /\ k # x.key => queue'[k] = queue[k]
      /\ rename'.todo \subseteq rename.todo \ {x}
  BY <1>0 DEF EntryMoves
<1>2. \A r \in Run : run'[r] = run[r]
  BY DEF RenameEntry
<1>3. \A k \in Key : queue'[k] # None => k = key \/ (queue[k] # None /\ queue'[k] = queue[k])
  BY <1>1
<1>4. \A k \in Key : queue'[k] # None /\ k[2] = x.key[2] => k = key
  <2>. SUFFICES ASSUME NEW k \in Key, queue'[k] # None, k[2] = x.key[2], k # key PROVE FALSE
    OBVIOUS
  <2>1. queue[k] # None
    BY <1>3
  <2>2. k = x.key
    BY <2>1 DEF Paced
  <2>. QED BY <1>1, <2>2
<1>5. \A y \in rename'.todo : y \in rename.todo /\ y.key[2] # x.key[2]
  BY <1>1 DEF Paced
<1>6. \A j, k \in Key : queue'[j] # None /\ queue'[k] # None /\ j[2] = k[2] => j = k
  <2>. SUFFICES ASSUME NEW j \in Key, NEW k \in Key, queue'[j] # None, queue'[k] # None,
                       j[2] = k[2]
                PROVE  j = k
    OBVIOUS
  <2>1. CASE j[2] = x.key[2]
    BY <1>4, <2>1
  <2>2. CASE j[2] # x.key[2]
    <3>1. queue[j] # None /\ queue[k] # None
      BY <1>1, <1>3, <2>2
    <3>. QED BY <3>1 DEF Paced
  <2>. QED BY <2>1, <2>2
<1>7. \A y \in rename'.todo, k \in Key : queue'[k] # None /\ k[2] = y.key[2] =>
        k = y.key /\ queue'[k].attempts >= y.item.attempts
  <2>. SUFFICES ASSUME NEW y \in rename'.todo, NEW k \in Key, queue'[k] # None, k[2] = y.key[2]
                PROVE  k = y.key /\ queue'[k].attempts >= y.item.attempts
    OBVIOUS
  <2>1. y \in rename.todo /\ queue[k] # None /\ queue'[k] = queue[k]
    BY <1>1, <1>3, <1>5
  <2>. QED BY <2>1 DEF Paced
<1>8. \A y, z \in rename'.todo : y.key[2] = z.key[2] => y = z
  BY <1>5 DEF Paced
<1>9. ASSUME NEW r \in Run, NEW row \in run'[r].todo
      PROVE  /\ \A k \in Key : queue'[k] # None /\ k[2] = row.key[2] => Behind(row.item, queue'[k])
             /\ \A y \in rename'.todo : y.key[2] = row.key[2] => Behind(row.item, y.item)
  <2>1. row \in run[r].todo
    BY <1>2, <1>9
  <2>2. ASSUME NEW k \in Key, queue'[k] # None, k[2] = row.key[2]
        PROVE  Behind(row.item, queue'[k])
    <3>1. CASE k = key
      <4>1. Behind(row.item, x.item)
        BY <1>1, <2>1, <2>2, <3>1 DEF Paced
      <4>. QED BY <1>1, <3>1, <4>1 DEF Behind
    <3>2. CASE k # key
      <4>1. queue[k] # None /\ queue'[k] = queue[k]
        BY <1>3, <2>2, <3>2
      <4>. QED BY <2>1, <2>2, <4>1 DEF Paced
    <3>. QED BY <3>1, <3>2
  <2>. QED BY <1>5, <2>1, <2>2 DEF Paced
<1>. QED BY <1>6, <1>7, <1>8, <1>9 DEF Paced

(* A step that removes entries at most, and lists no rows. *)
LEMMA PacedQuiet ==
  ASSUME TypeOK, TypeOK', Paced,
         \A k \in Key : queue'[k] # None => queue'[k] = queue[k],
         \A r \in Run : run'[r].todo \subseteq run[r].todo,
         rename'.todo \subseteq rename.todo
  PROVE  Paced' /\ \A k \in Key : Redispatched(k) => Due(queue[k])
<1>1. \A k \in Key : queue'[k] # None => queue[k] # None /\ Behind(queue[k], queue'[k])
  BY RowTypes, BehindMoves
<1>2. Paced'
  BY <1>1, PacedShrinks
<1>3. \A k \in Key : ~Redispatched(k)
  <2>. SUFFICES ASSUME NEW k \in Key, Redispatched(k) PROVE FALSE
    OBVIOUS
  <2>1. queue'[k] = queue[k] /\ queue[k] \in Item /\ queue'[k].attempts > queue[k].attempts
    BY RowTypes DEF Redispatched
  <2>. QED BY <2>1, HubAssumption DEF Item
<1>. QED BY <1>2, <1>3

(* A claim sends the entry that the run listed, or one that waited longer. *)
LEMMA PacedSends ==
  ASSUME TypeOK, TypeOK', Paced, NEW r \in Run, RunSends(r)
  PROVE  Paced' /\ \A k \in Key : Redispatched(k) => Due(queue[k])
<1>1. PICK row \in First(run[r].todo) :
        /\ Due(row.item) /\ Claimable(row)
        /\ queue' = [queue EXCEPT ![row.key] = Attempted(row.item, run[r].lag)]
        /\ NextRow(r, row, "loop", Earlier(run[r].next, RetryDelay[row.item.attempts + 1]))
  BY DEF RunSends
<1>2. row \in run[r].todo /\ row.key \in Key /\ row.item \in Item
  BY <1>1, FirstType
<1>3. /\ queue[row.key] # None /\ queue[row.key].attempts = row.item.attempts
      /\ queue[row.key] \in Item
  BY <1>1, <1>2, RowTypes DEF Claimable
<1>4. PICK sent : sent = Attempted(row.item, run[r].lag)
  OBVIOUS
<1>5. queue'[row.key] = sent /\ \A k \in Key : k # row.key => queue'[k] = queue[k]
  BY <1>1, <1>2, <1>4 DEF TypeOK
<1>6. sent.attempts = row.item.attempts + 1
  BY <1>2, <1>4 DEF Attempted, Item
<1>7. Behind(queue[row.key], sent)
  BY <1>2, <1>3, <1>6, HubAssumption DEF Behind, Item
<1>8. \A x \in Run : run'[x].todo \subseteq run[x].todo
  BY <1>1 DEF NextRow, TypeOK, Runs
<1>9. \A k \in Key : queue'[k] # None => queue[k] # None /\ Behind(queue[k], queue'[k])
  BY <1>3, <1>5, <1>7, RowTypes, BehindMoves
<1>10. rename'.todo \subseteq rename.todo
  BY DEF RunSends
<1>11. Paced'
  BY <1>8, <1>9, <1>10, PacedShrinks
<1>12. Due(queue[row.key])
  <2>1. Behind(row.item, queue[row.key])
    BY <1>2, <1>3 DEF Paced
  <2>2. row.item.wait <= queue[row.key].wait
    BY <1>2, <1>3, <2>1, HubAssumption DEF Behind, Item
  <2>3. row.item.wait \in Nat /\ queue[row.key].wait \in Nat
        /\ RetryDelay[row.item.attempts] \in Nat
    BY <1>2, <1>3, HubAssumption DEF Item, Ages
  <2>. QED BY <1>1, <1>3, <2>2, <2>3 DEF Due
<1>13. ASSUME NEW k \in Key, Redispatched(k) PROVE Due(queue[k])
  <2>1. CASE k = row.key
    BY <1>12, <2>1
  <2>2. CASE k # row.key
    <3>1. queue'[k] = queue[k] /\ queue[k] \in Item /\ queue'[k].attempts > queue[k].attempts
      BY <1>5, <1>13, <2>2, RowTypes DEF Redispatched
    <3>. QED BY <3>1, HubAssumption DEF Item
  <2>. QED BY <2>1, <2>2
<1>. QED BY <1>11, <1>13

(* What a step does to an entry, where nothing lowers its attempts. *)
LEMMA PacedStep ==
  ASSUME "draft_busy" \notin NakCodes, Requeueable = {},
         IInv, TypeOK', Paced, [Next]_vars
  PROVE  Paced' /\ \A k \in Key : Redispatched(k) => Due(queue[k])
<1>. DEFINE Good == Paced' /\ \A k \in Key : Redispatched(k) => Due(queue[k])
<1>t. TypeOK /\ run \in [Run -> Runs]
  BY DEF IInv, TypeOK
<1>i. IdleRun.todo = {} /\ NoRename.todo = {}
  BY DEF IdleRun, NoRename
<1>l. ASSUME NEW r \in Run, NEW auto \in BOOLEAN, GateOpen,
             run' = [run EXCEPT ![r] = Dispatching(queue, auto)],
             queue' = queue, rename' = rename
      PROVE  Good
  <2>1. Paced'
    BY <1>l, <1>t, PacedLists DEF GateOpen
  <2>2. \A k \in Key : ~Redispatched(k)
    BY <1>l, <1>t, HubAssumption, RowTypes DEF Redispatched, Item
  <2>. QED BY <2>1, <2>2
<1>a. ASSUME NEW m \in Msg, NEW e, HandleDeliveryAck(m, e)
      PROVE  \A k \in Key : queue'[k] # None => queue'[k] = queue[k]
  BY <1>a, <1>t DEF HandleDeliveryAck, TypeOK
<1>1. ASSUME NEW r \in Run, NEW m \in Msg, NEW re \in BOOLEAN, NEW n \in Recipients[m],
             QueueDelivery(m, n, re, r)
      PROVE  Good
  <2>1. n \in Name
    BY HubAssumption
  <2>2. Paced'
    BY <1>1, <2>1, PacedQueues
  <2>3. ASSUME NEW k \in Key, Redispatched(k) PROVE FALSE
    <3>1. PICK own \in [Seqs -> Msg \union {None}] : OwnedBy(own)
      BY DEF IInv, SeqsOwned
    <3>2. queue[k] # None /\ k[2] <= qseq /\ qseq \in Nat
      BY <1>t, <2>3, <3>1, HubAssumption DEF Redispatched, OwnedBy, RowOwned, TypeOK
    <3>3. k # <<n, qseq + 1>>
      BY <3>2
    <3>4. queue'[k] = queue[k]
      BY <1>1, <1>t, <3>3 DEF QueueDelivery, TypeOK
    <3>. QED BY <1>t, <2>3, <3>4, HubAssumption, RowTypes DEF Redispatched, Item
  <2>. QED BY <2>2, <2>3
<1>2. ASSUME NEW m \in Msg, NEW n \in Name, NEW e \in {n, None},
             \/ DeliverAck(m, n, e) \/ NakDead(m, n, e) \/ NakHold(m, n, e)
             \/ NakRetry(m, n, e) \/ AnswerIgnored(m, n, e)
      PROVE  Good
  <2>1. \A k \in Key : queue'[k] # None => queue'[k] = queue[k]
    <3>1. CASE DeliverAck(m, n, e)
      BY <1>a, <3>1 DEF DeliverAck
    <3>2. CASE NakDead(m, n, e)
      <4>1. PICK x \in Answerable(m, e) : MarkDead(marker[m][x].key, queue[marker[m][x].key])
        BY <3>2 DEF NakDead
      <4>. QED BY <1>t, <4>1 DEF MarkDead, TypeOK
    <3>3. CASE NakHold(m, n, e)
      BY <3>3 DEF NakHold
    <3>4. CASE NakRetry(m, n, e) \/ AnswerIgnored(m, n, e)
      BY <3>4 DEF NakRetry, AnswerIgnored
    <3>. QED BY <1>2, <3>1, <3>2, <3>3, <3>4
  <2>2. run' = run /\ rename' = rename
    BY <1>2 DEF DeliverAck, NakDead, NakHold, NakRetry, AnswerIgnored
  <2>. QED BY <1>t, <2>1, <2>2, PacedQuiet
<1>3. ASSUME NEW m \in Msg, CancelDelivery(m) \/ \E n \in Inbox : SettleInbox(m, n) PROVE Good
  <2>1. run' = run /\ rename' = rename
    BY <1>3 DEF CancelDelivery, SettleInbox
  <2>2. CASE CancelDelivery(m)
    <3>1. \A k \in Key : queue'[k] # None => queue'[k] = queue[k]
      BY <2>2 DEF CancelDelivery
    <3>. QED BY <1>t, <2>1, <3>1, PacedQuiet
  <2>3. CASE \E n \in Inbox : SettleInbox(m, n)
    <3>1. \A k \in Key : queue'[k] # None => queue'[k] = queue[k]
      BY <1>a, <2>3 DEF SettleInbox
    <3>. QED BY <1>t, <2>1, <3>1, PacedQuiet
  <2>. QED BY <1>3, <2>2, <2>3
<1>4. CASE AcceptDaemon \/ CloseDaemon
  <2>1. \A r \in Run : SinksClosed[r].todo = run[r].todo
    BY <1>t DEF SinksClosed, Runs
  <2>2. queue' = queue /\ rename' = rename /\ run' = SinksClosed
    BY <1>4 DEF AcceptDaemon, CloseDaemon
  <2>. QED BY <1>t, <2>1, <2>2, PacedQuiet
<1>5. CASE RenameEntry
  <2>1. Paced'
    BY <1>5, <1>t, PacedMoves
  <2>2. ASSUME NEW k \in Key, Redispatched(k) PROVE FALSE
    <3>0. PICK x \in rename.todo, key \in Key, moved \in Item : EntryMoves(x, key, moved)
      BY <1>5, <1>t, Moves
    <3>1. /\ x.key \in Key /\ x.item \in Item /\ key[2] = x.key[2]
          /\ moved.attempts = x.item.attempts
          /\ queue'[key] = moved /\ (key # x.key => queue'[x.key] = None)
          /\ \A j \in Key : j # key /\ j # x.key => queue'[j] = queue[j]
      BY <3>0 DEF EntryMoves
    <3>2. queue[k] # None /\ queue'[k] # None /\ queue'[k].attempts > queue[k].attempts
          /\ queue[k] \in Item
      BY <1>t, <2>2, RowTypes DEF Redispatched
    <3>3. CASE k = key
      <4>1. queue[k].attempts >= x.item.attempts
        BY <3>1, <3>2, <3>3 DEF Paced
      <4>. QED BY <3>1, <3>2, <3>3, <4>1, HubAssumption DEF Item
    <3>4. CASE k # key
      BY <3>1, <3>2, <3>4, HubAssumption DEF Item
    <3>. QED BY <3>3, <3>4
  <2>. QED BY <2>1, <2>2
<1>6. ASSUME NEW r \in Run, HandleHello(r) \/ AlarmFires(r) \/ RunBegins(r) PROVE Good
  BY <1>6, <1>l DEF HandleHello, CallsDispatch, AlarmFires, RunBegins
<1>7. ASSUME NEW r \in Run, NEW new \in Rosters, ApplyRoster(new, r) PROVE Good
  <2>1. Paced'
    BY <1>7, <1>t, PacedRoster
  <2>2. \A k \in Key : ~Redispatched(k)
    BY <1>7, <1>t, HubAssumption, RowTypes DEF ApplyRoster, Redispatched, Item
  <2>. QED BY <2>1, <2>2
<1>q. ASSUME NEW r \in Run, NEW row, NEW p, NEW nxt, NextRow(r, row, p, nxt)
      PROVE  \A x \in Run : run'[x].todo \subseteq run[x].todo
  BY <1>q, <1>t DEF NextRow, Runs
<1>8. ASSUME NEW r \in Run, RunExpires(r) \/ RunRevokes(r) PROVE Good
  <2>1. PICK row \in First(run[r].todo) : /\ MarkDead(row.key, row.item)
                                          /\ NextRow(r, row, "dead", run[r].next)
    BY <1>8 DEF RunExpires, RunRevokes
  <2>2. \A k \in Key : queue'[k] # None => queue'[k] = queue[k]
    BY <1>t, <2>1 DEF MarkDead, TypeOK
  <2>3. rename' = rename /\ \A x \in Run : run'[x].todo \subseteq run[x].todo
    BY <1>8, <1>q, <2>1 DEF RunExpires, RunRevokes
  <2>. QED BY <1>t, <2>2, <2>3, PacedQuiet
<1>9. ASSUME NEW r \in Run,
             \/ RunAsks(r) \/ QueryAnswers(r) \/ RunResumes(r) \/ RunHolds(r) \/ RunWaits(r)
             \/ RunLosesClaim(r) \/ RunFinishes(r) \/ QueryFails(r)
      PROVE  Good
  <2>1. queue' = queue /\ rename' = rename
    BY <1>9 DEF RunAsks, QueryAnswers, RunResumes, RunHolds, RunWaits, RunLosesClaim,
                RunFinishes, QueryFails
  <2>2. CASE RunAsks(r) \/ QueryAnswers(r) \/ RunResumes(r)
    <3>1. \A x \in Run : run'[x].todo \subseteq run[x].todo
      BY <1>t, <2>2 DEF RunAsks, QueryAnswers, RunResumes, Runs
    <3>. QED BY <1>t, <2>1, <3>1, PacedQuiet
  <2>3. CASE RunHolds(r) \/ RunWaits(r) \/ RunLosesClaim(r)
    <3>1. \A x \in Run : run'[x].todo \subseteq run[x].todo
      BY <1>q, <2>3 DEF RunHolds, RunWaits, RunLosesClaim
    <3>. QED BY <1>t, <2>1, <3>1, PacedQuiet
  <2>4. CASE RunFinishes(r) \/ QueryFails(r)
    <3>1. \A x \in Run : run'[x].todo \subseteq run[x].todo
      BY <1>i, <1>t, <2>4 DEF RunFinishes, QueryFails
    <3>. QED BY <1>t, <2>1, <3>1, PacedQuiet
  <2>. QED BY <1>9, <2>2, <2>3, <2>4
<1>10. ASSUME NEW r \in Run, RunSends(r) PROVE Good
  BY <1>10, <1>t, PacedSends
<1>11. CASE Restart
  <2>1. queue' = queue /\ rename'.todo = {} /\ \A x \in Run : run'[x].todo = {}
    BY <1>11, <1>i DEF Restart
  <2>. QED BY <1>t, <2>1, PacedQuiet
<1>12. CASE RevokeConnection \/ UNCHANGED vars
  <2>1. queue' = queue /\ rename' = rename /\ run' = run
    BY <1>12 DEF RevokeConnection, vars
  <2>. QED BY <1>t, <2>1, PacedQuiet
<1>13. CASE Tick
  <2>1. \A r \in Run : run'[r].todo = run[r].todo
    BY <1>13, <1>t DEF Tick, Runs
  <2>2. \A k \in Key : queue'[k] # None => queue[k] # None /\ queue'[k] = Older(queue[k])
    BY <1>13, <1>t DEF Tick
  <2>3. \A k \in Key : queue'[k] # None => queue[k] # None /\ Behind(queue[k], queue'[k])
    BY <1>t, <2>2, RowTypes, BehindMoves
  <2>4. Paced'
    BY <1>13, <1>t, <2>1, <2>3, PacedShrinks DEF Tick
  <2>5. \A a \in Item : Older(a).attempts = a.attempts /\ a.attempts \in Nat
    BY HubAssumption DEF Older, Item
  <2>6. ASSUME NEW k \in Key, Redispatched(k) PROVE FALSE
    <3>1. queue[k] \in Item /\ queue'[k] = Older(queue[k]) /\ queue'[k].attempts > queue[k].attempts
      BY <1>t, <2>2, <2>6, RowTypes DEF Redispatched
    <3>2. queue'[k].attempts = queue[k].attempts /\ queue[k].attempts \in Nat
      BY <2>5, <3>1
    <3>. QED BY <3>1, <3>2
  <2>. QED BY <2>4, <2>6
<1>14. \A r \in Run, m \in Requeueable : ~Requeue(m, r)
  OBVIOUS
<1>. QED BY <1>1, <1>2, <1>3, <1>4, <1>5, <1>6, <1>7, <1>8, <1>9, <1>10, <1>11, <1>12, <1>13,
            <1>14 DEF Next, DaemonAnswers, RunStep

(* The compare-and-set of dispatchQueued spaces the sends of an entry by its *)
(* backoff, however many runs have it in their batch and whatever renames    *)
(* and redeliveries do to it; a hold by a draft and a requeue, which both    *)
(* lower the counter that is compared, are left out.                         *)
THEOREM SendsAreSpacedHolds ==
  ASSUME "draft_busy" \notin NakCodes, Requeueable = {}
  PROVE  Spec => SendsAreSpaced
<1>1. Init => IInv /\ Paced
  <2>1. Init => Paced
    BY DEF Init, Paced, IdleRun, NoRename
  <2>. QED BY <2>1, InitInv
<1>2. (IInv /\ Paced) /\ [Next]_vars => (IInv /\ Paced)'
  <2>1. IInv /\ [Next]_vars => IInv'
    BY TypeStep, SafeStep DEF IInv
  <2>. QED BY <2>1, TypeStep, PacedStep
<1>3. (IInv /\ Paced) /\ [Next]_vars => [\A k \in Key : Redispatched(k) => Due(queue[k])]_vars
  BY TypeStep, PacedStep
<1>. QED BY <1>1, <1>2, <1>3, PTL DEF Spec, SendsAreSpaced

-----------------------------------------------------------------------------
(* An id that is queued once keeps one entry and one marker *)

(* A copy of message m under sequence number s: an entry, a marker that names *)
(* one, a row of a run, or a row of the rename loop.                          *)
Copy(m, s) ==
  \/ \E k \in Key : queue[k] # None /\ queue[k].id = m /\ k[2] = s
  \/ \E n \in Name : marker[m][n].status \in {"queued", "dead"} /\ marker[m][n].key[2] = s
  \/ \E r \in Run : \E row \in run[r].todo : row.item.id = m /\ row.key[2] = s
  \/ \E x \in rename.todo : x.item.id = m /\ x.key[2] = s

(* Some name has, or had, message m: queueDelivery left a marker of it. *)
Known(m) == \E n \in Name : marker[m][n].status # "none"

(* What is asked of the senders: an id is queued at this host once.  A fan-out *)
(* to two names of one host does not keep to it, and neither does a retry     *)
(* under a name that its first recipient has lost by a rename.                *)
QueuedOnce ==
  \A k \in Key : queue'[k] # None /\ k[2] > qseq => ~Known(queue'[k].id)

(* All copies of a message bear one sequence number, and it stays known. *)
OneCopy ==
  /\ \A m \in Msg, s, t \in Seqs : Copy(m, s) /\ Copy(m, t) => s = t
  /\ \A m \in Msg, s \in Seqs : Copy(m, s) => Known(m)

(* Every entry has the marker an answer resolves, in the middle of a rename too. *)
Paired == \A k \in Key : queue[k] # None => marker[queue[k].id][queue[k].agent] = Queued(k)

(* What was settled upstream is in no entry, nor about to be moved into one. *)
Dropped ==
  /\ \A k \in Key : queue[k] # None => queue[k].id \notin cancelled
  /\ \A x \in rename.todo : x.item.id \notin cancelled

(* The key of an entry, a marker or a row names the agent, and is typed. *)
LEMMA Agents ==
  ASSUME IInv
  PROVE  /\ \A k \in Key : queue[k] # None => queue[k].agent = k[1] /\ queue[k].id \in Msg
         /\ \A m \in Msg, n \in Name : marker[m][n].status \in {"queued", "dead"} =>
              marker[m][n].key \in Key /\ marker[m][n].key[1] = n
         /\ \A r \in Run : \A row \in run[r].todo :
              row.item.agent = row.key[1] /\ row.key \in Key /\ row.item.id \in Msg
         /\ \A x \in rename.todo :
              x.item.agent = x.key[1] /\ x.key \in Key /\ x.item.id \in Msg
         /\ \A j, k \in Key : j[1] = k[1] /\ j[2] = k[2] => j = k
         /\ \A k \in Key : k[1] \in Name /\ k[2] \in Seqs
<1>1. PICK own \in [Seqs -> Msg \union {None}] : OwnedBy(own)
  BY DEF IInv, SeqsOwned
<1>t. TypeOK
  BY DEF IInv
<1>2. \A k \in Key : queue[k] # None => queue[k].agent = k[1] /\ queue[k].id \in Msg
  BY <1>1, <1>t, RowTypes DEF OwnedBy, RowOwned, Item
<1>3. \A m \in Msg, n \in Name : marker[m][n].status \in {"queued", "dead"} =>
        marker[m][n].key \in Key /\ marker[m][n].key[1] = n
  BY <1>1 DEF OwnedBy, MarkerOwned
<1>4. \A r \in Run : \A row \in run[r].todo :
        row.item.agent = row.key[1] /\ row.key \in Key /\ row.item.id \in Msg
  BY <1>1, <1>t, RowTypes DEF OwnedBy, RowOwned, Item
<1>5. \A x \in rename.todo : x.item.agent = x.key[1] /\ x.key \in Key /\ x.item.id \in Msg
  BY <1>1, <1>t, RowTypes DEF OwnedBy, RowOwned, Item
<1>6. \A j, k \in Key : j[1] = k[1] /\ j[2] = k[2] => j = k
  BY DEF Key
<1>7. \A k \in Key : k[1] \in Name /\ k[2] \in Seqs
  BY DEF Key
<1>. QED BY <1>2, <1>3, <1>4, <1>5, <1>6, <1>7

(* What there is of a message is a copy of it. *)
LEMMA Copies ==
  ASSUME IInv
  PROVE  /\ \A k \in Key : queue[k] # None => Copy(queue[k].id, k[2])
         /\ \A m \in Msg, n \in Name : marker[m][n].status \in {"queued", "dead"} =>
              Copy(m, marker[m][n].key[2])
         /\ \A r \in Run : \A row \in run[r].todo : Copy(row.item.id, row.key[2])
         /\ \A x \in rename.todo : Copy(x.item.id, x.key[2])
BY DEF Copy

(* A step after which everything is a copy of something there was before. *)
LEMMA CopiesKept ==
  ASSUME OneCopy,
         \A k \in Key : queue'[k] # None => Copy(queue'[k].id, k[2]),
         \A m \in Msg, n \in Name : marker'[m][n].status \in {"queued", "dead"} =>
           Copy(m, marker'[m][n].key[2]),
         \A r \in Run : \A row \in run'[r].todo : Copy(row.item.id, row.key[2]),
         \A x \in rename'.todo : Copy(x.item.id, x.key[2]),
         \A m \in Msg : Known(m) => Known(m)'
  PROVE  OneCopy'
<1>1. ASSUME NEW m \in Msg, NEW s \in Seqs, Copy(m, s)' PROVE Copy(m, s)
  <2> HIDE DEF Copy
  <2>1. \/ \E k \in Key : queue'[k] # None /\ queue'[k].id = m /\ k[2] = s
        \/ \E n \in Name : marker'[m][n].status \in {"queued", "dead"} /\ marker'[m][n].key[2] = s
        \/ \E r \in Run : \E row \in run'[r].todo : row.item.id = m /\ row.key[2] = s
        \/ \E x \in rename'.todo : x.item.id = m /\ x.key[2] = s
    BY <1>1 DEF Copy
  <2>. QED BY <2>1
<1>2. \A m \in Msg, s, t \in Seqs : Copy(m, s)' /\ Copy(m, t)' => s = t
  BY <1>1 DEF OneCopy
<1>3. \A m \in Msg, s \in Seqs : Copy(m, s)' => Known(m)'
  BY <1>1 DEF OneCopy
<1>. QED BY <1>2, <1>3 DEF OneCopy

(* A step that removes entries or rewrites them in place, and leaves the     *)
(* markers of those that stay alone.                                          *)
LEMMA KeepStep ==
  ASSUME IInv, OneCopy, Paired,
         \A k \in Key : queue'[k] # None =>
           /\ queue[k] # None /\ queue'[k].id = queue[k].id /\ queue'[k].agent = queue[k].agent
           /\ marker'[queue[k].id][queue[k].agent] = marker[queue[k].id][queue[k].agent],
         \A m \in Msg, n \in Name : marker[m][n].status # "none" => marker'[m][n].status # "none",
         \A m \in Msg, n \in Name : marker'[m][n].status \in {"queued", "dead"} =>
           Copy(m, marker'[m][n].key[2]),
         \A r \in Run : \A row \in run'[r].todo : Copy(row.item.id, row.key[2]),
         rename'.todo \subseteq rename.todo
  PROVE  OneCopy' /\ Paired'
<1>1. \A k \in Key : queue'[k] # None => Copy(queue'[k].id, k[2])
  BY Copies
<1>2. \A x \in rename'.todo : Copy(x.item.id, x.key[2])
  BY Copies
<1>3. \A m \in Msg : Known(m) => Known(m)'
  BY DEF Known
<1>4. OneCopy'
  BY <1>1, <1>2, <1>3, CopiesKept
<1>5. Paired'
  BY DEF Paired, Queued
<1>. QED BY <1>4, <1>5

(* The copies a run or a listing can add are copies of entries. *)
LEMMA ListedCopies ==
  ASSUME IInv, NEW r \in Run, NEW auto \in BOOLEAN,
         run' = [run EXCEPT ![r] = Dispatching(queue, auto)]
  PROVE  \A x \in Run : \A row \in run'[x].todo : Copy(row.item.id, row.key[2])
<1>t. TypeOK
  BY DEF IInv
<1>1. \A row \in Dispatching(queue, auto).todo :
        row.key \in Key /\ queue[row.key] # None /\ row.item = queue[row.key]
  BY <1>t, DispatchingType DEF TypeOK
<1>2. \A x \in Run : run'[x].todo = run[x].todo \/ run'[x].todo = Dispatching(queue, auto).todo
  BY <1>t DEF TypeOK
<1>. QED BY <1>1, <1>2, Copies

(* An entry is removed together with the marker that points to it, by an     *)
(* answer or by markDead with a row as stale as it may be.                    *)
LEMMA RemoveKeeps ==
  ASSUME IInv, OneCopy, Paired,
         NEW k \in Key, NEW m \in Msg, Copy(m, k[2]), NEW mk,
         mk.status # "none", mk.status \in {"queued", "dead"} => mk.key = k,
         queue' = [queue EXCEPT ![k] = None],
         marker' = [marker EXCEPT ![m][k[1]] = mk],
         rename' = rename, \A r \in Run : run'[r].todo \subseteq run[r].todo
  PROVE  OneCopy' /\ Paired'
<1>t. TypeOK
  BY DEF IInv
<1>1. queue'[k] = None /\ \A j \in Key : j # k => queue'[j] = queue[j]
  BY <1>t DEF TypeOK
<1>2. k[1] \in Name /\ k[2] \in Seqs
  BY Agents
<1>3. marker'[m][k[1]] = mk
      /\ \A m2 \in Msg, n2 \in Name : (m2 # m \/ n2 # k[1]) => marker'[m2][n2] = marker[m2][n2]
  BY <1>t, <1>2 DEF TypeOK
<1>4. ASSUME NEW j \in Key, queue'[j] # None
      PROVE  /\ queue[j] # None /\ queue'[j].id = queue[j].id /\ queue'[j].agent = queue[j].agent
             /\ marker'[queue[j].id][queue[j].agent] = marker[queue[j].id][queue[j].agent]
  <2>1. j # k /\ queue'[j] = queue[j] /\ queue[j] # None
    BY <1>1, <1>4
  <2>2. queue[j].agent = j[1] /\ queue[j].id \in Msg /\ j[1] \in Name /\ j[2] \in Seqs
    BY <2>1, Agents
  <2>3. Copy(queue[j].id, j[2])
    BY <2>1, Copies
  <2>4. queue[j].id # m \/ j[1] # k[1]
    BY <1>2, <2>1, <2>2, <2>3, Agents DEF OneCopy
  <2>. QED BY <1>3, <2>1, <2>2, <2>4
<1>5. \A m2 \in Msg, n2 \in Name : marker[m2][n2].status # "none" => marker'[m2][n2].status # "none"
  BY <1>3
<1>6. \A m2 \in Msg, n2 \in Name : marker'[m2][n2].status \in {"queued", "dead"} =>
        Copy(m2, marker'[m2][n2].key[2])
  BY <1>3, Copies
<1>7. \A r \in Run : \A row \in run'[r].todo : Copy(row.item.id, row.key[2])
  BY Copies
<1>. QED BY <1>4, <1>5, <1>6, <1>7, KeepStep

(* A message that is new here gets its entry, its marker and its number. *)
LEMMA QueueKeeps ==
  ASSUME IInv, OneCopy, Paired, NEW r \in Run, NEW m \in Msg, NEW n \in Name,
         NEW re \in BOOLEAN, QueueDelivery(m, n, re, r), ~Known(m)
  PROVE  OneCopy' /\ Paired'
<1>t. TypeOK
  BY DEF IInv
<1>0. PICK s : s = qseq + 1
  OBVIOUS
<1>a. PICK k : k = <<n, s>>
  OBVIOUS
<1>1. s \in Seqs /\ k \in Key /\ k[1] = n /\ k[2] = s
  BY <1>0, <1>a, <1>t, HubAssumption DEF TypeOK, QueueDelivery, Seqs, Key
<1>2. NewItem(m, n).id = m /\ NewItem(m, n).agent = n /\ NewItem(m, n) # None
  BY HubAssumption DEF NewItem, Item, Ages
<1>3. queue'[k] = NewItem(m, n) /\ \A j \in Key : j # k => queue'[j] = queue[j]
  BY <1>0, <1>a, <1>1, <1>t DEF TypeOK, QueueDelivery
<1>4. marker'[m][n] = Queued(k)
      /\ \A m2 \in Msg, n2 \in Name : (m2 # m \/ n2 # n) => marker'[m2][n2] = marker[m2][n2]
  BY <1>0, <1>a, <1>t DEF TypeOK, QueueDelivery
<1>5. \A x \in Run : run'[x].todo = run[x].todo
  BY <1>t DEF TypeOK, QueueDelivery, WillDispatch
<1>6. rename' = rename
  BY DEF QueueDelivery
<1>7. \A t \in Seqs : ~Copy(m, t)
  BY DEF OneCopy
<1>8. ASSUME NEW m2 \in Msg, NEW t \in Seqs, Copy(m2, t)' PROVE Copy(m2, t) \/ (m2 = m /\ t = s)
  <2>1. ASSUME NEW j \in Key, queue'[j] # None, queue'[j].id = m2, j[2] = t
        PROVE  Copy(m2, t) \/ (m2 = m /\ t = s)
    BY <1>1, <1>2, <1>3, <2>1, Copies
  <2>2. ASSUME NEW n2 \in Name, marker'[m2][n2].status \in {"queued", "dead"},
               marker'[m2][n2].key[2] = t
        PROVE  Copy(m2, t) \/ (m2 = m /\ t = s)
    BY <1>1, <1>4, <2>2, Copies DEF Queued
  <2>3. ASSUME NEW x \in Run, NEW row \in run'[x].todo, row.item.id = m2, row.key[2] = t
        PROVE  Copy(m2, t)
    BY <1>5, <2>3, Copies
  <2>4. ASSUME NEW x \in rename'.todo, x.item.id = m2, x.key[2] = t
        PROVE  Copy(m2, t)
    BY <1>6, <2>4, Copies
  <2>5. \/ \E j \in Key : queue'[j] # None /\ queue'[j].id = m2 /\ j[2] = t
        \/ \E n2 \in Name : marker'[m2][n2].status \in {"queued", "dead"} /\ marker'[m2][n2].key[2] = t
        \/ \E x \in Run : \E row \in run'[x].todo : row.item.id = m2 /\ row.key[2] = t
        \/ \E x \in rename'.todo : x.item.id = m2 /\ x.key[2] = t
    BY <1>8 DEF Copy
  <2>. QED BY <2>1, <2>2, <2>3, <2>4, <2>5
<1>9. \A m2 \in Msg, t, u \in Seqs : Copy(m2, t)' /\ Copy(m2, u)' => t = u
  BY <1>7, <1>8 DEF OneCopy
<1>10. ASSUME NEW m2 \in Msg, NEW t \in Seqs, Copy(m2, t)' PROVE Known(m2)'
  <2>1. CASE m2 = m
    BY <1>4, <2>1 DEF Known, Queued
  <2>2. CASE m2 # m
    <3>1. Known(m2)
      BY <1>8, <1>10, <2>2 DEF OneCopy
    <3>. QED BY <1>4, <2>2, <3>1 DEF Known
  <2>. QED BY <2>1, <2>2
<1>11. ASSUME NEW j \in Key, queue'[j] # None
       PROVE  marker'[queue'[j].id][queue'[j].agent] = Queued(j)
  <2>1. CASE j = k
    BY <1>2, <1>3, <1>4, <2>1
  <2>2. CASE j # k
    <3>1. queue'[j] = queue[j] /\ queue[j] # None
      BY <1>3, <1>11, <2>2
    <3>2. queue[j].id \in Msg /\ queue[j].agent \in Name /\ j[2] \in Seqs /\ Copy(queue[j].id, j[2])
      BY <3>1, Agents, Copies
    <3>3. queue[j].id # m
      BY <1>7, <3>2
    <3>. QED BY <1>4, <3>1, <3>2, <3>3 DEF Paired
  <2>. QED BY <2>1, <2>2
<1>. QED BY <1>9, <1>10, <1>11 DEF OneCopy, Paired

(* requeue puts the one entry back under the one number. *)
LEMMA RequeueKeeps ==
  ASSUME IInv, IInv', OneCopy, Paired, NEW r \in Run, NEW m \in Msg, Requeue(m, r)
  PROVE  OneCopy' /\ Paired'
<1>t. TypeOK
  BY DEF IInv
<1>1. PICK n \in FirstDead(m) :
        /\ queue' = [queue EXCEPT ![marker[m][n].key] = NewItem(m, n)]
        /\ marker' = [marker EXCEPT ![m][n] = Queued(marker[m][n].key)]
  BY DEF Requeue
<1>2. PICK k : k = marker[m][n].key
  OBVIOUS
<1>3. n \in Name /\ marker[m][n].status = "dead"
  BY <1>1 DEF FirstDead
<1>4. k \in Key /\ k[1] = n /\ Copy(m, k[2]) /\ k[2] \in Seqs
  BY <1>2, <1>3, Agents, Copies
<1>5. NewItem(m, n).id = m /\ NewItem(m, n).agent = n /\ NewItem(m, n) # None
  BY <1>3, HubAssumption DEF NewItem, Item, Ages
<1>6. queue'[k] = NewItem(m, n) /\ \A j \in Key : j # k => queue'[j] = queue[j]
  BY <1>1, <1>2, <1>4, <1>t DEF TypeOK
<1>7. marker'[m][n] = Queued(k)
      /\ \A m2 \in Msg, n2 \in Name : (m2 # m \/ n2 # n) => marker'[m2][n2] = marker[m2][n2]
  BY <1>1, <1>2, <1>3, <1>t DEF TypeOK
<1>8. rename' = rename /\ run' = [run EXCEPT ![r] = Dispatching(queue', FALSE)]
  BY DEF Requeue, CallsDispatch
<1>9. \A j \in Key : queue'[j] # None => Copy(queue'[j].id, j[2])
  BY <1>4, <1>5, <1>6, Copies
<1>10. \A m2 \in Msg, n2 \in Name : marker'[m2][n2].status \in {"queued", "dead"} =>
         Copy(m2, marker'[m2][n2].key[2])
  BY <1>4, <1>7, Copies DEF Queued
<1>11. \A x \in Run : \A row \in run'[x].todo : Copy(row.item.id, row.key[2])
  <2>1. queue' \in [Key -> Item \union {None}]
    BY DEF IInv, TypeOK
  <2>2. \A row \in Dispatching(queue', FALSE).todo :
          row.key \in Key /\ queue'[row.key] # None /\ row.item = queue'[row.key]
    BY <2>1, DispatchingType
  <2>3. \A x \in Run : run'[x].todo = run[x].todo \/ run'[x].todo = Dispatching(queue', FALSE).todo
    BY <1>8, <1>t DEF TypeOK
  <2>. QED BY <1>9, <2>2, <2>3, Copies
<1>12. \A x \in rename'.todo : Copy(x.item.id, x.key[2])
  BY <1>8, Copies
<1>13. \A m2 \in Msg : Known(m2) => Known(m2)'
  BY <1>3, <1>7 DEF Known, Queued
<1>14. OneCopy'
  BY <1>9, <1>10, <1>11, <1>12, <1>13, CopiesKept
<1>15. ASSUME NEW j \in Key, queue'[j] # None
       PROVE  marker'[queue'[j].id][queue'[j].agent] = Queued(j)
  <2>1. CASE j = k
    BY <1>5, <1>6, <1>7, <2>1
  <2>2. CASE j # k
    <3>1. queue'[j] = queue[j] /\ queue[j] # None
      BY <1>6, <1>15, <2>2
    <3>2. /\ queue[j].id \in Msg /\ queue[j].agent = j[1] /\ j[1] \in Name /\ j[2] \in Seqs
          /\ Copy(queue[j].id, j[2])
      BY <3>1, Agents, Copies
    <3>3. queue[j].id # m \/ j[1] # n
      BY <1>4, <2>2, <3>2, Agents DEF OneCopy
    <3>. QED BY <1>7, <3>1, <3>2, <3>3 DEF Paired
  <2>. QED BY <2>1, <2>2
<1>. QED BY <1>14, <1>15 DEF Paired

(* A rename takes the marker along, whatever stood under the new name. *)
LEMMA RenameKeeps ==
  ASSUME IInv, OneCopy, Paired, RenameEntry
  PROVE  OneCopy' /\ Paired'
<1>t. TypeOK
  BY DEF IInv
<1>0. PICK x \in rename.todo, key \in Key, moved \in Item : EntryMoves(x, key, moved)
  BY <1>t, Moves
<1>1. PICK m : m = x.item.id
  OBVIOUS
<1>2. /\ x.key \in Key /\ x.item \in Item /\ key[2] = x.key[2]
      /\ moved.id = m /\ moved.agent = key[1]
      /\ queue'[key] = moved /\ (key # x.key => queue'[x.key] = None)
      /\ \A k \in Key : k # key /\ k # x.key => queue'[k] = queue[k]
      /\ rename'.todo \subseteq rename.todo \ {x}
  BY <1>0, <1>1 DEF EntryMoves
<1>3. marker' = [marker EXCEPT ![m][x.item.agent] = NoMarker, ![m][key[1]] = Queued(key)]
  BY <1>0, <1>1 DEF EntryMoves
<1>4. m \in Msg /\ x.item.agent = x.key[1] /\ Copy(m, key[2]) /\ key[1] \in Name /\ key[2] \in Seqs
  BY <1>1, <1>2, Agents, Copies
<1>5. marker'[m][key[1]] = Queued(key)
      /\ (x.key[1] # key[1] => marker'[m][x.key[1]] = NoMarker)
      /\ \A m2 \in Msg, n2 \in Name :
           (m2 # m \/ (n2 # key[1] /\ n2 # x.key[1])) => marker'[m2][n2] = marker[m2][n2]
  <2>1. x.key[1] \in Name
    BY <1>2, Agents
  <2>. QED BY <1>3, <1>4, <1>t, <2>1 DEF TypeOK
<1>6. \A k \in Key : queue'[k] # None => k = key \/ (k # x.key /\ queue[k] # None /\ queue'[k] = queue[k])
  BY <1>2
<1>7. \A k \in Key : queue'[k] # None => Copy(queue'[k].id, k[2])
  BY <1>2, <1>4, <1>6, Copies
<1>8. \A m2 \in Msg, n2 \in Name : marker'[m2][n2].status \in {"queued", "dead"} =>
        Copy(m2, marker'[m2][n2].key[2])
  BY <1>4, <1>5, Copies DEF Queued, NoMarker
<1>9. \A r \in Run : \A row \in run'[r].todo : Copy(row.item.id, row.key[2])
  BY Copies DEF RenameEntry
<1>10. \A y \in rename'.todo : Copy(y.item.id, y.key[2])
  BY <1>2, Copies
<1>11. \A m2 \in Msg : Known(m2) => Known(m2)'
  <2>1. Known(m)'
    BY <1>4, <1>5 DEF Known, Queued
  <2>. QED BY <1>5, <2>1 DEF Known
<1>12. OneCopy'
  BY <1>7, <1>8, <1>9, <1>10, <1>11, CopiesKept
<1>13. ASSUME NEW j \in Key, queue'[j] # None
       PROVE  marker'[queue'[j].id][queue'[j].agent] = Queued(j)
  <2>1. CASE j = key
    BY <1>2, <1>5, <2>1
  <2>2. CASE j # key
    <3>1. j # x.key /\ queue'[j] = queue[j] /\ queue[j] # None
      BY <1>6, <1>13, <2>2
    <3>2. /\ queue[j].id \in Msg /\ queue[j].agent = j[1] /\ j[1] \in Name /\ j[2] \in Seqs
          /\ Copy(queue[j].id, j[2])
      BY <3>1, Agents, Copies
    <3>3. queue[j].id # m \/ (j[1] # key[1] /\ j[1] # x.key[1])
      BY <1>2, <1>4, <2>2, <3>1, <3>2, Agents DEF OneCopy
    <3>. QED BY <1>5, <3>1, <3>2, <3>3 DEF Paired
  <2>. QED BY <2>1, <2>2
<1>. QED BY <1>12, <1>13 DEF Paired

(* cancelDelivery finds every entry of the message by its markers. *)
LEMMA CancelKeeps ==
  ASSUME IInv, OneCopy, Paired, Dropped, NEW m \in Msg, CancelDelivery(m)
  PROVE  OneCopy' /\ Paired' /\ Dropped'
<1>t. TypeOK
  BY DEF IInv
<1>1. \A k \in Key : queue'[k] = IF \E n \in QueuedFor(m) : marker[m][n].key = k
                                 THEN None ELSE queue[k]
  BY DEF CancelDelivery
<1>2. /\ \A n \in Name : marker'[m][n] = IF n \in QueuedFor(m) THEN Injected ELSE marker[m][n]
      /\ \A m2 \in Msg, n \in Name : m2 # m => marker'[m2][n] = marker[m2][n]
  BY <1>t DEF CancelDelivery, TypeOK
<1>3. run' = run /\ rename' = rename /\ rename.todo = {} /\ cancelled' = cancelled \union {m}
  BY DEF CancelDelivery, GateOpen
<1>4. ASSUME NEW k \in Key, queue'[k] # None
      PROVE  /\ queue[k] # None /\ queue'[k] = queue[k] /\ queue[k].id \in Msg /\ queue[k].id # m
             /\ queue[k].agent \in Name
  <2>1. queue[k] # None /\ queue'[k] = queue[k] /\ ~ \E n \in QueuedFor(m) : marker[m][n].key = k
    BY <1>1, <1>4
  <2>2. queue[k].id \in Msg /\ queue[k].agent \in Name
    BY <2>1, Agents
  <2>3. ASSUME queue[k].id = m PROVE FALSE
    <3>1. marker[m][queue[k].agent] = Queued(k)
      BY <2>1, <2>3 DEF Paired
    <3>2. queue[k].agent \in QueuedFor(m) /\ marker[m][queue[k].agent].key = k
      BY <2>2, <3>1 DEF QueuedFor, Queued
    <3>. QED BY <2>1, <3>2
  <2>. QED BY <2>1, <2>2, <2>3
<1>5. Injected.status = "injected"
  BY DEF Injected
<1>6. \A m2 \in Msg, n \in Name : marker[m2][n].status # "none" => marker'[m2][n].status # "none"
  BY <1>2, <1>5
<1>7. \A m2 \in Msg, n \in Name : marker'[m2][n].status \in {"queued", "dead"} =>
        Copy(m2, marker'[m2][n].key[2])
  BY <1>2, <1>5, Copies
<1>8. \A r \in Run : \A row \in run'[r].todo : Copy(row.item.id, row.key[2])
  BY <1>3, Copies
<1>9. OneCopy' /\ Paired'
  BY <1>2, <1>3, <1>4, <1>6, <1>7, <1>8, KeepStep
<1>10. Dropped'
  BY <1>3, <1>4 DEF Dropped
<1>. QED BY <1>9, <1>10

(* Steps that leave the messages of entries alone keep what was cancelled out. *)
LEMMA DropStays ==
  ASSUME Dropped, cancelled' \subseteq cancelled, rename'.todo \subseteq rename.todo,
         \A k \in Key : queue'[k] # None => queue[k] # None /\ queue'[k].id = queue[k].id
  PROVE  Dropped'
BY DEF Dropped

(* Every handler keeps them, as long as an id is queued once. *)
LEMMA OnceStep ==
  ASSUME IInv, IInv', OneCopy, Paired, Dropped, [Next]_vars, QueuedOnce \/ UNCHANGED vars
  PROVE  OneCopy' /\ Paired' /\ Dropped'
<1> DEFINE Good == OneCopy' /\ Paired' /\ Dropped'
<1>t. TypeOK /\ run \in [Run -> Runs]
  BY DEF IInv, TypeOK
<1>k. ASSUME \A k \in Key : queue'[k] # None =>
               queue[k] # None /\ queue'[k].id = queue[k].id /\ queue'[k].agent = queue[k].agent,
             marker' = marker, rename'.todo \subseteq rename.todo, cancelled' = cancelled,
             \A r \in Run : \A row \in run'[r].todo : Copy(row.item.id, row.key[2])
      PROVE  Good
  <2>1. \A m \in Msg, n \in Name : marker'[m][n].status \in {"queued", "dead"} =>
          Copy(m, marker'[m][n].key[2])
    BY <1>k, Copies
  <2>2. OneCopy' /\ Paired'
    BY <1>k, <2>1, KeepStep
  <2>. QED BY <1>k, <2>2, DropStays
<1>q. ASSUME NEW r \in Run, NEW row, NEW p, NEW nxt, NextRow(r, row, p, nxt)
      PROVE  \A x \in Run : run'[x].todo \subseteq run[x].todo
  BY <1>q, <1>t DEF NextRow, Runs
<1>i. IdleRun.todo = {}
  BY DEF IdleRun
<1>c. ASSUME \A r \in Run : run'[r].todo \subseteq run[r].todo
      PROVE  \A r \in Run : \A row \in run'[r].todo : Copy(row.item.id, row.key[2])
  BY <1>c, Copies
<1>s. ASSUME \A r \in Run : run'[r].todo \subseteq run[r].todo, queue' = queue, marker' = marker,
             rename'.todo \subseteq rename.todo, cancelled' = cancelled
      PROVE  Good
  BY <1>s, <1>k, <1>c
<1>r. ASSUME NEW k \in Key, NEW m \in Msg, Copy(m, k[2]), NEW mk,
             mk.status # "none", mk.status \in {"queued", "dead"} => mk.key = k,
             queue' = [queue EXCEPT ![k] = None],
             marker' = [marker EXCEPT ![m][k[1]] = mk],
             rename' = rename, cancelled' = cancelled,
             \A r \in Run : run'[r].todo \subseteq run[r].todo
      PROVE  Good
  <2>1. OneCopy' /\ Paired'
    BY <1>r, RemoveKeeps
  <2>2. \A j \in Key : queue'[j] # None => queue'[j] = queue[j]
    BY <1>r, <1>t DEF TypeOK
  <2>. QED BY <1>r, <2>1, <2>2, DropStays
<1> HIDE DEF Good
<1>a. ASSUME NEW m \in Msg, NEW e, HandleDeliveryAck(m, e), rename' = rename,
             cancelled' = cancelled, run' = run
      PROVE  Good
  <2>1. PICK x \in Answerable(m, e) : /\ queue' = [queue EXCEPT ![marker[m][x].key] = None]
                                      /\ marker' = [marker EXCEPT ![m][x] = Injected]
    BY <1>a DEF HandleDeliveryAck
  <2>2. PICK k : k = marker[m][x].key
    OBVIOUS
  <2>3. x \in Name /\ marker[m][x].status = "queued" /\ k \in Key
    BY <2>2, AnswerableType
  <2>4. k[1] = x /\ Copy(m, k[2])
    BY <2>2, <2>3, Agents, Copies
  <2>5. Injected.status = "injected"
    BY DEF Injected
  <2>6. queue' = [queue EXCEPT ![k] = None] /\ marker' = [marker EXCEPT ![m][k[1]] = Injected]
    BY <2>1, <2>2, <2>4
  <2>7. \A r \in Run : run'[r].todo \subseteq run[r].todo
    BY <1>a
  <2>. QED BY <1>a, <1>r, <2>3, <2>4, <2>5, <2>6, <2>7
<1>d. ASSUME NEW k \in Key, NEW item \in Item, item.agent = k[1], Copy(item.id, k[2]),
             MarkDead(k, item), rename' = rename, cancelled' = cancelled,
             \A r \in Run : run'[r].todo \subseteq run[r].todo
      PROVE  Good
  <2>1. item.id \in Msg
    BY DEF Item
  <2>2. Dead(k).status = "dead" /\ Dead(k).key = k
    BY DEF Dead
  <2>3. queue' = [queue EXCEPT ![k] = None] /\ marker' = [marker EXCEPT ![item.id][k[1]] = Dead(k)]
    BY <1>d DEF MarkDead
  <2>. QED BY <1>d, <1>r, <2>1, <2>2, <2>3
<1>1. ASSUME NEW r \in Run, NEW m \in Msg, NEW re \in BOOLEAN, NEW n \in Recipients[m],
             QueueDelivery(m, n, re, r)
      PROVE  Good
  <2>1. n \in Name
    BY HubAssumption
  <2>2. PICK k : k = <<n, qseq + 1>>
    OBVIOUS
  <2>3. k \in Key /\ k[2] > qseq /\ qseq' # qseq
    BY <1>1, <1>t, <2>1, <2>2, HubAssumption DEF TypeOK, QueueDelivery, Key, Seqs
  <2>4. NewItem(m, n).id = m /\ NewItem(m, n) # None
    BY <2>1, HubAssumption DEF NewItem, Item, Ages
  <2>5. queue'[k] = NewItem(m, n) /\ \A j \in Key : j # k => queue'[j] = queue[j]
    BY <1>1, <1>t, <2>2, <2>3 DEF TypeOK, QueueDelivery
  <2>6. ~Known(m)
    BY <2>3, <2>4, <2>5 DEF QueuedOnce, vars
  <2>7. OneCopy' /\ Paired'
    BY <1>1, <2>1, <2>6, QueueKeeps
  <2>8. cancelled' = cancelled \ {m} /\ rename' = rename
    BY <1>1 DEF QueueDelivery
  <2>9. Dropped'
    BY <2>4, <2>5, <2>8 DEF Dropped
  <2>. QED BY <2>7, <2>9 DEF Good
<1>2. ASSUME NEW m \in Msg, NEW n \in Name, NEW e \in {n, None},
             \/ DeliverAck(m, n, e) \/ NakDead(m, n, e) \/ NakHold(m, n, e)
             \/ NakRetry(m, n, e) \/ AnswerIgnored(m, n, e)
      PROVE  Good
  <2>0. run' = run /\ rename' = rename /\ cancelled' = cancelled
    BY <1>2 DEF DeliverAck, NakDead, NakHold, NakRetry, AnswerIgnored
  <2>r. \A r \in Run : run'[r].todo \subseteq run[r].todo
    BY <2>0
  <2>1. CASE DeliverAck(m, n, e)
    BY <1>a, <2>0, <2>1 DEF DeliverAck
  <2>2. CASE NakDead(m, n, e)
    <3>1. PICK x \in Answerable(m, e) : MarkDead(marker[m][x].key, queue[marker[m][x].key])
      BY <2>2 DEF NakDead
    <3>2. PICK k : k = marker[m][x].key
      OBVIOUS
    <3>3. /\ x \in Name /\ marker[m][x].status = "queued" /\ k \in Key /\ queue[k] \in Item
          /\ queue[k].id = m /\ queue[k].agent = x
      BY <3>2, AnswerableType
    <3>4. k[1] = x /\ Copy(m, k[2])
      BY <3>2, <3>3, Agents, Copies
    <3>. QED BY <1>d, <2>0, <2>r, <3>1, <3>2, <3>3, <3>4
  <2>3. CASE NakHold(m, n, e)
    <3>1. PICK x \in Answerable(m, e) :
            queue' = [queue EXCEPT ![marker[m][x].key] = Held(queue[marker[m][x].key])]
      BY <2>3 DEF NakHold
    <3>2. PICK k : k = marker[m][x].key
      OBVIOUS
    <3>3. k \in Key /\ queue[k] \in Item /\ queue[k] # None
      BY <3>2, AnswerableType, HubAssumption
    <3>4. Held(queue[k]).id = queue[k].id /\ Held(queue[k]).agent = queue[k].agent
      BY <3>3 DEF Held, Item
    <3>5. queue'[k] = Held(queue[k]) /\ \A j \in Key : j # k => queue'[j] = queue[j]
      BY <1>t, <3>1, <3>2, <3>3 DEF TypeOK
    <3>6. \A j \in Key : queue'[j] # None =>
            queue[j] # None /\ queue'[j].id = queue[j].id /\ queue'[j].agent = queue[j].agent
      BY <3>3, <3>4, <3>5
    <3>7. marker' = marker
      BY <2>3 DEF NakHold
    <3>. QED BY <1>c, <1>k, <2>0, <2>r, <3>6, <3>7
  <2>4. CASE NakRetry(m, n, e) \/ AnswerIgnored(m, n, e)
    <3>1. queue' = queue /\ marker' = marker
      BY <2>4 DEF NakRetry, AnswerIgnored
    <3>. QED BY <1>s, <2>0, <2>r, <3>1
  <2>. QED BY <1>2, <2>1, <2>2, <2>3, <2>4
<1>3. ASSUME NEW m \in Msg, CancelDelivery(m) PROVE Good
  BY <1>3, CancelKeeps DEF Good
<1>4. ASSUME NEW m \in Msg, NEW n \in Inbox, SettleInbox(m, n) PROVE Good
  BY <1>4, <1>a DEF SettleInbox
<1>5. ASSUME NEW r \in Run, NEW m \in Requeueable, Requeue(m, r) PROVE Good
  <2>1. m \in Msg
    BY HubAssumption
  <2>2. OneCopy' /\ Paired'
    BY <1>5, <2>1, RequeueKeeps
  <2>3. PICK n \in FirstDead(m) : queue' = [queue EXCEPT ![marker[m][n].key] = NewItem(m, n)]
    BY <1>5 DEF Requeue
  <2>4. NewItem(m, n).id = m
    BY DEF NewItem
  <2>5. \A j \in Key : queue'[j] = queue[j] \/ queue'[j] = NewItem(m, n)
    BY <1>t, <2>3 DEF TypeOK
  <2>6. cancelled' = cancelled \ {m} /\ rename' = rename
    BY <1>5 DEF Requeue
  <2>7. Dropped'
    BY <2>4, <2>5, <2>6 DEF Dropped
  <2>. QED BY <2>2, <2>7 DEF Good
<1>6. ASSUME AcceptDaemon \/ CloseDaemon PROVE Good
  <2>1. \A r \in Run : SinksClosed[r].todo = run[r].todo
    BY <1>t DEF SinksClosed, Runs
  <2>2. /\ queue' = queue /\ marker' = marker /\ rename' = rename /\ cancelled' = cancelled
        /\ run' = SinksClosed
    BY <1>6 DEF AcceptDaemon, CloseDaemon
  <2>3. \A r \in Run : run'[r].todo \subseteq run[r].todo
    BY <2>1, <2>2
  <2>. QED BY <1>s, <2>2, <2>3
<1>7. ASSUME RenameEntry PROVE Good
  <2>1. OneCopy' /\ Paired'
    BY <1>7, RenameKeeps
  <2>2. PICK x \in rename.todo, key \in Key, moved \in Item : EntryMoves(x, key, moved)
    BY <1>7, <1>t, Moves
  <2>3. /\ queue'[key] = moved /\ moved.id = x.item.id /\ x.key \in Key
        /\ (key # x.key => queue'[x.key] = None)
        /\ \A k \in Key : k # key /\ k # x.key => queue'[k] = queue[k]
        /\ rename'.todo \subseteq rename.todo
    BY <2>2 DEF EntryMoves
  <2>4. cancelled' = cancelled
    BY <1>7 DEF RenameEntry
  <2>5. Dropped'
    BY <2>3, <2>4 DEF Dropped
  <2>. QED BY <2>1, <2>5 DEF Good
<1>l. ASSUME NEW r \in Run, NEW auto \in BOOLEAN, run' = [run EXCEPT ![r] = Dispatching(queue, auto)],
             queue' = queue, marker' = marker, rename' = rename, cancelled' = cancelled
      PROVE  Good
  <2>1. \A x \in Run : \A row \in run'[x].todo : Copy(row.item.id, row.key[2])
    BY <1>l, ListedCopies
  <2>. QED BY <1>k, <1>l, <2>1
<1>8. ASSUME NEW r \in Run, HandleHello(r) \/ AlarmFires(r) \/ RunBegins(r) PROVE Good
  BY <1>8, <1>l DEF HandleHello, CallsDispatch, AlarmFires, RunBegins
<1>9. ASSUME NEW r \in Run, NEW new \in Rosters, ApplyRoster(new, r) PROVE Good
  <2>1. queue' = queue /\ marker' = marker /\ cancelled' = cancelled
    BY <1>9 DEF ApplyRoster
  <2>2. \A x \in Run : run'[x].todo = run[x].todo
    BY <1>9, <1>t DEF TypeOK, ApplyRoster, WillDispatch
  <2>3. \A x \in rename'.todo : x.key \in Key /\ queue[x.key] # None /\ x.item = queue[x.key]
    <3>1. SUFFICES ASSUME NEW x \in rename'.todo
                   PROVE  x.key \in Key /\ queue[x.key] # None /\ x.item = queue[x.key]
      OBVIOUS
    <3>2. PICK k \in LiveKeys(queue) : x = [key |-> k, item |-> queue[k]]
      BY <1>9 DEF ApplyRoster
    <3>. QED BY <3>2 DEF LiveKeys
  <2>4. OneCopy'
    <3>1. \A m \in Msg : Known(m) => Known(m)'
      BY <2>1 DEF Known
    <3>. QED BY <2>1, <2>2, <2>3, <3>1, Copies, CopiesKept
  <2>5. Paired'
    BY <2>1 DEF Paired
  <2>6. Dropped'
    BY <2>1, <2>3 DEF Dropped
  <2>. QED BY <2>4, <2>5, <2>6 DEF Good
<1>10. ASSUME NEW r \in Run, RunStep(r) PROVE Good
  <2>1. CASE RunBegins(r)
    BY <1>8, <2>1
  <2>2. CASE RunExpires(r) \/ RunRevokes(r)
    <3>1. PICK row \in First(run[r].todo) : /\ MarkDead(row.key, row.item)
                                            /\ NextRow(r, row, "dead", run[r].next)
      BY <2>2 DEF RunExpires, RunRevokes
    <3>2. row \in run[r].todo /\ row.key \in Key /\ row.item \in Item
      BY <1>t, <3>1, FirstType
    <3>3. row.item.agent = row.key[1] /\ Copy(row.item.id, row.key[2])
      BY <3>2, Agents, Copies
    <3>4. rename' = rename /\ cancelled' = cancelled
      BY <2>2 DEF RunExpires, RunRevokes
    <3>. QED BY <1>d, <1>q, <3>1, <3>2, <3>3, <3>4
  <2>3. CASE RunAsks(r) \/ QueryAnswers(r) \/ RunResumes(r)
    <3>1. \A x \in Run : run'[x].todo = run[x].todo
      BY <2>3, <1>t DEF RunAsks, QueryAnswers, RunResumes, Runs
    <3>2. queue' = queue /\ marker' = marker /\ rename' = rename /\ cancelled' = cancelled
      BY <2>3 DEF RunAsks, QueryAnswers, RunResumes
    <3>. QED BY <1>s, <3>1, <3>2
  <2>4. CASE RunHolds(r) \/ RunWaits(r) \/ RunLosesClaim(r)
    <3>1. \A x \in Run : run'[x].todo \subseteq run[x].todo
      BY <2>4, <1>q DEF RunHolds, RunWaits, RunLosesClaim
    <3>2. queue' = queue /\ marker' = marker /\ rename' = rename /\ cancelled' = cancelled
      BY <2>4 DEF RunHolds, RunWaits, RunLosesClaim
    <3>. QED BY <1>s, <3>1, <3>2
  <2>5. CASE RunSends(r)
    <3>1. PICK row \in First(run[r].todo) :
            /\ Claimable(row)
            /\ queue' = [queue EXCEPT ![row.key] = Attempted(row.item, run[r].lag)]
            /\ NextRow(r, row, "loop", Earlier(run[r].next, RetryDelay[row.item.attempts + 1]))
      BY <2>5 DEF RunSends
    <3>2. row \in run[r].todo /\ row.key \in Key /\ row.item \in Item /\ run[r].lag \in Ages
      BY <1>t, FirstType DEF Runs
    <3>3. PICK sent : sent = Attempted(row.item, run[r].lag)
      OBVIOUS
    <3>4. sent.id = row.item.id /\ sent.agent = row.item.agent
      BY <3>2, <3>3 DEF Attempted, Item
    <3>5. queue'[row.key] = sent /\ \A j \in Key : j # row.key => queue'[j] = queue[j]
      BY <1>t, <3>1, <3>2, <3>3 DEF TypeOK
    <3>6. queue[row.key] # None
      BY <3>1 DEF Claimable
    <3>7. row.item.id = queue[row.key].id /\ row.item.agent = queue[row.key].agent
      <4>1. PICK own \in [Seqs -> Msg \union {None}] : OwnedBy(own)
        BY DEF IInv, SeqsOwned
      <4>. QED BY <3>2, <3>6, <4>1 DEF OwnedBy, RowOwned
    <3>8. \A j \in Key : queue'[j] # None =>
            queue[j] # None /\ queue'[j].id = queue[j].id /\ queue'[j].agent = queue[j].agent
      BY <3>4, <3>5, <3>6, <3>7
    <3>9. marker' = marker /\ rename' = rename /\ cancelled' = cancelled
      BY <2>5 DEF RunSends
    <3>. QED BY <1>c, <1>k, <1>q, <3>1, <3>8, <3>9
  <2>6. CASE RunFinishes(r)
    <3>1. \A x \in Run : run'[x].todo \subseteq run[x].todo
      BY <2>6, <1>t, <1>i DEF RunFinishes
    <3>2. queue' = queue /\ marker' = marker /\ rename' = rename /\ cancelled' = cancelled
      BY <2>6 DEF RunFinishes
    <3>. QED BY <1>s, <3>1, <3>2
  <2>. QED BY <1>10, <2>1, <2>2, <2>3, <2>4, <2>5, <2>6 DEF RunStep
<1>11. ASSUME NEW r \in Run, QueryFails(r) PROVE Good
  <2>1. \A x \in Run : run'[x].todo \subseteq run[x].todo
    BY <1>11, <1>t, <1>i DEF QueryFails
  <2>2. queue' = queue /\ marker' = marker /\ rename' = rename /\ cancelled' = cancelled
    BY <1>11 DEF QueryFails
  <2>. QED BY <1>s, <2>1, <2>2
<1>12. ASSUME Restart PROVE Good
  <2>1. \A x \in Run : run'[x].todo \subseteq run[x].todo
    BY <1>12, <1>i DEF Restart
  <2>2. queue' = queue /\ marker' = marker /\ rename'.todo \subseteq rename.todo /\ cancelled' = cancelled
    BY <1>12 DEF Restart, NoRename
  <2>. QED BY <1>s, <2>1, <2>2
<1>13. ASSUME RevokeConnection \/ UNCHANGED vars PROVE Good
  <2>1. /\ queue' = queue /\ marker' = marker /\ rename' = rename /\ cancelled' = cancelled
        /\ run' = run
    BY <1>13 DEF RevokeConnection, vars
  <2>2. \A r \in Run : run'[r].todo \subseteq run[r].todo
    BY <2>1
  <2>. QED BY <1>s, <2>1, <2>2
<1>14. ASSUME Tick PROVE Good
  <2>1. \A r \in Run : run'[r].todo \subseteq run[r].todo
    BY <1>14, <1>t DEF Tick, Runs
  <2>2. \A item \in Item : Older(item).id = item.id /\ Older(item).agent = item.agent
    BY DEF Older, Item
  <2>3. \A j \in Key : queue'[j] # None =>
          queue[j] # None /\ queue'[j].id = queue[j].id /\ queue'[j].agent = queue[j].agent
    BY <1>14, <1>t, <2>2 DEF Tick, TypeOK
  <2>4. marker' = marker /\ rename' = rename /\ cancelled' = cancelled
    BY <1>14 DEF Tick
  <2>. QED BY <1>c, <1>k, <2>1, <2>3, <2>4
<1>15. Good
  BY <1>1, <1>2, <1>3, <1>4, <1>5, <1>6, <1>7, <1>8, <1>9, <1>10, <1>11, <1>12, <1>13, <1>14
     DEF Next, DaemonAnswers
<1>. QED BY <1>15 DEF Good

(* What they are the invariant of: the hub, as long as an id is queued once. *)
LEMMA OnceInvariance ==
  Spec /\ [][QueuedOnce]_vars => [](IInv /\ OneCopy /\ Paired /\ Dropped)
<1>1. Init => IInv /\ OneCopy /\ Paired /\ Dropped
  <2>1. ASSUME Init PROVE OneCopy /\ Paired /\ Dropped
    <3>1. /\ \A k \in Key : queue[k] = None
          /\ \A m \in Msg, n \in Name : marker[m][n].status = "none"
          /\ \A r \in Run : run[r].todo = {}
          /\ rename.todo = {}
      BY <2>1 DEF Init, IdleRun, NoRename, NoMarker
    <3>2. \A m \in Msg, s \in Seqs : ~Copy(m, s)
      BY <3>1 DEF Copy
    <3>. QED BY <3>1, <3>2 DEF OneCopy, Paired, Dropped
  <2>. QED BY <2>1, InitInv
<1>2. (IInv /\ OneCopy /\ Paired /\ Dropped) /\ [Next]_vars /\ [QueuedOnce]_vars
        => (IInv /\ OneCopy /\ Paired /\ Dropped)'
  <2>1. IInv /\ [Next]_vars => IInv'
    BY TypeStep, SafeStep DEF IInv
  <2>. QED BY <2>1, OnceStep
<1>. QED BY <1>1, <1>2, PTL DEF Spec

(* As long as an id is queued at this host once, every entry can be settled: *)
(* between two handlers the marker that an ack of it resolves points to it    *)
(* (handleDeliveryAck, queueDelivery, requeue, applyRoster's renames), for    *)
(* any number of runs, agents, attempts and faults.                           *)
THEOREM EntryKeepsMarker == Spec /\ [][QueuedOnce]_vars => []EntryHasMarker
<1>1. Paired => EntryHasMarker
  BY DEF Paired, EntryHasMarker, LiveKeys
<1>. QED BY <1>1, OnceInvariance, PTL

(* As long as an id is queued at this host once, a settled delivery is never  *)
(* dispatched again, whatever rows of it stale runs hold (cancelDelivery).    *)
THEOREM CancelledStaysUnsent == Spec /\ [][QueuedOnce]_vars => CancelledNotSent
<1>1. Dropped => [\A k \in Key : Redispatched(k) => queue[k].id \notin cancelled]_vars
  BY DEF Dropped, Redispatched
<1>2. []Dropped => CancelledNotSent
  BY <1>1, PTL DEF CancelledNotSent
<1>. QED BY <1>2, OnceInvariance, PTL

-----------------------------------------------------------------------------
(* A batch holds every entry or is full *)

(* Every nonempty set of naturals has a least member. *)
LEMMA LeastNat ==
  ASSUME NEW T \in SUBSET Nat, T # {}
  PROVE  \E x \in T : \A y \in T : x <= y
<1> DEFINE R == OpToRel(<, Nat)
<1>1. IsWellFoundedOn(R, Nat)
  BY NatLessThanWellFounded
<1>2. \A ss \in Nat \X Nat : ss \in R <=> ss[1] < ss[2]
  BY DEF OpToRel
<1>3. \A x \in Nat, y \in Nat : y < x => <<y, x>> \in R
  BY <1>2
<1> HIDE DEF R
<1>4. \E x \in T : \A y \in T : ~(<<y, x>> \in R)
  BY <1>1, WFMin, Zenon
<1>5. PICK x \in T : \A y \in T : ~(<<y, x>> \in R)
  BY <1>4, Zenon
<1>6. x \in Nat /\ \A y \in T : y \in Nat
  OBVIOUS
<1>7. \A y \in T : ~(y < x)
  BY <1>3, <1>5, <1>6, Zenon
<1>8. \A y \in T : x <= y
  BY <1>6, <1>7
<1>. QED BY <1>8

(* storage.list returns keys in an order that is total. *)
LEMMA KeyOrder ==
  ASSUME NEW i \in Key, NEW j \in Key, NEW k \in Key
  PROVE  /\ ~KeyLess(k, k)
         /\ KeyLess(i, j) /\ KeyLess(j, k) => KeyLess(i, k)
         /\ KeyLess(j, k) => ~KeyLess(k, j)
         /\ j = k \/ KeyLess(j, k) \/ KeyLess(k, j)
<1>1. \A x \in Key : x[1] \in Nat /\ x[2] \in Nat
  <2>1. \A x \in Key : x[1] \in Name /\ x[2] \in Seqs
    BY DEF Key
  <2>2. Name \subseteq Nat /\ Seqs \subseteq Nat
    BY HubAssumption DEF Seqs
  <2>. QED BY <2>1, <2>2
<1>2. j[1] = k[1] /\ j[2] = k[2] => j = k
  BY DEF Key
<1>. QED BY <1>1, <1>2 DEF KeyLess

(* The keys of S before k, and how many there are. *)
Before(S, k) == {j \in S : KeyLess(j, k)}
Rank(S, k)   == Cardinality(Before(S, k))

(* Ranks are naturals and follow the order of keys. *)
LEMMA Ranks ==
  ASSUME NEW S \in SUBSET Key, IsFiniteSet(S)
  PROVE  /\ \A k \in S : IsFiniteSet(Before(S, k)) /\ Rank(S, k) \in Nat /\ Rank(S, k) <= Cardinality(S)
         /\ \A j, k \in S : KeyLess(j, k) => Rank(S, j) < Rank(S, k)
<1>1. \A k \in S : IsFiniteSet(Before(S, k)) /\ Rank(S, k) \in Nat /\ Rank(S, k) <= Cardinality(S)
  <2>. SUFFICES ASSUME NEW k \in S
                PROVE  IsFiniteSet(Before(S, k)) /\ Rank(S, k) \in Nat /\ Rank(S, k) <= Cardinality(S)
    OBVIOUS
  <2>1. Before(S, k) \in SUBSET S
    BY DEF Before
  <2>2. IsFiniteSet(Before(S, k)) /\ Cardinality(Before(S, k)) <= Cardinality(S)
    BY <2>1, FS_Subset
  <2>. QED BY <2>2, FS_CardinalityType DEF Rank
<1>2. ASSUME NEW j \in S, NEW k \in S, KeyLess(j, k) PROVE Rank(S, j) < Rank(S, k)
  <2>1. Before(S, j) \in SUBSET Before(S, k)
    BY <1>2, KeyOrder DEF Before
  <2>2. j \in Before(S, k) /\ j \notin Before(S, j)
    BY <1>2, KeyOrder DEF Before
  <2>3. /\ Cardinality(Before(S, j)) <= Cardinality(Before(S, k))
        /\ Cardinality(Before(S, k)) = Cardinality(Before(S, j)) => Before(S, k) = Before(S, j)
    BY <1>1, <2>1, FS_Subset
  <2>. QED BY <1>1, <2>2, <2>3 DEF Rank
<1>. QED BY <1>1, <1>2

(* A nonempty finite set of keys has a first and a last one. *)
LEMMA FirstKey ==
  ASSUME NEW S \in SUBSET Key, IsFiniteSet(S), NEW W \in SUBSET S, W # {}
  PROVE  \E k \in W : \A j \in W : Rank(S, k) <= Rank(S, j)
<1> DEFINE T == {Rank(S, k) : k \in W}
<1>1. T \in SUBSET Nat /\ T # {}
  BY Ranks
<1> HIDE DEF T
<1>2. PICK x \in T : \A y \in T : x <= y
  BY <1>1, LeastNat
<1>3. PICK k \in W : x = Rank(S, k)
  BY DEF T
<1>4. \A j \in W : Rank(S, j) \in T
  BY DEF T
<1>. QED BY <1>2, <1>3, <1>4

LEMMA LastKey ==
  ASSUME NEW S \in SUBSET Key, IsFiniteSet(S), S # {}
  PROVE  \E k \in S : \A j \in S : j = k \/ KeyLess(j, k)
<1> DEFINE T == {Cardinality(S) - Rank(S, k) : k \in S}
<1>0. Cardinality(S) \in Nat
  BY FS_CardinalityType
<1>1. T \in SUBSET Nat /\ T # {}
  BY <1>0, Ranks
<1> HIDE DEF T
<1>2. PICK x \in T : \A y \in T : x <= y
  BY <1>1, LeastNat
<1>3. PICK k \in S : x = Cardinality(S) - Rank(S, k)
  BY DEF T
<1>4. ASSUME NEW j \in S, j # k PROVE KeyLess(j, k)
  <2>1. Cardinality(S) - Rank(S, k) <= Cardinality(S) - Rank(S, j)
    BY <1>2, <1>3 DEF T
  <2>2. ~KeyLess(k, j)
    <3>1. Rank(S, j) \in Nat /\ Rank(S, k) \in Nat
      BY Ranks
    <3>2. KeyLess(k, j) => Rank(S, k) < Rank(S, j)
      BY Ranks
    <3>. QED BY <1>0, <2>1, <3>1, <3>2
  <2>. QED BY <1>4, <2>2, KeyOrder
<1>. QED BY <1>4

(* The first Batch keys of S are all of S or Batch many. *)
LEMMA FirstBatch ==
  ASSUME NEW S \in SUBSET Key, IsFiniteSet(S),
         NEW L, L = {k \in S : Rank(S, k) < Batch}, L # S
  PROVE  Cardinality(L) = Batch
<1>0. Batch \in Nat /\ Batch > 0
  BY HubAssumption
<1>1. L \in SUBSET S /\ S \ L \in SUBSET S /\ S \ L # {}
  OBVIOUS
<1>2. PICK k \in S \ L : \A j \in S \ L : Rank(S, k) <= Rank(S, j)
  BY <1>1, FirstKey
<1>3. Rank(S, k) \in Nat /\ Rank(S, k) >= Batch
  BY <1>0, Ranks
<1>4. L = Before(S, k)
  <2>1. ASSUME NEW j \in L PROVE KeyLess(j, k)
    <3>1. Rank(S, j) \in Nat /\ Rank(S, j) < Rank(S, k) /\ j \in S
      BY <1>0, <1>3, <2>1, Ranks
    <3>2. ~KeyLess(k, j) /\ j # k
      BY <1>3, <3>1, Ranks
    <3>. QED BY <3>1, <3>2, KeyOrder
  <2>2. ASSUME NEW j \in S, KeyLess(j, k) PROVE j \in L
    <3>1. Rank(S, j) \in Nat /\ Rank(S, j) < Rank(S, k)
      BY <2>2, Ranks
    <3>. QED BY <1>2, <1>3, <3>1
  <2>. QED BY <1>1, <2>1, <2>2 DEF Before
<1>5. Cardinality(L) = Rank(S, k) /\ IsFiniteSet(L)
  BY <1>4, Ranks DEF Rank
<1>6. ASSUME Rank(S, k) > Batch PROVE FALSE
  <2>1. L # {}
    BY <1>0, <1>5, <1>6, FS_EmptySet
  <2>2. PICK g \in L : \A j \in L : j = g \/ KeyLess(j, g)
    BY <1>1, <1>5, <2>1, LastKey
  <2>3. g \in S /\ KeyLess(g, k) /\ Rank(S, g) < Batch
    BY <1>4 DEF Before
  <2>4. Before(S, g) = L \ {g}
    <3>1. ASSUME NEW j \in Before(S, g) PROVE j \in L /\ j # g
      <4>1. j \in S /\ KeyLess(j, g)
        BY DEF Before
      <4>2. KeyLess(j, k) /\ j # g
        BY <2>3, <4>1, KeyOrder
      <4>. QED BY <1>4, <4>1, <4>2 DEF Before
    <3>2. ASSUME NEW j \in L, j # g PROVE j \in Before(S, g)
      BY <1>1, <2>2, <3>2 DEF Before
    <3>. QED BY <3>1, <3>2
  <2>5. Cardinality(L \ {g}) = Cardinality(L) - 1
    BY <1>5, FS_RemoveElement
  <2>6. Rank(S, g) = Rank(S, k) - 1
    BY <1>5, <2>4, <2>5 DEF Rank
  <2>. QED BY <1>0, <1>3, <1>6, <2>3, <2>6
<1>. QED BY <1>0, <1>3, <1>5, <1>6

(* A batch of dispatchQueued holds the entry k or is full. *)
LEMMA ListedOrFull ==
  ASSUME NEW q \in [Key -> Item \union {None}], IsFiniteSet(LiveKeys(q)), NEW k \in LiveKeys(q)
  PROVE  \/ \E row \in Rows(q) : row.key = k /\ row.item = q[k]
         \/ Cardinality(Rows(q)) = Batch
<1>1. PICK L : L = {j \in LiveKeys(q) : Rank(LiveKeys(q), j) < Batch}
  OBVIOUS
<1>2. Rows(q) = {[key |-> j, item |-> q[j]] : j \in L}
  BY <1>1 DEF Rows, Rank, Before
<1>3. LiveKeys(q) \in SUBSET Key
  BY DEF LiveKeys
<1>4. CASE L = LiveKeys(q)
  <2>1. [key |-> k, item |-> q[k]] \in Rows(q)
    BY <1>2, <1>4
  <2>. QED BY <2>1
<1>5. CASE L # LiveKeys(q)
  <2>1. Cardinality(L) = Batch
    BY <1>1, <1>3, <1>5, FirstBatch
  <2>2. IsFiniteSet(L)
    <3>1. L \in SUBSET LiveKeys(q)
      BY <1>1
    <3>. QED BY <3>1, FS_Subset
  <2>3. PICK f : f = [j \in L |-> [key |-> j, item |-> q[j]]]
    OBVIOUS
  <2>4. f \in [L -> Rows(q)]
    BY <1>2, <2>3
  <2>5. \A i, j \in L : f[i] = f[j] => i = j
    <3>1. \A j \in L : f[j].key = j
      BY <2>3
    <3>. QED BY <3>1
  <2>6. \A row \in Rows(q) : \E j \in L : f[j] = row
    BY <1>2, <2>3
  <2>7. f \in Bijection(L, Rows(q))
    BY <2>4, <2>5, <2>6 DEF Bijection, Injection, Surjection, IsInjective
  <2>8. Cardinality(Rows(q)) = Cardinality(L)
    BY <2>2, <2>7, FS_Bijection DEF ExistsBijection
  <2>. QED BY <2>1, <2>8
<1>. QED BY <1>4, <1>5

-----------------------------------------------------------------------------
(* No wakeup is lost *)

(* An hour whose alarms are spent has its last one at the start of the next. *)
BudgetKept == budget.resumed => budget.count = Limit /\ alarm = budget.left

(* Run r will look at entry k, or set an alarm for it when it ends: it is yet *)
(* to list the queue, or it listed a full batch, or it has an alarm to set,   *)
(* or the row of k as the queue has it is still ahead.                        *)
WillWake(r, k) ==
  \/ run[r].phase = "start"
  \/ /\ run[r].phase \notin {"idle", "start"}
     /\ \/ run[r].full \/ run[r].next # NoAlarm
        \/ \E row \in run[r].todo : row.key = k /\ row.item.attempts = queue[k].attempts

(* Until something fails, every entry has its wakeup; a rename that moves one *)
(* counts as a fault, so there is none.                                       *)
Armed ==
  /\ rename.todo = {}
  /\ \A k \in Key : queue[k] # None => alarm # NoAlarm \/ \E r \in Run : WillWake(r, k)

WakeInv == BudgetKept /\ IsFiniteSet(LiveKeys(queue)) /\ (faults = 0 => Armed)

(* budgetedAlarm leaves an alarm set, whether it grants this one or not. *)
LEMMA SetAlarmArms ==
  ASSUME TypeOK, BudgetKept, NEW at \in Nat, SetAlarm(at)
  PROVE  BudgetKept' /\ alarm' # NoAlarm
<1>1. /\ budget.left \in 1..Hour /\ budget.count \in 0..Limit /\ budget.resumed \in BOOLEAN
      /\ budget \in Budgets
  BY DEF TypeOK, Budgets
<1>2. CASE budget.count < Limit
  <2>1. alarm' = at /\ budget' = [budget EXCEPT !.count = @ + 1]
    BY <1>2 DEF SetAlarm, AlarmAfter, BudgetAfter
  <2>2. budget'.resumed = budget.resumed
    BY <1>1, <2>1 DEF Budgets
  <2>3. budget.resumed = FALSE
    BY <1>1, <1>2, BudgetAssumption DEF BudgetKept
  <2>. QED BY <2>1, <2>2, <2>3 DEF BudgetKept, NoAlarm
<1>3. CASE ~(budget.count < Limit)
  <2>1. /\ alarm' = IF budget.resumed THEN alarm ELSE budget.left
        /\ budget' = [budget EXCEPT !.resumed = TRUE]
    BY <1>3 DEF SetAlarm, AlarmAfter, BudgetAfter
  <2>2. budget'.count = budget.count /\ budget'.left = budget.left /\ budget.count = Limit
    BY <1>1, <1>3, <2>1, BudgetAssumption DEF Budgets
  <2>3. alarm' = budget.left
    BY <2>1 DEF BudgetKept
  <2>. QED BY <1>1, <2>2, <2>3, BudgetAssumption DEF BudgetKept, NoAlarm
<1>. QED BY <1>2, <1>3

(* The passing of a tick moves a spent budget and its alarm together. *)
LEMMA TickKeepsBudget ==
  ASSUME TypeOK, BudgetKept, alarm' = AlarmTick(alarm), budget' = BudgetTick(budget)
  PROVE  BudgetKept' /\ (alarm # NoAlarm => alarm' # NoAlarm)
<1>1. /\ budget.left \in 1..Hour /\ budget.count \in 0..Limit /\ budget.resumed \in BOOLEAN
      /\ budget \in Budgets /\ alarm \in Alarms
  BY DEF TypeOK, Budgets
<1>2. alarm # NoAlarm => alarm' # NoAlarm
  BY <1>1 DEF AlarmTick, Alarms, NoAlarm
<1>3. CASE budget.left = 1
  BY <1>2, <1>3 DEF BudgetTick, FreshBudget, BudgetKept
<1>4. CASE budget.left # 1
  <2>1. budget' = [budget EXCEPT !.left = @ - 1]
    BY <1>4 DEF BudgetTick
  <2>2. budget'.resumed = budget.resumed /\ budget'.count = budget.count /\ budget'.left = budget.left - 1
    BY <1>1, <2>1 DEF Budgets
  <2>3. budget.resumed => alarm' = alarm - 1 /\ alarm = budget.left
    BY <1>1, BudgetAssumption DEF AlarmTick, BudgetKept
  <2>. QED BY <1>2, <2>2, <2>3 DEF BudgetKept
<1>. QED BY <1>3, <1>4

(* At most one key more is live: what is live stays finite. *)
LEMMA FiniteStays ==
  ASSUME IsFiniteSet(LiveKeys(queue)), NEW x,
         \A k \in Key : queue'[k] # None => k = x \/ queue[k] # None
  PROVE  IsFiniteSet(LiveKeys(queue'))
<1>1. IsFiniteSet(LiveKeys(queue) \union {x})
  BY FS_AddElement
<1>2. LiveKeys(queue') \in SUBSET (LiveKeys(queue) \union {x})
  BY DEF LiveKeys
<1>. QED BY <1>1, <1>2, FS_Subset

(* A run that lists the queue takes care of every entry. *)
LEMMA ListingWakes ==
  ASSUME NEW q \in [Key -> Item \union {None}], IsFiniteSet(LiveKeys(q)), q = queue',
         NEW auto \in BOOLEAN, NEW r \in Run, run \in [Run -> Runs],
         run' = [run EXCEPT ![r] = Dispatching(q, auto)]
  PROVE  \A k \in Key : q[k] # None => WillWake(r, k)'
<1>. SUFFICES ASSUME NEW k \in Key, q[k] # None PROVE WillWake(r, k)'
  OBVIOUS
<1>1. k \in LiveKeys(q)
  BY DEF LiveKeys
<1>2. PICK d : d = Dispatching(q, auto)
  OBVIOUS
<1>3. /\ d.phase = "loop" /\ d.todo = Rows(q)
      /\ d.full = (Cardinality(Rows(q)) = Batch)
  <2>1. LiveKeys(q) # {}
    BY <1>1
  <2>. QED BY <1>2, <2>1 DEF Dispatching, IdleRun
<1>4. d.full \/ \E row \in d.todo : row.key = k /\ row.item.attempts = q[k].attempts
  <2>1. CASE Cardinality(Rows(q)) = Batch
    BY <1>3, <2>1
  <2>2. CASE \E row \in Rows(q) : row.key = k /\ row.item = q[k]
    BY <1>3, <2>2
  <2>. QED BY <1>1, <2>1, <2>2, ListedOrFull
<1>5. run'[r] = d
  BY <1>2
<1>. QED BY <1>3, <1>4, <1>5 DEF WillWake

(* A step that takes an alarm or a wakeup from no entry that stays. *)
LEMMA WakeStays ==
  ASSUME Armed, rename'.todo = {}, alarm # NoAlarm => alarm' # NoAlarm,
         \A k \in Key : queue'[k] # None =>
           queue[k] # None /\ \A r \in Run : WillWake(r, k) => WillWake(r, k)'
  PROVE  Armed'
<1> HIDE DEF WillWake
<1>. QED BY DEF Armed

(* Runs that go on as they were still wake an entry that stays as it was. *)
LEMMA SameWakes ==
  ASSUME NEW k \in Key, queue'[k].attempts = queue[k].attempts, NEW r \in Run,
         run'[r].phase = run[r].phase \/ {run[r].phase, run'[r].phase} \cap {"idle", "start"} = {},
         run'[r].full = run[r].full, run'[r].next = run[r].next, run'[r].todo = run[r].todo,
         WillWake(r, k)
  PROVE  WillWake(r, k)'
BY DEF WillWake

(* A run that is done with a row has taken its time into account, or will not *)
(* be the one to send this entry.                                             *)
LEMMA NextRowWakes ==
  ASSUME run \in [Run -> Runs], NEW r \in Run, NEW row \in run[r].todo, NEW p \in {"loop", "dead"},
         NEW nxt, NextRow(r, row, p, nxt), run[r].phase \notin {"idle", "start"},
         NEW k \in Key, queue'[k].attempts = queue[k].attempts,
         run[r].next # NoAlarm => nxt # NoAlarm,
         nxt # NoAlarm \/ row.key # k \/ row.item.attempts # queue[k].attempts,
         NEW x \in Run, WillWake(x, k)
  PROVE  WillWake(x, k)'
<1>1. CASE x # r
  <2>1. run'[x] = run[x]
    BY <1>1 DEF NextRow
  <2>. QED BY <2>1, SameWakes
<1>2. CASE x = r
  <2>1. /\ run'[r].phase = p /\ run'[r].full = run[r].full /\ run'[r].next = nxt
        /\ run'[r].todo = run[r].todo \ {row}
    BY DEF NextRow, Runs
  <2>. QED BY <1>2, <2>1 DEF WillWake
<1>. QED BY <1>1, <1>2

(* What every step that starts no run has to show. *)
LEMMA WakeKeeps ==
  ASSUME WakeInv, BudgetKept', alarm # NoAlarm => alarm' # NoAlarm,
         \A k \in Key : queue'[k] # None =>
           queue[k] # None /\ \A r \in Run : WillWake(r, k) => WillWake(r, k)',
         faults' = 0 => faults = 0, rename'.todo \subseteq rename.todo
  PROVE  WakeInv'
<1> HIDE DEF WillWake, BudgetKept
<1>1. IsFiniteSet(LiveKeys(queue'))
  <2>1. PICK x : x = None
    OBVIOUS
  <2>. QED BY FiniteStays DEF WakeInv
<1>2. ASSUME faults' = 0 PROVE Armed'
  <2>1. Armed
    BY <1>2 DEF WakeInv
  <2>2. rename'.todo = {}
    BY <2>1 DEF Armed
  <2>. QED BY <2>1, <2>2, WakeStays
<1>3. IsFiniteSet(LiveKeys(queue))'
  BY <1>1
<1>. QED BY <1>2, <1>3 DEF WakeInv

(* A handler that starts a run, or sets the alarm, wakes every entry. *)
LEMMA WakeAll ==
  ASSUME WakeInv, BudgetKept', NEW x,
         \A k \in Key : queue'[k] # None => k = x \/ queue[k] # None,
         alarm' # NoAlarm \/ \E r \in Run : \A k \in Key : queue'[k] # None => WillWake(r, k)',
         faults' = 0 => rename'.todo = {}
  PROVE  WakeInv'
<1> HIDE DEF WillWake, BudgetKept
<1>1. IsFiniteSet(LiveKeys(queue'))
  BY FiniteStays DEF WakeInv
<1>2. faults' = 0 => Armed'
  BY DEF Armed
<1>3. IsFiniteSet(LiveKeys(queue))'
  BY <1>1
<1>. QED BY <1>2, <1>3 DEF WakeInv

(* Every handler keeps the wakeups. *)
LEMMA WakeStep ==
  ASSUME IInv, IInv', WakeInv, [Next]_vars PROVE WakeInv'
<1>t. /\ TypeOK /\ run \in [Run -> Runs] /\ queue \in [Key -> Item \union {None}]
      /\ queue' \in [Key -> Item \union {None}] /\ faults \in Nat /\ BudgetKept
  BY HubAssumption DEF IInv, TypeOK, WakeInv
<1>z. ASSUME rename' = rename, faults' = faults, faults' = 0 PROVE rename'.todo = {}
  BY <1>z DEF WakeInv, Armed
<1>b. alarm' = alarm /\ budget' = budget => BudgetKept' /\ (alarm # NoAlarm => alarm' # NoAlarm)
  BY <1>t DEF BudgetKept
(* Entries may go; those that stay have their attempts, and runs are the same. *)
<1>k. ASSUME alarm' = alarm, budget' = budget, faults' = 0 => faults = 0, rename' = rename,
             \A k \in Key : queue'[k] # None => queue[k] # None /\ queue'[k].attempts = queue[k].attempts,
             \A r \in Run :
               /\ \/ run'[r].phase = run[r].phase
                  \/ {run[r].phase, run'[r].phase} \cap {"idle", "start"} = {}
               /\ run'[r].full = run[r].full /\ run'[r].next = run[r].next
               /\ run'[r].todo = run[r].todo
      PROVE  WakeInv'
  <2>1. \A k \in Key : queue'[k] # None =>
          queue[k] # None /\ \A r \in Run : WillWake(r, k) => WillWake(r, k)'
    BY <1>k, SameWakes
  <2>. QED BY <1>b, <1>k, <2>1, WakeKeeps
(* A run starts. *)
<1>s. ASSUME NEW r \in Run, run'[r].phase = "start", alarm' = alarm, budget' = budget, NEW x,
             \A k \in Key : queue'[k] # None => k = x \/ queue[k] # None,
             faults' = 0 => rename'.todo = {}
      PROVE  WakeInv'
  <2>1. \A k \in Key : WillWake(r, k)'
    BY <1>s DEF WillWake
  <2>. QED BY <1>b, <1>s, <2>1, WakeAll
(* A run lists the queue. *)
<1>l. ASSUME NEW r \in Run, NEW auto \in BOOLEAN, run' = [run EXCEPT ![r] = Dispatching(queue', auto)],
             BudgetKept', NEW x,
             \A k \in Key : queue'[k] # None => k = x \/ queue[k] # None,
             faults' = 0 => rename'.todo = {}
      PROVE  WakeInv'
  <2>1. PICK q : q = queue'
    OBVIOUS
  <2>2. IsFiniteSet(LiveKeys(q)) /\ q \in [Key -> Item \union {None}]
    BY <1>l, <1>t, <2>1, FiniteStays DEF WakeInv
  <2>3. \A k \in Key : q[k] # None => WillWake(r, k)'
    BY <1>l, <1>t, <2>1, <2>2, ListingWakes
  <2>. QED BY <1>l, <2>1, <2>3, WakeAll
<1> HIDE DEF WillWake, WakeInv, BudgetKept
<1>1. ASSUME NEW r \in Run, NEW m \in Msg, NEW re \in BOOLEAN, NEW n \in Recipients[m],
             QueueDelivery(m, n, re, r)
      PROVE  WakeInv'
  <2>1. PICK x : x = <<n, qseq + 1>>
    OBVIOUS
  <2>2. \A k \in Key : queue'[k] # None => k = x \/ queue[k] # None
    BY <1>1, <1>t, <2>1 DEF QueueDelivery
  <2>3. /\ run'[r].phase = "start" /\ alarm' = alarm /\ budget' = budget
        /\ rename' = rename /\ faults' = faults
    BY <1>1, <1>t DEF QueueDelivery, WillDispatch, clock, Runs
  <2>. QED BY <1>s, <1>z, <2>2, <2>3
<1>a. ASSUME NEW m \in Msg, NEW e, HandleDeliveryAck(m, e), run' = run, rename' = rename,
             faults' = faults, alarm' = alarm, budget' = budget
      PROVE  WakeInv'
  <2>1. \A k \in Key : queue'[k] # None => queue[k] # None /\ queue'[k].attempts = queue[k].attempts
    BY <1>a, <1>t DEF HandleDeliveryAck
  <2>. QED BY <1>a, <1>k, <2>1
<1>2. ASSUME NEW m \in Msg, NEW n \in Name, NEW e \in {n, None},
             \/ DeliverAck(m, n, e) \/ NakDead(m, n, e) \/ NakHold(m, n, e)
             \/ NakRetry(m, n, e) \/ AnswerIgnored(m, n, e)
      PROVE  WakeInv'
  <2>0. run' = run /\ rename' = rename /\ faults' = faults
    BY <1>2 DEF DeliverAck, NakDead, NakHold, NakRetry, AnswerIgnored
  <2>1. CASE DeliverAck(m, n, e)
    BY <1>a, <2>0, <2>1 DEF DeliverAck, clock
  <2>2. CASE NakDead(m, n, e)
    <3>1. PICK x \in Answerable(m, e) : MarkDead(marker[m][x].key, queue[marker[m][x].key])
      BY <2>2 DEF NakDead
    <3>2. \A k \in Key : queue'[k] # None => queue[k] # None /\ queue'[k].attempts = queue[k].attempts
      BY <1>t, <3>1 DEF MarkDead
    <3>3. alarm' = alarm /\ budget' = budget
      BY <2>2 DEF NakDead, clock
    <3>. QED BY <1>k, <2>0, <3>2, <3>3
  <2>3. CASE NakHold(m, n, e)
    <3>1. PICK x \in Answerable(m, e) :
            queue' = [queue EXCEPT ![marker[m][x].key] = Held(queue[marker[m][x].key])]
      BY <2>3 DEF NakHold
    <3>2. PICK j : j = marker[m][x].key
      OBVIOUS
    <3>3. \A k \in Key : queue'[k] # None => k = j \/ queue[k] # None
      BY <1>t, <3>1, <3>2
    <3>4. BudgetKept' /\ alarm' # NoAlarm
      BY <1>t, <2>3, SetAlarmArms, HubAssumption DEF NakHold
    <3>. QED BY <1>z, <2>0, <3>3, <3>4, WakeAll
  <2>4. CASE NakRetry(m, n, e)
    <3>1. PICK x \in Answerable(m, e) : SetAlarm(RetryDelay[queue[marker[m][x].key].attempts])
      BY <2>4 DEF NakRetry
    <3>2. queue[marker[m][x].key].attempts \in 0..MaxAttempts
      BY AnswerableType DEF Item
    <3>3. RetryDelay[queue[marker[m][x].key].attempts] \in Nat
      BY <3>2, HubAssumption
    <3>4. BudgetKept' /\ alarm' # NoAlarm
      BY <1>t, <3>1, <3>3, SetAlarmArms
    <3>5. queue' = queue
      BY <2>4 DEF NakRetry
    <3>. QED BY <1>z, <2>0, <3>4, <3>5, WakeAll
  <2>5. CASE AnswerIgnored(m, n, e)
    BY <1>k, <2>0, <2>5 DEF AnswerIgnored, clock
  <2>. QED BY <1>2, <2>1, <2>2, <2>3, <2>4, <2>5
<1>3. ASSUME NEW m \in Msg, CancelDelivery(m) PROVE WakeInv'
  <2>1. /\ run' = run /\ rename' = rename /\ faults' = faults /\ alarm' = alarm /\ budget' = budget
    BY <1>3 DEF CancelDelivery, clock
  <2>2. \A k \in Key : queue'[k] # None => queue[k] # None /\ queue'[k].attempts = queue[k].attempts
    BY <1>3 DEF CancelDelivery
  <2>. QED BY <1>k, <2>1, <2>2
<1>4. ASSUME NEW m \in Msg, NEW n \in Inbox, SettleInbox(m, n) PROVE WakeInv'
  BY <1>4, <1>a DEF SettleInbox, clock
<1>5. ASSUME NEW r \in Run, NEW m \in Requeueable, Requeue(m, r) PROVE WakeInv'
  <2>1. PICK n \in FirstDead(m) : queue' = [queue EXCEPT ![marker[m][n].key] = NewItem(m, n)]
    BY <1>5 DEF Requeue
  <2>2. PICK x : x = marker[m][n].key
    OBVIOUS
  <2>3. \A k \in Key : queue'[k] # None => k = x \/ queue[k] # None
    BY <1>t, <2>1, <2>2
  <2>4. /\ run' = [run EXCEPT ![r] = Dispatching(queue', FALSE)] /\ rename' = rename
        /\ faults' = faults /\ alarm' = alarm /\ budget' = budget
    BY <1>5 DEF Requeue, CallsDispatch, clock
  <2>. QED BY <1>b, <1>l, <1>z, <2>3, <2>4
<1>f. \A c \in BOOLEAN : Fault(c) => (faults' = 0 => faults = 0) /\ (c => faults' # 0)
  BY <1>t DEF Fault
<1>6. ASSUME AcceptDaemon \/ CloseDaemon PROVE WakeInv'
  <2>1. \A r \in Run : /\ SinksClosed[r].todo = run[r].todo /\ SinksClosed[r].phase = run[r].phase
                       /\ SinksClosed[r].full = run[r].full /\ SinksClosed[r].next = run[r].next
    BY <1>t DEF SinksClosed, Runs
  <2>2. /\ run' = SinksClosed /\ queue' = queue /\ rename' = rename
        /\ alarm' = alarm /\ budget' = budget
    BY <1>6 DEF AcceptDaemon, CloseDaemon, clock
  <2>3. faults' = 0 => faults = 0
    BY <1>6, <1>f DEF AcceptDaemon, CloseDaemon
  <2>. QED BY <1>k, <2>1, <2>2, <2>3
<1>7. ASSUME RenameEntry PROVE WakeInv'
  <2>1. PICK x \in rename.todo, key \in Key, moved \in Item : EntryMoves(x, key, moved)
    BY <1>7, <1>t, Moves
  <2>2. x.key \in Key /\ \A k \in Key : k # key /\ k # x.key => queue'[k] = queue[k]
    BY <2>1 DEF EntryMoves
  <2>3. key # x.key => queue'[x.key] = None
    BY <2>1 DEF EntryMoves
  <2>4. \A k \in Key : queue'[k] # None => k = key \/ queue[k] # None
    BY <2>2, <2>3
  <2>5. faults' = faults /\ faults # 0
    BY <1>7 DEF RenameEntry, WakeInv, Armed
  <2>6. IsFiniteSet(LiveKeys(queue'))
    BY <2>4, FiniteStays DEF WakeInv
  <2>7. BudgetKept'
    BY <1>b, <1>7 DEF RenameEntry, clock
  <2>8. IsFiniteSet(LiveKeys(queue))'
    BY <2>6
  <2>. QED BY <2>5, <2>7, <2>8 DEF WakeInv
<1>8. ASSUME NEW r \in Run, HandleHello(r) \/ AlarmFires(r) \/ RunBegins(r) PROVE WakeInv'
  <2>1. queue' = queue /\ rename' = rename /\ faults' = faults
    BY <1>8 DEF HandleHello, AlarmFires, RunBegins
  <2>2. PICK auto \in BOOLEAN : run' = [run EXCEPT ![r] = Dispatching(queue', auto)]
    BY <1>8, <2>1 DEF HandleHello, CallsDispatch, AlarmFires, RunBegins
  <2>3. BudgetKept'
    <3>1. CASE HandleHello(r) \/ RunBegins(r)
      BY <1>b, <3>1 DEF HandleHello, RunBegins, clock
    <3>2. CASE AlarmFires(r)
      <4>1. alarm = 0 /\ budget' = budget /\ budget.left > 0
        BY <1>t, <3>2, BudgetAssumption DEF AlarmFires, TypeOK, Budgets
      <4>. QED BY <1>t, <4>1 DEF BudgetKept
    <3>. QED BY <1>8, <3>1, <3>2
  <2>. QED BY <1>l, <1>z, <2>1, <2>2, <2>3
<1>9. ASSUME NEW r \in Run, NEW new \in Rosters, ApplyRoster(new, r) PROVE WakeInv'
  <2>1. run'[r].phase = "start" /\ queue' = queue /\ alarm' = alarm /\ budget' = budget
    BY <1>9, <1>t DEF ApplyRoster, WillDispatch, clock, Runs
  <2>2. ASSUME faults' = 0 PROVE rename'.todo = {}
    <3>1. ~ \E n \in Name : roster[n] # None /\ new[n] # roster[n]
      BY <1>9, <1>f, <2>2 DEF ApplyRoster
    <3>2. \A n \in Name : RenamedTo(new, n) = {}
      BY <3>1 DEF RenamedTo, Rosters
    <3>3. \A k \in LiveKeys(queue) : queue[k].agent \in Name
      BY <1>t DEF LiveKeys, Item
    <3>4. rename'.todo = {[key |-> k, item |-> queue[k]] : k \in
                            {k \in LiveKeys(queue) : RenamedTo(new, queue[k].agent) # {}}}
      BY <1>9 DEF ApplyRoster
    <3>. QED BY <3>2, <3>3, <3>4
  <2>. QED BY <1>s, <2>1, <2>2
<1>n. ASSUME NEW r \in Run, NEW row \in run[r].todo, NEW p \in {"loop", "dead"}, NEW nxt,
             NextRow(r, row, p, nxt), run[r].phase \notin {"idle", "start"},
             run[r].next # NoAlarm => nxt # NoAlarm,
             \A k \in Key : queue'[k] # None => queue[k] # None,
             \A k \in Key : queue'[k] # None /\ (k # row.key \/ nxt = NoAlarm) =>
               queue'[k].attempts = queue[k].attempts,
             \A k \in Key : queue'[k] # None =>
               nxt # NoAlarm \/ row.key # k \/ row.item.attempts # queue[k].attempts,
             alarm' = alarm, budget' = budget, rename' = rename, faults' = faults
      PROVE  WakeInv'
  <2>1. ASSUME NEW k \in Key, queue'[k] # None, NEW x \in Run, WillWake(x, k)
        PROVE  \E y \in Run : WillWake(y, k)'
    <3>1. CASE queue'[k].attempts = queue[k].attempts
      BY <1>n, <1>t, <2>1, <3>1, NextRowWakes
    <3>2. CASE queue'[k].attempts # queue[k].attempts
      <4>1. nxt # NoAlarm
        BY <1>n, <2>1, <3>2
      <4>2. run'[r].phase = p /\ run'[r].next = nxt
        BY <1>n, <1>t DEF NextRow, Runs
      <4>3. WillWake(r, k)'
        BY <1>n, <4>1, <4>2 DEF WillWake
      <4>. QED BY <4>3
    <3>. QED BY <3>1, <3>2
  <2>2. BudgetKept'
    BY <1>b, <1>n
  <2>3. IsFiniteSet(LiveKeys(queue'))
    <3>1. PICK x : x = None
      OBVIOUS
    <3>. QED BY <1>n, FiniteStays DEF WakeInv
  <2>4. ASSUME faults' = 0 PROVE Armed'
    <3>1. Armed
      BY <1>n, <2>4 DEF WakeInv
    <3>. QED BY <1>n, <2>1, <3>1 DEF Armed
  <2>5. IsFiniteSet(LiveKeys(queue))'
    BY <2>3
  <2>. QED BY <2>2, <2>4, <2>5 DEF WakeInv
<1>10. ASSUME NEW r \in Run, RunStep(r) PROVE WakeInv'
  <2>1. CASE RunBegins(r)
    BY <1>8, <2>1
  <2>2. CASE RunExpires(r) \/ RunRevokes(r)
    <3>1. PICK row \in First(run[r].todo) : /\ MarkDead(row.key, row.item)
                                            /\ NextRow(r, row, "dead", run[r].next)
      BY <2>2 DEF RunExpires, RunRevokes
    <3>2. row \in run[r].todo /\ row.key \in Key
      BY <1>t, <3>1, FirstType
    <3>3. queue'[row.key] = None /\ \A k \in Key : queue'[k] # None => queue'[k] = queue[k]
      BY <1>t, <3>1, <3>2 DEF MarkDead
    <3>4. /\ rename' = rename /\ faults' = faults /\ alarm' = alarm /\ budget' = budget
          /\ run[r].phase \notin {"idle", "start"}
      BY <2>2 DEF RunExpires, RunRevokes, clock
    <3>5. PICK nxt : nxt = run[r].next
      OBVIOUS
    <3>6. \A k \in Key : queue'[k] # None => queue[k] # None /\ row.key # k
                                             /\ queue'[k].attempts = queue[k].attempts
      BY <3>3
    <3>. QED BY <1>n, <3>1, <3>2, <3>4, <3>5, <3>6
  <2>3. CASE RunAsks(r) \/ QueryAnswers(r) \/ RunResumes(r)
    <3>1. /\ queue' = queue /\ rename' = rename /\ faults' = faults /\ alarm' = alarm /\ budget' = budget
      BY <2>3 DEF RunAsks, QueryAnswers, RunResumes, clock
    <3>2. \A x \in Run :
            /\ \/ run'[x].phase = run[x].phase
               \/ {run[x].phase, run'[x].phase} \cap {"idle", "start"} = {}
            /\ run'[x].full = run[x].full /\ run'[x].next = run[x].next /\ run'[x].todo = run[x].todo
      BY <1>t, <2>3 DEF RunAsks, QueryAnswers, RunResumes, Runs
    <3>. QED BY <1>k, <3>1, <3>2
  <2>4. CASE RunHolds(r)
    <3>1. PICK row \in First(run[r].todo) :
            /\ Cleared(r, row)
            /\ NextRow(r, row, "loop", Earlier(run[r].next, TTL - row.item.age))
      BY <2>4 DEF RunHolds
    <3>2. row \in run[r].todo /\ row.item \in Item
      BY <1>t, <3>1, FirstType
    <3>3. PICK nxt : nxt = Earlier(run[r].next, TTL - row.item.age)
      OBVIOUS
    <3>4. nxt # NoAlarm
      <4>1. row.item.age \in 0..TTL /\ TTL \in Nat /\ TTL - row.item.age \in Nat
        BY <3>2, HubAssumption DEF Item, Ages
      <4>. QED BY <3>3, <4>1 DEF Earlier, NoAlarm
    <3>5. /\ queue' = queue /\ rename' = rename /\ faults' = faults /\ alarm' = alarm /\ budget' = budget
      BY <2>4 DEF RunHolds, clock
    <3>6. run[r].phase \notin {"idle", "start"}
      BY <3>1 DEF Cleared
    <3>. QED BY <1>n, <3>1, <3>2, <3>3, <3>4, <3>5, <3>6
  <2>5. CASE RunWaits(r)
    <3>1. PICK row \in First(run[r].todo) :
            /\ Cleared(r, row) /\ ~Due(row.item)
            /\ NextRow(r, row, "loop",
                       Earlier(run[r].next, RetryDelay[row.item.attempts] - row.item.wait))
      BY <2>5 DEF RunWaits
    <3>2. row \in run[r].todo /\ row.item \in Item
      BY <1>t, <3>1, FirstType
    <3>3. PICK nxt : nxt = Earlier(run[r].next, RetryDelay[row.item.attempts] - row.item.wait)
      OBVIOUS
    <3>4. nxt # NoAlarm
      <4>1. row.item.wait \in Nat /\ row.item.attempts \in 0..MaxAttempts
        BY <3>2, HubAssumption DEF Item, Ages
      <4>2. RetryDelay[row.item.attempts] \in Nat
        BY <4>1, HubAssumption
      <4>3. RetryDelay[row.item.attempts] - row.item.wait \in Nat
        BY <3>1, <4>1, <4>2 DEF Due
      <4>. QED BY <3>3, <4>3 DEF Earlier, NoAlarm
    <3>5. /\ queue' = queue /\ rename' = rename /\ faults' = faults /\ alarm' = alarm /\ budget' = budget
      BY <2>5 DEF RunWaits, clock
    <3>6. run[r].phase \notin {"idle", "start"}
      BY <3>1 DEF Cleared
    <3>. QED BY <1>n, <3>1, <3>2, <3>3, <3>4, <3>5, <3>6
  <2>6. CASE RunLosesClaim(r)
    <3>1. PICK row \in First(run[r].todo) :
            /\ Cleared(r, row) /\ ~Claimable(row)
            /\ NextRow(r, row, "loop", run[r].next)
      BY <2>6 DEF RunLosesClaim
    <3>2. row \in run[r].todo
      BY <1>t, <3>1, FirstType
    <3>3. PICK nxt : nxt = run[r].next
      OBVIOUS
    <3>4. /\ queue' = queue /\ rename' = rename /\ faults' = faults /\ alarm' = alarm /\ budget' = budget
      BY <2>6 DEF RunLosesClaim, clock
    <3>5. run[r].phase \notin {"idle", "start"}
      BY <3>1 DEF Cleared
    <3>6. \A k \in Key : queue'[k] # None => row.key # k \/ row.item.attempts # queue[k].attempts
      BY <3>1, <3>4 DEF Claimable
    <3>. QED BY <1>n, <3>1, <3>2, <3>3, <3>4, <3>5, <3>6
  <2>7. CASE RunSends(r)
    <3>1. PICK row \in First(run[r].todo) :
            /\ Cleared(r, row) /\ Claimable(row)
            /\ queue' = [queue EXCEPT ![row.key] = Attempted(row.item, run[r].lag)]
            /\ NextRow(r, row, "loop", Earlier(run[r].next, RetryDelay[row.item.attempts + 1]))
      BY <2>7 DEF RunSends
    <3>2. row \in run[r].todo /\ row.key \in Key /\ row.item \in Item
      BY <1>t, <3>1, FirstType
    <3>3. PICK nxt : nxt = Earlier(run[r].next, RetryDelay[row.item.attempts + 1])
      OBVIOUS
    <3>4. nxt # NoAlarm
      <4>1. row.item.attempts \in 0..MaxAttempts /\ ~(row.item.attempts >= MaxAttempts)
        BY <3>1, <3>2 DEF Item, Cleared, Expired
      <4>2. row.item.attempts + 1 \in 0..MaxAttempts
        BY <4>1, HubAssumption
      <4>3. RetryDelay[row.item.attempts + 1] \in Nat
        BY <4>2, HubAssumption
      <4>. QED BY <3>3, <4>3 DEF Earlier, NoAlarm
    <3>5. /\ rename' = rename /\ faults' = faults /\ alarm' = alarm /\ budget' = budget
      BY <2>7 DEF RunSends, clock
    <3>6. run[r].phase \notin {"idle", "start"}
      BY <3>1 DEF Cleared
    <3>7. /\ \A k \in Key : queue'[k] # None => queue[k] # None
          /\ \A k \in Key : k # row.key => queue'[k] = queue[k]
      BY <1>t, <3>1, <3>2 DEF Claimable
    <3>. QED BY <1>n, <3>1, <3>2, <3>3, <3>4, <3>5, <3>6, <3>7
  <2>8. CASE RunFinishes(r)
    <3>1. PICK next : next = IF run[r].full THEN 0 ELSE run[r].next
      OBVIOUS
    <3>2. /\ queue' = queue /\ rename' = rename /\ faults' = faults
          /\ run[r].phase = "loop" /\ run[r].todo = {} /\ run' = [run EXCEPT ![r] = IdleRun]
          /\ IF next = NoAlarm THEN UNCHANGED clock
             ELSE SetAlarm(IF next > run[r].lag THEN next - run[r].lag ELSE 0)
      BY <2>8, <3>1 DEF RunFinishes
    <3>3. CASE next = NoAlarm
      <4>1. ~run[r].full /\ run[r].next = NoAlarm
        BY <1>t, <3>1, <3>3 DEF NoAlarm, Runs
      <4>2. \A k \in Key : ~WillWake(r, k)
        BY <3>2, <4>1 DEF WillWake
      <4>3. \A x \in Run : x # r => run'[x] = run[x]
        BY <3>2
      <4>4. \A k \in Key, x \in Run : WillWake(x, k) => WillWake(x, k)'
        BY <3>2, <4>2, <4>3, SameWakes
      <4>5. alarm' = alarm /\ budget' = budget
        BY <3>2, <3>3 DEF clock
      <4>. QED BY <1>b, <3>2, <4>4, <4>5, WakeKeeps
    <3>4. CASE next # NoAlarm
      <4>1. run[r].next \in 0..TTL \union {NoAlarm} /\ run[r].lag \in 0..TTL
        BY <1>t DEF Runs, Ages
      <4>2. next \in Nat /\ run[r].lag \in Nat
        BY <3>1, <3>4, <4>1, HubAssumption
      <4>3. (IF next > run[r].lag THEN next - run[r].lag ELSE 0) \in Nat
        BY <4>2
      <4>4. BudgetKept' /\ alarm' # NoAlarm
        BY <1>t, <3>2, <3>4, <4>3, SetAlarmArms
      <4>. QED BY <1>z, <3>2, <4>4, WakeAll
    <3>. QED BY <3>3, <3>4
  <2>. QED BY <1>10, <2>1, <2>2, <2>3, <2>4, <2>5, <2>6, <2>7, <2>8 DEF RunStep
<1>r. ASSUME faults' # 0, queue' = queue, budget' = budget, NEW R, alarm' = RetriedAlarm(R)
      PROVE  WakeInv'
  <2>1. budget.left > 0
    BY <1>t, BudgetAssumption DEF TypeOK, Budgets
  <2>2. BudgetKept'
    BY <1>r, <1>t, <2>1 DEF BudgetKept, RetriedAlarm, NoAlarm
  <2>. QED BY <1>r, <2>2 DEF WakeInv
<1>11. ASSUME NEW r \in Run, QueryFails(r) PROVE WakeInv'
  BY <1>11, <1>f, <1>r DEF QueryFails
<1>12. ASSUME Restart PROVE WakeInv'
  BY <1>12, <1>f, <1>r DEF Restart
<1>13. ASSUME RevokeConnection \/ UNCHANGED vars PROVE WakeInv'
  <2>1. /\ run' = run /\ queue' = queue /\ rename' = rename /\ faults' = faults
        /\ alarm' = alarm /\ budget' = budget
    BY <1>13 DEF RevokeConnection, vars, clock
  <2>. QED BY <1>k, <2>1
<1>14. ASSUME Tick PROVE WakeInv'
  <2>1. \A x \in Run : /\ run'[x].phase = run[x].phase /\ run'[x].full = run[x].full
                       /\ run'[x].next = run[x].next /\ run'[x].todo = run[x].todo
    BY <1>14, <1>t DEF Tick, Runs
  <2>2. \A item \in Item : Older(item).attempts = item.attempts
    BY DEF Older, Item
  <2>3. \A k \in Key : queue'[k] # None => queue[k] # None /\ queue'[k].attempts = queue[k].attempts
    BY <1>14, <1>t, <2>2 DEF Tick
  <2>4. BudgetKept' /\ (alarm # NoAlarm => alarm' # NoAlarm)
    BY <1>14, <1>t, TickKeepsBudget DEF Tick
  <2>5. rename' = rename /\ faults' = faults
    BY <1>14 DEF Tick
  <2>6. \A k \in Key : queue'[k] # None =>
          queue[k] # None /\ \A r \in Run : WillWake(r, k) => WillWake(r, k)'
    BY <2>1, <2>3, SameWakes
  <2>. QED BY <2>4, <2>5, <2>6, WakeKeeps
<1>. QED BY <1>1, <1>2, <1>3, <1>4, <1>5, <1>6, <1>7, <1>8, <1>9, <1>10, <1>11, <1>12, <1>13, <1>14
        DEF Next, DaemonAnswers

(* No lost wakeup, for any number of entries, batches, runs and alarms per    *)
(* hour, until something fails: while anything is queued an alarm is set or a *)
(* run that will set one is in progress (alarm, budgetedAlarm,                *)
(* dispatchQueued).                                                           *)
THEOREM WakeupStaysArmed == Spec => []WakeupArmed
<1>1. Init => IInv /\ WakeInv
  <2>1. ASSUME Init PROVE WakeInv
    <3>1. LiveKeys(queue) = {} /\ rename.todo = {} /\ budget.resumed = FALSE
          /\ \A k \in Key : queue[k] = None
      BY <2>1 DEF Init, LiveKeys, NoRename, FreshBudget
    <3>2. IsFiniteSet(LiveKeys(queue))
      BY <3>1, FS_EmptySet
    <3>. QED BY <3>1, <3>2 DEF WakeInv, BudgetKept, Armed
  <2>. QED BY <2>1, InitInv
<1>2. (IInv /\ WakeInv) /\ [Next]_vars => (IInv /\ WakeInv)'
  <2>1. IInv /\ [Next]_vars => IInv'
    BY TypeStep, SafeStep DEF IInv
  <2>. QED BY <2>1, WakeStep
<1>3. WakeInv => WakeupArmed
  BY DEF WakeInv, Armed, WillWake, WakeupArmed, LiveKeys
<1>. QED BY <1>1, <1>2, <1>3, PTL DEF Spec

=============================================================================
