------------------------------ MODULE HostHub ------------------------------
(***************************************************************************)
(* The delivery queue of a HostHub Durable Object (do/host-hub.ts): one    *)
(* durable queue entry and one dedupe marker per recipient, drained by     *)
(* re-entrant dispatch runs into the daemon's socket.                      *)
(*                                                                         *)
(* Scheduling.  A Durable Object runs one event at a time and its input    *)
(* gate holds other events back while a handler waits for storage; other   *)
(* events run while it waits for anything else (D1, another object).  A    *)
(* handler that only touches storage is one action.  dispatchQueued is a   *)
(* run: one action per loop iteration, with the gate closed from one to    *)
(* the next, and open while the run awaits D1 or another object.           *)
(*                                                                         *)
(* Time is relative: an entry carries its age and the ticks since its last *)
(* attempt, both saturating at TTL, so that no clock bound is needed.      *)
(***************************************************************************)
EXTENDS AlarmBudget, FiniteSets

CONSTANTS
  Name,          \* agent names of this host; naturals, for their key order
  Pane,          \* terminal panes (or adapter sessions) a roster reports
  Msg,           \* message ids
  Channel,       \* the ids minted by an Integration (dlv_): may be redelivered
  CrossOrg,      \* the ids that carry a connectionId
  Recipients,    \* message id -> the names of this host it is addressed to
  Requeueable,   \* the ids an operator may requeue once they are dead
  Inbox,         \* names whose agent reads and settles its inbox over MCP
  Declared,      \* names with a live agent_client or person_address row
  Run,           \* dispatchQueued invocations that may be in progress at once
  None,          \* no entry, no pane
  MaxSeq,        \* bound on queue:sequence
  MaxAttempts,   \* MAX_DELIVERY_ATTEMPTS
  TTL,           \* DELIVERY_TTL_MS, in ticks
  HoldBackstop,  \* DRAFT_HOLD_BACKSTOP_MS, in ticks
  RetryDelay,    \* attempts -> backoff in ticks, see Backoff
  Batch,         \* QUEUE_BATCH_SIZE
  Legacy,        \* whether the daemon is one that does not echo the agent
  NakCodes,      \* the kinds of deliver_nak a daemon answers with
  MaxFrames,     \* bound on unanswered deliver frames per recipient
  MaxFaults      \* bound on lost sockets, failed D1 queries, restarts of the
                 \* object, and publishes that drop or rename an agent

Seqs == 1..MaxSeq
Key  == Name \X Seqs
Ages == 0..TTL
Item == [id : Msg, agent : Name, attempts : 0..MaxAttempts, age : Ages, wait : Ages]

ASSUME HubAssumption ==
  /\ Name \subseteq Nat /\ Declared \subseteq Name /\ Inbox \subseteq Name
  /\ Channel \subseteq Msg /\ CrossOrg \subseteq Msg /\ Requeueable \subseteq Msg
  /\ Recipients \in [Msg -> SUBSET Name]
  /\ MaxSeq \in Nat /\ MaxFaults \in Nat
  /\ MaxFrames \in Nat \ {0} /\ Batch \in Nat \ {0}
  /\ MaxAttempts \in Nat \ {0} /\ TTL \in Nat \ {0} /\ HoldBackstop \in Nat
  /\ RetryDelay \in [0..MaxAttempts -> 0..TTL]
  /\ Legacy \in BOOLEAN /\ NakCodes \subseteq {"dead", "draft_busy", "retry"}
  /\ None \notin Msg /\ None \notin Name /\ None \notin Pane
  /\ None \notin Item /\ None \notin Key

VARIABLES
  queue,      \* q:<agent>:<seq>    key -> entry or None
  marker,     \* d:<id>:<agent>     -> [status, key]
  qseq,       \* queue:sequence
  roster,     \* roster:<name>      -> pane or None
  gone,       \* gone:<name>        -> ticks since it left; TTL: no grace left
  socket,     \* the daemon's socket: none, open, or ready (said hello)
  connected,  \* the organization connection the CrossOrg ids are pinned to
  run,        \* the dispatchQueued invocations in progress
  rename,     \* applyRoster's rename loop: entries left to move, and the map
  frames,     \* id, agent -> deliver frames on the wire or in the daemon's hands
  cancelled,  \* history: ids settled upstream and not queued again since
  alarm,      \* the object's single alarm
  budget,     \* its hourly alarm budget
  faults      \* how many of those happened so far

clock == <<alarm, budget>>
vars == <<queue, marker, qseq, roster, gone, socket, connected, run, rename,
          frames, cancelled, alarm, budget, faults>>

-----------------------------------------------------------------------------
(* Markers, entries and keys *)

NoMarker      == [status |-> "none", key |-> None]
Queued(k)     == [status |-> "queued", key |-> k]
Dead(k)       == [status |-> "dead", key |-> k]
Injected      == [status |-> "injected", key |-> None]
NewItem(m, n) == [id |-> m, agent |-> n, attempts |-> 0, age |-> 0, wait |-> TTL]

KeyLess(j, k) == j[1] < k[1] \/ (j[1] = k[1] /\ j[2] < k[2])
LiveKeys(q)   == {k \in Key : q[k] # None}

(* storage.list({prefix: "q:", limit}): the first entries in key order *)
Rows(q) == {[key |-> k, item |-> q[k]] :
              k \in {k \in LiveKeys(q) :
                      Cardinality({j \in LiveKeys(q) : KeyLess(j, k)}) < Batch}}
First(R) == {x \in R : \A y \in R : x = y \/ KeyLess(x.key, y.key)}

(* Ticks that passed, and the earlier of two alarms, one of which may be unset *)
Later(age, ticks) == IF age + ticks < TTL THEN age + ticks ELSE TTL
Earlier(a, b)     == IF a = NoAlarm \/ b < a THEN b ELSE a

IdleRun == [phase |-> "idle", todo |-> {}, sink |-> "none", lag |-> 0,
            next |-> NoAlarm, full |-> FALSE, live |-> FALSE, auto |-> FALSE]
NoRename == [todo |-> {}, to |-> [n \in Name |-> n]]

Row  == [key : Key, item : Item]
Runs == [phase : {"idle", "start", "loop", "query", "answered", "dead"},
         todo : SUBSET Row, sink : {"none", "open", "closed"}, lag : Ages,
         next : Ages \union {NoAlarm}, full : BOOLEAN, live : BOOLEAN,
         auto : BOOLEAN]

(* The input gate is closed while a handler runs between two storage calls *)
GateOpen == rename.todo = {} /\ \A r \in Run : run[r].phase # "loop"

Init ==
  /\ queue = [k \in Key |-> None]
  /\ marker = [m \in Msg |-> [n \in Name |-> NoMarker]]
  /\ qseq = 0
  /\ roster = [n \in Name |-> None]
  /\ gone = [n \in Name |-> TTL]
  /\ socket = "none"
  /\ connected = TRUE
  /\ run = [r \in Run |-> IdleRun]
  /\ rename = NoRename
  /\ frames = [m \in Msg |-> [n \in Name |-> 0]] /\ cancelled = {}
  /\ alarm = NoAlarm /\ budget = FreshBudget
  /\ faults = 0

-----------------------------------------------------------------------------
(* Starting a dispatchQueued run *)

(* dispatchQueued up to its loop: list the batch, take the sink and the time *)
Dispatching(q, auto) ==
  IF LiveKeys(q) = {} THEN IdleRun
  ELSE [IdleRun EXCEPT !.phase = "loop", !.todo = Rows(q), !.auto = auto,
                       !.sink = IF socket = "none" THEN "none" ELSE "open",
                       !.full = Cardinality(Rows(q)) = Batch]

(* Called right after a storage call, or after awaiting a broadcast *)
CallsDispatch(r, q) ==
  run[r].phase = "idle" /\ run' = [run EXCEPT ![r] = Dispatching(q, FALSE)]
WillDispatch(r) ==
  run[r].phase = "idle" /\ run' = [run EXCEPT ![r].phase = "start"]

RunBegins(r) ==
  /\ GateOpen /\ run[r].phase = "start"
  /\ run' = [run EXCEPT ![r] = Dispatching(queue, FALSE)]
  /\ UNCHANGED <<queue, marker, qseq, roster, gone, socket, connected, rename,
                 frames, cancelled, clock, faults>>

-----------------------------------------------------------------------------
(* Queueing, settling and requeueing *)

CanReceive(n) == roster[n] # None \/ gone[n] < TTL \/ n \in Declared

(* A duplicate or an unroutable recipient changes nothing *)
QueueDelivery(m, n, redelivery, r) ==
  /\ GateOpen /\ CanReceive(n) /\ qseq < MaxSeq
  /\ marker[m][n].status = "none" \/ (redelivery /\ marker[m][n].status # "queued")
  /\ qseq' = qseq + 1
  /\ queue' = [queue EXCEPT ![<<n, qseq + 1>>] = NewItem(m, n)]
  /\ marker' = [marker EXCEPT ![m][n] = Queued(<<n, qseq + 1>>)]
  /\ cancelled' = cancelled \ {m}
  /\ WillDispatch(r)
  /\ UNCHANGED <<roster, gone, socket, connected, rename, frames, clock, faults>>

(* The recipient whose marker an ack or nak settles: the echoed one if it is *)
(* queued, otherwise the queued marker of the id whose queue key sorts first *)
QueuedFor(m)  == {n \in Name : marker[m][n].status = "queued"}
Resolved(m, e) ==
  {x \in QueuedFor(m) :
     x = e \/ (e \notin QueuedFor(m) /\ \A y \in QueuedFor(m) :
                 x = y \/ KeyLess(marker[m][x].key, marker[m][y].key))}

(* ... when the entry behind the marker is there: otherwise nothing happens *)
Answerable(m, e) == {x \in Resolved(m, e) : queue[marker[m][x].key] # None}

(* variant: the ack settles the message, not one recipient of it *)
HandleDeliveryAckById(m, e) ==
  \E x \in Answerable(m, e) :
    /\ queue' = [k \in Key |-> IF queue[k] # None /\ queue[k].id = m THEN None ELSE queue[k]]
    /\ marker' = [marker EXCEPT ![m][x] = Injected]

HandleDeliveryAck(m, e) ==
  \E x \in Answerable(m, e) :
    /\ queue' = [queue EXCEPT ![marker[m][x].key] = None]
    /\ marker' = [marker EXCEPT ![m][x] = Injected]

SettleInbox(m, n) ==
  /\ GateOpen /\ marker[m][n].status = "queued" /\ HandleDeliveryAck(m, n)
  /\ UNCHANGED <<qseq, roster, gone, socket, connected, run, rename, frames,
                 cancelled, clock, faults>>

(* An answer to a deliver frame arrives, with the echo e of the agent's name *)
(* or, from an older daemon, without one (None)                              *)
Answered(m, n, e) ==
  /\ GateOpen /\ frames[m][n] > 0 /\ e = IF Legacy THEN None ELSE n
  /\ frames' = [frames EXCEPT ![m][n] = @ - 1]

AnswerIgnored(m, n, e) ==
  /\ Answered(m, n, e) /\ Answerable(m, e) = {}
  /\ UNCHANGED <<queue, marker, qseq, roster, gone, socket, connected, run,
                 rename, cancelled, clock, faults>>

DeliverAck(m, n, e) ==
  /\ Answered(m, n, e) /\ HandleDeliveryAck(m, e)
  /\ UNCHANGED <<qseq, roster, gone, socket, connected, run, rename, cancelled,
                 clock, faults>>

(* markDead deletes the entry and writes its marker whatever they hold now *)
MarkDead(k, item) ==
  /\ queue' = [queue EXCEPT ![k] = None]
  /\ marker' = [marker EXCEPT ![item.id][item.agent] = Dead(k)]

NakDead(m, n, e) ==
  /\ "dead" \in NakCodes /\ Answered(m, n, e)
  /\ \E x \in Answerable(m, e) : MarkDead(marker[m][x].key, queue[marker[m][x].key])
  /\ UNCHANGED <<qseq, roster, gone, socket, connected, run, rename, cancelled,
                 clock, faults>>

SetAlarm(at) ==
  /\ alarm' = AlarmAfter(budget, alarm, at)
  /\ budget' = BudgetAfter(budget)

(* draft_busy gives the attempt back; the alarm is only a backstop *)
Held(item) == [item EXCEPT !.attempts = IF @ > 0 THEN @ - 1 ELSE 0]

NakHold(m, n, e) ==
  /\ "draft_busy" \in NakCodes /\ Answered(m, n, e)
  /\ \E x \in Answerable(m, e) :
       queue' = [queue EXCEPT ![marker[m][x].key] = Held(queue[marker[m][x].key])]
  /\ SetAlarm(HoldBackstop)
  /\ UNCHANGED <<marker, qseq, roster, gone, socket, connected, run, rename,
                 cancelled, faults>>

NakRetry(m, n, e) ==
  /\ "retry" \in NakCodes /\ Answered(m, n, e)
  /\ \E x \in Answerable(m, e) :
       SetAlarm(RetryDelay[queue[marker[m][x].key].attempts])
  /\ UNCHANGED <<queue, marker, qseq, roster, gone, socket, connected, run,
                 rename, cancelled, faults>>

(* requeue: the first dead marker of the id, back at its old queue key *)
FirstDead(m) == {n \in Name : /\ marker[m][n].status = "dead"
                              /\ \A y \in Name : marker[m][y].status = "dead" => n <= y}
Requeue(m, r) ==
  /\ GateOpen
  /\ \E n \in FirstDead(m) :
       /\ queue' = [queue EXCEPT ![marker[m][n].key] = NewItem(m, n)]
       /\ marker' = [marker EXCEPT ![m][n] = Queued(marker[m][n].key)]
  /\ cancelled' = cancelled \ {m}
  /\ CallsDispatch(r, queue')
  /\ UNCHANGED <<qseq, roster, gone, socket, connected, rename, frames, clock, faults>>

(* variant: the markers are settled, the entries stay *)
CancelMarkersOnly(m) ==
  /\ GateOpen
  /\ marker' = [marker EXCEPT ![m] =
                  [n \in Name |-> IF n \in QueuedFor(m) THEN Injected ELSE marker[m][n]]]
  /\ cancelled' = cancelled \union {m}
  /\ UNCHANGED <<queue, qseq, roster, gone, socket, connected, run, rename, frames,
                 clock, faults>>

(* cancelDelivery: settlement upstream (mark_handled, chat_reply, revocation) *)
CancelDelivery(m) ==
  /\ GateOpen
  /\ queue' = [k \in Key |-> IF \E n \in QueuedFor(m) : marker[m][n].key = k
                             THEN None ELSE queue[k]]
  /\ marker' = [marker EXCEPT ![m] =
                  [n \in Name |-> IF n \in QueuedFor(m) THEN Injected ELSE marker[m][n]]]
  /\ cancelled' = cancelled \union {m}
  /\ UNCHANGED <<qseq, roster, gone, socket, connected, run, rename, frames, clock, faults>>

-----------------------------------------------------------------------------
(* The daemon's socket and its roster *)

(* A sink taken from a socket that closes can only throw from then on *)
SinksClosed == [r \in Run |-> [run[r] EXCEPT !.sink = IF @ = "open" THEN "closed" ELSE @]]

(* One more fault, if it counts as one and the bound allows it *)
Fault(counts) == IF counts THEN faults < MaxFaults /\ faults' = faults + 1
                           ELSE faults' = faults

(* acceptDaemon closes the socket that was open *)
AcceptDaemon ==
  /\ GateOpen /\ Fault(socket # "none")
  /\ socket' = "open" /\ run' = SinksClosed
  /\ UNCHANGED <<queue, marker, qseq, roster, gone, connected, rename, frames,
                 cancelled, clock>>

(* The network, revoke, a rate limit or a malformed frame closes it *)
CloseDaemon ==
  /\ GateOpen /\ socket # "none" /\ Fault(TRUE)
  /\ socket' = "none" /\ run' = SinksClosed
  /\ UNCHANGED <<queue, marker, qseq, roster, gone, connected, rename, frames,
                 cancelled, clock>>

HandleHello(r) ==
  /\ GateOpen /\ socket = "open"
  /\ socket' = "ready"
  /\ CallsDispatch(r, queue)
  /\ UNCHANGED <<queue, marker, qseq, roster, gone, connected, rename, frames,
                 cancelled, clock, faults>>

(* What a daemon publishes: live names, each on a pane of its own *)
Rosters == {f \in [Name -> Pane \union {None}] :
              \A x, y \in Name : f[x] # None /\ f[x] = f[y] => x = y}

(* A name whose pane now bears another name was renamed *)
RenamedTo(new, n) == {x \in Name : x # n /\ roster[n] # None /\ new[x] = roster[n]}
RenameMap(new) ==
  [n \in Name |-> IF RenamedTo(new, n) = {} THEN n
                  ELSE CHOOSE x \in RenamedTo(new, n) : TRUE]

(* applyRoster: the roster is replaced, the names it drops get a grace, and  *)
(* the entries of a renamed agent are moved, each in its own transaction     *)
ApplyRoster(new, r) ==
  /\ GateOpen /\ socket = "ready"
  /\ Fault(\E n \in Name : roster[n] # None /\ new[n] # roster[n])
  /\ roster' = new
  /\ gone' = [n \in Name |->
       IF new[n] # None THEN TTL
       ELSE IF roster[n] # None /\ RenamedTo(new, n) = {} THEN 0
       ELSE gone[n]]
  /\ rename' = [todo |-> {[key |-> k, item |-> queue[k]] : k \in
                  {k \in LiveKeys(queue) : RenamedTo(new, queue[k].agent) # {}}},
                to |-> RenameMap(new)]
  /\ WillDispatch(r)
  /\ UNCHANGED <<queue, marker, qseq, socket, connected, frames, cancelled, clock>>

(* variant: the entry moves without its marker *)
RenameEntryOnly ==
  /\ \E row \in First(rename.todo) :
       LET new == rename.to[row.item.agent]
           key == <<new, row.key[2]>>
       IN /\ queue' = [queue EXCEPT ![row.key] = None,
                                    ![key] = [row.item EXCEPT !.agent = new]]
          /\ rename' = IF rename.todo = {row} THEN NoRename
                       ELSE [rename EXCEPT !.todo = @ \ {row}]
  /\ UNCHANGED <<marker, qseq, roster, gone, socket, connected, run, frames, cancelled,
                 clock, faults>>

RenameEntry ==
  /\ \E row \in First(rename.todo) :
       LET new == rename.to[row.item.agent]
           key == <<new, row.key[2]>>
       IN /\ queue' = [queue EXCEPT ![row.key] = None,
                                    ![key] = [row.item EXCEPT !.agent = new]]
          /\ marker' = [marker EXCEPT ![row.item.id][row.item.agent] = NoMarker,
                                      ![row.item.id][new] = Queued(key)]
          /\ rename' = IF rename.todo = {row} THEN NoRename
                       ELSE [rename EXCEPT !.todo = @ \ {row}]
  /\ UNCHANGED <<qseq, roster, gone, socket, connected, run, frames, cancelled,
                 clock, faults>>

-----------------------------------------------------------------------------
(* One dispatchQueued run, row by row of the batch it listed *)

(* variant: only the attempts count *)
ExpiredByAttempts(item) == item.attempts >= MaxAttempts

Expired(item) == item.attempts >= MaxAttempts \/ item.age >= TTL

(* The run is at a row that is neither expired nor of a revoked connection *)
Cleared(r, row) ==
  /\ ~Expired(row.item)
  /\ \/ run[r].phase = "loop" /\ row.item.id \notin CrossOrg
     \/ GateOpen /\ run[r].phase = "answered" /\ run[r].live

Accepts(r, row) == run[r].sink # "none" /\ roster[row.item.agent] # None
Due(item)       == item.wait >= RetryDelay[item.attempts]

NextRow(r, row, phase, next) ==
  run' = [run EXCEPT ![r] = [run[r] EXCEPT !.phase = phase, !.todo = @ \ {row},
                                           !.next = next, !.live = FALSE]]

RunExpires(r) ==
  /\ run[r].phase = "loop"
  /\ \E row \in First(run[r].todo) :
       /\ Expired(row.item)
       /\ MarkDead(row.key, row.item)
       /\ NextRow(r, row, "dead", run[r].next)
  /\ UNCHANGED <<qseq, roster, gone, socket, connected, rename, frames, cancelled,
                 clock, faults>>

(* organizationConnectionIsActive: the question, D1's answer, the return *)
RunAsks(r) ==
  /\ run[r].phase = "loop"
  /\ \E row \in First(run[r].todo) :
       ~Expired(row.item) /\ row.item.id \in CrossOrg
  /\ run' = [run EXCEPT ![r].phase = "query"]
  /\ UNCHANGED <<queue, marker, qseq, roster, gone, socket, connected, rename,
                 frames, cancelled, clock, faults>>

QueryAnswers(r) ==
  /\ run[r].phase = "query"
  /\ run' = [run EXCEPT ![r].phase = "answered", ![r].live = connected]
  /\ UNCHANGED <<queue, marker, qseq, roster, gone, socket, connected, rename,
                 frames, cancelled, clock, faults>>

RunRevokes(r) ==
  /\ GateOpen /\ run[r].phase = "answered" /\ ~run[r].live
  /\ \E row \in First(run[r].todo) :
       /\ MarkDead(row.key, row.item)
       /\ NextRow(r, row, "dead", run[r].next)
  /\ UNCHANGED <<qseq, roster, gone, socket, connected, rename, frames, cancelled,
                 clock, faults>>

(* markDead's broadcast to the fleet viewers returns *)
RunResumes(r) ==
  /\ GateOpen /\ run[r].phase = "dead"
  /\ run' = [run EXCEPT ![r].phase = "loop"]
  /\ UNCHANGED <<queue, marker, qseq, roster, gone, socket, connected, rename,
                 frames, cancelled, clock, faults>>

(* No sink, or one whose roster lacks the agent: wake up when it expires *)
RunHolds(r) ==
  /\ \E row \in First(run[r].todo) :
       /\ Cleared(r, row) /\ ~Accepts(r, row)
       /\ NextRow(r, row, "loop", Earlier(run[r].next, TTL - row.item.age))
  /\ UNCHANGED <<queue, marker, qseq, roster, gone, socket, connected, rename,
                 frames, cancelled, clock, faults>>

RunWaits(r) ==
  /\ \E row \in First(run[r].todo) :
       /\ Cleared(r, row) /\ Accepts(r, row) /\ ~Due(row.item)
       /\ NextRow(r, row, "loop",
                  Earlier(run[r].next, RetryDelay[row.item.attempts] - row.item.wait))
  /\ UNCHANGED <<queue, marker, qseq, roster, gone, socket, connected, rename,
                 frames, cancelled, clock, faults>>

(* variant: no comparison of the attempts *)
ClaimableIfThere(row) == queue[row.key] # None

(* The claim: the entry is still there with the attempts the run listed *)
Claimable(row) == queue[row.key] # None /\ queue[row.key].attempts = row.item.attempts

RunLosesClaim(r) ==
  /\ \E row \in First(run[r].todo) :
       /\ Cleared(r, row) /\ Accepts(r, row) /\ Due(row.item) /\ ~Claimable(row)
       /\ NextRow(r, row, "loop", run[r].next)
  /\ UNCHANGED <<queue, marker, qseq, roster, gone, socket, connected, rename,
                 frames, cancelled, clock, faults>>

(* The claim writes the listed entry back, one attempt later; the frame goes *)
(* out unless the socket closed since, which costs the attempt all the same  *)
Attempted(item, lag) == [item EXCEPT !.attempts = @ + 1, !.wait = lag, !.age = Later(@, lag)]

RunSends(r) ==
  /\ \E row \in First(run[r].todo) :
       /\ Cleared(r, row) /\ Accepts(r, row) /\ Due(row.item) /\ Claimable(row)
       /\ queue' = [queue EXCEPT ![row.key] = Attempted(row.item, run[r].lag)]
       /\ frames' = [frames EXCEPT ![row.item.id][row.item.agent] =
                       IF run[r].sink = "open" /\ @ < MaxFrames THEN @ + 1 ELSE @]
       /\ NextRow(r, row, "loop",
                  Earlier(run[r].next, RetryDelay[row.item.attempts + 1]))
  /\ UNCHANGED <<marker, qseq, roster, gone, socket, connected, rename,
                 cancelled, clock, faults>>

(* The loop is over: a full batch asks for another one at once *)
RunFinishes(r) ==
  LET next == IF run[r].full THEN 0 ELSE run[r].next IN
  /\ run[r].phase = "loop" /\ run[r].todo = {}
  /\ IF next = NoAlarm THEN UNCHANGED clock
     ELSE SetAlarm(IF next > run[r].lag THEN next - run[r].lag ELSE 0)
  /\ run' = [run EXCEPT ![r] = IdleRun]
  /\ UNCHANGED <<queue, marker, qseq, roster, gone, socket, connected, rename,
                 frames, cancelled, faults>>

-----------------------------------------------------------------------------
(* The alarm, time, revocation, faults *)

AlarmFires(r) ==
  /\ GateOpen /\ alarm = 0 /\ \A x \in Run : ~run[x].auto
  /\ run[r].phase = "idle"
  /\ run' = [run EXCEPT ![r] = Dispatching(queue, TRUE)]
  /\ alarm' = NoAlarm
  /\ UNCHANGED <<queue, marker, qseq, roster, gone, socket, connected, rename,
                 frames, cancelled, budget, faults>>

(* The runtime calls an alarm handler that failed again, unless the object *)
(* set another alarm in the meantime                                       *)
RetriedAlarm(R) ==
  IF alarm = NoAlarm /\ \E r \in R : run[r].auto THEN 0 ELSE alarm

(* A D1 error is thrown through the loop: the run ends and sets no alarm *)
QueryFails(r) ==
  /\ run[r].phase = "query" /\ Fault(TRUE)
  /\ run' = [run EXCEPT ![r] = IdleRun]
  /\ alarm' = RetriedAlarm({r})
  /\ UNCHANGED <<queue, marker, qseq, roster, gone, socket, connected, rename,
                 frames, cancelled, budget>>

(* The object is evicted or crashes: storage stays, and so may a hibernated socket *)
Restart ==
  /\ Fault(TRUE)
  /\ run' = [r \in Run |-> IdleRun]
  /\ rename' = NoRename
  /\ socket' \in {socket, "none"}
  /\ alarm' = RetriedAlarm(Run)
  /\ UNCHANGED <<queue, marker, qseq, roster, gone, connected, frames, cancelled, budget>>

RevokeConnection ==
  /\ connected /\ connected' = FALSE
  /\ UNCHANGED <<queue, marker, qseq, roster, gone, socket, run, rename, frames,
                 cancelled, clock, faults>>

Older(item) == [item EXCEPT !.age = Later(@, 1), !.wait = Later(@, 1)]

Tick ==
  /\ GateOpen
  /\ queue' = [k \in Key |-> IF queue[k] = None THEN None ELSE Older(queue[k])]
  /\ gone' = [n \in Name |-> Later(gone[n], 1)]
  /\ run' = [r \in Run |-> IF run[r].phase \in {"idle", "start"} THEN run[r]
                           ELSE [run[r] EXCEPT !.lag = Later(@, 1)]]
  /\ alarm' = AlarmTick(alarm)
  /\ budget' = BudgetTick(budget)
  /\ UNCHANGED <<marker, qseq, roster, socket, connected, rename, frames, cancelled, faults>>

-----------------------------------------------------------------------------
RunStep(r) ==
  \/ RunBegins(r) \/ RunExpires(r) \/ RunAsks(r) \/ QueryAnswers(r)
  \/ RunRevokes(r) \/ RunResumes(r) \/ RunHolds(r) \/ RunWaits(r)
  \/ RunLosesClaim(r) \/ RunSends(r) \/ RunFinishes(r)

DaemonAnswers ==
  \E m \in Msg, n \in Name : \E e \in {n, None} :
    \/ DeliverAck(m, n, e) \/ NakDead(m, n, e) \/ NakHold(m, n, e)
    \/ NakRetry(m, n, e) \/ AnswerIgnored(m, n, e)

Next ==
  \/ \E r \in Run, m \in Msg, re \in BOOLEAN : \E n \in Recipients[m] :
       (re => m \in Channel) /\ QueueDelivery(m, n, re, r)
  \/ DaemonAnswers
  \/ \E m \in Msg : CancelDelivery(m) \/ \E n \in Inbox : SettleInbox(m, n)
  \/ \E r \in Run, m \in Requeueable : Requeue(m, r)
  \/ AcceptDaemon \/ CloseDaemon \/ RenameEntry
  \/ \E r \in Run : HandleHello(r) \/ \E new \in Rosters : ApplyRoster(new, r)
  \/ \E r \in Run : RunStep(r) \/ QueryFails(r) \/ AlarmFires(r)
  \/ Restart \/ RevokeConnection \/ Tick

Spec == Init /\ [][Next]_vars

(* The runtime delivers every event that waits at the input gate, D1 and     *)
(* the fleet hub answer, an alarm fires, time passes; the daemon reconnects, *)
(* says hello and repeats its roster every minute (client.go).               *)
Progress ==
  /\ WF_vars(RenameEntry)
  /\ \A r \in Run : SF_vars(RunStep(r))
  /\ SF_vars(\E r \in Run : AlarmFires(r))
  /\ SF_vars(socket = "none" /\ AcceptDaemon)
  /\ SF_vars(\E r \in Run : HandleHello(r))
  /\ SF_vars(\E r \in Run : ApplyRoster(roster, r))

FairSpec == Spec /\ Progress /\ SF_vars(Tick)

-----------------------------------------------------------------------------
(* Properties *)

Markers == [status : {"none", "queued", "dead", "injected"}, key : Key \union {None}]

(* Every variable keeps its type: in particular no claim, hold or requeue    *)
(* ever stores an entry with more than MAX_DELIVERY_ATTEMPTS attempts.       *)
TypeOK ==
  /\ queue \in [Key -> Item \union {None}]
  /\ marker \in [Msg -> [Name -> Markers]]
  /\ qseq \in 0..MaxSeq
  /\ roster \in [Name -> Pane \union {None}]
  /\ gone \in [Name -> Ages]
  /\ socket \in {"none", "open", "ready"}
  /\ connected \in BOOLEAN
  /\ run \in [Run -> Runs]
  /\ rename \in [todo : SUBSET Row, to : [Name -> Name]]
  /\ frames \in [Msg -> [Name -> 0..MaxFrames]] /\ cancelled \subseteq Msg
  /\ alarm \in Alarms /\ budget \in Budgets
  /\ faults \in 0..MaxFaults

(* No black hole: a marker that says "queued", which makes queueDelivery     *)
(* answer "duplicate" for good, has an entry behind it that dispatchQueued   *)
(* will list, whatever stale runs, renames, acks and restarts did meanwhile. *)
QueuedHasEntry ==
  \A m \in Msg, n \in Name : marker[m][n].status = "queued" =>
    /\ marker[m][n].key \in Key
    /\ queue[marker[m][n].key] # None
    /\ queue[marker[m][n].key].id = m /\ queue[marker[m][n].key].agent = n

(* Why it is inductive: a queue sequence number belongs to one message for   *)
(* good, whatever copies of its entry are around (in the queue, in the rows  *)
(* of a stale run or of the rename loop, behind a marker), and a key always  *)
(* names the agent of its entry.  own is the message of each number so far.  *)
RowOwned(own, last, k, item) ==
  item.agent = k[1] /\ item.id = own[k[2]] /\ k[2] <= last

MarkerOwned(own, last, m, n, mk) ==
  mk.status \in {"queued", "dead"} =>
    mk.key \in Key /\ mk.key[1] = n /\ own[mk.key[2]] = m /\ mk.key[2] <= last

OwnedBy(own) ==
  /\ \A k \in Key : queue[k] # None => RowOwned(own, qseq, k, queue[k])
  /\ \A m \in Msg, n \in Name : MarkerOwned(own, qseq, m, n, marker[m][n])
  /\ \A r \in Run : \A row \in run[r].todo : RowOwned(own, qseq, row.key, row.item)
  /\ \A row \in rename.todo : RowOwned(own, qseq, row.key, row.item)

SeqsOwned == \E own \in [Seqs -> Msg \union {None}] : OwnedBy(own)

(* The converse: an entry that dispatchQueued keeps sending can be settled,  *)
(* because the marker an ack of it resolves points to it.                    *)
EntryHasMarker ==
  GateOpen => \A k \in LiveKeys(queue) : marker[queue[k].id][queue[k].agent] = Queued(k)

(* No lost wakeup: as long as no run died with the object or on a D1 error,  *)
(* while anything is queued an alarm is set or a run that will set one is in *)
(* progress (alarm, budgetedAlarm, dispatchQueued).                          *)
WakeupArmed ==
  faults = 0 /\ LiveKeys(queue) # {} => alarm # NoAlarm \/ \E r \in Run : run[r].phase # "idle"

(* A step that hands entry k to the daemon once more *)
Redispatched(k) == /\ queue[k] # None /\ queue'[k] # None
                   /\ queue'[k].attempts > queue[k].attempts

(* Two runs that listed the same entry do not both dispatch it: an entry is  *)
(* sent only once its backoff since the last send, by whichever run, is over *)
(* (the compare-and-set of dispatchQueued).                                  *)
SendsAreSpaced == [][\A k \in Key : Redispatched(k) => Due(queue[k])]_vars

(* cancelDelivery: "a settled delivery is never dispatched again, even while *)
(* its last dispatch is still unacked".                                      *)
CancelledNotSent ==
  [][\A k \in Key : Redispatched(k) => queue[k].id \notin cancelled]_vars

(* Every entry leaves the queue: it is settled or becomes a dead letter,     *)
(* even when the run that should have re-armed the alarm died with the       *)
(* object or on a D1 error (dispatchQueued, markDead, handleHello).          *)
EntryLeaves ==
  \A s \in Seqs : (\E n \in Name : queue[<<n, s>>] # None) ~>
                   (\A n \in Name : queue[<<n, s>>] = None)

=============================================================================
