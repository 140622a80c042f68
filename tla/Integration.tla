---------------------------- MODULE Integration ----------------------------
(***************************************************************************)
(* The settlement of channel deliveries: one Integration object            *)
(* (do/integration.ts) between a third-party service, the hosts' queues    *)
(* and the agents that read, answer and settle.                            *)
(*                                                                         *)
(* Every handler reads a delivery record, awaits something and writes back *)
(* the record it read.  While it awaits storage no other event is          *)
(* delivered (the input gate), while it awaits another object or the       *)
(* network all are.  A run is an invocation in progress, with the record   *)
(* it holds; steps between two open awaits are taken with the gate closed. *)
(*                                                                         *)
(* The connector is one that receives events: it has no start, stop, wake  *)
(* or poll, and no health URL.  No step of the code makes a delivery dead, *)
(* so that requeue always refuses.                                         *)
(***************************************************************************)
EXTENDS AlarmBudget

CONSTANTS
  Event,          \* events by their key, and the delivery each one makes
  ToRoom,         \* the deliveries whose target is a room
  Conversation,   \* the deliveries of the conversation that may be settled
  Run,            \* invocations in progress (a bound)
  Via,            \* how daemons deliver: "adapter" and others
  Delay,          \* redeliveryDelay, by attempts and by whether it was read
  ReplyRetry,     \* REPLY_RETRY_MS
  MaxAttempts,    \* attempts beyond which the delay does not change
  MaxDelay,       \* MAX_REDELIVERY_MS
  MaxFaults,      \* bound on failed calls, restarts and requests of the operator
  None

Ticks == 0..MaxDelay

VARIABLES
  meta,       \* meta.status, "new" before the first configure
  row,        \* D1: the status in the integration's row, "none" without one
  writes,     \* D1: writes of that row under way
  patch,      \* the status a PATCH in progress read from the row, or "idle"
  delivery,   \* delivery: records
  reply,      \* reply: records
  alarm, budget,
  run,        \* the invocations in progress
  hub,        \* the marker of each delivery in its HostHub
  reports,    \* injections the HostHub has yet to report
  taken,      \* history: deliveries an adapter has in its agent's session
  landed,     \* history: deliveries whose reply reached the service
  lapsed,     \* history: an alarm fired while paused, or a restart cut a run
  faults

d1 == <<row, writes, patch>>
vars == <<meta, d1, delivery, reply, alarm, budget, run, hub, reports, taken, landed, lapsed, faults>>
outside == <<hub, reports, taken, landed>>

Due == Ticks \union {NoAlarm}

(* A delivery's status is for display: nothing but "dead" is looked at.  What  *)
(* is kept is what it is derived from: attempts, readAt (read), injectedVia     *)
(* "adapter" (held), settledAt (settled) and nextAttemptAt (due).               *)
Delivery == [attempts : 0..MaxAttempts, due : Due, read : BOOLEAN, held : BOOLEAN, settled : BOOLEAN]
Reply == [posted : BOOLEAN, due : Due]

ASSUME IntegrationAssumption ==
  /\ ToRoom \subseteq Event /\ Conversation \subseteq Event /\ None \notin Event \union Delivery \union Reply
  /\ MaxAttempts \in Nat \ {0} /\ MaxDelay \in Nat /\ MaxFaults \in Nat
  /\ ReplyRetry \in Ticks
  /\ Delay \in [0..MaxAttempts -> [BOOLEAN -> Ticks]]

(* An invocation: what began it, where it waits, and what it holds *)
Invocation ==
  [src : {"idle", "call", "retrying", "waking", "resuming", "settling"},
   phase : {"idle", "routed", "looping", "checking", "queueing", "queued", "posting", "posted", "cancelling"},
   what : {"none", "read", "handled", "reply"}, d : Event \union {None},
   del : Delivery \union {None}, ok : BOOLEAN, replies : SUBSET Event, dues : SUBSET Event,
   dels : [Event -> Delivery \union {None}]]

Status == {"active", "paused"}
Writes == [op : {"upsert", "update"}, status : Status]

Fresh == [attempts |-> 0, due |-> NoAlarm, read |-> FALSE, held |-> FALSE, settled |-> FALSE]
NoDels == [d \in Event |-> None]
Idle == [src |-> "idle", phase |-> "idle", what |-> "none", d |-> None, del |-> None,
         ok |-> FALSE, replies |-> {}, dues |-> {}, dels |-> NoDels]

Init ==
  /\ meta = "new" /\ row = "none" /\ writes = {} /\ patch = "idle"
  /\ delivery = NoDels /\ reply = [d \in Event |-> None]
  /\ alarm = NoAlarm /\ budget = FreshBudget
  /\ run = [r \in Run |-> Idle]
  /\ hub = [d \in Event |-> "none"] /\ reports = {} /\ taken = {}
  /\ landed = {} /\ lapsed = FALSE /\ faults = 0

-----------------------------------------------------------------------------
(* The gate, alarms and records *)

(* A run that awaits nothing but storage.  An agent's call on a delivery of  *)
(* its own asks nobody; one on a room's delivery asks the Room, and a reply  *)
(* may ask the service whether it can be answered.                           *)
Closed(r) == \/ run[r].phase = "looping"
             \/ run[r].phase = "checking" /\ run[r].d \notin ToRoom /\ run[r].what # "reply"
GateOpen == ~\E r \in Run : Closed(r)

(* scheduleAt: an earlier alarm stands *)
ScheduleAt(at) ==
  IF at = NoAlarm \/ (alarm # NoAlarm /\ alarm <= at) THEN UNCHANGED <<alarm, budget>>
  ELSE alarm' = AlarmAfter(budget, alarm, at) /\ budget' = BudgetAfter(budget)

Fault == faults < MaxFaults /\ faults' = faults + 1

(* What a run holds of a delivery.  Whoever writes it back sets its due time. *)
Copy(d) == [delivery[d] EXCEPT !.due = NoAlarm]

(* sessionHeld *)
SessionHeld(d, x) == x.held /\ d \notin ToRoom

(* armRedelivery *)
Armed(d, x) ==
  [x EXCEPT !.due = IF SessionHeld(d, x) THEN NoAlarm ELSE Delay[x.attempts][x.read]]

Handled(x) == [x EXCEPT !.settled = TRUE, !.due = NoAlarm]

(* A run goes on with its loop, if it has one, or ends *)
Back(r) == IF run[r].src = "call" THEN Idle
           ELSE [run[r] EXCEPT !.phase = "looping", !.d = None, !.del = None, !.ok = FALSE]

-----------------------------------------------------------------------------
(* Events and their dispatch *)

Asking(i, d, x) == [i EXCEPT !.phase = "queueing", !.d = d, !.del = x]

(* POST /ingest/:source: the source is looked up among the active rows and the *)
(* signature verified; what the object says comes later                        *)
IngestRoute(r, e) ==
  /\ run[r] = Idle /\ row = "active" /\ delivery[e] = None
  /\ run' = [run EXCEPT ![r] = [Idle EXCEPT !.src = "call", !.phase = "routed", !.d = e]]
  /\ UNCHANGED <<meta, d1, delivery, reply, alarm, budget, outside, lapsed, faults>>

(* ingestEvent: event and delivery are committed, then dispatched *)
IngestEvent(r) ==
  /\ GateOpen /\ run[r].phase = "routed" /\ meta = "active" /\ delivery[run[r].d] = None
  /\ delivery' = [delivery EXCEPT ![run[r].d] = Fresh]
  /\ run' = [run EXCEPT ![r] = Asking(@, run[r].d, Fresh)]
  /\ UNCHANGED <<meta, d1, reply, alarm, budget, outside, lapsed, faults>>

(* Paused by now, a duplicate, rate_limited or not a valid event *)
IngestRefused(r) ==
  /\ GateOpen /\ run[r].phase = "routed"
  /\ run' = [run EXCEPT ![r] = Idle]
  /\ UNCHANGED <<meta, d1, delivery, reply, alarm, budget, outside, lapsed, faults>>

(* queueDelivery at the HostHub, or queueChannelDelivery at the Room.  The   *)
(* answer may be lost.                                                        *)
HubQueues(r) ==
  /\ run[r].phase = "queueing"
  /\ LET d == run[r].d IN
     hub' = [hub EXCEPT ![d] = IF @ = "none" \/ (@ # "queued" /\ run[r].del.attempts > 0)
                               THEN "queued" ELSE @]
  /\ \/ run' = [run EXCEPT ![r].phase = "queued", ![r].ok = TRUE] /\ UNCHANGED faults
     \/ Fault /\ run' = [run EXCEPT ![r].phase = "queued", ![r].ok = FALSE]
  /\ UNCHANGED <<meta, d1, delivery, reply, alarm, budget, reports, taken, landed, lapsed>>

(* no_route, or the call fails *)
HubRefuses(r) ==
  /\ run[r].phase = "queueing" /\ Fault
  /\ run' = [run EXCEPT ![r].phase = "queued", ![r].ok = FALSE]
  /\ UNCHANGED <<meta, d1, delivery, reply, alarm, budget, outside, lapsed>>

Dispatched(r) ==
  LET x == run[r].del IN
  IF run[r].ok THEN [x EXCEPT !.attempts = IF @ < MaxAttempts THEN @ + 1 ELSE @] ELSE x

(* variant: a dispatch that failed sets no time for the next *)
DispatchEndsUnarmed(r) ==
  /\ GateOpen /\ run[r].phase = "queued"
  /\ LET d == run[r].d
         x == IF run[r].ok THEN Armed(d, Dispatched(r)) ELSE run[r].del IN
     delivery' = [delivery EXCEPT ![d] = x] /\ ScheduleAt(x.due)
  /\ run' = [run EXCEPT ![r] = Back(r)]
  /\ UNCHANGED <<meta, d1, reply, outside, lapsed, faults>>

(* dispatchDelivery goes on: the record it read before the call is written *)
DispatchEnds(r) ==
  /\ GateOpen /\ run[r].phase = "queued"
  /\ LET d == run[r].d
         x == Armed(d, Dispatched(r)) IN
     delivery' = [delivery EXCEPT ![d] = x] /\ ScheduleAt(x.due)
  /\ run' = [run EXCEPT ![r] = Back(r)]
  /\ UNCHANGED <<meta, d1, reply, outside, lapsed, faults>>

-----------------------------------------------------------------------------
(* What agents do with a delivery *)

(* read_message, mark_handled and chat_reply look the delivery up and check  *)
(* whose it is; a reply that was recorded before is only reported            *)
Call(r, d, what) ==
  /\ GateOpen /\ run[r] = Idle /\ delivery[d] # None
  /\ what = "reply" => reply[d] = None
  /\ run' = [run EXCEPT ![r] = [Idle EXCEPT !.src = "call", !.phase = "checking",
                                            !.what = what, !.d = d, !.del = Copy(d)]]
  /\ UNCHANGED <<meta, d1, delivery, reply, alarm, budget, outside, lapsed, faults>>

(* The tools of the daemon's wire and of MCP (invokeRpc); the integration is  *)
(* found through D1's copy of the delivery, which may not be there yet         *)
RpcReadMessage(r, d) == Call(r, d, "read")
RpcChatReply(r, d)   == Call(r, d, "reply")
RpcMarkHandled(r, d) == Call(r, d, "handled")

MayGoOn(r, what) ==
  run[r].phase = "checking" /\ run[r].what = what /\ ~\E s \in Run \ {r} : Closed(s)

(* Not the owner, another conversation, a service that takes no answers *)
CallRefused(r) ==
  /\ run[r].phase = "checking" /\ ~\E s \in Run \ {r} : Closed(s)
  /\ run' = [run EXCEPT ![r] = Idle]
  /\ UNCHANGED <<meta, d1, delivery, reply, alarm, budget, outside, lapsed, faults>>

(* readMessage, for the first time *)
ReadMessage(r) ==
  /\ MayGoOn(r, "read")
  /\ LET d == run[r].d
         x == Armed(d, [run[r].del EXCEPT !.read = TRUE]) IN
     IF run[r].del.read \/ run[r].del.settled THEN UNCHANGED <<delivery, alarm, budget>>
     ELSE delivery' = [delivery EXCEPT ![d] = x] /\ ScheduleAt(x.due)
  /\ run' = [run EXCEPT ![r] = Idle]
  /\ UNCHANGED <<meta, d1, reply, outside, lapsed, faults>>

(* finishHandled: the delivery is settled and its host's queue drained *)
MarkHandled(r) ==
  /\ MayGoOn(r, "handled")
  /\ IF run[r].del.settled
     THEN UNCHANGED delivery /\ run' = [run EXCEPT ![r] = Idle]
     ELSE /\ delivery' = [delivery EXCEPT ![run[r].d] = Handled(run[r].del)]
          /\ run' = [run EXCEPT ![r].phase = "cancelling", ![r].what = "none", ![r].del = None]
  /\ UNCHANGED <<meta, d1, reply, alarm, budget, outside, lapsed, faults>>

(* POST /api/deliveries/:id/handle, for any delivery *)
OperatorMarkHandled(r, d) ==
  /\ GateOpen /\ run[r] = Idle /\ delivery[d] # None /\ ~delivery[d].settled
  /\ delivery' = [delivery EXCEPT ![d] = Handled(@)]
  /\ run' = [run EXCEPT ![r] = [Idle EXCEPT !.src = "call", !.phase = "cancelling", !.d = d]]
  /\ UNCHANGED <<meta, d1, reply, alarm, budget, outside, lapsed, faults>>

(* variant: the record is left for after the post *)
ChatReplyUnrecorded(r) ==
  /\ MayGoOn(r, "reply")
  /\ run' = [run EXCEPT ![r].phase = "posting", ![r].what = "none"]
  /\ UNCHANGED <<meta, d1, delivery, reply, alarm, budget, outside, lapsed, faults>>

(* chatReply: the reply is recorded, then posted *)
ChatReply(r) ==
  /\ MayGoOn(r, "reply")
  /\ reply' = [reply EXCEPT ![run[r].d] = [posted |-> FALSE, due |-> 0]]
  /\ delivery' = [delivery EXCEPT ![run[r].d] = run[r].del]
  /\ run' = [run EXCEPT ![r].phase = "posting", ![r].what = "none"]
  /\ UNCHANGED <<meta, d1, alarm, budget, outside, lapsed, faults>>

-----------------------------------------------------------------------------
(* Posting a recorded reply *)

(* The service takes it; the answer may be lost *)
PostLands(r) ==
  /\ run[r].phase = "posting"
  /\ landed' = landed \union {run[r].d}
  /\ \/ run' = [run EXCEPT ![r].phase = "posted", ![r].ok = TRUE] /\ UNCHANGED faults
     \/ Fault /\ run' = [run EXCEPT ![r].phase = "posted", ![r].ok = FALSE]
  /\ UNCHANGED <<meta, d1, delivery, reply, alarm, budget, hub, reports, taken, lapsed>>

PostFails(r) ==
  /\ run[r].phase = "posting" /\ Fault
  /\ run' = [run EXCEPT ![r].phase = "posted", ![r].ok = FALSE]
  /\ UNCHANGED <<meta, d1, delivery, reply, alarm, budget, outside, lapsed>>

(* postRecordedReply goes on: the delivery is settled *)
PostSettles(r) ==
  /\ GateOpen /\ run[r].phase = "posted" /\ run[r].ok
  /\ reply' = [reply EXCEPT ![run[r].d] = [posted |-> TRUE, due |-> NoAlarm]]
  /\ delivery' = [delivery EXCEPT ![run[r].d] = Handled(run[r].del)]
  /\ run' = [run EXCEPT ![r].phase = "cancelling", ![r].del = None, ![r].ok = FALSE]
  /\ UNCHANGED <<meta, d1, alarm, budget, outside, lapsed, faults>>

(* variant: a reply that failed waits for an alarm nobody sets *)
PostPendingUnscheduled(r) ==
  /\ GateOpen /\ run[r].phase = "posted" /\ ~run[r].ok
  /\ reply' = [reply EXCEPT ![run[r].d] = [posted |-> FALSE, due |-> ReplyRetry]]
  /\ run' = [run EXCEPT ![r] = Back(r)]
  /\ UNCHANGED <<meta, d1, delivery, alarm, budget, outside, lapsed, faults>>

(* The reply stays recorded, to be retried; the alarm's own end schedules it *)
PostPending(r) ==
  /\ GateOpen /\ run[r].phase = "posted" /\ ~run[r].ok
  /\ reply' = [reply EXCEPT ![run[r].d] = [posted |-> FALSE, due |-> ReplyRetry]]
  /\ IF run[r].src = "call" THEN ScheduleAt(ReplyRetry) ELSE UNCHANGED <<alarm, budget>>
  /\ run' = [run EXCEPT ![r] = Back(r)]
  /\ UNCHANGED <<meta, d1, delivery, outside, lapsed, faults>>

(* cancelHostQueue; a failure is logged *)
CancelHostQueue(r) ==
  /\ GateOpen /\ run[r].phase = "cancelling"
  /\ \/ /\ hub' = [hub EXCEPT ![run[r].d] = IF @ = "queued" THEN "injected" ELSE @]
        /\ UNCHANGED faults
     \/ Fault /\ UNCHANGED hub
  /\ run' = [run EXCEPT ![r] = Back(r)]
  /\ UNCHANGED <<meta, d1, delivery, reply, alarm, budget, reports, taken, landed, lapsed>>

-----------------------------------------------------------------------------
(* Loops: the alarm, a resumed integration, a conversation that is settled *)

Looping(src) == [Idle EXCEPT !.src = src, !.phase = "looping"]

OverdueDeliveries ==
  {d \in Event : delivery[d] # None /\ ~delivery[d].settled /\ delivery[d].due = 0}

(* variant: replies whose time has come are passed over *)
OverdueRepliesNever == {d \in Event : reply[d] # None /\ ~reply[d].posted /\ reply[d].due < 0}

OverdueReplies == {d \in Event : reply[d] # None /\ ~reply[d].posted /\ reply[d].due <= 0}

(* alarm: replies are retried first *)
AlarmFires(r) ==
  /\ GateOpen /\ alarm = 0 /\ run[r] = Idle
  /\ \A s \in Run : run[s].src \notin {"retrying", "waking"}
  /\ alarm' = NoAlarm
  /\ IF meta = "active"
     THEN /\ run' = [run EXCEPT ![r] = [Looping("retrying") EXCEPT !.replies = OverdueReplies]]
          /\ UNCHANGED lapsed
     ELSE UNCHANGED run /\ lapsed' = TRUE
  /\ UNCHANGED <<meta, d1, delivery, reply, budget, outside, faults>>

(* retryReplies: the list is old, the delivery is read anew *)
RetryReply(r, d) ==
  /\ run[r].phase = "looping" /\ d \in run[r].replies
  /\ run' = [run EXCEPT ![r].phase = "posting", ![r].d = d, ![r].del = Copy(d),
                        ![r].replies = @ \ {d}]
  /\ UNCHANGED <<meta, d1, delivery, reply, alarm, budget, outside, lapsed, faults>>

(* dispatchDue takes its list *)
ListsDue(r) ==
  /\ run[r].phase = "looping" /\ run[r].src = "retrying" /\ run[r].replies = {}
  /\ run' = [run EXCEPT ![r].src = "waking", ![r].dues = OverdueDeliveries]
  /\ UNCHANGED <<meta, d1, delivery, reply, alarm, budget, outside, lapsed, faults>>

(* dispatchDelivery reads the record anew, and returns if it is settled *)
DispatchDue(r, d) ==
  /\ run[r].phase = "looping" /\ d \in run[r].dues
  /\ LET i == [run[r] EXCEPT !.dues = @ \ {d}] IN
     run' = [run EXCEPT ![r] = IF meta = "active" /\ ~delivery[d].settled THEN Asking(i, d, Copy(d)) ELSE i]
  /\ UNCHANGED <<meta, d1, delivery, reply, alarm, budget, outside, lapsed, faults>>

(* settleConversation, for one delivery of its list *)
SettleNext(r, d) ==
  /\ run[r].phase = "looping" /\ run[r].dels[d] # None
  /\ delivery' = [delivery EXCEPT ![d] = Handled(run[r].dels[d])]
  /\ run' = [run EXCEPT ![r].phase = "cancelling", ![r].d = d, ![r].dels[d] = None]
  /\ UNCHANGED <<meta, d1, reply, alarm, budget, outside, lapsed, faults>>

(* scheduleNext: the earliest time at which anything is owed *)
Times == {delivery[d].due : d \in {e \in Event : delivery[e] # None /\ ~delivery[e].settled}}
           \union {reply[d].due : d \in {e \in Event : reply[e] # None /\ ~reply[e].posted}}
Earliest == LET ts == Times \ {NoAlarm} IN
            IF ts = {} THEN NoAlarm ELSE CHOOSE t \in ts : \A u \in ts : t <= u

Update(status) == [op |-> "update", status |-> status]
Upsert(status) == [op |-> "upsert", status |-> status]

(* The end of a loop; a resumed integration tells D1 only now *)
LoopEnds(r) ==
  /\ run[r].phase = "looping" /\ run[r].src # "retrying"
  /\ run[r].dues = {} /\ run[r].dels = NoDels
  /\ IF run[r].src = "waking" THEN ScheduleAt(Earliest) ELSE UNCHANGED <<alarm, budget>>
  /\ writes' = IF run[r].src = "resuming" THEN writes \union {Update("active")} ELSE writes
  /\ run' = [run EXCEPT ![r] = Idle]
  /\ UNCHANGED <<meta, row, patch, delivery, reply, outside, lapsed, faults>>

(* settleConversation, called by the connector *)
SettleConversation(r) ==
  /\ GateOpen /\ run[r] = Idle
  /\ \E d \in Conversation : delivery[d] # None /\ ~delivery[d].settled
  /\ run' = [run EXCEPT ![r] = [Looping("settling") EXCEPT !.dels =
       [d \in Event |-> IF d \in Conversation /\ delivery[d] # None /\ ~delivery[d].settled
                        THEN Copy(d) ELSE None]]]
  /\ UNCHANGED <<meta, d1, delivery, reply, alarm, budget, outside, lapsed, faults>>

-----------------------------------------------------------------------------
(* The operator's routes.  Each looks the integration up in D1, and D1 hears of  *)
(* what the object decided later, if at all, and in any order.                   *)

(* configure: the status is the caller's, and nothing is dispatched *)
Configure(status) ==
  /\ GateOpen
  /\ meta' = status
  /\ writes' = writes \union {Upsert(status)}
  /\ UNCHANGED <<row, delivery, reply, alarm, budget, run, outside, lapsed>>

(* POST /api/integrations *)
CreateIntegration == meta = "new" /\ Configure("active") /\ UNCHANGED <<patch, faults>>

(* PATCH /api/integrations/:id reads the row, the object, the target ... *)
PatchRead ==
  /\ row # "none" /\ meta # "new" /\ patch = "idle" /\ Fault
  /\ patch' = row
  /\ UNCHANGED <<meta, row, writes, delivery, reply, alarm, budget, run, outside, lapsed>>

(* ... and configures with the status it read *)
PatchIntegration ==
  /\ patch # "idle" /\ Configure(patch)
  /\ patch' = "idle" /\ UNCHANGED faults

(* pause(true) *)
Pause ==
  /\ GateOpen /\ Fault
  /\ meta' = "paused"
  /\ writes' = writes \union {Update("paused")}
  /\ UNCHANGED <<row, patch, delivery, reply, alarm, budget, run, outside, lapsed>>

(* pause(false): what is overdue is dispatched, and nothing else is scheduled *)
Resume(r) ==
  /\ GateOpen /\ run[r] = Idle
  /\ \/ meta = "paused" /\ UNCHANGED faults
     \/ meta = "active" /\ Fault
  /\ meta' = "active"
  /\ run' = [run EXCEPT ![r] = [Looping("resuming") EXCEPT !.dues = OverdueDeliveries]]
  /\ UNCHANGED <<d1, delivery, reply, alarm, budget, outside, lapsed>>

(* POST /api/integrations/:id/pause *)
PauseIntegration(r) == row # "none" /\ (Pause \/ Resume(r))

(* A write of the row lands, or fails: configure throws, pause logs *)
WriteLands(w) ==
  /\ w \in writes /\ writes' = writes \ {w}
  /\ row' = IF w.op = "upsert" \/ row # "none" THEN w.status ELSE row
  /\ UNCHANGED <<meta, patch, delivery, reply, alarm, budget, run, outside, lapsed, faults>>

WriteFails(w) ==
  /\ w \in writes /\ writes' = writes \ {w} /\ Fault
  /\ UNCHANGED <<meta, row, patch, delivery, reply, alarm, budget, run, outside, lapsed>>

-----------------------------------------------------------------------------
(* The HostHub's side, eviction, time *)

(* The daemon's ack resolves the queued entry *)
HubAcks(d, via) ==
  /\ hub[d] = "queued"
  /\ hub' = [hub EXCEPT ![d] = "injected"]
  /\ reports' = reports \union {<<d, via>>}
  /\ taken' = IF via = "adapter" /\ d \notin ToRoom THEN taken \union {d} ELSE taken
  /\ UNCHANGED <<meta, d1, delivery, reply, alarm, budget, run, landed, lapsed, faults>>

(* The entry expires at the HostHub, which does not tell *)
HubDies(d) ==
  /\ hub[d] = "queued" /\ hub' = [hub EXCEPT ![d] = "dead"]
  /\ UNCHANGED <<meta, d1, delivery, reply, alarm, budget, run, reports, taken, landed, lapsed, faults>>

(* recordInjection: what an adapter holds is not sent again.  A room member's  *)
(* report names the member, not the room, and is ignored.                      *)
RecordInjection(d, via) ==
  LET x == [delivery[d] EXCEPT !.held = (via = "adapter")] IN
  IF delivery[d].settled \/ d \in ToRoom THEN UNCHANGED delivery
  ELSE delivery' = [delivery EXCEPT ![d] =
         [x EXCEPT !.due = IF SessionHeld(d, x) THEN NoAlarm ELSE @]]

(* reportInjection: HostHub's call of it, late or never *)
ReportInjection(d, via) ==
  /\ GateOpen /\ <<d, via>> \in reports /\ reports' = reports \ {<<d, via>>}
  /\ RecordInjection(d, via)
  /\ UNCHANGED <<meta, d1, reply, alarm, budget, run, hub, taken, landed, lapsed, faults>>

(* The object is evicted.  An alarm handler that was cut is run again, unless *)
(* it had set an alarm, which stands.                                         *)
Restart ==
  /\ Fault
  /\ run' = [r \in Run |-> Idle]
  /\ alarm' = IF alarm = NoAlarm /\ \E r \in Run : run[r].src \in {"retrying", "waking"}
              THEN 0 ELSE alarm
  /\ lapsed' = (lapsed \/ \E r \in Run : run[r].src \notin {"idle", "retrying", "waking"})
  /\ UNCHANGED <<meta, d1, delivery, reply, budget, outside>>

Sooner(t) == IF t > 0 THEN t - 1 ELSE t

Tick ==
  /\ GateOpen
  /\ alarm' = AlarmTick(alarm) /\ budget' = BudgetTick(budget)
  /\ delivery' = [d \in Event |-> IF delivery[d] = None THEN None
                                  ELSE [delivery[d] EXCEPT !.due = Sooner(@)]]
  /\ reply' = [d \in Event |-> IF reply[d] = None THEN None ELSE [reply[d] EXCEPT !.due = Sooner(@)]]
  /\ UNCHANGED <<meta, d1, run, outside, lapsed, faults>>

-----------------------------------------------------------------------------
Step(r) ==
  \/ IngestEvent(r) \/ IngestRefused(r)
  \/ HubQueues(r) \/ HubRefuses(r) \/ DispatchEnds(r)
  \/ CallRefused(r) \/ ReadMessage(r) \/ MarkHandled(r) \/ ChatReply(r)
  \/ PostLands(r) \/ PostFails(r) \/ PostSettles(r) \/ PostPending(r) \/ CancelHostQueue(r)
  \/ \E d \in Event : RetryReply(r, d) \/ DispatchDue(r, d) \/ SettleNext(r, d)
  \/ ListsDue(r) \/ LoopEnds(r)

Next ==
  \/ \E r \in Run :
       \/ Step(r) \/ AlarmFires(r) \/ SettleConversation(r) \/ PauseIntegration(r)
       \/ \E d \in Event :
            \/ IngestRoute(r, d) \/ OperatorMarkHandled(r, d)
            \/ RpcReadMessage(r, d) \/ RpcChatReply(r, d) \/ RpcMarkHandled(r, d)
  \/ \E d \in Event, via \in Via : HubAcks(d, via) \/ ReportInjection(d, via)
  \/ \E d \in Event : HubDies(d)
  \/ CreateIntegration \/ PatchRead \/ PatchIntegration
  \/ \E w \in writes : WriteLands(w) \/ WriteFails(w)
  \/ Restart \/ Tick

Spec == Init /\ [][Next]_vars

(* The runtime goes on with what waits at the gate, calls return, alarms fire *)
(* (in any of the invocations), time passes.                                  *)
Progress == /\ \A r \in Run : SF_vars(Step(r))
            /\ SF_vars(\E r \in Run : AlarmFires(r)) /\ SF_vars(Tick)
FairSpec == Spec /\ Progress

-----------------------------------------------------------------------------
(* Properties *)

(* Every variable keeps its type; a run that works on a delivery holds it. *)
TypeOK ==
  /\ meta \in Status \union {"new"} /\ row \in Status \union {"none"}
  /\ writes \subseteq Writes /\ patch \in Status \union {"idle"} /\ lapsed \in BOOLEAN /\ faults \in 0..MaxFaults
  /\ delivery \in [Event -> Delivery \union {None}] /\ reply \in [Event -> Reply \union {None}]
  /\ alarm \in Alarms /\ budget \in Budgets
  /\ run \in [Run -> Invocation]
  /\ \A r \in Run : /\ run[r].phase \in {"checking", "queueing", "queued", "posting", "posted"} =>
                         run[r].d # None /\ run[r].del # None
                    /\ run[r].phase \in {"routed", "cancelling"} => run[r].d # None
  /\ hub \in [Event -> {"none", "queued", "injected", "dead"}]
  /\ reports \subseteq Event \X Via /\ taken \subseteq Event /\ landed \subseteq Event

(* "chat_reply persists the reply record before the outbound post", whatever *)
(* is cut or retried; and a caller that is told handled was posted.          *)
ReplyOnRecord ==
  \A d \in Event : /\ d \in landed => reply[d] # None
                   /\ reply[d] # None /\ reply[d].posted => d \in landed

(* "forever until settled": between invocations, a delivery that is neither  *)
(* settled, answered nor in an agent's session has a time for its next       *)
(* attempt, a recorded reply has one for its next post, and the alarm is set. *)
NothingForgotten ==
  ~lapsed /\ (\A r \in Run : run[r] = Idle) =>
    \A d \in Event :
      /\ delivery[d] # None /\ ~delivery[d].settled /\ reply[d] = None /\ d \notin taken =>
           delivery[d].due # NoAlarm /\ alarm # NoAlarm
      /\ reply[d] # None /\ ~reply[d].posted => reply[d].due # NoAlarm /\ alarm # NoAlarm

(* "if posting fails, Transit retries that recorded reply": every recorded   *)
(* reply reaches the service, when the failures end.                         *)
ReplyIsPosted == \A d \in Event : reply[d] # None ~> d \in landed \/ lapsed

(* An event that was acknowledged reaches the queue of its host, when the    *)
(* failures end, unless it is settled or answered before.                    *)
EventIsQueued ==
  \A d \in Event : delivery[d] # None ~>
    hub[d] # "none" \/ (delivery[d] # None /\ delivery[d].settled) \/ reply[d] # None \/ lapsed

=============================================================================
