------------------------------- MODULE Outbox -------------------------------
(***************************************************************************)
(* The sending half of Transit for one enrollment: the daemon's durable    *)
(* spool (spool.go), its flush loop and reaper (client.go), the caller     *)
(* that waits for a commit (ipc.go), the wire, and the admission of a send *)
(* by the Worker (admitSend in do/host-hub.ts).                            *)
(*                                                                         *)
(* One goroutine, outboxLoop, runs the reaper and the flush loop: their    *)
(* steps are phases of one flush record.  Every send frame takes a slot    *)
(* that follows it through: on its way up, in admission at the Worker,     *)
(* queued at the target but not yet recorded, and its answer's way down.   *)
(* A file operation is one action; a pair of them can be cut by a crash,   *)
(* and each of them can fail, as can the write of a frame.                 *)
(***************************************************************************)
EXTENDS Integers, FiniteSets

CONSTANTS
  Msg,         \* outgoing messages; naturals, in the order they are created
  Local,       \* the ones for an agent of this host: the local fast path
  Slot,        \* send frames that may be under way at once
  Capacity,    \* spool limit (10 000)
  Burst,       \* sends the token bucket grants per tick
  TTL,         \* outboxTTL, in ticks
  MaxTries,    \* attempts beyond which the backoff no longer grows (6)
  Wait,        \* attempts -> backoff in ticks (outboxEligible)
  Default,     \* whether this is the default enrollment, see Restart
  MaxFaults    \* bound on failed operations, disconnects, restarts, route changes

ASSUME OutboxAssumption ==
  /\ Msg \subseteq Nat /\ Local \subseteq Msg
  /\ Capacity \in Nat /\ Burst \in Nat \ {0} /\ TTL \in Nat \ {0} /\ MaxFaults \in Nat
  /\ Default \in BOOLEAN
  /\ MaxTries \in Nat /\ Wait \in [0..MaxTries -> 0..TTL]

VARIABLES
  spool,     \* outbox/: per message its file, attempts, age, ticks since tried
  archived,  \* history/: ids the Worker acknowledged
  dead,      \* dead/: the dead letters
  told,      \* senders that got the bounce of their message
  call,      \* sendResponse, per message
  waiter,    \* commitWaiters and the channels: off, waiting, or an outcome
  flush,     \* outboxLoop: its phase, the message it holds, those it reaped
  reapDue,   \* a minute has passed since lastReap
  reapFailed,\* history: the last reap returned an error
  online,    \* the daemon's connection
  slot,      \* send frames under way
  sent,      \* s:<id> at the sender's HostHub
  tokens,    \* rate:send:<agent>
  queued,    \* ids durably queued at their target (queueDelivery, Room.post)
  route,     \* ids whose target exists and admits them
  faults

vars == <<spool, archived, dead, told, call, waiter, flush, reapDue, reapFailed,
          online, slot, sent, tokens, queued, route, faults>>
reaper == <<reapDue, reapFailed>>
worker == <<sent, tokens, queued, route>>

Tries == 0..MaxTries
Codes == {"ack", "no_route", "rate_limited"}
Roles == {"caller", "flusher"}

Entry == [file : {"none", "msg", "claimed"}, attempts : Tries, age : 0..TTL, idle : 0..TTL]
Frame == [stage : {"free", "up", "admit", "committed", "down"},
          msg : Msg \union {0}, code : Codes, live : BOOLEAN]
Loop  == [phase : {"idle", "reaping", "removing", "telling", "flushing", "claimed",
                   "waiting", "acked", "killed", "bouncing"},
          msg : Msg \union {0}, reaped : SUBSET Msg]
Holding == {"removing", "claimed", "waiting", "acked", "killed", "bouncing"}

NoFile == [file |-> "none", attempts |-> 0, age |-> 0, idle |-> 0]
Free   == [stage |-> "free", msg |-> 0, code |-> "ack", live |-> FALSE]
Idle   == [phase |-> "idle", msg |-> 0, reaped |-> {}]

Init ==
  /\ spool = [m \in Msg |-> NoFile]
  /\ archived = {} /\ dead = {} /\ told = {}
  /\ call = [m \in Msg |-> "none"]
  /\ waiter = [m \in Msg |-> [w \in Roles |-> "off"]]
  /\ flush = Idle /\ reapDue = TRUE /\ reapFailed = FALSE /\ online = FALSE
  /\ slot = [x \in Slot |-> Free]
  /\ sent = [m \in Msg |-> "none"] /\ tokens = Burst
  /\ queued = {} /\ route = Msg
  /\ faults = 0

Fault == faults < MaxFaults /\ faults' = faults + 1

-----------------------------------------------------------------------------
(* The caller *)

Files == {m \in Msg : spool[m].file # "none"}

(* sendResponse up to its wait: a full spool refuses the message *)
Send(m) ==
  /\ call[m] = "none" /\ \A j \in Msg : j < m => call[j] # "none"
  /\ IF Cardinality(Files) >= Capacity
     THEN call' = [call EXCEPT ![m] = "refused"] /\ UNCHANGED <<spool, waiter>>
     ELSE /\ spool' = [spool EXCEPT ![m] = [NoFile EXCEPT !.file = "msg", !.idle = TTL]]
          /\ call' = [call EXCEPT ![m] = IF m \in Local THEN "injecting" ELSE "waiting"]
          /\ waiter' = IF m \in Local THEN waiter
                       ELSE [waiter EXCEPT ![m]["caller"] = "waiting"]
  /\ UNCHANGED <<archived, dead, told, flush, reaper, online, slot, worker, faults>>

(* Enqueue cannot write the file *)
SendFails(m) ==
  /\ call[m] = "none" /\ \A j \in Msg : j < m => call[j] # "none"
  /\ Fault
  /\ call' = [call EXCEPT ![m] = "refused"]
  /\ UNCHANGED <<spool, archived, dead, told, waiter, flush, reaper, online, slot, worker>>

(* deliverLocal returned: the target took the message or holds it back *)
LocalReturns(m) ==
  /\ call[m] = "injecting"
  /\ \E result \in {"injected", "spooled"} : call' = [call EXCEPT ![m] = result]
  /\ UNCHANGED <<spool, archived, dead, told, waiter, flush, reaper, online, slot,
                 worker, faults>>

(* The commit waiter is resolved, or ten seconds pass *)
CallerReturns(m) ==
  /\ call[m] = "waiting"
  /\ \/ waiter[m]["caller"] = "ack" /\ call' = [call EXCEPT ![m] = "committed"]
     \/ waiter[m]["caller"] \in Codes \ {"ack"} /\ call' = [call EXCEPT ![m] = "rejected"]
     \/ call' = [call EXCEPT ![m] = "spooled"]
  /\ waiter' = [waiter EXCEPT ![m]["caller"] = "off"]
  /\ UNCHANGED <<spool, archived, dead, told, flush, reaper, online, slot, worker, faults>>

-----------------------------------------------------------------------------
(* outboxLoop: the reaper, once a minute, before the flush loop *)

Wake ==
  /\ flush.phase = "idle"
  /\ flush' = [flush EXCEPT !.phase = IF reapDue THEN "reaping" ELSE "flushing"]
  /\ reapDue' = FALSE
  /\ UNCHANGED <<spool, archived, dead, told, call, waiter, reapFailed, online, slot, worker,
                 faults>>

(* variant: only what flushOne could send *)
ExpiredUnclaimed == {m \in Msg : spool[m].file = "msg" /\ spool[m].age >= TTL}

(* Claimed entries are included *)
Expired == {m \in Files : spool[m].age >= TTL}

ReapWrites(m) ==
  /\ flush.phase = "reaping" /\ m \in Expired
  /\ dead' = dead \union {m}
  /\ flush' = [flush EXCEPT !.phase = "removing", !.msg = m]
  /\ UNCHANGED <<spool, archived, told, call, waiter, reaper, online, slot, worker, faults>>

ReapRemoves ==
  /\ flush.phase = "removing"
  /\ spool' = [spool EXCEPT ![flush.msg] = NoFile]
  /\ flush' = [flush EXCEPT !.phase = "reaping", !.reaped = @ \union {flush.msg}]
  /\ UNCHANGED <<archived, dead, told, call, waiter, reaper, online, slot, worker, faults>>

ReapEnds ==
  /\ flush.phase = "reaping" /\ Expired = {}
  /\ flush' = [flush EXCEPT !.phase = "telling"] /\ reapFailed' = FALSE
  /\ UNCHANGED <<spool, archived, dead, told, call, waiter, reapDue, online, slot,
                 worker, faults>>

(* variant: the error is logged, and the senders are told all the same *)
ReapFailsAndTells ==
  /\ flush.phase = "removing" /\ Fault
  /\ flush' = [flush EXCEPT !.phase = "telling", !.reaped = @ \union {flush.msg}]
  /\ reapFailed' = TRUE
  /\ UNCHANGED <<spool, archived, dead, told, call, waiter, reapDue, online, slot, worker>>

(* Expire cannot list the spool, write a dead letter or remove a file: it     *)
(* stops there, reapExpired returns without telling anyone, not even the      *)
(* senders of what it has reaped, and the loop goes on to flush.              *)
ReapFails ==
  /\ flush.phase \in {"reaping", "removing"} /\ Fault
  /\ flush' = [flush EXCEPT !.phase = "flushing", !.reaped = {}]
  /\ reapFailed' = TRUE
  /\ UNCHANGED <<spool, archived, dead, told, call, waiter, reapDue, online, slot, worker>>

(* bounce: one attempt to inject the notice, whose failure is ignored *)
Tell(m) == told' = told \/ told' = told \union {m}

ReapTells(m) ==
  /\ flush.phase = "telling" /\ m \in flush.reaped
  /\ Tell(m)
  /\ flush' = [flush EXCEPT !.reaped = @ \ {m}]
  /\ UNCHANGED <<spool, archived, dead, call, waiter, reaper, online, slot, worker, faults>>

ReapReturns ==
  /\ flush.phase = "telling" /\ flush.reaped = {}
  /\ flush' = [flush EXCEPT !.phase = "flushing"]
  /\ UNCHANGED <<spool, archived, dead, told, call, waiter, reaper, online, slot,
                 worker, faults>>

-----------------------------------------------------------------------------
(* outboxLoop: flushOne, until nothing is eligible or the connection is gone *)

Eligible == {m \in Msg : spool[m].file = "msg" /\ spool[m].idle >= Wait[spool[m].attempts]}

(* Release: the attempt is written to the claim, then the claim is renamed *)
Attempted(e) == [e EXCEPT !.idle = 0, !.attempts = IF @ < MaxTries THEN @ + 1 ELSE @]
Released(e) == [Attempted(e) EXCEPT !.file = "msg"]

Claim(m) ==
  /\ flush.phase = "flushing" /\ online
  /\ m \in Eligible /\ \A j \in Eligible : m <= j
  /\ spool' = [spool EXCEPT ![m].file = "claimed"]
  /\ flush' = [flush EXCEPT !.phase = "claimed", !.msg = m]
  /\ UNCHANGED <<archived, dead, told, call, waiter, reaper, online, slot, worker, faults>>

(* Nothing to send *)
FlushEnds ==
  /\ flush.phase = "flushing" /\ (~online \/ Eligible = {})
  /\ flush' = Idle
  /\ UNCHANGED <<spool, archived, dead, told, call, waiter, reaper, online, slot,
                 worker, faults>>

(* Claim cannot read the spool or rename the file: the loop ends *)
ClaimFails ==
  /\ flush.phase = "flushing" /\ online /\ Fault
  /\ flush' = Idle
  /\ UNCHANGED <<spool, archived, dead, told, call, waiter, reaper, online, slot, worker>>

(* The connection went away since, or the frame cannot be written to it: the *)
(* claim is released and the loop ends                                       *)
FlushOffline ==
  /\ flush.phase = "claimed" /\ IF online THEN Fault ELSE UNCHANGED faults
  /\ spool' = [spool EXCEPT ![flush.msg] = Released(@)]
  /\ flush' = Idle
  /\ UNCHANGED <<archived, dead, told, call, waiter, reaper, online, slot, worker>>

WriteFrame(x) ==
  /\ flush.phase = "claimed" /\ online /\ slot[x] = Free
  /\ slot' = [slot EXCEPT ![x] = [Free EXCEPT !.stage = "up", !.msg = flush.msg, !.live = TRUE]]
  /\ waiter' = [waiter EXCEPT ![flush.msg]["flusher"] = "waiting"]
  /\ flush' = [flush EXCEPT !.phase = "waiting"]
  /\ UNCHANGED <<spool, archived, dead, told, call, reaper, online, worker, faults>>

Outcome == waiter[flush.msg]["flusher"]
StopWaiting == waiter' = [waiter EXCEPT ![flush.msg]["flusher"] = "off"]

(* Ack and Kill remove the claim first and write the record second *)
ClaimRemoved(next) ==
  /\ spool' = [spool EXCEPT ![flush.msg] = NoFile]
  /\ flush' = [flush EXCEPT !.phase = next]
  /\ StopWaiting
  /\ UNCHANGED <<archived, dead, told, call, reaper, online, slot, worker, faults>>

FlushAcked  == flush.phase = "waiting" /\ Outcome = "ack" /\ ClaimRemoved("acked")
FlushKilled == flush.phase = "waiting" /\ Outcome = "no_route" /\ ClaimRemoved("killed")

AckWrites ==
  /\ flush.phase = "acked"
  /\ archived' = archived \union {flush.msg}
  /\ flush' = [flush EXCEPT !.phase = "flushing"]
  /\ UNCHANGED <<spool, dead, told, call, waiter, reaper, online, slot, worker, faults>>

KillWrites ==
  /\ flush.phase = "killed"
  /\ dead' = dead \union {flush.msg}
  /\ flush' = [flush EXCEPT !.phase = "bouncing"]
  /\ UNCHANGED <<spool, archived, told, call, waiter, reaper, online, slot, worker, faults>>

KillTells ==
  /\ flush.phase = "bouncing"
  /\ Tell(flush.msg)
  /\ flush' = [flush EXCEPT !.phase = "flushing"]
  /\ UNCHANGED <<spool, archived, dead, call, waiter, reaper, online, slot, worker, faults>>

(* A nak that is not permanent, or ten seconds without an answer *)
FlushReleases ==
  /\ flush.phase = "waiting" /\ Outcome \in {"rate_limited", "waiting"}
  /\ spool' = [spool EXCEPT ![flush.msg] = Released(@)]
  /\ flush' = [flush EXCEPT !.phase = "flushing"]
  /\ StopWaiting
  /\ UNCHANGED <<archived, dead, told, call, reaper, online, slot, worker, faults>>

(* Ack, Kill or Release fails, at its first file operation or at its second, *)
(* and the loop ends.  A claim that was not removed or renamed keeps its      *)
(* name, and Claim does not see it again; a record that was not written is    *)
(* never written.                                                             *)
StoreFails ==
  /\ flush.phase \in {"claimed", "waiting", "acked", "killed"} /\ Fault
  /\ \/ UNCHANGED spool
     \/ /\ \/ flush.phase = "claimed"
           \/ flush.phase = "waiting" /\ Outcome \in {"rate_limited", "waiting"}
        /\ spool' = [spool EXCEPT ![flush.msg] = Attempted(@)]
  /\ flush' = Idle
  /\ StopWaiting
  /\ UNCHANGED <<archived, dead, told, call, reaper, online, slot, worker>>

-----------------------------------------------------------------------------
(* admitSend at the sender's HostHub *)

(* The answer to a frame; nobody gets it once the connection is gone *)
Answer(x, code) ==
  slot' = [slot EXCEPT ![x] = IF slot[x].live THEN [@ EXCEPT !.stage = "down", !.code = code]
                              ELSE Free]

(* variant: the bucket is charged and not consulted *)
AdmitSendUnlimited(x) ==
  LET m == slot[x].msg IN
  /\ slot[x].stage = "up"
  /\ \/ /\ sent[m] \in Codes
        /\ Answer(x, sent[m]) /\ UNCHANGED <<sent, tokens>>
     \/ /\ sent[m] \notin Codes
        /\ sent' = [sent EXCEPT ![m] = "processing"]
        /\ tokens' = tokens - 1
        /\ slot' = [slot EXCEPT ![x].stage = "admit"]
  /\ UNCHANGED <<spool, archived, dead, told, call, waiter, flush, reaper, online,
                 queued, route, faults>>

(* variant: a send whose admission is under way counts as acknowledged *)
AdmitSendOnce(x) ==
  LET m == slot[x].msg IN
  /\ slot[x].stage = "up"
  /\ \/ /\ sent[m] # "none"
        /\ Answer(x, IF sent[m] = "processing" THEN "ack" ELSE sent[m])
        /\ UNCHANGED <<sent, tokens>>
     \/ /\ sent[m] = "none" /\ tokens = 0
        /\ sent' = [sent EXCEPT ![m] = "rate_limited"]
        /\ Answer(x, "rate_limited") /\ UNCHANGED tokens
     \/ /\ sent[m] = "none" /\ tokens > 0
        /\ sent' = [sent EXCEPT ![m] = "processing"]
        /\ tokens' = tokens - 1
        /\ slot' = [slot EXCEPT ![x].stage = "admit"]
  /\ UNCHANGED <<spool, archived, dead, told, call, waiter, flush, reaper, online,
                 queued, route, faults>>

(* A recorded outcome is repeated.  Otherwise, in the same turn: the record   *)
(* says "processing", and the rate limit decides whether admission goes on.   *)
AdmitSend(x) ==
  LET m == slot[x].msg IN
  /\ slot[x].stage = "up"
  /\ \/ /\ sent[m] \in Codes
        /\ Answer(x, sent[m]) /\ UNCHANGED <<sent, tokens>>
     \/ /\ sent[m] \notin Codes /\ tokens = 0
        /\ sent' = [sent EXCEPT ![m] = "rate_limited"]
        /\ Answer(x, "rate_limited") /\ UNCHANGED tokens
     \/ /\ sent[m] \notin Codes /\ tokens > 0
        /\ sent' = [sent EXCEPT ![m] = "processing"]
        /\ tokens' = tokens - 1
        /\ slot' = [slot EXCEPT ![x].stage = "admit"]
  /\ UNCHANGED <<spool, archived, dead, told, call, waiter, flush, reaper, online,
                 queued, route, faults>>

(* No such member, host, agent or connection: the rejection is recorded *)
RejectSend(x) ==
  /\ slot[x].stage = "admit" /\ slot[x].msg \notin route
  /\ sent' = [sent EXCEPT ![slot[x].msg] = "no_route"]
  /\ Answer(x, "no_route")
  /\ UNCHANGED <<spool, archived, dead, told, call, waiter, flush, reaper, online,
                 tokens, queued, route, faults>>

(* queueDelivery at the target commits (again: a duplicate is no error) ... *)
CommitSend(x) ==
  /\ slot[x].stage = "admit" /\ slot[x].msg \in route
  /\ queued' = queued \union {slot[x].msg}
  /\ slot' = [slot EXCEPT ![x].stage = "committed"]
  /\ UNCHANGED <<spool, archived, dead, told, call, waiter, flush, reaper, online,
                 sent, tokens, route, faults>>

(* ... and the outcome is recorded when the call returns *)
RecordSend(x) ==
  /\ slot[x].stage = "committed"
  /\ sent' = [sent EXCEPT ![slot[x].msg] = "ack"]
  /\ Answer(x, "ack")
  /\ UNCHANGED <<spool, archived, dead, told, call, waiter, flush, reaper, online,
                 tokens, queued, route, faults>>

(* readWire: every waiter registered for the id gets the answer, whichever *)
(* attempt it answers                                                      *)
ResolveCommit(x) ==
  /\ slot[x].stage = "down"
  /\ waiter' = [waiter EXCEPT ![slot[x].msg] =
                  [w \in Roles |-> IF @[w] = "waiting" THEN slot[x].code ELSE @[w]]]
  /\ slot' = [slot EXCEPT ![x] = Free]
  /\ UNCHANGED <<spool, archived, dead, told, call, flush, reaper, online, worker, faults>>

-----------------------------------------------------------------------------
(* The connection, the two processes, time *)

(* What is on the wire is lost; a frame in admission goes on unanswered *)
Cut == [x \in Slot |-> IF slot[x].stage \in {"up", "down"} THEN Free
                       ELSE [slot[x] EXCEPT !.live = FALSE]]

Connect ==
  /\ ~online /\ online' = TRUE
  /\ UNCHANGED <<spool, archived, dead, told, call, waiter, flush, reaper, slot,
                 worker, faults>>

Disconnect ==
  /\ online /\ Fault
  /\ online' = FALSE /\ slot' = Cut
  /\ UNCHANGED <<spool, archived, dead, told, call, waiter, flush, reaper, worker>>

(* variant: the first reap is a minute away *)
RestartReapsLater ==
  /\ Fault
  /\ spool' = [m \in Msg |-> IF Default /\ spool[m].file = "claimed"
                             THEN [spool[m] EXCEPT !.file = "msg"] ELSE spool[m]]
  /\ call' = [m \in Msg |-> IF call[m] \in {"waiting", "injecting"} THEN "lost" ELSE call[m]]
  /\ waiter' = [m \in Msg |-> [w \in Roles |-> "off"]]
  /\ flush' = Idle /\ reapDue' = FALSE
  /\ online' = FALSE /\ slot' = Cut
  /\ UNCHANGED <<archived, dead, told, reapFailed, worker>>

(* The daemon stops at any point and starts again.  runDaemon reclaims the   *)
(* claims of the default store only; the stores of other enrollments are     *)
(* opened by openEnrollments, which does not.                                *)
Restart ==
  /\ Fault
  /\ spool' = [m \in Msg |-> IF Default /\ spool[m].file = "claimed"
                             THEN [spool[m] EXCEPT !.file = "msg"] ELSE spool[m]]
  /\ call' = [m \in Msg |-> IF call[m] \in {"waiting", "injecting"} THEN "lost" ELSE call[m]]
  /\ waiter' = [m \in Msg |-> [w \in Roles |-> "off"]]
  /\ flush' = Idle /\ reapDue' = TRUE
  /\ online' = FALSE /\ slot' = Cut
  /\ UNCHANGED <<archived, dead, told, reapFailed, worker>>

(* The Worker's object restarts: what it was admitting is forgotten *)
HubRestart ==
  /\ Fault
  /\ slot' = [x \in Slot |-> IF slot[x].stage \in {"admit", "committed"} THEN Free ELSE slot[x]]
  /\ UNCHANGED <<spool, archived, dead, told, call, waiter, flush, reaper, online, worker>>

RouteChanges(m) ==
  /\ Fault
  /\ route' = IF m \in route THEN route \ {m} ELSE route \union {m}
  /\ UNCHANGED <<spool, archived, dead, told, call, waiter, flush, reaper, online, slot,
                 sent, tokens, queued>>

Older(t) == IF t < TTL THEN t + 1 ELSE t

Tick ==
  /\ spool' = [m \in Msg |-> IF m \in Files
                 THEN [spool[m] EXCEPT !.age = Older(@), !.idle = Older(@)] ELSE NoFile]
  /\ reapDue' = TRUE /\ tokens' = Burst
  /\ UNCHANGED <<archived, dead, told, call, waiter, flush, reapFailed, online, slot, sent,
                 queued, route, faults>>

-----------------------------------------------------------------------------
LoopStep ==
  \/ Wake \/ ReapRemoves \/ ReapEnds \/ ReapFails \/ ReapReturns
  \/ \E m \in Msg : ReapWrites(m) \/ ReapTells(m) \/ Claim(m)
  \/ FlushEnds \/ ClaimFails \/ FlushOffline \/ StoreFails \/ \E x \in Slot : WriteFrame(x)
  \/ FlushAcked \/ FlushKilled \/ AckWrites \/ KillWrites \/ KillTells \/ FlushReleases

WorkerStep(x) ==
  AdmitSend(x) \/ RejectSend(x) \/ CommitSend(x) \/ RecordSend(x) \/ ResolveCommit(x)

Work ==
  \/ \E m \in Msg : Send(m) \/ SendFails(m) \/ LocalReturns(m) \/ CallerReturns(m) \/ RouteChanges(m)
  \/ LoopStep
  \/ \E x \in Slot : WorkerStep(x)
  \/ Connect \/ Disconnect \/ Restart \/ HubRestart

Next == Work \/ Tick

Spec == Init /\ [][Next]_vars

(* outboxLoop's ticker fires every second, wireLoop redials with at most 30 s *)
(* between attempts, the Worker and the wire make progress, time passes.      *)
RoundEnds == WF_vars(LoopStep) /\ \A x \in Slot : WF_vars(WorkerStep(x))
Progress == RoundEnds /\ WF_vars(Connect)

-----------------------------------------------------------------------------
(* Properties *)

(* Every variable keeps its type; the loop holds a message in every phase   *)
(* that acts on one, and the token bucket is never overdrawn.                *)
TypeOK ==
  /\ spool \in [Msg -> Entry]
  /\ archived \subseteq Msg /\ dead \subseteq Msg /\ told \subseteq Msg
  /\ call \in [Msg -> {"none", "refused", "injecting", "injected", "waiting",
                       "committed", "rejected", "spooled", "lost"}]
  /\ waiter \in [Msg -> [Roles -> {"off", "waiting"} \union Codes]]
  /\ flush \in Loop /\ (flush.phase \in Holding => flush.msg \in Msg)
  /\ reapDue \in BOOLEAN /\ reapFailed \in BOOLEAN /\ online \in BOOLEAN
  /\ slot \in [Slot -> Frame]
  /\ \A x \in Slot : slot[x].stage # "free" => slot[x].msg \in Msg
  /\ sent \in [Msg -> {"none", "processing"} \union Codes]
  /\ tokens \in 0..Burst /\ queued \subseteq Msg /\ route \subseteq Msg
  /\ faults \in 0..MaxFaults

(* "committed: the Worker acknowledged durable processing": whatever a       *)
(* caller was told and whatever the daemon dropped from its spool as         *)
(* acknowledged is durably queued at the target, although answers of earlier *)
(* attempts resolve later waiters and admissions of one id overlap.          *)
CommittedIsQueued ==
  \A m \in Msg : m \in archived \/ call[m] = "committed" => m \in queued

(* Why: every place that says "ack" about a message says so after the commit. *)
AckTrail ==
  /\ \A m \in Msg : sent[m] = "ack" => m \in queued
  /\ \A x \in Slot :
       slot[x].stage = "committed" \/ (slot[x].stage = "down" /\ slot[x].code = "ack") =>
         slot[x].msg \in queued
  /\ \A m \in Msg, w \in Roles : waiter[m][w] = "ack" => m \in queued
  /\ flush.phase = "acked" => flush.msg \in queued

(* A sender that was told that its message was not delivered can resend it:  *)
(* "the notice reports what happened and when, and never retries on the      *)
(* sender's behalf".  The message it was told about is never handed to the    *)
(* Worker again, wherever a crash or a failed file operation cut Kill, Expire *)
(* and Release.                                                               *)
BouncedNotSent ==
  [][\A x \in Slot : slot[x].stage = "free" /\ slot'[x].stage = "up" =>
       slot'[x].msg \notin told]_vars

(* Nor is a message in the dead-letter spool, as long as the reaper can do    *)
(* its work: Kill removes the claim before it records the death, and after a  *)
(* crash between the two operations of Expire the loop reaps before it        *)
(* flushes.  After a reap that failed it may be sent, see reapExpired.         *)
DeadNotSent ==
  [][\A x \in Slot : slot[x].stage = "free" /\ slot'[x].stage = "up" =>
       slot'[x].msg \notin dead \/ reapFailed]_vars

(* Why: what is left of a dead message is expired and the reaper is next;    *)
(* nothing is left of what a sender is, or will be, told about; the loop      *)
(* holds the file it claimed.                                                 *)
DeadIsGone ==
  /\ \A m \in dead : spool[m].file # "none" =>
       /\ spool[m].age = TTL
       /\ \/ flush.phase = "idle" /\ reapDue
          \/ flush.phase \in {"reaping", "removing"}
          \/ reapFailed
  /\ \A m \in told \union flush.reaped : spool[m].file = "none" /\ call[m] # "none"
  /\ flush.phase \in {"claimed", "waiting"} => spool[flush.msg].file = "claimed"
  /\ flush.phase \in {"killed", "bouncing"} => spool[flush.msg].file = "none"
  /\ flush.phase \in {"removing", "killed", "bouncing"} => call[flush.msg] # "none"
  /\ \A m \in Msg : call[m] = "none" => spool[m].file = "none" /\ m \notin dead

(* A claim that nobody holds: an operation on it failed, or the daemon of an *)
(* enrollment that does not reclaim was restarted.                           *)
Abandoned(m) ==
  spool[m].file = "claimed" /\ ~(flush.phase \in {"claimed", "waiting"} /\ flush.msg = m)

(* "It keeps the message locally and flushes it after reconnecting": a       *)
(* spooled message that has not expired is eventually queued at its target,  *)
(* unless the Worker recorded a nak for it or its claim is abandoned.        *)
SpooledIsFlushed ==
  \A m \in Msg : spool[m].file # "none" /\ spool[m].age < TTL ~>
    m \in queued \/ sent[m] \in Codes \ {"ack"} \/ Abandoned(m)

(* "Retry alone is not a policy": whatever becomes of the target and of the  *)
(* claim, the file of every message eventually leaves the spool, abandoned   *)
(* claims included (reapExpired, Expire).                                    *)
SpoolDrains == \A m \in Msg : spool[m].file # "none" ~> spool[m].file = "none"

=============================================================================
