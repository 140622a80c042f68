# Transit, specified

TLA+ models of Transit, the message courier between coding agents: the Worker
(Cloudflare Durable Objects, `src/src`) and the host daemon (Go, `src/daemon`).
The models are translated from the source; `PROJECT.json` maps every definition
to the lines it stands for, lists the runs, the theorems, the hazards of the
code and the disagreements between code and documentation found on the way.

## The system

| part | state it keeps | operations | interacts with |
| --- | --- | --- | --- |
| `HostHub` (`do/host-hub.ts`), one object per host | delivery queue `q:`, dedupe markers `d:`, `queue:sequence`, roster and graves, send outcomes `s:`, token buckets, one alarm with an hourly budget | `queueDelivery`, `requeue`, `cancelDelivery`, `settleInbox`, `handleHello`, `applyRoster`, `handleSend`, acks and naks, `alarm` | daemon socket, other HostHubs, Rooms, Integrations, D1 |
| daemon outbox (`spool.go`, `client.go`, `ipc.go`) | files in `outbox/`, `history/`, `dead/`; commit waiters; the connection of each enrollment | `sendResponse`, `Claim`, `Release`, `Ack`, `Kill`, `Expire`, `flushOne`, reconnect, restart | the Worker's `admitSend`, local delivery |
| daemon inbound (`deliver.go`) | in-flight deliveries, history of incoming ids, draft holds | `deliver`, `deliverOnce`, `holdLoop` | adapters, Herdr, HostHub |
| harness plug-ins (`contrib/omp-extension`, `contrib/opencode-plugin`) | a client with its connection and outbound frames, injections under way, receipts | connect, register, inject, receipt or wait for persistence, answer | the daemon's agent socket, the harness's session |
| adapter registry and roster (`adapter.go`, `roster.go`) | adapters by key and by name, persisted names and tokens, auto names | `registerAgentAdapter`, rename, deregister, `refreshRoster` | harness sockets, Herdr, HostHub |
| `Room` (`do/room.ts`) | config, sequence ledger, members, cursors; its row in D1 | `configure`, `join`, `leave`, `post`, fan-out, `acknowledge`, prune, `destroy` | HostHubs of the members, connections in D1 |
| `Integration` (`do/integration.ts`) | meta, events, deliveries, replies, polling cursor, alarm; its row in D1 | `configure`, ingest, dispatch, redelivery, `chatReply`, `markHandled`, pause | HostHubs, Rooms, third-party services |
| control plane (`index.ts`, `lib/`, `mcp/`) | rows in D1 | enrollment, connections between organizations, operator actions, MCP tools | all objects |

What is hard here: dispatch runs of a HostHub interleave with every other event
while they await D1; acks and answers arrive late, twice, or for another
recipient; both sides crash between two writes; names move between agents while
messages for them are queued; retries overlap what they retry; budgets (alarms,
tokens, attempts, the spool) run out; and nobody polls, so a missed wakeup is
silence.

## Modules

| module | models | proofs |
| --- | --- | --- |
| `AlarmBudget` | `budgetedAlarm` as operators on (budget, alarm) | used by HostHubProofs |
| `Backoff` | the retry delay formula | |
| `HostHub` | the delivery queue of one host | `HostHubProofs` |
| `Outbox` | the sending half: spool, flush loop, wire, admission | `OutboxProofs` |
| `Registry` | the daemon's registry of native adapters | `RegistryProofs` |
| `Integration` | settlement of channel deliveries and their replies, the routes that configure and pause | `IntegrationProofs` |
| `Connections` | consent between two organizations | `ConnectionsProofs` |
| `RoomLog` | what a room promises: an abstract specification | |
| `Room` | a room, its row, its admission by HostHub; extends `Connections`, implements `RoomLog` | `RoomProofs` |
| `AgentLink` | daemon, agent socket and session, what all plug-ins share | |
| `OmpPlugin`, `OpenCodePlugin` | the two plug-ins; extend `AgentLink` | |
| `Inbound` | the composition of daemon and plug-ins | `InboundProofs` |
| `Enrollment` | enroll codes, device flow, host tokens, revocation | `EnrollmentProofs` |
| `MCHostHub`, `MCOutbox`, `MCRegistry`, `MCIntegration`, `MCRoom`, `MCInbound`, `MCEnrollment` | instances for TLC | |

### HostHub

The variables are the storage keys of the object (`queue`, `marker`, `qseq`,
`roster`, `gone`), the socket, the D1 row of the organization connection, the
runs of `dispatchQueued` in progress, the rename loop, the alarm with its
budget, and two histories: frames on the wire and cancelled ids.

A Durable Object runs one event at a time, and its *input gate* holds events
back while a handler awaits storage, but not while it awaits D1 or another
object. Handlers that only touch storage are therefore one action.
`dispatchQueued` is not: it is a `run` that lists a batch and then takes one
action per row with the gate closed (`GateOpen` is false while any run is in
its loop), opens the gate when it asks D1 about a connection (`RunAsks`,
`QueryAnswers`) and when `markDead` broadcasts (`RunResumes`), and goes on with
the batch it listed before. Several runs may be in progress, because
`queueDelivery`, `requeue`, a hello, a roster and the alarm each start one.
`applyRoster` moves entries one transaction at a time (`RenameEntry`), and a
restart may cut it.

Time is relative: entries carry their age and the time since the last attempt,
both saturating at the TTL, so no bound on a clock is needed. Payloads, the D1
ledger and viewer broadcasts are left out; the broadcasts matter only as points
where the gate opens.

### Outbox

One goroutine runs the reaper and the flush loop, so the loop is one record
`flush` with a phase and the message it holds. Each *pair* of file operations
(`Expire` writes then removes, `Ack` and `Kill` remove then write) is two
actions, and `Restart` may come between them. Every file operation may fail, which
counts as a fault: the enqueue (`SendFails`); `Expire` at its write, its removal, or
its look at the next file (`ReapFails`), after which the round of the reaper is
over, nobody it reaped so far is told, and the flush round follows all the same;
the claim (`ClaimFails`); `Ack`, `Kill` and `Release` at either of their operations
(`StoreFails`), which leaves a claim that `Claim` does not see again. `reapFailed` is
a history: the last reap failed. A send frame occupies a *slot* that follows it up the
wire, through admission, to its answer; a slow admission outlives the ten-second
timeout, so several slots may carry one message. `route` says whether the
Worker's lookups (address, host, agent, membership, connection) would admit the
message, and may change at any time.

### Registry

The maps of the daemon are variables under their own ideas: `names`
(`nativeNames`, with the name, who chose it and the token), `tokens`
(`nativeTokens`), `adapters` (by key), `byName` (`nativeByName`, the routes of
deliveries) and `disk` (`native_names.json`). A connection carries the adapter it
registered; the object lives as long as something refers to it, so a route to an
adapter that is gone can be seen. `torn` is a history: a registration failed
after it had changed the maps.

Every method holds `d.mu` throughout and is one action, except where the code
lets go of it. The pane of a client is looked up before the lock (`Ask`, then
one of the four endings of `registerAgentAdapter`: registered, refused at once,
refused after the records of the name were absorbed, not saved). `claimCallerName`
validates, renames the pane, and only then renames the adapter (`ClaimBegins`,
`ClaimEnds`). `refreshRoster` takes a list, renames the chosen adapters one at a
time and stores the list (`RefreshBegins`, `RefreshRenames`, `RefreshEnds`).
`deregisterAgentAdapter` is called by the connection's own goroutine and by a
delivery whose write failed, in either order.

Left out: generations, capabilities and status frames, which no property tells
apart; the ledger of generated pane names; random numbers that cannot be had. A
pane the daemon names itself is a pane that is renamed.

### Integration

A `delivery` is the part of its record that decides anything: attempts, whether
it was read, held by an adapter or settled, and when it is due. Its `status` is
displayed and otherwise only compared with "dead", which nothing sets. A `reply`
is posted or due. `run` holds the invocations in progress, each with the copy of
the record it read, since every handler writes back the record it read before
its last await: `dispatchDelivery` across the call to the HostHub,
`postRecordedReply` across the post, a call on a room's delivery across the
question to the Room, a reply across the question to the service. As in HostHub
a run between two such awaits keeps the gate closed.

A call to the HostHub or to the service has three outcomes: it is done and
answered, it is done and the answer is lost, it is not done. `hub` is the marker
of the delivery in its HostHub, reduced to what `queueDelivery` looks at; `reports`
are injections on their way to `recordInjection`, which may take any time. The
connector receives events; it has no `start`, `stop`, `wake` or `poll`. `lapsed` is
a history: an alarm fired while paused, or an eviction cut a call.

D1 keeps a copy of the integration's status (`row`). The routes decide by that copy,
and it is written late, in any order or not at all (`writes`): `POST /ingest` looks
for an active row and meets an object that is paused by now; `PATCH` configures
with the status it read (`PatchRead`, `PatchIntegration`) and so undoes a pause,
without the dispatch that resuming does. An operator's request counts as a fault,
which bounds how many there are.

### Connections and Room

`Connections` is the `organization_connection` table. Accepting is two actions, the
`SELECT` and the `UPDATE`, with deletions and new requests in between; `consents`
remembers which sides agreed to which id.

In `Room` a `call` is an invocation in progress, cut where it awaits D1 or another
object: creation (insert the row, configure, join the creator), deletion (look for
the row, wipe the storage, drop the row in the background), a foreign join, a
post. A post checks its sender, asks D1 about a foreign sender, commits in one
transaction, asks D1 about the organizations of its targets, caches the room's slug
and queues one entry per member. `send` is HostHub's record of the outcome; it
repeats a frame until one is recorded, also while an earlier admission of it is
still under way. `log`, `issued`, `due` and `lives` are histories.

`RoomLog` states what docs/rooms.md promises. The refinement maps its messages to
the ids of posts, its readers to the members and `acked` to their cursors; `log`
and `issued` are carried as history variables, and `LedgerIsLog` says that the
stored ledger and index are that log.

### AgentLink, OmpPlugin, OpenCodePlugin, Inbound

`AgentLink` has the daemon's flights (`deliver` coalesces the frames of one agent
and message; a follower adopts the leader's outcome), its history of incoming ids,
the registered adapter and its waiters, the two directions of the socket, and what
a client and its session keep. The plug-ins differ in how they know that a message
is in the session: `OmpPlugin` writes a receipt after `sendMessage`,
`OpenCodePlugin` prompts and looks until the session has stored it or time is up.
A client that is replaced leaves its injections running. `doubts` counts, per
message, the injections whose outcome was lost, so that `CopiesAccounted` can say
that nothing else makes a copy.

Three things are not as simple as a plug-in's protocol suggests, and are modelled as
they are. A session of OMP in the middle of a turn takes a message only when the
turn unwinds: it is `pending`, receipt and ack follow at once, `OmpUnwinds` shows it,
and a harness that stops before loses it. OpenCode looks for the id of a delivery
anywhere in any text of the session, so `Seen` also finds a message that another one
`Quotes`. And a frame the daemon cannot write makes it drop the adapter while the
connection stays open (`WriteFails`), so that the plug-in, which registers anew only
when its socket closes, is `CutOff`. `Held` is what a session has taken: what
OpenCode's search would find, what OMP's `sendMessage` accepted. `For` says which
agents a message goes to. Only the native path is modelled: without an adapter
`deliver` answers a retryable nak.

### Enrollment

A request is cut between its statements on D1. `EnrollIssue` is the batch that
retires the open codes of a host and inserts one; `ClaimCode` is the conditional
`UPDATE` that a redemption rests on, and `GiveBack` undoes it; a device flow is
approved by two statements and polled by two. `provisionHost` rotates the token
of the host's row. A daemon's WebSocket request looks its token up and is accepted
later; a revocation updates the row and then closes the socket. `lost` and `late`
name the two ways in which a second failure or a race defeats the code's intent.

## Runs

| run | checks | instance |
| --- | --- | --- |
| `HubClaims` | `TypeOK`, `EntryHasMarker`, `WakeupArmed`, `SendsAreSpaced`, `CancelledNotSent` | one cross-organization message, two names on one pane (renames), two concurrent runs, two attempts, one alarm an hour, one fault |
| `HubDrains` | `QueuedHasEntry`, `EntryLeaves` under `FairSpec` | a channel delivery of another organization for two agents; redelivery, requeue, holds for ever, a failed D1 query, a lost socket or a restart |
| `OutboxSafe` | `TypeOK`, `CommittedIsQueued`, `BouncedNotSent`, `DeadNotSent` | one message, two overlapping frames, one token, three faults (file operations, disconnects, restarts, route changes) |
| `OutboxFlushes` | `SpooledIsFlushed`, `SpoolDrains` under `TimelySpec` | two messages of the default enrollment and one token, a spool of one, a local send, two faults |
| `RegistrySafe` | `TypeOK`, `IdentitiesApart`, `LiveIsRouted`, `RouteIsLive`, `ClaimsAuthoritative` | a client in a pane that declares a name and one without either, two connections, two pane names, one drawn name, writes that fail, a pane rename or a restart |
| `IntegrationSafe` | `TypeOK`, `ReplyOnRecord`, `NothingForgotten` | one delivery of an agent, two invocations at once, an adapter, one alarm an hour, one fault |
| `IntegrationSettles` | `ReplyIsPosted`, `EventIsQueued` under `FairSpec` | one delivery for a room, one invocation at a time, two faults |
| `RoomSafe` | `TypeOK`, `ConsentedDelivery`, `FanOutAccounted`, `RowMeansRoom`, `Bilateral` | two members, one foreign, two calls, one post, two connections in turn, one fault |
| `RoomLedger` | `LedgerIsLog`, `MembersBounded`, `LogRefined` | a room for one member, two calls, two posts, one fault |
| `Inbound` | `TypeOK`, `AnswersAreTrue`, `CopiesAccounted`, `EveryDeliveryAnswered` under `FairSpec` | one delivery to one agent in any of three harnesses, three failures |
| `InboundFanOut` (violation) | `AcksAreVisible` | one room post for two agents of one host, no failure |
| `EnrollSafe` | `TypeOK`, `SingleUse`, `GrantsApproved`, `CodesAccounted`, `RevokedIsGone` | two hosts, two codes, a device flow, two requests, two tokens, one fault |

Bounds. Two runs are enough for every race of `dispatchQueued`: what a stale run
can do depends on what changed since it listed its batch, and one other run plus
the handlers make every change. Two attempts distinguish first, retried and
exhausted; a TTL of two ticks distinguishes fresh, ageing and expired. Two frames
of one message are enough for an answer to meet the wrong waiter. Two invocations
of an Integration are one that waits with an old record and one that changes it;
deliveries share nothing but the alarm, so one is enough for what happens to a
record. Two connections are a holder and a contender, or an adapter and its own
successor; what a third could hold, the records of earlier connections hold as
well. A room of two members has one that is served and one still to come; two
calls are two admissions of one frame, a join and a post, or a post and a
deletion; two connection ids are one that is revoked and the one made after it.
Members are bounded at one in `RoomLedger` so that two joins race for the last
place, and the two posts there are two numbers, so acknowledgements can overtake
each other. Two recipients of one message in `HubDrains` let an answer reach the
wrong marker; that two messages never share a sequence number is proved and not
run. One token for two messages lets the bucket run out in `OutboxFlushes`; two
faults there are a failed file operation and a restart, or two failures in one
round. `Inbound` has one message, whose text quotes no other: two of one agent do
not fit the time of a run together with three failures, for example a lost answer,
a restart and a receipt that fails, and with the liveness; what is proved holds
for any messages and quotes. Two codes are a code and its replacement. Room
deletion is explored for one life of a room (`MaxLives`); what is left after it, a
row, a config or queue entries, is what a second life would meet. An insert that
meets the row of that life, and fails, is part of it. Faults are counted, so that
liveness is asked of behaviours in which the environment eventually behaves.

Fairness. `Progress` of HostHub says that the runtime delivers events that wait
at the gate, D1 answers, a due alarm fires, and the daemon reconnects, says
hello and repeats its roster: `wireLoop` redials within 30 s, `rosterLoop`
republishes every 60 s. `Progress` of Outbox says that `outboxLoop` (a one-second
ticker) keeps stepping, the Worker and the wire keep stepping, and the daemon
reconnects. `Progress` of Integration says that calls return or fail, what waits
at the gate goes on, a due alarm fires and time passes; it says nothing of agents,
senders or injection reports. In `MCOutbox`, `TimelySpec` lets time pass only
when the loop has come to rest: a tick stands for hours, a round of the loop for
seconds. Without that, time may pass arbitrarily fast and every message expires.
The daemon is offline for less than a tick there.
`Fairness` of Inbound says that the Worker repeats an unanswered frame, the daemon
reads its sockets and finishes its goroutines, and a plug-in reconnects and its
promises settle; failures are bounded and nobody has to stop typing, so
`EveryDeliveryAnswered` assumes a composer that stays clear from some time on, and a
plug-in that is not left `CutOff` for good: nothing in the daemon ends a connection
whose adapter it dropped.

## Proofs

`HostHubProofs` proves, for every set of names, messages, panes and runs and
every value of the bounds:

* `TypeCorrect`: `Spec => []TypeOK`;
* `NoBlackHole`: `Spec => []QueuedHasEntry`. A marker that says "queued" makes
  `queueDelivery` answer "duplicate", so without its entry the message would be
  lost silently. The invariant is not inductive: `markDead` deletes whatever is
  at the key of a stale row and marks the row's message. The strengthening is
  `SeqsOwned`: there is a function `own` from sequence numbers to messages such
  that every entry, every marker's key, every row held by a run and every row of
  the rename loop agrees with it. Then a stale row can only destroy the entry of
  the message whose marker it overwrites.
* `SequencesOwned`: `Spec => []SeqsOwned`;
* `WakeupStaysArmed`: `Spec => []WakeupArmed`. The invariant is `Armed`: each entry
  has an alarm, or a run that is yet to list the queue, listed a full batch, has an
  alarm to set, or is still to come to the entry's row with the attempts the queue
  has. That a batch which misses an entry is full (`ListedOrFull`) is a fact about
  ranks in key order (`FirstBatch`); that a spent budget still leaves an alarm is
  `BudgetKept`;
* `SendsAreSpacedHolds`: `Spec => SendsAreSpaced` if no daemon answers `draft_busy`
  and nothing can be requeued, the two ways an entry's attempts go down. `Paced` says
  that a sequence number is under one key at a time and that the rows runs have
  listed are behind the entry (`Behind`), wherever renames have moved it;
* `EntryKeepsMarker` and `CancelledStaysUnsent`:
  `Spec /\ [][QueuedOnce]_vars => []EntryHasMarker` and `=> CancelledNotSent`.
  `QueuedOnce` is about the senders: an id is queued at this host only while no name
  has a marker of it. Then all copies of a message bear one sequence number
  (`OneCopy`), every entry has its marker even in the middle of a rename (`Paired`),
  and cancelling, which goes by the markers, finds every entry (`Dropped`). Without
  the hypothesis both fail, as described below.

`OutboxProofs` proves, for any number of messages, slots, retries and faults:

* `TypeCorrect`: `Spec => []TypeOK`, in particular the bucket is not overdrawn;
* `AckTrailHolds`: `Spec => []AckTrail`: every place that says "ack" (the record at
  the Worker, a frame on its way down, a resolved waiter, the loop about to
  archive) does so about a message that is queued;
* `CommitIsDurable`: `Spec => []CommittedIsQueued`, from `AckTrail`;
* `BouncedStaysDown`: `Spec => BouncedNotSent`, whatever file operation fails: a
  sender is told only after the file is gone, and an id is enqueued once;
* `DeadStaysDead`: `Spec => DeadNotSent`. A dead letter alone promises less: the
  file may still be there, and is flushed after a reap that failed, which the
  property excepts by `reapFailed`.

  Both rest on `DeadIsGone`: what is left of a dead message is expired and the reaper
  is next or has failed; of a message whose sender is or will be told nothing is left;
  the loop holds the file it claimed.

`RegistryProofs` proves, for any number of organizations, names, sessions, panes,
tokens and clients, with writes that fail:

* `TypeCorrect`: `Spec => []TypeOK`;
* `IdentitiesStayApart`: `Spec => []IdentitiesApart`. It needs `SavedApart` (a
  restart reads back what is on disk), `Anchored` (the key of an adapter is in the
  organization of its client, so the check of a claim looks at the right records)
  and `AdapterRecorded` (a rename finds a record to change);
* `LiveStaysRouted`: `Spec => []LiveIsRouted`. Its core is that an adapter knows
  its key: whoever a registration displaces is the adapter of an absorbed record
  or of the record itself, and a name that is occupied by anyone else is refused.
  `TodoNamed` says that what a refresh is going to give away is a name;
* `RouteStaysLive`: `Spec => []RouteIsLive`, from `Honoured`: until a registration
  fails halfway, memory is what is on disk, a route leads to the adapter registered
  under its name, and what an adapter was told is the record of its identity;
* `ClaimsStayAuthoritative`: `Spec => ClaimsAuthoritative`: a refresh checks again, in
  the step that renames, that the name is not the user's, so that only an adapter's
  own claim changes it.

`ConnectionsProofs` proves the step of the table by itself (`ConnStep`), for
`RoomProofs` to use: an id above `minted` has no consents, the status of a row is
the consents of its id (`Bilateral`), an acceptance in progress is the other
side's and was read from the row of its id; and, as an action property,
`Standing`: the consents of both sides to an id are never taken back.

`RoomProofs` proves, for any number of addresses, organizations, messages, calls,
members, numbers and faults:

* `TypeCorrect`: `Spec => []TypeOK`;
* `LedgerHolds`: `Spec => []LedgerIsLog`;
* `MembersBoundedHolds`: `Spec => []MembersBounded`. The check and the write of a
  join are one critical section; the invariant adds that the members are finite;
* `BilateralHolds`: `Spec => []Bilateral`;
* `ConsentedDeliveryHolds`: `Spec => []ConsentedDelivery`. Between the answer of D1
  and the use of it a connection may be deleted and made again, so the invariant
  speaks of ids: `Calls` says that the ids a call read are ids both sides agreed
  to, which by `Standing` stays so;
* `FanOutAccountedHolds`: `Spec => []FanOutAccounted`;
* `RowMeansRoomHolds`: `Spec => []RowMeansRoom`;
* `RefinesLog`: `Spec => LogRefined`. A step appends (`LogMove`), moves a cursor up
  to a number of the log (`CursorMove`), or is a stutter of `RoomLog`.

They share one inductive invariant: what a call carries at each of its awaits
(`Calls`), that numbers in the queue and in the config are numbers that were given
out (`Numbered`), and `Settled`: a message leaves the index only when its outcome
is recorded and no call carries it any more. Without `Settled` a repeated frame
could be committed a second time under a new number, and the ledger would not be
the log. `Frame` says once which actions write which variables; each step lemma
then splits only on those.

`EnrollmentProofs` proves, for every set of places, codes, flows and requests and
any number of tokens and faults:

* `TypeCorrect`: `Spec => []TypeOK`;
* `SingleUseHolds`: `Spec => []SingleUse`. The invariant is that a code or flow is
  held by one request at most (`OneHolder`), that what is held or was granted is
  claimed in its table (`Claimed`), and what a request carries (`Carries`);
* `GrantsApprovedHolds`: `Spec => []GrantsApproved`: the place a poll read was
  approved at some time (`PlaceApproved`), even if the flow is another's by now;
* `CodesAccountedHolds`: `Spec => []CodesAccounted`: of the open codes of a place one
  at most was never given back (`OneFresh`), each return spent a fault
  (`ReturnsPaid`), and a used code is retired, lost, granted or held
  (`UsedAccounted`);
* `RevokedIsGoneHolds`: `Spec => []RevokedIsGone`.

`IntegrationProofs` proves, for any number of deliveries, invocations, attempts and
faults and any table of delays:

* `TypeCorrect`: `Spec => []TypeOK`;
* `ReplyOnRecordHolds`: `Spec => []ReplyOnRecord`;
* `NothingForgottenHolds`: `Spec => []NothingForgotten`. The property speaks of the
  moments between invocations; `Kept` is what is true during them: a delivery that
  is owed has a time and an alarm that is set or whose handler is under way, or a
  call is queueing it right now, and the same of a reply. For this the invariant
  follows what an invocation holds across its awaits (`Invocations`): a record that
  was read is of a delivery in its agent's session or of one still owed
  (`HeldTaken`, `ReportTaken`, `HubKnown`), so writing it back late forgets nothing.
  `BudgetKept` says that an alarm budget that is spent has its alarm at the start
  of the next hour, and `LeastNat` (the library's well-foundedness of the naturals)
  that `scheduleNext` finds a least time among those on record.

`InboundProofs` proves, for any number of agents, messages and failures and any mix
of harnesses:

* `TypeCorrect`: `Spec => []TypeOK`;
* `CopiesAccountedHolds`: `Spec => []CopiesAccounted`. The bound on copies alone is not
  inductive: an injection under way will make one more. `CopiesCounted` is a balance:
  the copies of a message and the injections that may still make one (`Ahead`) are at
  most its doubts, and one more where no other injection can begin (`Covered`: the
  client has one under way, knows the receipt, or finds the message in the session).
  Each way an injection begins, moves and ends is a lemma about that balance (`Begun`,
  `Prompts`, `Made`, `Spent`, `Over`, `Replaced`);
* `AnswersAreTrueHolds`: `Spec => []AnswersAreTrue`: what is acknowledged was taken by
  the session of an agent it is for, and what is refused for good was never injected.
  It needs that every frame a plug-in has sent or queued is true for good (`Truthful`:
  what a session holds it keeps, even where a quote vouches for a message), that
  receipts are of messages the session took (`Receipted`), that an old OMP injects
  nothing (`OldIsMute`), and that frames go to the agents a message is for
  (`Addressed`), which is what makes the record of one agent vouch for another.

The proofs rest only on the assumptions named in the modules (`BudgetAssumption`,
`HubAssumption`, `OutboxAssumption`, `RegistryAssumption`, `ConnAssumption`,
`RoomAssumption`, `EnrollAssumption`, `IntegrationAssumption`, `LinkAssumption`): finite bounds are naturals, a connection has
two sides, kinds of names are disjoint where the code tells them apart, `None` is
not a value of any other kind, and names that are drawn, claimed or borne by a pane
are names.

Only model-checked: liveness (`EntryLeaves`, `SpooledIsFlushed`, `SpoolDrains`,
`EveryDeliveryAnswered`, `ReplyIsPosted`, `EventIsQueued`), because the provers do not
treat fairness. Every invariant and action property that a passing run checks is also
a theorem; three of them (`SendsAreSpaced`, `EntryHasMarker`, `CancelledNotSent`) under
the hypotheses named above. `SeqsOwned` and `AckTrail`, which support others, are proved and
are not properties of a run.

## What the properties do not say

* An ack that does not echo its agent, or whose agent's marker is already
  settled, resolves any queued marker of the id (`resolveQueuedMarker`,
  host-hub.ts:1377): of two recipients on one host, a repeated ack of the first
  settles the second, although "each of those entries settles independently"
  (host-hub.ts:414). `QueuedHasEntry` holds even so: the
  marker and its entry go together.
* `EntryHasMarker` holds while an id is queued at a host once, as in `HubClaims`
  (`MaxSeq = 1`). With a fan-out, two agents of one host that swap names within one
  roster leave an entry whose marker points elsewhere; it is sent until it expires.
  With one recipient the same comes of queueing an id again after a rename has
  taken its marker to another name, and renaming back: the second entry's marker is
  overwritten by the first's.
* `CancelledNotSent` holds for the same ids: `cancelDelivery` goes by the markers, so
  it leaves such an entry, which is sent. A channel delivery that is cancelled and
  redelivered while a run holds an old batch can be sent by it as well.
* `SendsAreSpaced` holds without `draft_busy` and `requeue`: both lower the
  attempt counter that the claim compares (host-hub.ts:1177), so a run with an old
  batch can send again at once.
* `WakeupArmed` holds without faults. A D1 error ends a run before it sets the
  alarm; the next roster (60 s) starts another, which is why `EntryLeaves` holds
  with faults.
* `QUEUE_BATCH_SIZE` entries of an absent agent fill every batch of
  `dispatchQueued`, and later keys wait until those expire.
* A run that awaited D1 about a connection that is revoked marks its message dead
  even if the daemon has acknowledged it in the meantime (`markDead`,
  host-hub.ts:1403), although "daemon injection ack is terminal"
  (docs/architecture.md:555). No property says otherwise.
* `SpooledIsFlushed` leaves out a message whose id has a recorded nak and one whose
  claim is abandoned. `admitSend` records a `rate_limited` answer under the id and
  repeats it to every retry (host-hub.ts:914), although "the daemon keeps a rate- or
  plan-limited message spooled and retries it" (docs/protocols.md:315):
  without the exception TLC refutes the property in `OutboxFlushes`, where one token
  is left for two messages. A claim is abandoned when an
  operation on it fails, or when the daemon stops while it holds one of an enrollment
  other than the default (`main.go:90` reclaims only the default store's). `SpoolDrains`
  is what remains: an abandoned claim waits until it expires.
* `DeadNotSent` excepts the time after a reap that failed. `Expire` stops at the first
  file operation that fails (spool.go:266-275), `reapExpired` returns (client.go:253)
  and the flush round follows, so a message with a dead letter may be sent for up to a
  minute; the senders of those already reaped are never told.
* The reaper runs between rounds of the flush loop (client.go:224-239). A round that
  always finds another message past its backoff does not end, and nothing expires
  meanwhile; the runs let time pass between rounds only. A spool file that cannot be
  read back is not modelled.
* `Kill` removes the claim before it writes the dead letter; a crash in between
  loses both.
* `RouteIsLive` holds until a registration fails after it absorbed the records of
  its name. The adapter it displaced is then no longer registered but still has
  the route, so the name stays taken until the daemon restarts; `LiveIsRouted`
  and `IdentitiesApart` hold even then.
* Two clients without a pane count as being in the same one, so neither can refuse
  the other its name.
* An adapter that declared a name and was renamed keeps the key of that name. A
  second helper that declares it gets the key, displaces the live adapter in
  another pane and inherits its token (adapter.go:638), although the comment at
  adapter.go:634 says "Never let the later helper evict the target merely by
  declaring it". A client that takes the name of its pane displaces whoever bears
  it in the same way. `IdentitiesApart` and `LiveIsRouted` hold even so.
* A settled delivery does not stay settled: `dispatchDelivery` writes back the
  record it read before its call, so `mark_handled` or a posted reply during the
  call is undone and the agent is prompted again, as it is when it reads a
  delivery whose reply is still pending. An injection report is undone in the same
  way, which makes a delivery in an agent's session due again. `NothingForgotten`
  is the direction the code does keep.
* A reply can be posted twice: the record is due at once, so an alarm that fires
  while `chatReply` still posts it posts it too, and two calls on a room's
  delivery can both find no record.
* `NothingForgotten`, `ReplyIsPosted` and `EventIsQueued` are stated up to the
  first alarm that fires while the integration is paused (it is used up, and
  resuming schedules only what is overdue) and the first eviction that cuts a call
  (a delivery that was committed and not dispatched has no next attempt, and the
  sender's retry is a duplicate).
* `NothingForgotten` does not say that a pause lasts: `PATCH` may undo it with the
  status it read, and D1's copy of the status may differ from the object's for
  good when two background writes land out of order.
* `AnswersAreTrue` does not say that an acknowledged message is in the session of
  its agent, because that is false in three ways. The history is kept by message id,
  so of two agents of one host that get one room post the second is acknowledged from
  the record of the first (`InboundFanOut`). OpenCode's search takes a reply that
  carries the id for the message, which is then never injected: TLC finds it with
  `Msg = {m1, m2}`, `Quotes <- MCReplies` and one agent in that configuration. And a
  message for an OMP session in a turn is acknowledged before the session takes it
  (`Kinds = {"omp"}`), and lost if the harness stops first; docs/protocols.md:333 says of
  the ack "sent only once the envelope is durably visible in the session".
* `EveryDeliveryAnswered` says nothing of a plug-in on a connection whose adapter the
  daemon dropped after a failed write (adapter.go:822): its deliveries are refused for
  as long as that connection lasts.
* `FanOutAccounted` speaks of posts whose call is not cut. When the room throws
  after it committed a post, HostHub records "not_member" for good
  (host-hub.ts:948) while the post is in the ledger, and the members the fan-out
  had not reached are not tried again.
* `RowMeansRoom` is one direction. A call that began before a deletion writes its
  config back (`roomOrgSlug`, room.ts:497), which leaves a room without a row: it
  cannot be deleted, and whoever creates the name anew finds it there.
* `CodesAccounted` lets a host have a second open code for each that was given
  back, because giving back does not look for a newer one. `provisionHost` reads
  the row and inserts; of two requests that race, one answers with a host id that
  is not the row's (index.ts:893).
* An approval of a device flow is looked at and written in two statements
  (index.ts:1099), so of two organizations that approve at once both are told that
  they did and the later one has the token. `GrantsApproved` only says that the place
  of a token was approved.
* `RevokedIsGone` excepts `late`: a daemon whose token was looked up before the
  revocation and whose socket was accepted after it stays connected.

## Plan

1. Done: `HostHub`, `Outbox` and `Registry`, with proofs; `Integration` and the
   inbound half with both plug-ins, checked.
2. Done: every invariant and action property of every module proved, and the
   refinement of `RoomLog`.
3. Next: a count of the deliveries of one entry for `HostHub` (what `draft_busy` and
   `requeue` do to the limit on attempts), and the Room's fan-out with calls that are
   cut.

## Not modelled

* Herdr and the composer guard, and the delivery path that types into a pane
  (`deliver.go` without a native adapter, `holdLoop`): terminal I/O and screen
  recognition.
* `queueChannelDelivery` and `cancelChannelDelivery` of a room: in `Room` they
  double the queue without a property of their own; `Integration` has them as one
  call with three outcomes.
* Destroying an integration, attachments, and the `ingest_source` table: what a
  handler writes after `deleteAll` is never read again, and a source is created,
  rotated and deleted by one operator at a time in the instances that matter to
  the modelled objects. Two requests for one source can cross (a `PATCH` that
  configures what a `DELETE` destroyed, two rotations); no property here speaks of
  sources.
* Polling and health reports of an integration: the one connector of this
  repository, `ingest`, does not poll.
* Rendering of envelopes, authentication and the MCP surface (stateless dispatch),
  listings, the D1 ledger and retention (write-only for the modelled objects),
  viewers, e-mail, the command line. Each is listed with its reason in
  `PROJECT.json`.
* The handshake: `daemonSocket` does not look at the ready flag (host-hub.ts:644),
  so a deliver frame can precede `hello_ok`.
