----------------------------- MODULE AgentLink -----------------------------
(***************************************************************************)
(* A delivery inside a host: the daemon's deliver and deliverOnce          *)
(* (daemon/deliver.go), the socket to the plug-in of an agent's harness    *)
(* and its waiters (daemon/adapter.go), and what a plug-in's client and    *)
(* its session keep.  OmpPlugin and OpenCodePlugin add the plug-ins        *)
(* themselves, Inbound puts them together.                                 *)
(*                                                                         *)
(* The Worker repeats a frame until it is answered; HostHub says when.     *)
(* Both directions of a socket keep their order.  A socket that breaks     *)
(* loses what nobody read yet; the daemon may find out later.              *)
(***************************************************************************)
EXTENDS Naturals, Sequences

CONSTANTS Agent, Msg,
          For,        \* message -> the agents of this host it is delivered to
          Quotes,     \* message -> the messages whose ids its envelope contains
          Kinds,      \* the harnesses an agent may run in
          MaxFaults   \* bound on failures, timeouts and restarts

ASSUME LinkAssumption ==
  /\ For \in [Msg -> SUBSET Agent] /\ Quotes \in [Msg -> SUBSET Msg]
  /\ Kinds \subseteq {"omp", "omp_old", "opencode"} /\ MaxFaults \in Nat

Gens == 1..(MaxFaults + 1)

VARIABLES
  kind,      \* agent -> its harness; omp_old has no sendMessage
  settled,   \* Worker: agent -> messages it was told are injected
  dead,      \* Worker: agent -> messages it was told never will be
  flight,    \* daemon: deliverOnce of an agent and a message
  recorded,  \* daemon: history/in/<id>.json
  adapter,   \* daemon: the generation registered for the agent, 0 if none
  draft,     \* a person has unsent input in the agent's pane
  down, up,  \* frames on the socket to and from the plug-in
  client,    \* plug-in: [gen, link, inc]: its connections so far, the state of
             \* the socket, and which incarnation of the client this is
  outbound,  \* plug-in: control frames without a capability to send them
  ops,       \* plug-in: injections under way, also those of stopped clients
  receipts,  \* plug-in: ids whose receipt this client knows (omp)
  branch,    \* session: ids whose receipt is stored (omp)
  shown,     \* session: messages that are visible in it
  pending,   \* session: accepted and not yet visible: prompts that are not
             \* stored (opencode), messages that wait for the turn to end (omp)
  copies,    \* history: how often a message was injected
  doubts,    \* history: how often the outcome of an injection was lost
  faults     \* failures so far

worker  == <<settled, dead>>
socket  == <<adapter, down, up, client, outbound>>
session == <<ops, receipts, branch, shown, pending, copies, doubts>>
vars    == <<kind, worker, flight, recorded, draft, socket, session, faults>>

NoFlight == [pc |-> "none", gen |-> 0, ctx |-> FALSE, heard |-> FALSE]

LinkInit ==
  /\ kind \in [Agent -> Kinds]
  /\ settled = [a \in Agent |-> {}] /\ dead = [a \in Agent |-> {}]
  /\ flight = [a \in Agent |-> [m \in Msg |-> NoFlight]]
  /\ recorded = {} /\ draft = [a \in Agent |-> FALSE]
  /\ adapter = [a \in Agent |-> 0]
  /\ down = [a \in Agent |-> << >>] /\ up = [a \in Agent |-> << >>]
  /\ client = [a \in Agent |-> [gen |-> 0, link |-> "closed", inc |-> 1]]
  /\ outbound = [a \in Agent |-> << >>] /\ ops = [a \in Agent |-> {}]
  /\ receipts = [a \in Agent |-> {}] /\ branch = [a \in Agent |-> {}]
  /\ shown = [a \in Agent |-> {}] /\ pending = [a \in Agent |-> {}]
  /\ copies = [a \in Agent |-> [m \in Msg |-> 0]]
  /\ doubts = [a \in Agent |-> [m \in Msg |-> 0]]
  /\ faults = 0

Fault       == faults < MaxFaults /\ faults' = faults + 1
Connected(a) == client[a].link # "closed"
Waiting(a, m, g) == flight[a][m].pc = "wait" /\ flight[a][m].gen = g

-----------------------------------------------------------------------------
(* The daemon: deliver, deliverOnce, deliverNative, handleIncoming *)

(* The flight ends and the connections that wait for it hear the outcome *)
Answered(a, m, out) ==
  /\ flight' = [flight EXCEPT ![a][m] = NoFlight]
  /\ settled' = IF flight[a][m].heard /\ out = "ack"
                  THEN [settled EXCEPT ![a] = @ \union {m}] ELSE settled
  /\ dead' = IF flight[a][m].heard /\ out = "dead"
               THEN [dead EXCEPT ![a] = @ \union {m}] ELSE dead

(* The Worker queues m for a and was not told how it ended *)
Due(a, m) == a \in For[m] /\ m \notin settled[a] \union dead[a]

(* A frame for a delivery under way waits for the outcome of that one *)
Follow(a, m) ==
  /\ Due(a, m)
  /\ flight[a][m].pc # "none" /\ ~flight[a][m].heard
  /\ flight' = [flight EXCEPT ![a][m].heard = TRUE]
  /\ UNCHANGED <<kind, worker, recorded, draft, socket, session, faults>>

(* deliverOnce: what is on record is acknowledged without another injection *)
OnRecord(a, m) ==
  /\ Due(a, m)
  /\ flight[a][m].pc = "none" /\ m \in recorded
  /\ settled' = [settled EXCEPT ![a] = @ \union {m}]
  /\ UNCHANGED <<kind, dead, flight, recorded, draft, socket, session, faults>>

(* A paused daemon, a draft in the pane and an agent without an adapter are *)
(* answered with a retryable nak, which changes nothing here                *)
Deliverable(a, m) == /\ Due(a, m) /\ flight[a][m].pc = "none" /\ m \notin recorded
                     /\ ~draft[a] /\ adapter[a] # 0

Waits(a, m, g) == flight' = [flight EXCEPT ![a][m] =
                               [pc |-> "wait", gen |-> g, ctx |-> TRUE, heard |-> TRUE]]

(* variant: the waiter belongs to the adapter that registers next *)
DeliverNativeNext(a, m) ==
  /\ Deliverable(a, m)
  /\ Waits(a, m, adapter[a] + 1)
  /\ down' = [down EXCEPT ![a] = Append(@, m)]
  /\ UNCHANGED <<kind, worker, recorded, draft, adapter, up, client, outbound,
                 session, faults>>

(* deliverOnce and deliverNative up to the wait: the waiter and the frame.  *)
(* A write to a socket that broke unnoticed is lost.                        *)
DeliverNative(a, m) ==
  /\ Deliverable(a, m)
  /\ Waits(a, m, adapter[a])
  /\ down' = IF Connected(a) /\ client[a].gen = adapter[a]
               THEN [down EXCEPT ![a] = Append(@, m)] ELSE down
  /\ UNCHANGED <<kind, worker, recorded, draft, adapter, up, client, outbound,
                 session, faults>>

(* failWaiters, and the adapter goes if it is the one registered *)
Drop(a, g) ==
  /\ adapter' = [adapter EXCEPT ![a] = IF @ = g THEN 0 ELSE @]
  /\ flight' = [flight EXCEPT ![a] =
                  [m \in Msg |-> IF Waiting(a, m, g) THEN NoFlight ELSE @[m]]]

(***************************************************************************)
(* The write of deliverNative fails: the adapter is deregistered, its      *)
(* connection stays open.  The plug-in registers again when it reconnects. *)
(***************************************************************************)
WriteFails(a, m) ==
  /\ Fault /\ Deliverable(a, m)
  /\ Drop(a, adapter[a])
  /\ UNCHANGED <<kind, worker, recorded, draft, down, up, client, outbound, session>>

(* handleAgentControl and resolve: the outcome goes to the waiter of the    *)
(* connection it came on, if there is one                                   *)
Control(a) ==
  /\ up[a] # << >>
  /\ up' = [up EXCEPT ![a] = Tail(@)]
  /\ LET f == Head(up[a])
     IN IF ~Waiting(a, f.id, client[a].gen) THEN UNCHANGED <<flight, worker>>
        ELSE IF f.t = "ack"
          THEN /\ flight' = [flight EXCEPT ![a][f.id].pc = "record"]
               /\ UNCHANGED worker
          ELSE Answered(a, f.id, f.t)
  /\ UNCHANGED <<kind, recorded, draft, adapter, down, client, outbound, session,
                 faults>>

(* RecordIncoming, then the ack on the connections that wait for it *)
Record(a, m) ==
  /\ flight[a][m].pc = "record"
  /\ recorded' = recorded \union {m}
  /\ Answered(a, m, "ack")
  /\ UNCHANGED <<kind, draft, socket, session, faults>>

RecordFails(a, m) ==
  /\ Fault /\ flight[a][m].pc = "record"
  /\ Answered(a, m, "nak")
  /\ UNCHANGED <<kind, recorded, draft, socket, session>>

(* promptTimeout: the waiter goes, the plug-in's answer may still come *)
Timeout(a, m) ==
  /\ Fault /\ flight[a][m].pc = "wait"
  /\ Answered(a, m, "nak")
  /\ UNCHANGED <<kind, recorded, draft, socket, session>>

(* The connection to the Worker drops: its deliveries are cancelled, and   *)
(* nobody hears their outcome unless a new frame follows them              *)
WireDrop ==
  /\ Fault /\ \E a \in Agent, m \in Msg : flight[a][m].pc # "none"
  /\ flight' = [a \in Agent |-> [m \in Msg |->
                  [flight[a][m] EXCEPT !.ctx = FALSE, !.heard = FALSE]]]
  /\ UNCHANGED <<kind, worker, recorded, draft, socket, session>>

Cancelled(a, m) ==
  /\ flight[a][m].pc = "wait" /\ ~flight[a][m].ctx
  /\ Answered(a, m, "nak")
  /\ UNCHANGED <<kind, recorded, draft, socket, session, faults>>

(* deregisterAgentAdapter of a connection that ended *)
Deregister(a, g) ==
  /\ ~(Connected(a) /\ client[a].gen = g)
  /\ adapter[a] = g \/ \E m \in Msg : Waiting(a, m, g)
  /\ Drop(a, g)
  /\ UNCHANGED <<kind, worker, recorded, draft, down, up, client, outbound, session,
                 faults>>

(* A person starts or ends a draft *)
Typing(a) ==
  /\ draft' = [draft EXCEPT ![a] = ~@]
  /\ UNCHANGED <<kind, worker, flight, recorded, socket, session, faults>>

(* The daemon restarts: the history stays, every socket ends *)
DaemonRestart ==
  /\ Fault
  /\ flight' = [a \in Agent |-> [m \in Msg |-> NoFlight]]
  /\ adapter' = [a \in Agent |-> 0]
  /\ client' = [a \in Agent |-> [client[a] EXCEPT !.link = "closed"]]
  /\ down' = [a \in Agent |-> << >>] /\ up' = [a \in Agent |-> << >>]
  /\ UNCHANGED <<kind, worker, recorded, draft, outbound, session>>

-----------------------------------------------------------------------------
(* What both plug-ins do with their socket *)

(* The socket connects; the daemon registers the adapter *)
Connect(a) ==
  /\ ~Connected(a)
  /\ client[a].gen \in 0..MaxFaults
  /\ client' = [client EXCEPT ![a].gen = @ + 1, ![a].link = "open"]
  /\ adapter' = [adapter EXCEPT ![a] = client[a].gen + 1]
  /\ UNCHANGED <<kind, worker, flight, recorded, draft, down, up, outbound, session,
                 faults>>

(* "registered" brings the capability: what is waiting goes out with it *)
Registered(a) ==
  /\ client[a].link = "open"
  /\ client' = [client EXCEPT ![a].link = "up"]
  /\ up' = [up EXCEPT ![a] = @ \o outbound[a]]
  /\ outbound' = [outbound EXCEPT ![a] = << >>]
  /\ UNCHANGED <<kind, worker, flight, recorded, draft, adapter, down, session, faults>>

Closed(a) ==
  /\ Fault /\ Connected(a)
  /\ client' = [client EXCEPT ![a].link = "closed"]
  /\ down' = [down EXCEPT ![a] = << >>] /\ up' = [up EXCEPT ![a] = << >>]
  /\ UNCHANGED <<kind, worker, flight, recorded, draft, adapter, outbound, session>>

(* queueControl of the client that ran the injection; a stopped one is mute *)
Queue(a, inc, t, m) ==
  IF inc # client[a].inc THEN UNCHANGED <<up, outbound>>
  ELSE IF client[a].link = "up"
    THEN up' = [up EXCEPT ![a] = Append(@, [t |-> t, id |-> m])] /\ UNCHANGED outbound
    ELSE outbound' = [outbound EXCEPT ![a] = Append(@, [t |-> t, id |-> m])]
         /\ UNCHANGED up

(* A new client takes over; the socket and the queue of the old one end *)
NewClient(a) ==
  /\ client' = [client EXCEPT ![a].inc = @ + 1, ![a].link = "closed"]
  /\ down' = [down EXCEPT ![a] = << >>] /\ up' = [up EXCEPT ![a] = << >>]
  /\ outbound' = [outbound EXCEPT ![a] = << >>]
  /\ doubts' = [doubts EXCEPT ![a] = [m \in Msg |->
                  IF \E o \in ops[a] : o.id = m /\ o.inc = client[a].inc
                    THEN @[m] + 1 ELSE @[m]]]

Own(a, m)     == \E o \in ops[a] : o.id = m /\ o.inc = client[a].inc
Began(a, m, pc) == ops' = [ops EXCEPT ![a] =
                             @ \union {[id |-> m, pc |-> pc, inc |-> client[a].inc]}]
Moved(a, o, pc) == ops' = [ops EXCEPT ![a] = (@ \ {o}) \union {[o EXCEPT !.pc = pc]}]
Ended(a, o)     == ops' = [ops EXCEPT ![a] = @ \ {o}]
Doubt(a, m)     == doubts' = [doubts EXCEPT ![a][m] = @ + 1]
Injected(a, m)  == copies' = [copies EXCEPT ![a][m] = @ + 1]
Read(a)         == down[a] # << >> /\ down' = [down EXCEPT ![a] = Tail(@)]
============================================================================
