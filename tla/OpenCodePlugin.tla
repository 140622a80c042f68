--------------------------- MODULE OpenCodePlugin ---------------------------
(***************************************************************************)
(* The client of the OpenCode plug-in                                      *)
(* (daemon/contrib/opencode-plugin/index.js).  It keeps no receipts: a     *)
(* delivery looks the message up in the session, prompts, and polls the    *)
(* session until the message is stored.                                    *)
(***************************************************************************)
EXTENDS AgentLink

OpenCode(a) == kind[a] = "opencode"

(* deliveryInMessages: some text in the session includes the id *)
Seen(a, m) == \E q \in shown[a] : m = q \/ m \in Quotes[q]

OcConnect(a)    == OpenCode(a) /\ Connect(a)
OcRegistered(a) == OpenCode(a) /\ Registered(a)
OcClosed(a)     == OpenCode(a) /\ Closed(a)

(* #deliver *)
OcDeliver(a) ==
  /\ OpenCode(a) /\ Read(a)
  /\ IF Own(a, Head(down[a])) THEN UNCHANGED ops ELSE Began(a, Head(down[a]), "look")
  /\ UNCHANGED <<kind, worker, flight, recorded, draft, adapter, up, client, outbound,
                 receipts, branch, shown, pending, copies, doubts, faults>>

(* variant: the session is not searched first *)
OcLookBlind(a, o) ==
  /\ o.pc = "look"
  /\ Moved(a, o, "prompt")
  /\ UNCHANGED <<kind, worker, flight, recorded, draft, adapter, down, up, client,
                 outbound, receipts, branch, shown, pending, copies, doubts, faults>>

(* #injectAndConfirm: a message the session seems to show is acknowledged *)
OcLook(a, o) ==
  /\ o.pc = "look"
  /\ IF Seen(a, o.id)
       THEN Ended(a, o) /\ Queue(a, o.inc, "ack", o.id)
       ELSE Moved(a, o, "prompt") /\ UNCHANGED <<up, outbound>>
  /\ UNCHANGED <<kind, worker, flight, recorded, draft, adapter, down, client,
                 receipts, branch, shown, pending, copies, doubts, faults>>

(* promptAsync is accepted *)
OcPrompt(a, o) ==
  /\ o.pc = "prompt"
  /\ Injected(a, o.id) /\ pending' = [pending EXCEPT ![a] = @ \union {o.id}]
  /\ Moved(a, o, "poll")
  /\ UNCHANGED <<kind, worker, flight, recorded, draft, adapter, down, up, client,
                 outbound, receipts, branch, shown, doubts, faults>>

(* OpenCode stores an accepted prompt *)
OcPersist(a, m) ==
  /\ OpenCode(a) /\ m \in pending[a]
  /\ pending' = [pending EXCEPT ![a] = @ \ {m}]
  /\ shown' = [shown EXCEPT ![a] = @ \union {m}]
  /\ UNCHANGED <<kind, worker, flight, recorded, draft, socket, ops, receipts, branch,
                 copies, doubts, faults>>

(* variant: an accepted prompt is as good as a stored one *)
OcPollTrusts(a, o) ==
  /\ o.pc = "poll"
  /\ Ended(a, o) /\ Queue(a, o.inc, "ack", o.id)
  /\ UNCHANGED <<kind, worker, flight, recorded, draft, adapter, down, client,
                 receipts, branch, shown, pending, copies, doubts, faults>>

(* #waitUntilPersisted *)
OcPoll(a, o) ==
  /\ o.pc = "poll" /\ Seen(a, o.id)
  /\ Ended(a, o) /\ Queue(a, o.inc, "ack", o.id)
  /\ UNCHANGED <<kind, worker, flight, recorded, draft, adapter, down, client,
                 receipts, branch, shown, pending, copies, doubts, faults>>

(***************************************************************************)
(* A request fails, or the deadline of the poll passes: a retryable nak.   *)
(* A prompt whose answer is lost may have been accepted.                   *)
(***************************************************************************)
OcFails(a, o) ==
  /\ Fault /\ OpenCode(a)
  /\ Ended(a, o) /\ Queue(a, o.inc, "nak", o.id)
  /\ \/ o.pc \in {"look", "prompt"} /\ UNCHANGED <<copies, pending, doubts>>
     \/ /\ o.pc = "prompt" /\ Doubt(a, o.id)
        /\ Injected(a, o.id) /\ pending' = [pending EXCEPT ![a] = @ \union {o.id}]
     \/ o.pc = "poll" /\ Doubt(a, o.id) /\ UNCHANGED <<copies, pending>>
  /\ UNCHANGED <<kind, worker, flight, recorded, draft, adapter, down, client,
                 receipts, branch, shown>>

(***************************************************************************)
(* syncSelectedSession selects another session and this one again, or      *)
(* OpenCode restarts, which may lose what it had accepted.                 *)
(***************************************************************************)
OcRestart(a) ==
  /\ Fault /\ OpenCode(a)
  /\ NewClient(a)
  /\ \/ UNCHANGED <<ops, pending>>
     \/ ops' = [ops EXCEPT ![a] = {}] /\ pending' = [pending EXCEPT ![a] = {}]
  /\ UNCHANGED <<kind, worker, flight, recorded, draft, adapter, receipts, branch,
                 shown, copies>>

OcStep(a) ==
  \/ OcConnect(a) \/ OcRegistered(a) \/ OcDeliver(a)
  \/ \E o \in ops[a] : OcLook(a, o) \/ OcPrompt(a, o) \/ OcPoll(a, o)
  \/ \E m \in Msg : OcPersist(a, m)

OcFault(a) ==
  \/ OcClosed(a) \/ OcRestart(a)
  \/ \E o \in ops[a] : OcFails(a, o)
=============================================================================
