----------------------------- MODULE OmpPlugin -----------------------------
(***************************************************************************)
(* The client of the OMP and Pi extension                                  *)
(* (daemon/contrib/omp-extension/index.js).  A delivery is a sendMessage   *)
(* and then a receipt in the session's branch; both are awaited, so other  *)
(* frames and a new client come between them.                              *)
(***************************************************************************)
EXTENDS AgentLink

Omp(a) == kind[a] \in {"omp", "omp_old"}

OmpConnect(a)    == Omp(a) /\ Connect(a)
OmpRegistered(a) == Omp(a) /\ Registered(a)
OmpClosed(a)     == Omp(a) /\ Closed(a)

(* #deliver: a known receipt is acknowledged; an injection under way will  *)
(* answer for this frame too                                               *)
OmpDeliver(a) ==
  /\ Omp(a) /\ Read(a)
  /\ LET m == Head(down[a])
     IN IF m \in receipts[a]
          THEN Queue(a, client[a].inc, "ack", m) /\ UNCHANGED ops
          ELSE /\ UNCHANGED <<up, outbound>>
               /\ IF Own(a, m) THEN UNCHANGED ops ELSE Began(a, m, "send")
  /\ UNCHANGED <<kind, worker, flight, recorded, draft, adapter, client, receipts,
                 branch, shown, pending, copies, doubts, faults>>

(***************************************************************************)
(* #injectAndReceipt: sendMessage, which an older OMP does not have.  An    *)
(* idle session shows the message at once, one in a turn keeps it.          *)
(***************************************************************************)
OmpSend(a, o) ==
  /\ o.pc = "send"
  /\ \/ /\ kind[a] = "omp_old"
        /\ Ended(a, o) /\ Queue(a, o.inc, "dead", o.id)
        /\ UNCHANGED <<shown, pending, copies>>
     \/ /\ kind[a] = "omp"
        /\ Injected(a, o.id)
        /\ \/ shown' = [shown EXCEPT ![a] = @ \union {o.id}] /\ UNCHANGED pending
           \/ pending' = [pending EXCEPT ![a] = @ \union {o.id}] /\ UNCHANGED shown
        /\ Moved(a, o, "receipt")
        /\ UNCHANGED <<up, outbound>>
  /\ UNCHANGED <<kind, worker, flight, recorded, draft, adapter, down, client,
                 receipts, branch, doubts, faults>>

(* The turn unwinds and the session takes what waited for it *)
OmpUnwinds(a) ==
  /\ Omp(a) /\ pending[a] # {}
  /\ shown' = [shown EXCEPT ![a] = @ \union pending[a]]
  /\ pending' = [pending EXCEPT ![a] = {}]
  /\ UNCHANGED <<kind, worker, flight, recorded, draft, socket, ops, receipts, branch,
                 copies, doubts, faults>>

OmpSendFails(a, o) ==
  /\ Fault /\ kind[a] = "omp" /\ o.pc = "send"
  /\ Ended(a, o) /\ Queue(a, o.inc, "nak", o.id)
  /\ UNCHANGED <<kind, worker, flight, recorded, draft, adapter, down, client,
                 receipts, branch, shown, pending, copies, doubts>>

(* variant: the receipt is kept, the acknowledgement is not sent *)
OmpReceiptMute(a, o) ==
  /\ o.pc = "receipt"
  /\ branch' = [branch EXCEPT ![a] = @ \union {o.id}]
  /\ Ended(a, o)
  /\ UNCHANGED <<kind, worker, flight, recorded, draft, adapter, down, up, client,
                 outbound, receipts, shown, pending, copies, doubts, faults>>

(* The receipt: in the branch, in this client's memory, and to the daemon *)
OmpReceipt(a, o) ==
  /\ o.pc = "receipt"
  /\ branch' = [branch EXCEPT ![a] = @ \union {o.id}]
  /\ receipts' = IF o.inc = client[a].inc
                   THEN [receipts EXCEPT ![a] = @ \union {o.id}] ELSE receipts
  /\ Ended(a, o) /\ Queue(a, o.inc, "ack", o.id)
  /\ UNCHANGED <<kind, worker, flight, recorded, draft, adapter, down, client, shown,
                 pending, copies, doubts, faults>>

OmpReceiptFails(a, o) ==
  /\ Fault /\ o.pc = "receipt"
  /\ Ended(a, o) /\ Queue(a, o.inc, "nak", o.id) /\ Doubt(a, o.id)
  /\ UNCHANGED <<kind, worker, flight, recorded, draft, adapter, down, client,
                 receipts, branch, shown, pending, copies>>

(***************************************************************************)
(* session_start of the same session: the old client stops and the new one *)
(* reads the branch.  The injections of the old one go on unless the       *)
(* process ended, with all that waited for the end of a turn.              *)
(***************************************************************************)
OmpRestart(a) ==
  /\ Fault /\ Omp(a)
  /\ NewClient(a)
  /\ receipts' = [receipts EXCEPT ![a] = branch[a]]
  /\ \/ UNCHANGED <<ops, pending>>
     \/ ops' = [ops EXCEPT ![a] = {}] /\ pending' = [pending EXCEPT ![a] = {}]
  /\ UNCHANGED <<kind, worker, flight, recorded, draft, adapter, branch, shown,
                 copies>>

OmpStep(a) ==
  \/ OmpConnect(a) \/ OmpRegistered(a) \/ OmpDeliver(a) \/ OmpUnwinds(a)
  \/ \E o \in ops[a] : OmpSend(a, o) \/ OmpReceipt(a, o)

OmpFault(a) ==
  \/ OmpClosed(a) \/ OmpRestart(a)
  \/ \E o \in ops[a] : OmpSendFails(a, o) \/ OmpReceiptFails(a, o)
============================================================================
