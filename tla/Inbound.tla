------------------------------ MODULE Inbound ------------------------------
(***************************************************************************)
(* Deliveries from the Worker's frame to the agent's session and back: the *)
(* daemon of AgentLink with both plug-ins.                                 *)
(***************************************************************************)
EXTENDS OmpPlugin, OpenCodePlugin

Daemon ==
  \/ \E a \in Agent, m \in Msg :
       \/ Follow(a, m) \/ OnRecord(a, m) \/ DeliverNative(a, m) \/ WriteFails(a, m)
       \/ Record(a, m) \/ RecordFails(a, m) \/ Timeout(a, m) \/ Cancelled(a, m)
  \/ \E a \in Agent : Control(a) \/ Typing(a) \/ \E g \in Gens : Deregister(a, g)
  \/ WireDrop \/ DaemonRestart

Next == Daemon \/ \E a \in Agent : OmpStep(a) \/ OmpFault(a) \/ OcStep(a) \/ OcFault(a)

Init == LinkInit
Spec == Init /\ [][Next]_vars

(***************************************************************************)
(* The Worker repeats what is not answered, the daemon reads its sockets   *)
(* and finishes its goroutines, a plug-in reconnects and its promises      *)
(* settle.  Failures need not happen, and nobody has to stop typing.       *)
(***************************************************************************)
Fairness ==
  \A a \in Agent :
    /\ WF_vars(OmpStep(a)) /\ WF_vars(OcConnect(a)) /\ WF_vars(OcRegistered(a))
    /\ WF_vars(OcDeliver(a)) /\ WF_vars(\E o \in ops[a] : OcLook(a, o) \/ OcPrompt(a, o))
    /\ WF_vars(\E o \in ops[a] : OcPoll(a, o)) /\ WF_vars(\E m \in Msg : OcPersist(a, m))
    /\ WF_vars(Control(a)) /\ WF_vars(\E g \in Gens : Deregister(a, g))
    /\ \A m \in Msg :
         /\ WF_vars(Follow(a, m)) /\ WF_vars(OnRecord(a, m)) /\ WF_vars(DeliverNative(a, m))
         /\ WF_vars(Record(a, m)) /\ WF_vars(Cancelled(a, m))

FairSpec == Spec /\ Fairness

-----------------------------------------------------------------------------
Frames == [t : {"ack", "nak", "dead"}, id : Msg]

(* The types of the daemon's, the plug-ins' and the sessions' state. *)
TypeOK ==
  /\ kind \in [Agent -> Kinds]
  /\ settled \in [Agent -> SUBSET Msg] /\ dead \in [Agent -> SUBSET Msg]
  /\ flight \in [Agent -> [Msg -> [pc : {"none", "wait", "record"}, gen : Gens \union {0},
                                   ctx : BOOLEAN, heard : BOOLEAN]]]
  /\ recorded \subseteq Msg /\ draft \in [Agent -> BOOLEAN]
  /\ adapter \in [Agent -> Gens \union {0}]
  /\ down \in [Agent -> Seq(Msg)] /\ up \in [Agent -> Seq(Frames)]
  /\ client \in [Agent -> [gen : Gens \union {0}, link : {"closed", "open", "up"},
                           inc : Gens]]
  /\ outbound \in [Agent -> Seq(Frames)]
  /\ ops \in [Agent -> SUBSET [id : Msg, pc : {"send", "receipt", "look", "prompt", "poll"},
                               inc : Gens]]
  /\ receipts \in [Agent -> SUBSET Msg] /\ branch \in [Agent -> SUBSET Msg]
  /\ shown \in [Agent -> SUBSET Msg] /\ pending \in [Agent -> SUBSET Msg]
  /\ copies \in [Agent -> [Msg -> Nat]] /\ doubts \in [Agent -> [Msg -> 0..MaxFaults]]
  /\ faults \in 0..MaxFaults

(* What the session of an agent has taken: OpenCode, what its messages show  *)
(* or quote; OMP, what its sendMessage accepted.                            *)
Held == [a \in Agent |-> {m \in Msg : IF OpenCode(a) THEN Seen(a, m) ELSE copies[a][m] > 0}]

(***************************************************************************)
(* The Worker is told nothing that has no ground (deliver, handleIncoming, *)
(* #injectAndReceipt, #injectAndConfirm): an acknowledged message was      *)
(* taken by the session of an agent it is for, and one refused for good    *)
(* was never injected, whatever answers arrive late, for an older attempt  *)
(* or on a newer connection.                                               *)
(***************************************************************************)
AnswersAreTrue ==
  \A a \in Agent : /\ \A m \in settled[a] : \E b \in For[m] : m \in Held[b]
                   /\ \A m \in dead[a] : copies[a][m] = 0

(***************************************************************************)
(* docs/protocols.md:333, of deliver_ack: "sent only once the envelope is  *)
(* durably visible in the session".  What the Worker counts as injected is *)
(* visible in the session of the agent.                                    *)
(***************************************************************************)
AcksAreVisible == \A a \in Agent : settled[a] \subseteq shown[a]

(***************************************************************************)
(* A message is injected once, and once more at most for every time the    *)
(* outcome of an injection was lost: a receipt that could not be written,  *)
(* a session that did not store the prompt in time, a client replaced in   *)
(* the middle.  Timeouts, lost answers, broken sockets, restarts of the    *)
(* daemon and repeated frames never add a copy (coalescing in deliver,     *)
(* inFlight and receipts in the plug-ins, the history of the daemon).      *)
(***************************************************************************)
CopiesAccounted == \A a \in Agent, m \in Msg : copies[a][m] <= 1 + doubts[a][m]

(* The plug-in is connected and the daemon has dropped its adapter.          *)
CutOff(a) == Connected(a) /\ adapter[a] # client[a].gen

(***************************************************************************)
(* If from some time on the agent's composer is clear and its plug-in is   *)
(* not left on a connection the daemon has given up (WriteFails), every    *)
(* delivery is answered for good once failures stop.                       *)
(***************************************************************************)
EveryDeliveryAnswered ==
  \A m \in Msg : \A a \in For[m] :
    (<>[](~draft[a] /\ ~CutOff(a))) => <>(m \in settled[a] \union dead[a])
============================================================================
