----------------------------- MODULE MCInbound -----------------------------
(* Instances of Inbound. *)
EXTENDS Inbound

First == CHOOSE m \in Msg : TRUE

(* Every message goes to every agent. *)
MCForAll == [m \in Msg |-> Agent]

(* No envelope mentions another message. *)
MCNoQuotes == [m \in Msg |-> {}]

(* The other messages reply to the first. *)
MCReplies == [m \in Msg |-> IF m = First THEN {} ELSE {First}]
============================================================================
