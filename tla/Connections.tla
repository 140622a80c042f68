---------------------------- MODULE Connections ----------------------------
(***************************************************************************)
(* The connections between one organization, the home side, and its peers: *)
(* the organization_connection table and the routes of index.ts that write *)
(* it.  A statement on D1 is atomic; a request that reads before it writes *)
(* is two actions, and requests of both sides interleave.                  *)
(***************************************************************************)
EXTENDS Naturals

CONSTANTS Peer,      \* the other organizations
          Side,      \* the two sides of a pair: the home side and the peer
          MaxConn    \* bound on the connection ids ever minted

ConnIds == 1..MaxConn

ASSUME ConnAssumption ==
  /\ MaxConn \in Nat
  /\ \E s, u \in Side : s # u /\ Side = {s, u}

VARIABLES
  conn,       \* the row of each pair: NoRow or [id, status, by]
  accepting,  \* accept requests between their SELECT and their UPDATE
  minted,     \* connection ids given out so far
  consents    \* history: connection id -> the sides whose admin asked for or
              \* accepted exactly that connection

connVars == <<conn, accepting, minted, consents>>

NoRow == [id |-> 0, status |-> "none", by |-> "none"]
Rows  == [id : ConnIds, status : {"pending", "active"}, by : Side] \union {NoRow}

ConnTypeOK ==
  /\ conn \in [Peer -> Rows]
  /\ accepting \subseteq [peer : Peer, id : ConnIds, side : Side]
  /\ minted \in 0..MaxConn
  /\ consents \in [ConnIds -> SUBSET Side]

ConnInit ==
  /\ conn = [p \in Peer |-> NoRow]
  /\ accepting = {}
  /\ minted = 0
  /\ consents = [i \in ConnIds |-> {}]

(* The connection two organizations have now, 0 if none is active *)
ActiveId(p) == IF conn[p].status = "active" THEN conn[p].id ELSE 0
IsActive(i) == \E p \in Peer : ActiveId(p) = i /\ i # 0

(* POST /api/organization-connections: INSERT ... ON CONFLICT DO NOTHING *)
RequestConnection(p, side) ==
  /\ conn[p] = NoRow
  /\ minted < MaxConn
  /\ minted' = minted + 1
  /\ conn' = [conn EXCEPT ![p] = [id |-> minted', status |-> "pending", by |-> side]]
  /\ consents' = [consents EXCEPT ![minted'] = {side}]
  /\ UNCHANGED accepting

(* POST .../:id/accept, the SELECT: refused to the side that asked *)
AcceptSelect(p, side) ==
  /\ conn[p].status = "pending"
  /\ conn[p].by # side
  /\ accepting' = accepting \union {[peer |-> p, id |-> conn[p].id, side |-> side]}
  /\ UNCHANGED <<conn, minted, consents>>

(* variant: the UPDATE goes by the pair of organizations, not by the id *)
AcceptUpdateByPair(x) ==
  /\ x \in accepting
  /\ accepting' = accepting \ {x}
  /\ consents' = [consents EXCEPT ![x.id] = @ \union {x.side}]
  /\ conn' = IF conn[x.peer].status = "pending"
               THEN [conn EXCEPT ![x.peer].status = "active"] ELSE conn
  /\ UNCHANGED minted

(* The UPDATE ... WHERE id = ? AND status = 'pending' of that request *)
AcceptUpdate(x) ==
  /\ x \in accepting
  /\ accepting' = accepting \ {x}
  /\ consents' = [consents EXCEPT ![x.id] = @ \union {x.side}]
  /\ conn' = IF conn[x.peer].id = x.id /\ conn[x.peer].status = "pending"
               THEN [conn EXCEPT ![x.peer].status = "active"] ELSE conn
  /\ UNCHANGED minted

(* DELETE /api/organization-connections/:id, by either side *)
DeleteConnection(p) ==
  /\ conn[p] # NoRow
  /\ conn' = [conn EXCEPT ![p] = NoRow]
  /\ UNCHANGED <<accepting, minted, consents>>

ConnNext ==
  \/ \E p \in Peer, side \in Side : RequestConnection(p, side) \/ AcceptSelect(p, side)
  \/ \E x \in accepting : AcceptUpdate(x)
  \/ \E p \in Peer : DeleteConnection(p)

(***************************************************************************)
(* Consent is bilateral and per connection: a row is active only if one    *)
(* side asked for that very connection and the other accepted it, however  *)
(* accepts, deletions and new requests of the same pair interleave         *)
(* (index.ts, the accept route reads the row and updates it later).        *)
(***************************************************************************)
Bilateral == \A p \in Peer : conn[p].status = "active" => consents[conn[p].id] = Side
============================================================================
