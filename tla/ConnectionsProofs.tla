-------------------------- MODULE ConnectionsProofs --------------------------
(***************************************************************************)
(* Facts about Connections, for every set of peers: what a step on the     *)
(* table of connections keeps, and that consents are never taken back.     *)
(***************************************************************************)
EXTENDS Connections, TLAPS

(* A row has an id that was given out, and the consent of the side that asked. *)
RowsMinted ==
  \A p \in Peer : conn[p] # NoRow =>
    conn[p].id \in 1..minted /\ conn[p].by \in consents[conn[p].id]

(* An accept under way read an id that was given out; while the row it read  *)
(* is there, it comes from the other side.                                   *)
AcceptsOther ==
  \A x \in accepting :
    /\ x.id \in 1..minted
    /\ conn[x.peer].id = x.id => conn[x.peer].by # x.side

(* Nobody consented to an id that was not given out. *)
Unminted == \A i \in ConnIds : i > minted => consents[i] = {}

ConnInv == ConnTypeOK /\ RowsMinted /\ AcceptsOther /\ Unminted /\ Bilateral

(* Consent stands: to a connection both sides agreed to, they agreed for good *)
Standing == \A i \in ConnIds : consents[i] = Side => consents'[i] = Side

-----------------------------------------------------------------------------
LEMMA ConnFields ==
  ASSUME ConnTypeOK
  PROVE  /\ \A p \in Peer : /\ conn[p] \in Rows
                            /\ conn[p] # NoRow => /\ conn[p].id \in ConnIds /\ conn[p].by \in Side
                                                  /\ conn[p].status \in {"pending", "active"}
                            /\ conn[p].status \in {"pending", "active"} => conn[p] # NoRow
                            /\ conn[p].id # 0 => conn[p] # NoRow
         /\ \A x \in accepting : x.peer \in Peer /\ x.id \in ConnIds /\ x.side \in Side
<1>1. \A p \in Peer : conn[p] \in Rows
  BY DEF ConnTypeOK
<1>2. \A x \in accepting : x.peer \in Peer /\ x.id \in ConnIds /\ x.side \in Side
  BY DEF ConnTypeOK
<1>. QED BY <1>1, <1>2 DEF Rows, NoRow

(* A new row, of an id nobody has. *)
LEMMA RequestStep ==
  ASSUME ConnInv, NEW p \in Peer, NEW side \in Side, RequestConnection(p, side)
  PROVE  ConnInv' /\ Standing
<1> DEFINE i == minted + 1
           row == [id |-> i, status |-> "pending", by |-> side]
<1>t. ConnTypeOK /\ RowsMinted /\ AcceptsOther /\ Unminted /\ Bilateral
  BY DEF ConnInv
<1>i. i \in ConnIds /\ i \in 0..MaxConn /\ minted \in Nat /\ i > minted
  BY <1>t, ConnAssumption DEF RequestConnection, ConnTypeOK, ConnIds
<1>a. /\ minted' = i /\ conn' = [conn EXCEPT ![p] = row]
      /\ consents' = [consents EXCEPT ![i] = {side}] /\ accepting' = accepting
  BY DEF RequestConnection
<1>b. row \in Rows /\ row.id = i /\ row.by = side /\ row.status = "pending"
  BY <1>i DEF Rows
<1> HIDE DEF i, row
<1>c. conn'[p] = row /\ \A q \in Peer \ {p} : conn'[q] = conn[q]
  BY <1>a, <1>t DEF ConnTypeOK
<1>d. consents'[i] = {side} /\ \A j \in ConnIds \ {i} : consents'[j] = consents[j]
  BY <1>a, <1>i, <1>t DEF ConnTypeOK
<1>1. ConnTypeOK'
  BY <1>a, <1>b, <1>i, <1>t DEF ConnTypeOK
<1>2. RowsMinted'
  <2>1. \A q \in Peer \ {p} : conn[q] # NoRow => conn[q].id \in ConnIds \ {i} /\ conn[q].id \in 1..minted'
    BY <1>a, <1>i, <1>t, ConnFields DEF RowsMinted
  <2>. QED BY <1>a, <1>b, <1>c, <1>d, <1>i, <1>t, <2>1 DEF RowsMinted
<1>3. AcceptsOther'
  BY <1>a, <1>b, <1>c, <1>i, <1>t, ConnFields DEF AcceptsOther
<1>4. Unminted'
  BY <1>a, <1>d, <1>i, <1>t DEF Unminted, ConnIds
<1>5. Bilateral'
  <2>1. \A q \in Peer \ {p} : conn[q].status = "active" => conn[q].id \in ConnIds \ {i}
    BY <1>i, <1>t, ConnFields DEF RowsMinted
  <2>. QED BY <1>b, <1>c, <1>d, <1>t, <2>1 DEF Bilateral
<1>6. Standing
  <2>1. consents[i] = {} /\ Side # {}
    BY <1>i, <1>t DEF Unminted
  <2>. QED BY <1>d, <2>1 DEF Standing
<1>. QED BY <1>1, <1>2, <1>3, <1>4, <1>5, <1>6 DEF ConnInv

(* The SELECT of an accept, of the side that did not ask. *)
LEMMA AcceptSelectStep ==
  ASSUME ConnInv, NEW p \in Peer, NEW side \in Side, AcceptSelect(p, side)
  PROVE  ConnInv' /\ Standing
<1> DEFINE x == [peer |-> p, id |-> conn[p].id, side |-> side]
<1>t. ConnTypeOK /\ RowsMinted /\ AcceptsOther /\ Unminted /\ Bilateral
  BY DEF ConnInv
<1>a. /\ accepting' = accepting \union {x} /\ conn' = conn /\ minted' = minted
      /\ consents' = consents /\ conn[p].status = "pending" /\ conn[p].by # side
  BY DEF AcceptSelect
<1>b. conn[p] # NoRow /\ conn[p].id \in ConnIds
  BY <1>a, <1>t, ConnFields
<1>c. x \in [peer : Peer, id : ConnIds, side : Side] /\ x.peer = p /\ x.id = conn[p].id /\ x.side = side
  BY <1>b
<1> HIDE DEF x
<1>1. ConnTypeOK'
  BY <1>a, <1>c, <1>t DEF ConnTypeOK
<1>2. AcceptsOther'
  BY <1>a, <1>b, <1>c, <1>t DEF AcceptsOther, RowsMinted
<1>. QED BY <1>a, <1>t, <1>1, <1>2 DEF ConnInv, RowsMinted, Unminted, Bilateral, Standing

(* Its UPDATE: the side that asked consented when it asked, this one now. *)
LEMMA AcceptUpdateStep ==
  ASSUME ConnInv, NEW x \in accepting, AcceptUpdate(x)
  PROVE  ConnInv' /\ Standing
<1>t. ConnTypeOK /\ RowsMinted /\ AcceptsOther /\ Unminted /\ Bilateral
  BY DEF ConnInv
<1>x. x.peer \in Peer /\ x.id \in ConnIds /\ x.side \in Side
  BY <1>t, ConnFields
<1>a. /\ minted' = minted /\ accepting' = accepting \ {x}
      /\ consents'[x.id] = consents[x.id] \union {x.side}
      /\ \A j \in ConnIds \ {x.id} : consents'[j] = consents[j]
      /\ consents' \in [ConnIds -> SUBSET Side]
  BY <1>t, <1>x DEF AcceptUpdate, ConnTypeOK
<1>6. Standing
  BY <1>a, <1>t, <1>x DEF Standing, ConnTypeOK
<1>4. Unminted'
  <2>1. x.id \in 1..minted /\ minted \in Nat
    BY <1>t, ConnAssumption DEF AcceptsOther, ConnTypeOK
  <2>. QED BY <1>a, <1>t, <2>1 DEF Unminted, ConnIds
<1>g. \A i \in ConnIds : consents[i] \subseteq consents'[i]
  BY <1>a
<1>1. CASE conn[x.peer].id = x.id /\ conn[x.peer].status = "pending"
  <2> DEFINE row == [conn[x.peer] EXCEPT !.status = "active"]
  <2>1. conn[x.peer] # NoRow /\ conn[x.peer] \in Rows
    BY <1>1, <1>t, <1>x, ConnFields
  <2>2. row \in Rows /\ row.id = x.id /\ row.by = conn[x.peer].by /\ row # NoRow
    BY <1>1, <2>1 DEF Rows, NoRow
  <2>3. conn' = [conn EXCEPT ![x.peer] = row]
    BY <1>1 DEF AcceptUpdate
  <2> HIDE DEF row
  <2>4. conn'[x.peer] = row /\ \A q \in Peer \ {x.peer} : conn'[q] = conn[q]
    BY <2>3, <1>t, <1>x DEF ConnTypeOK
  <2>5. ConnTypeOK'
    BY <1>a, <1>t, <1>x, <2>2, <2>3 DEF ConnTypeOK
  <2>6. RowsMinted'
    BY <1>a, <1>g, <1>t, <1>x, <2>1, <2>2, <2>4, <1>1, ConnFields DEF RowsMinted
  <2>7. AcceptsOther'
    BY <1>a, <1>t, <1>1, <2>2, <2>4, ConnFields DEF AcceptsOther
  <2>8. consents'[x.id] = Side
    <3>1. conn[x.peer].by # x.side /\ conn[x.peer].by \in consents[x.id] /\ conn[x.peer].by \in Side
      BY <1>1, <1>t, <1>x, <2>1, ConnFields DEF AcceptsOther, RowsMinted
    <3>2. PICK s, u \in Side : s # u /\ Side = {s, u}
      BY ConnAssumption
    <3>3. consents'[x.id] \subseteq Side
      BY <1>a, <1>x
    <3>. QED BY <1>a, <1>x, <3>1, <3>2, <3>3
  <2>9. Bilateral'
    <3>1. \A q \in Peer \ {x.peer} : conn'[q].status = "active" => consents'[conn'[q].id] = Side
      BY <1>t, <1>6, <2>4, ConnFields DEF Bilateral, Standing
    <3>. QED BY <2>2, <2>4, <2>8, <3>1 DEF Bilateral
  <2>. QED BY <1>4, <1>6, <2>5, <2>6, <2>7, <2>9 DEF ConnInv
<1>2. CASE ~(conn[x.peer].id = x.id /\ conn[x.peer].status = "pending")
  <2>1. conn' = conn
    BY <1>2 DEF AcceptUpdate
  <2>2. ConnTypeOK'
    BY <1>a, <1>t, <2>1 DEF ConnTypeOK
  <2>3. RowsMinted'
    BY <1>a, <1>g, <1>t, <2>1, ConnFields DEF RowsMinted
  <2>4. AcceptsOther'
    BY <1>a, <1>t, <2>1 DEF AcceptsOther
  <2>5. Bilateral'
    BY <1>t, <1>6, <2>1, ConnFields DEF Bilateral, Standing
  <2>. QED BY <1>4, <1>6, <2>2, <2>3, <2>4, <2>5 DEF ConnInv
<1>. QED BY <1>1, <1>2

(* A row goes; an accept that read it finds nothing. *)
LEMMA DeleteStep ==
  ASSUME ConnInv, NEW p \in Peer, DeleteConnection(p)
  PROVE  ConnInv' /\ Standing
<1>t. ConnTypeOK /\ RowsMinted /\ AcceptsOther /\ Unminted /\ Bilateral
  BY DEF ConnInv
<1>a. /\ conn' = [conn EXCEPT ![p] = NoRow] /\ accepting' = accepting /\ minted' = minted
      /\ consents' = consents
  BY DEF DeleteConnection
<1>b. conn'[p] = NoRow /\ \A q \in Peer \ {p} : conn'[q] = conn[q]
  BY <1>a, <1>t DEF ConnTypeOK
<1>c. NoRow \in Rows /\ NoRow.id = 0 /\ NoRow.status = "none"
  BY DEF Rows, NoRow
<1>1. ConnTypeOK'
  BY <1>a, <1>c, <1>t DEF ConnTypeOK
<1>2. RowsMinted'
  BY <1>a, <1>b, <1>t DEF RowsMinted
<1>3. AcceptsOther'
  BY <1>a, <1>b, <1>c, <1>t DEF AcceptsOther
<1>4. Bilateral'
  BY <1>a, <1>b, <1>c, <1>t DEF Bilateral
<1>. QED BY <1>a, <1>t, <1>1, <1>2, <1>3, <1>4 DEF ConnInv, Unminted, Standing

(* Every step on the table. *)
LEMMA ConnStep ==
  ASSUME ConnInv, ConnNext \/ UNCHANGED connVars
  PROVE  ConnInv' /\ Standing
<1>1. ASSUME NEW p \in Peer, NEW side \in Side, RequestConnection(p, side) \/ AcceptSelect(p, side)
      PROVE  ConnInv' /\ Standing
  BY <1>1, RequestStep, AcceptSelectStep
<1>2. ASSUME NEW x \in accepting, AcceptUpdate(x) PROVE ConnInv' /\ Standing
  BY <1>2, AcceptUpdateStep
<1>3. ASSUME NEW p \in Peer, DeleteConnection(p) PROVE ConnInv' /\ Standing
  BY <1>3, DeleteStep
<1>4. CASE UNCHANGED connVars
  BY <1>4 DEF connVars, ConnInv, ConnTypeOK, RowsMinted, AcceptsOther, Unminted, Bilateral, Standing
<1>. QED BY <1>1, <1>2, <1>3, <1>4 DEF ConnNext

LEMMA ConnStarts == ConnInit => ConnInv
<1> SUFFICES ASSUME ConnInit PROVE ConnInv
  OBVIOUS
<1>1. NoRow \in Rows /\ NoRow.status = "none"
  BY DEF Rows, NoRow
<1>2. ConnTypeOK
  BY <1>1, ConnAssumption DEF ConnInit, ConnTypeOK
<1>. QED BY <1>1, <1>2 DEF ConnInit, ConnInv, RowsMinted, AcceptsOther, Unminted, Bilateral

(* The connection a query finds is one both sides agreed to. *)
LEMMA ActiveIsAgreed ==
  ASSUME ConnInv, NEW p \in Peer
  PROVE  /\ ActiveId(p) \in 0..MaxConn
         /\ ActiveId(p) # 0 => ActiveId(p) \in ConnIds /\ consents[ActiveId(p)] = Side
<1>1. CASE conn[p].status = "active"
  <2>1. conn[p].id \in ConnIds /\ consents[conn[p].id] = Side
    BY <1>1, ConnFields DEF ConnInv, Bilateral
  <2>. QED BY <1>1, <2>1, ConnAssumption DEF ActiveId, ConnIds
<1>2. CASE conn[p].status # "active"
  BY <1>2, ConnAssumption DEF ActiveId
<1>. QED BY <1>1, <1>2
=============================================================================
