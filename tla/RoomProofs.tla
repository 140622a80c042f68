----------------------------- MODULE RoomProofs -----------------------------
(***************************************************************************)
(* Proofs about Room, for every set of agents, peers, posts and calls, any *)
(* number of faults and of lives of the room.                              *)
(***************************************************************************)
EXTENDS Room, ConnectionsProofs, FiniteSetTheorems, TLAPS

-----------------------------------------------------------------------------
(* The inductive invariant *)

Posting == {"post", "auth", "commit", "read", "slug", "fan"}

(* What a call carries by where it is; agreed is consents, top is issued.     *)
(* Whatever connection it read, both sides agreed to it, and a fan-out is     *)
(* left with addresses it can reach.                                          *)
CallOK(r, agreed, top) ==
  /\ r.pc \in {"insert", "configure"} => /\ r.who \in Local \union {Operator}
                                         /\ r.conf.policy # "none"
  /\ r.pc = "put" => r.who \in Addr
  /\ r.pc \in {"join", "auth"} => r.who \in Foreign
  /\ r.pc \in Posting => r.op = "post" /\ r.id \in Id
  /\ r.seq <= top
  /\ \A p \in Peer : r.live[p] # 0 => agreed[r.live[p]] = Side
  /\ r.pc \in {"slug", "fan"} => \A a \in r.todo : Reachable(a, r.live)

Calls == \A c \in Call : CallOK(call[c], consents, issued)

(* No frame of post m is still to be admitted, and no call of it runs.        *)
Closed(m) == send[m].out # "none" /\ \A c \in Call : call[c].id # m

(* A post leaves the ledger, or comes to be old, only when it is closed.      *)
Settled ==
  /\ \A m \in Id : send[m].by = None => send[m].out = "none"
  /\ \A c \in Call : call[c].id \in Id => send[call[c].id].by # None
  /\ \A i \in 1..Len(log) : index[log[i]] = 0 => Closed(log[i])
  /\ \A e \in ledger : e.seq \in old => Closed(e.id)
  /\ \A n \in old : n <= sequence

(* Numbers in use were given out.                                             *)
Numbered == sequence <= issued /\ \A q \in queue : q.seq <= issued

(* Members are counted.                                                       *)
Counted == IsFiniteSet(member) /\ MembersBounded

IInv == /\ TypeOK /\ ConnInv /\ Calls /\ LedgerIsLog /\ Settled /\ Numbered /\ Counted
        /\ ConsentedDelivery /\ FanOutAccounted /\ RowMeansRoom

-----------------------------------------------------------------------------
(* Calls *)

LEMMA CallFields ==
  ASSUME NEW r \in Callers
  PROVE  /\ r.id \in Id \union {None} /\ r.who \in Addr \union {Operator, None}
         /\ r.hub \in BOOLEAN /\ r.seq \in 0..MaxSeq /\ r.unread \subseteq Peer
         /\ r.live \in [Peer -> 0..MaxConn] /\ r.todo \subseteq Addr
         /\ r.conf \in [policy : {"none", "open", "invite"}, slug : BOOLEAN]
BY DEF Callers

(* A call that has not begun, or has ended. *)
LEMMA IdleOK ==
  ASSUME NEW agreed, NEW top \in Nat
  PROVE  Idle \in Callers /\ CallOK(Idle, agreed, top)
<1>1. NoLive \in [Peer -> 0..MaxConn] /\ \A p \in Peer : NoLive[p] = 0
  BY ConnAssumption DEF NoLive
<1>2. Idle \in Callers
  BY <1>1, RoomAssumption DEF Idle, Callers, NoConfig
<1>. QED BY <1>1, <1>2 DEF Idle, CallOK, Posting

(* What a call carries stays true as consents and numbers grow. *)
LEMMA CallLater ==
  ASSUME NEW r \in Callers, NEW agreed, NEW agreed2, NEW top \in Nat, NEW top2 \in Nat,
         CallOK(r, agreed, top), top <= top2,
         \A i \in ConnIds : agreed[i] = Side => agreed2[i] = Side
  PROVE  CallOK(r, agreed2, top2)
<1>1. \A p \in Peer : r.live[p] # 0 => r.live[p] \in ConnIds
  BY CallFields, ConnAssumption DEF ConnIds
<1>2. r.seq \in Nat
  BY CallFields, RoomAssumption
<1>. QED BY <1>1, <1>2 DEF CallOK

(* A call that moves on to an await where nothing is asked of it. *)
LEMMA GotoOK ==
  ASSUME NEW r \in Callers, NEW agreed, NEW top \in Nat, CallOK(r, agreed, top),
         NEW pc \in {"configure", "put", "auth", "commit", "fan"},
         pc = "configure" => r.pc = "insert",
         pc = "put" => r.pc \in {"join", "configure"} /\ r.who # Operator,
         pc \in {"auth", "commit", "fan"} => r.pc \in Posting,
         pc = "auth" => r.who \in Foreign,
         pc = "fan" => r.pc = "slug"
  PROVE  [r EXCEPT !.pc = pc] \in Callers /\ CallOK([r EXCEPT !.pc = pc], agreed, top)
<1> DEFINE s == [r EXCEPT !.pc = pc]
<1>1. s \in Callers
  BY DEF Callers
<1>2. /\ s.pc = pc /\ s.who = r.who /\ s.conf = r.conf /\ s.op = r.op /\ s.id = r.id
      /\ s.seq = r.seq /\ s.live = r.live /\ s.todo = r.todo
  BY DEF Callers
<1> HIDE DEF s
<1>3. pc = "put" => r.who \in Addr
  BY DEF CallOK, Addr
<1>4. CallOK(s, agreed, top)
  BY <1>2, <1>3 DEF CallOK, Posting
<1>. QED BY <1>1, <1>4 DEF s

(* Where a fan-out goes when its queries are done. *)
LEMMA AfterReadsOK ==
  ASSUME NEW r \in Callers, NEW agreed, NEW top \in Nat, CallOK(r, agreed, top), r.pc \in Posting
  PROVE  LET s == AfterReads(r)
         IN /\ s \in Callers /\ CallOK(s, agreed, top)
            /\ s.id = r.id /\ s.op = r.op /\ s.hub = r.hub /\ s.pc \in {"slug", "fan"}
            /\ s.todo = {a \in r.todo : Reachable(a, r.live)}
<1> DEFINE pc == IF Orgs(r.todo) # {} /\ ~r.conf.slug THEN "slug" ELSE "fan"
           T == {a \in r.todo : Reachable(a, r.live)}
           s == [r EXCEPT !.pc = pc, !.todo = T]
<1>1. AfterReads(r) = s
  BY DEF AfterReads, Callers
<1>2. pc \in {"slug", "fan"}
  OBVIOUS
<1>3. T \subseteq Addr /\ \A a \in T : Reachable(a, r.live)
  BY CallFields
<1> HIDE DEF pc, T
<1>4. s \in Callers
  BY <1>2, <1>3 DEF Callers
<1>5. /\ s.pc = pc /\ s.who = r.who /\ s.conf = r.conf /\ s.op = r.op /\ s.id = r.id
      /\ s.seq = r.seq /\ s.live = r.live /\ s.todo = T /\ s.hub = r.hub
  BY DEF Callers
<1> HIDE DEF s
<1>6. CallOK(s, agreed, top)
  BY <1>2, <1>3, <1>5 DEF CallOK, Posting
<1>. QED BY <1>1, <1>2, <1>4, <1>5, <1>6 DEF T

(* A fan-out begins with every target. *)
LEMMA FanOutOK ==
  ASSUME NEW r \in Callers, NEW agreed, NEW top \in Nat, CallOK(r, agreed, top), r.pc \in Posting,
         NEW T \in SUBSET Addr
  PROVE  LET s == FanOut(r, T)
         IN /\ s \in Callers /\ CallOK(s, agreed, top)
            /\ s.id = r.id /\ s.op = r.op /\ s.hub = r.hub
            /\ s.pc \in {"read", "slug", "fan"} /\ s.todo = T
<1> DEFINE u == [r EXCEPT !.todo = T, !.unread = Orgs(T)]
           v == [u EXCEPT !.pc = "read"]
<1>1. Orgs(T) \subseteq Peer
  BY RoomAssumption DEF Orgs
<1>2. u \in Callers
  BY <1>1 DEF Callers
<1>3. /\ u.pc = r.pc /\ u.who = r.who /\ u.conf = r.conf /\ u.op = r.op /\ u.id = r.id
      /\ u.seq = r.seq /\ u.live = r.live /\ u.todo = T /\ u.hub = r.hub /\ u.unread = Orgs(T)
  BY DEF Callers
<1>4. FanOut(r, T) = IF u.unread = {} THEN AfterReads(u) ELSE v
  BY DEF FanOut
<1> HIDE DEF u
<1>5. CASE u.unread = {}
  <2>1. T \intersect Foreign = {}
    BY <1>3, <1>5 DEF Orgs
  <2>2. \A a \in T : Reachable(a, u.live)
    BY <2>1 DEF Reachable, Addr
  <2>3. r.pc \notin {"slug", "fan"} \/ \A a \in T : Reachable(a, r.live)
    BY <2>2, <1>3
  <2>4. CallOK(u, agreed, top)
    BY <1>3, <2>3 DEF CallOK, Posting
  <2>5. {a \in u.todo : Reachable(a, u.live)} = T
    BY <2>2, <1>3
  <2>. QED BY <1>2, <1>3, <1>4, <1>5, <2>4, <2>5, AfterReadsOK
<1>6. CASE u.unread # {}
  <2>1. v \in Callers
    BY <1>2 DEF Callers
  <2>2. /\ v.pc = "read" /\ v.who = u.who /\ v.conf = u.conf /\ v.op = u.op /\ v.id = u.id
        /\ v.seq = u.seq /\ v.live = u.live /\ v.todo = u.todo /\ v.hub = u.hub
    BY <1>2 DEF Callers
  <2> HIDE DEF v
  <2>3. CallOK(v, agreed, top)
    BY <1>3, <2>2 DEF CallOK, Posting
  <2>. QED BY <1>3, <1>4, <1>6, <2>1, <2>2, <2>3
<1>. QED BY <1>5, <1>6

-----------------------------------------------------------------------------
(* Which actions write what *)

(* The table of connections. *)
ConnMoves ==
  \/ UNCHANGED connVars
  \/ ConnNext /\ Others

(* The invocations in progress. *)
CallMoves ==
  \/ UNCHANGED call
  \/ Evict
  \/ LoseWorker
  \/ \E c \in Call, policy \in {"open", "invite"} : CreateByAgent(c, policy)
  \/ \E c \in Call, policy \in {"open", "invite"} : CreateByOperator(c, policy)
  \/ \E c \in Call : InsertRow(c)
  \/ \E c \in Call : Configure(c)
  \/ \E c \in Call : DeleteRoom(c)
  \/ \E c \in Call : Destroy(c)
  \/ \E c \in Call, a \in Foreign, source \in {"agent", "operator"} : JoinForeign(c, a, source)
  \/ \E c \in Call : JoinRead(c)
  \/ \E c \in Call : JoinPut(c)
  \/ \E c \in Call, m \in Id : OperatorPost(c, m)
  \/ \E c \in Call, m \in Id, a \in Addr : AdmitSend(c, m, a)
  \/ \E c \in Call : PostStart(c)
  \/ \E c \in Call : PostAuth(c)
  \/ \E c \in Call : PostCommit(c)
  \/ \E c \in Call, p \in Peer : ReadConnection(c, p)
  \/ \E c \in Call : CacheSlug(c)
  \/ \E c \in Call, a \in Addr : Deliver(c, a)
  \/ \E c \in Call : Finish(c)
  \/ \E c \in Call : QueryFails(c)
  \/ \E c \in Call : LoseHub(c)

(* The ledger is written by the transaction of post, by destroy, by pruneLedger *)
(* and by time.                                                                  *)
LedgerMoves ==
  \/ UNCHANGED <<sequence, ledger, index, old, log, issued>>
  \/ \E c \in Call : PostStart(c)
  \/ \E c \in Call : PostCommit(c)
  \/ \E c \in Call : Destroy(c)
  \/ \E c \in Call : Finish(c)
  \/ \E e \in ledger : Age(e)

(* Who is a member, and the members' cursors. *)
MemberMoves ==
  \/ UNCHANGED <<member, cursor>>
  \/ \E c \in Call : Destroy(c)
  \/ \E c \in Call : JoinPut(c)
  \/ \E a \in Addr : LeaveRoom(a)
  \/ \E a \in Addr : RemoveMember(a)
  \/ \E a \in Addr, source \in {"agent", "operator"} : JoinLocal(a, source)
  \/ \E q \in queue : Injected(q)

(* Entries in the HostHubs of members. *)
QueueMoves ==
  \/ UNCHANGED queue
  \/ \E c \in Call, a \in Addr : Deliver(c, a)
  \/ \E q \in queue : Injected(q)
  \/ \E q \in queue : LoseEntry(q)

(* Whom committed posts still have to reach. *)
DueMoves ==
  \/ UNCHANGED due
  \/ \E c \in Call : PostStart(c)
  \/ \E c \in Call : PostCommit(c)
  \/ \E c \in Call, p \in Peer : ReadConnection(c, p)
  \/ \E c \in Call, a \in Addr : Deliver(c, a)
  \/ \E c \in Call : QueryFails(c)
  \/ Evict

(* What HostHub knows of a post. *)
SendMoves ==
  \/ UNCHANGED send
  \/ \E c \in Call, m \in Id : OperatorPost(c, m)
  \/ \E c \in Call, m \in Id, a \in Addr : AdmitSend(c, m, a)
  \/ \E c \in Call : PostStart(c)
  \/ \E c \in Call : PostAuth(c)
  \/ \E c \in Call : PostCommit(c)
  \/ \E c \in Call : Finish(c)
  \/ \E c \in Call : QueryFails(c)
  \/ Evict

(* The row, its deletion and the config. *)
RowMoves ==
  \/ UNCHANGED <<row, dropping, config, lives>>
  \/ DropRow
  \/ LoseWorker
  \/ \E c \in Call : InsertRow(c)
  \/ \E c \in Call : Configure(c)
  \/ \E c \in Call : Destroy(c)
  \/ \E c \in Call : CacheSlug(c)

(* Faults are counted. *)
FaultMoves ==
  \/ UNCHANGED faults
  \/ LoseWorker
  \/ Evict
  \/ \E c \in Call : QueryFails(c)
  \/ \E c \in Call : LoseHub(c)

Moves == /\ ConnMoves /\ CallMoves /\ LedgerMoves /\ MemberMoves
         /\ QueueMoves /\ DueMoves /\ SendMoves /\ RowMoves /\ FaultMoves

(* Every action, looked at once for all that follows. *)
LEMMA Frame == [Next]_vars => Moves
<1> SUFFICES ASSUME [Next]_vars PROVE Moves
  OBVIOUS
<1> USE DEF Moves, ConnMoves, CallMoves, LedgerMoves, MemberMoves, QueueMoves, DueMoves, SendMoves, RowMoves, FaultMoves, store, hist, Fault
<1>1. ASSUME ConnNext /\ Others
      PROVE  Moves
  BY <1>1 DEF Others
<1>2. ASSUME DropRow
      PROVE  Moves
  BY <1>2 DEF DropRow
<1>3. ASSUME Evict
      PROVE  Moves
  BY <1>3 DEF Evict
<1>4. ASSUME LoseWorker
      PROVE  Moves
  BY <1>4 DEF LoseWorker
<1>5. ASSUME NEW c \in Call, NEW policy \in {"open", "invite"}, CreateByAgent(c, policy)
      PROVE  Moves
  BY <1>5 DEF CreateByAgent, CreateRoom
<1>6. ASSUME NEW c \in Call, NEW policy \in {"open", "invite"}, CreateByOperator(c, policy)
      PROVE  Moves
  BY <1>6 DEF CreateByOperator, CreateRoom
<1>7. ASSUME NEW c \in Call, InsertRow(c)
      PROVE  Moves
  BY <1>7 DEF InsertRow
<1>8. ASSUME NEW c \in Call, Configure(c)
      PROVE  Moves
  BY <1>8 DEF Configure
<1>9. ASSUME NEW c \in Call, DeleteRoom(c)
      PROVE  Moves
  BY <1>9 DEF DeleteRoom
<1>10. ASSUME NEW c \in Call, Destroy(c)
      PROVE  Moves
  BY <1>10 DEF Destroy
<1>11. ASSUME NEW c \in Call, NEW a \in Foreign, NEW source \in {"agent", "operator"}, JoinForeign(c, a, source)
      PROVE  Moves
  BY <1>11 DEF JoinForeign
<1>12. ASSUME NEW c \in Call, JoinRead(c)
      PROVE  Moves
  BY <1>12 DEF JoinRead
<1>13. ASSUME NEW c \in Call, JoinPut(c)
      PROVE  Moves
  BY <1>13 DEF JoinPut
<1>14. ASSUME NEW c \in Call, NEW m \in Id, OperatorPost(c, m)
      PROVE  Moves
  BY <1>14 DEF OperatorPost
<1>15. ASSUME NEW c \in Call, NEW m \in Id, NEW a \in Addr, AdmitSend(c, m, a)
      PROVE  Moves
  BY <1>15 DEF AdmitSend
<1>16. ASSUME NEW c \in Call, PostStart(c)
      PROVE  Moves
  BY <1>16 DEF PostStart
<1>17. ASSUME NEW c \in Call, PostAuth(c)
      PROVE  Moves
  BY <1>17 DEF PostAuth
<1>18. ASSUME NEW c \in Call, PostCommit(c)
      PROVE  Moves
  BY <1>18 DEF PostCommit
<1>19. ASSUME NEW c \in Call, NEW p \in Peer, ReadConnection(c, p)
      PROVE  Moves
  BY <1>19 DEF ReadConnection
<1>20. ASSUME NEW c \in Call, CacheSlug(c)
      PROVE  Moves
  BY <1>20 DEF CacheSlug
<1>21. ASSUME NEW c \in Call, NEW a \in Addr, Deliver(c, a)
      PROVE  Moves
  BY <1>21 DEF Deliver
<1>22. ASSUME NEW c \in Call, Finish(c)
      PROVE  Moves
  BY <1>22 DEF Finish
<1>23. ASSUME NEW c \in Call, QueryFails(c)
      PROVE  Moves
  BY <1>23 DEF QueryFails
<1>24. ASSUME NEW c \in Call, LoseHub(c)
      PROVE  Moves
  BY <1>24 DEF LoseHub
<1>25. ASSUME NEW a \in Addr, LeaveRoom(a)
      PROVE  Moves
  BY <1>25 DEF LeaveRoom, Leave
<1>26. ASSUME NEW a \in Addr, RemoveMember(a)
      PROVE  Moves
  BY <1>26 DEF RemoveMember, Leave
<1>27. ASSUME NEW a \in Addr, NEW source \in {"agent", "operator"}, JoinLocal(a, source)
      PROVE  Moves
  BY <1>27 DEF JoinLocal
<1>28. ASSUME NEW q \in queue, Injected(q)
      PROVE  Moves
  BY <1>28 DEF Injected, Acknowledge
<1>29. ASSUME NEW q \in queue, LoseEntry(q)
      PROVE  Moves
  BY <1>29 DEF LoseEntry
<1>30. ASSUME NEW e \in ledger, Age(e)
      PROVE  Moves
  BY <1>30 DEF Age
<1>31. CASE UNCHANGED vars
  BY <1>31 DEF vars, Moves, ConnMoves, CallMoves, LedgerMoves, MemberMoves, QueueMoves, DueMoves, SendMoves, RowMoves, FaultMoves
<1>. QED BY <1>1, <1>2, <1>3, <1>4, <1>5, <1>6, <1>7, <1>8, <1>9, <1>10, <1>11, <1>12,
     <1>13, <1>14, <1>15, <1>16, <1>17, <1>18, <1>19, <1>20, <1>21, <1>22, <1>23, <1>24,
     <1>25, <1>26, <1>27, <1>28, <1>29, <1>30, <1>31 DEF Next

-----------------------------------------------------------------------------
(* The ledger *)

LedgerTypes ==
  /\ sequence \in 0..MaxSeq /\ issued \in 0..MaxSeq
  /\ ledger \subseteq [seq : Seqs, id : Id] /\ index \in [Id -> 0..MaxSeq]
  /\ old \subseteq Seqs /\ log \in Seq(Id)

(* What RoomLog sees of the ledger: nothing, one more message, or the end. *)
LogMove ==
  \/ UNCHANGED <<log, issued>>
  \/ /\ UNCHANGED cursor
     /\ \E m \in Id : /\ \A i \in 1..Len(log) : log[i] # m
                      /\ log' = Append(log, m)
                      /\ issued' = IF Len(log') > issued THEN Len(log') ELSE issued
  \/ log' = << >> /\ cursor' = [a \in Addr |-> 0] /\ UNCHANGED issued

LedgerKept == /\ LedgerTypes' /\ LedgerIsLog' /\ (sequence <= issued)' /\ issued <= issued'
              /\ LogMove

(* The transaction of post, for the record r of the call it is in. *)
LEMMA CommitLedger ==
  ASSUME IInv, NEW c \in Call, NEW r, r.id = call[c].id, r.id \in Id, Commit(c, r),
         old' = old, cursor' = cursor
  PROVE  LedgerKept
<1>t. LedgerTypes /\ LedgerIsLog /\ Settled /\ sequence <= issued
  BY DEF IInv, TypeOK, LedgerTypes, Numbered
<1>1. CASE index[r.id] # 0
  BY <1>1, <1>t DEF Commit, LedgerKept, LedgerTypes, LedgerIsLog, LogMove
<1>2. CASE index[r.id] = 0
  <2> DEFINE e == [seq |-> sequence + 1, id |-> r.id]
  <2>1. /\ sequence < MaxSeq /\ sequence' = sequence + 1
        /\ ledger' = ledger \union {e}
        /\ index' = [index EXCEPT ![r.id] = sequence + 1]
        /\ log' = Append(log, r.id)
        /\ issued' = IF sequence + 1 > issued THEN sequence + 1 ELSE issued
    BY <1>2 DEF Commit, NewPost
  <2>2. /\ sequence \in Nat /\ issued \in Nat /\ sequence' \in Seqs
        /\ sequence' \in 0..MaxSeq /\ issued' \in 0..MaxSeq
        /\ sequence' <= issued' /\ issued <= issued'
    BY <1>t, <2>1, RoomAssumption DEF LedgerTypes, Seqs
  <2>3. e \in [seq : Seqs, id : Id] /\ e.seq = sequence + 1 /\ e.id = r.id
    BY <2>1, <2>2
  <2> HIDE DEF e
  <2>4. /\ log' \in Seq(Id) /\ Len(log') = Len(log) + 1 /\ log'[Len(log) + 1] = r.id
        /\ \A i \in 1..Len(log) : log'[i] = log[i]
        /\ Len(log) = sequence
    BY <1>t, <2>1 DEF LedgerTypes, LedgerIsLog
  <2>5. LedgerTypes'
    BY <1>t, <2>1, <2>2, <2>3, <2>4 DEF LedgerTypes
  <2>6. /\ index'[r.id] = sequence + 1 /\ index' \in [Id -> 0..MaxSeq]
        /\ \A m \in Id \ {r.id} : index'[m] = index[m]
    BY <1>t, <2>1, <2>5 DEF LedgerTypes
  <2>7. \A f \in ledger : /\ f.seq \in 1..Len(log) /\ f.id \in Id \ {r.id}
                          /\ log[f.seq] = f.id /\ index[f.id] = f.seq
    BY <1>2, <1>t, <2>4 DEF LedgerTypes, LedgerIsLog, Seqs
  <2>8. LedgerIsLog'
    <3>1. \A f \in ledger' : f.seq <= Len(log') /\ log'[f.seq] = f.id /\ index'[f.id] = f.seq
      BY <2>1, <2>2, <2>3, <2>4, <2>6, <2>7
    <3>2. \A m \in Id : index'[m] # 0 => [seq |-> index'[m], id |-> m] \in ledger'
      <4>1. \A m \in Id \ {r.id} : index'[m] # 0 => [seq |-> index'[m], id |-> m] \in ledger'
        BY <1>t, <2>1, <2>6 DEF LedgerIsLog
      <4>2. [seq |-> index'[r.id], id |-> r.id] \in ledger'
        BY <2>1, <2>6 DEF e
      <4>. QED BY <4>1, <4>2
    <3>. QED BY <2>1, <2>2, <2>4, <3>1, <3>2 DEF LedgerIsLog
  <2>9. LogMove
    <3>1. ASSUME NEW i \in 1..Len(log) PROVE log[i] # r.id
      BY <1>2, <1>t DEF Settled, Closed
    <3>. QED BY <2>1, <2>4, <3>1 DEF LogMove
  <2>. QED BY <2>2, <2>5, <2>8, <2>9 DEF LedgerKept
<1>. QED BY <1>1, <1>2

(* Every step keeps the ledger the log, and moves the log as RoomLog says. *)
LEMMA LedgerStep == IInv /\ [Next]_vars => LedgerKept
<1> SUFFICES ASSUME IInv, [Next]_vars PROVE LedgerKept
  OBVIOUS
<1>t. LedgerTypes /\ LedgerIsLog /\ sequence <= issued /\ Calls
  BY DEF IInv, TypeOK, LedgerTypes, Numbered
<1>0. LedgerMoves
  BY Frame DEF Moves
<1>1. CASE UNCHANGED <<sequence, ledger, index, old, log, issued>>
  BY <1>1, <1>t, RoomAssumption DEF LedgerKept, LedgerTypes, LedgerIsLog, LogMove
<1>2. ASSUME NEW c \in Call, PostStart(c) PROVE LedgerKept
  <2> DEFINE r == [call[c] EXCEPT !.conf = config]
  <2>1. call[c] \in Callers /\ call[c].pc = "post"
    BY <1>2 DEF IInv, TypeOK, PostStart, In
  <2>2. r.id = call[c].id /\ r.id \in Id
    BY <1>t, <2>1 DEF Calls, CallOK, Posting, Callers
  <2>3. old' = old /\ cursor' = cursor
    BY <1>2 DEF PostStart
  <2> HIDE DEF r
  <2>4. Commit(c, r) \/ UNCHANGED <<sequence, ledger, index, old, log, issued>>
    BY <1>2 DEF PostStart, r
  <2>. QED BY <1>1, <2>2, <2>3, <2>4, CommitLedger
<1>3. ASSUME NEW c \in Call, PostCommit(c) PROVE LedgerKept
  <2>1. call[c].id \in Id
    BY <1>3, <1>t DEF PostCommit, In, Calls, CallOK, Posting
  <2>. QED BY <1>3, <2>1, CommitLedger DEF PostCommit
<1>4. ASSUME NEW c \in Call, Destroy(c) PROVE LedgerKept
  <2>1. CASE config = NoConfig
    BY <1>1, <1>4, <2>1 DEF Destroy, store
  <2>2. CASE config # NoConfig
    BY <1>4, <1>t, <2>2, RoomAssumption
       DEF Destroy, Wiped, LedgerKept, LedgerTypes, LedgerIsLog, LogMove
  <2>. QED BY <2>1, <2>2
<1>5. ASSUME NEW c \in Call, Finish(c) PROVE LedgerKept
  <2>1. /\ ledger' = {e \in ledger : e.seq \notin old} /\ old' = {}
        /\ index' = [m \in Id |-> IF index[m] \in old THEN 0 ELSE index[m]]
        /\ sequence' = sequence /\ log' = log /\ issued' = issued
    BY <1>5 DEF Finish
  <2>2. LedgerTypes'
    BY <1>t, <2>1, RoomAssumption DEF LedgerTypes
  <2>3. LedgerIsLog'
    BY <1>t, <2>1 DEF LedgerTypes, LedgerIsLog, Seqs
  <2>. QED BY <1>t, <2>1, <2>2, <2>3 DEF LedgerKept, LogMove, LedgerTypes
<1>6. ASSUME NEW e \in ledger, Age(e) PROVE LedgerKept
  BY <1>6, <1>t DEF Age, LedgerKept, LedgerTypes, LedgerIsLog, LogMove
<1>. QED BY <1>0, <1>1, <1>2, <1>3, <1>4, <1>5, <1>6 DEF LedgerMoves

-----------------------------------------------------------------------------
(* Connections and calls *)

LEMMA ConnsStep == IInv /\ [Next]_vars => ConnInv' /\ Standing
<1> SUFFICES ASSUME IInv, [Next]_vars PROVE ConnInv' /\ Standing
  OBVIOUS
<1>1. ConnMoves
  BY Frame DEF Moves
<1>2. ConnNext \/ UNCHANGED connVars
  BY <1>1 DEF ConnMoves
<1>. QED BY <1>2, ConnStep DEF IInv

CallsKept == call' \in [Call -> Callers] /\ Calls'

(* The calls handlers begin. *)
LEMMA BeginOK ==
  ASSUME NEW top \in Nat, NEW agreed, NEW who \in Addr \union {Operator}
  PROVE  /\ \A policy \in {"open", "invite"} :
              LET s == [Idle EXCEPT !.pc = "insert", !.op = "create", !.who = who, !.conf.policy = policy]
              IN who \in Local \union {Operator} => s \in Callers /\ CallOK(s, agreed, top)
         /\ LET s == [Idle EXCEPT !.pc = "destroy", !.op = "delete"]
            IN s \in Callers /\ CallOK(s, agreed, top)
         /\ \A m \in Id : LET s == [Idle EXCEPT !.pc = "post", !.op = "post", !.id = m, !.who = who]
                          IN s \in Callers /\ CallOK(s, agreed, top)
         /\ \A m \in Id : LET s == [Idle EXCEPT !.pc = "post", !.op = "post", !.id = m, !.who = who,
                                                !.hub = TRUE]
                          IN s \in Callers /\ CallOK(s, agreed, top)
         /\ \A p \in Peer, i \in 0..MaxConn :
              LET s == [Idle EXCEPT !.pc = "join", !.op = "join", !.who = who, !.live[p] = i]
              IN who \in Foreign /\ (i # 0 => agreed[i] = Side) => s \in Callers /\ CallOK(s, agreed, top)
<1>0. NoLive \in [Peer -> 0..MaxConn] /\ \A p \in Peer : NoLive[p] = 0
  BY ConnAssumption DEF NoLive
<1>f. Idle \in Callers
  BY IdleOK
<1>g. /\ Idle.conf = NoConfig /\ Idle.seq = 0 /\ Idle.live = NoLive /\ Idle.todo = {}
      /\ 0 <= top
  BY DEF Idle
<1>1. ASSUME NEW policy \in {"open", "invite"}, who \in Local \union {Operator}
      PROVE  LET s == [Idle EXCEPT !.pc = "insert", !.op = "create", !.who = who, !.conf.policy = policy]
             IN s \in Callers /\ CallOK(s, agreed, top)
  <2> DEFINE k == [NoConfig EXCEPT !.policy = policy]
             s == [Idle EXCEPT !.pc = "insert", !.op = "create", !.who = who, !.conf = k]
  <2>1. k.policy = policy /\ k \in [policy : {"none", "open", "invite"}, slug : BOOLEAN]
    BY DEF NoConfig
  <2> HIDE DEF k
  <2>2. s \in Callers
    BY <1>f, <2>1 DEF Callers
  <2>3. s.pc = "insert" /\ s.who = who /\ s.conf = k /\ s.seq = 0 /\ s.live = NoLive
    BY <1>g DEF Idle
  <2>5. s = [Idle EXCEPT !.pc = "insert", !.op = "create", !.who = who, !.conf.policy = policy]
    BY DEF Idle, k, NoConfig
  <2> HIDE DEF s
  <2>4. CallOK(s, agreed, top)
    BY <1>0, <1>1, <1>g, <2>1, <2>3 DEF CallOK, Posting
  <2>. QED BY <2>2, <2>4, <2>5
<1>2. LET s == [Idle EXCEPT !.pc = "destroy", !.op = "delete"]
      IN s \in Callers /\ CallOK(s, agreed, top)
  <2> DEFINE s == [Idle EXCEPT !.pc = "destroy", !.op = "delete"]
  <2>1. s \in Callers
    BY <1>f DEF Callers
  <2>2. s.pc = "destroy" /\ s.seq = 0 /\ s.live = NoLive
    BY <1>g DEF Idle
  <2> HIDE DEF s
  <2>3. CallOK(s, agreed, top)
    BY <1>0, <1>g, <2>2 DEF CallOK, Posting
  <2>. QED BY <2>1, <2>3 DEF s
<1>3. ASSUME NEW m \in Id, NEW hub \in BOOLEAN
      PROVE  LET s == [Idle EXCEPT !.pc = "post", !.op = "post", !.id = m, !.who = who, !.hub = hub]
             IN s \in Callers /\ CallOK(s, agreed, top)
  <2> DEFINE s == [Idle EXCEPT !.pc = "post", !.op = "post", !.id = m, !.who = who, !.hub = hub]
  <2>1. s \in Callers
    BY <1>f DEF Callers
  <2>2. s.pc = "post" /\ s.op = "post" /\ s.id = m /\ s.seq = 0 /\ s.live = NoLive
    BY <1>g DEF Idle
  <2> HIDE DEF s
  <2>3. CallOK(s, agreed, top)
    BY <1>0, <1>g, <2>2 DEF CallOK, Posting
  <2>. QED BY <2>1, <2>3 DEF s
<1>4. ASSUME NEW p \in Peer, NEW i \in 0..MaxConn, who \in Foreign, i # 0 => agreed[i] = Side
      PROVE  LET s == [Idle EXCEPT !.pc = "join", !.op = "join", !.who = who, !.live[p] = i]
             IN s \in Callers /\ CallOK(s, agreed, top)
  <2> DEFINE live == [NoLive EXCEPT ![p] = i]
             s == [Idle EXCEPT !.pc = "join", !.op = "join", !.who = who, !.live = live]
  <2>1. live \in [Peer -> 0..MaxConn] /\ \A u \in Peer : live[u] # 0 => agreed[live[u]] = Side
    BY <1>0, <1>4
  <2>5. s = [Idle EXCEPT !.pc = "join", !.op = "join", !.who = who, !.live[p] = i]
    BY DEF Idle
  <2> HIDE DEF live
  <2>2. s \in Callers
    BY <1>f, <2>1 DEF Callers
  <2>3. s.pc = "join" /\ s.who = who /\ s.seq = 0 /\ s.live = live
    BY <1>g DEF Idle
  <2> HIDE DEF s
  <2>4. CallOK(s, agreed, top)
    BY <1>4, <1>g, <2>1, <2>3 DEF CallOK, Posting
  <2>. QED BY <2>2, <2>4, <2>5
<1>5. ASSUME NEW m \in Id
      PROVE  LET s == [Idle EXCEPT !.pc = "post", !.op = "post", !.id = m, !.who = who]
             IN s \in Callers /\ CallOK(s, agreed, top)
  <2> DEFINE s == [Idle EXCEPT !.pc = "post", !.op = "post", !.id = m, !.who = who]
  <2>1. s \in Callers
    BY <1>f DEF Callers
  <2>2. s.pc = "post" /\ s.op = "post" /\ s.id = m /\ s.seq = 0 /\ s.live = NoLive
    BY <1>g DEF Idle
  <2> HIDE DEF s
  <2>3. CallOK(s, agreed, top)
    BY <1>0, <1>g, <2>2 DEF CallOK, Posting
  <2>. QED BY <2>1, <2>3 DEF s
<1>. QED BY <1>1, <1>2, <1>3, <1>4, <1>5

(* Consents stand and numbers grow. *)
LEMMA Growing ==
  ASSUME IInv, [Next]_vars
  PROVE  Standing /\ issued <= issued' /\ issued \in Nat /\ issued' \in Nat
<1>1. Standing
  BY ConnsStep
<1>2. issued' \in 0..MaxSeq /\ issued <= issued'
  BY LedgerStep DEF LedgerKept, LedgerTypes
<1>3. issued \in 0..MaxSeq
  BY DEF IInv, TypeOK
<1>. QED BY <1>1, <1>2, <1>3, RoomAssumption

(* One call changes, to a record that is in order; the others stay in order. *)
LEMMA OneCall ==
  ASSUME IInv, [Next]_vars, NEW c \in Call, NEW X \in Callers, CallOK(X, consents', issued'),
         call' = [call EXCEPT ![c] = X]
  PROVE  CallsKept
<1>1. /\ call \in [Call -> Callers] /\ Calls /\ Standing /\ issued <= issued'
      /\ issued \in Nat /\ issued' \in Nat
  BY Growing DEF IInv, TypeOK
<1>2. ASSUME NEW d \in Call \ {c} PROVE CallOK(call'[d], consents', issued')
  <2>1. call'[d] = call[d] /\ call[d] \in Callers /\ CallOK(call[d], consents, issued)
    BY <1>1 DEF Calls
  <2>. QED BY <1>1, <2>1, CallLater DEF Standing
<1>3. call'[c] = X
  BY <1>1
<1>. QED BY <1>1, <1>2, <1>3 DEF CallsKept, Calls

(* As OneCall, for a record in order as things stood before the step. *)
LEMMA OneCallBefore ==
  ASSUME IInv, [Next]_vars, NEW c \in Call, NEW X \in Callers, CallOK(X, consents, issued),
         call' = [call EXCEPT ![c] = X]
  PROVE  CallsKept
<1>1. Standing /\ issued <= issued' /\ issued \in Nat /\ issued' \in Nat
  BY Growing
<1>2. CallOK(X, consents', issued')
  BY <1>1, CallLater DEF Standing
<1>. QED BY <1>2, OneCall

LEMMA EndKeeps ==
  ASSUME IInv, [Next]_vars, NEW c \in Call, End(c)
  PROVE  CallsKept
<1>1. Idle \in Callers /\ CallOK(Idle, consents, issued)
  BY IdleOK, RoomAssumption DEF IInv, TypeOK
<1>. QED BY <1>1, OneCallBefore DEF End

(* The fan-out of a new post: its number is out, its targets are members. *)
LEMMA CommitCalls ==
  ASSUME IInv, [Next]_vars, NEW c \in Call, NEW r \in Callers, CallOK(r, consents, issued),
         r.pc \in Posting \ {"slug", "fan"}, Commit(c, r), UNCHANGED connVars
  PROVE  CallsKept
<1>1. CASE index[r.id] # 0
  BY <1>1, EndKeeps DEF Commit
<1>2. CASE index[r.id] = 0
  <2> DEFINE s == [r EXCEPT !.seq = sequence']
             T == member \ {r.who}
  <2>1. call' = [call EXCEPT ![c] = FanOut(s, T)] /\ T \in SUBSET Addr
    BY <1>2 DEF Commit, NewPost, IInv, TypeOK
  <2>2. /\ sequence' \in 0..MaxSeq /\ sequence' <= issued' /\ issued <= issued'
        /\ issued \in Nat /\ issued' \in Nat
    BY LedgerStep, RoomAssumption DEF LedgerKept, LedgerTypes, IInv, TypeOK
  <2>3. s \in Callers
    BY <2>2 DEF Callers
  <2>4. /\ s.pc = r.pc /\ s.who = r.who /\ s.conf = r.conf /\ s.op = r.op /\ s.id = r.id
        /\ s.seq = sequence' /\ s.live = r.live /\ s.todo = r.todo
    BY DEF Callers
  <2> HIDE DEF s, T
  <2>5. CallOK(s, consents', issued')
    BY <2>2, <2>4 DEF CallOK, Posting, connVars
  <2>6. FanOut(s, T) \in Callers /\ CallOK(FanOut(s, T), consents', issued')
    BY <2>1, <2>2, <2>3, <2>4, <2>5, FanOutOK
  <2>. QED BY <2>1, <2>6, OneCall
<1>. QED BY <1>1, <1>2

(* The record post goes on with: the call as it is, with the config of the moment. *)
LEMMA StartRecord ==
  ASSUME IInv, NEW c \in Call, PostStart(c)
  PROVE  LET r == [call[c] EXCEPT !.conf = config]
         IN /\ r \in Callers /\ CallOK(r, consents, issued) /\ r.pc = "post"
            /\ r.id = call[c].id /\ r.who = call[c].who /\ r.op = "post"
<1> DEFINE r == [call[c] EXCEPT !.conf = config]
<1>1. /\ call[c].pc = "post" /\ config \in [policy : {"none", "open", "invite"}, slug : BOOLEAN]
      /\ call[c] \in Callers /\ CallOK(call[c], consents, issued)
  BY DEF PostStart, In, IInv, TypeOK, Calls
<1>2. /\ r \in Callers /\ r.pc = "post" /\ r.who = call[c].who /\ r.id = call[c].id
      /\ r.op = call[c].op /\ r.seq = call[c].seq /\ r.live = call[c].live /\ r.todo = call[c].todo
  BY <1>1 DEF Callers
<1> HIDE DEF r
<1>3. CallOK(r, consents, issued) /\ r.op = "post"
  BY <1>1, <1>2 DEF CallOK, Posting
<1>. QED BY <1>2, <1>3 DEF r

(* Every step leaves every call in order. *)
LEMMA CallsStep == IInv /\ [Next]_vars => CallsKept
<1> SUFFICES ASSUME IInv, [Next]_vars PROVE CallsKept
  OBVIOUS
<1>t. /\ call \in [Call -> Callers] /\ issued \in Nat
      /\ \A c \in Call : call[c] \in Callers /\ CallOK(call[c], consents, issued)
  BY RoomAssumption DEF IInv, TypeOK, Calls
<1>m. CallMoves
  BY Frame DEF Moves
<1>i. Idle \in Callers /\ CallOK(Idle, consents, issued)
  BY <1>t, IdleOK
<1>p. \A p \in Peer : /\ ActiveId(p) \in 0..MaxConn
                      /\ ActiveId(p) # 0 => consents[ActiveId(p)] = Side
  BY ActiveIsAgreed DEF IInv
<1>o. PeerOf \in [Foreign -> Peer] /\ Operator \notin Addr
  BY RoomAssumption
<1>1. CASE UNCHANGED call
  <2>1. Standing /\ issued <= issued' /\ issued' \in Nat
    BY Growing
  <2>2. \A c \in Call : CallOK(call[c], consents', issued')
    BY <1>t, <2>1, CallLater DEF Standing
  <2>. QED BY <1>1, <1>t, <2>2 DEF CallsKept, Calls
<1>2. CASE Evict
  <2>1. Standing /\ issued <= issued' /\ issued' \in Nat
    BY Growing
  <2>2. \A c \in Call : CallOK(call[c], consents', issued') /\ CallOK(Idle, consents', issued')
    BY <1>t, <2>1, CallLater, IdleOK DEF Standing
  <2>3. call' = [c \in Call |-> IF InRoom(c) THEN Idle ELSE call[c]]
    BY <1>2 DEF Evict
  <2>4. \A c \in Call : call'[c] \in Callers /\ CallOK(call'[c], consents', issued')
    BY <1>i, <1>t, <2>2, <2>3
  <2>. QED BY <2>3, <2>4 DEF CallsKept, Calls
<1>3. CASE LoseWorker
  <2>1. UNCHANGED call \/ \E c \in Call : End(c)
    BY <1>3 DEF LoseWorker
  <2>. QED BY <1>1, <2>1, EndKeeps
<1>4. ASSUME NEW c \in Call, NEW policy \in {"open", "invite"},
             CreateByAgent(c, policy) \/ CreateByOperator(c, policy)
      PROVE  CallsKept
  <2>1. PICK who \in Local \union {Operator} : CreateRoom(c, who, policy)
    BY <1>4 DEF CreateByAgent, CreateByOperator
  <2>2. who \in Addr \union {Operator}
    BY DEF Addr
  <2>. QED BY <1>t, <2>1, <2>2, BeginOK, OneCallBefore DEF CreateRoom
<1>5. ASSUME NEW c \in Call, InsertRow(c) PROVE CallsKept
  <2>1. call[c].pc = "insert" /\ (End(c) \/ Goto(c, "configure"))
    BY <1>5 DEF InsertRow, In
  <2>. QED BY <1>t, <2>1, EndKeeps, GotoOK, OneCallBefore DEF Goto
<1>6. ASSUME NEW c \in Call, Configure(c) PROVE CallsKept
  <2>1. call[c].pc = "configure" /\ (End(c) \/ (call[c].who # Operator /\ Goto(c, "put")))
    BY <1>6 DEF Configure, In
  <2>. QED BY <1>t, <2>1, EndKeeps, GotoOK, OneCallBefore DEF Goto
<1>7. ASSUME NEW c \in Call, DeleteRoom(c) PROVE CallsKept
  <2>1. call' = [call EXCEPT ![c] = [Idle EXCEPT !.pc = "destroy", !.op = "delete"]]
    BY <1>7 DEF DeleteRoom
  <2>2. [Idle EXCEPT !.pc = "destroy", !.op = "delete"] \in Callers
        /\ CallOK([Idle EXCEPT !.pc = "destroy", !.op = "delete"], consents, issued)
    BY <1>t, BeginOK
  <2>. QED BY <2>1, <2>2, OneCallBefore
<1>8. ASSUME NEW c \in Call, Destroy(c) \/ JoinPut(c) \/ Finish(c) \/ QueryFails(c)
      PROVE  CallsKept
  BY <1>8, EndKeeps DEF Destroy, JoinPut, Finish, QueryFails
<1>9. ASSUME NEW c \in Call, NEW a \in Foreign, NEW source \in {"agent", "operator"},
             JoinForeign(c, a, source)
      PROVE  CallsKept
  <2> DEFINE p == PeerOf[a]
             s == [Idle EXCEPT !.pc = "join", !.op = "join", !.who = a, !.live[p] = ActiveId(p)]
  <2>1. p \in Peer /\ a \in Addr
    BY <1>o DEF Addr
  <2>2. call' = [call EXCEPT ![c] = s]
    BY <1>9 DEF JoinForeign
  <2> HIDE DEF p
  <2>3. s \in Callers /\ CallOK(s, consents, issued)
    BY <1>t, <1>p, <2>1, BeginOK
  <2> HIDE DEF s
  <2>. QED BY <2>2, <2>3, OneCallBefore
<1>10. ASSUME NEW c \in Call, JoinRead(c) PROVE CallsKept
  <2>1. call[c].pc = "join" /\ (End(c) \/ Goto(c, "put"))
    BY <1>10 DEF JoinRead, In
  <2>2. call[c].who # Operator
    BY <1>t, <1>o, <2>1 DEF CallOK, Addr
  <2>. QED BY <1>t, <2>1, <2>2, EndKeeps, GotoOK, OneCallBefore DEF Goto
<1>11. ASSUME NEW c \in Call, NEW m \in Id, OperatorPost(c, m) PROVE CallsKept
  <2>1. call' = [call EXCEPT ![c] = [Idle EXCEPT !.pc = "post", !.op = "post",
                                                 !.id = m, !.who = Operator]]
    BY <1>11 DEF OperatorPost
  <2>. QED BY <1>t, <2>1, BeginOK, OneCallBefore
<1>12. ASSUME NEW c \in Call, NEW m \in Id, NEW a \in Addr, AdmitSend(c, m, a)
       PROVE  CallsKept
  <2>1. \/ UNCHANGED call
        \/ call' = [call EXCEPT ![c] = [Idle EXCEPT !.pc = "post", !.op = "post",
                                                    !.id = m, !.who = a, !.hub = TRUE]]
    BY <1>12 DEF AdmitSend
  <2>. QED BY <1>1, <1>t, <2>1, BeginOK, OneCallBefore
<1>13. ASSUME NEW c \in Call, PostStart(c) PROVE CallsKept
  <2> DEFINE r == [call[c] EXCEPT !.conf = config]
  <2>2. /\ r \in Callers /\ r.pc = "post" /\ r.who = call[c].who /\ r.id = call[c].id
        /\ CallOK(r, consents, issued)
    BY <1>13, StartRecord
  <2>3. /\ UNCHANGED connVars
        /\ \/ End(c)
           \/ r.who \in Foreign /\ call' = [call EXCEPT ![c] = [r EXCEPT !.pc = "auth"]]
           \/ Commit(c, r)
    BY <1>13 DEF PostStart
  <2> HIDE DEF r
  <2>5. r.who \in Foreign => [r EXCEPT !.pc = "auth"] \in Callers
                             /\ CallOK([r EXCEPT !.pc = "auth"], consents, issued)
    BY <1>t, <2>2, GotoOK DEF Posting
  <2>. QED BY <2>2, <2>3, <2>5, EndKeeps, OneCallBefore, CommitCalls DEF Posting
<1>14. ASSUME NEW c \in Call, PostAuth(c) PROVE CallsKept
  <2>1. call[c].pc = "auth" /\ (End(c) \/ Goto(c, "commit"))
    BY <1>14 DEF PostAuth, In
  <2>. QED BY <1>t, <2>1, EndKeeps, GotoOK, OneCallBefore DEF Goto, Posting
<1>15. ASSUME NEW c \in Call, PostCommit(c) PROVE CallsKept
  BY <1>15, <1>t, CommitCalls DEF PostCommit, In, Posting
<1>16. ASSUME NEW c \in Call, NEW p \in Peer, ReadConnection(c, p) PROVE CallsKept
  <2> DEFINE live == [call[c].live EXCEPT ![p] = ActiveId(p)]
             unread == call[c].unread \ {p}
             r == [call[c] EXCEPT !.unread = unread, !.live = live]
  <2>1. /\ call[c].pc = "read"
        /\ call' = [call EXCEPT ![c] = IF r.unread = {} THEN AfterReads(r) ELSE r]
    BY <1>16 DEF ReadConnection, In
  <2>2. call[c].live \in [Peer -> 0..MaxConn] /\ call[c].unread \subseteq Peer
    BY <1>t, CallFields
  <2>3. live \in [Peer -> 0..MaxConn] /\ \A u \in Peer : live[u] # 0 => consents[live[u]] = Side
    BY <1>t, <1>p, <2>2 DEF CallOK
  <2>4. unread \subseteq Peer
    BY <2>2
  <2> HIDE DEF live, unread
  <2>5. r \in Callers
    <3>1. call[c] \in Callers
      BY <1>t
    <3>. QED BY <2>3, <2>4, <3>1 DEF Callers
  <2>6. /\ r.pc = "read" /\ r.who = call[c].who /\ r.id = call[c].id
        /\ r.op = call[c].op /\ r.seq = call[c].seq /\ r.live = live /\ r.todo = call[c].todo
    BY <1>t, <2>1 DEF Callers
  <2> HIDE DEF r
  <2>7. CallOK(r, consents, issued)
    BY <1>t, <2>1, <2>3, <2>6 DEF CallOK, Posting
  <2>8. AfterReads(r) \in Callers /\ CallOK(AfterReads(r), consents, issued)
    BY <1>t, <2>5, <2>6, <2>7, AfterReadsOK DEF Posting
  <2>. QED BY <2>1, <2>5, <2>7, <2>8, OneCallBefore
<1>17. ASSUME NEW c \in Call, CacheSlug(c) PROVE CallsKept
  <2>1. call[c].pc = "slug" /\ Goto(c, "fan")
    BY <1>17 DEF CacheSlug, In
  <2>. QED BY <1>t, <2>1, GotoOK, OneCallBefore DEF Goto, Posting
<1>18. ASSUME NEW c \in Call, NEW a \in Addr, Deliver(c, a) PROVE CallsKept
  <2> DEFINE T == call[c].todo \ {a}
             r == [call[c] EXCEPT !.todo = T]
  <2>1. call' = [call EXCEPT ![c] = r] /\ T \subseteq call[c].todo /\ call[c].todo \subseteq Addr
    BY <1>18, <1>t, CallFields DEF Deliver
  <2> HIDE DEF T
  <2>4. call[c] \in Callers /\ T \subseteq Addr
    BY <1>t, <2>1
  <2>5. r \in Callers
    BY <2>4 DEF Callers
  <2>2. /\ r \in Callers /\ r.pc = call[c].pc /\ r.who = call[c].who /\ r.id = call[c].id
        /\ r.op = call[c].op /\ r.seq = call[c].seq /\ r.live = call[c].live /\ r.todo = T
        /\ r.conf = call[c].conf
    BY <2>4, <2>5 DEF Callers
  <2> HIDE DEF r
  <2>3. CallOK(r, consents, issued)
    BY <1>t, <2>1, <2>2 DEF CallOK
  <2>. QED BY <2>1, <2>2, <2>3, OneCallBefore
<1>19. ASSUME NEW c \in Call, LoseHub(c) PROVE CallsKept
  <2> DEFINE r == [call[c] EXCEPT !.hub = FALSE]
  <2>1. call' = [call EXCEPT ![c] = r]
    BY <1>19 DEF LoseHub
  <2>2. /\ r \in Callers /\ r.pc = call[c].pc /\ r.who = call[c].who /\ r.id = call[c].id
        /\ r.op = call[c].op /\ r.seq = call[c].seq /\ r.live = call[c].live
        /\ r.todo = call[c].todo /\ r.conf = call[c].conf
    <3>1. call[c] \in Callers
      BY <1>t
    <3>. QED BY <3>1 DEF Callers
  <2> HIDE DEF r
  <2>3. CallOK(r, consents, issued)
    BY <1>t, <2>2 DEF CallOK
  <2>. QED BY <2>1, <2>2, <2>3, OneCallBefore
<1>. QED BY <1>m, <1>1, <1>2, <1>3, <1>4, <1>5, <1>6, <1>7, <1>8, <1>9, <1>10, <1>11, <1>12,
     <1>13, <1>14, <1>15, <1>16, <1>17, <1>18, <1>19 DEF CallMoves

-----------------------------------------------------------------------------
(* What HostHub knows of posts *)

(* An outcome HostHub records is not taken back. *)
LEMMA AnswerKeeps ==
  ASSUME TypeOK, NEW c \in Call, NEW out \in {"ack", "nak"}
  PROVE  /\ Answer(c, out) \in [Id -> [by : Addr \union {Operator, None},
                                       out : {"none", "ack", "nak", "operator"}]]
         /\ \A m \in Id : /\ Answer(c, out)[m].by = send[m].by
                          /\ send[m].out # "none" => Answer(c, out)[m].out # "none"
                          /\ call[c].id # m => Answer(c, out)[m] = send[m]
<1> DEFINE S == [by : Addr \union {Operator, None}, out : {"none", "ack", "nak", "operator"}]
           m0 == call[c].id
<1>1. send \in [Id -> S]
  BY DEF TypeOK
<1>2. CASE call[c].op = "post" /\ call[c].hub /\ m0 \in Id
  <2> DEFINE s == [send[m0] EXCEPT !.out = out]
  <2>1. s \in S /\ s.by = send[m0].by /\ s.out = out
    BY <1>1, <1>2
  <2>2. Answer(c, out) = [send EXCEPT ![m0] = s]
    BY <1>2 DEF Answer
  <2> HIDE DEF s, m0, S
  <2>. QED BY <1>1, <1>2, <2>1, <2>2 DEF m0, S
<1>3. CASE ~(call[c].op = "post" /\ call[c].hub)
  BY <1>1, <1>3 DEF Answer
<1>4. CASE m0 \notin Id
  <2>1. Answer(c, out) = send
    BY <1>1, <1>4 DEF Answer
  <2>. QED BY <1>1, <2>1
<1>. QED BY <1>2, <1>3, <1>4

(* What a step does to the posts: a closed one stays closed. *)
SendsKept ==
  /\ send' \in [Id -> [by : Addr \union {Operator, None}, out : {"none", "ack", "nak", "operator"}]]
  /\ \A m \in Id : send'[m].by = None => send'[m].out = "none"
  /\ \A m \in Id : Closed(m) => Closed(m)'

(* A fan-out with somebody left. *)
Fans(r) == r.pc \in {"read", "slug", "fan"} /\ r.todo # {}

(* What becomes of a call: it keeps its post, or drops it; a new one takes a post *)
(* from HostHub; a fan-out goes on to all it is left with, but for four actions.  *)
Traced(c) ==
  \/ /\ call'[c].id \in {call[c].id, None}
     /\ Fans(call[c]) => /\ call'[c].pc \in {"read", "slug", "fan"} /\ call'[c].todo = call[c].todo
                         /\ call'[c].id = call[c].id /\ call'[c].op = call[c].op
  \/ /\ call'[c].id \in {call[c].id, None}
     /\ \/ QueryFails(c) \/ Evict
        \/ \E p \in Peer : ReadConnection(c, p)
        \/ \E a \in Addr : Deliver(c, a)
  \/ /\ call[c].pc = "idle"
     /\ \E m \in Id : /\ call'[c].id = m
                      /\ OperatorPost(c, m) \/ \E a \in Addr : AdmitSend(c, m, a)

(* The commit of a post: the members of the moment are due. *)
LEMMA CommitDue ==
  ASSUME IInv, [Next]_vars, NEW c \in Call, NEW r \in Callers, CallOK(r, consents, issued),
         r.pc \in Posting \ {"slug", "fan"}, Commit(c, r), UNCHANGED connVars
  PROVE  \/ due' = due /\ call'[c].id = None
         \/ \E T \in SUBSET Addr :
              /\ due' = due \union {<<r.id, a>> : a \in T}
              /\ call'[c].id = r.id /\ call'[c].op = "post"
              /\ call'[c].pc \in {"read", "slug", "fan"} /\ call'[c].todo = T
<1>t. call \in [Call -> Callers]
  BY DEF IInv, TypeOK
<1>1. CASE index[r.id] # 0
  BY <1>1, <1>t DEF Commit, End, Idle
<1>2. CASE index[r.id] = 0
  <2> DEFINE s == [r EXCEPT !.seq = sequence']
             T == member \ {r.who}
  <2>1. /\ call' = [call EXCEPT ![c] = FanOut(s, T)] /\ T \in SUBSET Addr
        /\ due' = due \union {<<r.id, a>> : a \in T}
    BY <1>2 DEF Commit, NewPost, IInv, TypeOK
  <2>2. sequence' \in 0..MaxSeq /\ sequence' <= issued' /\ issued' \in Nat
    BY LedgerStep, Growing DEF LedgerKept, LedgerTypes
  <2>3. s \in Callers
    BY <2>2 DEF Callers
  <2>4. /\ s.pc = r.pc /\ s.who = r.who /\ s.conf = r.conf /\ s.op = r.op /\ s.id = r.id
        /\ s.seq = sequence' /\ s.live = r.live /\ s.todo = r.todo
    BY DEF Callers
  <2>5. r.op = "post"
    BY DEF CallOK
  <2> HIDE DEF s, T
  <2>6. CallOK(s, consents', issued')
    BY <2>2, <2>4 DEF CallOK, Posting, connVars
  <2>7. /\ FanOut(s, T).id = r.id /\ FanOut(s, T).op = "post"
        /\ FanOut(s, T).pc \in {"read", "slug", "fan"} /\ FanOut(s, T).todo = T
    BY <2>1, <2>2, <2>3, <2>4, <2>5, <2>6, FanOutOK
  <2>8. call'[c] = FanOut(s, T)
    BY <1>t, <2>1
  <2>. QED BY <2>1, <2>7, <2>8
<1>. QED BY <1>1, <1>2

LEMMA TraceStep == IInv /\ [Next]_vars => \A c \in Call : Traced(c)
<1> SUFFICES ASSUME IInv, [Next]_vars, NEW d \in Call PROVE Traced(d)
  OBVIOUS
<1>t. /\ call \in [Call -> Callers] /\ Idle.id = None
      /\ \A c \in Call : call[c] \in Callers /\ CallOK(call[c], consents, issued)
  BY DEF IInv, TypeOK, Calls, Idle
<1>m. CallMoves
  BY Frame DEF Moves
<1>s. ASSUME call'[d] = call[d] PROVE Traced(d)
  BY <1>s DEF Traced, Fans
<1>e. ASSUME NEW c \in Call, End(c), ~Fans(call[c]) PROVE Traced(d)
  <2>1. call'[c] = Idle /\ \A u \in Call \ {c} : call'[u] = call[u]
    BY <1>t, <1>e DEF End
  <2>. QED BY <1>e, <1>s, <1>t, <2>1 DEF Traced
<1>g. ASSUME NEW c \in Call, NEW pc, Goto(c, pc), Fans(call[c]) => pc \in {"read", "slug", "fan"}
      PROVE  Traced(d)
  <2> DEFINE r == [call[c] EXCEPT !.pc = pc]
  <2>1. call'[c] = r /\ \A u \in Call \ {c} : call'[u] = call[u]
    BY <1>t, <1>g DEF Goto
  <2>2. r.pc = pc /\ r.id = call[c].id /\ r.op = call[c].op /\ r.todo = call[c].todo
    BY <1>t DEF Callers
  <2>. QED BY <1>g, <1>s, <2>1, <2>2 DEF Traced
<1>b. ASSUME NEW c \in Call, NEW X, call' = [call EXCEPT ![c] = X], X.id = None,
             call[c].pc = "idle"
      PROVE  Traced(d)
  <2>1. call'[c] = X /\ \A u \in Call \ {c} : call'[u] = call[u]
    BY <1>t, <1>b
  <2>. QED BY <1>b, <1>s, <2>1 DEF Traced, Fans
<1>1. CASE UNCHANGED call
  BY <1>1, <1>s
<1>2. CASE Evict
  <2>1. call'[d] = Idle \/ call'[d] = call[d]
    BY <1>2 DEF Evict
  <2>. QED BY <1>2, <1>t, <2>1 DEF Traced
<1>3. CASE LoseWorker
  <2>1. UNCHANGED call \/ \E c \in Call : call[c].pc \in {"insert", "configure"} /\ End(c)
    BY <1>3 DEF LoseWorker
  <2>. QED BY <1>1, <1>e, <2>1 DEF Fans
<1>4. ASSUME NEW c \in Call, NEW policy \in {"open", "invite"},
             CreateByAgent(c, policy) \/ CreateByOperator(c, policy)
      PROVE  Traced(d)
  <2>1. PICK who : CreateRoom(c, who, policy)
    BY <1>4 DEF CreateByAgent, CreateByOperator
  <2> DEFINE X == [Idle EXCEPT !.pc = "insert", !.op = "create", !.who = who, !.conf.policy = policy]
  <2>2. X.id = None
    BY DEF Idle
  <2>. QED BY <1>b, <2>1, <2>2 DEF CreateRoom, In
<1>5. ASSUME NEW c \in Call, InsertRow(c) \/ Configure(c) \/ JoinRead(c) \/ PostAuth(c)
      PROVE  Traced(d)
  <2>1. call[c].pc \in {"insert", "configure", "join", "auth"}
    BY <1>5 DEF InsertRow, Configure, JoinRead, PostAuth, In
  <2>2. End(c) \/ \E pc : Goto(c, pc)
    BY <1>5 DEF InsertRow, Configure, JoinRead, PostAuth
  <2>. QED BY <1>e, <1>g, <2>1, <2>2 DEF Fans
<1>6. ASSUME NEW c \in Call, DeleteRoom(c) PROVE Traced(d)
  <2>1. [Idle EXCEPT !.pc = "destroy", !.op = "delete"].id = None
    BY DEF Idle
  <2>. QED BY <1>6, <1>b, <2>1 DEF DeleteRoom, In
<1>7. ASSUME NEW c \in Call, Destroy(c) \/ JoinPut(c) \/ Finish(c) PROVE Traced(d)
  <2>1. End(c) /\ ~Fans(call[c])
    BY <1>7 DEF Destroy, JoinPut, Finish, In, Fans
  <2>. QED BY <1>e, <2>1
<1>8. ASSUME NEW c \in Call, NEW a \in Foreign, NEW source \in {"agent", "operator"},
             JoinForeign(c, a, source)
      PROVE  Traced(d)
  <2> DEFINE X == [Idle EXCEPT !.pc = "join", !.op = "join", !.who = a,
                               !.live[PeerOf[a]] = ActiveId(PeerOf[a])]
  <2>1. X.id = None
    BY DEF Idle
  <2>. QED BY <1>8, <1>b, <2>1 DEF JoinForeign, In
<1>9. ASSUME NEW c \in Call, NEW m \in Id, OperatorPost(c, m) PROVE Traced(d)
  <2> DEFINE X == [Idle EXCEPT !.pc = "post", !.op = "post", !.id = m, !.who = Operator]
  <2>1. call'[c] = X /\ call[c].pc = "idle" /\ \A u \in Call \ {c} : call'[u] = call[u]
    BY <1>9, <1>t DEF OperatorPost, In
  <2>2. X.id = m
    BY DEF Idle
  <2>. QED BY <1>9, <1>s, <2>1, <2>2 DEF Traced
<1>10. ASSUME NEW c \in Call, NEW m \in Id, NEW a \in Addr, AdmitSend(c, m, a) PROVE Traced(d)
  <2> DEFINE X == [Idle EXCEPT !.pc = "post", !.op = "post", !.id = m, !.who = a, !.hub = TRUE]
  <2>1. /\ call[c].pc = "idle"
        /\ UNCHANGED call \/ call' = [call EXCEPT ![c] = X]
    BY <1>10 DEF AdmitSend, In
  <2>2. X.id = m
    BY DEF Idle
  <2>. QED BY <1>10, <1>s, <1>t, <2>1, <2>2 DEF Traced
<1>11. ASSUME NEW c \in Call, PostStart(c) PROVE Traced(d)
  <2> DEFINE r == [call[c] EXCEPT !.conf = config]
  <2>1. /\ r \in Callers /\ CallOK(r, consents, issued) /\ r.pc = "post" /\ r.id = call[c].id
    BY <1>11, StartRecord
  <2>2. /\ call[c].pc = "post" /\ UNCHANGED connVars
        /\ \/ End(c)
           \/ call' = [call EXCEPT ![c] = [r EXCEPT !.pc = "auth"]]
           \/ Commit(c, r)
    BY <1>11 DEF PostStart, In
  <2>3. \A u \in Call \ {c} : call'[u] = call[u]
    BY <1>t, <2>2 DEF End, Commit, NewPost
  <2> HIDE DEF r
  <2>4. [r EXCEPT !.pc = "auth"].id = r.id
    BY <2>1 DEF Callers
  <2>5. Commit(c, r) => call'[c].id \in {r.id, None}
    BY <2>1, <2>2, CommitDue DEF Posting
  <2>6. call'[c].id \in {call[c].id, None}
    BY <1>t, <2>1, <2>2, <2>4, <2>5 DEF End
  <2>. QED BY <1>s, <2>2, <2>3, <2>6 DEF Traced, Fans
<1>12. ASSUME NEW c \in Call, PostCommit(c) PROVE Traced(d)
  <2>1. call[c].pc = "commit" /\ UNCHANGED connVars /\ Commit(c, call[c])
    BY <1>12 DEF PostCommit, In
  <2>2. \A u \in Call \ {c} : call'[u] = call[u]
    BY <1>t, <2>1 DEF End, Commit, NewPost
  <2>3. call'[c].id \in {call[c].id, None}
    BY <1>t, <2>1, CommitDue DEF Posting
  <2>. QED BY <1>s, <2>1, <2>2, <2>3 DEF Traced, Fans
<1>13. ASSUME NEW c \in Call, NEW p \in Peer, ReadConnection(c, p) PROVE Traced(d)
  <2> DEFINE r == [call[c] EXCEPT !.unread = @ \ {p}, !.live[p] = ActiveId(p)]
  <2>1. call' = [call EXCEPT ![c] = IF r.unread = {} THEN AfterReads(r) ELSE r]
    BY <1>13 DEF ReadConnection
  <2>2. r.id = call[c].id /\ AfterReads(r).id = r.id
    BY <1>t DEF Callers, AfterReads
  <2> HIDE DEF r
  <2>3. call'[c].id = call[c].id /\ \A u \in Call \ {c} : call'[u] = call[u]
    BY <1>t, <2>1, <2>2
  <2>. QED BY <1>13, <1>s, <2>3 DEF Traced
<1>14. ASSUME NEW c \in Call, CacheSlug(c) PROVE Traced(d)
  BY <1>14, <1>g DEF CacheSlug
<1>15. ASSUME NEW c \in Call, NEW a \in Addr, Deliver(c, a) PROVE Traced(d)
  <2> DEFINE r == [call[c] EXCEPT !.todo = @ \ {a}]
  <2>1. call' = [call EXCEPT ![c] = r]
    BY <1>15 DEF Deliver
  <2>2. r.id = call[c].id
    BY <1>t DEF Callers
  <2>3. call'[c].id = call[c].id /\ \A u \in Call \ {c} : call'[u] = call[u]
    BY <1>t, <2>1, <2>2
  <2>. QED BY <1>15, <1>s, <2>3 DEF Traced
<1>16. ASSUME NEW c \in Call, QueryFails(c) PROVE Traced(d)
  <2>1. call'[c] = Idle /\ \A u \in Call \ {c} : call'[u] = call[u]
    BY <1>t, <1>16 DEF QueryFails, End
  <2>. QED BY <1>16, <1>s, <1>t, <2>1 DEF Traced
<1>17. ASSUME NEW c \in Call, LoseHub(c) PROVE Traced(d)
  <2> DEFINE r == [call[c] EXCEPT !.hub = FALSE]
  <2>1. call'[c] = r /\ \A u \in Call \ {c} : call'[u] = call[u]
    BY <1>t, <1>17 DEF LoseHub
  <2>2. r.pc = call[c].pc /\ r.id = call[c].id /\ r.op = call[c].op /\ r.todo = call[c].todo
    BY <1>t DEF Callers
  <2>. QED BY <1>s, <2>1, <2>2 DEF Traced, Fans
<1>. QED BY <1>m, <1>1, <1>2, <1>3, <1>4, <1>5, <1>6, <1>7, <1>8, <1>9, <1>10, <1>11, <1>12,
     <1>13, <1>14, <1>15, <1>16, <1>17 DEF CallMoves

LEMMA SendsStep ==
  ASSUME IInv, [Next]_vars
  PROVE  SendsKept /\ \A c \in Call : call'[c].id \in Id => send'[call'[c].id].by # None
<1> DEFINE S == [by : Addr \union {Operator, None}, out : {"none", "ack", "nak", "operator"}]
           Grown(m) == /\ send[m].by # None => send'[m].by # None
                       /\ send'[m].by = None => send'[m].out = "none"
                       /\ send[m].out # "none" => send'[m].out # "none"
           Grows == send' \in [Id -> S] /\ \A m \in Id : Grown(m)
<1>t. /\ send \in [Id -> S] /\ Settled /\ TypeOK
      /\ \A m \in Id : send[m] \in S /\ (send[m].by = None => send[m].out = "none")
      /\ None \notin Addr /\ None \notin Id /\ None # Operator
  BY RoomAssumption DEF IInv, TypeOK, Settled
<1>a. ASSUME NEW c \in Call, NEW out \in {"ack", "nak"}, send' = Answer(c, out) PROVE Grows
  <2> DEFINE A == Answer(c, out)
  <2>1. A \in [Id -> S]
    BY <1>t, AnswerKeeps
  <2>2. \A m \in Id : /\ A[m].by = send[m].by
                      /\ send[m].out # "none" => A[m].out # "none"
                      /\ call[c].id # m => A[m] = send[m]
    BY <1>t, AnswerKeeps
  <2>3. \A m \in Id : call[c].id = m => send[m].by # None
    BY <1>t DEF Settled
  <2>4. send' = A
    BY <1>a
  <2> HIDE DEF A, S
  <2>. QED BY <1>t, <2>1, <2>2, <2>3, <2>4
<1>g. Grows
  <2>m. SendMoves
    BY Frame DEF Moves
  <2>1. ASSUME UNCHANGED send PROVE Grows
    BY <2>1, <1>t
  <2>2. ASSUME NEW c \in Call, NEW m \in Id, OperatorPost(c, m) PROVE Grows
    <3> DEFINE s == [by |-> Operator, out |-> "operator"]
    <3>1. s \in S /\ s.by # None /\ s.out # "none"
      BY <1>t
    <3>2. send' = [send EXCEPT ![m] = s]
      BY <2>2 DEF OperatorPost
    <3> HIDE DEF s, S
    <3>. QED BY <1>t, <3>1, <3>2
  <2>3. ASSUME NEW c \in Call, NEW m \in Id, NEW a \in Addr, AdmitSend(c, m, a) PROVE Grows
    <3> DEFINE s == [send[m] EXCEPT !.by = a]
               u == [by |-> a, out |-> "nak"]
    <3>1. s \in S /\ s.by = a /\ u \in S /\ u.by = a /\ a # None
      BY <1>t
    <3>2. send[m].out = "none"
      BY <2>3 DEF AdmitSend
    <3>3. send' = [send EXCEPT ![m].by = a] \/ send' = [send EXCEPT ![m] = u]
      BY <2>3 DEF AdmitSend
    <3>4. send' = [send EXCEPT ![m] = s] \/ send' = [send EXCEPT ![m] = u]
      BY <3>3
    <3> HIDE DEF s, u, S
    <3>. QED BY <1>t, <3>1, <3>2, <3>4
  <2>4. ASSUME NEW c \in Call, PostStart(c) PROVE Grows
    <3>1. send' = send \/ send' = Answer(c, "nak") \/ send' = Answer(c, "ack")
      BY <2>4 DEF PostStart, Commit, NewPost
    <3>. QED BY <3>1, <2>1, <1>a
  <2>5. ASSUME NEW c \in Call, PostAuth(c) \/ PostCommit(c) \/ Finish(c) \/ QueryFails(c)
        PROVE  Grows
    <3>1. send' = send \/ send' = Answer(c, "nak") \/ send' = Answer(c, "ack")
      BY <2>5 DEF PostAuth, PostCommit, Commit, NewPost, Finish, QueryFails
    <3>. QED BY <3>1, <2>1, <1>a
  <2>6. CASE Evict
    <3> DEFINE Lost(m) == \E c \in Call : InRoom(c) /\ call[c].hub /\ call[c].id = m
               s(m) == [send[m] EXCEPT !.out = "nak"]
    <3>1. send' = [m \in Id |-> IF Lost(m) THEN s(m) ELSE send[m]]
      BY <2>6 DEF Evict
    <3>2. \A m \in Id : s(m) \in S /\ s(m).by = send[m].by /\ s(m).out = "nak"
      BY <1>t
    <3>3. \A m \in Id : Lost(m) => send[m].by # None
      BY <1>t DEF Settled
    <3> HIDE DEF Lost, s, S
    <3>. QED BY <1>t, <3>1, <3>2, <3>3
  <2>. QED BY <2>m, <2>1, <2>2, <2>3, <2>4, <2>5, <2>6 DEF SendMoves
<1>r. \A c \in Call : Traced(c)
  BY TraceStep
<1>1. ASSUME NEW m \in Id, Closed(m) PROVE Closed(m)'
  <2>1. send'[m].out # "none"
    BY <1>1, <1>g DEF Closed
  <2>2. ASSUME NEW c \in Call PROVE call'[c].id # m
    <3>1. CASE call'[c].id \in {call[c].id, None}
      BY <1>1, <1>t, <3>1 DEF Closed
    <3>2. ASSUME NEW n \in Id, call'[c].id = n, OperatorPost(c, n) \/ \E a \in Addr : AdmitSend(c, n, a)
          PROVE  n # m
      <4>1. send[n].out = "none"
        BY <1>t, <3>2 DEF OperatorPost, AdmitSend
      <4>. QED BY <1>1, <4>1 DEF Closed
    <3>. QED BY <1>r, <3>1, <3>2 DEF Traced
  <2>. QED BY <2>1, <2>2 DEF Closed
<1>2. ASSUME NEW c \in Call, call'[c].id \in Id PROVE send'[call'[c].id].by # None
  <2>1. CASE call'[c].id \in {call[c].id, None}
    BY <1>2, <1>t, <1>g, <2>1 DEF Settled
  <2>2. ASSUME NEW n \in Id, call'[c].id = n, OperatorPost(c, n) PROVE send'[n].by # None
    <3> DEFINE s == [by |-> Operator, out |-> "operator"]
    <3>1. send' = [send EXCEPT ![n] = s] /\ s.by = Operator
      BY <2>2 DEF OperatorPost
    <3> HIDE DEF s
    <3>. QED BY <1>t, <3>1
  <2>3. ASSUME NEW n \in Id, NEW a \in Addr, call'[c].id = n, AdmitSend(c, n, a)
        PROVE  send'[n].by # None
    <3> DEFINE s == [send[n] EXCEPT !.by = a]
               u == [by |-> a, out |-> "nak"]
    <3>1. s.by = a /\ u.by = a
      BY <1>t
    <3>2. send' = [send EXCEPT ![n].by = a] \/ send' = [send EXCEPT ![n] = u]
      BY <2>3 DEF AdmitSend
    <3>3. send' = [send EXCEPT ![n] = s] \/ send' = [send EXCEPT ![n] = u]
      BY <3>2
    <3> HIDE DEF s, u
    <3>. QED BY <1>t, <3>1, <3>3
  <2>. QED BY <1>2, <1>r, <2>1, <2>2, <2>3 DEF Traced
<1>3. \A m \in Id : send'[m].by = None => send'[m].out = "none"
  BY <1>g
<1>. QED BY <1>1, <1>2, <1>3, <1>g DEF SendsKept

LEMMA SettledStep == IInv /\ [Next]_vars => Settled'
<1> SUFFICES ASSUME IInv, [Next]_vars PROVE Settled'
  OBVIOUS
<1>t. LedgerTypes /\ LedgerIsLog /\ Settled /\ Calls
  BY DEF IInv, TypeOK, LedgerTypes
<1>s. /\ \A m \in Id : send'[m].by = None => send'[m].out = "none"
      /\ \A m \in Id : Closed(m) => Closed(m)'
      /\ \A c \in Call : call'[c].id \in Id => send'[call'[c].id].by # None
  BY SendsStep DEF SendsKept
<1> DEFINE Gone == \A i \in 1..Len(log) : index[log[i]] = 0 => Closed(log[i])
           Aged == /\ \A e \in ledger : e.seq \in old => Closed(e.id)
                   /\ \A n \in old : n <= sequence
<1>i. /\ \A i \in 1..Len(log) : log[i] \in Id
      /\ \A e \in ledger : e.id \in Id /\ e.seq \in Seqs
  BY <1>t DEF LedgerTypes
<1>g. Gone /\ Aged
  BY <1>t DEF Settled
<1>u. ASSUME UNCHANGED <<sequence, ledger, index, old, log, issued>> PROVE Gone' /\ Aged'
  <2>1. Gone'
    BY <1>u, <1>i, <1>g, <1>s
  <2>2. Aged'
    BY <1>u, <1>i, <1>g, <1>s
  <2>. QED BY <2>1, <2>2
<1>c. ASSUME NEW c \in Call, NEW r, r.id \in Id, Commit(c, r), old' = old PROVE Gone' /\ Aged'
  <2>1. CASE index[r.id] # 0
    BY <1>u, <1>c, <2>1 DEF Commit
  <2>2. CASE index[r.id] = 0
    <3> DEFINE e == [seq |-> sequence + 1, id |-> r.id]
    <3>1. /\ sequence' = sequence + 1 /\ ledger' = ledger \union {e}
          /\ index' = [index EXCEPT ![r.id] = sequence + 1] /\ log' = Append(log, r.id)
          /\ sequence < MaxSeq /\ old' = old
      BY <1>c, <2>2 DEF Commit, NewPost
    <3>2. e.seq = sequence + 1 /\ e.id = r.id
      OBVIOUS
    <3>3. /\ sequence \in Nat /\ sequence = Len(log)
          /\ Len(log') = Len(log) + 1 /\ log'[Len(log) + 1] = r.id
          /\ \A i \in 1..Len(log) : log'[i] = log[i]
      BY <1>t, <3>1, RoomAssumption DEF LedgerTypes, LedgerIsLog
    <3>4. index'[r.id] = sequence + 1 /\ \A m \in Id \ {r.id} : index'[m] = index[m]
      BY <1>t, <1>c, <3>1 DEF LedgerTypes
    <3> HIDE DEF e
    <3>5. ASSUME NEW i \in 1..Len(log'), index'[log'[i]] = 0 PROVE Closed(log[i])'
      <4>1. i \in 1..Len(log) /\ log'[i] = log[i] /\ log[i] # r.id
        BY <3>3, <3>4, <3>5
      <4>2. Closed(log[i])
        BY <1>i, <1>g, <3>4, <3>5, <4>1
      <4>. QED BY <1>i, <1>s, <4>1, <4>2 DEF Closed
    <3>6. ASSUME NEW f \in ledger', f.seq \in old' PROVE Closed(f.id)'
      <4>1. CASE f \in ledger
        BY <1>i, <1>g, <1>s, <3>1, <3>6, <4>1
      <4>2. CASE f = e
        BY <1>t, <3>1, <3>2, <3>3, <3>6, <4>2 DEF LedgerTypes, Settled, Seqs
      <4>. QED BY <3>1, <3>6, <4>1, <4>2
    <3>7. \A n \in old' : n <= sequence'
      <4>1. \A n \in old : n \in Nat /\ n <= sequence
        BY <1>t, <1>g DEF LedgerTypes, Seqs
      <4>. QED BY <3>1, <3>3, <4>1
    <3>. QED BY <3>5, <3>6, <3>7
  <2>. QED BY <2>1, <2>2
<1>m. LedgerMoves
  BY Frame DEF Moves
<1>1. ASSUME NEW c \in Call, PostStart(c) PROVE Gone' /\ Aged'
  <2> DEFINE r == [call[c] EXCEPT !.conf = config]
  <2>1. r.id \in Id
    BY <1>1, StartRecord DEF CallOK, Posting
  <2>2. old' = old
    BY <1>1 DEF PostStart
  <2> HIDE DEF r
  <2>3. Commit(c, r) \/ UNCHANGED <<sequence, ledger, index, old, log, issued>>
    BY <1>1 DEF PostStart, r
  <2>. QED BY <1>c, <1>u, <2>1, <2>2, <2>3
<1>2. ASSUME NEW c \in Call, PostCommit(c) PROVE Gone' /\ Aged'
  <2>1. call[c].id \in Id /\ Commit(c, call[c]) /\ old' = old
    BY <1>2, <1>t DEF PostCommit, In, Calls, CallOK, Posting
  <2>. QED BY <1>c, <2>1
<1>3. ASSUME NEW c \in Call, Destroy(c) PROVE Gone' /\ Aged'
  <2>1. CASE config = NoConfig
    BY <1>3, <1>u, <2>1 DEF Destroy, store
  <2>2. CASE config # NoConfig
    <3>1. ledger' = {} /\ old' = {} /\ log' = << >>
      BY <1>3, <2>2 DEF Destroy, Wiped
    <3>. QED BY <3>1
  <2>. QED BY <2>1, <2>2
<1>4. ASSUME NEW c \in Call, Finish(c) PROVE Gone' /\ Aged'
  <2>1. /\ ledger' = {e \in ledger : e.seq \notin old} /\ old' = {}
        /\ index' = [m \in Id |-> IF index[m] \in old THEN 0 ELSE index[m]]
        /\ log' = log
    BY <1>4 DEF Finish
  <2>2. ASSUME NEW i \in 1..Len(log), index'[log[i]] = 0 PROVE Closed(log[i])
    <3>1. log[i] \in Id
      BY <1>i
    <3>2. CASE index[log[i]] = 0
      BY <1>g, <3>2
    <3>3. CASE index[log[i]] # 0
      <4> DEFINE e == [seq |-> index[log[i]], id |-> log[i]]
      <4>1. e \in ledger /\ e.seq \in old /\ e.id = log[i]
        BY <1>t, <2>1, <2>2, <3>1, <3>3 DEF LedgerIsLog
      <4>. QED BY <1>g, <4>1
    <3>. QED BY <3>2, <3>3
  <2>. QED BY <1>i, <1>s, <2>1, <2>2
<1>5. ASSUME NEW e \in ledger, Age(e) PROVE Gone' /\ Aged'
  <2>1. /\ old' = old \union {e.seq} /\ Closed(e.id) /\ ledger' = ledger
        /\ UNCHANGED <<index, log, sequence>>
    BY <1>5 DEF Age, Closed
  <2>2. \A n \in old' : n <= sequence'
    BY <1>t, <1>g, <2>1 DEF LedgerIsLog
  <2>3. ASSUME NEW f \in ledger, f.seq \in old' PROVE Closed(f.id)
    <3>1. CASE f.seq = e.seq
      BY <1>t, <2>1, <3>1 DEF LedgerIsLog
    <3>2. CASE f.seq # e.seq
      BY <1>g, <2>1, <2>3, <3>2
    <3>. QED BY <3>1, <3>2
  <2>4. \A f \in ledger' : f.seq \in old' => Closed(f.id)'
    BY <1>i, <1>s, <2>1, <2>3
  <2>5. Gone'
    BY <1>i, <1>s, <1>g, <2>1
  <2>. QED BY <2>2, <2>4, <2>5
<1>6. Gone' /\ Aged'
  BY <1>m, <1>u, <1>1, <1>2, <1>3, <1>4, <1>5 DEF LedgerMoves
<1>. QED BY <1>6, <1>s DEF Settled

-----------------------------------------------------------------------------
(* Members, queues, rows *)

(* What a step does to the cursors: it forgets one, moves one on to a number   *)
(* that was given out, or starts them all over with the log.                   *)
CursorMove ==
  \/ UNCHANGED cursor
  \/ \E a \in Addr : cursor' = [cursor EXCEPT ![a] = 0]
  \/ \E a \in Addr, n \in 1..issued : cursor[a] < n /\ cursor' = [cursor EXCEPT ![a] = n]
  \/ log' = << >> /\ cursor' = [a \in Addr |-> 0] /\ UNCHANGED issued

MembersKept ==
  /\ member' \subseteq Addr /\ cursor' \in [Addr -> 0..MaxSeq] /\ Counted' /\ CursorMove

LEMMA AdmittedKeeps ==
  ASSUME IInv, NEW a \in Addr, Admitted(a)
  PROVE  MembersKept
<1>t. /\ member \subseteq Addr /\ cursor \in [Addr -> 0..MaxSeq] /\ IsFiniteSet(member)
      /\ Cardinality(member) \in Nat /\ Cardinality(member) <= MaxMembers /\ MaxMembers \in Nat
  BY FS_CardinalityType, RoomAssumption DEF IInv, TypeOK, Counted, MembersBounded
<1>1. ASSUME a \notin member, Cardinality(member) < MaxMembers,
             member' = member \union {a}, cursor' = [cursor EXCEPT ![a] = 0]
      PROVE  MembersKept
  <2>1. IsFiniteSet(member \union {a}) /\ Cardinality(member \union {a}) = Cardinality(member) + 1
    BY <1>t, <1>1, FS_AddElement
  <2>2. Cardinality(member \union {a}) <= MaxMembers
    BY <1>t, <1>1, <2>1
  <2>3. member' \subseteq Addr /\ IsFiniteSet(member') /\ Cardinality(member') <= MaxMembers
    BY <1>t, <1>1, <2>1, <2>2
  <2>4. cursor' \in [Addr -> 0..MaxSeq]
    BY <1>t, <1>1, RoomAssumption
  <2>5. CursorMove
    BY <1>1 DEF CursorMove
  <2>. QED BY <2>3, <2>4, <2>5 DEF MembersKept, Counted, MembersBounded
<1>2. ASSUME UNCHANGED <<member, cursor>> PROVE MembersKept
  BY <1>t, <1>2 DEF MembersKept, Counted, MembersBounded, CursorMove
<1>. QED BY <1>1, <1>2 DEF Admitted

LEMMA MembersStep == IInv /\ [Next]_vars => MembersKept
<1> SUFFICES ASSUME IInv, [Next]_vars PROVE MembersKept
  OBVIOUS
<1>t. /\ member \subseteq Addr /\ cursor \in [Addr -> 0..MaxSeq] /\ IsFiniteSet(member)
      /\ Cardinality(member) \in Nat /\ Cardinality(member) <= MaxMembers /\ MaxMembers \in Nat
      /\ issued \in 0..MaxSeq /\ Numbered
      /\ queue \subseteq [id : Id, seq : 0..MaxSeq, to : Addr, conn : 0..MaxConn]
  BY FS_CardinalityType, RoomAssumption DEF IInv, TypeOK, Counted, MembersBounded
<1>m. MemberMoves
  BY Frame DEF Moves
<1>1. ASSUME UNCHANGED <<member, cursor>> PROVE MembersKept
  BY <1>t, <1>1 DEF MembersKept, Counted, MembersBounded, CursorMove
<1>2. ASSUME NEW c \in Call, Destroy(c) PROVE MembersKept
  <2>1. CASE config = NoConfig
    BY <1>1, <1>2, <2>1 DEF Destroy, store
  <2>2. CASE config # NoConfig
    <3>1. /\ member' = {} /\ cursor' = [a \in Addr |-> 0]
          /\ log' = << >> /\ UNCHANGED issued
      BY <1>2, <2>2 DEF Destroy, Wiped
    <3>2. IsFiniteSet(member') /\ Cardinality(member') = 0
      BY <3>1, FS_EmptySet
    <3>. QED BY <1>t, <3>1, <3>2, RoomAssumption DEF MembersKept, Counted, MembersBounded, CursorMove
  <2>. QED BY <2>1, <2>2
<1>3. ASSUME NEW c \in Call, JoinPut(c) PROVE MembersKept
  <2>1. Admitted(call[c].who) /\ call[c].who \in Addr
    BY <1>3 DEF JoinPut, In, IInv, Calls, CallOK
  <2>. QED BY <2>1, AdmittedKeeps
<1>4. ASSUME NEW a \in Addr, LeaveRoom(a) \/ RemoveMember(a) PROVE MembersKept
  <2>1. member' = member \ {a} /\ cursor' = [cursor EXCEPT ![a] = 0]
    BY <1>4 DEF LeaveRoom, RemoveMember, Leave
  <2>2. /\ IsFiniteSet(member \ {a}) /\ Cardinality(member \ {a}) \in Nat
        /\ Cardinality(member \ {a}) <= Cardinality(member)
    <3>1. /\ IsFiniteSet(member \ {a})
          /\ Cardinality(member \ {a}) \in {Cardinality(member) - 1, Cardinality(member)}
      BY <1>t, FS_RemoveElement
    <3>2. Cardinality(member \ {a}) \in Nat
      BY <3>1, FS_CardinalityType
    <3>. QED BY <1>t, <3>1, <3>2
  <2>3. Cardinality(member \ {a}) <= MaxMembers
    BY <1>t, <2>2
  <2>4. member' \subseteq Addr /\ IsFiniteSet(member') /\ Cardinality(member') <= MaxMembers
    BY <1>t, <2>1, <2>2, <2>3
  <2>5. cursor' \in [Addr -> 0..MaxSeq]
    BY <1>t, <2>1, RoomAssumption
  <2>6. CursorMove
    BY <2>1 DEF CursorMove
  <2>. QED BY <2>4, <2>5, <2>6 DEF MembersKept, Counted, MembersBounded
<1>5. ASSUME NEW a \in Addr, NEW source \in {"agent", "operator"}, JoinLocal(a, source)
      PROVE  MembersKept
  BY <1>5, AdmittedKeeps DEF JoinLocal
<1>6. ASSUME NEW q \in queue, Injected(q) PROVE MembersKept
  <2>1. /\ member' = member /\ q.to \in Addr /\ q.seq \in 0..MaxSeq /\ q.seq <= issued
        /\ \/ cursor' = cursor
           \/ q.seq > cursor[q.to] /\ cursor' = [cursor EXCEPT ![q.to] = q.seq]
    BY <1>6, <1>t DEF Injected, Acknowledge, Numbered
  <2>2. cursor' \in [Addr -> 0..MaxSeq]
    BY <1>t, <2>1
  <2>3. CursorMove
    <3>1. cursor[q.to] \in Nat
      BY <1>t, <2>1, RoomAssumption
    <3>2. q.seq > cursor[q.to] => q.seq \in 1..issued
      BY <1>t, <2>1, <3>1, RoomAssumption
    <3>. QED BY <2>1, <3>1, <3>2 DEF CursorMove
  <2>. QED BY <1>t, <2>1, <2>2, <2>3 DEF MembersKept, Counted, MembersBounded
<1>. QED BY <1>m, <1>1, <1>2, <1>3, <1>4, <1>5, <1>6 DEF MemberMoves

(* What is queued: typed, numbered, and pinned to an agreed connection. *)
QueueKept ==
  /\ queue' \subseteq [id : Id, seq : 0..MaxSeq, to : Addr, conn : 0..MaxConn]
  /\ Numbered' /\ ConsentedDelivery'

LEMMA QueueStep == IInv /\ [Next]_vars => QueueKept
<1> SUFFICES ASSUME IInv, [Next]_vars PROVE QueueKept
  OBVIOUS
<1> DEFINE Q == [id : Id, seq : 0..MaxSeq, to : Addr, conn : 0..MaxConn]
           Fine(q) == /\ q \in Q /\ q.seq <= issued'
                      /\ q.to \in Foreign => q.conn \in ConnIds /\ consents'[q.conn] = Side
<1>t. /\ queue \subseteq Q /\ ConsentedDelivery /\ Numbered /\ issued \in Nat /\ issued' \in Nat
      /\ issued <= issued' /\ Standing
  BY Growing DEF IInv, TypeOK
<1>s. (sequence <= issued)'
  BY LedgerStep DEF LedgerKept
<1>o. ASSUME NEW q \in queue PROVE Fine(q)
  <2>1. q \in Q /\ q.seq <= issued /\ q.seq \in Nat
    BY <1>t, RoomAssumption DEF Numbered
  <2>2. q.to \in Foreign => q.conn \in ConnIds /\ consents'[q.conn] = Side
    BY <1>t DEF ConsentedDelivery, Standing
  <2>. QED BY <1>t, <2>1, <2>2
<1>n. ASSUME NEW q \in queue' PROVE Fine(q)
  <2>m. QueueMoves
    BY Frame DEF Moves
  <2>1. CASE queue' \subseteq queue
    BY <1>o, <1>n, <2>1
  <2>2. ASSUME NEW c \in Call, NEW a \in Addr, Deliver(c, a) PROVE Fine(q)
    <3> DEFINE r == call[c]
               e == [id |-> r.id, seq |-> r.seq, to |-> a, conn |-> ConnOf(r, a)]
    <3>1. r \in Callers /\ CallOK(r, consents, issued)
      BY DEF IInv, TypeOK, Calls
    <3>2. /\ r.id \in Id /\ r.seq \in 0..MaxSeq /\ r.seq <= issued
          /\ r.live \in [Peer -> 0..MaxConn] /\ Reachable(a, r.live)
      BY <2>2, <3>1, CallFields DEF Deliver, In, CallOK, Posting
    <3>3. /\ ConnOf(r, a) \in 0..MaxConn
          /\ a \in Foreign => ConnOf(r, a) \in ConnIds /\ consents[ConnOf(r, a)] = Side
      <4>1. CASE a \in Local
        BY <4>1, RoomAssumption, ConnAssumption DEF ConnOf
      <4>2. CASE a \notin Local
        <5>1. a \in Foreign /\ PeerOf[a] \in Peer
          BY <4>2, RoomAssumption DEF Addr
        <5>2. ConnOf(r, a) = r.live[PeerOf[a]] /\ r.live[PeerOf[a]] # 0
          BY <3>2, <4>2 DEF ConnOf, Reachable
        <5>3. consents[r.live[PeerOf[a]]] = Side
          BY <3>1, <5>1, <5>2 DEF CallOK
        <5>4. r.live[PeerOf[a]] \in 0..MaxConn
          BY <3>2, <5>1
        <5>5. r.live[PeerOf[a]] \in ConnIds
          BY <5>2, <5>4, ConnAssumption DEF ConnIds
        <5>. QED BY <5>2, <5>3, <5>4, <5>5
      <4>. QED BY <4>1, <4>2
    <3>4. e \in Q /\ e.seq = r.seq /\ e.to = a /\ e.conn = ConnOf(r, a)
      BY <3>2, <3>3
    <3>5. queue' \subseteq queue \union {e}
      BY <2>2 DEF Deliver, Entry
    <3>6. r.seq \in Nat
      BY <3>2, RoomAssumption
    <3> HIDE DEF e, r
    <3>7. Fine(e)
      BY <1>t, <3>2, <3>3, <3>4, <3>6 DEF Standing
    <3>. QED BY <1>n, <1>o, <3>5, <3>7
  <2>3. ASSUME NEW x \in queue, Injected(x) \/ LoseEntry(x) PROVE queue' \subseteq queue
    BY <2>3 DEF Injected, Acknowledge, LoseEntry
  <2>. QED BY <2>m, <2>1, <2>2, <2>3 DEF QueueMoves
<1>1. queue' \subseteq Q
  BY <1>n
<1>2. Numbered'
  BY <1>n, <1>s DEF Numbered
<1>3. ConsentedDelivery'
  BY <1>n DEF ConsentedDelivery
<1>. QED BY <1>1, <1>2, <1>3 DEF QueueKept

(* The call c carries what is due: its post, with the address still to come. *)
Carries(c, d) == /\ call[c].op = "post" /\ call[c].id = d[1]
                 /\ call[c].pc \in {"read", "slug", "fan"} /\ d[2] \in call[c].todo

LEMMA DueStep == IInv /\ [Next]_vars => due' \subseteq Id \X Addr /\ FanOutAccounted'
<1> SUFFICES ASSUME IInv, [Next]_vars PROVE due' \subseteq Id \X Addr /\ FanOutAccounted'
  OBVIOUS
<1>t. /\ due \subseteq Id \X Addr /\ call \in [Call -> Callers]
      /\ \A c \in Call : call[c] \in Callers /\ CallOK(call[c], consents, issued)
      /\ \A d \in due : \E c \in Call : Carries(c, d)
  BY DEF IInv, TypeOK, Calls, FanOutAccounted, Carries
<1>m. DueMoves
  BY Frame DEF Moves
<1>o. ASSUME NEW d \in due, d \in due' PROVE \E c \in Call : Carries(c, d)'
  <2>1. PICK c \in Call : Carries(c, d)
    BY <1>t
  <2>2. Fans(call[c])
    BY <2>1 DEF Carries, Fans
  <2>3. d = <<d[1], d[2]>>
    BY <1>t
  <2>4. ASSUME /\ call'[c].pc \in {"read", "slug", "fan"} /\ call'[c].todo = call[c].todo
               /\ call'[c].id = call[c].id /\ call'[c].op = call[c].op
        PROVE  Carries(c, d)'
    BY <2>1, <2>4 DEF Carries
  <2>5. ASSUME QueryFails(c) \/ Evict PROVE FALSE
    BY <1>o, <2>1, <2>5 DEF QueryFails, Evict, Carries
  <2>6. ASSUME NEW p \in Peer, ReadConnection(c, p) PROVE Carries(c, d)'
    <3> DEFINE r == [call[c] EXCEPT !.unread = @ \ {p}, !.live[p] = ActiveId(p)]
    <3>1. /\ call' = [call EXCEPT ![c] = IF r.unread = {} THEN AfterReads(r) ELSE r]
          /\ due' = {x \in due : x[1] # r.id \/ r.unread # {} \/ Reachable(x[2], r.live)}
      BY <2>6 DEF ReadConnection
    <3>2. /\ r.id = call[c].id /\ r.op = call[c].op /\ r.todo = call[c].todo /\ r.pc = call[c].pc
          /\ DOMAIN r = DOMAIN call[c]
      BY <1>t DEF Callers
    <3>3. /\ AfterReads(r).id = r.id /\ AfterReads(r).op = r.op /\ AfterReads(r).pc \in {"slug", "fan"}
          /\ AfterReads(r).todo = {a \in r.todo : Reachable(a, r.live)}
      BY <1>t DEF AfterReads, Callers
    <3> HIDE DEF r
    <3>4. call'[c] = IF r.unread = {} THEN AfterReads(r) ELSE r
      BY <1>t, <3>1
    <3>5. CASE r.unread = {}
      <4>1. Reachable(d[2], r.live)
        BY <1>o, <2>1, <3>1, <3>2, <3>5 DEF Carries
      <4>. QED BY <2>1, <3>2, <3>3, <3>4, <3>5, <4>1 DEF Carries
    <3>6. CASE r.unread # {}
      BY <2>1, <3>2, <3>4, <3>6 DEF Carries
    <3>. QED BY <3>5, <3>6
  <2>7. ASSUME NEW a \in Addr, Deliver(c, a) PROVE Carries(c, d)'
    <3> DEFINE r == [call[c] EXCEPT !.todo = @ \ {a}]
    <3>1. call' = [call EXCEPT ![c] = r] /\ due' = due \ {<<call[c].id, a>>} /\ call[c].pc = "fan"
      BY <2>7 DEF Deliver, In
    <3>2. r.id = call[c].id /\ r.op = call[c].op /\ r.todo = call[c].todo \ {a} /\ r.pc = call[c].pc
      BY <1>t DEF Callers
    <3>3. call'[c] = r
      BY <1>t, <3>1
    <3>4. d[2] # a
      BY <1>o, <2>1, <2>3, <3>1 DEF Carries
    <3> HIDE DEF r
    <3>. QED BY <2>1, <3>1, <3>2, <3>3, <3>4 DEF Carries
  <2>8. call[c].pc # "idle"
    BY <2>1 DEF Carries
  <2>9. Traced(c)
    BY TraceStep
  <2>. QED BY <2>2, <2>4, <2>5, <2>6, <2>7, <2>8, <2>9 DEF Traced
<1>1. ASSUME due' \subseteq due PROVE due' \subseteq Id \X Addr /\ FanOutAccounted'
  BY <1>1, <1>o, <1>t DEF FanOutAccounted, Carries
<1>2. ASSUME NEW c \in Call, NEW r \in Callers, CallOK(r, consents, issued),
             r.pc \in Posting \ {"slug", "fan"}, Commit(c, r), UNCHANGED connVars
      PROVE  due' \subseteq Id \X Addr /\ FanOutAccounted'
  <2>1. CASE due' = due
    BY <1>1, <2>1
  <2>2. ASSUME NEW T \in SUBSET Addr, due' = due \union {<<r.id, a>> : a \in T},
               call'[c].id = r.id, call'[c].op = "post",
               call'[c].pc \in {"read", "slug", "fan"}, call'[c].todo = T
        PROVE  due' \subseteq Id \X Addr /\ FanOutAccounted'
    <3>1. r.id \in Id
      BY <1>2 DEF CallOK
    <3>2. due' \subseteq Id \X Addr
      BY <1>t, <2>2, <3>1
    <3>3. \A a \in T : Carries(c, <<r.id, a>>)'
      BY <2>2 DEF Carries
    <3>4. \A d \in due' : \E u \in Call : Carries(u, d)'
      BY <1>o, <2>2, <3>3
    <3>. QED BY <3>2, <3>4 DEF FanOutAccounted, Carries
  <2>. QED BY <1>2, <2>1, <2>2, CommitDue
<1>3. ASSUME NEW c \in Call, PostStart(c) PROVE due' \subseteq Id \X Addr /\ FanOutAccounted'
  <2> DEFINE r == [call[c] EXCEPT !.conf = config]
  <2>1. r \in Callers /\ CallOK(r, consents, issued) /\ r.pc = "post"
    BY <1>3, StartRecord
  <2>2. UNCHANGED connVars
    BY <1>3 DEF PostStart
  <2> HIDE DEF r
  <2>3. due' = due \/ Commit(c, r)
    BY <1>3 DEF PostStart, r
  <2>. QED BY <1>1, <1>2, <2>1, <2>2, <2>3 DEF Posting
<1>4. ASSUME NEW c \in Call, PostCommit(c) PROVE due' \subseteq Id \X Addr /\ FanOutAccounted'
  <2>1. call[c].pc = "commit" /\ UNCHANGED connVars /\ Commit(c, call[c])
    BY <1>4 DEF PostCommit, In
  <2>. QED BY <1>2, <1>t, <2>1 DEF Posting
<1>5. ASSUME NEW c \in Call,
             \/ \E p \in Peer : ReadConnection(c, p)
             \/ \E a \in Addr : Deliver(c, a)
             \/ QueryFails(c) \/ Evict
      PROVE  due' \subseteq due
  BY <1>5 DEF ReadConnection, Deliver, QueryFails, Evict
<1>6. CASE Evict
  BY <1>1, <1>6 DEF Evict
<1>. QED BY <1>m, <1>1, <1>3, <1>4, <1>5, <1>6 DEF DueMoves

-----------------------------------------------------------------------------
(* The row and the config *)

LEMMA FaultsStep ==
  ASSUME IInv, [Next]_vars
  PROVE  /\ faults' \in 0..MaxFaults
         /\ faults' = 0 => faults = 0 /\ ~LoseWorker
<1>1. faults \in 0..MaxFaults /\ MaxFaults \in Nat
  BY RoomAssumption DEF IInv, TypeOK
<1>2. UNCHANGED faults \/ Fault
  BY Frame DEF Moves, FaultMoves, LoseWorker, Evict, QueryFails, LoseHub
<1>. QED BY <1>1, <1>2 DEF Fault, LoseWorker

(* A room that is to be configured is, or its worker was lost. *)
LEMMA ConfigureStays ==
  ASSUME IInv, [Next]_vars, NEW d \in Call, call[d].pc = "configure", call'[d].pc # "configure"
  PROVE  Configure(d) \/ LoseWorker
<1>t. call \in [Call -> Callers]
  BY DEF IInv, TypeOK
<1>m. CallMoves
  BY Frame DEF Moves
<1>1. ASSUME NEW c \in Call, NEW X, call' = [call EXCEPT ![c] = X] PROVE c = d
  BY <1>1, <1>t
<1>e. ASSUME NEW c \in Call, End(c) PROVE c = d
  BY <1>e, <1>1 DEF End
<1>g. ASSUME NEW c \in Call, NEW pc, Goto(c, pc) PROVE c = d
  BY <1>g, <1>1 DEF Goto
<1>2. ASSUME Evict PROVE FALSE
  BY <1>2, <1>t DEF Evict, InRoom
<1>3. ASSUME NEW c \in Call,
             \/ \E policy \in {"open", "invite"} : CreateByAgent(c, policy) \/ CreateByOperator(c, policy)
             \/ DeleteRoom(c)
             \/ \E a \in Foreign, source \in {"agent", "operator"} : JoinForeign(c, a, source)
             \/ \E m \in Id : OperatorPost(c, m)
      PROVE  FALSE
  <2>1. call[c].pc = "idle"
    BY <1>3 DEF CreateByAgent, CreateByOperator, CreateRoom, DeleteRoom, JoinForeign, OperatorPost, In
  <2>2. \E X : call' = [call EXCEPT ![c] = X]
    BY <1>3 DEF CreateByAgent, CreateByOperator, CreateRoom, DeleteRoom, JoinForeign, OperatorPost
  <2>. QED BY <1>1, <2>1, <2>2
<1>4. ASSUME NEW c \in Call, NEW m \in Id, NEW a \in Addr, AdmitSend(c, m, a) PROVE FALSE
  <2>1. call[c].pc = "idle" /\ (call' = call \/ \E X : call' = [call EXCEPT ![c] = X])
    BY <1>4 DEF AdmitSend, In
  <2>. QED BY <1>1, <2>1
<1>5. ASSUME NEW c \in Call, InsertRow(c) \/ JoinRead(c) \/ PostAuth(c) \/ CacheSlug(c) PROVE FALSE
  <2>1. call[c].pc \in {"insert", "join", "auth", "slug"}
    BY <1>5 DEF InsertRow, JoinRead, PostAuth, CacheSlug, In
  <2>2. End(c) \/ \E pc : Goto(c, pc)
    BY <1>5 DEF InsertRow, JoinRead, PostAuth, CacheSlug
  <2>. QED BY <1>e, <1>g, <2>1, <2>2
<1>6. ASSUME NEW c \in Call, Configure(c) PROVE Configure(d)
  <2>1. End(c) \/ Goto(c, "put")
    BY <1>6 DEF Configure
  <2>2. c = d
    BY <1>e, <1>g, <2>1
  <2>. QED BY <1>6, <2>2
<1>7. ASSUME NEW c \in Call, Destroy(c) \/ JoinPut(c) \/ Finish(c) \/ QueryFails(c) PROVE FALSE
  <2>1. call[c].pc \in {"destroy", "put", "fan", "join", "auth", "read", "slug"} /\ End(c)
    BY <1>7 DEF Destroy, JoinPut, Finish, QueryFails, Queries, In
  <2>. QED BY <1>e, <2>1
<1>8. ASSUME NEW c \in Call, PostStart(c) \/ PostCommit(c) PROVE FALSE
  <2>1. call[c].pc \in {"post", "commit"}
    BY <1>8 DEF PostStart, PostCommit, In
  <2>2. \E X : call' = [call EXCEPT ![c] = X]
    BY <1>8 DEF PostStart, PostCommit, Commit, NewPost, End
  <2>. QED BY <1>1, <2>1, <2>2
<1>9. ASSUME NEW c \in Call, (\E p \in Peer : ReadConnection(c, p)) \/ (\E a \in Addr : Deliver(c, a))
      PROVE  FALSE
  <2>1. call[c].pc \in {"read", "fan"}
    BY <1>9 DEF ReadConnection, Deliver, In
  <2>2. \E X : call' = [call EXCEPT ![c] = X]
    BY <1>9 DEF ReadConnection, Deliver
  <2>. QED BY <1>1, <2>1, <2>2
<1>10. ASSUME NEW c \in Call, LoseHub(c) PROVE FALSE
  <2> DEFINE r == [call[c] EXCEPT !.hub = FALSE]
  <2>1. call' = [call EXCEPT ![c] = r]
    BY <1>10 DEF LoseHub
  <2>2. r.pc = call[c].pc
    BY <1>t DEF Callers
  <2> HIDE DEF r
  <2>. QED BY <1>1, <1>t, <2>1, <2>2
<1>. QED BY <1>m, <1>2, <1>3, <1>4, <1>5, <1>6, <1>7, <1>8, <1>9, <1>10 DEF CallMoves

RowsKept ==
  /\ row' \in BOOLEAN /\ dropping' \in BOOLEAN /\ lives' \in 0..MaxLives
  /\ config' \in [policy : {"none", "open", "invite"}, slug : BOOLEAN]
  /\ RowMeansRoom'

LEMMA RowStep == IInv /\ [Next]_vars => RowsKept
<1> SUFFICES ASSUME IInv, [Next]_vars PROVE RowsKept
  OBVIOUS
<1> DEFINE Confs == [policy : {"none", "open", "invite"}, slug : BOOLEAN]
<1>t. /\ row \in BOOLEAN /\ dropping \in BOOLEAN /\ lives \in 0..MaxLives /\ config \in Confs
      /\ RowMeansRoom /\ MaxLives \in Nat
      /\ \A c \in Call : call[c] \in Callers /\ CallOK(call[c], consents, issued)
  BY RoomAssumption DEF IInv, TypeOK, Calls
<1>n. NoConfig \in Confs /\ NoConfig.policy = "none" /\ NoConfig.slug = FALSE
  BY DEF NoConfig
<1>c. ASSUME NEW c \in Call, Configure(c) PROVE config' \in Confs /\ config' # NoConfig
  <2>1. config' = call[c].conf /\ call[c].pc = "configure"
    BY <1>c DEF Configure, In
  <2>2. call[c].conf.policy # "none" /\ call[c].conf \in Confs
    BY <1>t, <2>1, CallFields DEF CallOK
  <2>. QED BY <1>n, <2>1, <2>2
<1>f. faults' = 0 => faults = 0 /\ ~LoseWorker
  BY FaultsStep
<1>s. ASSUME NEW d \in Call, call[d].pc = "configure" PROVE RowMeansRoom'
  BY <1>c, <1>f, <1>s, ConfigureStays DEF RowMeansRoom
<1>u. ASSUME UNCHANGED <<row, dropping, config>> PROVE RowMeansRoom'
  BY <1>f, <1>s, <1>t, <1>u DEF RowMeansRoom
<1>m. RowMoves
  BY Frame DEF Moves
<1>1. CASE UNCHANGED <<row, dropping, config, lives>>
  BY <1>1, <1>t, <1>u DEF RowsKept
<1>2. CASE DropRow
  <2>1. row' = FALSE /\ dropping' = FALSE /\ UNCHANGED <<config, lives>>
    BY <1>2 DEF DropRow, store, hist
  <2>. QED BY <1>t, <2>1 DEF RowsKept, RowMeansRoom
<1>3. CASE LoseWorker
  <2>1. UNCHANGED <<row, config, lives>> /\ dropping' \in BOOLEAN
    BY <1>3, <1>t DEF LoseWorker, store
  <2>. QED BY <1>3, <1>f, <1>t, <2>1 DEF RowsKept, RowMeansRoom
<1>4. ASSUME NEW c \in Call, InsertRow(c) PROVE RowsKept
  <2>1. /\ row' = TRUE /\ (row \/ lives < MaxLives) /\ lives' = IF row THEN lives ELSE lives + 1
        /\ UNCHANGED <<dropping, config>>
        /\ ~row => Goto(c, "configure")
    BY <1>4 DEF InsertRow, store
  <2>2. lives' \in 0..MaxLives
    BY <1>t, <2>1
  <2>3. CASE row
    <3>1. row = TRUE
      BY <1>t, <2>3
    <3>2. RowMeansRoom'
      BY <1>u, <2>1, <3>1
    <3>. QED BY <1>t, <2>1, <2>2, <3>2 DEF RowsKept
  <2>4. CASE ~row
    <3>0. call \in [Call -> Callers]
      BY DEF IInv, TypeOK
    <3>1. call' = [call EXCEPT ![c] = [call[c] EXCEPT !.pc = "configure"]]
      BY <2>1, <2>4, <3>0 DEF Goto
    <3>2. call'[c].pc = "configure"
      BY <3>0, <3>1 DEF Callers
    <3>3. RowMeansRoom'
      BY <3>2 DEF RowMeansRoom
    <3>. QED BY <1>t, <2>1, <2>2, <3>3 DEF RowsKept
  <2>. QED BY <2>3, <2>4
<1>5. ASSUME NEW c \in Call, Configure(c) PROVE RowsKept
  <2>1. UNCHANGED <<row, dropping, lives>>
    BY <1>5 DEF Configure, hist
  <2>. QED BY <1>5, <1>c, <1>t, <2>1 DEF RowsKept, RowMeansRoom
<1>6. ASSUME NEW c \in Call, Destroy(c) PROVE RowsKept
  <2>1. UNCHANGED <<row, lives>>
    BY <1>6 DEF Destroy, hist
  <2>2. CASE config = NoConfig
    <3>1. UNCHANGED <<config, dropping>>
      BY <1>6, <2>2 DEF Destroy, store
    <3>. QED BY <1>1, <2>1, <3>1
  <2>3. CASE config # NoConfig
    <3>1. config' = NoConfig /\ dropping' = TRUE
      BY <1>6, <2>3 DEF Destroy, Wiped
    <3>. QED BY <1>n, <1>t, <2>1, <3>1 DEF RowsKept, RowMeansRoom
  <2>. QED BY <2>2, <2>3
<1>7. ASSUME NEW c \in Call, CacheSlug(c) PROVE RowsKept
  <2> DEFINE k == [call[c].conf EXCEPT !.slug = TRUE]
  <2>1. config' = k /\ UNCHANGED <<row, dropping, lives>>
    BY <1>7 DEF CacheSlug, hist
  <2>2. call[c].conf \in Confs
    BY <1>t, CallFields
  <2>3. k \in Confs /\ k.slug = TRUE
    BY <2>2
  <2> HIDE DEF k
  <2>. QED BY <1>n, <1>t, <2>1, <2>3 DEF RowsKept, RowMeansRoom
<1>. QED BY <1>m, <1>1, <1>2, <1>3, <1>4, <1>5, <1>6, <1>7 DEF RowMoves

-----------------------------------------------------------------------------
(* The invariant, and what follows from it *)

LEMMA Starts == Init => IInv
<1> SUFFICES ASSUME Init PROVE IInv
  OBVIOUS
<1>1. ConnInv
  BY ConnStarts DEF Init
<1>2. Idle \in Callers /\ \A c \in Call : call[c] = Idle
  BY IdleOK DEF Init
<1>3. Calls
  BY <1>2, IdleOK DEF Init, Calls
<1>4. TypeOK
  <2>1. ConnTypeOK
    BY <1>1 DEF ConnInv
  <2>2. config \in [policy : {"none", "open", "invite"}, slug : BOOLEAN]
    BY DEF Init, NoConfig
  <2>3. member \subseteq Addr /\ cursor \in [Addr -> 0..MaxSeq] /\ index \in [Id -> 0..MaxSeq]
    BY RoomAssumption DEF Init
  <2>4. /\ sequence \in 0..MaxSeq /\ issued \in 0..MaxSeq /\ lives \in 0..MaxLives
        /\ faults \in 0..MaxFaults
    BY RoomAssumption DEF Init
  <2>5. call \in [Call -> Callers]
    BY <1>2 DEF Init
  <2>6. send \in [Id -> [by : Addr \union {Operator, None}, out : {"none", "ack", "nak", "operator"}]]
    BY DEF Init
  <2>7. row = FALSE /\ dropping = FALSE /\ ledger = {} /\ old = {} /\ queue = {} /\ due = {}
    BY DEF Init
  <2>8. log \in Seq(Id)
    BY DEF Init
  <2>. QED BY <2>1, <2>2, <2>3, <2>4, <2>5, <2>6, <2>7, <2>8 DEF TypeOK
<1>5. LedgerIsLog
  BY DEF Init, LedgerIsLog
<1>6. Settled
  BY <1>2, RoomAssumption DEF Init, Settled, Idle
<1>7. Numbered
  BY DEF Init, Numbered
<1>8. Counted
  BY FS_EmptySet, RoomAssumption DEF Init, Counted, MembersBounded
<1>9. ConsentedDelivery /\ FanOutAccounted /\ RowMeansRoom
  BY DEF Init, ConsentedDelivery, FanOutAccounted, RowMeansRoom
<1>. QED BY <1>1, <1>3, <1>4, <1>5, <1>6, <1>7, <1>8, <1>9 DEF IInv

LEMMA Preserved == IInv /\ [Next]_vars => IInv'
<1> SUFFICES ASSUME IInv, [Next]_vars PROVE IInv'
  OBVIOUS
<1>1. ConnInv'
  BY ConnsStep
<1>2. call' \in [Call -> Callers] /\ Calls'
  BY CallsStep DEF CallsKept
<1>3. LedgerTypes' /\ LedgerIsLog'
  BY LedgerStep DEF LedgerKept
<1>4. Settled'
  BY SettledStep
<1>5. member' \subseteq Addr /\ cursor' \in [Addr -> 0..MaxSeq] /\ Counted'
  BY MembersStep DEF MembersKept
<1>6. /\ queue' \subseteq [id : Id, seq : 0..MaxSeq, to : Addr, conn : 0..MaxConn]
      /\ Numbered' /\ ConsentedDelivery'
  BY QueueStep DEF QueueKept
<1>7. due' \subseteq Id \X Addr /\ FanOutAccounted'
  BY DueStep
<1>8. /\ row' \in BOOLEAN /\ dropping' \in BOOLEAN /\ lives' \in 0..MaxLives
      /\ config' \in [policy : {"none", "open", "invite"}, slug : BOOLEAN]
      /\ RowMeansRoom'
  BY RowStep DEF RowsKept
<1>9. faults' \in 0..MaxFaults
  BY FaultsStep
<1>10. send' \in [Id -> [by : Addr \union {Operator, None}, out : {"none", "ack", "nak", "operator"}]]
  BY SendsStep DEF SendsKept
<1>11. TypeOK'
  BY <1>1, <1>2, <1>3, <1>5, <1>6, <1>7, <1>8, <1>9, <1>10 DEF TypeOK, LedgerTypes, ConnInv
<1>. QED BY <1>1, <1>2, <1>3, <1>4, <1>5, <1>6, <1>7, <1>8, <1>11 DEF IInv

LEMMA Invariance == Spec => []IInv
BY Starts, Preserved, PTL DEF Spec

(* The types of the room's storage, of D1 and of the calls in progress, for any *)
(* number of calls that interleave where post, join, create and delete wait.    *)
THEOREM TypeCorrect == Spec => []TypeOK
<1>1. IInv => TypeOK
  BY DEF IInv
<1>. QED BY <1>1, Invariance, PTL

(* The stored ledger is the log of the accepted posts, and a stored id is indexed *)
(* under its number, so the transaction of post answers a repeated frame from the *)
(* ledger: whatever posts, prunings, deletions and evictions overlap.             *)
THEOREM LedgerHolds == Spec => []LedgerIsLog
<1>1. IInv => LedgerIsLog
  BY DEF IInv
<1>. QED BY <1>1, Invariance, PTL

(* MAX_ROOM_MEMBERS is never passed, however many joins wait for D1 at once: join *)
(* looks at the size of the room again after its last await.                      *)
THEOREM MembersBoundedHolds == Spec => []MembersBounded
<1>1. IInv => MembersBounded
  BY DEF IInv, Counted
<1>. QED BY <1>1, Invariance, PTL

(* A connection row is active only if both organizations agreed to that very row; *)
(* accept reads it and updates it later (index.ts), other requests in between.    *)
THEOREM BilateralHolds == Spec => []Bilateral
<1>1. IInv => Bilateral
  BY DEF IInv, ConnInv
<1>. QED BY <1>1, Invariance, PTL

(* What queueDelivery is given for an agent of another organization names a       *)
(* connection both agreed to, though revocations and new requests may come        *)
(* between the queries of the post and its fan-out.                               *)
THEOREM ConsentedDeliveryHolds == Spec => []ConsentedDelivery
<1>1. IInv => ConsentedDelivery
  BY DEF IInv
<1>. QED BY <1>1, Invariance, PTL

(* Every member at the commit of a post is queued for, refused or still to come   *)
(* in the fan-out, unless a query fails or the room is evicted: post leaves       *)
(* nobody out when its fan-out waits for connectionStates and roomOrgSlug.        *)
THEOREM FanOutAccountedHolds == Spec => []FanOutAccounted
<1>1. IInv => FanOutAccounted
  BY DEF IInv
<1>. QED BY <1>1, Invariance, PTL

(* Without failures a row of D1 stands for a room: createRoom and destroy, which  *)
(* write the two one after the other, leave no row alone when they overlap.       *)
THEOREM RowMeansRoomHolds == Spec => []RowMeansRoom
<1>1. IInv => RowMeansRoom
  BY DEF IInv
<1>. QED BY <1>1, Invariance, PTL

-----------------------------------------------------------------------------
(* A room implements RoomLog *)

LEMMA LogStarts == Init => Log!LogInit
BY DEF Init, Log!LogInit

(* Each step accepts a message, moves one cursor, starts the log over, or is *)
(* nothing to RoomLog.                                                       *)
LEMMA LogStep == IInv /\ [Next]_vars => [Log!LogNext]_<<log, issued, cursor>>
<1> SUFFICES ASSUME IInv, [Next]_vars PROVE [Log!LogNext]_<<log, issued, cursor>>
  OBVIOUS
<1>l. LogMove
  BY LedgerStep DEF LedgerKept
<1>c. CursorMove
  BY MembersStep DEF MembersKept
<1>1. CASE UNCHANGED <<log, issued>>
  <2>1. CASE UNCHANGED cursor
    BY <1>1, <2>1
  <2>2. ASSUME NEW a \in Addr, cursor' = [cursor EXCEPT ![a] = 0] PROVE Log!LogNext
    BY <1>1, <2>2 DEF Log!LogNext, Log!Forget
  <2>3. ASSUME NEW a \in Addr, NEW n \in 1..issued, cursor[a] < n, cursor' = [cursor EXCEPT ![a] = n]
        PROVE  Log!LogNext
    <3>1. issued \in Nat /\ n <= issued
      BY <2>3, RoomAssumption DEF IInv, TypeOK
    <3>2. Log!Acked(a, n)
      BY <1>1, <2>3, <3>1 DEF Log!Acked
    <3>. QED BY <3>2 DEF Log!LogNext
  <2>4. ASSUME log' = << >>, cursor' = [a \in Addr |-> 0], UNCHANGED issued PROVE Log!LogNext
    BY <2>4 DEF Log!LogNext, Log!Reset
  <2>. QED BY <1>c, <2>1, <2>2, <2>3, <2>4 DEF CursorMove
<1>2. ASSUME UNCHANGED cursor, NEW m \in Id, \A i \in 1..Len(log) : log[i] # m,
             log' = Append(log, m), issued' = IF Len(log') > issued THEN Len(log') ELSE issued
      PROVE  Log!LogNext
  BY <1>2 DEF Log!LogNext, Log!Accept
<1>3. ASSUME log' = << >>, cursor' = [a \in Addr |-> 0], UNCHANGED issued PROVE Log!LogNext
  BY <1>3 DEF Log!LogNext, Log!Reset
<1>. QED BY <1>l, <1>1, <1>2, <1>3 DEF LogMove

(* Every behaviour of the room is one of RoomLog: one log, each message in it     *)
(* once, no gaps, and a member's cursor only grows, to numbers that were given    *)
(* out, until it leaves or the room is deleted (post, acknowledge, destroy).      *)
THEOREM RefinesLog == Spec => LogRefined
<1>1. Spec => Log!LogInit /\ [][Log!LogNext]_<<log, issued, cursor>>
  BY LogStarts, LogStep, Invariance, PTL DEF Spec
<1>. QED BY <1>1 DEF LogRefined, Log!LogSpec
=============================================================================
