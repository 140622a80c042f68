-------------------------------- MODULE Room --------------------------------
(***************************************************************************)
(* A Room Durable Object (do/room.ts), the routes of index.ts and the      *)
(* branches of do/host-hub.ts that call it, and the room row of D1.        *)
(*                                                                         *)
(* A call is one invocation in progress.  It is cut into actions where it  *)
(* awaits D1 or another object: the input gate lets other events in there. *)
(* Between two such awaits it only touches its own storage, which no other *)
(* event can interrupt.  An answer of D1 may be old when the call resumes, *)
(* so the read and what follows it are separate actions.  A call keeps the *)
(* config it read when it began.                                           *)
(*                                                                         *)
(* The members of the room's own organization are Local; Foreign members   *)
(* belong to a peer and count only while the two are connected.            *)
(***************************************************************************)
EXTENDS Connections, Sequences, FiniteSets

CONSTANTS
  Local, Foreign,  \* agent addresses
  PeerOf,          \* foreign address -> its organization
  Operator,        \* operator@transit
  Id,              \* ids of posts
  Call,            \* calls that may be in progress at once
  None,
  MaxMembers,      \* MAX_ROOM_MEMBERS
  MaxSeq,          \* bound on the room's sequence
  MaxLives,        \* bound on how often the room is created
  MaxFaults        \* bound on failed queries and RPCs and on evictions

Addr == Local \union Foreign
Seqs == 1..MaxSeq

ASSUME RoomAssumption ==
  /\ Local \intersect Foreign = {} /\ Operator \notin Addr /\ None \notin Addr \union Id
  /\ None # Operator /\ PeerOf \in [Foreign -> Peer]
  /\ MaxMembers \in Nat /\ MaxSeq \in Nat /\ MaxLives \in Nat /\ MaxFaults \in Nat

VARIABLES
  row,       \* D1: the room's row exists
  dropping,  \* destroy's background deletion of that row is under way
  config,    \* "config": NoConfig or [policy, slug]; slug: orgSlug is cached
  member,    \* "member:<address>"
  cursor,    \* their lastAckedSeq
  sequence,  \* "sequence"
  ledger,    \* "message:<seq>": records [seq, id]
  index,     \* "message_id:<id>" -> seq, 0 if absent
  old,       \* entries of the ledger past ROOM_RETENTION_MS
  call,      \* the invocations in progress
  send,      \* HostHub's view of a post: its sender and recorded outcome
  queue,     \* entries in the members' HostHubs: [id, seq, to, conn]
  log,       \* history: the ids accepted since the storage was last empty
  issued,    \* history: the highest sequence ever given out
  due,       \* history: <<id, address>> a committed post still has to reach
  lives,     \* history: how often the room was created
  faults     \* how many faults happened so far

store == <<config, member, cursor, sequence, ledger, index, old, log, issued>>
hist  == <<lives, faults>>
vars  == <<connVars, row, dropping, store, call, send, queue, due, hist>>

NoConfig == [policy |-> "none", slug |-> FALSE]
NoLive   == [p \in Peer |-> 0]
Idle     == [pc |-> "idle", op |-> "none", id |-> None, who |-> None, hub |-> FALSE,
             conf |-> NoConfig, seq |-> 0, unread |-> {}, live |-> NoLive, todo |-> {}]

Init ==
  /\ ConnInit
  /\ row = FALSE /\ dropping = FALSE /\ config = NoConfig
  /\ member = {} /\ cursor = [a \in Addr |-> 0]
  /\ sequence = 0 /\ ledger = {} /\ index = [m \in Id |-> 0] /\ old = {}
  /\ call = [c \in Call |-> Idle]
  /\ send = [m \in Id |-> [by |-> None, out |-> "none"]]
  /\ queue = {} /\ log = << >> /\ issued = 0 /\ due = {}
  /\ lives = 0 /\ faults = 0

Orgs(A)         == {PeerOf[a] : a \in A \intersect Foreign}
Reachable(a, live) == a \in Local \/ live[PeerOf[a]] # 0
Goto(c, pc)     == call' = [call EXCEPT ![c].pc = pc]
End(c)          == call' = [call EXCEPT ![c] = Idle]
In(c, pc)       == call[c].pc = pc

(* The outcome HostHub records for a post, if it is still there to hear it *)
Answer(c, out) ==
  IF call[c].op = "post" /\ call[c].hub
    THEN [send EXCEPT ![call[c].id].out = out] ELSE send

-----------------------------------------------------------------------------
(* Creating and deleting: lib/transit/rooms.ts, configure, destroy *)

CreateRoom(c, who, policy) ==
  /\ In(c, "idle") /\ ~row
  /\ call' = [call EXCEPT ![c] = [Idle EXCEPT !.pc = "insert", !.op = "create",
                                              !.who = who, !.conf.policy = policy]]
  /\ UNCHANGED <<connVars, row, dropping, store, send, queue, due, hist>>

(* create_room, for an agent of the caller's host: the creator becomes a member *)
CreateByAgent(c, policy) == \E a \in Local : CreateRoom(c, a, policy)

(* POST /api/rooms: the operator creates, and joins nothing *)
CreateByOperator(c, policy) == CreateRoom(c, Operator, policy)

(* The INSERT fails on the primary key when another request was faster *)
InsertRow(c) ==
  /\ In(c, "insert")
  /\ row \/ lives < MaxLives
  /\ row' = TRUE
  /\ lives' = IF row THEN lives ELSE lives + 1
  /\ IF row THEN End(c) ELSE Goto(c, "configure")
  /\ UNCHANGED <<connVars, dropping, store, send, queue, due, faults>>

Configure(c) ==
  /\ In(c, "configure")
  /\ config' = call[c].conf
  /\ IF call[c].who = Operator THEN End(c) ELSE Goto(c, "put")
  /\ UNCHANGED <<connVars, row, dropping, member, cursor, sequence, ledger, index,
                 old, log, issued, send, queue, due, hist>>

(* DELETE /api/rooms/:name looks for the row *)
DeleteRoom(c) ==
  /\ In(c, "idle") /\ row
  /\ call' = [call EXCEPT ![c] = [Idle EXCEPT !.pc = "destroy", !.op = "delete"]]
  /\ UNCHANGED <<connVars, row, dropping, store, send, queue, due, hist>>

Wiped ==
  /\ config' = NoConfig /\ member' = {} /\ cursor' = [a \in Addr |-> 0]
  /\ sequence' = 0 /\ ledger' = {} /\ index' = [m \in Id |-> 0] /\ old' = {}
  /\ log' = << >>
  /\ UNCHANGED issued

(* variant: the row is left for the archive *)
DestroyKeepsRow(c) ==
  /\ In(c, "destroy")
  /\ IF config = NoConfig THEN UNCHANGED store ELSE Wiped
  /\ End(c)
  /\ UNCHANGED <<connVars, row, dropping, send, queue, due, hist>>

(* destroy throws where no room is; else the storage goes, then the row *)
Destroy(c) ==
  /\ In(c, "destroy")
  /\ IF config = NoConfig THEN UNCHANGED <<store, dropping>> ELSE Wiped /\ dropping' = TRUE
  /\ End(c)
  /\ UNCHANGED <<connVars, row, send, queue, due, hist>>

DropRow ==
  /\ dropping
  /\ row' = FALSE /\ dropping' = FALSE
  /\ UNCHANGED <<connVars, store, call, send, queue, due, hist>>

-----------------------------------------------------------------------------
(* Membership *)

(* The last part of join: hasMember, the size of the room, the new member *)
Admitted(a) ==
  IF config # NoConfig /\ a \notin member /\ Cardinality(member) < MaxMembers
    THEN /\ member' = member \union {a}
         /\ cursor' = [cursor EXCEPT ![a] = 0]
    ELSE UNCHANGED <<member, cursor>>

MayJoin(source) == config # NoConfig /\ ~(config.policy = "invite" /\ source = "agent")

JoinLocal(a, source) ==
  /\ a \in Local \ member
  /\ MayJoin(source)
  /\ Admitted(a)
  /\ UNCHANGED <<connVars, row, dropping, config, sequence, ledger, index, old, log,
                 issued, call, send, queue, due, hist>>

(* The caller resolved the connection; join checks the policy and asks D1 *)
JoinForeign(c, a, source) ==
  /\ In(c, "idle") /\ a \in Foreign
  /\ ActiveId(PeerOf[a]) # 0
  /\ MayJoin(source)
  /\ call' = [call EXCEPT ![c] =
                [Idle EXCEPT !.pc = "join", !.op = "join", !.who = a,
                             !.live[PeerOf[a]] = ActiveId(PeerOf[a])]]
  /\ UNCHANGED <<connVars, row, dropping, store, send, queue, due, hist>>

JoinRead(c) ==
  /\ In(c, "join")
  /\ LET p == PeerOf[call[c].who]
     IN IF ActiveId(p) = call[c].live[p] THEN Goto(c, "put") ELSE End(c)
  /\ UNCHANGED <<connVars, row, dropping, store, send, queue, due, hist>>

(* variant: the size of the room is the one join saw before it asked D1 *)
JoinPutUnchecked(c) ==
  /\ In(c, "put")
  /\ member' = IF config # NoConfig THEN member \union {call[c].who} ELSE member
  /\ cursor' = [cursor EXCEPT ![call[c].who] = 0]
  /\ End(c)
  /\ UNCHANGED <<connVars, row, dropping, config, sequence, ledger, index, old, log,
                 issued, send, queue, due, hist>>

JoinPut(c) ==
  /\ In(c, "put")
  /\ Admitted(call[c].who)
  /\ End(c)
  /\ UNCHANGED <<connVars, row, dropping, config, sequence, ledger, index, old, log,
                 issued, send, queue, due, hist>>

Leave(a) ==
  /\ config # NoConfig /\ a \in member
  /\ member' = member \ {a}
  /\ cursor' = [cursor EXCEPT ![a] = 0]
  /\ UNCHANGED <<connVars, row, dropping, config, sequence, ledger, index, old, log,
                 issued, call, send, queue, due, hist>>

(* leave_room: an agent of a peer needs its connection for it *)
LeaveRoom(a) == Leave(a) /\ (a \in Foreign => ActiveId(PeerOf[a]) # 0)

(* DELETE /api/rooms/:name/members/:address, for any member *)
RemoveMember(a) == Leave(a)

HasMember(a) == config # NoConfig /\ a \in member

-----------------------------------------------------------------------------
(* Posting *)

(***************************************************************************)
(* HostHub admits a send to a room: the connection of a foreign room, the  *)
(* row, and the membership, each refused for good; a row without a room    *)
(* throws, and nothing is recorded.  A frame comes again until an outcome  *)
(* is recorded, also while an earlier admission of it is still under way.  *)
(***************************************************************************)
AdmitSend(c, m, a) ==
  /\ In(c, "idle")
  /\ send[m].out = "none" /\ send[m].by \in {None, a}
  /\ ~row \/ config # NoConfig
  /\ IF row /\ HasMember(a) /\ (a \in Local \/ ActiveId(PeerOf[a]) # 0)
       THEN /\ call' = [call EXCEPT ![c] = [Idle EXCEPT !.pc = "post", !.op = "post",
                                                        !.id = m, !.who = a, !.hub = TRUE]]
            /\ send' = [send EXCEPT ![m].by = a]
       ELSE /\ send' = [send EXCEPT ![m] = [by |-> a, out |-> "nak"]]
            /\ UNCHANGED call
  /\ UNCHANGED <<connVars, row, dropping, store, queue, due, hist>>

(* POST /api/rooms/:name/post: no id of its own, so never sent twice *)
OperatorPost(c, m) ==
  /\ In(c, "idle") /\ send[m].by = None
  /\ config # NoConfig
  /\ call' = [call EXCEPT ![c] = [Idle EXCEPT !.pc = "post", !.op = "post",
                                              !.id = m, !.who = Operator]]
  /\ send' = [send EXCEPT ![m] = [by |-> Operator, out |-> "operator"]]
  /\ UNCHANGED <<connVars, row, dropping, store, queue, due, hist>>

(* Where a fan-out goes next, and the addresses it is left with *)
AfterReads(r) ==
  [r EXCEPT !.pc = IF Orgs(r.todo) # {} /\ ~r.conf.slug THEN "slug" ELSE "fan",
            !.todo = {a \in @ : Reachable(a, r.live)}]
FanOut(r, targets) ==
  LET s == [r EXCEPT !.todo = targets, !.unread = Orgs(targets)]
  IN IF s.unread = {} THEN AfterReads(s) ELSE [s EXCEPT !.pc = "read"]

(* A new post: its number, its entry, its targets *)
NewPost(c, r) ==
  /\ sequence < MaxSeq
  /\ sequence' = sequence + 1
  /\ ledger' = ledger \union {[seq |-> sequence', id |-> r.id]}
  /\ index' = [index EXCEPT ![r.id] = sequence']
  /\ log' = Append(log, r.id)
  /\ issued' = IF sequence' > issued THEN sequence' ELSE issued
  /\ due' = due \union {<<r.id, a>> : a \in member \ {r.who}}
  /\ call' = [call EXCEPT ![c] = FanOut([r EXCEPT !.seq = sequence'], member \ {r.who})]
  /\ UNCHANGED send

(***************************************************************************)
(* The transaction of post: an id that is in the ledger is answered from   *)
(* it; otherwise the post takes the next number and goes to the members of *)
(* this moment.                                                            *)
(***************************************************************************)
Commit(c, r) ==
  IF index[r.id] # 0
    THEN /\ End(c) /\ send' = Answer(c, "ack")
         /\ UNCHANGED <<sequence, ledger, index, log, issued, due>>
    ELSE NewPost(c, r)

(* post, up to the query for the sender's organization if it is foreign *)
PostStart(c) ==
  /\ In(c, "post")
  /\ LET r == [call[c] EXCEPT !.conf = config]
     IN \/ /\ config = NoConfig \/ r.who \notin member \union {Operator}
           /\ End(c) /\ send' = Answer(c, "nak")
           /\ UNCHANGED <<sequence, ledger, index, log, issued, due>>
        \/ /\ config # NoConfig /\ r.who \in member \intersect Foreign
           /\ call' = [call EXCEPT ![c] = [r EXCEPT !.pc = "auth"]]
           /\ UNCHANGED <<send, sequence, ledger, index, log, issued, due>>
        \/ /\ config # NoConfig /\ r.who \in (member \intersect Local) \union {Operator}
           /\ Commit(c, r)
  /\ UNCHANGED <<connVars, row, dropping, config, member, cursor, old, queue, hist>>

PostAuth(c) ==
  /\ In(c, "auth")
  /\ IF ActiveId(PeerOf[call[c].who]) # 0
       THEN Goto(c, "commit") /\ UNCHANGED send
       ELSE End(c) /\ send' = Answer(c, "nak")
  /\ UNCHANGED <<connVars, row, dropping, store, queue, due, hist>>

PostCommit(c) ==
  /\ In(c, "commit")
  /\ Commit(c, call[c])
  /\ UNCHANGED <<connVars, row, dropping, config, member, cursor, old, queue, hist>>

(* connectionStates: one query per foreign organization among the targets *)
ReadConnection(c, p) ==
  /\ In(c, "read") /\ p \in call[c].unread
  /\ LET r == [call[c] EXCEPT !.unread = @ \ {p}, !.live[p] = ActiveId(p)]
     IN /\ call' = [call EXCEPT ![c] = IF r.unread = {} THEN AfterReads(r) ELSE r]
        /\ due' = {d \in due : d[1] # r.id \/ r.unread # {}
                                 \/ Reachable(d[2], r.live)}
  /\ UNCHANGED <<connVars, row, dropping, store, send, queue, hist>>

(* roomOrgSlug: writes back the config this call began with *)
CacheSlug(c) ==
  /\ In(c, "slug")
  /\ config' = [call[c].conf EXCEPT !.slug = TRUE]
  /\ Goto(c, "fan")
  /\ UNCHANGED <<connVars, row, dropping, member, cursor, sequence, ledger, index,
                 old, log, issued, send, queue, due, hist>>

ConnOf(r, a) == IF a \in Local THEN 0 ELSE r.live[PeerOf[a]]

(* variant: the entry is pinned to whatever connection row the pair has *)
EntryAnyRow(r, a) ==
  [id |-> r.id, seq |-> r.seq, to |-> a,
   conn |-> IF a \in Local THEN 0 ELSE conn[PeerOf[a]].id]

(* variant: the entry does not carry the number of the post *)
EntryNoSeq(r, a) == [id |-> r.id, to |-> a, conn |-> ConnOf(r, a)]

Entry(r, a) == [id |-> r.id, seq |-> r.seq, to |-> a, conn |-> ConnOf(r, a)]

(* One queueDelivery of the fan-out: HostHub queues what it does not have, *)
(* or knows no such agent or cannot be reached, which is recorded as dead  *)
Deliver(c, a) ==
  /\ In(c, "fan") /\ a \in call[c].todo
  /\ \/ queue' = IF \E q \in queue : q.id = call[c].id /\ q.to = a
                    THEN queue ELSE queue \union {Entry(call[c], a)}
     \/ UNCHANGED queue
  /\ call' = [call EXCEPT ![c].todo = @ \ {a}]
  /\ due' = due \ {<<call[c].id, a>>}
  /\ UNCHANGED <<connVars, row, dropping, store, send, hist>>

(* variant: the answer does not wait for the fan-out *)
FinishEarly(c) ==
  /\ In(c, "fan")
  /\ End(c) /\ send' = Answer(c, "ack")
  /\ ledger' = {e \in ledger : e.seq \notin old}
  /\ index' = [m \in Id |-> IF index[m] \in old THEN 0 ELSE index[m]]
  /\ old' = {}
  /\ UNCHANGED <<connVars, row, dropping, config, member, cursor, sequence, log,
                 issued, queue, due, hist>>

(* variant: pruning leaves the index of ids alone *)
FinishKeepsIndex(c) ==
  /\ In(c, "fan") /\ call[c].todo = {}
  /\ End(c) /\ send' = Answer(c, "ack")
  /\ ledger' = {e \in ledger : e.seq \notin old}
  /\ old' = {}
  /\ UNCHANGED <<connVars, row, dropping, config, member, cursor, sequence, index, log,
                 issued, queue, due, hist>>

(* The rest of post: the mirror in D1, the broadcast, pruneLedger *)
Finish(c) ==
  /\ In(c, "fan") /\ call[c].todo = {}
  /\ End(c) /\ send' = Answer(c, "ack")
  /\ ledger' = {e \in ledger : e.seq \notin old}
  /\ index' = [m \in Id |-> IF index[m] \in old THEN 0 ELSE index[m]]
  /\ old' = {}
  /\ UNCHANGED <<connVars, row, dropping, config, member, cursor, sequence, log,
                 issued, queue, due, hist>>

-----------------------------------------------------------------------------
(* HostHub, time and faults *)

(* variant: the cursor follows the last acknowledgement, not the highest *)
AcknowledgeLast(q) ==
  /\ queue' = queue \ {q}
  /\ cursor' = IF config # NoConfig /\ q.to \in member /\ q.seq > 0
                 THEN [cursor EXCEPT ![q.to] = q.seq] ELSE cursor
  /\ UNCHANGED <<connVars, row, dropping, config, member, sequence, ledger, index,
                 old, log, issued, call, send, due, hist>>

(* The agent has the envelope; HostHub tells the room (acknowledge) *)
Acknowledge(q) ==
  /\ queue' = queue \ {q}
  /\ cursor' = IF config # NoConfig /\ q.to \in member /\ q.seq > cursor[q.to]
                 THEN [cursor EXCEPT ![q.to] = q.seq] ELSE cursor
  /\ UNCHANGED <<connVars, row, dropping, config, member, sequence, ledger, index,
                 old, log, issued, call, send, due, hist>>

(* HostHub's dispatch sends an entry only while its connection is active *)
Injected(q) == q \in queue /\ (q.conn = 0 \/ IsActive(q.conn)) /\ Acknowledge(q)

(* A dead letter, or an acknowledgement the room never hears of *)
LoseEntry(q) ==
  /\ q \in queue
  /\ queue' = queue \ {q}
  /\ UNCHANGED <<connVars, row, dropping, store, call, send, due, hist>>

(***************************************************************************)
(* A week passes for an entry.  The spool keeps a message for a day, so no *)
(* frame of this post is still to come and no call of it is in progress.   *)
(***************************************************************************)
Age(e) ==
  /\ e \in ledger /\ e.seq \notin old
  /\ send[e.id].out # "none"
  /\ \A c \in Call : call[c].id # e.id
  /\ old' = old \union {e.seq}
  /\ UNCHANGED <<connVars, row, dropping, config, member, cursor, sequence, ledger,
                 index, log, issued, call, send, queue, due, hist>>

InRoom(c)  == call[c].pc \in {"join", "put", "auth", "commit", "read", "slug", "fan"}
Queries(c) == call[c].pc \in {"join", "auth", "read", "slug"}
Fault      == faults < MaxFaults /\ faults' = faults + 1

(* A query fails: the call throws, and HostHub records "not_member" *)
QueryFails(c) ==
  /\ Fault /\ Queries(c)
  /\ End(c) /\ send' = Answer(c, "nak")
  /\ due' = {d \in due : d[1] # call[c].id}
  /\ UNCHANGED <<connVars, row, dropping, store, queue, lives>>

(* The room is evicted: its calls end, and their callers see an exception *)
Evict ==
  /\ Fault /\ \E c \in Call : InRoom(c)
  /\ call' = [c \in Call |-> IF InRoom(c) THEN Idle ELSE call[c]]
  /\ send' = [m \in Id |->
                IF \E c \in Call : InRoom(c) /\ call[c].hub /\ call[c].id = m
                  THEN [send[m] EXCEPT !.out = "nak"] ELSE send[m]]
  /\ due' = {}
  /\ UNCHANGED <<connVars, row, dropping, store, queue, lives>>

(* The HostHub that waits for a call is evicted; the call goes on *)
LoseHub(c) ==
  /\ Fault /\ call[c].hub
  /\ call' = [call EXCEPT ![c].hub = FALSE]
  /\ UNCHANGED <<connVars, row, dropping, store, send, queue, due, lives>>

(* The worker that creates the room ends early, or the row is not dropped *)
LoseWorker ==
  /\ Fault
  /\ \/ \E c \in Call : call[c].pc \in {"insert", "configure"} /\ End(c) /\ UNCHANGED dropping
     \/ dropping /\ dropping' = FALSE /\ UNCHANGED call
  /\ UNCHANGED <<connVars, row, store, send, queue, due, lives>>

Others == UNCHANGED <<row, dropping, store, call, send, queue, due, hist>>

Next ==
  \/ ConnNext /\ Others
  \/ DropRow \/ Evict \/ LoseWorker
  \/ \E c \in Call :
       \/ \E policy \in {"open", "invite"} :
            CreateByAgent(c, policy) \/ CreateByOperator(c, policy)
       \/ InsertRow(c) \/ Configure(c) \/ DeleteRoom(c) \/ Destroy(c)
       \/ \E a \in Foreign, source \in {"agent", "operator"} : JoinForeign(c, a, source)
       \/ JoinRead(c) \/ JoinPut(c)
       \/ \E m \in Id : OperatorPost(c, m) \/ \E a \in Addr : AdmitSend(c, m, a)
       \/ PostStart(c) \/ PostAuth(c) \/ PostCommit(c)
       \/ \E p \in Peer : ReadConnection(c, p)
       \/ CacheSlug(c)
       \/ \E a \in Addr : Deliver(c, a)
       \/ Finish(c)
       \/ QueryFails(c) \/ LoseHub(c)
  \/ \E a \in Addr :
       LeaveRoom(a) \/ RemoveMember(a) \/ \E source \in {"agent", "operator"} : JoinLocal(a, source)
  \/ \E q \in queue : Injected(q) \/ LoseEntry(q)
  \/ \E e \in ledger : Age(e)

Spec == Init /\ [][Next]_vars

-----------------------------------------------------------------------------
Callers == [pc : {"idle", "insert", "configure", "destroy", "join", "put", "post", "auth",
                  "commit", "read", "slug", "fan"},
            op : {"none", "create", "delete", "join", "post"},
            id : Id \union {None}, who : Addr \union {Operator, None},
            hub : BOOLEAN, conf : [policy : {"none", "open", "invite"}, slug : BOOLEAN],
            seq : 0..MaxSeq, unread : SUBSET Peer, live : [Peer -> 0..MaxConn],
            todo : SUBSET Addr]

(* The types of the room's storage, of D1 and of the calls in progress. *)
TypeOK ==
  /\ ConnTypeOK
  /\ row \in BOOLEAN /\ dropping \in BOOLEAN
  /\ config \in [policy : {"none", "open", "invite"}, slug : BOOLEAN]
  /\ member \subseteq Addr /\ cursor \in [Addr -> 0..MaxSeq]
  /\ sequence \in 0..MaxSeq /\ issued \in 0..MaxSeq
  /\ ledger \subseteq [seq : Seqs, id : Id] /\ index \in [Id -> 0..MaxSeq]
  /\ old \subseteq Seqs /\ log \in Seq(Id)
  /\ call \in [Call -> Callers]
  /\ send \in [Id -> [by : Addr \union {Operator, None},
                      out : {"none", "ack", "nak", "operator"}]]
  /\ queue \subseteq [id : Id, seq : 0..MaxSeq, to : Addr, conn : 0..MaxConn]
  /\ due \subseteq Id \X Addr
  /\ lives \in 0..MaxLives /\ faults \in 0..MaxFaults

(***************************************************************************)
(* The stored ledger is the log: the sequence counts the accepted posts,   *)
(* every stored entry is the one accepted under its number, and an id that *)
(* is stored is indexed under it, so a repeated frame finds it; whatever   *)
(* overlapping posts, prunings, deletions and evictions do (post,          *)
(* pruneLedger, destroy).                                                  *)
(***************************************************************************)
LedgerIsLog ==
  /\ sequence = Len(log)
  /\ \A e \in ledger : e.seq <= Len(log) /\ log[e.seq] = e.id /\ index[e.id] = e.seq
  /\ \A m \in Id : index[m] # 0 => [seq |-> index[m], id |-> m] \in ledger

(***************************************************************************)
(* A room implements RoomLog: each message is accepted once and numbered   *)
(* without gaps, and a member's cursor only grows and only to a number     *)
(* that was given out (post, acknowledge, join, leave, destroy).           *)
(***************************************************************************)
Log == INSTANCE RoomLog WITH Message <- Id, Reader <- Addr, acked <- cursor
LogRefined == Log!LogSpec

(***************************************************************************)
(* MAX_ROOM_MEMBERS holds although join waits for D1 between its checks    *)
(* and any number of joins wait at once.                                   *)
(***************************************************************************)
MembersBounded == Cardinality(member) <= MaxMembers

(***************************************************************************)
(* What is queued for an agent of another organization is pinned to a      *)
(* connection that both organizations agreed to, whatever was revoked and  *)
(* requested anew between the post's queries and its fan-out               *)
(* (connectionStates, queueDelivery's connectionId).                       *)
(***************************************************************************)
ConsentedDelivery ==
  \A q \in queue : q.to \in Foreign => q.conn \in ConnIds /\ consents[q.conn] = Side

(***************************************************************************)
(* Unless a query of the post fails or the room is evicted, every member   *)
(* at the time of the commit is queued for, refused for or still to come   *)
(* in the fan-out of the post that committed.                              *)
(***************************************************************************)
FanOutAccounted ==
  \A d \in due : \E c \in Call : /\ call[c].op = "post" /\ call[c].id = d[1]
                                /\ call[c].pc \in {"read", "slug", "fan"}
                                /\ d[2] \in call[c].todo

(***************************************************************************)
(* Without failures a row stands for a room: a row alone can be neither    *)
(* created again nor deleted (createRoom, destroy).                        *)
(***************************************************************************)
RowMeansRoom ==
  /\ faults = 0 /\ row /\ ~dropping /\ \A c \in Call : call[c].pc # "configure"
  => config # NoConfig
=============================================================================
