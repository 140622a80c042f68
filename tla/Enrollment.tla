---------------------------- MODULE Enrollment ----------------------------
(***************************************************************************)
(* How a host gets its device token and how it loses it: the enroll codes, *)
(* the device authorization flow, provisionHost, the daemon's WebSocket    *)
(* and revocation (index.ts, with acceptDaemon and revoke of               *)
(* do/host-hub.ts).                                                        *)
(*                                                                         *)
(* A statement on D1 is atomic, a request is several of them, and requests *)
(* of operators, daemons and retries interleave between any two.  A place  *)
(* is an organization and a host slug in it.  Times are abstracted: a code *)
(* or a flow expires at any moment.  Refusals change nothing and are not   *)
(* actions; slow_down, which only spaces the polls, is one of them.        *)
(***************************************************************************)
EXTENDS Naturals, FiniteSets

CONSTANTS
  Place,      \* organizations with a host slug
  Code,       \* enroll codes ever drawn
  Flow,       \* device authorizations ever started
  Req,        \* requests that may be in progress at once
  None,
  MaxTokens,  \* bound on the device tokens drawn
  MaxFaults   \* bound on failed statements and lost requests

ASSUME EnrollAssumption ==
  /\ MaxTokens \in Nat /\ MaxFaults \in Nat
  /\ Code \intersect Flow = {} /\ None \notin Place /\ None \notin Code \union Flow

Tokens == 1..MaxTokens
Grants == Code \union Flow

VARIABLES
  code,      \* enroll_code: [place, used]; place is None before it is drawn
  flow,      \* device_authorization: [there, place, claimed]
  expired,   \* codes and flows past expires_at
  host,      \* host: [token, revoked]; token 0: no row
  socket,    \* HostHub: the token the connected daemon came with, 0 if none
  req,       \* the requests in progress
  drawn,     \* device tokens drawn so far
  granted,   \* history: tokens handed out, [by, place, token]
  approvals, \* history: flow -> places it was approved for
  returned,  \* history: codes given back after a failure, as often as it was
  retired,   \* history: codes a later code of their place replaced
  lost,      \* history: codes and flows whose claim a second failure kept
  late,      \* history: places whose socket was checked before a revocation
             \* and accepted after it, or not closed because the worker ended
  faults

sql  == <<code, flow, host>>
hist == <<granted, approvals, returned, retired, lost, late>>
vars == <<sql, expired, socket, req, drawn, hist, faults>>

Idle == [pc |-> "idle", by |-> None, place |-> None, token |-> 0]

Init ==
  /\ code = [c \in Code |-> [place |-> None, used |-> FALSE]]
  /\ flow = [f \in Flow |-> [there |-> FALSE, place |-> None, claimed |-> FALSE]]
  /\ expired = {} /\ host = [h \in Place |-> [token |-> 0, revoked |-> FALSE]]
  /\ socket = [h \in Place |-> 0] /\ req = [r \in Req |-> Idle] /\ drawn = 0
  /\ granted = {} /\ approvals = [f \in Flow |-> {}] /\ returned = [c \in Code |-> 0]
  /\ retired = {} /\ lost = {} /\ late = {} /\ faults = 0

At(r, pc)   == req[r].pc = pc
Goto(r, pc) == req' = [req EXCEPT ![r].pc = pc]
End(r)      == req' = [req EXCEPT ![r] = Idle]
Fault       == faults < MaxFaults /\ faults' = faults + 1
Live(c)     == code[c].place # None /\ ~code[c].used
LiveHost(h) == host[h].token # 0 /\ ~host[h].revoked

-----------------------------------------------------------------------------
(* Codes *)

(* POST /api/hosts/enroll refuses a slug that names a live host *)
EnrollRead(r, h) ==
  /\ At(r, "idle") /\ ~LiveHost(h)
  /\ req' = [req EXCEPT ![r] = [Idle EXCEPT !.pc = "issue", !.place = h]]
  /\ UNCHANGED <<sql, expired, socket, drawn, hist, faults>>

(* Its batch: the open codes of the place are retired, one is inserted *)
EnrollIssue(r, c) ==
  /\ At(r, "issue") /\ code[c].place = None
  /\ LET h   == req[r].place
         out == {d \in Code : Live(d) /\ code[d].place = h}
     IN /\ code' = [d \in Code |-> IF d = c THEN [place |-> h, used |-> FALSE]
                                   ELSE IF d \in out THEN [code[d] EXCEPT !.used = TRUE]
                                   ELSE code[d]]
        /\ retired' = retired \union out
  /\ End(r)
  /\ UNCHANGED <<flow, expired, host, socket, drawn, granted, approvals, returned, lost,
                 late, faults>>

(* POST /api/daemon/enroll claims the code in the statement that finds it *)
ClaimCode(r, c) ==
  /\ At(r, "idle") /\ Live(c) /\ c \notin expired
  /\ code' = [code EXCEPT ![c].used = TRUE]
  /\ req' = [req EXCEPT ![r] = [Idle EXCEPT !.pc = "provision", !.by = c,
                                            !.place = code[c].place]]
  /\ UNCHANGED <<flow, expired, host, socket, drawn, hist, faults>>

(* variant: the failure is only reported *)
GiveBackNot(r) ==
  /\ At(r, "giveback")
  /\ End(r)
  /\ UNCHANGED <<sql, expired, socket, drawn, hist, faults>>

(* The catch clause: the code is given back *)
GiveBack(r) ==
  /\ At(r, "giveback")
  /\ code' = [code EXCEPT ![req[r].by].used = FALSE]
  /\ returned' = [returned EXCEPT ![req[r].by] = @ + 1]
  /\ End(r)
  /\ UNCHANGED <<flow, expired, host, socket, drawn, granted, approvals, retired, lost,
                 late, faults>>

-----------------------------------------------------------------------------
(* The device flow *)

(* POST /api/device/authorize *)
Authorize(f) ==
  /\ ~flow[f].there
  /\ flow' = [flow EXCEPT ![f].there = TRUE]
  /\ UNCHANGED <<code, expired, host, socket, req, drawn, hist, faults>>

(* POST /api/device/approve, the SELECT *)
ApproveRead(r, f, h) ==
  /\ At(r, "idle") /\ flow[f].there /\ f \notin expired
  /\ ~flow[f].claimed /\ flow[f].place = None
  /\ req' = [req EXCEPT ![r] = [Idle EXCEPT !.pc = "approve", !.by = f, !.place = h]]
  /\ UNCHANGED <<sql, expired, socket, drawn, hist, faults>>

(* Its UPDATE, which goes by the device code alone *)
ApproveWrite(r) ==
  /\ At(r, "approve")
  /\ flow' = [flow EXCEPT ![req[r].by].place = req[r].place]
  /\ approvals' = [approvals EXCEPT ![req[r].by] = @ \union {req[r].place}]
  /\ End(r)
  /\ UNCHANGED <<code, expired, host, socket, drawn, granted, returned, retired, lost,
                 late, faults>>

(* variant: a poll does not wait for the approval *)
PollReadUnapproved(r, f) ==
  /\ At(r, "idle") /\ flow[f].there /\ f \notin expired
  /\ ~flow[f].claimed
  /\ req' = [req EXCEPT ![r] = [Idle EXCEPT !.pc = "claim", !.by = f,
                                            !.place = flow[f].place]]
  /\ UNCHANGED <<sql, expired, socket, drawn, hist, faults>>

(* POST /api/device/token reads the row and goes on with that copy of it *)
PollRead(r, f) ==
  /\ At(r, "idle") /\ flow[f].there /\ f \notin expired
  /\ ~flow[f].claimed /\ flow[f].place # None
  /\ req' = [req EXCEPT ![r] = [Idle EXCEPT !.pc = "claim", !.by = f,
                                            !.place = flow[f].place]]
  /\ UNCHANGED <<sql, expired, socket, drawn, hist, faults>>

(* variant: the claim does not look at claimed_at again *)
PollClaimBlind(r) ==
  /\ At(r, "claim")
  /\ flow' = [flow EXCEPT ![req[r].by].claimed = TRUE]
  /\ Goto(r, "provision")
  /\ UNCHANGED <<code, expired, host, socket, drawn, hist, faults>>

(* "Claim first": UPDATE ... WHERE claimed_at IS NULL RETURNING *)
PollClaim(r) ==
  /\ At(r, "claim")
  /\ flow' = [flow EXCEPT ![req[r].by].claimed = TRUE]
  /\ IF flow[req[r].by].claimed THEN End(r) ELSE Goto(r, "provision")
  /\ UNCHANGED <<code, expired, host, socket, drawn, hist, faults>>

-----------------------------------------------------------------------------
(* provisionHost *)

Drawn(h) == /\ drawn < MaxTokens /\ drawn' = drawn + 1
            /\ host' = [host EXCEPT ![h] = [token |-> drawn + 1, revoked |-> FALSE]]

(* The row is written, over an older one if there is, and the token returned *)
Provision(r) ==
  /\ At(r, "provision")
  /\ Drawn(req[r].place)
  /\ granted' = granted \union {[by |-> req[r].by, place |-> req[r].place,
                                 token |-> drawn + 1]}
  /\ End(r)
  /\ UNCHANGED <<code, flow, expired, socket, approvals, returned, retired, lost, late,
                 faults>>

(* It fails, before the row was written or after it: a code is given back,  *)
(* a flow is spent                                                         *)
ProvisionFails(r) ==
  /\ Fault /\ At(r, "provision")
  /\ Drawn(req[r].place) \/ UNCHANGED <<host, drawn>>
  /\ IF req[r].by \in Code
       THEN Goto(r, "giveback") /\ UNCHANGED lost
       ELSE End(r) /\ lost' = lost \union {req[r].by}
  /\ UNCHANGED <<code, flow, expired, socket, granted, approvals, returned, retired, late>>

-----------------------------------------------------------------------------
(* Connecting and revoking *)

(* GET /api/daemon/ws finds the row of the token *)
ConnectRead(r, h, t) ==
  /\ At(r, "idle") /\ LiveHost(h) /\ host[h].token = t
  /\ \E g \in granted : g.token = t
  /\ req' = [req EXCEPT ![r] = [Idle EXCEPT !.pc = "upgrade", !.place = h, !.token = t]]
  /\ UNCHANGED <<sql, expired, socket, drawn, hist, faults>>

(* acceptDaemon closes the socket there is and accepts this one *)
AcceptDaemon(r) ==
  /\ At(r, "upgrade")
  /\ socket' = [socket EXCEPT ![req[r].place] = req[r].token]
  /\ late' = IF LiveHost(req[r].place) THEN late \ {req[r].place}
                                       ELSE late \union {req[r].place}
  /\ End(r)
  /\ UNCHANGED <<sql, expired, drawn, granted, approvals, returned, retired, lost, faults>>

Disconnect(h) ==
  /\ socket[h] # 0
  /\ socket' = [socket EXCEPT ![h] = 0]
  /\ late' = late \ {h}
  /\ UNCHANGED <<sql, expired, req, drawn, granted, approvals, returned, retired, lost,
                 faults>>

(* DELETE /api/hosts/:slug, the UPDATE *)
RevokeRow(r, h) ==
  /\ At(r, "idle") /\ LiveHost(h)
  /\ host' = [host EXCEPT ![h].revoked = TRUE]
  /\ req' = [req EXCEPT ![r] = [Idle EXCEPT !.pc = "revoke", !.place = h]]
  /\ UNCHANGED <<code, flow, expired, socket, drawn, hist, faults>>

(* variant: the sockets stay open *)
RevokeLeaves(r) ==
  /\ At(r, "revoke")
  /\ End(r)
  /\ UNCHANGED <<sql, expired, socket, drawn, hist, faults>>

(* HostHub.revoke closes the daemon's sockets *)
Revoke(r) ==
  /\ At(r, "revoke")
  /\ socket' = [socket EXCEPT ![req[r].place] = 0]
  /\ late' = late \ {req[r].place}
  /\ End(r)
  /\ UNCHANGED <<sql, expired, drawn, granted, approvals, returned, retired, lost, faults>>

-----------------------------------------------------------------------------
(* Time passes, and a request ends early: a claim it made stays *)

Expire(g) ==
  /\ g \in Grants \ expired
  /\ expired' = expired \union {g}
  /\ UNCHANGED <<sql, socket, req, drawn, hist, faults>>

LoseRequest(r) ==
  /\ Fault /\ ~At(r, "idle")
  /\ End(r)
  /\ lost' = IF req[r].pc \in {"provision", "giveback"} THEN lost \union {req[r].by} ELSE lost
  /\ late' = IF At(r, "revoke") THEN late \union {req[r].place} ELSE late
  /\ UNCHANGED <<sql, expired, socket, drawn, granted, approvals, returned, retired>>

Next ==
  \/ \E r \in Req :
       \/ \E h \in Place : \/ EnrollRead(r, h) \/ RevokeRow(r, h)
                           \/ \E t \in Tokens : ConnectRead(r, h, t)
                           \/ \E f \in Flow : ApproveRead(r, f, h)
       \/ \E c \in Code : EnrollIssue(r, c) \/ ClaimCode(r, c)
       \/ \E f \in Flow : PollRead(r, f)
       \/ GiveBack(r) \/ ApproveWrite(r) \/ PollClaim(r) \/ Provision(r)
       \/ ProvisionFails(r) \/ AcceptDaemon(r) \/ Revoke(r) \/ LoseRequest(r)
  \/ \E f \in Flow : Authorize(f)
  \/ \E h \in Place : Disconnect(h)
  \/ \E g \in Grants : Expire(g)

Spec == Init /\ [][Next]_vars

-----------------------------------------------------------------------------
CodeRows == [place : Place \union {None}, used : BOOLEAN]
FlowRows == [there : BOOLEAN, place : Place \union {None}, claimed : BOOLEAN]
HostRows == [token : 0..MaxTokens, revoked : BOOLEAN]
Requests == [pc : {"idle", "issue", "provision", "giveback", "approve", "claim",
                   "upgrade", "revoke"},
             by : Grants \union {None}, place : Place \union {None}, token : 0..MaxTokens]

(* The types of the tables, of HostHub's socket and of the requests. *)
TypeOK ==
  /\ code \in [Code -> CodeRows] /\ flow \in [Flow -> FlowRows] /\ host \in [Place -> HostRows]
  /\ expired \subseteq Grants
  /\ socket \in [Place -> 0..MaxTokens] /\ req \in [Req -> Requests]
  /\ drawn \in 0..MaxTokens /\ faults \in 0..MaxFaults
  /\ granted \subseteq [by : Grants, place : Place, token : Tokens]
  /\ approvals \in [Flow -> SUBSET Place] /\ returned \in [Code -> 0..MaxFaults]
  /\ retired \subseteq Code /\ lost \subseteq Grants /\ late \subseteq Place

(***************************************************************************)
(* docs/hosts.md: "Either way the code is single-use".  One code or flow   *)
(* hands out one token at most, however polls, redemptions, failures and   *)
(* codes given back interleave (the claims in /api/daemon/enroll and       *)
(* /api/device/token).                                                     *)
(***************************************************************************)
SingleUse == \A g, k \in granted : g.by = k.by => g = k

(***************************************************************************)
(* A token is for a place somebody signed in there chose: the place of the *)
(* code, or one the flow was approved for, although approvals overwrite    *)
(* each other and the poll goes on with the row it read.                   *)
(***************************************************************************)
GrantsApproved ==
  \A g \in granted : IF g.by \in Code THEN g.place = code[g.by].place
                                      ELSE g.place \in approvals[g.by]

(***************************************************************************)
(* "a transient failure does not burn the operator's single-use code": a   *)
(* code that is used without a token, and that no later code replaced, is  *)
(* held by a request that will give it back or was lost with one; and a    *)
(* place has one open code, and one more for each that was given back.     *)
(***************************************************************************)
CodesAccounted ==
  /\ \A c \in Code : code[c].used =>
       \/ c \in retired \union lost \/ \E g \in granted : g.by = c
       \/ \E r \in Req : req[r].by = c
  /\ \A h \in Place :
       LET C == {c \in Code : Live(c) /\ code[c].place = h}
       IN \A D \in SUBSET C : Cardinality(D) > 1 => \E c \in D : returned[c] > 0

(***************************************************************************)
(* docs/hosts.md: a revocation closes the host's socket.  After it is done *)
(* no daemon is connected, unless the daemon's request had found the row   *)
(* before the revocation, or the revocation ended between its two steps.   *)
(***************************************************************************)
RevokedIsGone ==
  \A h \in Place :
    host[h].revoked /\ socket[h] # 0 =>
      h \in late \/ \E r \in Req : req[r].pc = "revoke" /\ req[r].place = h
===========================================================================
