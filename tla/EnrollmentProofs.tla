-------------------------- MODULE EnrollmentProofs --------------------------
(***************************************************************************)
(* Proofs about Enrollment, for every set of places, codes, flows and      *)
(* requests and any number of tokens and faults.                           *)
(***************************************************************************)
EXTENDS Enrollment, FiniteSetTheorems, TLAPS

-----------------------------------------------------------------------------
(* The inductive invariant *)

(* A request past its claim, which will hand out a token or give up. *)
Holds(r) == req[r].pc \in {"provision", "giveback"}

(* What a request carries, by where it is. *)
Carries ==
  \A r \in Req :
    /\ req[r].pc # "idle" => req[r].place \in Place
    /\ req[r].pc \in {"approve", "claim"} => req[r].by \in Flow
    /\ Holds(r) => req[r].by \in Grants
    /\ req[r].pc = "giveback" => req[r].by \in Code
    /\ req[r].by \in Code => Holds(r)

(* A code or a flow is claimed by one request at a time, and by none once    *)
(* its token is out.                                                         *)
OneHolder ==
  /\ \A r, s \in Req : Holds(r) /\ Holds(s) /\ req[r].by = req[s].by => r = s
  /\ \A r \in Req : Holds(r) => \A g \in granted : g.by # req[r].by

(* The tables say so: what a request holds and what was granted is claimed.  *)
Claimed ==
  /\ \A r \in Req : Holds(r) =>
       /\ req[r].by \in Code => code[req[r].by].used /\ code[req[r].by].place = req[r].place
       /\ req[r].by \in Flow => flow[req[r].by].claimed
  /\ \A g \in granted :
       /\ g.by \in Code => code[g.by].used
       /\ g.by \in Flow => flow[g.by].claimed

(* The place of a flow, as it stands and as a poll read it, was approved.    *)
PlaceApproved ==
  /\ \A f \in Flow : flow[f].place # None => flow[f].place \in approvals[f]
  /\ \A r \in Req : req[r].by \in Flow /\ req[r].pc \in {"claim", "provision"} =>
       req[r].place \in approvals[req[r].by]

(* Each time a code is given back a fault was spent on it.                   *)
ReturnsPaid ==
  \A c \in Code :
    /\ returned[c] <= faults
    /\ (\E r \in Req : req[r].pc = "giveback" /\ req[r].by = c) => returned[c] < faults

(* Of the open codes of a place one at most was never given back.            *)
OneFresh ==
  \A c, d \in Code : /\ Live(c) /\ Live(d) /\ code[c].place = code[d].place
                     /\ returned[c] = 0 /\ returned[d] = 0
                     => c = d

(* The part of CodesAccounted about one code.                                *)
UsedAccounted ==
  \A c \in Code : code[c].used =>
    \/ c \in retired \union lost \/ \E g \in granted : g.by = c
    \/ \E r \in Req : req[r].by = c

IInv == /\ TypeOK /\ Carries /\ OneHolder /\ Claimed /\ PlaceApproved /\ GrantsApproved
        /\ ReturnsPaid /\ OneFresh /\ UsedAccounted /\ RevokedIsGone

-----------------------------------------------------------------------------
(* The fields of a request and of a row of each table. *)
LEMMA Fields ==
  ASSUME TypeOK
  PROVE  /\ \A r \in Req : /\ req[r] \in Requests /\ req[r].by \in Grants \union {None}
                          /\ req[r].place \in Place \union {None}
                          /\ req[r].token \in 0..MaxTokens
         /\ \A c \in Code : code[c] \in CodeRows /\ code[c].used \in BOOLEAN
                           /\ code[c].place \in Place \union {None}
         /\ \A f \in Flow : flow[f] \in FlowRows /\ flow[f].place \in Place \union {None}
         /\ \A h \in Place : host[h] \in HostRows /\ host[h].token \in 0..MaxTokens
                            /\ host[h].revoked \in BOOLEAN
<1>1. \A r \in Req : req[r] \in Requests
  BY DEF TypeOK
<1>2. \A c \in Code : code[c] \in CodeRows
  BY DEF TypeOK
<1>3. \A f \in Flow : flow[f] \in FlowRows
  BY DEF TypeOK
<1>4. \A h \in Place : host[h] \in HostRows
  BY DEF TypeOK
<1>. QED BY <1>1, <1>2, <1>3, <1>4 DEF Requests, CodeRows, FlowRows, HostRows

(* The requests the handlers begin, and one that goes on or ends. *)
LEMMA RequestForms ==
  ASSUME NEW h \in Place \union {None}, NEW g \in Grants \union {None}, NEW t \in 0..MaxTokens
  PROVE  /\ Idle \in Requests
         /\ [Idle EXCEPT !.pc = "issue", !.place = h] \in Requests
         /\ [Idle EXCEPT !.pc = "revoke", !.place = h] \in Requests
         /\ [Idle EXCEPT !.pc = "upgrade", !.place = h, !.token = t] \in Requests
         /\ [Idle EXCEPT !.pc = "approve", !.by = g, !.place = h] \in Requests
         /\ [Idle EXCEPT !.pc = "claim", !.by = g, !.place = h] \in Requests
         /\ [Idle EXCEPT !.pc = "provision", !.by = g, !.place = h] \in Requests
         /\ \A q \in Requests : /\ [q EXCEPT !.pc = "provision"] \in Requests
                               /\ [q EXCEPT !.pc = "giveback"] \in Requests
<1>1. Idle \in Requests
  BY EnrollAssumption DEF Idle, Requests
<1>2. [Idle EXCEPT !.pc = "issue", !.place = h] \in Requests
  BY <1>1 DEF Requests
<1>3. [Idle EXCEPT !.pc = "revoke", !.place = h] \in Requests
  BY <1>1 DEF Requests
<1>4. [Idle EXCEPT !.pc = "upgrade", !.place = h, !.token = t] \in Requests
  BY <1>1 DEF Requests
<1>5. [Idle EXCEPT !.pc = "approve", !.by = g, !.place = h] \in Requests
  BY <1>1 DEF Requests
<1>6. [Idle EXCEPT !.pc = "claim", !.by = g, !.place = h] \in Requests
  BY <1>1 DEF Requests
<1>7. [Idle EXCEPT !.pc = "provision", !.by = g, !.place = h] \in Requests
  BY <1>1 DEF Requests
<1>8. ASSUME NEW q \in Requests
      PROVE  [q EXCEPT !.pc = "provision"] \in Requests /\ [q EXCEPT !.pc = "giveback"] \in Requests
  BY DEF Requests
<1>. QED BY <1>1, <1>2, <1>3, <1>4, <1>5, <1>6, <1>7, <1>8

(* The rows the statements write. *)
LEMMA RowForms ==
  ASSUME NEW c \in CodeRows, NEW f \in FlowRows, NEW w \in HostRows,
         NEW h \in Place, NEW t \in 0..MaxTokens
  PROVE  /\ [place |-> h, used |-> FALSE] \in CodeRows
         /\ [c EXCEPT !.used = TRUE] \in CodeRows /\ [c EXCEPT !.used = FALSE] \in CodeRows
         /\ [f EXCEPT !.there = TRUE] \in FlowRows /\ [f EXCEPT !.claimed = TRUE] \in FlowRows
         /\ [f EXCEPT !.place = h] \in FlowRows
         /\ [w EXCEPT !.revoked = TRUE] \in HostRows
         /\ [token |-> t, revoked |-> FALSE] \in HostRows
BY DEF CodeRows, FlowRows, HostRows

(* Every step keeps the types. *)
LEMMA TypeStep == IInv /\ [Next]_vars => TypeOK'
<1> SUFFICES ASSUME IInv, [Next]_vars PROVE TypeOK'
  OBVIOUS
<1>t. TypeOK /\ Carries /\ ReturnsPaid
  BY DEF IInv
<1>f. /\ \A r \in Req : req[r] \in Requests
      /\ \A c \in Code : code[c] \in CodeRows /\ code[c].place \in Place \union {None}
      /\ \A f \in Flow : flow[f] \in FlowRows /\ flow[f].place \in Place \union {None}
      /\ \A h \in Place : host[h] \in HostRows
  BY <1>t, Fields
<1>e. ASSUME NEW r \in Req, End(r) PROVE req' \in [Req -> Requests]
  BY <1>t, <1>e, EnrollAssumption, RequestForms DEF End, TypeOK
<1>d. ASSUME NEW h \in Place, Drawn(h)
      PROVE  host' \in [Place -> HostRows] /\ drawn' \in 0..MaxTokens /\ drawn + 1 \in Tokens
  <2>1. drawn + 1 \in 0..MaxTokens /\ drawn + 1 \in Tokens
    BY <1>t, <1>d, EnrollAssumption DEF Drawn, TypeOK, Tokens
  <2>2. [token |-> drawn + 1, revoked |-> FALSE] \in HostRows
    BY <2>1 DEF HostRows
  <2>. QED BY <1>t, <1>d, <2>1, <2>2 DEF Drawn, TypeOK
<1>1. ASSUME NEW r \in Req, NEW h \in Place, EnrollRead(r, h)
      PROVE  TypeOK'
  <2>1. req' \in [Req -> Requests]
    BY <1>1, <1>t, EnrollAssumption, RequestForms DEF EnrollRead, TypeOK
  <2>. QED BY <1>1, <1>t, <2>1 DEF EnrollRead, TypeOK, sql, hist
<1>2. ASSUME NEW r \in Req, NEW h \in Place, RevokeRow(r, h)
      PROVE  TypeOK'
  <2>1. req' \in [Req -> Requests]
    BY <1>2, <1>t, EnrollAssumption, RequestForms DEF RevokeRow, TypeOK
  <2>2. host' \in [Place -> HostRows]
    BY <1>2, <1>t, <1>f DEF RevokeRow, TypeOK, HostRows
  <2>. QED BY <1>2, <1>t, <2>1, <2>2 DEF RevokeRow, TypeOK, sql, hist
<1>3. ASSUME NEW r \in Req, NEW h \in Place, NEW t \in Tokens, ConnectRead(r, h, t)
      PROVE  TypeOK'
  <2>1. req' \in [Req -> Requests]
    <3>1. t \in 0..MaxTokens
      BY EnrollAssumption DEF Tokens
    <3>. QED BY <3>1, <1>3, <1>t, EnrollAssumption, RequestForms DEF ConnectRead, TypeOK
  <2>. QED BY <1>3, <1>t, <2>1 DEF ConnectRead, TypeOK, sql, hist
<1>4. ASSUME NEW r \in Req, NEW h \in Place, NEW f \in Flow, ApproveRead(r, f, h)
      PROVE  TypeOK'
  <2>1. req' \in [Req -> Requests]
    BY <1>4, <1>t, EnrollAssumption, RequestForms DEF ApproveRead, TypeOK, Grants
  <2>. QED BY <1>4, <1>t, <2>1 DEF ApproveRead, TypeOK, sql, hist
<1>5. ASSUME NEW r \in Req, NEW c \in Code, EnrollIssue(r, c)
      PROVE  TypeOK'
  <2>1. req' \in [Req -> Requests]
    BY <1>5, <1>t, <1>e DEF EnrollIssue, TypeOK
  <2>2. code' \in [Code -> CodeRows]
    <3>1. [place |-> req[r].place, used |-> FALSE] \in CodeRows
      BY <1>5, <1>t DEF EnrollIssue, Carries, At, CodeRows
    <3>2. \A d \in Code : [code[d] EXCEPT !.used = TRUE] \in CodeRows
      BY <1>f DEF CodeRows
    <3>. QED BY <1>5, <1>f, <3>1, <3>2 DEF EnrollIssue
  <2>3. retired' \in SUBSET Code
    BY <1>5, <1>t DEF EnrollIssue, TypeOK
  <2>. QED BY <1>5, <1>t, <2>1, <2>2, <2>3 DEF EnrollIssue, TypeOK, sql, hist
<1>6. ASSUME NEW r \in Req, NEW c \in Code, ClaimCode(r, c)
      PROVE  TypeOK'
  <2>1. req' \in [Req -> Requests]
    BY <1>6, <1>t, <1>f, EnrollAssumption, RequestForms DEF ClaimCode, TypeOK, Grants
  <2>2. code' \in [Code -> CodeRows]
    BY <1>6, <1>t, <1>f DEF ClaimCode, TypeOK, CodeRows
  <2>. QED BY <1>6, <1>t, <2>1, <2>2 DEF ClaimCode, TypeOK, sql, hist
<1>7. ASSUME NEW r \in Req, NEW f \in Flow, PollRead(r, f)
      PROVE  TypeOK'
  <2>1. req' \in [Req -> Requests]
    BY <1>7, <1>t, <1>f, EnrollAssumption, RequestForms DEF PollRead, TypeOK, Grants
  <2>. QED BY <1>7, <1>t, <2>1 DEF PollRead, TypeOK, sql, hist
<1>8. ASSUME NEW r \in Req, GiveBack(r)
      PROVE  TypeOK'
  <2>1. req' \in [Req -> Requests]
    BY <1>8, <1>t, <1>e DEF GiveBack, TypeOK
  <2>2. code' \in [Code -> CodeRows]
    BY <1>8, <1>t, <1>f DEF GiveBack, TypeOK, Carries, At, CodeRows
  <2>3. returned' \in [Code -> 0..MaxFaults]
    BY <1>8, <1>t, EnrollAssumption DEF GiveBack, TypeOK, ReturnsPaid, Carries, At
  <2>. QED BY <1>8, <1>t, <2>1, <2>2, <2>3 DEF GiveBack, TypeOK, sql, hist
<1>9. ASSUME NEW r \in Req, ApproveWrite(r)
      PROVE  TypeOK'
  <2>1. req' \in [Req -> Requests]
    BY <1>9, <1>t, <1>e DEF ApproveWrite, TypeOK
  <2>2. flow' \in [Flow -> FlowRows]
    BY <1>9, <1>t, <1>f DEF ApproveWrite, TypeOK, Carries, At, FlowRows
  <2>3. approvals' \in [Flow -> SUBSET Place]
    BY <1>9, <1>t DEF ApproveWrite, TypeOK, Carries, At
  <2>. QED BY <1>9, <1>t, <2>1, <2>2, <2>3 DEF ApproveWrite, TypeOK, sql, hist
<1>10. ASSUME NEW r \in Req, PollClaim(r)
      PROVE  TypeOK'
  <2>1. req' \in [Req -> Requests]
    <3>1. CASE flow[req[r].by].claimed
      BY <1>10, <1>e, <3>1 DEF PollClaim
    <3>2. CASE ~flow[req[r].by].claimed
      <4>1. [req[r] EXCEPT !.pc = "provision"] \in Requests
        BY <1>f DEF Requests
      <4>. QED BY <1>10, <1>t, <3>2, <4>1 DEF PollClaim, Goto, TypeOK
    <3>. QED BY <3>1, <3>2
  <2>2. flow' \in [Flow -> FlowRows]
    BY <1>10, <1>t, <1>f DEF PollClaim, TypeOK, Carries, At, FlowRows
  <2>. QED BY <1>10, <1>t, <2>1, <2>2 DEF PollClaim, TypeOK, sql, hist
<1>11. ASSUME NEW r \in Req, Provision(r)
      PROVE  TypeOK'
  <2>1. req' \in [Req -> Requests]
    BY <1>11, <1>t, <1>e DEF Provision, TypeOK
  <2>2. host' \in [Place -> HostRows]
    BY <1>11, <1>t, <1>d DEF Provision, TypeOK, Carries, At
  <2>3. drawn' \in 0..MaxTokens
    BY <1>11, <1>t, <1>d DEF Provision, TypeOK, Carries, At
  <2>4. granted' \in SUBSET [by : Grants, place : Place, token : Tokens]
    BY <1>11, <1>t, <1>d DEF Provision, TypeOK, Carries, Holds, At
  <2>. QED BY <1>11, <1>t, <2>1, <2>2, <2>3, <2>4 DEF Provision, TypeOK, sql, hist
<1>12. ASSUME NEW r \in Req, ProvisionFails(r)
      PROVE  TypeOK'
  <2>1. req' \in [Req -> Requests]
    <3>1. CASE req[r].by \notin Code
      BY <1>12, <1>e, <3>1 DEF ProvisionFails
    <3>2. CASE req[r].by \in Code
      <4>1. [req[r] EXCEPT !.pc = "giveback"] \in Requests
        BY <1>f DEF Requests
      <4>. QED BY <1>12, <1>t, <3>2, <4>1 DEF ProvisionFails, Goto, TypeOK
    <3>. QED BY <3>1, <3>2
  <2>2. host' \in [Place -> HostRows]
    BY <1>12, <1>t, <1>d DEF ProvisionFails, TypeOK, Carries, At
  <2>3. drawn' \in 0..MaxTokens
    BY <1>12, <1>t, <1>d DEF ProvisionFails, TypeOK, Carries, At
  <2>4. faults' \in 0..MaxFaults
    BY <1>12, <1>t, EnrollAssumption DEF ProvisionFails, TypeOK, Fault
  <2>5. lost' \in SUBSET Grants
    BY <1>12, <1>t DEF ProvisionFails, TypeOK, Carries, Holds, At, Grants
  <2>. QED BY <1>12, <1>t, <2>1, <2>2, <2>3, <2>4, <2>5 DEF ProvisionFails, TypeOK, sql, hist
<1>13. ASSUME NEW r \in Req, AcceptDaemon(r)
      PROVE  TypeOK'
  <2>1. req' \in [Req -> Requests]
    BY <1>13, <1>t, <1>e DEF AcceptDaemon, TypeOK
  <2>2. socket' \in [Place -> 0..MaxTokens]
    BY <1>13, <1>t, Fields DEF AcceptDaemon, TypeOK, Carries, At
  <2>3. late' \in SUBSET Place
    BY <1>13, <1>t DEF AcceptDaemon, TypeOK, Carries, At
  <2>. QED BY <1>13, <1>t, <2>1, <2>2, <2>3 DEF AcceptDaemon, TypeOK, sql, hist
<1>14. ASSUME NEW r \in Req, Revoke(r)
      PROVE  TypeOK'
  <2>1. req' \in [Req -> Requests]
    BY <1>14, <1>t, <1>e DEF Revoke, TypeOK
  <2>2. socket' \in [Place -> 0..MaxTokens]
    BY <1>14, <1>t, EnrollAssumption DEF Revoke, TypeOK, Carries, At
  <2>3. late' \in SUBSET Place
    BY <1>14, <1>t DEF Revoke, TypeOK
  <2>. QED BY <1>14, <1>t, <2>1, <2>2, <2>3 DEF Revoke, TypeOK, sql, hist
<1>15. ASSUME NEW r \in Req, LoseRequest(r)
      PROVE  TypeOK'
  <2>1. req' \in [Req -> Requests]
    BY <1>15, <1>t, <1>e DEF LoseRequest, TypeOK
  <2>2. faults' \in 0..MaxFaults
    BY <1>15, <1>t, EnrollAssumption DEF LoseRequest, TypeOK, Fault
  <2>3. lost' \in SUBSET Grants
    BY <1>15, <1>t DEF LoseRequest, TypeOK, Carries, Holds
  <2>4. late' \in SUBSET Place
    BY <1>15, <1>t DEF LoseRequest, TypeOK, Carries, At
  <2>. QED BY <1>15, <1>t, <2>1, <2>2, <2>3, <2>4 DEF LoseRequest, TypeOK, sql, hist
<1>16. ASSUME NEW f \in Flow, Authorize(f)
      PROVE  TypeOK'
  <2>1. flow' \in [Flow -> FlowRows]
    BY <1>16, <1>t, <1>f DEF Authorize, TypeOK, FlowRows
  <2>. QED BY <1>16, <1>t, <2>1 DEF Authorize, TypeOK, sql, hist
<1>17. ASSUME NEW h \in Place, Disconnect(h)
      PROVE  TypeOK'
  <2>1. socket' \in [Place -> 0..MaxTokens]
    BY <1>17, <1>t, EnrollAssumption DEF Disconnect, TypeOK
  <2>2. late' \in SUBSET Place
    BY <1>17, <1>t DEF Disconnect, TypeOK
  <2>. QED BY <1>17, <1>t, <2>1, <2>2 DEF Disconnect, TypeOK, sql, hist
<1>18. ASSUME NEW g \in Grants, Expire(g)
      PROVE  TypeOK'
  <2>1. expired' \in SUBSET Grants
    BY <1>18, <1>t DEF Expire, TypeOK
  <2>. QED BY <1>18, <1>t, <2>1 DEF Expire, TypeOK, sql, hist
<1>19. CASE UNCHANGED vars
  BY <1>t, <1>19 DEF TypeOK, vars, sql, hist
<1>. QED BY <1>1, <1>2, <1>3, <1>4, <1>5, <1>6, <1>7, <1>8, <1>9, <1>10, <1>11, <1>12,
     <1>13, <1>14, <1>15, <1>16, <1>17, <1>18, <1>19 DEF Next

(* The requests keep their shape. *)
LEMMA CarriesStep == IInv /\ [Next]_vars => Carries'
<1> SUFFICES ASSUME IInv, [Next]_vars PROVE Carries'
  OBVIOUS
<1> USE EnrollAssumption DEF IInv, TypeOK, Requests, Carries, Holds, Idle, Grants, At, Goto, End
<1>1. ASSUME NEW r \in Req, NEW h \in Place, EnrollRead(r, h)
      PROVE  Carries'
  BY <1>1 DEF EnrollRead
<1>2. ASSUME NEW r \in Req, NEW h \in Place, RevokeRow(r, h)
      PROVE  Carries'
  BY <1>2 DEF RevokeRow
<1>3. ASSUME NEW r \in Req, NEW h \in Place, NEW t \in Tokens, ConnectRead(r, h, t)
      PROVE  Carries'
  BY <1>3 DEF ConnectRead
<1>4. ASSUME NEW r \in Req, NEW h \in Place, NEW f \in Flow, ApproveRead(r, f, h)
      PROVE  Carries'
  BY <1>4 DEF ApproveRead
<1>5. ASSUME NEW r \in Req, NEW c \in Code, EnrollIssue(r, c)
      PROVE  Carries'
  BY <1>5 DEF EnrollIssue
<1>6. ASSUME NEW r \in Req, NEW c \in Code, ClaimCode(r, c)
      PROVE  Carries'
  BY <1>6 DEF ClaimCode, Live, CodeRows
<1>7. ASSUME NEW r \in Req, NEW f \in Flow, PollRead(r, f)
      PROVE  Carries'
  BY <1>7 DEF PollRead, FlowRows
<1>8. ASSUME NEW r \in Req, GiveBack(r)
      PROVE  Carries'
  BY <1>8 DEF GiveBack
<1>9. ASSUME NEW r \in Req, ApproveWrite(r)
      PROVE  Carries'
  BY <1>9 DEF ApproveWrite
<1>10. ASSUME NEW r \in Req, PollClaim(r)
      PROVE  Carries'
  <2>1. CASE flow[req[r].by].claimed
    BY <1>10, <2>1 DEF PollClaim
  <2>2. CASE ~flow[req[r].by].claimed
    BY <1>10, <2>2 DEF PollClaim
  <2>. QED BY <2>1, <2>2
<1>11. ASSUME NEW r \in Req, Provision(r)
      PROVE  Carries'
  BY <1>11 DEF Provision
<1>12. ASSUME NEW r \in Req, ProvisionFails(r)
      PROVE  Carries'
  BY <1>12 DEF ProvisionFails
<1>13. ASSUME NEW r \in Req, AcceptDaemon(r)
      PROVE  Carries'
  BY <1>13 DEF AcceptDaemon
<1>14. ASSUME NEW r \in Req, Revoke(r)
      PROVE  Carries'
  BY <1>14 DEF Revoke
<1>15. ASSUME NEW r \in Req, LoseRequest(r)
      PROVE  Carries'
  BY <1>15 DEF LoseRequest
<1>16. ASSUME NEW f \in Flow, Authorize(f)
      PROVE  Carries'
  BY <1>16 DEF Authorize
<1>17. ASSUME NEW h \in Place, Disconnect(h)
      PROVE  Carries'
  BY <1>17 DEF Disconnect
<1>18. ASSUME NEW g \in Grants, Expire(g)
      PROVE  Carries'
  BY <1>18 DEF Expire
<1>19. CASE UNCHANGED vars
  BY <1>19 DEF vars, sql, hist
<1>. QED BY <1>1, <1>2, <1>3, <1>4, <1>5, <1>6, <1>7, <1>8, <1>9, <1>10, <1>11, <1>12,
     <1>13, <1>14, <1>15, <1>16, <1>17, <1>18, <1>19 DEF Next

(* A claim is won once: what is held or granted is claimed, and only the open is.  *)
LEMMA OneHolderStep == IInv /\ [Next]_vars => OneHolder'
<1> SUFFICES ASSUME IInv, [Next]_vars PROVE OneHolder'
  OBVIOUS
<1> USE EnrollAssumption DEF sql, hist, TypeOK, Requests, Holds, Idle, Grants, At, Goto, End, OneHolder, Carries, Claimed
<1>a. TypeOK /\ Carries /\ OneHolder /\ Claimed
  BY DEF IInv
<1>1. ASSUME NEW r \in Req, NEW h \in Place, EnrollRead(r, h)
      PROVE  OneHolder'
  BY <1>1, <1>a DEF EnrollRead
<1>2. ASSUME NEW r \in Req, NEW h \in Place, RevokeRow(r, h)
      PROVE  OneHolder'
  BY <1>2, <1>a DEF RevokeRow
<1>3. ASSUME NEW r \in Req, NEW h \in Place, NEW t \in Tokens, ConnectRead(r, h, t)
      PROVE  OneHolder'
  BY <1>3, <1>a DEF ConnectRead
<1>4. ASSUME NEW r \in Req, NEW h \in Place, NEW f \in Flow, ApproveRead(r, f, h)
      PROVE  OneHolder'
  BY <1>4, <1>a DEF ApproveRead
<1>5. ASSUME NEW r \in Req, NEW c \in Code, EnrollIssue(r, c)
      PROVE  OneHolder'
  BY <1>5, <1>a DEF EnrollIssue
<1>6. ASSUME NEW r \in Req, NEW c \in Code, ClaimCode(r, c)
      PROVE  OneHolder'
  BY <1>6, <1>a DEF ClaimCode, Live
<1>7. ASSUME NEW r \in Req, NEW f \in Flow, PollRead(r, f)
      PROVE  OneHolder'
  BY <1>7, <1>a DEF PollRead
<1>8. ASSUME NEW r \in Req, GiveBack(r)
      PROVE  OneHolder'
  BY <1>8, <1>a DEF GiveBack
<1>9. ASSUME NEW r \in Req, ApproveWrite(r)
      PROVE  OneHolder'
  BY <1>9, <1>a DEF ApproveWrite
<1>10. ASSUME NEW r \in Req, PollClaim(r)
      PROVE  OneHolder'
  <2>1. CASE flow[req[r].by].claimed
    BY <1>10, <1>a, <2>1 DEF PollClaim
  <2>2. CASE ~flow[req[r].by].claimed
    <3>1. req[r].by \in Flow
      BY <1>10, <1>a DEF PollClaim
    <3>2. \A s \in Req : Holds(s) => req[s].by # req[r].by
      BY <1>a, <2>2, <3>1
    <3>3. \A g \in granted : g.by # req[r].by
      BY <1>a, <2>2, <3>1
    <3>4. \A s \in Req : /\ s # r => req'[s] = req[s]
                         /\ req'[s].by = req[s].by
      BY <1>10, <1>a, <2>2 DEF PollClaim
    <3>5. granted' = granted
      BY <1>10 DEF PollClaim
    <3>. QED BY <1>a, <3>2, <3>3, <3>4, <3>5
  <2>. QED BY <2>1, <2>2
<1>11. ASSUME NEW r \in Req, Provision(r)
      PROVE  OneHolder'
  BY <1>11, <1>a DEF Provision
<1>12. ASSUME NEW r \in Req, ProvisionFails(r)
      PROVE  OneHolder'
  BY <1>12, <1>a DEF ProvisionFails
<1>13. ASSUME NEW r \in Req, AcceptDaemon(r)
      PROVE  OneHolder'
  BY <1>13, <1>a DEF AcceptDaemon
<1>14. ASSUME NEW r \in Req, Revoke(r)
      PROVE  OneHolder'
  BY <1>14, <1>a DEF Revoke
<1>15. ASSUME NEW r \in Req, LoseRequest(r)
      PROVE  OneHolder'
  BY <1>15, <1>a DEF LoseRequest
<1>16. ASSUME NEW f \in Flow, Authorize(f)
      PROVE  OneHolder'
  BY <1>16, <1>a DEF Authorize
<1>17. ASSUME NEW h \in Place, Disconnect(h)
      PROVE  OneHolder'
  BY <1>17, <1>a DEF Disconnect
<1>18. ASSUME NEW g \in Grants, Expire(g)
      PROVE  OneHolder'
  BY <1>18, <1>a DEF Expire
<1>19. CASE UNCHANGED vars
  BY <1>a, <1>19 DEF vars, sql, hist
<1>. QED BY <1>1, <1>2, <1>3, <1>4, <1>5, <1>6, <1>7, <1>8, <1>9, <1>10, <1>11, <1>12,
     <1>13, <1>14, <1>15, <1>16, <1>17, <1>18, <1>19 DEF Next

(* What is held or granted stays claimed. *)
LEMMA ClaimedStep == IInv /\ [Next]_vars => Claimed'
<1> SUFFICES ASSUME IInv, [Next]_vars PROVE Claimed'
  OBVIOUS
<1> USE EnrollAssumption DEF sql, hist, TypeOK, Requests, Holds, Idle, Grants, At, Goto, End, OneHolder, Carries, Claimed, GrantsApproved
<1>a. TypeOK /\ Carries /\ OneHolder /\ Claimed /\ GrantsApproved
  BY DEF IInv
<1>1. ASSUME NEW r \in Req, NEW h \in Place, EnrollRead(r, h)
      PROVE  Claimed'
  BY <1>1, <1>a DEF EnrollRead
<1>2. ASSUME NEW r \in Req, NEW h \in Place, RevokeRow(r, h)
      PROVE  Claimed'
  BY <1>2, <1>a DEF RevokeRow
<1>3. ASSUME NEW r \in Req, NEW h \in Place, NEW t \in Tokens, ConnectRead(r, h, t)
      PROVE  Claimed'
  BY <1>3, <1>a DEF ConnectRead
<1>4. ASSUME NEW r \in Req, NEW h \in Place, NEW f \in Flow, ApproveRead(r, f, h)
      PROVE  Claimed'
  BY <1>4, <1>a DEF ApproveRead
<1>5. ASSUME NEW r \in Req, NEW c \in Code, EnrollIssue(r, c)
      PROVE  Claimed'
  BY <1>5, <1>a DEF EnrollIssue, Live, CodeRows
<1>6. ASSUME NEW r \in Req, NEW c \in Code, ClaimCode(r, c)
      PROVE  Claimed'
  BY <1>6, <1>a DEF ClaimCode, Live, CodeRows
<1>7. ASSUME NEW r \in Req, NEW f \in Flow, PollRead(r, f)
      PROVE  Claimed'
  BY <1>7, <1>a DEF PollRead
<1>8. ASSUME NEW r \in Req, GiveBack(r)
      PROVE  Claimed'
  BY <1>8, <1>a DEF GiveBack, CodeRows
<1>9. ASSUME NEW r \in Req, ApproveWrite(r)
      PROVE  Claimed'
  BY <1>9, <1>a DEF ApproveWrite, FlowRows
<1>10. ASSUME NEW r \in Req, PollClaim(r)
      PROVE  Claimed'
  <2>1. CASE flow[req[r].by].claimed
    BY <1>10, <1>a, <2>1 DEF PollClaim
  <2>2. CASE ~flow[req[r].by].claimed
    BY <1>10, <1>a, <2>2 DEF PollClaim
  <2>. QED BY <2>1, <2>2
<1>11. ASSUME NEW r \in Req, Provision(r)
      PROVE  Claimed'
  BY <1>11, <1>a DEF Provision
<1>12. ASSUME NEW r \in Req, ProvisionFails(r)
      PROVE  Claimed'
  BY <1>12, <1>a DEF ProvisionFails
<1>13. ASSUME NEW r \in Req, AcceptDaemon(r)
      PROVE  Claimed'
  BY <1>13, <1>a DEF AcceptDaemon
<1>14. ASSUME NEW r \in Req, Revoke(r)
      PROVE  Claimed'
  BY <1>14, <1>a DEF Revoke
<1>15. ASSUME NEW r \in Req, LoseRequest(r)
      PROVE  Claimed'
  BY <1>15, <1>a DEF LoseRequest
<1>16. ASSUME NEW f \in Flow, Authorize(f)
      PROVE  Claimed'
  BY <1>16, <1>a DEF Authorize, FlowRows
<1>17. ASSUME NEW h \in Place, Disconnect(h)
      PROVE  Claimed'
  BY <1>17, <1>a DEF Disconnect
<1>18. ASSUME NEW g \in Grants, Expire(g)
      PROVE  Claimed'
  BY <1>18, <1>a DEF Expire
<1>19. CASE UNCHANGED vars
  BY <1>a, <1>19 DEF vars, sql, hist
<1>. QED BY <1>1, <1>2, <1>3, <1>4, <1>5, <1>6, <1>7, <1>8, <1>9, <1>10, <1>11, <1>12,
     <1>13, <1>14, <1>15, <1>16, <1>17, <1>18, <1>19 DEF Next

(* Places come from approvals and from the codes' rows, and stay there. *)
LEMMA ApprovedStep == IInv /\ [Next]_vars => (PlaceApproved /\ GrantsApproved)'
<1> SUFFICES ASSUME IInv, [Next]_vars PROVE (PlaceApproved /\ GrantsApproved)'
  OBVIOUS
<1> USE EnrollAssumption DEF sql, hist, TypeOK, Requests, Holds, Idle, Grants, At, Goto, End, Carries, Claimed, PlaceApproved, GrantsApproved
<1>a. TypeOK /\ Carries /\ Claimed /\ PlaceApproved /\ GrantsApproved
  BY DEF IInv
<1>1. ASSUME NEW r \in Req, NEW h \in Place, EnrollRead(r, h)
      PROVE  (PlaceApproved /\ GrantsApproved)'
  BY <1>1, <1>a DEF EnrollRead
<1>2. ASSUME NEW r \in Req, NEW h \in Place, RevokeRow(r, h)
      PROVE  (PlaceApproved /\ GrantsApproved)'
  BY <1>2, <1>a DEF RevokeRow
<1>3. ASSUME NEW r \in Req, NEW h \in Place, NEW t \in Tokens, ConnectRead(r, h, t)
      PROVE  (PlaceApproved /\ GrantsApproved)'
  BY <1>3, <1>a DEF ConnectRead
<1>4. ASSUME NEW r \in Req, NEW h \in Place, NEW f \in Flow, ApproveRead(r, f, h)
      PROVE  (PlaceApproved /\ GrantsApproved)'
  BY <1>4, <1>a DEF ApproveRead
<1>5. ASSUME NEW r \in Req, NEW c \in Code, EnrollIssue(r, c)
      PROVE  (PlaceApproved /\ GrantsApproved)'
  BY <1>5, <1>a DEF EnrollIssue, Live, CodeRows
<1>6. ASSUME NEW r \in Req, NEW c \in Code, ClaimCode(r, c)
      PROVE  (PlaceApproved /\ GrantsApproved)'
  BY <1>6, <1>a DEF ClaimCode, Live, CodeRows
<1>7. ASSUME NEW r \in Req, NEW f \in Flow, PollRead(r, f)
      PROVE  (PlaceApproved /\ GrantsApproved)'
  BY <1>7, <1>a DEF PollRead, FlowRows
<1>8. ASSUME NEW r \in Req, GiveBack(r)
      PROVE  (PlaceApproved /\ GrantsApproved)'
  BY <1>8, <1>a DEF GiveBack, CodeRows
<1>9. ASSUME NEW r \in Req, ApproveWrite(r)
      PROVE  (PlaceApproved /\ GrantsApproved)'
  BY <1>9, <1>a DEF ApproveWrite, FlowRows
<1>10. ASSUME NEW r \in Req, PollClaim(r)
      PROVE  (PlaceApproved /\ GrantsApproved)'
  <2>1. CASE flow[req[r].by].claimed
    BY <1>10, <1>a, <2>1 DEF PollClaim
  <2>2. CASE ~flow[req[r].by].claimed
    BY <1>10, <1>a, <2>2 DEF PollClaim
  <2>. QED BY <2>1, <2>2
<1>11. ASSUME NEW r \in Req, Provision(r)
      PROVE  (PlaceApproved /\ GrantsApproved)'
  BY <1>11, <1>a DEF Provision
<1>12. ASSUME NEW r \in Req, ProvisionFails(r)
      PROVE  (PlaceApproved /\ GrantsApproved)'
  BY <1>12, <1>a DEF ProvisionFails
<1>13. ASSUME NEW r \in Req, AcceptDaemon(r)
      PROVE  (PlaceApproved /\ GrantsApproved)'
  BY <1>13, <1>a DEF AcceptDaemon
<1>14. ASSUME NEW r \in Req, Revoke(r)
      PROVE  (PlaceApproved /\ GrantsApproved)'
  BY <1>14, <1>a DEF Revoke
<1>15. ASSUME NEW r \in Req, LoseRequest(r)
      PROVE  (PlaceApproved /\ GrantsApproved)'
  BY <1>15, <1>a DEF LoseRequest
<1>16. ASSUME NEW f \in Flow, Authorize(f)
      PROVE  (PlaceApproved /\ GrantsApproved)'
  BY <1>16, <1>a DEF Authorize, FlowRows
<1>17. ASSUME NEW h \in Place, Disconnect(h)
      PROVE  (PlaceApproved /\ GrantsApproved)'
  BY <1>17, <1>a DEF Disconnect
<1>18. ASSUME NEW g \in Grants, Expire(g)
      PROVE  (PlaceApproved /\ GrantsApproved)'
  BY <1>18, <1>a DEF Expire
<1>19. CASE UNCHANGED vars
  BY <1>a, <1>19 DEF vars, sql, hist
<1>. QED BY <1>1, <1>2, <1>3, <1>4, <1>5, <1>6, <1>7, <1>8, <1>9, <1>10, <1>11, <1>12,
     <1>13, <1>14, <1>15, <1>16, <1>17, <1>18, <1>19 DEF Next

(* A code goes back only after a fault, and one request at a time gives it back. *)
LEMMA ReturnsPaidStep == IInv /\ [Next]_vars => ReturnsPaid'
<1> SUFFICES ASSUME IInv, [Next]_vars PROVE ReturnsPaid'
  OBVIOUS
<1> USE EnrollAssumption DEF sql, hist, TypeOK, Requests, Holds, Idle, Grants, At, Goto, End, Carries, OneHolder, ReturnsPaid
<1>a. TypeOK /\ Carries /\ OneHolder /\ ReturnsPaid
  BY DEF IInv
<1>1. ASSUME NEW r \in Req, NEW h \in Place, EnrollRead(r, h)
      PROVE  ReturnsPaid'
  BY <1>1, <1>a DEF EnrollRead
<1>2. ASSUME NEW r \in Req, NEW h \in Place, RevokeRow(r, h)
      PROVE  ReturnsPaid'
  BY <1>2, <1>a DEF RevokeRow
<1>3. ASSUME NEW r \in Req, NEW h \in Place, NEW t \in Tokens, ConnectRead(r, h, t)
      PROVE  ReturnsPaid'
  BY <1>3, <1>a DEF ConnectRead
<1>4. ASSUME NEW r \in Req, NEW h \in Place, NEW f \in Flow, ApproveRead(r, f, h)
      PROVE  ReturnsPaid'
  BY <1>4, <1>a DEF ApproveRead
<1>5. ASSUME NEW r \in Req, NEW c \in Code, EnrollIssue(r, c)
      PROVE  ReturnsPaid'
  BY <1>5, <1>a DEF EnrollIssue
<1>6. ASSUME NEW r \in Req, NEW c \in Code, ClaimCode(r, c)
      PROVE  ReturnsPaid'
  BY <1>6, <1>a DEF ClaimCode
<1>7. ASSUME NEW r \in Req, NEW f \in Flow, PollRead(r, f)
      PROVE  ReturnsPaid'
  BY <1>7, <1>a DEF PollRead
<1>8. ASSUME NEW r \in Req, GiveBack(r)
      PROVE  ReturnsPaid'
  BY <1>8, <1>a DEF GiveBack
<1>9. ASSUME NEW r \in Req, ApproveWrite(r)
      PROVE  ReturnsPaid'
  BY <1>9, <1>a DEF ApproveWrite
<1>10. ASSUME NEW r \in Req, PollClaim(r)
      PROVE  ReturnsPaid'
  <2>1. CASE flow[req[r].by].claimed
    BY <1>10, <1>a, <2>1 DEF PollClaim
  <2>2. CASE ~flow[req[r].by].claimed
    BY <1>10, <1>a, <2>2 DEF PollClaim
  <2>. QED BY <2>1, <2>2
<1>11. ASSUME NEW r \in Req, Provision(r)
      PROVE  ReturnsPaid'
  BY <1>11, <1>a DEF Provision
<1>12. ASSUME NEW r \in Req, ProvisionFails(r)
      PROVE  ReturnsPaid'
  BY <1>12, <1>a DEF ProvisionFails, Fault
<1>13. ASSUME NEW r \in Req, AcceptDaemon(r)
      PROVE  ReturnsPaid'
  BY <1>13, <1>a DEF AcceptDaemon
<1>14. ASSUME NEW r \in Req, Revoke(r)
      PROVE  ReturnsPaid'
  BY <1>14, <1>a DEF Revoke
<1>15. ASSUME NEW r \in Req, LoseRequest(r)
      PROVE  ReturnsPaid'
  BY <1>15, <1>a DEF LoseRequest, Fault
<1>16. ASSUME NEW f \in Flow, Authorize(f)
      PROVE  ReturnsPaid'
  BY <1>16, <1>a DEF Authorize
<1>17. ASSUME NEW h \in Place, Disconnect(h)
      PROVE  ReturnsPaid'
  BY <1>17, <1>a DEF Disconnect
<1>18. ASSUME NEW g \in Grants, Expire(g)
      PROVE  ReturnsPaid'
  BY <1>18, <1>a DEF Expire
<1>19. CASE UNCHANGED vars
  BY <1>a, <1>19 DEF vars, sql, hist
<1>. QED BY <1>1, <1>2, <1>3, <1>4, <1>5, <1>6, <1>7, <1>8, <1>9, <1>10, <1>11, <1>12,
     <1>13, <1>14, <1>15, <1>16, <1>17, <1>18, <1>19 DEF Next

(* A new code retires the open ones of its place; one that was given back is not fresh. *)
LEMMA OneFreshStep == IInv /\ [Next]_vars => OneFresh'
<1> SUFFICES ASSUME IInv, [Next]_vars PROVE OneFresh'
  OBVIOUS
<1> USE EnrollAssumption DEF sql, hist, TypeOK, Requests, Holds, Idle, Grants, At, Goto, End, Carries, OneFresh, Live
<1>a. TypeOK /\ Carries /\ OneFresh
  BY DEF IInv
<1>1. ASSUME NEW r \in Req, NEW h \in Place, EnrollRead(r, h)
      PROVE  OneFresh'
  BY <1>1, <1>a DEF EnrollRead
<1>2. ASSUME NEW r \in Req, NEW h \in Place, RevokeRow(r, h)
      PROVE  OneFresh'
  BY <1>2, <1>a DEF RevokeRow
<1>3. ASSUME NEW r \in Req, NEW h \in Place, NEW t \in Tokens, ConnectRead(r, h, t)
      PROVE  OneFresh'
  BY <1>3, <1>a DEF ConnectRead
<1>4. ASSUME NEW r \in Req, NEW h \in Place, NEW f \in Flow, ApproveRead(r, f, h)
      PROVE  OneFresh'
  BY <1>4, <1>a DEF ApproveRead
<1>5. ASSUME NEW r \in Req, NEW c \in Code, EnrollIssue(r, c)
      PROVE  OneFresh'
  BY <1>5, <1>a DEF EnrollIssue, Live, CodeRows
<1>6. ASSUME NEW r \in Req, NEW c \in Code, ClaimCode(r, c)
      PROVE  OneFresh'
  BY <1>6, <1>a DEF ClaimCode, Live, CodeRows
<1>7. ASSUME NEW r \in Req, NEW f \in Flow, PollRead(r, f)
      PROVE  OneFresh'
  BY <1>7, <1>a DEF PollRead
<1>8. ASSUME NEW r \in Req, GiveBack(r)
      PROVE  OneFresh'
  BY <1>8, <1>a DEF GiveBack, Live, CodeRows
<1>9. ASSUME NEW r \in Req, ApproveWrite(r)
      PROVE  OneFresh'
  BY <1>9, <1>a DEF ApproveWrite
<1>10. ASSUME NEW r \in Req, PollClaim(r)
      PROVE  OneFresh'
  <2>1. CASE flow[req[r].by].claimed
    BY <1>10, <1>a, <2>1 DEF PollClaim
  <2>2. CASE ~flow[req[r].by].claimed
    BY <1>10, <1>a, <2>2 DEF PollClaim
  <2>. QED BY <2>1, <2>2
<1>11. ASSUME NEW r \in Req, Provision(r)
      PROVE  OneFresh'
  BY <1>11, <1>a DEF Provision
<1>12. ASSUME NEW r \in Req, ProvisionFails(r)
      PROVE  OneFresh'
  BY <1>12, <1>a DEF ProvisionFails
<1>13. ASSUME NEW r \in Req, AcceptDaemon(r)
      PROVE  OneFresh'
  BY <1>13, <1>a DEF AcceptDaemon
<1>14. ASSUME NEW r \in Req, Revoke(r)
      PROVE  OneFresh'
  BY <1>14, <1>a DEF Revoke
<1>15. ASSUME NEW r \in Req, LoseRequest(r)
      PROVE  OneFresh'
  BY <1>15, <1>a DEF LoseRequest
<1>16. ASSUME NEW f \in Flow, Authorize(f)
      PROVE  OneFresh'
  BY <1>16, <1>a DEF Authorize
<1>17. ASSUME NEW h \in Place, Disconnect(h)
      PROVE  OneFresh'
  BY <1>17, <1>a DEF Disconnect
<1>18. ASSUME NEW g \in Grants, Expire(g)
      PROVE  OneFresh'
  BY <1>18, <1>a DEF Expire
<1>19. CASE UNCHANGED vars
  BY <1>a, <1>19 DEF vars, sql, hist
<1>. QED BY <1>1, <1>2, <1>3, <1>4, <1>5, <1>6, <1>7, <1>8, <1>9, <1>10, <1>11, <1>12,
     <1>13, <1>14, <1>15, <1>16, <1>17, <1>18, <1>19 DEF Next

(* A code is used by the request that holds it, by a later code or by a loss. *)
LEMMA UsedStep == IInv /\ [Next]_vars => UsedAccounted'
<1> SUFFICES ASSUME IInv, [Next]_vars PROVE UsedAccounted'
  OBVIOUS
<1> USE EnrollAssumption DEF sql, hist, TypeOK, Requests, Holds, Idle, Grants, At, Goto, End, Carries, UsedAccounted
<1>a. TypeOK /\ Carries /\ UsedAccounted
  BY DEF IInv
<1>1. ASSUME NEW r \in Req, NEW h \in Place, EnrollRead(r, h)
      PROVE  UsedAccounted'
  BY <1>1, <1>a DEF EnrollRead
<1>2. ASSUME NEW r \in Req, NEW h \in Place, RevokeRow(r, h)
      PROVE  UsedAccounted'
  BY <1>2, <1>a DEF RevokeRow
<1>3. ASSUME NEW r \in Req, NEW h \in Place, NEW t \in Tokens, ConnectRead(r, h, t)
      PROVE  UsedAccounted'
  BY <1>3, <1>a DEF ConnectRead
<1>4. ASSUME NEW r \in Req, NEW h \in Place, NEW f \in Flow, ApproveRead(r, f, h)
      PROVE  UsedAccounted'
  BY <1>4, <1>a DEF ApproveRead
<1>5. ASSUME NEW r \in Req, NEW c \in Code, EnrollIssue(r, c)
      PROVE  UsedAccounted'
  BY <1>5, <1>a DEF EnrollIssue, Live, CodeRows
<1>6. ASSUME NEW r \in Req, NEW c \in Code, ClaimCode(r, c)
      PROVE  UsedAccounted'
  BY <1>6, <1>a DEF ClaimCode, Live, CodeRows
<1>7. ASSUME NEW r \in Req, NEW f \in Flow, PollRead(r, f)
      PROVE  UsedAccounted'
  BY <1>7, <1>a DEF PollRead
<1>8. ASSUME NEW r \in Req, GiveBack(r)
      PROVE  UsedAccounted'
  BY <1>8, <1>a DEF GiveBack, Live, CodeRows
<1>9. ASSUME NEW r \in Req, ApproveWrite(r)
      PROVE  UsedAccounted'
  BY <1>9, <1>a DEF ApproveWrite
<1>10. ASSUME NEW r \in Req, PollClaim(r)
      PROVE  UsedAccounted'
  <2>1. code' = code /\ retired' = retired /\ lost' = lost /\ granted' = granted
    BY <1>10 DEF PollClaim
  <2>2. \A c \in Code, s \in Req : req[s].by = c => req'[s].by = c
    BY <1>10, <1>a DEF PollClaim
  <2>. QED BY <1>a, <2>1, <2>2
<1>11. ASSUME NEW r \in Req, Provision(r)
      PROVE  UsedAccounted'
  <2>1. code' = code /\ retired' = retired /\ lost' = lost /\ granted \subseteq granted'
    BY <1>11 DEF Provision
  <2>2. \E g \in granted' : g.by = req[r].by
    <3> DEFINE g == [by |-> req[r].by, place |-> req[r].place, token |-> drawn + 1]
    <3>1. g \in granted'
      BY <1>11 DEF Provision
    <3>2. g.by = req[r].by
      OBVIOUS
    <3>. QED BY <3>1, <3>2
  <2>3. \A s \in Req \ {r} : req'[s] = req[s]
    BY <1>11, <1>a DEF Provision
  <2>. QED BY <1>a, <2>1, <2>2, <2>3
<1>12. ASSUME NEW r \in Req, ProvisionFails(r)
      PROVE  UsedAccounted'
  BY <1>12, <1>a DEF ProvisionFails
<1>13. ASSUME NEW r \in Req, AcceptDaemon(r)
      PROVE  UsedAccounted'
  BY <1>13, <1>a DEF AcceptDaemon
<1>14. ASSUME NEW r \in Req, Revoke(r)
      PROVE  UsedAccounted'
  BY <1>14, <1>a DEF Revoke
<1>15. ASSUME NEW r \in Req, LoseRequest(r)
      PROVE  UsedAccounted'
  BY <1>15, <1>a DEF LoseRequest
<1>16. ASSUME NEW f \in Flow, Authorize(f)
      PROVE  UsedAccounted'
  BY <1>16, <1>a DEF Authorize
<1>17. ASSUME NEW h \in Place, Disconnect(h)
      PROVE  UsedAccounted'
  BY <1>17, <1>a DEF Disconnect
<1>18. ASSUME NEW g \in Grants, Expire(g)
      PROVE  UsedAccounted'
  BY <1>18, <1>a DEF Expire
<1>19. CASE UNCHANGED vars
  BY <1>a, <1>19 DEF vars, sql, hist
<1>. QED BY <1>1, <1>2, <1>3, <1>4, <1>5, <1>6, <1>7, <1>8, <1>9, <1>10, <1>11, <1>12,
     <1>13, <1>14, <1>15, <1>16, <1>17, <1>18, <1>19 DEF Next

(* A revoked host has no socket, but for the races late names. *)
LEMMA RevokedStep == IInv /\ [Next]_vars => RevokedIsGone'
<1> SUFFICES ASSUME IInv, [Next]_vars PROVE RevokedIsGone'
  OBVIOUS
<1> USE EnrollAssumption DEF sql, hist, TypeOK, Requests, Holds, Idle, Grants, At, Goto, End, Carries, RevokedIsGone
<1>a. TypeOK /\ Carries /\ RevokedIsGone
  BY DEF IInv
<1>1. ASSUME NEW r \in Req, NEW h \in Place, EnrollRead(r, h)
      PROVE  RevokedIsGone'
  BY <1>1, <1>a DEF EnrollRead
<1>2. ASSUME NEW r \in Req, NEW h \in Place, RevokeRow(r, h)
      PROVE  RevokedIsGone'
  BY <1>2, <1>a DEF RevokeRow, HostRows, LiveHost
<1>3. ASSUME NEW r \in Req, NEW h \in Place, NEW t \in Tokens, ConnectRead(r, h, t)
      PROVE  RevokedIsGone'
  BY <1>3, <1>a DEF ConnectRead
<1>4. ASSUME NEW r \in Req, NEW h \in Place, NEW f \in Flow, ApproveRead(r, f, h)
      PROVE  RevokedIsGone'
  BY <1>4, <1>a DEF ApproveRead
<1>5. ASSUME NEW r \in Req, NEW c \in Code, EnrollIssue(r, c)
      PROVE  RevokedIsGone'
  BY <1>5, <1>a DEF EnrollIssue
<1>6. ASSUME NEW r \in Req, NEW c \in Code, ClaimCode(r, c)
      PROVE  RevokedIsGone'
  BY <1>6, <1>a DEF ClaimCode
<1>7. ASSUME NEW r \in Req, NEW f \in Flow, PollRead(r, f)
      PROVE  RevokedIsGone'
  BY <1>7, <1>a DEF PollRead
<1>8. ASSUME NEW r \in Req, GiveBack(r)
      PROVE  RevokedIsGone'
  BY <1>8, <1>a DEF GiveBack
<1>9. ASSUME NEW r \in Req, ApproveWrite(r)
      PROVE  RevokedIsGone'
  BY <1>9, <1>a DEF ApproveWrite
<1>10. ASSUME NEW r \in Req, PollClaim(r)
      PROVE  RevokedIsGone'
  <2>1. CASE flow[req[r].by].claimed
    BY <1>10, <1>a, <2>1 DEF PollClaim
  <2>2. CASE ~flow[req[r].by].claimed
    BY <1>10, <1>a, <2>2 DEF PollClaim
  <2>. QED BY <2>1, <2>2
<1>11. ASSUME NEW r \in Req, Provision(r)
      PROVE  RevokedIsGone'
  BY <1>11, <1>a DEF Provision, Drawn, HostRows
<1>12. ASSUME NEW r \in Req, ProvisionFails(r)
      PROVE  RevokedIsGone'
  <2>1. req[r].pc = "provision" /\ socket' = socket /\ late' = late
    BY <1>12 DEF ProvisionFails
  <2>2. \A s \in Req \ {r} : req'[s] = req[s]
    BY <1>12, <1>a DEF ProvisionFails
  <2>3. \A h \in Place : host'[h].revoked => host[h].revoked
    BY <1>12, <1>a DEF ProvisionFails, Drawn
  <2>. QED BY <1>a, <2>1, <2>2, <2>3
<1>13. ASSUME NEW r \in Req, AcceptDaemon(r)
      PROVE  RevokedIsGone'
  BY <1>13, <1>a DEF AcceptDaemon, LiveHost, HostRows
<1>14. ASSUME NEW r \in Req, Revoke(r)
      PROVE  RevokedIsGone'
  BY <1>14, <1>a DEF Revoke
<1>15. ASSUME NEW r \in Req, LoseRequest(r)
      PROVE  RevokedIsGone'
  BY <1>15, <1>a DEF LoseRequest
<1>16. ASSUME NEW f \in Flow, Authorize(f)
      PROVE  RevokedIsGone'
  BY <1>16, <1>a DEF Authorize
<1>17. ASSUME NEW h \in Place, Disconnect(h)
      PROVE  RevokedIsGone'
  BY <1>17, <1>a DEF Disconnect
<1>18. ASSUME NEW g \in Grants, Expire(g)
      PROVE  RevokedIsGone'
  BY <1>18, <1>a DEF Expire
<1>19. CASE UNCHANGED vars
  BY <1>a, <1>19 DEF vars, sql, hist
<1>. QED BY <1>1, <1>2, <1>3, <1>4, <1>5, <1>6, <1>7, <1>8, <1>9, <1>10, <1>11, <1>12,
     <1>13, <1>14, <1>15, <1>16, <1>17, <1>18, <1>19 DEF Next

-----------------------------------------------------------------------------
(* The theorems *)

(* Init and every step. *)
LEMMA Invariance == Spec => []IInv
<1>1. Init => IInv
  <2> SUFFICES ASSUME Init PROVE IInv
    OBVIOUS
  <2> USE EnrollAssumption DEF Init, Idle
  <2>1. TypeOK
    BY DEF TypeOK, Requests, CodeRows, FlowRows, HostRows, Grants
  <2>2. Carries /\ OneHolder /\ Claimed
    BY DEF Carries, OneHolder, Claimed, Holds, Grants
  <2>3. PlaceApproved /\ GrantsApproved /\ ReturnsPaid
    BY DEF PlaceApproved, GrantsApproved, ReturnsPaid
  <2>4. OneFresh /\ UsedAccounted /\ RevokedIsGone
    BY DEF OneFresh, UsedAccounted, RevokedIsGone, Live
  <2>. QED BY <2>1, <2>2, <2>3, <2>4 DEF IInv
<1>2. IInv /\ [Next]_vars => IInv'
  BY TypeStep, CarriesStep, OneHolderStep, ClaimedStep, ApprovedStep, ReturnsPaidStep,
     OneFreshStep, UsedStep, RevokedStep DEF IInv
<1>. QED BY <1>1, <1>2, PTL DEF Spec

(* The tables, the sockets and the requests are what TypeOK says, and no     *)
(* code is given back more often than statements may fail.                   *)
THEOREM TypeCorrect == Spec => []TypeOK
BY Invariance, PTL DEF IInv

(* One code or flow hands out one token at most: a claim is won by one       *)
(* request (/api/daemon/enroll, /api/device/token), the row stays claimed    *)
(* while the request holds it and for good once the token is out.            *)
THEOREM SingleUseHolds == Spec => []SingleUse
<1>1. Init => SingleUse
  BY DEF Init, SingleUse
<1>2. IInv /\ SingleUse /\ [Next]_vars => SingleUse'
  <2> SUFFICES ASSUME IInv, SingleUse, [Next]_vars PROVE SingleUse'
    OBVIOUS
  <2>1. ASSUME NEW r \in Req, Provision(r) PROVE SingleUse'
    <3>1. \A g \in granted : g.by # req[r].by
      BY <2>1 DEF Provision, IInv, OneHolder, Holds, At
    <3>. QED BY <2>1, <3>1 DEF Provision, SingleUse
  <2>2. CASE \A r \in Req : ~Provision(r)
    <3> USE DEF sql, hist
    <3>1. ASSUME NEW r \in Req, NEW h \in Place, EnrollRead(r, h) \/ RevokeRow(r, h)
          PROVE  granted' = granted
      BY <3>1 DEF EnrollRead, RevokeRow
    <3>2. ASSUME NEW r \in Req, NEW h \in Place, NEW t \in Tokens, ConnectRead(r, h, t)
          PROVE  granted' = granted
      BY <3>2 DEF ConnectRead
    <3>3. ASSUME NEW r \in Req, NEW h \in Place, NEW f \in Flow, ApproveRead(r, f, h)
          PROVE  granted' = granted
      BY <3>3 DEF ApproveRead
    <3>4. ASSUME NEW r \in Req, NEW c \in Code, EnrollIssue(r, c) \/ ClaimCode(r, c)
          PROVE  granted' = granted
      BY <3>4 DEF EnrollIssue, ClaimCode
    <3>6. ASSUME NEW r \in Req, NEW f \in Flow, PollRead(r, f)
          PROVE  granted' = granted
      BY <3>6 DEF PollRead
    <3>7. ASSUME NEW r \in Req, \/ GiveBack(r) \/ ApproveWrite(r) \/ PollClaim(r)
                                \/ ProvisionFails(r)
          PROVE  granted' = granted
      BY <3>7 DEF GiveBack, ApproveWrite, PollClaim, ProvisionFails
    <3>8. ASSUME NEW r \in Req, AcceptDaemon(r) \/ Revoke(r) \/ LoseRequest(r)
          PROVE  granted' = granted
      BY <3>8 DEF AcceptDaemon, Revoke, LoseRequest
    <3>9. ASSUME NEW f \in Flow, Authorize(f) PROVE granted' = granted
      BY <3>9 DEF Authorize
    <3>10. ASSUME NEW h \in Place, Disconnect(h) PROVE granted' = granted
      BY <3>10 DEF Disconnect
    <3>11. ASSUME NEW g \in Grants, Expire(g) PROVE granted' = granted
      BY <3>11 DEF Expire
    <3>12. ASSUME UNCHANGED vars PROVE granted' = granted
      BY <3>12 DEF vars
    <3> HIDE DEF sql, hist
    <3>5. granted' = granted
      BY <2>2, <3>1, <3>2, <3>3, <3>4, <3>6, <3>7, <3>8, <3>9, <3>10, <3>11, <3>12 DEF Next
    <3>. QED BY <3>5 DEF SingleUse
  <2>. QED BY <2>1, <2>2
<1>. QED BY <1>1, <1>2, Invariance, PTL DEF Spec

(* A token is for a place its code was drawn for, or its flow was approved   *)
(* for (/api/device/approve, /api/device/token).                             *)
THEOREM GrantsApprovedHolds == Spec => []GrantsApproved
BY Invariance, PTL DEF IInv

(* A used code is accounted for, and a place has one open code besides those *)
(* given back (the catch clause of /api/daemon/enroll, the batch of          *)
(* /api/hosts/enroll).                                                       *)
THEOREM CodesAccountedHolds == Spec => []CodesAccounted
<1>1. IInv => CodesAccounted
  <2> SUFFICES ASSUME IInv PROVE CodesAccounted
    OBVIOUS
  <2>1. UsedAccounted
    BY DEF IInv
  <2>2. ASSUME NEW h \in Place,
               NEW D \in SUBSET {c \in Code : Live(c) /\ code[c].place = h},
               Cardinality(D) > 1
        PROVE  \E c \in D : returned[c] > 0
    <3>1. SUFFICES ASSUME \A c \in D : ~(returned[c] > 0) PROVE FALSE
      OBVIOUS
    <3>2. \A c \in D : returned[c] = 0
      BY <3>1 DEF IInv, TypeOK
    <3>3. \A c, d \in D : c = d
      BY <3>2 DEF IInv, OneFresh
    <3>4. CASE D = {}
      BY <2>2, <3>4, FS_EmptySet
    <3>5. CASE D # {}
      <4>1. PICK c \in D : TRUE
        BY <3>5
      <4>2. D = {c}
        BY <3>3, <4>1
      <4>3. Cardinality({c}) = 1
        BY FS_Singleton
      <4>. QED BY <2>2, <4>2, <4>3
    <3>. QED BY <3>4, <3>5
  <2>. QED BY <2>1, <2>2 DEF CodesAccounted, UsedAccounted
<1>. QED BY <1>1, Invariance, PTL

(* After a revocation no daemon is connected, but for the two races that     *)
(* late records (HostHub.revoke, acceptDaemon).                              *)
THEOREM RevokedIsGoneHolds == Spec => []RevokedIsGone
BY Invariance, PTL DEF IInv
=============================================================================
