---------------------------- MODULE OutboxProofs ----------------------------
(***************************************************************************)
(* Proofs about Outbox, for any number of messages, frames under way,      *)
(* faults and retries, and for default and other enrollments alike.        *)
(***************************************************************************)
EXTENDS Outbox, TLAPS

(* Spool entries stay typed through claim, release and the passing of time. *)
LEMMA EntryTypes ==
  ASSUME NEW e \in Entry
  PROVE  /\ NoFile \in Entry /\ NoFile.file = "none"
         /\ [NoFile EXCEPT !.file = "msg", !.idle = TTL] \in Entry
         /\ [e EXCEPT !.file = "claimed"] \in Entry
         /\ [e EXCEPT !.file = "msg"] \in Entry
         /\ Released(e) \in Entry /\ Attempted(e) \in Entry
         /\ Attempted(e).age = e.age /\ Released(e).age = e.age
         /\ [e EXCEPT !.age = Older(@), !.idle = Older(@)] \in Entry
<1>1. 0 \in Tries /\ 0 \in 0..TTL /\ TTL \in 0..TTL
  BY OutboxAssumption DEF Tries
<1>2. NoFile \in Entry /\ NoFile.file = "none" /\ [NoFile EXCEPT !.file = "msg", !.idle = TTL] \in Entry
  BY <1>1 DEF NoFile, Entry
<1>3. [e EXCEPT !.file = "claimed"] \in Entry /\ [e EXCEPT !.file = "msg"] \in Entry
  BY DEF Entry
<1>4. /\ Released(e) \in Entry /\ Attempted(e) \in Entry
      /\ Attempted(e).age = e.age /\ Released(e).age = e.age
  <2>1. (IF e.attempts < MaxTries THEN e.attempts + 1 ELSE e.attempts) \in Tries
    BY OutboxAssumption DEF Entry, Tries
  <2>2. Attempted(e) \in Entry /\ Attempted(e).age = e.age
    BY <1>1, <2>1 DEF Attempted, Entry
  <2>. QED BY <2>2 DEF Released, Entry
<1>5. [e EXCEPT !.age = Older(@), !.idle = Older(@)] \in Entry
  <2>1. Older(e.age) \in 0..TTL /\ Older(e.idle) \in 0..TTL
    BY OutboxAssumption DEF Entry, Older
  <2>. QED BY <2>1 DEF Entry
<1>. QED BY <1>2, <1>3, <1>4, <1>5

(* The slots stay typed, whatever is cut, answered or freed. *)
LEMMA SlotTypes ==
  ASSUME TypeOK
  PROVE  /\ Free \in Frame /\ Free.stage = "free"
         /\ Cut \in [Slot -> Frame]
         /\ \A x \in Slot : Cut[x].stage # "free" =>
              /\ Cut[x].stage \in {"admit", "committed"}
              /\ Cut[x].stage = slot[x].stage /\ Cut[x].msg = slot[x].msg
<1>1. Free \in Frame /\ Free.stage = "free"
  BY DEF Free, Frame, Codes
<1>2. \A x \in Slot : slot[x] \in Frame
  BY DEF TypeOK, Frame
<1>3. \A x \in Slot : [slot[x] EXCEPT !.live = FALSE] \in Frame
                      /\ [slot[x] EXCEPT !.live = FALSE].stage = slot[x].stage
                      /\ [slot[x] EXCEPT !.live = FALSE].msg = slot[x].msg
  BY <1>2 DEF Frame
<1>4. \A x \in Slot : slot[x].stage \in {"free", "up", "admit", "committed", "down"}
  BY <1>2 DEF Frame
<1>. QED BY <1>1, <1>3, <1>4 DEF Cut

(* So do the answers. *)
LEMMA AnswerTypes ==
  ASSUME TypeOK, NEW x \in Slot, NEW code \in Codes, Answer(x, code), slot[x].stage # "free"
  PROVE  /\ slot' \in [Slot -> Frame]
         /\ \A y \in Slot : slot'[y].stage # "free" => slot'[y].msg \in Msg
         /\ \A y \in Slot : y # x => slot'[y] = slot[y]
         /\ slot'[x].stage \in {"free", "down"}
         /\ slot'[x].stage = "down" => slot'[x].code = code /\ slot'[x].msg = slot[x].msg
<1>1. slot \in [Slot -> Frame] /\ slot[x] \in Frame /\ slot[x].msg \in Msg
  BY DEF TypeOK, Frame
<1>2. PICK new : new = IF slot[x].live THEN [slot[x] EXCEPT !.stage = "down", !.code = code] ELSE Free
  OBVIOUS
<1>3. slot' = [slot EXCEPT ![x] = new]
  BY <1>2 DEF Answer
<1>4. /\ new \in Frame /\ new.stage \in {"free", "down"}
      /\ new.stage = "down" => new.code = code /\ new.msg = slot[x].msg
  BY <1>1, <1>2 DEF Frame, Free, Codes
<1>5. slot'[x] = new /\ \A y \in Slot : y # x => slot'[y] = slot[y]
  BY <1>1, <1>3
<1>6. \A y \in Slot : slot'[y].stage # "free" => slot'[y].msg \in Msg
  BY <1>1, <1>4, <1>5 DEF TypeOK
<1>. QED BY <1>1, <1>3, <1>4, <1>5, <1>6

(* The inductive invariant. *)
IInv == TypeOK /\ AckTrail /\ CommittedIsQueued /\ DeadIsGone

(* Type correctness of the daemon's loop, one case per step of it. *)
LEMMA LoopType ==
  ASSUME TypeOK, LoopStep PROVE TypeOK'
<1>t. /\ flush \in Loop /\ spool \in [Msg -> Entry]
      /\ waiter \in [Msg -> [Roles -> {"off", "waiting"} \union Codes]]
  BY DEF TypeOK
<1>h. flush.phase \in Holding => flush.msg \in Msg
  BY DEF TypeOK
<1>f. Fault => faults' \in 0..MaxFaults
  BY OutboxAssumption DEF Fault, TypeOK
<1>i. Idle \in Loop /\ Idle.phase = "idle" /\ "idle" \notin Holding
  BY DEF Idle, Loop, Holding
<1>1. CASE Wake
  <2>1. flush' \in Loop /\ flush'.phase \in {"reaping", "flushing"}
    BY <1>1, <1>t DEF Wake, Loop
  <2>. QED BY <1>1, <2>1 DEF Wake, TypeOK, worker, reaper, Holding
<1>2. ASSUME NEW m \in Msg, ReapWrites(m) PROVE TypeOK'
  <2>f. flush' \in Loop /\ (flush'.phase \in Holding => flush'.msg \in Msg)
    BY <1>2, <1>t, <1>h DEF ReapWrites, Loop, Holding
  <2>. QED BY <1>2, <2>f DEF ReapWrites, TypeOK, worker, reaper
<1>3. CASE ReapRemoves
  <2>1. flush.msg \in Msg
    BY <1>3, <1>h DEF ReapRemoves, Holding
  <2>2. spool' \in [Msg -> Entry]
    BY <1>3, <1>t, <2>1, EntryTypes DEF ReapRemoves
  <2>f. flush' \in Loop /\ (flush'.phase \in Holding => flush'.msg \in Msg)
    BY <1>3, <1>t, <1>h DEF ReapRemoves, Loop, Holding
  <2>. QED BY <1>3, <2>1, <2>2, <2>f DEF ReapRemoves, TypeOK, worker, reaper
<1>4. CASE ReapEnds \/ ReapReturns
  <2>1. flush' \in Loop /\ flush'.phase \in {"telling", "flushing"}
    BY <1>4, <1>t DEF ReapEnds, ReapReturns, Loop
  <2>2. reapFailed' \in BOOLEAN
    BY <1>4 DEF ReapEnds, ReapReturns, TypeOK, reaper
  <2>. QED BY <1>4, <2>1, <2>2 DEF ReapEnds, ReapReturns, TypeOK, worker, reaper, Holding
<1>5. ASSUME NEW m \in Msg, ReapTells(m) PROVE TypeOK'
  <2>1. told' \subseteq Msg
    BY <1>5 DEF ReapTells, Tell, TypeOK
  <2>f. flush' \in Loop /\ (flush'.phase \in Holding => flush'.msg \in Msg)
    BY <1>5, <1>t, <1>h DEF ReapTells, Loop, Holding
  <2>. QED BY <1>5, <2>1, <2>f DEF ReapTells, TypeOK, worker, reaper
<1>6. ASSUME NEW m \in Msg, Claim(m) PROVE TypeOK'
  <2>1. spool' \in [Msg -> Entry]
    BY <1>6, <1>t, EntryTypes DEF Claim
  <2>f. flush' \in Loop /\ (flush'.phase \in Holding => flush'.msg \in Msg)
    BY <1>6, <1>t, <1>h DEF Claim, Loop, Holding
  <2>. QED BY <1>6, <2>1, <2>f DEF Claim, TypeOK, worker, reaper
<1>7. CASE FlushEnds
  <2>1. Idle \in Loop /\ Idle.phase = "idle"
    BY DEF Idle, Loop
  <2>. QED BY <1>7, <2>1 DEF FlushEnds, TypeOK, worker, reaper, Holding
<1>8. CASE FlushOffline
  <2>1. flush.msg \in Msg
    BY <1>8, <1>h DEF FlushOffline, Holding
  <2>2. spool' \in [Msg -> Entry]
    BY <1>8, <1>t, <2>1, EntryTypes DEF FlushOffline
  <2>3. faults' \in 0..MaxFaults
    BY <1>8, <1>f DEF FlushOffline, TypeOK, reaper
  <2>. QED BY <1>8, <1>i, <2>2, <2>3 DEF FlushOffline, TypeOK, worker, reaper, reaper
<1>9. ASSUME NEW x \in Slot, WriteFrame(x) PROVE TypeOK'
  <2>1. flush.msg \in Msg
    BY <1>9, <1>h DEF WriteFrame, Holding
  <2>2. PICK f : f = [Free EXCEPT !.stage = "up", !.msg = flush.msg, !.live = TRUE]
    OBVIOUS
  <2>3. f \in Frame /\ f.msg \in Msg
    BY <2>1, <2>2 DEF Free, Frame, Codes
  <2>4. slot' \in [Slot -> Frame] /\ \A y \in Slot : slot'[y].stage # "free" => slot'[y].msg \in Msg
    BY <1>9, <2>2, <2>3 DEF WriteFrame, TypeOK
  <2>5. waiter' \in [Msg -> [Roles -> {"off", "waiting"} \union Codes]]
    BY <1>9, <2>1, <1>t DEF WriteFrame, Roles
  <2>f. flush' \in Loop /\ (flush'.phase \in Holding => flush'.msg \in Msg)
    BY <1>9, <1>t, <1>h DEF WriteFrame, Loop, Holding
  <2>. QED BY <1>9, <2>1, <2>4, <2>5, <2>f DEF WriteFrame, TypeOK, worker, reaper
<1>10. ASSUME NEW next \in {"acked", "killed"}, flush.phase = "waiting", ClaimRemoved(next)
       PROVE  TypeOK'
  <2>1. flush.msg \in Msg
    BY <1>10, <1>h DEF Holding
  <2>2. spool' \in [Msg -> Entry]
    BY <1>10, <1>t, <2>1, EntryTypes DEF ClaimRemoved
  <2>3. waiter' \in [Msg -> [Roles -> {"off", "waiting"} \union Codes]]
    BY <1>10, <2>1, <1>t DEF ClaimRemoved, StopWaiting, Roles
  <2>f. flush' \in Loop /\ (flush'.phase \in Holding => flush'.msg \in Msg)
    BY <1>10, <1>t, <1>h DEF ClaimRemoved, Loop, Holding
  <2>. QED BY <1>10, <2>1, <2>2, <2>3, <2>f DEF ClaimRemoved, TypeOK, worker, reaper
<1>11. CASE AckWrites
  <2>1. flush.msg \in Msg
    BY <1>11, <1>h DEF AckWrites, Holding
  <2>f. flush' \in Loop /\ (flush'.phase \in Holding => flush'.msg \in Msg)
    BY <1>11, <1>t, <1>h DEF AckWrites, Loop, Holding
  <2>. QED BY <1>11, <2>1, <2>f DEF AckWrites, TypeOK, worker, reaper
<1>12. CASE KillWrites
  <2>1. flush.msg \in Msg
    BY <1>12, <1>h DEF KillWrites, Holding
  <2>f. flush' \in Loop /\ (flush'.phase \in Holding => flush'.msg \in Msg)
    BY <1>12, <1>t, <1>h DEF KillWrites, Loop, Holding
  <2>. QED BY <1>12, <2>1, <2>f DEF KillWrites, TypeOK, worker, reaper
<1>13. CASE KillTells
  <2>1. flush.msg \in Msg
    BY <1>13, <1>h DEF KillTells, Holding
  <2>2. told' \subseteq Msg
    BY <1>13, <2>1 DEF KillTells, Tell, TypeOK
  <2>f. flush' \in Loop /\ (flush'.phase \in Holding => flush'.msg \in Msg)
    BY <1>13, <1>t, <1>h DEF KillTells, Loop, Holding
  <2>. QED BY <1>13, <2>1, <2>2, <2>f DEF KillTells, TypeOK, worker, reaper
<1>14. CASE FlushReleases
  <2>1. flush.msg \in Msg
    BY <1>14, <1>h DEF FlushReleases, Holding
  <2>2. spool' \in [Msg -> Entry]
    BY <1>14, <1>t, <2>1, EntryTypes DEF FlushReleases
  <2>3. waiter' \in [Msg -> [Roles -> {"off", "waiting"} \union Codes]]
    BY <1>14, <2>1, <1>t DEF FlushReleases, StopWaiting, Roles
  <2>f. flush' \in Loop /\ (flush'.phase \in Holding => flush'.msg \in Msg)
    BY <1>14, <1>t, <1>h DEF FlushReleases, Loop, Holding
  <2>. QED BY <1>14, <2>1, <2>2, <2>3, <2>f DEF FlushReleases, TypeOK, worker, reaper
<1>15. CASE ReapFails
  <2>1. flush' \in Loop /\ flush'.phase = "flushing" /\ faults' \in 0..MaxFaults
    BY <1>15, <1>t, <1>f DEF ReapFails, Loop
  <2>. QED BY <1>15, <2>1 DEF ReapFails, TypeOK, worker, reaper, Holding
<1>16. CASE ClaimFails
  <2>1. faults' \in 0..MaxFaults
    BY <1>16, <1>f DEF ClaimFails
  <2>. QED BY <1>16, <1>i, <2>1 DEF ClaimFails, TypeOK, worker, reaper
<1>17. CASE StoreFails
  <2>1. flush.msg \in Msg /\ faults' \in 0..MaxFaults
    BY <1>17, <1>h, <1>f DEF StoreFails, Holding
  <2>2. spool' \in [Msg -> Entry]
    <3>1. spool' = spool \/ spool' = [spool EXCEPT ![flush.msg] = Attempted(spool[flush.msg])]
      BY <1>17 DEF StoreFails
    <3>2. Attempted(spool[flush.msg]) \in Entry
      BY <1>t, <2>1, EntryTypes
    <3>. QED BY <1>t, <2>1, <3>1, <3>2
  <2>3. waiter' \in [Msg -> [Roles -> {"off", "waiting"} \union Codes]]
    BY <1>17, <2>1, <1>t DEF StoreFails, StopWaiting, Roles
  <2>. QED BY <1>17, <1>i, <2>1, <2>2, <2>3 DEF StoreFails, TypeOK, worker, reaper
<1>. QED BY <1>1, <1>2, <1>3, <1>4, <1>5, <1>6, <1>7, <1>8, <1>9, <1>10, <1>11, <1>12, <1>13,
            <1>14, <1>15, <1>16, <1>17 DEF LoopStep, FlushAcked, FlushKilled

(* Type correctness of the whole step. *)
LEMMA TypeStep ==
  ASSUME TypeOK, [Next]_vars PROVE TypeOK'
<1>t. /\ spool \in [Msg -> Entry] /\ slot \in [Slot -> Frame]
      /\ waiter \in [Msg -> [Roles -> {"off", "waiting"} \union Codes]]
      /\ sent \in [Msg -> {"none", "processing"} \union Codes]
  BY DEF TypeOK
<1>f. Fault => faults' \in 0..MaxFaults
  BY OutboxAssumption DEF Fault, TypeOK
<1>i. Idle \in Loop /\ Idle.phase = "idle" /\ "idle" \notin Holding
  BY DEF Idle, Loop, Holding
<1>1. ASSUME NEW m \in Msg, Send(m) PROVE TypeOK'
  <2>1. CASE Cardinality(Files) >= Capacity
    <3>1. call' = [call EXCEPT ![m] = "refused"] /\ spool' = spool /\ waiter' = waiter
      BY <1>1, <2>1 DEF Send
    <3>. QED BY <1>1, <3>1 DEF Send, TypeOK, worker, reaper
  <2>2. CASE ~(Cardinality(Files) >= Capacity)
    <3>1. /\ spool' = [spool EXCEPT ![m] = [NoFile EXCEPT !.file = "msg", !.idle = TTL]]
          /\ call' = [call EXCEPT ![m] = IF m \in Local THEN "injecting" ELSE "waiting"]
          /\ waiter' = IF m \in Local THEN waiter
                       ELSE [waiter EXCEPT ![m]["caller"] = "waiting"]
      BY <1>1, <2>2 DEF Send
    <3>2. spool' \in [Msg -> Entry]
      BY <3>1, <1>t, EntryTypes
    <3>3. waiter' \in [Msg -> [Roles -> {"off", "waiting"} \union Codes]]
      BY <3>1, <1>t DEF Roles
    <3>4. call' \in [Msg -> {"none", "refused", "injecting", "injected", "waiting",
                             "committed", "rejected", "spooled", "lost"}]
      BY <3>1 DEF TypeOK
    <3>. QED BY <1>1, <3>2, <3>3, <3>4 DEF Send, TypeOK, worker, reaper
  <2>. QED BY <2>1, <2>2
<1>2. ASSUME NEW m \in Msg, LocalReturns(m) PROVE TypeOK'
  BY <1>2 DEF LocalReturns, TypeOK, worker, reaper
<1>3. ASSUME NEW m \in Msg, CallerReturns(m) PROVE TypeOK'
  <2>1. waiter' \in [Msg -> [Roles -> {"off", "waiting"} \union Codes]]
    BY <1>3, <1>t DEF CallerReturns, Roles
  <2>2. call' \in [Msg -> {"none", "refused", "injecting", "injected", "waiting",
                           "committed", "rejected", "spooled", "lost"}]
    BY <1>3 DEF CallerReturns, TypeOK
  <2>. QED BY <1>3, <2>1, <2>2 DEF CallerReturns, TypeOK, worker, reaper
<1>4. ASSUME NEW m \in Msg, RouteChanges(m) PROVE TypeOK'
  <2>1. route' \subseteq Msg /\ faults' \in 0..MaxFaults
    BY <1>4, <1>f DEF RouteChanges, TypeOK, reaper
  <2>. QED BY <1>4, <2>1 DEF RouteChanges, TypeOK, reaper
<1>5. CASE LoopStep
  BY <1>5, LoopType
<1>6. ASSUME NEW x \in Slot, AdmitSend(x) PROVE TypeOK'
  <2>0. slot[x].stage = "up" /\ slot[x].msg \in Msg /\ slot[x] \in Frame
    BY <1>6, <1>t DEF AdmitSend, TypeOK, reaper
  <2>1. CASE sent[slot[x].msg] \in Codes /\ Answer(x, sent[slot[x].msg]) /\ UNCHANGED <<sent, tokens>>
    BY <1>6, <2>0, <2>1, AnswerTypes DEF AdmitSend, TypeOK, reaper
  <2>2. CASE sent' = [sent EXCEPT ![slot[x].msg] = "rate_limited"] /\ Answer(x, "rate_limited")
             /\ UNCHANGED tokens
    <3>1. "rate_limited" \in Codes
      BY DEF Codes
    <3>. QED BY <1>6, <2>0, <2>2, <3>1, AnswerTypes DEF AdmitSend, TypeOK, reaper
  <2>3. CASE tokens > 0 /\ sent' = [sent EXCEPT ![slot[x].msg] = "processing"]
             /\ tokens' = tokens - 1 /\ slot' = [slot EXCEPT ![x].stage = "admit"]
    <3>1. tokens' \in 0..Burst
      BY <2>3, OutboxAssumption DEF TypeOK
    <3>2. [slot[x] EXCEPT !.stage = "admit"] \in Frame
          /\ [slot[x] EXCEPT !.stage = "admit"].msg = slot[x].msg
      BY <2>0 DEF Frame
    <3>3. slot' \in [Slot -> Frame] /\ \A y \in Slot : slot'[y].stage # "free" => slot'[y].msg \in Msg
      BY <2>0, <2>3, <3>2 DEF TypeOK
    <3>. QED BY <1>6, <2>0, <2>3, <3>1, <3>3 DEF AdmitSend, TypeOK, reaper
  <2>. QED BY <1>6, <2>1, <2>2, <2>3 DEF AdmitSend
<1>7. ASSUME NEW x \in Slot, RejectSend(x) PROVE TypeOK'
  <2>1. "no_route" \in Codes /\ slot[x].stage # "free" /\ slot[x].msg \in Msg
    BY <1>7 DEF Codes, RejectSend, TypeOK
  <2>. QED BY <1>7, <2>1, AnswerTypes DEF RejectSend, TypeOK, reaper
<1>8. ASSUME NEW x \in Slot, CommitSend(x) PROVE TypeOK'
  <2>1. slot[x].msg \in Msg /\ slot[x] \in Frame
    BY <1>8, <1>t DEF CommitSend, TypeOK, reaper
  <2>2. [slot[x] EXCEPT !.stage = "committed"] \in Frame
        /\ [slot[x] EXCEPT !.stage = "committed"].msg = slot[x].msg
    BY <2>1 DEF Frame
  <2>3. slot' \in [Slot -> Frame] /\ \A y \in Slot : slot'[y].stage # "free" => slot'[y].msg \in Msg
    BY <1>8, <2>1, <2>2 DEF CommitSend, TypeOK, reaper
  <2>. QED BY <1>8, <2>1, <2>3 DEF CommitSend, TypeOK, reaper
<1>9. ASSUME NEW x \in Slot, RecordSend(x) PROVE TypeOK'
  <2>1. "ack" \in Codes /\ slot[x].stage # "free" /\ slot[x].msg \in Msg
    BY <1>9 DEF Codes, RecordSend, TypeOK
  <2>. QED BY <1>9, <2>1, AnswerTypes DEF RecordSend, TypeOK, reaper
<1>10. ASSUME NEW x \in Slot, ResolveCommit(x) PROVE TypeOK'
  <2>1. slot[x].msg \in Msg /\ slot[x].code \in Codes
    BY <1>10, <1>t DEF ResolveCommit, TypeOK, Frame
  <2>2. waiter' \in [Msg -> [Roles -> {"off", "waiting"} \union Codes]]
    BY <1>10, <1>t, <2>1 DEF ResolveCommit
  <2>3. slot' \in [Slot -> Frame] /\ \A y \in Slot : slot'[y].stage # "free" => slot'[y].msg \in Msg
    BY <1>10, SlotTypes DEF ResolveCommit, TypeOK
  <2>. QED BY <1>10, <2>2, <2>3 DEF ResolveCommit, TypeOK, worker, reaper
<1>11. CASE Connect
  BY <1>11 DEF Connect, TypeOK, worker, reaper
<1>12. CASE Disconnect
  <2>1. faults' \in 0..MaxFaults
    BY <1>12, <1>f DEF Disconnect
  <2>2. slot' \in [Slot -> Frame] /\ \A y \in Slot : slot'[y].stage # "free" => slot'[y].msg \in Msg
    BY <1>12, SlotTypes DEF Disconnect, TypeOK
  <2>. QED BY <1>12, <2>1, <2>2 DEF Disconnect, TypeOK, worker, reaper
<1>13. CASE Restart
  <2>1. faults' \in 0..MaxFaults
    BY <1>13, <1>f DEF Restart
  <2>2. slot' \in [Slot -> Frame] /\ \A y \in Slot : slot'[y].stage # "free" => slot'[y].msg \in Msg
    BY <1>13, SlotTypes DEF Restart, TypeOK
  <2>3. spool' \in [Msg -> Entry]
    BY <1>13, <1>t, EntryTypes DEF Restart
  <2>4. call' \in [Msg -> {"none", "refused", "injecting", "injected", "waiting",
                           "committed", "rejected", "spooled", "lost"}]
    BY <1>13 DEF Restart, TypeOK
  <2>5. waiter' \in [Msg -> [Roles -> {"off", "waiting"} \union Codes]]
    BY <1>13 DEF Restart
  <2>. QED BY <1>13, <1>i, <2>1, <2>2, <2>3, <2>4, <2>5 DEF Restart, TypeOK, worker, reaper
<1>14. CASE HubRestart
  <2>1. faults' \in 0..MaxFaults
    BY <1>14, <1>f DEF HubRestart
  <2>2. slot' \in [Slot -> Frame] /\ \A y \in Slot : slot'[y].stage # "free" => slot'[y].msg \in Msg
    BY <1>14, SlotTypes DEF HubRestart, TypeOK
  <2>. QED BY <1>14, <2>1, <2>2 DEF HubRestart, TypeOK, worker, reaper
<1>15. CASE Tick
  <2>1. \A m \in Msg : NoFile \in Entry /\ [spool[m] EXCEPT !.age = Older(@), !.idle = Older(@)] \in Entry
    BY <1>t, EntryTypes
  <2>2. spool' \in [Msg -> Entry]
    BY <1>15, <2>1 DEF Tick
  <2>b. Burst \in 0..Burst
    BY OutboxAssumption
  <2>3. tokens' \in 0..Burst
    BY <1>15, <2>b DEF Tick
  <2>. QED BY <1>15, <2>2, <2>3 DEF Tick, TypeOK, reaper
<1>16. CASE UNCHANGED vars
  BY <1>16 DEF vars, TypeOK
<1>17. ASSUME NEW m \in Msg, SendFails(m) PROVE TypeOK'
  <2>1. faults' \in 0..MaxFaults
    BY <1>17, <1>f DEF SendFails
  <2>. QED BY <1>17, <2>1 DEF SendFails, TypeOK, worker, reaper
<1>. QED BY <1>1, <1>2, <1>3, <1>4, <1>5, <1>6, <1>7, <1>8, <1>9, <1>10, <1>11, <1>12, <1>13,
            <1>14, <1>15, <1>16, <1>17 DEF Next, Work, WorkerStep

(* What the Worker records as acknowledged, or answers, it has committed. *)
LEMMA WorkerTrail ==
  ASSUME IInv, TypeOK', NEW x \in Slot, WorkerStep(x) PROVE AckTrail' /\ CommittedIsQueued'
<1>t. /\ slot \in [Slot -> Frame] /\ TypeOK /\ sent \in [Msg -> {"none", "processing"} \union Codes]
      /\ waiter \in [Msg -> [Roles -> {"off", "waiting"} \union Codes]]
  BY DEF IInv, TypeOK
<1>m. slot[x].stage # "free" => slot[x].msg \in Msg
  BY DEF IInv, TypeOK
<1>1. CASE AdmitSend(x)
  <2>0. slot[x].stage = "up" /\ slot[x].msg \in Msg /\ queued' = queued /\ flush' = flush
        /\ waiter' = waiter /\ archived' = archived /\ call' = call
    BY <1>1, <1>m DEF AdmitSend
  <2>1. CASE sent[slot[x].msg] \in Codes /\ Answer(x, sent[slot[x].msg]) /\ UNCHANGED <<sent, tokens>>
    <3>1. /\ \A y \in Slot : y # x => slot'[y] = slot[y]
          /\ slot'[x].stage \in {"free", "down"}
          /\ slot'[x].stage = "down" => slot'[x].code = sent[slot[x].msg] /\ slot'[x].msg = slot[x].msg
      BY <1>t, <2>0, <2>1, AnswerTypes
    <3>. QED BY <2>0, <2>1, <3>1 DEF IInv, AckTrail, CommittedIsQueued
  <2>2. CASE sent' = [sent EXCEPT ![slot[x].msg] = "rate_limited"] /\ Answer(x, "rate_limited")
    <3>1. /\ \A y \in Slot : y # x => slot'[y] = slot[y]
          /\ slot'[x].stage \in {"free", "down"}
          /\ slot'[x].stage = "down" => slot'[x].code = "rate_limited"
      BY <1>t, <2>0, <2>2, AnswerTypes DEF Codes
    <3>. QED BY <1>t, <2>0, <2>2, <3>1 DEF IInv, AckTrail, CommittedIsQueued
  <2>3. CASE sent' = [sent EXCEPT ![slot[x].msg] = "processing"]
             /\ slot' = [slot EXCEPT ![x].stage = "admit"]
    <3>1. (\A y \in Slot : y # x => slot'[y] = slot[y]) /\ slot'[x].stage = "admit"
      BY <1>t, <2>3 DEF Frame
    <3>. QED BY <1>t, <2>0, <2>3, <3>1 DEF IInv, AckTrail, CommittedIsQueued
  <2>. QED BY <1>1, <2>1, <2>2, <2>3 DEF AdmitSend
<1>2. CASE RejectSend(x)
  <2>1. "no_route" \in Codes /\ slot[x].stage # "free" /\ slot[x].msg \in Msg
    BY <1>2, <1>m DEF Codes, RejectSend
  <2>2. /\ \A y \in Slot : y # x => slot'[y] = slot[y]
        /\ slot'[x].stage \in {"free", "down"}
        /\ slot'[x].stage = "down" => slot'[x].code = "no_route"
    BY <1>t, <1>2, <2>1, AnswerTypes DEF RejectSend
  <2>. QED BY <1>t, <1>2, <2>1, <2>2 DEF RejectSend, IInv, AckTrail, CommittedIsQueued, reaper
<1>3. CASE CommitSend(x)
  <2>1. (\A y \in Slot : y # x => slot'[y] = slot[y]) /\ slot'[x].msg = slot[x].msg
    BY <1>t, <1>3 DEF CommitSend, Frame
  <2>2. slot[x].msg \in queued' /\ queued \subseteq queued'
    BY <1>3 DEF CommitSend
  <2>. QED BY <1>3, <2>1, <2>2 DEF CommitSend, IInv, AckTrail, CommittedIsQueued, reaper
<1>4. CASE RecordSend(x)
  <2>1. "ack" \in Codes /\ slot[x].stage # "free" /\ slot[x].msg \in Msg /\ slot[x].msg \in queued
    BY <1>4, <1>m DEF Codes, RecordSend, IInv, AckTrail
  <2>2. /\ \A y \in Slot : y # x => slot'[y] = slot[y]
        /\ slot'[x].stage \in {"free", "down"}
        /\ slot'[x].stage = "down" => slot'[x].msg = slot[x].msg
    BY <1>t, <1>4, <2>1, AnswerTypes DEF RecordSend
  <2>. QED BY <1>t, <1>4, <2>1, <2>2 DEF RecordSend, IInv, AckTrail, CommittedIsQueued, reaper
<1>5. CASE ResolveCommit(x)
  <2>1. slot[x].stage = "down" /\ slot[x].msg \in Msg
    BY <1>5, <1>m DEF ResolveCommit
  <2>2. \A m \in Msg, w \in Roles : waiter'[m][w] = "ack" => m \in queued
    <3>1. \A m \in Msg, w \in Roles : waiter'[m][w] = waiter[m][w]
            \/ (m = slot[x].msg /\ waiter'[m][w] = slot[x].code)
      BY <1>5, <1>t, <2>1 DEF ResolveCommit
    <3>. QED BY <2>1, <3>1 DEF IInv, AckTrail
  <2>3. (\A y \in Slot : y # x => slot'[y] = slot[y]) /\ slot'[x].stage = "free"
    BY <1>5, <1>t, SlotTypes DEF ResolveCommit
  <2>. QED BY <1>5, <2>2, <2>3 DEF ResolveCommit, IInv, AckTrail, CommittedIsQueued, worker, reaper
<1>. QED BY <1>1, <1>2, <1>3, <1>4, <1>5 DEF WorkerStep

(* The daemon's loop and its callers pass an "ack" on, and never make one up. *)
LEMMA DaemonTrail ==
  ASSUME IInv, TypeOK',
         LoopStep \/ \E m \in Msg : Send(m) \/ SendFails(m) \/ LocalReturns(m) \/ CallerReturns(m)
  PROVE  AckTrail' /\ CommittedIsQueued'
<1>t. /\ flush \in Loop /\ call \in [Msg -> {"none", "refused", "injecting", "injected", "waiting",
                                             "committed", "rejected", "spooled", "lost"}]
      /\ waiter \in [Msg -> [Roles -> {"off", "waiting"} \union Codes]]
      /\ (flush.phase \in Holding => flush.msg \in Msg) /\ slot \in [Slot -> Frame]
  BY DEF IInv, TypeOK
<1>1. ASSUME NEW m \in Msg, Send(m) PROVE AckTrail' /\ CommittedIsQueued'
  <2>1. \A j \in Msg, w \in Roles : waiter'[j][w] = "ack" => waiter[j][w] = "ack"
    BY <1>1, <1>t DEF Send
  <2>2. \A j \in Msg : call'[j] = "committed" => call[j] = "committed"
    BY <1>1, <1>t DEF Send
  <2>. QED BY <1>1, <2>1, <2>2 DEF Send, IInv, AckTrail, CommittedIsQueued, worker, reaper
<1>2. ASSUME NEW m \in Msg, LocalReturns(m) \/ SendFails(m) PROVE AckTrail' /\ CommittedIsQueued'
  <2>1. \A j \in Msg : call'[j] = "committed" => call[j] = "committed"
    BY <1>2, <1>t DEF LocalReturns, SendFails
  <2>. QED BY <1>2, <2>1 DEF LocalReturns, SendFails, IInv, AckTrail, CommittedIsQueued, worker, reaper
<1>3. ASSUME NEW m \in Msg, CallerReturns(m) PROVE AckTrail' /\ CommittedIsQueued'
  <2>1. \A j \in Msg, w \in Roles : waiter'[j][w] = "ack" => waiter[j][w] = "ack"
    BY <1>3, <1>t DEF CallerReturns
  <2>2. \A j \in Msg : call'[j] = "committed" =>
          call[j] = "committed" \/ (j = m /\ waiter[m]["caller"] = "ack")
    BY <1>3, <1>t DEF CallerReturns
  <2>3. \A j \in Msg : call'[j] = "committed" => j \in queued
    BY <2>2 DEF IInv, AckTrail, CommittedIsQueued, Roles
  <2>. QED BY <1>3, <2>1, <2>3 DEF CallerReturns, IInv, AckTrail, CommittedIsQueued, worker, reaper
<1>4. CASE Wake \/ ReapRemoves \/ ReapEnds \/ ReapFails \/ ReapReturns
           \/ FlushEnds \/ ClaimFails \/ FlushOffline
           \/ KillWrites \/ KillTells \/ \E m \in Msg : ReapWrites(m) \/ ReapTells(m) \/ Claim(m)
  <2>1. flush'.phase = "acked" => flush.phase = "acked" /\ flush'.msg = flush.msg
    <3>1. ASSUME NEW m \in Msg, ReapTells(m) PROVE flush'.phase # "acked"
      BY <3>1, <1>t DEF ReapTells, Loop
    <3>2. ASSUME NEW m \in Msg, ReapWrites(m) \/ Claim(m) PROVE flush'.phase # "acked"
      BY <3>2, <1>t DEF ReapWrites, Claim, Loop
    <3>3. CASE Wake \/ ReapEnds \/ ReapReturns \/ KillWrites \/ KillTells
      BY <3>3, <1>t DEF Wake, ReapEnds, ReapReturns, KillWrites, KillTells, Loop
    <3>4. CASE ReapRemoves
      BY <3>4, <1>t DEF ReapRemoves, Loop
    <3>5. CASE FlushEnds \/ ClaimFails \/ FlushOffline
      BY <3>5 DEF FlushEnds, ClaimFails, FlushOffline, Idle
    <3>6. CASE ReapFails
      BY <3>6, <1>t DEF ReapFails, Loop
    <3>. QED BY <1>4, <3>1, <3>2, <3>3, <3>4, <3>5, <3>6
  <2>2. UNCHANGED <<archived, call, waiter, slot, sent, queued>>
    BY <1>4 DEF Wake, ReapRemoves, ReapEnds, ReapFails, ReapReturns, FlushEnds, ClaimFails,
       FlushOffline, KillWrites, KillTells, ReapWrites, ReapTells, Claim, worker, reaper
  <2>. QED BY <2>1, <2>2 DEF IInv, AckTrail, CommittedIsQueued
<1>5. ASSUME NEW x \in Slot, WriteFrame(x) PROVE AckTrail' /\ CommittedIsQueued'
  <2>1. \A j \in Msg, w \in Roles : waiter'[j][w] = "ack" => waiter[j][w] = "ack"
    BY <1>5, <1>t DEF WriteFrame
  <2>2. flush'.phase = "waiting"
    BY <1>5, <1>t DEF WriteFrame, Loop
  <2>3. (\A y \in Slot : y # x => slot'[y] = slot[y]) /\ slot'[x].stage = "up"
    BY <1>5, <1>t DEF WriteFrame, Free
  <2>. QED BY <1>5, <2>1, <2>2, <2>3 DEF WriteFrame, IInv, AckTrail, CommittedIsQueued, worker, reaper
<1>6. CASE FlushAcked \/ FlushKilled
  <2>1. flush.phase = "waiting" /\ flush.msg \in Msg
    BY <1>6, <1>t DEF FlushAcked, FlushKilled, Holding
  <2>2. \A j \in Msg, w \in Roles : waiter'[j][w] = "ack" => waiter[j][w] = "ack"
    BY <1>6, <1>t, <2>1 DEF FlushAcked, FlushKilled, ClaimRemoved, StopWaiting
  <2>3. flush'.phase = "acked" => flush'.msg \in queued
    <3>1. CASE FlushAcked
      <4>1. waiter[flush.msg]["flusher"] = "ack" /\ flush'.msg = flush.msg
        BY <3>1, <1>t DEF FlushAcked, Outcome, ClaimRemoved, Loop
      <4>. QED BY <2>1, <4>1 DEF IInv, AckTrail, Roles
    <3>2. CASE FlushKilled
      BY <3>2, <1>t DEF FlushKilled, ClaimRemoved, Loop
    <3>. QED BY <1>6, <3>1, <3>2
  <2>4. UNCHANGED <<archived, call, slot, sent, queued>>
    BY <1>6 DEF FlushAcked, FlushKilled, ClaimRemoved, worker, reaper
  <2>. QED BY <2>2, <2>3, <2>4 DEF IInv, AckTrail, CommittedIsQueued
<1>7. CASE AckWrites
  <2>1. flush.msg \in queued /\ flush'.phase = "flushing"
    BY <1>7, <1>t DEF AckWrites, IInv, AckTrail, Loop
  <2>. QED BY <1>7, <2>1 DEF AckWrites, IInv, AckTrail, CommittedIsQueued, worker, reaper
<1>8. CASE FlushReleases
  <2>1. \A j \in Msg, w \in Roles : waiter'[j][w] = "ack" => waiter[j][w] = "ack"
    <3>1. flush.msg \in Msg
      BY <1>8, <1>t DEF FlushReleases, Holding
    <3>. QED BY <1>8, <1>t, <3>1 DEF FlushReleases, StopWaiting
  <2>2. flush'.phase = "flushing"
    BY <1>8, <1>t DEF FlushReleases, Loop
  <2>. QED BY <1>8, <2>1, <2>2 DEF FlushReleases, IInv, AckTrail, CommittedIsQueued, worker, reaper
<1>9. CASE StoreFails
  <2>1. \A j \in Msg, w \in Roles : waiter'[j][w] = "ack" => waiter[j][w] = "ack"
    <3>1. flush.msg \in Msg
      BY <1>9, <1>t DEF StoreFails, Holding
    <3>. QED BY <1>9, <1>t, <3>1 DEF StoreFails, StopWaiting
  <2>2. flush'.phase = "idle"
    BY <1>9 DEF StoreFails, Idle
  <2>. QED BY <1>9, <2>1, <2>2 DEF StoreFails, IInv, AckTrail, CommittedIsQueued, worker, reaper
<1>. QED BY <1>1, <1>2, <1>3, <1>4, <1>5, <1>6, <1>7, <1>8, <1>9 DEF LoopStep

(* The rest of the world neither acknowledges nor archives anything. *)
LEMMA WorldTrail ==
  ASSUME IInv, TypeOK', \/ Connect \/ Disconnect \/ Restart \/ HubRestart \/ Tick \/ UNCHANGED vars
                        \/ \E m \in Msg : RouteChanges(m)
  PROVE  AckTrail' /\ CommittedIsQueued'
<1>t. /\ slot \in [Slot -> Frame] /\ TypeOK /\ call \in [Msg -> {"none", "refused", "injecting",
           "injected", "waiting", "committed", "rejected", "spooled", "lost"}]
  BY DEF IInv, TypeOK
<1>c. \A x \in Slot : /\ Cut[x].stage = "committed" => slot[x].stage = "committed" /\ Cut[x].msg = slot[x].msg
                      /\ Cut[x].stage # "down"
  BY <1>t, SlotTypes
<1>1. CASE Connect \/ Tick \/ UNCHANGED vars \/ \E m \in Msg : RouteChanges(m)
  BY <1>1 DEF Connect, Tick, vars, RouteChanges, worker, reaper, IInv, AckTrail, CommittedIsQueued
<1>2. CASE Disconnect
  BY <1>2, <1>c DEF Disconnect, worker, reaper, IInv, AckTrail, CommittedIsQueued
<1>3. CASE Restart
  <2>1. /\ \A m \in Msg, w \in Roles : waiter'[m][w] = "off"
        /\ flush'.phase = "idle" /\ slot' = Cut
        /\ UNCHANGED <<archived, sent, queued>>
    BY <1>3 DEF Restart, Idle, worker, reaper
  <2>2. \A m \in Msg : call'[m] = "committed" => call[m] = "committed"
    BY <1>3, <1>t DEF Restart
  <2>. QED BY <1>c, <2>1, <2>2 DEF IInv, AckTrail, CommittedIsQueued
<1>4. CASE HubRestart
  <2>1. \A x \in Slot : slot'[x] = slot[x] \/ slot'[x].stage = "free"
    BY <1>4 DEF HubRestart, Free
  <2>. QED BY <1>4, <2>1 DEF HubRestart, worker, reaper, IInv, AckTrail, CommittedIsQueued
<1>. QED BY <1>1, <1>2, <1>3, <1>4

(* What is dead stays out of the loop's hands, one case per step. *)
LEMMA DeadStep ==
  ASSUME IInv, TypeOK', [Next]_vars PROVE DeadIsGone'
<1>t. /\ flush \in Loop /\ spool \in [Msg -> Entry] /\ dead \subseteq Msg
      /\ (flush.phase \in Holding => flush.msg \in Msg)
      /\ call \in [Msg -> {"none", "refused", "injecting", "injected", "waiting",
                           "committed", "rejected", "spooled", "lost"}]
      /\ \A m \in Msg : spool[m].age \in 0..TTL
      /\ told \subseteq Msg /\ flush.reaped \subseteq Msg
  BY DEF IInv, TypeOK, Entry, Loop
<1>n. NoFile.file = "none"
  BY DEF NoFile
<1>d. DeadIsGone
  BY DEF IInv
<1>1. ASSUME NEW m \in Msg, Send(m) PROVE DeadIsGone'
  <2>1. call[m] = "none" /\ m \notin dead /\ UNCHANGED <<dead, told, flush, reapDue, reapFailed>>
    BY <1>1, <1>d DEF Send, DeadIsGone, reaper
  <2>2. call'[m] # "none" /\ \A j \in Msg : j # m => call'[j] = call[j] /\ spool'[j] = spool[j]
    BY <1>1, <1>t DEF Send
  <2>3. flush.phase \in {"removing", "claimed", "waiting", "killed", "bouncing"} =>
         flush.msg \in Msg /\ flush.msg # m
    BY <1>t, <1>d, <2>1 DEF DeadIsGone, Holding
  <2>4. \A j \in told \union flush.reaped : j # m
    BY <1>d, <2>1 DEF DeadIsGone
  <2>. QED BY <1>t, <1>d, <2>1, <2>2, <2>3, <2>4 DEF DeadIsGone
<1>2. ASSUME NEW m \in Msg, LocalReturns(m) \/ CallerReturns(m) \/ SendFails(m) PROVE DeadIsGone'
  <2>1. \A j \in Msg : call'[j] = "none" => call[j] = "none"
    BY <1>2, <1>t DEF LocalReturns, CallerReturns, SendFails
  <2>2. UNCHANGED <<spool, dead, told, flush, reapDue, reapFailed>>
    BY <1>2 DEF LocalReturns, CallerReturns, SendFails, reaper
  <2>3. flush.phase \in {"removing", "killed", "bouncing"} => flush.msg \in Msg
    BY <1>t DEF Holding
  <2>4. \A j \in Msg : call[j] # "none" => call'[j] # "none"
    BY <2>1
  <2>. QED BY <1>t, <1>d, <2>1, <2>2, <2>3, <2>4 DEF DeadIsGone
<1>3. CASE Wake
  <2>1. flush' = [flush EXCEPT !.phase = IF reapDue THEN "reaping" ELSE "flushing"]
        /\ flush.phase = "idle" /\ UNCHANGED <<spool, dead, told, call, reapFailed>>
    BY <1>3 DEF Wake
  <2>2. /\ reapDue => flush'.phase = "reaping"
        /\ flush'.phase \in {"reaping", "flushing"} /\ flush'.reaped = flush.reaped
    BY <1>t, <2>1 DEF Loop
  <2>. QED BY <1>t, <1>d, <2>1, <2>2 DEF DeadIsGone
<1>4. ASSUME NEW m \in Msg, ReapWrites(m) PROVE DeadIsGone'
  <2>1. flush'.phase = "removing" /\ flush.phase = "reaping" /\ flush'.reaped = flush.reaped
    BY <1>4, <1>t DEF ReapWrites, Loop
  <2>2. spool[m].age = TTL /\ spool[m].file # "none"
    BY <1>4, <1>t, OutboxAssumption DEF ReapWrites, Expired, Files
  <2>3. call[m] # "none"
    BY <1>d, <2>2 DEF DeadIsGone
  <2>. QED BY <1>4, <1>d, <2>1, <2>2, <2>3 DEF ReapWrites, DeadIsGone, reaper
<1>5. CASE ReapRemoves
  <2>1. /\ flush'.phase = "reaping" /\ flush.phase = "removing" /\ flush.msg \in Msg
        /\ flush'.reaped = flush.reaped \union {flush.msg}
    BY <1>5, <1>t DEF ReapRemoves, Loop, Holding
  <2>2. spool'[flush.msg].file = "none" /\ \A j \in Msg : j # flush.msg => spool'[j] = spool[j]
    BY <1>5, <1>t, <1>n, <2>1 DEF ReapRemoves
  <2>3. call[flush.msg] # "none"
    BY <1>d, <2>1 DEF DeadIsGone
  <2>. QED BY <1>5, <1>t, <1>d, <2>1, <2>2, <2>3 DEF ReapRemoves, DeadIsGone, reaper
<1>6. CASE ReapEnds
  <2>1. flush'.phase = "telling" /\ flush'.reaped = flush.reaped /\ UNCHANGED <<spool, dead, told, call>>
    BY <1>6, <1>t DEF ReapEnds, Loop
  <2>2. \A m \in dead : spool[m].file = "none"
    <3>1. SUFFICES ASSUME NEW m \in dead, spool[m].file # "none" PROVE FALSE
      OBVIOUS
    <3>2. m \in Msg /\ spool[m].age = TTL
      BY <1>t, <1>d, <3>1 DEF DeadIsGone
    <3>3. m \in Expired
      BY <3>1, <3>2, OutboxAssumption DEF Expired, Files
    <3>. QED BY <1>6, <3>3 DEF ReapEnds
  <2>. QED BY <1>d, <2>1, <2>2 DEF DeadIsGone
<1>7. ASSUME NEW m \in Msg, ReapTells(m) PROVE DeadIsGone'
  <2>1. flush'.phase = "telling" /\ flush.phase = "telling" /\ flush'.reaped = flush.reaped \ {m}
    BY <1>7, <1>t DEF ReapTells, Loop
  <2>2. told' \subseteq told \union flush.reaped
    BY <1>7 DEF ReapTells, Tell
  <2>. QED BY <1>7, <1>d, <2>1, <2>2 DEF ReapTells, DeadIsGone, reaper
<1>8. CASE ReapReturns
  <2>1. flush'.phase = "flushing" /\ flush.phase = "telling" /\ flush'.reaped = flush.reaped
    BY <1>8, <1>t DEF ReapReturns, Loop
  <2>. QED BY <1>8, <1>d, <2>1 DEF ReapReturns, DeadIsGone, reaper
<1>9. ASSUME NEW m \in Msg, Claim(m) PROVE DeadIsGone'
  <2>1. /\ flush'.phase = "claimed" /\ flush.phase = "flushing" /\ flush'.msg = m
        /\ flush'.reaped = flush.reaped
    BY <1>9, <1>t DEF Claim, Loop
  <2>2. /\ spool'[m].file = "claimed" /\ spool[m].file = "msg" /\ spool'[m].age = spool[m].age
        /\ \A j \in Msg : j # m => spool'[j] = spool[j]
    BY <1>9, <1>t DEF Claim, Eligible, Entry
  <2>. QED BY <1>9, <1>t, <1>d, <2>1, <2>2 DEF Claim, DeadIsGone, reaper
<1>10. CASE FlushEnds \/ ClaimFails
  <2>1. /\ flush'.phase = "idle" /\ flush.phase = "flushing" /\ flush'.reaped = {}
        /\ UNCHANGED <<spool, dead, told, call, reapDue, reapFailed>>
    BY <1>10 DEF FlushEnds, ClaimFails, Idle, reaper
  <2>. QED BY <1>d, <2>1 DEF DeadIsGone
<1>11. CASE FlushOffline \/ FlushReleases \/ StoreFails
  <2>1. /\ flush'.phase \in {"idle", "flushing"} /\ flush'.reaped \subseteq flush.reaped
        /\ flush.phase \in {"claimed", "waiting", "acked", "killed"} /\ flush.msg \in Msg
        /\ UNCHANGED <<dead, told, call, reapFailed>>
    BY <1>11, <1>t DEF FlushOffline, FlushReleases, StoreFails, Idle, Loop, Holding, reaper
  <2>2. \/ spool' = spool
        \/ /\ flush.phase \in {"claimed", "waiting"}
           /\ spool' = [spool EXCEPT ![flush.msg] = Released(spool[flush.msg])]
        \/ /\ flush.phase \in {"claimed", "waiting"}
           /\ spool' = [spool EXCEPT ![flush.msg] = Attempted(spool[flush.msg])]
    BY <1>11 DEF FlushOffline, FlushReleases, StoreFails
  <2>3. Attempted(spool[flush.msg]).age = spool[flush.msg].age
        /\ Released(spool[flush.msg]).age = spool[flush.msg].age
    BY <1>t, <2>1, EntryTypes
  <2>4. /\ \A j \in Msg : spool'[j].age = spool[j].age
        /\ \A j \in Msg : j # flush.msg => spool'[j] = spool[j]
        /\ spool' = spool \/ flush.phase \in {"claimed", "waiting"}
    BY <1>t, <2>1, <2>2, <2>3
  <2>5. flush.phase \in {"claimed", "waiting"} => /\ spool[flush.msg].file # "none"
                                                 /\ flush.msg \notin told \union flush.reaped
                                                 /\ call[flush.msg] # "none"
    BY <1>d, <2>1 DEF DeadIsGone
  <2>6. \A j \in Msg : spool'[j].file # "none" => spool[j].file # "none"
    BY <2>1, <2>4, <2>5
  <2>7. \A m \in dead : spool'[m].file # "none" => spool'[m].age = TTL /\ reapFailed'
    BY <1>t, <1>d, <2>1, <2>4, <2>6 DEF DeadIsGone
  <2>8. \A m \in told \union flush.reaped : spool'[m].file = "none" /\ call[m] # "none"
    BY <1>t, <1>d, <2>1, <2>4, <2>5 DEF DeadIsGone
  <2>9. \A m \in Msg : call[m] = "none" => spool'[m].file = "none" /\ m \notin dead
    BY <1>d, <2>6 DEF DeadIsGone
  <2>. QED BY <1>t, <2>1, <2>7, <2>8, <2>9 DEF DeadIsGone
<1>12. ASSUME NEW x \in Slot, WriteFrame(x) PROVE DeadIsGone'
  <2>1. /\ flush'.phase = "waiting" /\ flush.phase = "claimed" /\ flush'.msg = flush.msg
        /\ flush'.reaped = flush.reaped
    BY <1>12, <1>t DEF WriteFrame, Loop
  <2>. QED BY <1>12, <1>d, <2>1 DEF WriteFrame, DeadIsGone, reaper
<1>13. CASE FlushAcked \/ FlushKilled
  <2>1. flush'.phase \in {"acked", "killed"} /\ flush.phase = "waiting" /\ flush'.msg = flush.msg
        /\ flush'.reaped = flush.reaped
        /\ flush.msg \in Msg /\ UNCHANGED <<dead, told, call, reapFailed>>
    BY <1>13, <1>t DEF FlushAcked, FlushKilled, ClaimRemoved, Loop, Holding, reaper
  <2>2. spool'[flush.msg].file = "none" /\ \A j \in Msg : j # flush.msg => spool'[j] = spool[j]
    BY <1>13, <1>t, <1>n, <2>1 DEF FlushAcked, FlushKilled, ClaimRemoved
  <2>3. call[flush.msg] # "none"
    BY <1>d, <2>1 DEF DeadIsGone
  <2>. QED BY <1>t, <1>d, <2>1, <2>2, <2>3 DEF DeadIsGone
<1>14. CASE AckWrites
  <2>1. flush'.phase = "flushing" /\ flush.phase = "acked" /\ flush'.reaped = flush.reaped
    BY <1>14, <1>t DEF AckWrites, Loop
  <2>. QED BY <1>14, <1>d, <2>1 DEF AckWrites, DeadIsGone, reaper
<1>15. CASE KillWrites
  <2>1. /\ flush'.phase = "bouncing" /\ flush.phase = "killed" /\ flush'.msg = flush.msg
        /\ flush'.reaped = flush.reaped
    BY <1>15, <1>t DEF KillWrites, Loop
  <2>. QED BY <1>15, <1>d, <2>1 DEF KillWrites, DeadIsGone, reaper
<1>16. CASE KillTells
  <2>1. flush'.phase = "flushing" /\ flush.phase = "bouncing" /\ flush'.reaped = flush.reaped
    BY <1>16, <1>t DEF KillTells, Loop
  <2>2. told' \subseteq told \union {flush.msg}
    BY <1>16 DEF KillTells, Tell
  <2>. QED BY <1>16, <1>d, <2>1, <2>2 DEF KillTells, DeadIsGone, reaper
<1>17. CASE (\E x \in Slot : WorkerStep(x)) \/ Connect \/ Disconnect \/ HubRestart \/ UNCHANGED vars
            \/ \E m \in Msg : RouteChanges(m)
  <2>1. UNCHANGED <<spool, dead, told, flush, reapDue, reapFailed, call>>
    BY <1>17 DEF WorkerStep, AdmitSend, RejectSend, CommitSend, RecordSend, ResolveCommit, Connect,
       Disconnect, HubRestart, vars, RouteChanges, reaper
  <2>. QED BY <1>d, <2>1 DEF DeadIsGone
<1>18. CASE Restart
  <2>1. flush'.phase = "idle" /\ flush'.reaped = {} /\ reapDue' /\ dead' = dead /\ told' = told
    BY <1>18 DEF Restart, Idle
  <2>2. \A m \in Msg : spool'[m].age = spool[m].age /\ (spool'[m].file # "none" => spool[m].file # "none")
    BY <1>18, <1>t DEF Restart, Entry
  <2>3. \A m \in Msg : call'[m] = "none" <=> call[m] = "none"
    BY <1>18, <1>t DEF Restart
  <2>. QED BY <1>t, <1>d, <2>1, <2>2, <2>3 DEF DeadIsGone
<1>19. CASE Tick
  <2>1. reapDue' /\ UNCHANGED <<flush, dead, told, call, reapFailed>>
    BY <1>19 DEF Tick
  <2>2. \A m \in Msg : spool'[m].file = spool[m].file
    BY <1>19, <1>t, <1>n DEF Tick, Files, Entry
  <2>3. ASSUME NEW m \in Msg, spool[m].file # "none", spool[m].age = TTL PROVE spool'[m].age = TTL
    <3>1. spool'[m] = [spool[m] EXCEPT !.age = Older(@), !.idle = Older(@)]
      BY <1>19, <2>3 DEF Tick, Files
    <3>2. spool'[m].age = Older(spool[m].age)
      BY <1>t, <3>1 DEF Entry
    <3>. QED BY <2>3, <3>2, OutboxAssumption DEF Older
  <2>4. flush.phase \in Holding => flush.msg \in Msg
    BY <1>t
  <2>. QED BY <1>t, <1>d, <2>1, <2>2, <2>3, <2>4 DEF DeadIsGone, Holding
<1>20. CASE ReapFails
  <2>1. flush'.phase = "flushing" /\ flush'.reaped = {} /\ reapFailed'
    BY <1>20, <1>t DEF ReapFails, Loop
  <2>. QED BY <1>20, <1>d, <2>1 DEF ReapFails, DeadIsGone
<1>. QED BY <1>1, <1>2, <1>3, <1>4, <1>5, <1>6, <1>7, <1>8, <1>9, <1>10, <1>11, <1>12, <1>13,
            <1>14, <1>15, <1>16, <1>17, <1>18, <1>19, <1>20 DEF Next, Work, LoopStep

(* A fresh daemon: empty spool, nothing under way. *)
LEMMA InitInv ==
  ASSUME Init PROVE IInv
<1>1. NoFile \in Entry /\ NoFile.file = "none"
  BY OutboxAssumption DEF NoFile, Entry, Tries
<1>2. Free \in Frame /\ Free.stage = "free" /\ Idle \in Loop /\ Idle.phase = "idle"
  BY DEF Free, Frame, Codes, Idle, Loop
<1>3. Burst \in 0..Burst /\ 0 \in 0..MaxFaults
  BY OutboxAssumption
<1>4. TypeOK
  BY <1>1, <1>2, <1>3 DEF Init, TypeOK, Holding
<1>5. AckTrail /\ CommittedIsQueued /\ DeadIsGone
  BY <1>1, <1>2 DEF Init, Idle, AckTrail, CommittedIsQueued, DeadIsGone
<1>. QED BY <1>4, <1>5 DEF IInv

(* The inductive invariant of the sending half holds of every behaviour. *)
THEOREM Invariance == Spec => []IInv
<1>1. Init => IInv
  BY InitInv
<1>2. IInv /\ [Next]_vars => IInv'
  <2>1. SUFFICES ASSUME IInv, [Next]_vars PROVE IInv'
    OBVIOUS
  <2>2. TypeOK'
    BY <2>1, TypeStep DEF IInv
  <2>3. DeadIsGone'
    BY <2>1, <2>2, DeadStep
  <2>4. AckTrail' /\ CommittedIsQueued'
    BY <2>1, <2>2, WorkerTrail, DaemonTrail, WorldTrail DEF Next, Work
  <2>. QED BY <2>2, <2>3, <2>4 DEF IInv
<1>. QED BY <1>1, <1>2, PTL DEF Spec

(* Every variable of the sending half keeps its type; the token bucket of    *)
(* admitSend is never overdrawn.                                             *)
THEOREM TypeCorrect == Spec => []TypeOK
<1>1. IInv => TypeOK
  BY DEF IInv
<1>. QED BY <1>1, Invariance, PTL

(* What send_message reports as committed, and what the daemon drops from    *)
(* its spool as acknowledged, is durably queued at the target.               *)
THEOREM CommitIsDurable == Spec => []CommittedIsQueued
<1>1. IInv => CommittedIsQueued
  BY DEF IInv
<1>. QED BY <1>1, Invariance, PTL

(* Every place that says "ack" says it of a message that is queued: the        *)
(* record at the Worker, a frame on its way down, a resolved waiter, the loop  *)
(* that is about to archive (admitSend, resolveCommit, Ack).                   *)
THEOREM AckTrailHolds == Spec => []AckTrail
<1>1. IInv => AckTrail
  BY DEF IInv
<1>. QED BY <1>1, Invariance, PTL

(* A frame goes up for the message whose file the loop holds as a claim. *)
LEMMA SentIsHeld ==
  ASSUME IInv, [Next]_vars, NEW x \in Slot, slot[x].stage = "free", slot'[x].stage = "up"
  PROVE  /\ flush.phase = "claimed" /\ slot'[x].msg = flush.msg
         /\ spool[flush.msg].file = "claimed"
<1>t. TypeOK /\ slot \in [Slot -> Frame]
  BY DEF IInv, TypeOK
<1>1. \E y \in Slot : WriteFrame(y)
  <2>1. ASSUME slot' = slot PROVE FALSE
    BY <2>1
  <2>2. ASSUME slot' = Cut PROVE FALSE
    BY <1>t, <2>2, SlotTypes
  <2>3. ASSUME HubRestart PROVE FALSE
    BY <2>3 DEF HubRestart, Free
  <2>4. ASSUME NEW y \in Slot, NEW code, Answer(y, code) PROVE FALSE
    BY <1>t, <2>4 DEF Answer, Free, Frame
  <2>5. ASSUME NEW y \in Slot, NEW st \in {"admit", "committed"},
               slot' = [slot EXCEPT ![y].stage = st] PROVE FALSE
    BY <1>t, <2>5 DEF Frame
  <2>6. ASSUME NEW y \in Slot, slot' = [slot EXCEPT ![y] = Free] PROVE FALSE
    BY <1>t, <2>6 DEF Free, Frame
  <2>7. ASSUME NEW y \in Slot, WorkerStep(y) PROVE FALSE
    BY <2>4, <2>5, <2>6, <2>7 DEF WorkerStep, AdmitSend, RejectSend, CommitSend, RecordSend,
       ResolveCommit
  <2>. QED BY <2>1, <2>2, <2>3, <2>7 DEF Next, Work, LoopStep, vars, Send, SendFails, LocalReturns,
       CallerReturns, RouteChanges, Wake, ReapWrites, ReapRemoves, ReapEnds, ReapFails, ReapTells,
       ReapReturns, Claim, FlushEnds, ClaimFails, FlushOffline, StoreFails, FlushAcked, FlushKilled,
       ClaimRemoved, AckWrites, KillWrites, KillTells, FlushReleases, Connect, Disconnect, Restart,
       Tick
<1>2. PICK y \in Slot : WriteFrame(y)
  BY <1>1
<1>3. slot'[x].msg = flush.msg
  <2>1. x = y
    BY <1>t, <1>2 DEF WriteFrame
  <2>2. slot'[x] = [Free EXCEPT !.stage = "up", !.msg = flush.msg, !.live = TRUE]
    BY <1>t, <1>2, <2>1 DEF WriteFrame
  <2>. QED BY <2>2 DEF Free
<1>. QED BY <1>2, <1>3 DEF WriteFrame, IInv, DeadIsGone

(* The message whose sender was told that it was not delivered is never      *)
(* handed to the Worker again, whatever crash or failed file operation came   *)
(* between (Kill, Expire, Release, reapExpired).                             *)
THEOREM BouncedStaysDown == Spec => BouncedNotSent
<1>1. IInv /\ [Next]_vars =>
        [\A x \in Slot : slot[x].stage = "free" /\ slot'[x].stage = "up" =>
           slot'[x].msg \notin told]_vars
  <2>1. SUFFICES ASSUME IInv, [Next]_vars, NEW x \in Slot,
                        slot[x].stage = "free", slot'[x].stage = "up"
                 PROVE  slot'[x].msg \notin told
    OBVIOUS
  <2>2. slot'[x].msg = flush.msg /\ spool[flush.msg].file = "claimed"
    BY <2>1, SentIsHeld
  <2>. QED BY <2>1, <2>2 DEF IInv, DeadIsGone
<1>. QED BY <1>1, Invariance, PTL DEF Spec, BouncedNotSent

(* A dead letter is not handed to the Worker unless the last reap failed,    *)
(* wherever a crash cut Expire (flushOne, Kill, Expire, reapExpired).        *)
THEOREM DeadStaysDead == Spec => DeadNotSent
<1>1. IInv /\ [Next]_vars =>
        [\A x \in Slot : slot[x].stage = "free" /\ slot'[x].stage = "up" =>
           slot'[x].msg \notin dead \/ reapFailed]_vars
  <2>1. SUFFICES ASSUME IInv, [Next]_vars, NEW x \in Slot,
                        slot[x].stage = "free", slot'[x].stage = "up"
                 PROVE  slot'[x].msg \notin dead \/ reapFailed
    OBVIOUS
  <2>2. /\ slot'[x].msg = flush.msg /\ spool[flush.msg].file = "claimed"
        /\ flush.phase = "claimed"
    BY <2>1, SentIsHeld
  <2>. QED BY <2>1, <2>2 DEF IInv, DeadIsGone
<1>. QED BY <1>1, Invariance, PTL DEF Spec, DeadNotSent
=============================================================================
