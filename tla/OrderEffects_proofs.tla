------------------------ MODULE OrderEffects_proofs ------------------------
(* What a payment leaves behind, in the books of the customer and on the    *)
(* order group, for every value of the constants of OrderPayment.           *)
EXTENDS OrderPayment_proofs, Sums_proofs

-----------------------------------------------------------------------------
(* The inductive invariants *)

\* The payment k has been approved by Toss and its row says nothing else.
Standing(k) == /\ row[k].st # "NONE"
               /\ gw[k].st \notin {"READY", "ABORTED"}
               /\ row[k].st = "FAILED" => gw[k].st = "EXPIRED"

Backed(g) == \E k \in Key : GroupOf[k] = g /\ Standing(k)

\* A confirmation whose transaction has committed.
After == {"rewardRead", "rewardRow", "rewardSet", "enqueue"}

WaitingIsVirtual ==
    \A k \in Key : gw[k].st \in {"WAITING_FOR_DEPOSIT", "EXPIRED"} => k \in VirtualKey

\* What a request knows of its payment from an earlier step is still so.
AnswerHolds(r) ==
    /\ req[r].pc = "confirmTx" =>
         /\ req[r].st \in {"PENDING", "SUCCESS"}
         /\ gw[req[r].key].st \notin {"READY", "ABORTED"}
    /\ req[r].pc = "syncWrite" /\ req[r].st = "FAILED" =>
         gw[req[r].key].st \in {"ABORTED", "EXPIRED"}
    /\ req[r].pc \in After => Standing(req[r].key)

EffectsBacked(g) == ledger[g] # NoLedger \/ job[g].pc # "none" => Backed(g)

EffectsInv == /\ WaitingIsVirtual
              /\ \A r \in Req : AnswerHolds(r)
              /\ \A g \in Group : EffectsBacked(g)

-----------------------------------------------------------------------------
(* What one step does to a payment at Toss, to a row and to a request *)

Later(p, q, k) ==
    \/ q.st = p.st
    \/ p.st = "READY" /\ q.st \in {"DONE", "ABORTED"}
    \/ p.st = "READY" /\ q.st = "WAITING_FOR_DEPOSIT" /\ k \in VirtualKey
    \/ p.st = "WAITING_FOR_DEPOSIT" /\ q.st \in {"DONE", "EXPIRED"}
    \/ /\ p.st \in {"DONE", "PARTIAL_CANCELED"}
       /\ q.st \in {"PARTIAL_CANCELED", "CANCELED"}

LEMMA StatusLater ==
    ASSUME NEW p, NEW q, p.st = "READY", NEW k,
           \/ q.st \in {"DONE", "ABORTED"}
           \/ q.st = "WAITING_FOR_DEPOSIT" /\ k \in VirtualKey
    PROVE  Later(p, q, k)
BY DEF Later

LEMMA ApproveLater ==
    ASSUME NEW p \in GatewayPayment, p.st = "READY", NEW k
    PROVE  /\ Later(p, Approve(p, k \in VirtualKey), k)
           /\ Later(p, [p EXCEPT !.st = "ABORTED"], k)
<1>1. [p EXCEPT !.st = "ABORTED"].st = "ABORTED" BY DEF GatewayPayment
<1> DEFINE paid == Approve(p, k \in VirtualKey)
<1>2. \/ paid.st = "DONE"
      \/ paid.st = "WAITING_FOR_DEPOSIT" /\ k \in VirtualKey
  BY DEF Approve, GatewayPayment
<1>3. Later(p, paid, k)
  <2> HIDE DEF paid
  <2> QED BY <1>2, StatusLater
<1> QED BY <1>1, <1>3, StatusLater

LEMMA RefundLater ==
    ASSUME NEW p \in GatewayPayment, NEW a \in Int, Refundable(p, a), NEW k
    PROVE  Later(p, Refund(p, a), k)
<1>1. Refund(p, a).st \in {"PARTIAL_CANCELED", "CANCELED"} BY DEF Refund
<1> QED BY <1>1 DEF Later, Refundable

LEMMA GatewayLater ==
    ASSUME TypeOK, [Next]_vars, NEW k \in Key
    PROVE  Later(gw[k], gw'[k], k)
<1>0. gw[k] \in GatewayPayment BY DEF TypeOK
<1>1. gw'[k] = gw[k] => Later(gw[k], gw'[k], k) BY DEF Later
<1>2. ASSUME NEW r \in Req, NEW j \in Key, ConfirmToss(r, j)
      PROVE  Later(gw[k], gw'[k], k)
  <2>1. CASE gw' = gw BY <1>1, <2>1
  <2>2. CASE /\ gw[j].st = "READY"
             /\ \/ gw' = [gw EXCEPT ![j] = Approve(gw[j], j \in VirtualKey)]
                \/ gw' = [gw EXCEPT ![j] = [gw[j] EXCEPT !.st = "ABORTED"]]
    <3>1. CASE k = j
      <4>1. \/ gw'[k] = Approve(gw[k], k \in VirtualKey)
            \/ gw'[k] = [gw[k] EXCEPT !.st = "ABORTED"]
        BY <2>2, <3>1 DEF TypeOK
      <4> QED BY <1>0, <2>2, <3>1, <4>1, ApproveLater
    <3>2. CASE k # j BY <1>1, <2>2, <3>2 DEF TypeOK
    <3> QED BY <3>1, <3>2
  <2> QED BY <1>2, <2>1, <2>2
    DEF ConfirmToss, ConfirmApproved, ConfirmRefused, ConfirmLost
<1>3. ASSUME NEW r \in Req, NEW amount \in Int, NEW next, Refunded(r, amount, next)
      PROVE  Later(gw[k], gw'[k], k)
  <2>1. CASE req[r].key = k
    <3>1. gw'[k] = Refund(gw[k], amount) /\ Refundable(gw[k], amount)
      BY <1>3, <2>1 DEF Refunded, TypeOK
    <3> QED BY <1>0, <3>1, RefundLater
  <2>2. CASE req[r].key # k BY <1>1, <1>3, <2>2 DEF Refunded, TypeOK
  <2> QED BY <2>1, <2>2
<1>4. ASSUME NEW r \in Req, CancelToss(r) PROVE Later(gw[k], gw'[k], k)
  <2>1. PICK amount \in PartialAmount \cup {gw[req[r].key].bal} :
           Refunded(r, amount, "cancelTx") \/ RefundRefused(r, amount)
    BY <1>4 DEF CancelToss
  <2>2. amount \in Int BY CancelAmountType
  <2>3. RefundRefused(r, amount) => gw'[k] = gw[k] BY DEF RefundRefused
  <2> QED BY <1>1, <1>3, <2>1, <2>2, <2>3
<1>5. ASSUME NEW r \in Req, ReturnToss(r) PROVE Later(gw[k], gw'[k], k)
  <2>1. req[r].bal \in Int BY DEF TypeOK, ReqRecord
  <2>2. RefundRefused(r, req[r].bal) => gw'[k] = gw[k] BY DEF RefundRefused
  <2> QED BY <1>1, <1>3, <1>5, <2>1, <2>2 DEF ReturnToss
<1>6. ASSUME NEW j \in Key, VirtualAccount(j) PROVE Later(gw[k], gw'[k], k)
  <2>1. PICK st \in {"DONE", "EXPIRED"} : gw' = [gw EXCEPT ![j].st = st]
    BY <1>6 DEF VirtualAccount
  <2>2. CASE k = j
    <3>1. gw'[k].st = st BY <1>0, <2>1, <2>2 DEF TypeOK, GatewayPayment
    <3> QED BY <1>6, <2>2, <3>1 DEF VirtualAccount, Later
  <2>3. CASE k # j BY <1>1, <2>1, <2>3 DEF TypeOK
  <2> QED BY <2>2, <2>3
<1>7. ASSUME NEW g \in Group, Work(g) PROVE UNCHANGED gw
  BY <1>7 DEF Work, JobRead, JobUpsert, JobLevel, JobCoupons, JobDone, JobFails
<1>8. ASSUME NEW r \in Req, Continue(r), ~CancelToss(r), ~ReturnToss(r)
      PROVE  UNCHANGED gw
  BY <1>8 DEF Continue, ConfirmTx, ConfirmTxFails, RewardRead, RewardRow, RewardSet,
     RewardFails, Enqueue, FailMark, FailRecord, CancelTx, ReturnTx, ReverseTx,
     ReverseTxFails, SyncWrite
<1>9. ASSUME NEW r \in Req, NEW j \in Key,
             CancelRead(r, j) \/ ReturnRead(r, j) \/ SyncRead(r, j)
      PROVE  UNCHANGED gw
  BY <1>9 DEF CancelRead, ReturnRead, SyncRead
<1>10. ASSUME NEW g \in Group,
              \/ Initiate(g) \/ InitiateFails(g) \/ AdminWrite(g) \/ CancelOrderGroup(g)
              \/ \E e \in Edit : AdminRead(g, e)
       PROVE  UNCHANGED gw
  BY <1>10 DEF Initiate, InitiateFails, AdminWrite, CancelOrderGroup, AdminRead
<1>11. Crash => UNCHANGED gw BY DEF Crash
<1>12. UNCHANGED vars => UNCHANGED gw BY DEF vars
<1> QED
  BY <1>1, <1>2, <1>4, <1>5, <1>6, <1>7, <1>8, <1>9, <1>10, <1>11, <1>12 DEF Next

\* A request stays, goes on after its transaction, commits it, has an answer of
\* Toss in hand, or is somewhere else.
RequestMove(s) ==
    \/ UNCHANGED req[s]
    \/ /\ req[s].pc \in After /\ req'[s].pc \in After
       /\ req'[s].key = req[s].key
    \/ ConfirmTx(s)
    \/ \E k \in Key : ConfirmApproved(s, k) \/ SyncRead(s, k)
    \/ req'[s].pc \notin After \cup {"confirmTx", "syncWrite"}

LEMMA RequestMoves ==
    ASSUME TypeOK, [Next]_vars, NEW s \in Req
    PROVE  RequestMove(s)
<1> USE DEF RequestMove
<1>1. ASSUME NEW r \in Req, NEW q, req' = [req EXCEPT ![r] = q],
             q.pc \notin After \cup {"confirmTx", "syncWrite"}
      PROVE  RequestMove(s)
  <2>1. req'[s] = q \/ req'[s] = req[s] BY <1>1 DEF TypeOK
  <2> QED BY <1>1, <2>1
<1>2. ASSUME NEW r \in Req, Finish(r) PROVE RequestMove(s)
  <2>1. IdleReq.pc \notin After \cup {"confirmTx", "syncWrite"} BY IdleReqType DEF After
  <2> QED BY <1>1, <1>2, <2>1 DEF Finish
<1>3. ASSUME NEW r \in Req, NEW pc \in {"failing", "recording"}, Goto(r, pc)
      PROVE  RequestMove(s)
  <2>1. req'[s].pc = pc \/ req'[s] = req[s] BY <1>3 DEF Goto, TypeOK, ReqRecord
  <2> QED BY <2>1 DEF After
<1>4. ASSUME NEW r \in Req, NEW pc \in After, Goto(r, pc), req[r].pc \in After
      PROVE  RequestMove(s)
  <2>1. CASE s = r
    <3>1. req'[s].pc = pc /\ req'[s].key = req[s].key
      BY <1>4, <2>1 DEF Goto, TypeOK, ReqRecord
    <3> QED BY <1>4, <2>1, <3>1
  <2>2. CASE s # r
    <3>1. req'[s] = req[s] BY <1>4, <2>2 DEF Goto, TypeOK
    <3> QED BY <3>1
  <2> QED BY <2>1, <2>2
<1>5. ASSUME NEW r \in Req, NEW k \in Key, ConfirmRefused(r, k) \/ ConfirmLost(r, k)
      PROVE  RequestMove(s)
  <2>1. [IdleReq EXCEPT !.pc = "failing", !.key = k].pc = "failing"
    BY IdleReqType DEF ReqRecord
  <2>2. req' = [req EXCEPT ![r] = [IdleReq EXCEPT !.pc = "failing", !.key = k]]
    BY <1>5 DEF ConfirmRefused, ConfirmLost
  <2> DEFINE q == [IdleReq EXCEPT !.pc = "failing", !.key = k]
  <2> HIDE DEF q
  <2>3. q.pc \notin After \cup {"confirmTx", "syncWrite"} BY <2>1 DEF q, After
  <2>4. req' = [req EXCEPT ![r] = q] BY <2>2 DEF q
  <2> QED BY <1>1, <2>3, <2>4
<1>6. ASSUME NEW r \in Req, NEW k \in Key, ConfirmApproved(r, k) \/ SyncRead(r, k)
      PROVE  RequestMove(s)
  <2>1. s # r => req'[s] = req[s] BY <1>6 DEF ConfirmApproved, SyncRead, TypeOK
  <2> QED BY <1>6, <2>1
<1>7. ASSUME NEW r \in Req, NEW k \in Key, CancelRead(r, k) \/ ReturnRead(r, k)
      PROVE  RequestMove(s)
  <2>1. req'[r].pc \in {"cancelToss", "returnToss"}
    BY <1>7, IdleReqType DEF CancelRead, ReturnRead, TypeOK, ReqRecord
  <2>2. s # r => req'[s] = req[s] BY <1>7 DEF CancelRead, ReturnRead, TypeOK
  <2> QED BY <2>1, <2>2 DEF After
<1>8. ASSUME NEW r \in Req, ConfirmTx(r) PROVE RequestMove(s)
  <2>1. s # r => req'[s] = req[s] BY <1>8 DEF ConfirmTx, TypeOK
  <2> QED BY <1>8, <2>1
<1>9. ASSUME NEW r \in Req, ConfirmTxFails(r) \/ FailMark(r) PROVE RequestMove(s)
  BY <1>3, <1>9 DEF ConfirmTxFails, FailMark
<1>10. ASSUME NEW r \in Req, RewardRead(r) PROVE RequestMove(s)
  <2>1. PICK pc \in {"rewardRow", "enqueue"} :
           req' = [req EXCEPT ![r].pc = pc, ![r].num = account.avail]
    BY <1>10 DEF RewardRead
  <2>2. req'[r].pc \in After /\ req'[r].key = req[r].key BY <2>1 DEF TypeOK, ReqRecord, After
  <2>3. req[r].pc \in After BY <1>10 DEF RewardRead, After
  <2>4. s # r => req'[s] = req[s] BY <2>1 DEF TypeOK
  <2> QED BY <2>2, <2>3, <2>4
<1>11. ASSUME NEW r \in Req, RewardRow(r) \/ RewardSet(r) \/ RewardFails(r)
       PROVE  RequestMove(s)
  BY <1>4, <1>11 DEF RewardRow, RewardSet, RewardFails, After
<1>12. ASSUME NEW r \in Req,
              \/ Enqueue(r) \/ FailRecord(r) \/ SyncWrite(r) \/ ReverseTxFails(r)
              \/ CancelTx(r) \/ ReturnTx(r)
       PROVE  RequestMove(s)
  BY <1>2, <1>12 DEF Enqueue, FailRecord, SyncWrite, ReverseTxFails, CancelTx, ReturnTx,
     ReverseTx
<1>13. ASSUME NEW r \in Req, NEW amount, NEW next \in {"cancelTx", "returnTx"},
              Refunded(r, amount, next) \/ RefundRefused(r, amount)
       PROVE  RequestMove(s)
  <2>1. CASE Finish(r) BY <1>2, <2>1
  <2>2. CASE req' = [req EXCEPT ![r].pc = next, ![r].bal = Refund(gw[req[r].key], amount).bal]
    <3>1. req'[r].pc = next /\ (s # r => req'[s] = req[s])
      BY <2>2 DEF TypeOK, ReqRecord
    <3> QED BY <3>1 DEF After
  <2> QED BY <1>13, <2>1, <2>2 DEF Refunded, RefundRefused
<1>14. ASSUME NEW r \in Req, CancelToss(r) \/ ReturnToss(r) PROVE RequestMove(s)
  BY <1>13, <1>14 DEF CancelToss, ReturnToss
<1>15. ASSUME NEW g \in Group,
              \/ Initiate(g) \/ InitiateFails(g) \/ AdminWrite(g) \/ CancelOrderGroup(g)
              \/ Work(g) \/ \E e \in Edit : AdminRead(g, e)
       PROVE  RequestMove(s)
  BY <1>15 DEF Initiate, InitiateFails, AdminWrite, CancelOrderGroup, AdminRead, Work,
     JobRead, JobUpsert, JobLevel, JobCoupons, JobDone, JobFails
<1>16. ASSUME NEW k \in Key, VirtualAccount(k) PROVE RequestMove(s)
  BY <1>16 DEF VirtualAccount
<1>17. ASSUME Crash PROVE RequestMove(s)
  <2>1. req'[s].pc = "idle" BY <1>17, IdleReqType DEF Crash
  <2> QED BY <2>1 DEF After
<1>18. UNCHANGED vars => RequestMove(s) BY DEF vars
<1> QED
  BY <1>5, <1>6, <1>7, <1>8, <1>9, <1>10, <1>11, <1>12, <1>14, <1>15, <1>16, <1>17, <1>18
  DEF Next, ConfirmToss, Continue

\* What an order group has in the books stays, or a confirmation, a reward, a
\* reversal or a membership job changes it.
LedgerMove(g) ==
    \/ ledger'[g] = ledger[g]
    \/ \E r \in Req : /\ GroupOf[req[r].key] = g
                      /\ ConfirmTx(r) \/ RewardRow(r)
                      /\ ledger'[g].bonus = ledger[g].bonus
    \/ ledger'[g] = [ledger[g] EXCEPT !.bonus = 0]
    \/ JobCoupons(g) /\ ledger'[g].bonus = ledger[g].bonus + 1

LEMMA LedgerMoves ==
    ASSUME TypeOK, [Next]_vars, NEW g \in Group
    PROVE  LedgerMove(g)
<1> USE DEF LedgerMove
<1>1. ASSUME UNCHANGED ledger PROVE LedgerMove(g) BY <1>1
<1>2. ASSUME NEW r \in Req, ConfirmTx(r) PROVE LedgerMove(g)
  <2>1. CASE GroupOf[req[r].key] = g
    <3>1. ledger'[g].bonus = ledger[g].bonus
      BY <1>2, <2>1 DEF ConfirmTx, TypeOK, LedgerRecord
    <3> QED BY <1>2, <2>1, <3>1
  <2>2. CASE GroupOf[req[r].key] # g
    <3>1. ledger'[g] = ledger[g] BY <1>2, <2>2 DEF ConfirmTx, TypeOK
    <3> QED BY <3>1
  <2> QED BY <2>1, <2>2
<1>3. ASSUME NEW r \in Req, RewardRow(r) PROVE LedgerMove(g)
  <2>1. CASE GroupOf[req[r].key] = g
    <3>1. ledger'[g].bonus = ledger[g].bonus
      BY <1>3, <2>1 DEF RewardRow, TypeOK, LedgerRecord
    <3> QED BY <1>3, <2>1, <3>1
  <2>2. CASE GroupOf[req[r].key] # g
    <3>1. ledger'[g] = ledger[g] BY <1>3, <2>2 DEF RewardRow, TypeOK
    <3> QED BY <3>1
  <2> QED BY <2>1, <2>2
<1>4. ASSUME NEW r \in Req, CancelTx(r) \/ ReturnTx(r) PROVE LedgerMove(g)
  <2>1. ledger' = [ledger EXCEPT ![GroupOf[req[r].key]].bonus = 0]
    BY <1>4 DEF CancelTx, ReturnTx, ReverseTx
  <2>2. ledger'[g] = ledger[g] \/ ledger'[g] = [ledger[g] EXCEPT !.bonus = 0]
    BY <2>1 DEF TypeOK
  <2> QED BY <2>2
<1>5. ASSUME NEW h \in Group, JobCoupons(h) PROVE LedgerMove(g)
  <2>1. ledger' = ledger \/ ledger' = [ledger EXCEPT ![h].bonus = @ + 1]
    BY <1>5 DEF JobCoupons
  <2>2. CASE h = g
    <3>1. ledger'[g] = ledger[g] \/ ledger'[g].bonus = ledger[g].bonus + 1
      BY <2>1, <2>2 DEF TypeOK, LedgerRecord
    <3> QED BY <1>5, <2>2, <3>1
  <2>3. CASE h # g
    <3>1. ledger'[g] = ledger[g] BY <2>1, <2>3 DEF TypeOK
    <3> QED BY <3>1
  <2> QED BY <2>2, <2>3
<1>6. ASSUME NEW r \in Req, Continue(r), ~ConfirmTx(r), ~RewardRow(r),
             ~CancelTx(r), ~ReturnTx(r)
      PROVE  UNCHANGED ledger
  BY <1>6 DEF Continue, ConfirmTxFails, RewardRead, RewardSet, RewardFails, Enqueue,
     FailMark, FailRecord, CancelToss, ReturnToss, Refunded, RefundRefused,
     ReverseTxFails, SyncWrite
<1>7. ASSUME NEW r \in Req, NEW k \in Key,
             ConfirmToss(r, k) \/ CancelRead(r, k) \/ ReturnRead(r, k) \/ SyncRead(r, k)
      PROVE  UNCHANGED ledger
  BY <1>7 DEF ConfirmToss, ConfirmApproved, ConfirmRefused, ConfirmLost, CancelRead,
     ReturnRead, SyncRead
<1>8. ASSUME NEW h \in Group, Work(h), ~JobCoupons(h) PROVE UNCHANGED ledger
  BY <1>8 DEF Work, JobRead, JobUpsert, JobLevel, JobDone, JobFails
<1>9. ASSUME NEW h \in Group,
             \/ Initiate(h) \/ InitiateFails(h) \/ AdminWrite(h) \/ CancelOrderGroup(h)
             \/ \E e \in Edit : AdminRead(h, e)
      PROVE  UNCHANGED ledger
  BY <1>9 DEF Initiate, InitiateFails, AdminWrite, CancelOrderGroup, AdminRead
<1>10. ASSUME NEW k \in Key, VirtualAccount(k) PROVE UNCHANGED ledger
  BY <1>10 DEF VirtualAccount
<1>11. Crash => UNCHANGED ledger BY DEF Crash
<1>12. UNCHANGED vars => UNCHANGED ledger BY DEF vars
<1> HIDE DEF LedgerMove
<1> QED
  BY <1>1, <1>2, <1>3, <1>4, <1>5, <1>6, <1>7, <1>8, <1>9, <1>10, <1>11, <1>12 DEF Next

\* A membership job stays, is enqueued, goes on, ends, or is put back by a crash.
Early == {"queued", "read", "upserted", "levelled"}

JobMove(g) ==
    \/ job'[g] = job[g]
    \/ \E r \in Req : GroupOf[req[r].key] = g /\ Enqueue(r)
    \/ job[g].pc \in Early /\ job'[g].pc \in Early \cup {"failed"}
    \/ job[g].pc \in Early \cup {"issued"} /\ job'[g].pc \in {"issued", "done"}
    \/ Crash /\ job[g].pc \in Running

LEMMA JobMoves ==
    ASSUME TypeOK, [Next]_vars, NEW g \in Group
    PROVE  JobMove(g)
<1> USE DEF JobMove
<1>1. ASSUME UNCHANGED job PROVE JobMove(g) BY <1>1
<1>2. ASSUME NEW r \in Req, Enqueue(r) PROVE JobMove(g)
  <2>1. GroupOf[req[r].key] # g => job'[g] = job[g] BY <1>2 DEF Enqueue, TypeOK
  <2> QED BY <1>2, <2>1
<1>3. ASSUME NEW h \in Group, Work(h) PROVE JobMove(g)
  <2>1. h # g => job'[g] = job[g]
    BY <1>3 DEF Work, JobRead, JobUpsert, JobLevel, JobCoupons, JobDone, JobFails, TypeOK
  <2>2. ASSUME JobRead(g) \/ JobUpsert(g) \/ JobLevel(g) PROVE JobMove(g)
    <3>1. job[g].pc \in Early BY <2>2 DEF JobRead, JobUpsert, JobLevel, Early
    <3>2. job'[g].pc \in Early
      BY <2>2 DEF JobRead, JobUpsert, JobLevel, Early, TypeOK, JobRecord
    <3> QED BY <3>1, <3>2
  <2>3. ASSUME JobCoupons(g) PROVE JobMove(g)
    <3>1. job[g].pc = "levelled" /\ job'[g].pc = "issued"
      BY <2>3 DEF JobCoupons, TypeOK, JobRecord
    <3> QED BY <3>1 DEF Early
  <2>4. ASSUME JobDone(g) PROVE JobMove(g)
    <3>1. [NoJob EXCEPT !.pc = "done"].pc = "done" BY NoJobType DEF JobRecord
    <3>2. job[g].pc = "issued" /\ job'[g].pc = "done" BY <2>4, <3>1 DEF JobDone, TypeOK
    <3> QED BY <3>2
  <2>5. ASSUME JobFails(g) PROVE JobMove(g)
    <3>1. job[g].pc \in Early BY <2>5 DEF JobFails, Early
    <3>2. job'[g].pc \in {"queued", "failed"} BY <2>5 DEF JobFails, TypeOK, JobRecord
    <3> QED BY <3>1, <3>2 DEF Early
  <2> QED BY <1>3, <2>1, <2>2, <2>3, <2>4, <2>5 DEF Work
<1>4. ASSUME Crash PROVE JobMove(g)
  <2>1. job[g].pc \notin Running => job'[g] = job[g] BY <1>4 DEF Crash
  <2> QED BY <1>4, <2>1
<1>5. ASSUME NEW r \in Req, Continue(r), ~Enqueue(r) PROVE UNCHANGED job
  BY <1>5 DEF Continue, ConfirmTx, ConfirmTxFails, RewardRead, RewardRow, RewardSet,
     RewardFails, FailMark, FailRecord, CancelToss, ReturnToss, Refunded, RefundRefused,
     CancelTx, ReturnTx, ReverseTx, ReverseTxFails, SyncWrite
<1>6. ASSUME NEW r \in Req, NEW k \in Key,
             ConfirmToss(r, k) \/ CancelRead(r, k) \/ ReturnRead(r, k) \/ SyncRead(r, k)
      PROVE  UNCHANGED job
  BY <1>6 DEF ConfirmToss, ConfirmApproved, ConfirmRefused, ConfirmLost, CancelRead,
     ReturnRead, SyncRead
<1>7. ASSUME NEW h \in Group,
             \/ Initiate(h) \/ InitiateFails(h) \/ AdminWrite(h) \/ CancelOrderGroup(h)
             \/ \E e \in Edit : AdminRead(h, e)
      PROVE  UNCHANGED job
  BY <1>7 DEF Initiate, InitiateFails, AdminWrite, CancelOrderGroup, AdminRead
<1>8. ASSUME NEW k \in Key, VirtualAccount(k) PROVE UNCHANGED job
  BY <1>8 DEF VirtualAccount
<1>9. UNCHANGED vars => UNCHANGED job BY DEF vars
<1> HIDE DEF JobMove
<1> QED
  BY <1>1, <1>2, <1>3, <1>4, <1>5, <1>6, <1>7, <1>8, <1>9 DEF Next

-----------------------------------------------------------------------------
(* Effects are those of a payment that was approved *)

\* An approved payment stays one: late rows say FAILED only of what expired.
LEMMA StandingStays ==
    ASSUME TypeOK, SlotInv, EffectsInv, [Next]_vars, NEW k \in Key, Standing(k)
    PROVE  Standing(k)'
<1>1. Later(gw[k], gw'[k], k) BY GatewayLater
<1>2. gw'[k].st \notin {"READY", "ABORTED"} BY <1>1 DEF Later, Standing
<1>3. gw[k].st = "EXPIRED" => gw'[k].st = "EXPIRED" BY <1>1 DEF Later
<1>4. row'[k] = row[k] => Standing(k)' BY <1>2, <1>3 DEF Standing
\* The row is taken: neither the transaction nor the catch block writes it.
<1>5. HasRow(GroupOf[k]) BY DEF HasRow, Standing
<1>6. ASSUME NEW r \in Req, ConfirmTx(r) \/ FailRecord(r) PROVE row'[k] = row[k]
  <2>1. req[r].key # k => row'[k] = row[k] BY <1>6 DEF ConfirmTx, FailRecord, TypeOK
  <2>2. req[r].key = k => row'[k] = row[k] BY <1>5, <1>6 DEF ConfirmTx, FailRecord
  <2> QED BY <2>1, <2>2
<1>7. ASSUME NEW r \in Req, CancelTx(r) \/ ReturnTx(r) PROVE Standing(k)'
  <2>1. row' = [row EXCEPT ![req[r].key] =
                  [st |-> RefundStatus(req[r].bal), bal |-> req[r].bal]]
    BY <1>7 DEF CancelTx, ReturnTx, ReverseTx
  <2>2. row'[k] = row[k] \/ row'[k].st \in {"SUCCESS", "CANCELLED"}
    BY <2>1 DEF TypeOK, RefundStatus
  <2> QED BY <1>2, <1>4, <2>2 DEF Standing
<1>8. ASSUME NEW r \in Req, SyncWrite(r) PROVE Standing(k)'
  <2>1. \/ row'[k] = row[k]
        \/ req[r].key = k /\ row'[k].st = req[r].st
    BY <1>8 DEF SyncWrite, TypeOK
  <2>2. CASE req[r].key = k /\ row'[k].st = req[r].st
    <3>1. req[r].st # "NONE" BY <1>8 DEF SyncWrite, SlotInv, KnowsItsRow
    <3>2. req[r].st = "FAILED" => gw[k].st \in {"ABORTED", "EXPIRED"}
      BY <1>8, <2>2 DEF SyncWrite, EffectsInv, AnswerHolds
    <3>3. req[r].st = "FAILED" => gw'[k].st = "EXPIRED" BY <1>3, <3>2 DEF Standing
    <3> QED BY <1>2, <2>2, <3>1, <3>3 DEF Standing
  <2> QED BY <1>4, <2>1, <2>2
<1>9. ASSUME NEW r \in Req, Continue(r), ~ConfirmTx(r), ~FailRecord(r), ~CancelTx(r),
             ~ReturnTx(r), ~SyncWrite(r)
      PROVE  UNCHANGED row
  BY <1>9 DEF Continue, ConfirmTxFails, RewardRead, RewardRow, RewardSet, RewardFails,
     Enqueue, FailMark, CancelToss, ReturnToss, Refunded, RefundRefused, ReverseTxFails
<1>10. ASSUME NEW r \in Req, NEW j \in Key,
              ConfirmToss(r, j) \/ CancelRead(r, j) \/ ReturnRead(r, j) \/ SyncRead(r, j)
       PROVE  UNCHANGED row
  BY <1>10 DEF ConfirmToss, ConfirmApproved, ConfirmRefused, ConfirmLost, CancelRead,
     ReturnRead, SyncRead
<1>11. ASSUME NEW g \in Group,
              \/ Initiate(g) \/ InitiateFails(g) \/ AdminWrite(g) \/ CancelOrderGroup(g)
              \/ Work(g) \/ \E e \in Edit : AdminRead(g, e)
       PROVE  UNCHANGED row
  BY <1>11 DEF Initiate, InitiateFails, AdminWrite, CancelOrderGroup, AdminRead, Work,
     JobRead, JobUpsert, JobLevel, JobCoupons, JobDone, JobFails
<1>12. ASSUME NEW j \in Key, VirtualAccount(j) PROVE UNCHANGED row
  BY <1>12 DEF VirtualAccount
<1>13. Crash => UNCHANGED row BY DEF Crash
<1>14. UNCHANGED vars => UNCHANGED row BY DEF vars
<1> QED
  BY <1>4, <1>6, <1>7, <1>8, <1>9, <1>10, <1>11, <1>12, <1>13, <1>14 DEF Next

\* What Toss answers an approval, and what it answers later.
LEMMA ApprovedAnswer ==
    ASSUME NEW p \in GatewayPayment, NEW k
    PROVE  /\ mapTossStatusToPaymentStatus(Approve(p, k \in VirtualKey).st)
                \in {"PENDING", "SUCCESS"}
           /\ Approve(p, k \in VirtualKey).st \notin {"READY", "ABORTED"}
<1> DEFINE paid == Approve(p, k \in VirtualKey)
<1>1. paid.st \in {"DONE", "WAITING_FOR_DEPOSIT"} BY DEF Approve, GatewayPayment
<1> HIDE DEF paid
<1>2. mapTossStatusToPaymentStatus(paid.st) \in {"PENDING", "SUCCESS"}
  BY <1>1 DEF mapTossStatusToPaymentStatus
<1> QED BY <1>1, <1>2 DEF paid

LEMMA FailedAnswer ==
    ASSUME NEW st \in GatewayStatus, mapTossStatusToPaymentStatus(st) = "FAILED"
    PROVE  st \in {"ABORTED", "EXPIRED"}
BY DEF GatewayStatus, mapTossStatusToPaymentStatus

LEMMA EffectsInit == Init => EffectsInv
<1> SUFFICES ASSUME Init PROVE EffectsInv OBVIOUS
<1>1. \A r \in Req : AnswerHolds(r) BY IdleReqType DEF Init, AnswerHolds, After
<1>2. NoJob.pc = "none" BY DEF NoJob
<1>3. \A g \in Group : EffectsBacked(g) BY <1>2 DEF Init, EffectsBacked
<1>4. WaitingIsVirtual BY DEF Init, WaitingIsVirtual
<1> QED BY <1>1, <1>3, <1>4 DEF EffectsInv

LEMMA EffectsNext == TypeOK /\ SlotInv /\ EffectsInv /\ [Next]_vars => EffectsInv'
<1> SUFFICES ASSUME TypeOK, SlotInv, EffectsInv, [Next]_vars PROVE EffectsInv' OBVIOUS
<1>1. \A k \in Key : Later(gw[k], gw'[k], k) BY GatewayLater
<1>2. \A k \in Key : Standing(k) => Standing(k)' BY StandingStays
<1>3. \A r \in Req : req[r].key \in Key /\ GroupOf[req[r].key] \in Group
  BY ModelAssumption DEF TypeOK, ReqRecord
<1>4. WaitingIsVirtual'
  <2> SUFFICES ASSUME NEW k \in Key, gw'[k].st \in {"WAITING_FOR_DEPOSIT", "EXPIRED"}
               PROVE  k \in VirtualKey
    BY DEF WaitingIsVirtual
  <2> QED BY <1>1 DEF Later, EffectsInv, WaitingIsVirtual
\* The row a committing transaction writes.
<1>5. ASSUME NEW r \in Req, ConfirmTx(r)
      PROVE  /\ Standing(req[r].key)'
             /\ req'[r].pc = "rewardRead" /\ req'[r].key = req[r].key
  <2>1. /\ req[r].st \in {"PENDING", "SUCCESS"}
        /\ gw[req[r].key].st \notin {"READY", "ABORTED"}
    BY <1>5 DEF ConfirmTx, EffectsInv, AnswerHolds
  <2>2. row'[req[r].key].st = req[r].st /\ gw' = gw
    BY <1>3, <1>5 DEF ConfirmTx, TypeOK
  <2>3. req'[r].pc = "rewardRead" /\ req'[r].key = req[r].key
    BY <1>5 DEF ConfirmTx, TypeOK, ReqRecord
  <2> QED BY <2>1, <2>2, <2>3 DEF Standing
<1>6. ASSUME NEW r \in Req PROVE AnswerHolds(r)'
  <2>0. RequestMove(r) BY RequestMoves
  <2>1. CASE UNCHANGED req[r]
    <3>0. PICK k \in Key : k = req[r].key BY <1>3
    <3>1. AnswerHolds(r) /\ Later(gw[k], gw'[k], k) /\ (Standing(k) => Standing(k)')
      BY <1>1, <1>2 DEF EffectsInv
    <3>2. /\ gw[k].st \notin {"READY", "ABORTED"} => gw'[k].st \notin {"READY", "ABORTED"}
          /\ gw[k].st \in {"ABORTED", "EXPIRED"} => gw'[k].st \in {"ABORTED", "EXPIRED"}
      BY <3>1 DEF Later
    <3>3. req'[r].key = k /\ req'[r].pc = req[r].pc /\ req'[r].st = req[r].st
      BY <2>1, <3>0
    <3>4. req[r].pc \in After => Standing(k)' BY <3>0, <3>1 DEF AnswerHolds
    <3> QED BY <3>0, <3>1, <3>2, <3>3, <3>4 DEF AnswerHolds, Standing
  <2>2. CASE /\ req[r].pc \in After /\ req'[r].pc \in After
             /\ req'[r].key = req[r].key
    <3>1. Standing(req[r].key)' BY <1>2, <1>3, <2>2 DEF EffectsInv, AnswerHolds
    <3>2. req'[r].pc \notin {"confirmTx", "syncWrite"} BY <2>2 DEF After
    <3> QED BY <2>2, <3>1, <3>2 DEF AnswerHolds, Standing
  <2>3. CASE ConfirmTx(r)
    <3>1. Standing(req[r].key)' /\ req'[r].pc = "rewardRead" /\ req'[r].key = req[r].key
      BY <1>5, <2>3
    <3> QED BY <3>1 DEF AnswerHolds, Standing
  <2>4. ASSUME NEW k \in Key, ConfirmApproved(r, k) PROVE AnswerHolds(r)'
    <3>1. /\ req'[r].st = mapTossStatusToPaymentStatus(Approve(gw[k], k \in VirtualKey).st)
          /\ gw'[k] = Approve(gw[k], k \in VirtualKey)
      BY <2>4, IdleReqType DEF ConfirmApproved, TypeOK, ReqRecord
    <3>2. gw[k] \in GatewayPayment BY DEF TypeOK
    <3>3. /\ req'[r].st \in {"PENDING", "SUCCESS"}
          /\ gw'[k].st \notin {"READY", "ABORTED"}
      BY <3>1, <3>2, ApprovedAnswer
    <3>4. req'[r].pc = "confirmTx" /\ req'[r].key = k
      BY <2>4, IdleReqType DEF ConfirmApproved, TypeOK, ReqRecord
    <3> QED BY <3>3, <3>4 DEF AnswerHolds, After
  <2>5. ASSUME NEW k \in Key, SyncRead(r, k) PROVE AnswerHolds(r)'
    <3>1. /\ req'[r].pc = "syncWrite" /\ req'[r].key = k /\ gw'[k] = gw[k]
          /\ req'[r].st = mapTossStatusToPaymentStatus(gw[k].st)
      BY <2>5, IdleReqType DEF SyncRead, TypeOK, ReqRecord
    <3>2. gw[k].st \in GatewayStatus BY DEF TypeOK, GatewayPayment
    <3>3. req'[r].st = "FAILED" => gw'[k].st \in {"ABORTED", "EXPIRED"}
      BY <3>1, <3>2, FailedAnswer
    <3> QED BY <3>1, <3>3 DEF AnswerHolds, After
  <2>6. CASE req'[r].pc \notin After \cup {"confirmTx", "syncWrite"}
    BY <2>6 DEF AnswerHolds
  <2> QED BY <2>0, <2>1, <2>2, <2>3, <2>4, <2>5, <2>6 DEF RequestMove
<1>7. ASSUME NEW g \in Group PROVE EffectsBacked(g)'
  <2>1. ASSUME NEW k \in Key, GroupOf[k] = g, Standing(k)' PROVE EffectsBacked(g)'
    BY <2>1 DEF EffectsBacked, Backed, Standing
  <2>2. Backed(g) => EffectsBacked(g)' BY <1>2, <2>1 DEF Backed
  <2>3. ASSUME NEW r \in Req, GroupOf[req[r].key] = g, req[r].pc \in After
        PROVE  EffectsBacked(g)'
    <3>1. Standing(req[r].key) BY <2>3 DEF EffectsInv, AnswerHolds
    <3> QED BY <1>3, <2>2, <2>3, <3>1 DEF Backed
  <2>4. ASSUME NEW r \in Req, GroupOf[req[r].key] = g, ConfirmTx(r)
        PROVE  EffectsBacked(g)'
    BY <1>3, <1>5, <2>1, <2>4
  <2>5. ledger'[g] # NoLedger => ledger[g] # NoLedger \/ job[g].pc # "none" \/ EffectsBacked(g)'
    <3>0. LedgerMove(g) BY LedgerMoves
    <3>1. ASSUME NEW r \in Req, GroupOf[req[r].key] = g, RewardRow(r)
          PROVE  EffectsBacked(g)'
      BY <2>3, <3>1 DEF RewardRow, After
    <3>2. ASSUME ledger'[g] = [ledger[g] EXCEPT !.bonus = 0], ledger[g] = NoLedger
          PROVE  ledger'[g] = NoLedger
      BY <3>2 DEF NoLedger
    <3>3. JobCoupons(g) => job[g].pc # "none" BY DEF JobCoupons
    <3> QED BY <2>4, <3>0, <3>1, <3>2, <3>3 DEF LedgerMove
  <2>6. job'[g].pc # "none" => job[g].pc # "none" \/ EffectsBacked(g)'
    <3>0. JobMove(g) BY JobMoves
    <3>1. ASSUME NEW r \in Req, GroupOf[req[r].key] = g, Enqueue(r)
          PROVE  EffectsBacked(g)'
      BY <2>3, <3>1 DEF Enqueue, After
    <3> QED BY <3>0, <3>1 DEF JobMove, Early, Running
  <2>7. ledger[g] # NoLedger \/ job[g].pc # "none" => EffectsBacked(g)'
    BY <2>2 DEF EffectsInv, EffectsBacked
  <2>8. EffectsBacked(g)' \/ ~(ledger'[g] # NoLedger \/ job'[g].pc # "none")
    BY <2>5, <2>6, <2>7
  <2> QED BY <2>8 DEF EffectsBacked
<1> QED BY <1>4, <1>6, <1>7 DEF EffectsInv

\* The three invariants together.
Sound == TypeOK /\ MoneyInv /\ SlotInv /\ EffectsInv

LEMMA SoundHolds == Spec => []Sound
<1>1. Init => Sound BY TypeInit, MoneyInit, SlotInit, EffectsInit DEF Sound
<1>2. Sound /\ [Next]_vars => Sound'
  BY TypeNext, MoneyNext, SlotNext, EffectsNext DEF Sound
<1> QED BY <1>1, <1>2, PTL DEF Spec

\* Points spent, coupons used, rewards and level coupons of a group are those of
\* a payment that did not fail, for any number of concurrent confirmations of the
\* group, lost answers, failing transactions and crashes.
THEOREM EffectsHavePaymentHolds == Spec => []EffectsHavePayment
<1>1. EffectsInv => EffectsHavePayment
  <2> SUFFICES ASSUME EffectsInv, NEW g \in Group, ledger[g] # NoLedger
               PROVE  \E k \in Key : /\ GroupOf[k] = g
                                     /\ row[k].st # "NONE"
                                     /\ row[k].st = "FAILED" => k \in VirtualKey
    BY DEF EffectsHavePayment
  <2>1. PICK k \in Key : GroupOf[k] = g /\ Standing(k)
    BY DEF EffectsInv, EffectsBacked, Backed
  <2>2. row[k].st = "FAILED" => k \in VirtualKey
    BY <2>1 DEF Standing, EffectsInv, WaitingIsVirtual
  <2> QED BY <2>1, <2>2 DEF Standing
<1> QED BY <1>1, SoundHolds, PTL DEF Sound

-----------------------------------------------------------------------------
(* Settled groups have been paid *)

\* The admin does not write a final situation by hand.
PlainEdits == \A e \in Edit : e.sit \notin {"COMPLETED", "CANCELLED", "RETURNED"}

Settled == {"COMPLETED", "CANCELLED", "RETURNED"}

LEMMA SettledNext ==
    ASSUME PlainEdits
    PROVE  Sound /\ SettledMeansTaken /\ [Next]_vars => SettledMeansTaken'
<1> SUFFICES ASSUME Sound, SettledMeansTaken, [Next]_vars PROVE SettledMeansTaken' OBVIOUS
<1> DEFINE Taken(k) == MoneyTaken(gw[k]) \/ k \in VirtualKey
<1>0. TypeOK BY DEF Sound
<1>1. \A k \in Key : Taken(k) => Taken(k)'
  <2> SUFFICES ASSUME NEW k \in Key, MoneyTaken(gw[k]) PROVE MoneyTaken(gw'[k]) OBVIOUS
  <2>1. Forward(gw[k], gw'[k]) BY <1>0, GatewayForward
  <2> QED BY <2>1 DEF Forward
<1>2. \A r \in Req : req[r].key \in Key /\ GroupOf[req[r].key] \in Group
  BY <1>0, ModelAssumption DEF TypeOK, ReqRecord
\* A group keeps its situation, or takes one that is not final, or is paid.
<1>3. SUFFICES \A g \in Group : \/ group'[g].sit = group[g].sit
                                \/ group'[g].sit \notin Settled
                                \/ \E k \in Key : GroupOf[k] = g /\ Taken(k)
  BY <1>1 DEF SettledMeansTaken, Settled
<1>4. SUFFICES ASSUME NEW g \in Group
               PROVE  \/ group'[g].sit = group[g].sit
                      \/ group'[g].sit \notin Settled
                      \/ \E k \in Key : GroupOf[k] = g /\ Taken(k)
  OBVIOUS
<1>5. ASSUME NEW r \in Req, ConfirmTx(r), group'[g].sit # group[g].sit
      PROVE  GroupOf[req[r].key] = g /\ Taken(req[r].key)
  <2>1. GroupOf[req[r].key] = g BY <1>0, <1>5 DEF ConfirmTx, TypeOK
  <2>2. gw[req[r].key].st \notin {"READY", "ABORTED"}
    BY <1>5 DEF ConfirmTx, Sound, EffectsInv, AnswerHolds
  <2>3. gw[req[r].key].st \in GatewayStatus BY <1>0, <1>2 DEF TypeOK, GatewayPayment
  <2>4. gw[req[r].key].st \in {"WAITING_FOR_DEPOSIT", "EXPIRED"} => req[r].key \in VirtualKey
    BY <1>2 DEF Sound, EffectsInv, WaitingIsVirtual
  <2>5. MoneyTaken(gw[req[r].key]) \/ req[r].key \in VirtualKey
    BY <2>2, <2>3, <2>4 DEF GatewayStatus, MoneyTaken
  <2> QED BY <2>1, <2>5
<1>6. ASSUME NEW r \in Req, CancelTx(r) \/ ReturnTx(r), group'[g].sit # group[g].sit
      PROVE  GroupOf[req[r].key] = g /\ Taken(req[r].key)
  <2>1. GroupOf[req[r].key] = g
    BY <1>0, <1>6 DEF CancelTx, ReturnTx, ReverseTx, TypeOK
  <2>2. NotAhead(gw[req[r].key], "SUCCESS", req[r].bal)
    BY <1>6 DEF CancelTx, ReturnTx, Sound, MoneyInv, AnswerFollowsGateway
  <2> QED BY <2>1, <2>2 DEF NotAhead
<1>7. ASSUME NEW h \in Group, AdminWrite(h)
      PROVE  group'[g].sit = group[g].sit \/ group'[g].sit \notin Settled
  <2>1. g # h => group'[g] = group[g] BY <1>0, <1>7 DEF AdminWrite, TypeOK
  <2>2. adm[h] \in Edit BY <1>0, <1>7 DEF AdminWrite, TypeOK
  <2>3. g = h => group'[g].sit = Given(AskedSituation(adm[h]), group[g].sit)
    BY <1>0, <1>7 DEF AdminWrite, TypeOK
  <2>4. \/ Given(AskedSituation(adm[h]), group[g].sit) = group[g].sit
        \/ Given(AskedSituation(adm[h]), group[g].sit) \notin Settled
    BY <2>2 DEF PlainEdits, Given, AskedSituation, Settled
  <2> QED BY <2>1, <2>3, <2>4
<1>8. ASSUME NEW h \in Group, Initiate(h) \/ CancelOrderGroup(h)
      PROVE  group'[g].sit = group[g].sit \/ group'[g].sit \in {"PENDING", "FAILED"}
  BY <1>0, <1>8 DEF Initiate, CancelOrderGroup, TypeOK, GroupRecord
<1>9. ASSUME NEW r \in Req, FailMark(r)
      PROVE  group'[g].sit = group[g].sit \/ group'[g].sit = "FAILED"
  BY <1>0, <1>9 DEF FailMark, TypeOK, GroupRecord
<1>10. ASSUME NEW r \in Req, Continue(r), ~ConfirmTx(r), ~CancelTx(r), ~ReturnTx(r), ~FailMark(r)
       PROVE  UNCHANGED group
  BY <1>10 DEF Continue, ConfirmTxFails, RewardRead, RewardRow, RewardSet, RewardFails,
     Enqueue, FailRecord, CancelToss, ReturnToss, Refunded, RefundRefused,
     ReverseTxFails, SyncWrite
<1>11. ASSUME NEW r \in Req, NEW k \in Key,
              ConfirmToss(r, k) \/ CancelRead(r, k) \/ ReturnRead(r, k) \/ SyncRead(r, k)
       PROVE  UNCHANGED group
  BY <1>11 DEF ConfirmToss, ConfirmApproved, ConfirmRefused, ConfirmLost, CancelRead,
     ReturnRead, SyncRead
<1>12. ASSUME NEW h \in Group,
              InitiateFails(h) \/ Work(h) \/ \E e \in Edit : AdminRead(h, e)
       PROVE  UNCHANGED group
  BY <1>12 DEF InitiateFails, AdminRead, Work, JobRead, JobUpsert, JobLevel, JobCoupons,
     JobDone, JobFails
<1>13. ASSUME NEW k \in Key, VirtualAccount(k) PROVE UNCHANGED group
  BY <1>13 DEF VirtualAccount
<1>14. Crash => UNCHANGED group BY DEF Crash
<1>15. UNCHANGED vars => UNCHANGED group BY DEF vars
<1> HIDE DEF Taken
<1> QED
  BY <1>2, <1>5, <1>6, <1>7, <1>8, <1>9, <1>10, <1>11, <1>12, <1>13, <1>14, <1>15
  DEF Next, Settled

\* A group reads COMPLETED, CANCELLED or RETURNED only if Toss took money for it,
\* or will for a virtual account: a confirmation that overtakes another, a late
\* cancellation or a sync never settles an unpaid group.  Only the admin could, by
\* writing the situation.
THEOREM SettledMeansTakenHolds ==
    ASSUME PlainEdits
    PROVE  Spec => []SettledMeansTaken
<1>1. Init => SettledMeansTaken
  BY ModelAssumption DEF Init, NoGroup, SettledMeansTaken, Situation
<1>2. Sound /\ SettledMeansTaken /\ [Next]_vars => SettledMeansTaken' BY SettledNext
<1> QED BY <1>1, <1>2, SoundHolds, PTL DEF Spec

-----------------------------------------------------------------------------
(* One payment brings the coupons of a level once *)

\* The coupons of a job that has not issued them are not there; a confirmation on
\* its way to the queue is the only one of its group, and the job is not yet there.
BonusCounted(g) == /\ job[g].pc # "none" => HasRow(g)
                   /\ job[g].pc \notin {"issued", "done"} => ledger[g].bonus = 0
                   /\ ledger[g].bonus =< 1

AloneAfter(r) ==
    req[r].pc \in After =>
      /\ HasRow(GroupOf[req[r].key]) /\ job[GroupOf[req[r].key]].pc = "none"
      /\ \A s \in Req : req[s].pc \in After /\ GroupOf[req[s].key] = GroupOf[req[r].key]
                          => s = r

BonusInv == (\A g \in Group : BonusCounted(g)) /\ \A r \in Req : AloneAfter(r)

LEMMA BonusInit == Init => BonusInv
<1> SUFFICES ASSUME Init PROVE BonusInv OBVIOUS
<1>1. \A r \in Req : AloneAfter(r) BY IdleReqType DEF Init, AloneAfter, After
<1>2. \A g \in Group : job[g].pc = "none" /\ ledger[g].bonus = 0
  BY DEF Init, NoJob, NoLedger
<1>3. \A g \in Group : BonusCounted(g) BY <1>2 DEF BonusCounted
<1> QED BY <1>1, <1>3 DEF BonusInv

LEMMA BonusNext ==
    ASSUME MaxCrashes = 0
    PROVE  TypeOK /\ SlotInv /\ BonusInv /\ [Next]_vars => BonusInv'
<1> SUFFICES ASSUME TypeOK, SlotInv, BonusInv, [Next]_vars PROVE BonusInv' OBVIOUS
<1>1. ~Crash BY DEF Crash, TypeOK
<1>2. \A r \in Req : req[r].key \in Key /\ GroupOf[req[r].key] \in Group
  BY ModelAssumption DEF TypeOK, ReqRecord
<1>3. ASSUME NEW g \in Group, HasRow(g) PROVE HasRow(g)'
  <2>1. UNCHANGED row \/ \E k \in Key : RowMove(k) BY StepMoves DEF vars, BankMove
  <2> QED BY <1>3, <2>1 DEF RowMove, HasRow, TypeOK
<1>4. ASSUME NEW r \in Req, ConfirmTx(r)
      PROVE  /\ HasRow(GroupOf[req[r].key])' /\ ~HasRow(GroupOf[req[r].key])
             /\ req[r].pc = "confirmTx" /\ req'[r].key = req[r].key
             /\ UNCHANGED job
             /\ \A s \in Req \ {r} : req'[s] = req[s]
  <2>1. row'[req[r].key].st # "NONE" /\ req'[r].key = req[r].key
    BY <1>2, <1>4 DEF ConfirmTx, TypeOK, ReqRecord, SlotInv, KnowsItsRow
  <2>2. HasRow(GroupOf[req[r].key])' BY <1>2, <2>1 DEF HasRow
  <2>3. \A s \in Req \ {r} : req'[s] = req[s] BY <1>4 DEF ConfirmTx, TypeOK
  <2> QED BY <1>4, <2>1, <2>2, <2>3 DEF ConfirmTx
\* A request that is past its transaction was so before, unless this step commits it.
<1>5. ASSUME NEW s \in Req, req'[s].pc \in After, ~ConfirmTx(s)
      PROVE  req[s].pc \in After /\ req'[s].key = req[s].key
  <2>1. RequestMove(s) BY RequestMoves
  <2>2. ASSUME NEW k \in Key, ConfirmApproved(s, k) \/ SyncRead(s, k) PROVE FALSE
    <3>1. ConfirmApproved(s, k) => req'[s].pc = "confirmTx"
      BY IdleReqType DEF ConfirmApproved, TypeOK, ReqRecord
    <3>2. SyncRead(s, k) => req'[s].pc = "syncWrite"
      BY IdleReqType DEF SyncRead, TypeOK, ReqRecord
    <3> QED BY <1>5, <2>2, <3>1, <3>2 DEF After
  <2> QED BY <1>5, <2>1, <2>2 DEF RequestMove
\* A group with a confirmation on its way has no job until that one enqueues it.
<1>6. ASSUME NEW s \in Req, req[s].pc \in After, req'[s].pc \in After
      PROVE  job'[GroupOf[req[s].key]].pc = "none"
  <2> DEFINE g == GroupOf[req[s].key]
  <2>1. JobMove(g) BY <1>2, JobMoves
  <2>2. job[g].pc = "none" BY <1>6 DEF BonusInv, AloneAfter
  <2>3. ASSUME NEW r \in Req, GroupOf[req[r].key] = g, Enqueue(r) PROVE FALSE
    <3>1. r = s BY <1>6, <2>3 DEF Enqueue, BonusInv, AloneAfter, After
    <3>2. req'[r].pc = "idle" BY <2>3, IdleReqType DEF Enqueue, Finish, TypeOK
    <3> QED BY <1>6, <3>1, <3>2 DEF After
  <2> QED BY <1>1, <2>1, <2>2, <2>3 DEF JobMove, Early
<1>7. ASSUME NEW r \in Req PROVE AloneAfter(r)'
  <2>0. SUFFICES ASSUME req'[r].pc \in After PROVE AloneAfter(r)' BY DEF AloneAfter
  <2>3. ASSUME NEW g \in Group, GroupOf[req'[r].key] = g, HasRow(g)', job'[g].pc = "none",
               \A s \in Req : req'[s].pc \in After /\ GroupOf[req'[s].key] = g => s = r
        PROVE  AloneAfter(r)'
    BY <2>3 DEF AloneAfter, HasRow
  <2>1. CASE ConfirmTx(r)
    <3>1. PICK g \in Group : g = GroupOf[req[r].key] BY <1>2
    <3>2. HasRow(g)' /\ ~HasRow(g) /\ GroupOf[req'[r].key] = g /\ UNCHANGED job
      BY <1>4, <2>1, <3>1 DEF HasRow
    <3>3. job[g].pc = "none" BY <3>2 DEF BonusInv, BonusCounted
    <3>4. ASSUME NEW s \in Req, s # r, req'[s].pc \in After, GroupOf[req'[s].key] = g
          PROVE  FALSE
      <4>1. req[s].pc \in After /\ GroupOf[req[s].key] = g BY <1>4, <2>1, <3>4
      <4>2. AloneAfter(s) BY DEF BonusInv
      <4> QED BY <3>2, <4>1, <4>2 DEF AloneAfter
    <3> QED BY <2>3, <3>2, <3>3, <3>4
  <2>2. CASE ~ConfirmTx(r)
    <3>1. PICK g \in Group : g = GroupOf[req[r].key] BY <1>2
    <3>2. req[r].pc \in After /\ GroupOf[req'[r].key] = g BY <1>5, <2>0, <2>2, <3>1
    <3>3. HasRow(g) BY <3>1, <3>2 DEF BonusInv, AloneAfter
    <3>4. HasRow(g)' BY <1>3, <3>3
    <3>5. job'[g].pc = "none" BY <1>6, <2>0, <3>1, <3>2
    <3>6. ASSUME NEW s \in Req, req'[s].pc \in After, GroupOf[req'[s].key] = g
          PROVE  s = r
      <4>1. CASE ConfirmTx(s)
        <5>1. ~HasRow(GroupOf[req[s].key]) /\ req'[s].key = req[s].key BY <1>4, <4>1
        <5> QED BY <3>3, <3>6, <5>1
      <4>2. CASE ~ConfirmTx(s)
        <5>1. req[s].pc \in After /\ req'[s].key = req[s].key BY <1>5, <3>6, <4>2
        <5>2. AloneAfter(r) BY DEF BonusInv
        <5> QED BY <3>1, <3>2, <3>6, <5>1, <5>2 DEF AloneAfter
      <4> QED BY <4>1, <4>2
    <3> QED BY <2>3, <3>2, <3>4, <3>5, <3>6
  <2> QED BY <2>1, <2>2
<1>8. ASSUME NEW g \in Group PROVE BonusCounted(g)'
  <2>0. /\ JobMove(g) /\ LedgerMove(g) /\ BonusCounted(g)
        /\ ledger[g].bonus \in Nat
    BY JobMoves, LedgerMoves DEF BonusInv, TypeOK, LedgerRecord
  <2>1. ASSUME NEW r \in Req, GroupOf[req[r].key] = g, Enqueue(r)
        PROVE  HasRow(g) /\ job[g].pc = "none"
    BY <2>1 DEF Enqueue, BonusInv, AloneAfter, After
  <2>2. job'[g].pc # "none" => HasRow(g)'
    <3>1. job'[g].pc # "none" => HasRow(g)
      BY <1>1, <2>0, <2>1 DEF JobMove, BonusCounted, Early
    <3> QED BY <1>3, <3>1
  <2>3. JobCoupons(g) => ledger[g].bonus = 0 /\ job'[g].pc = "issued"
    BY <2>0 DEF JobCoupons, BonusCounted, TypeOK, JobRecord
  <2>4. \/ ledger'[g].bonus = ledger[g].bonus
        \/ ledger'[g].bonus = 0
        \/ ledger'[g].bonus = 1 /\ job'[g].pc = "issued"
    <3>1. [ledger[g] EXCEPT !.bonus = 0].bonus = 0 BY DEF TypeOK, LedgerRecord
    <3>2. JobCoupons(g) /\ ledger'[g].bonus = ledger[g].bonus + 1
             => ledger'[g].bonus = 1 /\ job'[g].pc = "issued"
      BY <2>3
    <3> QED BY <2>0, <3>1, <3>2 DEF LedgerMove
  <2>5. job'[g].pc \notin {"issued", "done"} => job[g].pc \notin {"issued", "done"}
    BY <1>1, <2>0, <2>1 DEF JobMove, Early
  <2>6. ledger'[g].bonus =< 1 BY <2>0, <2>4 DEF BonusCounted
  <2>7. job'[g].pc \notin {"issued", "done"} => ledger'[g].bonus = 0
    BY <2>0, <2>4, <2>5 DEF BonusCounted
  <2> QED BY <2>2, <2>6, <2>7 DEF BonusCounted, HasRow
<1> QED BY <1>7, <1>8 DEF BonusInv

\* If the server does not crash, one payment brings the coupons of a new level at
\* most once, however its confirmations race and however often its job is retried:
\* a failed attempt is rerun only when it failed before the coupons.
THEOREM BonusIssuedOnceHolds ==
    ASSUME MaxCrashes = 0
    PROVE  Spec => []BonusIssuedOnce
<1>1. Init => BonusInv BY BonusInit
<1>2. Sound /\ BonusInv /\ [Next]_vars => BonusInv' BY BonusNext DEF Sound
<1>3. BonusInv => BonusIssuedOnce BY DEF BonusInv, BonusCounted, BonusIssuedOnce
<1> QED BY <1>1, <1>2, <1>3, SoundHolds, PTL DEF Spec

-----------------------------------------------------------------------------
(* Full refunds only *)

\* Whoever cancels or returns gets all of the money back, and nobody syncs: the
\* admin gives no amount, and a return keeps no delivery fee, either because there
\* is none or because nothing is ever marked as delivered.
FullRefunds ==
    /\ PartialAmount = {} /\ SyncKey = {}
    /\ \/ /\ \A g \in Group : Checkout[g].fee = 0
          /\ \A e \in Edit : e.fee \in {0, Absent}
       \/ \A e \in Edit : e.sit # "SHIPPED"

\* Requests whose next step needs what an earlier one found out.
Refunding == {"cancelToss", "returnToss"}
Reversing == {"cancelTx", "returnTx"}
Busy == {"confirmTx", "syncWrite"} \cup Refunding \cup Reversing

GatewayFull(k) ==
    /\ gw[k].st # "PARTIAL_CANCELED"
    /\ gw[k].st # "CANCELED" => gw[k].bal = Amounts[k]
    /\ gw[k].st = "CANCELED" => Paid(k)

RowFull(k) ==
    /\ row[k].st = "SUCCESS" => row[k].bal = Amounts[k]
    /\ row[k].st = "CANCELLED" => row[k].bal = 0

\* A request that has had the money given back finds the row as it read it.
RequestFull(r) ==
    /\ req[r].pc # "syncWrite"
    /\ req[r].pc \in {"confirmTx", "returnToss"} => req[r].bal = Amounts[req[r].key]
    /\ req[r].pc \in Refunding => Paid(req[r].key)
    /\ req[r].pc \in Reversing =>
         /\ req[r].bal = 0
         /\ gw[req[r].key].st = "CANCELED"
         /\ row[req[r].key].st = "SUCCESS"

\* Toss gives the money of a payment back to one request only.
ReversesAlone(r) ==
    req[r].pc \in Reversing =>
      \A s \in Req : req[s].pc \in Reversing /\ req[s].key = req[r].key => s = r

\* A group that may be returned has no fee to keep.
NoFeeKept(g) == group[g].sit = "SHIPPED" => group[g].fee = 0

\* Why: nothing is shipped, or nothing ever costs a fee.
FeeFree(g) ==
    \/ /\ \A e \in Edit : e.sit # "SHIPPED"
       /\ group[g].sit # "SHIPPED"
    \/ /\ \A h \in Group : Checkout[h].fee = 0
       /\ \A e \in Edit : e.fee \in {0, Absent}
       /\ group[g].fee = 0

FullInv == /\ \A k \in Key : GatewayFull(k) /\ RowFull(k)
           /\ \A r \in Req : RequestFull(r) /\ ReversesAlone(r)
           /\ \A g \in Group : FeeFree(g)

\* What a step does to a payment at Toss: its balance stays, or it is refunded.
RefundStep(s, a) ==
    /\ Refundable(gw[req[s].key], a)
    /\ \/ req[s].pc = "cancelToss" /\ a \in PartialAmount \cup {gw[req[s].key].bal}
       \/ req[s].pc = "returnToss" /\ a = req[s].bal
    /\ gw' = [gw EXCEPT ![req[s].key] = Refund(gw[req[s].key], a)]
    /\ UNCHANGED row
    /\ \A t \in Req \ {s} : req'[t] = req[t]
    /\ \/ /\ req'[s].pc \in Reversing
          /\ req'[s].pc = "returnTx" => req[s].pc = "returnToss"
          /\ req'[s].key = req[s].key /\ req'[s].num = req[s].num
          /\ req'[s].bal = Refund(gw[req[s].key], a).bal
       \/ /\ req'[s].pc = "idle"
          /\ "lost" \in Faults

BalanceMove(k) ==
    \/ /\ gw'[k].bal = gw[k].bal
       /\ gw'[k].st = gw[k].st \/ gw'[k].st \notin {"CANCELED", "PARTIAL_CANCELED"}
    \/ \E s \in Req, a \in Int : RefundStep(s, a) /\ req[s].key = k

\* What a step does to a request, seen by those that are busy.
BusyMove(s) ==
    \/ UNCHANGED req[s]
    \/ req'[s].pc \notin Busy
    \/ \E k \in Key : \/ ConfirmApproved(s, k) \/ SyncRead(s, k)
                      \/ CancelRead(s, k) \/ ReturnRead(s, k)
    \/ \E a \in Int : RefundStep(s, a)

LEMMA RefundedIsStep ==
    ASSUME TypeOK, NEW r \in Req, NEW a \in Int,
           \/ /\ req[r].pc = "cancelToss" /\ a \in PartialAmount \cup {gw[req[r].key].bal}
              /\ Refunded(r, a, "cancelTx")
           \/ req[r].pc = "returnToss" /\ a = req[r].bal /\ Refunded(r, a, "returnTx")
    PROVE  RefundStep(r, a)
<1>1. PICK next \in Reversing :
         Refunded(r, a, next) /\ (next = "returnTx" => req[r].pc = "returnToss")
  BY DEF Reversing
<1>2. /\ Refundable(gw[req[r].key], a) /\ UNCHANGED row
      /\ gw' = [gw EXCEPT ![req[r].key] = Refund(gw[req[r].key], a)]
  BY <1>1 DEF Refunded
<1>3. CASE req' = [req EXCEPT ![r].pc = next, ![r].bal = Refund(gw[req[r].key], a).bal]
  <2>1. /\ req'[r].pc = next /\ req'[r].key = req[r].key /\ req'[r].num = req[r].num
        /\ req'[r].bal = Refund(gw[req[r].key], a).bal
    BY <1>3 DEF TypeOK, ReqRecord
  <2>2. \A t \in Req \ {r} : req'[t] = req[t] BY <1>3 DEF TypeOK
  <2>3. req'[r].pc = "returnTx" => req[r].pc = "returnToss" BY <1>1, <2>1
  <2> QED BY <1>2, <2>1, <2>2, <2>3 DEF RefundStep
<1>4. CASE "lost" \in Faults /\ Finish(r)
  <2>1. req'[r].pc = "idle" /\ \A t \in Req \ {r} : req'[t] = req[t]
    BY <1>4, IdleReqType DEF Finish, TypeOK
  <2> QED BY <1>2, <1>4, <2>1 DEF RefundStep
<1> QED BY <1>1, <1>3, <1>4 DEF Refunded

\* A call to Toss for a refund is such a step, or leaves everything but its
\* request as it is.
LEMMA TossSteps ==
    ASSUME TypeOK, NEW r \in Req, CancelToss(r) \/ ReturnToss(r)
    PROVE  \/ \E a \in Int : RefundStep(r, a)
           \/ Finish(r) /\ UNCHANGED <<gw, row>>
<1>1. ASSUME NEW a, RefundRefused(r, a) PROVE Finish(r) /\ UNCHANGED <<gw, row>>
  BY <1>1 DEF RefundRefused
<1>2. CASE CancelToss(r)
  <2>1. PICK a \in PartialAmount \cup {gw[req[r].key].bal} :
           Refunded(r, a, "cancelTx") \/ RefundRefused(r, a)
    BY <1>2 DEF CancelToss
  <2>2. a \in Int BY CancelAmountType
  <2>3. req[r].pc = "cancelToss" BY <1>2 DEF CancelToss
  <2>4. Refunded(r, a, "cancelTx") => RefundStep(r, a) BY <2>2, <2>3, RefundedIsStep
  <2> QED BY <1>1, <2>1, <2>2, <2>4
<1>3. CASE ReturnToss(r)
  <2>1. req[r].bal \in Int BY DEF TypeOK, ReqRecord
  <2>2. req[r].pc = "returnToss" BY <1>3 DEF ReturnToss
  <2>3. Refunded(r, req[r].bal, "returnTx") => RefundStep(r, req[r].bal)
    BY <2>1, <2>2, RefundedIsStep
  <2> QED BY <1>1, <1>3, <2>1, <2>3 DEF ReturnToss
<1> QED BY <1>2, <1>3

LEMMA ApprovedBalance ==
    ASSUME NEW p \in GatewayPayment, NEW k
    PROVE  /\ Approve(p, k \in VirtualKey).bal = p.bal
           /\ Approve(p, k \in VirtualKey).st \in {"DONE", "WAITING_FOR_DEPOSIT"}
           /\ [p EXCEPT !.st = "ABORTED"].bal = p.bal
           /\ [p EXCEPT !.st = "ABORTED"].st = "ABORTED"
BY DEF Approve, GatewayPayment

LEMMA BalanceMoves ==
    ASSUME TypeOK, [Next]_vars, NEW k \in Key
    PROVE  BalanceMove(k)
<1>0. gw[k] \in GatewayPayment BY DEF TypeOK
<1>1. gw'[k] = gw[k] => BalanceMove(k) BY DEF BalanceMove
<1>2. ASSUME NEW r \in Req, NEW j \in Key, ConfirmToss(r, j) PROVE BalanceMove(k)
  <2>1. CASE gw' = gw BY <1>1, <2>1
  <2>2. CASE \/ gw' = [gw EXCEPT ![j] = Approve(gw[j], j \in VirtualKey)]
             \/ gw' = [gw EXCEPT ![j] = [gw[j] EXCEPT !.st = "ABORTED"]]
    <3>1. CASE k = j
      <4>1. \/ gw'[k] = Approve(gw[k], k \in VirtualKey)
            \/ gw'[k] = [gw[k] EXCEPT !.st = "ABORTED"]
        BY <2>2, <3>1 DEF TypeOK
      <4> DEFINE paid == Approve(gw[k], k \in VirtualKey)
                 declined == [gw[k] EXCEPT !.st = "ABORTED"]
      <4>2. /\ paid.bal = gw[k].bal /\ declined.bal = gw[k].bal
            /\ paid.st \in {"DONE", "WAITING_FOR_DEPOSIT"} /\ declined.st = "ABORTED"
        BY <1>0, ApprovedBalance
      <4>3. gw'[k] = paid \/ gw'[k] = declined BY <4>1
      <4> HIDE DEF paid, declined
      <4>4. /\ gw'[k].bal = gw[k].bal
            /\ gw'[k].st \in {"DONE", "WAITING_FOR_DEPOSIT", "ABORTED"}
        BY <4>2, <4>3
      <4> QED BY <4>4 DEF BalanceMove
    <3>2. CASE k # j BY <1>1, <2>2, <3>2 DEF TypeOK
    <3> QED BY <3>1, <3>2
  <2> QED BY <1>2, <2>1, <2>2
    DEF ConfirmToss, ConfirmApproved, ConfirmRefused, ConfirmLost
<1>3. ASSUME NEW r \in Req, NEW a \in Int, RefundStep(r, a) PROVE BalanceMove(k)
  <2>1. CASE req[r].key = k BY <1>3, <2>1 DEF BalanceMove
  <2>2. CASE req[r].key # k BY <1>1, <1>3, <2>2 DEF RefundStep, TypeOK
  <2> QED BY <2>1, <2>2
<1>4. ASSUME NEW r \in Req, CancelToss(r) \/ ReturnToss(r) PROVE BalanceMove(k)
  BY <1>1, <1>3, <1>4, TossSteps
<1>6. ASSUME NEW j \in Key, VirtualAccount(j) PROVE BalanceMove(k)
  <2>1. PICK st \in {"DONE", "EXPIRED"} : gw' = [gw EXCEPT ![j].st = st]
    BY <1>6 DEF VirtualAccount
  <2>2. CASE k = j
    <3>1. gw'[k].st = st /\ gw'[k].bal = gw[k].bal
      BY <1>0, <2>1, <2>2 DEF TypeOK, GatewayPayment
    <3> QED BY <3>1 DEF BalanceMove
  <2>3. CASE k # j BY <1>1, <2>1, <2>3 DEF TypeOK
  <2> QED BY <2>2, <2>3
<1>7. ASSUME NEW g \in Group, Work(g) PROVE UNCHANGED gw
  BY <1>7 DEF Work, JobRead, JobUpsert, JobLevel, JobCoupons, JobDone, JobFails
<1>8. ASSUME NEW r \in Req, Continue(r), ~CancelToss(r), ~ReturnToss(r)
      PROVE  UNCHANGED gw
  BY <1>8 DEF Continue, ConfirmTx, ConfirmTxFails, RewardRead, RewardRow, RewardSet,
     RewardFails, Enqueue, FailMark, FailRecord, CancelTx, ReturnTx, ReverseTx,
     ReverseTxFails, SyncWrite
<1>9. ASSUME NEW r \in Req, NEW j \in Key,
             CancelRead(r, j) \/ ReturnRead(r, j) \/ SyncRead(r, j)
      PROVE  UNCHANGED gw
  BY <1>9 DEF CancelRead, ReturnRead, SyncRead
<1>10. ASSUME NEW g \in Group,
              \/ Initiate(g) \/ InitiateFails(g) \/ AdminWrite(g) \/ CancelOrderGroup(g)
              \/ \E e \in Edit : AdminRead(g, e)
       PROVE  UNCHANGED gw
  BY <1>10 DEF Initiate, InitiateFails, AdminWrite, CancelOrderGroup, AdminRead
<1>11. Crash => UNCHANGED gw BY DEF Crash
<1>12. UNCHANGED vars => UNCHANGED gw BY DEF vars
<1> QED
  BY <1>1, <1>2, <1>4, <1>6, <1>7, <1>8, <1>9, <1>10, <1>11, <1>12 DEF Next

LEMMA BusyMoves ==
    ASSUME TypeOK, [Next]_vars, NEW s \in Req
    PROVE  BusyMove(s)
<1> USE DEF BusyMove
<1>1. ASSUME NEW r \in Req, NEW q, req' = [req EXCEPT ![r] = q], q.pc \notin Busy
      PROVE  BusyMove(s)
  <2>1. req'[s] = q \/ req'[s] = req[s] BY <1>1 DEF TypeOK
  <2> QED BY <1>1, <2>1
<1>2. ASSUME NEW r \in Req, Finish(r) PROVE BusyMove(s)
  <2>1. IdleReq.pc \notin Busy BY IdleReqType DEF Busy, Refunding, Reversing
  <2> QED BY <1>1, <1>2, <2>1 DEF Finish
<1>3. ASSUME NEW r \in Req, NEW pc, pc \notin Busy, Goto(r, pc) PROVE BusyMove(s)
  <2>1. req'[s].pc = pc \/ req'[s] = req[s] BY <1>3 DEF Goto, TypeOK, ReqRecord
  <2> QED BY <1>3, <2>1
<1>4. ASSUME NEW r \in Req, NEW k \in Key, ConfirmRefused(r, k) \/ ConfirmLost(r, k)
      PROVE  BusyMove(s)
  <2> DEFINE q == [IdleReq EXCEPT !.pc = "failing", !.key = k]
  <2>1. q.pc = "failing" BY IdleReqType DEF ReqRecord
  <2>2. req' = [req EXCEPT ![r] = q] BY <1>4 DEF ConfirmRefused, ConfirmLost
  <2> HIDE DEF q
  <2>3. q.pc \notin Busy BY <2>1 DEF Busy, Refunding, Reversing
  <2> QED BY <1>1, <2>2, <2>3
<1>5. ASSUME NEW r \in Req, NEW k \in Key,
             \/ ConfirmApproved(r, k) \/ SyncRead(r, k)
             \/ CancelRead(r, k) \/ ReturnRead(r, k)
      PROVE  BusyMove(s)
  <2>1. s # r => req'[s] = req[s]
    BY <1>5 DEF ConfirmApproved, SyncRead, CancelRead, ReturnRead, TypeOK
  <2> QED BY <1>5, <2>1
<1>6. ASSUME NEW r \in Req, ConfirmTx(r) PROVE BusyMove(s)
  <2>1. req'[r].pc = "rewardRead" /\ (s # r => req'[s] = req[s])
    BY <1>6 DEF ConfirmTx, TypeOK, ReqRecord
  <2> QED BY <2>1 DEF Busy, Refunding, Reversing
<1>7. ASSUME NEW r \in Req, RewardRead(r) PROVE BusyMove(s)
  <2>1. PICK pc \in {"rewardRow", "enqueue"} :
           req' = [req EXCEPT ![r].pc = pc, ![r].num = account.avail]
    BY <1>7 DEF RewardRead
  <2>2. req'[r].pc = pc /\ (s # r => req'[s] = req[s]) BY <2>1 DEF TypeOK, ReqRecord
  <2> QED BY <2>2 DEF Busy, Refunding, Reversing
<1>8. ASSUME NEW r \in Req,
             \/ ConfirmTxFails(r) \/ RewardRow(r) \/ RewardSet(r) \/ RewardFails(r)
             \/ FailMark(r)
      PROVE  BusyMove(s)
  <2>1. PICK pc \in {"failing", "rewardSet", "enqueue", "recording"} : Goto(r, pc)
    BY <1>8 DEF ConfirmTxFails, RewardRow, RewardSet, RewardFails, FailMark
  <2>2. pc \notin Busy BY DEF Busy, Refunding, Reversing
  <2> QED BY <1>3, <2>1, <2>2
<1>9. ASSUME NEW r \in Req,
             \/ Enqueue(r) \/ FailRecord(r) \/ SyncWrite(r) \/ ReverseTxFails(r)
             \/ CancelTx(r) \/ ReturnTx(r)
       PROVE  BusyMove(s)
  BY <1>2, <1>9 DEF Enqueue, FailRecord, SyncWrite, ReverseTxFails, CancelTx, ReturnTx,
     ReverseTx
<1>10. ASSUME NEW r \in Req, NEW a \in Int, RefundStep(r, a) PROVE BusyMove(s)
  BY <1>10 DEF RefundStep
<1>11. ASSUME NEW r \in Req, CancelToss(r) \/ ReturnToss(r) PROVE BusyMove(s)
  BY <1>2, <1>10, <1>11, TossSteps
<1>12. ASSUME NEW g \in Group,
              \/ Initiate(g) \/ InitiateFails(g) \/ AdminWrite(g) \/ CancelOrderGroup(g)
              \/ Work(g) \/ \E e \in Edit : AdminRead(g, e)
       PROVE  BusyMove(s)
  BY <1>12 DEF Initiate, InitiateFails, AdminWrite, CancelOrderGroup, AdminRead, Work,
     JobRead, JobUpsert, JobLevel, JobCoupons, JobDone, JobFails
<1>13. ASSUME NEW k \in Key, VirtualAccount(k) PROVE BusyMove(s)
  BY <1>13 DEF VirtualAccount
<1>14. ASSUME Crash PROVE BusyMove(s)
  <2>1. req'[s].pc = "idle" BY <1>14, IdleReqType DEF Crash
  <2> QED BY <2>1 DEF Busy, Refunding, Reversing
<1>15. UNCHANGED vars => BusyMove(s) BY DEF vars
<1> HIDE DEF BusyMove
<1> QED
  BY <1>4, <1>5, <1>6, <1>7, <1>8, <1>9, <1>11, <1>12, <1>13, <1>14, <1>15
  DEF Next, ConfirmToss, Continue

\* A row stays, is written by a confirmation of a group without row, by the catch
\* block of a failed one, by a reversal, or by a sync.
RowStep(k) ==
    \/ UNCHANGED row[k]
    \/ \E r \in Req : /\ ConfirmTx(r) /\ req[r].key = k /\ ~HasRow(GroupOf[k])
                      /\ row'[k] = [st |-> req[r].st, bal |-> req[r].bal]
    \/ ~HasRow(GroupOf[k]) /\ row'[k].st = "FAILED"
    \/ \E r \in Req : /\ CancelTx(r) \/ ReturnTx(r)
                      /\ req[r].key = k
                      /\ row'[k] = [st |-> RefundStatus(req[r].bal), bal |-> req[r].bal]
    \/ \E r \in Req : SyncWrite(r)

LEMMA RowSteps ==
    ASSUME TypeOK, [Next]_vars, NEW k \in Key
    PROVE  RowStep(k)
<1> USE DEF RowStep
<1>1. ASSUME UNCHANGED row PROVE RowStep(k) BY <1>1
<1>2. ASSUME NEW r \in Req, ConfirmTx(r) PROVE RowStep(k)
  <2>1. row' = [row EXCEPT ![req[r].key] = [st |-> req[r].st, bal |-> req[r].bal]]
    BY <1>2 DEF ConfirmTx
  <2>2. CASE req[r].key = k
    <3>1. row'[k] = [st |-> req[r].st, bal |-> req[r].bal] BY <2>1, <2>2 DEF TypeOK
    <3>2. ~HasRow(GroupOf[k]) BY <1>2, <2>2 DEF ConfirmTx
    <3> QED BY <1>2, <2>2, <3>1, <3>2
  <2>3. CASE req[r].key # k
    <3>1. row'[k] = row[k] BY <2>1, <2>3 DEF TypeOK
    <3> QED BY <3>1
  <2> QED BY <2>2, <2>3
<1>3. ASSUME NEW r \in Req, FailRecord(r) PROVE RowStep(k)
  <2>1. CASE UNCHANGED row BY <1>1, <2>1
  <2>2. CASE /\ ~HasRow(GroupOf[req[r].key])
             /\ row' = [row EXCEPT ![req[r].key] = [st |-> "FAILED", bal |-> 0]]
    <3>1. CASE req[r].key = k
      <4>1. row'[k] = [st |-> "FAILED", bal |-> 0] BY <2>2, <3>1 DEF TypeOK
      <4> QED BY <2>2, <3>1, <4>1
    <3>2. CASE req[r].key # k
      <4>1. row'[k] = row[k] BY <2>2, <3>2 DEF TypeOK
      <4> QED BY <4>1
    <3> QED BY <3>1, <3>2
  <2> QED BY <1>3, <2>1, <2>2 DEF FailRecord
<1>4. ASSUME NEW r \in Req, CancelTx(r) \/ ReturnTx(r) PROVE RowStep(k)
  <2>1. row' = [row EXCEPT ![req[r].key] =
                  [st |-> RefundStatus(req[r].bal), bal |-> req[r].bal]]
    BY <1>4 DEF CancelTx, ReturnTx, ReverseTx
  <2>2. CASE req[r].key = k
    <3>1. row'[k] = [st |-> RefundStatus(req[r].bal), bal |-> req[r].bal]
      BY <2>1, <2>2 DEF TypeOK
    <3> QED BY <1>4, <2>2, <3>1
  <2>3. CASE req[r].key # k
    <3>1. row'[k] = row[k] BY <2>1, <2>3 DEF TypeOK
    <3> QED BY <3>1
  <2> QED BY <2>2, <2>3
<1>5. ASSUME NEW r \in Req, SyncWrite(r) PROVE RowStep(k) BY <1>5
<1>6. ASSUME NEW r \in Req, Continue(r), ~ConfirmTx(r), ~FailRecord(r), ~CancelTx(r),
             ~ReturnTx(r), ~SyncWrite(r)
      PROVE  UNCHANGED row
  BY <1>6 DEF Continue, ConfirmTxFails, RewardRead, RewardRow, RewardSet, RewardFails,
     Enqueue, FailMark, CancelToss, ReturnToss, Refunded, RefundRefused, ReverseTxFails
<1>7. ASSUME NEW r \in Req, NEW j \in Key,
             ConfirmToss(r, j) \/ CancelRead(r, j) \/ ReturnRead(r, j) \/ SyncRead(r, j)
      PROVE  UNCHANGED row
  BY <1>7 DEF ConfirmToss, ConfirmApproved, ConfirmRefused, ConfirmLost, CancelRead,
     ReturnRead, SyncRead
<1>8. ASSUME NEW g \in Group,
             \/ Initiate(g) \/ InitiateFails(g) \/ AdminWrite(g) \/ CancelOrderGroup(g)
             \/ Work(g) \/ \E e \in Edit : AdminRead(g, e)
      PROVE  UNCHANGED row
  BY <1>8 DEF Initiate, InitiateFails, AdminWrite, CancelOrderGroup, AdminRead, Work,
     JobRead, JobUpsert, JobLevel, JobCoupons, JobDone, JobFails
<1>9. ASSUME NEW j \in Key, VirtualAccount(j) PROVE UNCHANGED row
  BY <1>9 DEF VirtualAccount
<1>10. Crash => UNCHANGED row BY DEF Crash
<1>11. UNCHANGED vars => UNCHANGED row BY DEF vars
<1> HIDE DEF RowStep
<1> QED
  BY <1>1, <1>2, <1>3, <1>4, <1>5, <1>6, <1>7, <1>8, <1>9, <1>10, <1>11 DEF Next

\* An order group stays, is opened, is edited, or gets a situation other than SHIPPED
\* from a handler that leaves the rest of it.
HandlerSituation == {"COMPLETED", "FAILED", "CANCELLED", "RETURNED"}

GroupStep(g) ==
    \/ UNCHANGED group[g]
    \/ Initiate(g)
    \/ AdminWrite(g)
    \/ /\ \/ CancelOrderGroup(g)
          \/ \E r \in Req : /\ GroupOf[req[r].key] = g
                            /\ FailMark(r) \/ ConfirmTx(r) \/ CancelTx(r) \/ ReturnTx(r)
       /\ group'[g].sit \in HandlerSituation
       /\ group'[g].final = group[g].final
       /\ group'[g].fee = group[g].fee
       /\ group'[g].pts = group[g].pts

LEMMA GroupSteps ==
    ASSUME TypeOK, [Next]_vars, NEW g \in Group
    PROVE  GroupStep(g)
<1> USE DEF GroupStep
<1>0. group[g] \in GroupRecord BY DEF TypeOK
<1>1. ASSUME UNCHANGED group PROVE GroupStep(g) BY <1>1
\* A handler that writes only the situation, of its own group.
<1>2. ASSUME NEW h, NEW sit \in HandlerSituation, group' = [group EXCEPT ![h].sit = sit]
      PROVE  \/ UNCHANGED group[g]
             \/ /\ g = h /\ group'[g].sit \in HandlerSituation
                /\ group'[g].final = group[g].final
                /\ group'[g].fee = group[g].fee
                /\ group'[g].pts = group[g].pts
  <2>1. CASE g = h
    <3>1. group'[g].sit = sit BY <1>0, <1>2, <2>1 DEF TypeOK, GroupRecord
    <3>2. /\ group'[g].final = group[g].final
          /\ group'[g].fee = group[g].fee
          /\ group'[g].pts = group[g].pts
      BY <1>0, <1>2, <2>1 DEF TypeOK, GroupRecord
    <3> QED BY <2>1, <3>1, <3>2
  <2>2. CASE g # h
    <3>1. group'[g] = group[g] BY <1>2, <2>2 DEF TypeOK
    <3> QED BY <3>1
  <2> QED BY <2>1, <2>2
<1>3. ASSUME NEW r \in Req, FailMark(r) PROVE GroupStep(g)
  <2>1. \/ group' = [group EXCEPT ![GroupOf[req[r].key]].sit = "FAILED"]
        \/ UNCHANGED group
    BY <1>3 DEF FailMark
  <2>2. "FAILED" \in HandlerSituation BY DEF HandlerSituation
  <2> QED BY <1>1, <1>2, <1>3, <2>1, <2>2
<1>4. ASSUME NEW r \in Req, ConfirmTx(r) PROVE GroupStep(g)
  <2>1. group' = [group EXCEPT ![GroupOf[req[r].key]].sit = "COMPLETED"]
    BY <1>4 DEF ConfirmTx
  <2>2. "COMPLETED" \in HandlerSituation BY DEF HandlerSituation
  <2> QED BY <1>2, <1>4, <2>1, <2>2
<1>5. ASSUME NEW r \in Req, CancelTx(r) \/ ReturnTx(r) PROVE GroupStep(g)
  <2>1. PICK sit \in {"CANCELLED", "RETURNED"} :
           group' = [group EXCEPT ![GroupOf[req[r].key]].sit = sit]
    BY <1>5 DEF CancelTx, ReturnTx, ReverseTx
  <2>2. sit \in HandlerSituation BY DEF HandlerSituation
  <2> QED BY <1>2, <1>5, <2>1, <2>2
<1>6. ASSUME NEW h \in Group, CancelOrderGroup(h) PROVE GroupStep(g)
  <2>1. group' = [group EXCEPT ![h].sit = "FAILED"] BY <1>6 DEF CancelOrderGroup
  <2>2. "FAILED" \in HandlerSituation BY DEF HandlerSituation
  <2> QED BY <1>2, <1>6, <2>1, <2>2
<1>7. ASSUME NEW h \in Group, Initiate(h) \/ AdminWrite(h) PROVE GroupStep(g)
  <2>1. g # h => group'[g] = group[g] BY <1>7 DEF Initiate, AdminWrite, TypeOK
  <2> QED BY <1>7, <2>1
<1>8. ASSUME NEW r \in Req, Continue(r), ~ConfirmTx(r), ~CancelTx(r), ~ReturnTx(r), ~FailMark(r)
      PROVE  UNCHANGED group
  BY <1>8 DEF Continue, ConfirmTxFails, RewardRead, RewardRow, RewardSet, RewardFails,
     Enqueue, FailRecord, CancelToss, ReturnToss, Refunded, RefundRefused,
     ReverseTxFails, SyncWrite
<1>9. ASSUME NEW r \in Req, NEW k \in Key,
             ConfirmToss(r, k) \/ CancelRead(r, k) \/ ReturnRead(r, k) \/ SyncRead(r, k)
      PROVE  UNCHANGED group
  BY <1>9 DEF ConfirmToss, ConfirmApproved, ConfirmRefused, ConfirmLost, CancelRead,
     ReturnRead, SyncRead
<1>10. ASSUME NEW h \in Group,
              InitiateFails(h) \/ Work(h) \/ \E e \in Edit : AdminRead(h, e)
       PROVE  UNCHANGED group
  BY <1>10 DEF InitiateFails, AdminRead, Work, JobRead, JobUpsert, JobLevel, JobCoupons,
     JobDone, JobFails
<1>11. ASSUME NEW k \in Key, VirtualAccount(k) PROVE UNCHANGED group
  BY <1>11 DEF VirtualAccount
<1>12. Crash => UNCHANGED group BY DEF Crash
<1>13. UNCHANGED vars => UNCHANGED group BY DEF vars
<1> HIDE DEF GroupStep
<1> QED
  BY <1>1, <1>3, <1>4, <1>5, <1>6, <1>7, <1>8, <1>9, <1>10, <1>11, <1>12, <1>13 DEF Next

LEMMA FullInit ==
    ASSUME FullRefunds
    PROVE  Init => FullInv
<1> SUFFICES ASSUME Init PROVE FullInv OBVIOUS
<1>1. \A r \in Req : req[r].pc = "idle" BY IdleReqType DEF Init
<1>2. \A r \in Req : RequestFull(r) /\ ReversesAlone(r)
  BY <1>1 DEF RequestFull, ReversesAlone, Refunding, Reversing
<1>3. \A k \in Key : GatewayFull(k) /\ RowFull(k)
  BY DEF Init, GatewayFull, RowFull, Amounts
<1>4. \A g \in Group : group[g].sit = Absent /\ group[g].fee = 0 BY DEF Init, NoGroup
<1>5. Absent # "SHIPPED" BY ModelAssumption DEF Situation
<1>6. \A g \in Group : FeeFree(g) BY <1>4, <1>5 DEF FullRefunds, FeeFree
<1> QED BY <1>2, <1>3, <1>6 DEF FullInv

\* A refund gives back all of a payment whose row still says SUCCESS.
LEMMA RefundIsFull ==
    ASSUME FullRefunds, Sound, FullInv, NEW s \in Req, NEW a \in Int, RefundStep(s, a),
           NEW k \in Key, req[s].key = k
    PROVE  /\ gw[k].st # "CANCELED" /\ row[k].st = "SUCCESS"
           /\ gw'[k].st = "CANCELED" /\ gw'[k].bal = 0
           /\ Refund(gw[k], a).bal = 0
<1>0. TypeOK BY DEF Sound
<1>1. gw[k].st \in {"DONE", "PARTIAL_CANCELED"} BY DEF RefundStep, Refundable
<1>2. gw[k].bal = Amounts[k] BY <1>1 DEF FullInv, GatewayFull
<1>3. req[s].pc \in Refunding BY DEF RefundStep, Refunding
<1>4. Paid(k) /\ (req[s].pc = "returnToss" => req[s].bal = Amounts[k])
  BY <1>3 DEF FullInv, RequestFull
<1>5. a = gw[k].bal BY <1>2, <1>4 DEF RefundStep, FullRefunds
<1>6. row[k].st # "CANCELLED"
  BY <1>1 DEF Sound, MoneyInv, RowsFollowGateway, NotAhead
<1>7. gw[k].bal \in Nat BY <1>0 DEF TypeOK, GatewayPayment
<1>8. Refund(gw[k], a) = [st |-> "CANCELED", bal |-> 0] BY <1>5, <1>7 DEF Refund
<1>9. gw'[k] = Refund(gw[k], a) BY <1>0 DEF RefundStep, TypeOK
<1> QED BY <1>1, <1>4, <1>6, <1>8, <1>9 DEF Paid

\* A payment that stands keeps standing unless this step reverses it.
LEMMA PaidStays ==
    ASSUME FullRefunds, Sound, FullInv, [Next]_vars, NEW k \in Key, Paid(k)
    PROVE  /\ \/ UNCHANGED row[k]
              \/ /\ \E r \in Req : (CancelTx(r) \/ ReturnTx(r)) /\ req[r].key = k
                 /\ row'[k] = [st |-> "CANCELLED", bal |-> 0]
           /\ Paid(k)'
<1>0. TypeOK BY DEF Sound
<1>1. RowStep(k) BY <1>0, RowSteps
<1>2. HasRow(GroupOf[k]) BY DEF HasRow, Paid
<1>3. ASSUME NEW r \in Req, SyncWrite(r) PROVE FALSE
  BY <1>3 DEF SyncWrite, FullInv, RequestFull
<1>4. ASSUME NEW r \in Req, CancelTx(r) \/ ReturnTx(r), req[r].key = k,
             row'[k] = [st |-> RefundStatus(req[r].bal), bal |-> req[r].bal]
      PROVE  row'[k] = [st |-> "CANCELLED", bal |-> 0]
  <2>1. req[r].pc \in Reversing BY <1>4 DEF CancelTx, ReturnTx, Reversing
  <2>2. req[r].bal = 0 BY <2>1 DEF FullInv, RequestFull
  <2> QED BY <1>4, <2>2 DEF RefundStatus
<1>5. \/ UNCHANGED row[k]
      \/ /\ \E r \in Req : (CancelTx(r) \/ ReturnTx(r)) /\ req[r].key = k
         /\ row'[k] = [st |-> "CANCELLED", bal |-> 0]
  BY <1>1, <1>2, <1>3, <1>4 DEF RowStep
<1>6. row'[k].st = row[k].st \/ row'[k].st = "CANCELLED" BY <1>5
<1> QED BY <1>5, <1>6 DEF Paid

\* A request that has had money given back has just done so, or was there before.
LEMMA ReversingComes ==
    ASSUME FullRefunds, TypeOK, [Next]_vars, NEW s \in Req, req'[s].pc \in Reversing
    PROVE  UNCHANGED req[s] \/ \E a \in Int : RefundStep(s, a)
<1>1. BusyMove(s) BY BusyMoves
<1>2. ASSUME NEW k \in Key, ConfirmApproved(s, k) PROVE req'[s].pc = "confirmTx"
  BY <1>2, IdleReqType DEF ConfirmApproved, TypeOK, ReqRecord
<1>3. ASSUME NEW k \in Key, CancelRead(s, k) PROVE req'[s].pc = "cancelToss"
  BY <1>3, IdleReqType DEF CancelRead, TypeOK, ReqRecord
<1>4. ASSUME NEW k \in Key, ReturnRead(s, k) PROVE req'[s].pc = "returnToss"
  BY <1>4, IdleReqType DEF ReturnRead, TypeOK, ReqRecord
<1>5. ASSUME NEW k \in Key, SyncRead(s, k) PROVE FALSE BY <1>5 DEF SyncRead, FullRefunds
<1> QED BY <1>1, <1>2, <1>3, <1>4, <1>5 DEF BusyMove, Busy, Reversing

LEMMA FullNext ==
    ASSUME FullRefunds
    PROVE  Sound /\ FullInv /\ [Next]_vars => FullInv'
<1> SUFFICES ASSUME Sound, FullInv, [Next]_vars PROVE FullInv' OBVIOUS
<1>0. TypeOK BY DEF Sound
<1>1. \A r \in Req : req[r].key \in Key /\ GroupOf[req[r].key] \in Group
  BY <1>0, ModelAssumption DEF TypeOK, ReqRecord
<1>2. \A k \in Key : Paid(k) => Paid(k)' BY PaidStays
<1>3. \A k \in Key : gw[k].st = "CANCELED" => gw'[k].st = "CANCELED"
  <2> SUFFICES ASSUME NEW k \in Key, gw[k].st = "CANCELED" PROVE gw'[k].st = "CANCELED"
    OBVIOUS
  <2>1. Later(gw[k], gw'[k], k) BY <1>0, GatewayLater
  <2> QED BY <2>1 DEF Later
<1>4. ASSUME NEW k \in Key PROVE GatewayFull(k)'
  <2>1. BalanceMove(k) /\ GatewayFull(k) BY <1>0, BalanceMoves DEF FullInv
  <2>2. CASE /\ gw'[k].bal = gw[k].bal
             /\ gw'[k].st = gw[k].st \/ gw'[k].st \notin {"CANCELED", "PARTIAL_CANCELED"}
    <3>1. gw'[k].st # "PARTIAL_CANCELED" BY <2>1, <2>2 DEF GatewayFull
    <3>2. gw'[k].st # "CANCELED" => gw'[k].bal = Amounts[k]
      BY <1>3, <2>1, <2>2 DEF GatewayFull
    <3>3. gw'[k].st = "CANCELED" => Paid(k)' BY <1>2, <2>1, <2>2 DEF GatewayFull
    <3> QED BY <3>1, <3>2, <3>3 DEF GatewayFull, Paid
  <2>3. ASSUME NEW s \in Req, NEW a \in Int, RefundStep(s, a), req[s].key = k
        PROVE  GatewayFull(k)'
    <3>1. gw'[k].st = "CANCELED" /\ row[k].st = "SUCCESS" BY <2>3, RefundIsFull
    <3>2. Paid(k)' BY <1>2, <3>1 DEF Paid
    <3> QED BY <3>1, <3>2 DEF GatewayFull, Paid
  <2> QED BY <2>1, <2>2, <2>3 DEF BalanceMove
<1>5. ASSUME NEW k \in Key PROVE RowFull(k)'
  <2>1. RowStep(k) /\ RowFull(k) BY <1>0, RowSteps DEF FullInv
  <2>2. UNCHANGED row[k] => RowFull(k)' BY <2>1 DEF RowFull
  <2>3. CASE Paid(k)
    <3>1. UNCHANGED row[k] \/ row'[k] = [st |-> "CANCELLED", bal |-> 0] BY <2>3, PaidStays
    <3> QED BY <2>2, <3>1 DEF RowFull
  <2>4. ASSUME NEW r \in Req, ConfirmTx(r), req[r].key = k,
               row'[k] = [st |-> req[r].st, bal |-> req[r].bal]
        PROVE  RowFull(k)'
    <3>1. req[r].st # "CANCELLED" /\ req[r].bal = Amounts[k]
      BY <2>4 DEF ConfirmTx, FullInv, RequestFull, Sound, EffectsInv, AnswerHolds
    <3> QED BY <2>4, <3>1 DEF RowFull
  <2>5. row'[k].st = "FAILED" => RowFull(k)' BY DEF RowFull
  <2>6. ASSUME NEW r \in Req, CancelTx(r) \/ ReturnTx(r), req[r].key = k PROVE Paid(k)
    BY <2>6 DEF CancelTx, ReturnTx, FullInv, RequestFull, Reversing, Paid
  <2>7. ASSUME NEW r \in Req, SyncWrite(r) PROVE FALSE
    BY <2>7 DEF SyncWrite, FullInv, RequestFull
  <2> QED BY <2>1, <2>2, <2>3, <2>4, <2>5, <2>6, <2>7 DEF RowStep
<1>6. ASSUME NEW r \in Req PROVE RequestFull(r)'
  <2>0. BusyMove(r) BY <1>0, BusyMoves
  <2>1. CASE UNCHANGED req[r]
    <3>0. PICK k \in Key : k = req[r].key BY <1>1
    <3>1. RequestFull(r) BY DEF FullInv
    <3>2. req[r].pc \in Reversing => row'[k].st = "SUCCESS"
      <4>0. HAVE req[r].pc \in Reversing
      <4>1. row[k].st = "SUCCESS" BY <3>0, <3>1, <4>0 DEF RequestFull
      <4>2. ASSUME NEW t \in Req, CancelTx(t) \/ ReturnTx(t), req[t].key = k PROVE FALSE
        <5>1. req[t].pc \in Reversing BY <4>2 DEF CancelTx, ReturnTx, Reversing
        <5>2. t = r BY <3>0, <4>0, <4>2, <5>1 DEF FullInv, ReversesAlone
        <5>3. req'[t].pc = "idle"
          BY <1>0, <4>2, IdleReqType DEF CancelTx, ReturnTx, ReverseTx, Finish, TypeOK
        <5> QED BY <2>1, <4>0, <5>2, <5>3 DEF Reversing
      <4>3. UNCHANGED row[k] BY <4>1, <4>2, PaidStays DEF Paid
      <4> QED BY <4>1, <4>3
    <3>3. req[r].pc \in Reversing => gw'[k].st = "CANCELED"
      BY <1>3, <3>0, <3>1 DEF RequestFull
    <3>4. req[r].pc \in Refunding => Paid(k)' BY <1>2, <3>0, <3>1 DEF RequestFull
    <3>5. req'[r].key = k /\ req'[r].pc = req[r].pc /\ req'[r].bal = req[r].bal
      BY <2>1, <3>0
    <3> QED BY <3>0, <3>1, <3>2, <3>3, <3>4, <3>5 DEF RequestFull, Paid
  <2>2. CASE req'[r].pc \notin Busy BY <2>2 DEF RequestFull, Busy, Refunding, Reversing
  <2>3. ASSUME NEW k \in Key, ConfirmApproved(r, k) PROVE RequestFull(r)'
    <3>1. gw[k] \in GatewayPayment BY <1>0 DEF TypeOK
    <3>2. Approve(gw[k], k \in VirtualKey).bal = gw[k].bal BY <3>1, ApprovedBalance
    <3>3. /\ req'[r].pc = "confirmTx" /\ req'[r].key = k
          /\ req'[r].bal = Approve(gw[k], k \in VirtualKey).bal
      BY <1>0, <2>3, IdleReqType DEF ConfirmApproved, TypeOK, ReqRecord
    <3>4. gw[k].bal = Amounts[k] BY <2>3 DEF ConfirmApproved, FullInv, GatewayFull
    <3>5. req'[r].bal = Amounts[k] BY <3>2, <3>3, <3>4
    <3> QED BY <3>3, <3>5 DEF RequestFull, Refunding, Reversing
  <2>4. ASSUME NEW k \in Key, SyncRead(r, k) PROVE FALSE BY <2>4 DEF SyncRead, FullRefunds
  <2>5. ASSUME NEW k \in Key, CancelRead(r, k) PROVE RequestFull(r)'
    <3>1. req'[r].pc = "cancelToss" /\ req'[r].key = k
      BY <1>0, <2>5, IdleReqType DEF CancelRead, TypeOK, ReqRecord
    <3>2. Paid(k)' BY <1>2, <2>5 DEF CancelRead, Paid
    <3> QED BY <3>1, <3>2 DEF RequestFull, Reversing, Paid
  <2>6. ASSUME NEW k \in Key, ReturnRead(r, k) PROVE RequestFull(r)'
    <3>1. /\ req'[r].pc = "returnToss" /\ req'[r].key = k
          /\ req'[r].bal = row[k].bal - group[GroupOf[k]].fee
      BY <1>0, <2>6, IdleReqType DEF ReturnRead, TypeOK, ReqRecord
    <3>2. Paid(k)' BY <1>2, <2>6 DEF ReturnRead, Paid
    <3>3. group[GroupOf[k]].fee = 0
      BY <2>6, ModelAssumption DEF ReturnRead, FullInv, FeeFree
    <3>4. row[k].bal = Amounts[k] /\ row[k].bal \in Nat
      BY <1>0, <2>6 DEF ReturnRead, FullInv, RowFull, TypeOK, RowRecord
    <3>5. req'[r].bal = Amounts[k] BY <3>1, <3>3, <3>4
    <3> QED BY <3>1, <3>2, <3>5 DEF RequestFull, Reversing, Paid
  <2>7. ASSUME NEW a \in Int, RefundStep(r, a) PROVE RequestFull(r)'
    <3>0. PICK k \in Key : k = req[r].key BY <1>1
    <3>1. gw'[k].st = "CANCELED" /\ row[k].st = "SUCCESS" /\ Refund(gw[k], a).bal = 0
      BY <2>7, <3>0, RefundIsFull
    <3>2. UNCHANGED row BY <2>7 DEF RefundStep
    <3>3. \/ req'[r].pc \in Reversing /\ req'[r].key = k /\ req'[r].bal = 0
          \/ req'[r].pc = "idle"
      BY <2>7, <3>0, <3>1 DEF RefundStep
    <3>4. row'[k].st = "SUCCESS" BY <3>1, <3>2
    <3> QED BY <3>1, <3>3, <3>4 DEF RequestFull, Refunding, Reversing
  <2> QED BY <2>0, <2>1, <2>2, <2>3, <2>4, <2>5, <2>6, <2>7 DEF BusyMove
<1>7. ASSUME NEW r \in Req PROVE ReversesAlone(r)'
  <2>1. SUFFICES ASSUME req'[r].pc \in Reversing,
                        NEW s \in Req, req'[s].pc \in Reversing,
                        req'[s].key = req'[r].key, s # r
                 PROVE  FALSE
    BY DEF ReversesAlone
  \* Toss has nothing left for a second request.
  <2>2. ASSUME NEW t \in Req, NEW u \in Req, t # u, req'[u].pc \in Reversing,
               req'[u].key = req'[t].key, req'[t].pc \in Reversing,
               NEW a \in Int, RefundStep(t, a)
        PROVE  FALSE
    <3>0. PICK k \in Key : k = req[t].key BY <1>1
    <3>1. gw[k].st # "CANCELED" BY <2>2, <3>0, RefundIsFull
    <3>2. req'[u] = req[u] /\ req'[t].key = k
      BY <2>2, <3>0 DEF RefundStep, Reversing
    <3>3. req[u].pc \in Reversing /\ req[u].key = k BY <2>2, <3>2
    <3> QED BY <3>1, <3>3 DEF FullInv, RequestFull
  <2>3. UNCHANGED req[r] BY <1>0, <2>1, <2>2, ReversingComes
  <2>4. UNCHANGED req[s] BY <1>0, <2>1, <2>2, ReversingComes
  <2> QED BY <2>1, <2>3, <2>4 DEF FullInv, ReversesAlone
<1>8. ASSUME NEW g \in Group PROVE FeeFree(g)'
  <2>0. FeeFree(g) /\ GroupStep(g) BY <1>0, GroupSteps DEF FullInv
  <2>1. UNCHANGED group[g] => FeeFree(g)' BY <2>0 DEF FeeFree
  <2>2. ASSUME Initiate(g) PROVE FeeFree(g)'
    <3>1. group'[g].sit = "PENDING" /\ group'[g].fee = Checkout[g].fee
      BY <1>0, <2>2 DEF Initiate, TypeOK
    <3> QED BY <2>0, <3>1 DEF FeeFree
  <2>3. ASSUME AdminWrite(g) PROVE FeeFree(g)'
    <3>1. PICK e \in Edit : e = adm[g] BY <1>0, <2>3 DEF AdminWrite, TypeOK
    <3>2. /\ group'[g].sit = Given(AskedSituation(e), group[g].sit)
          /\ group'[g].fee = Given(e.fee, group[g].fee)
      BY <1>0, <2>3, <3>1 DEF AdminWrite, TypeOK
    <3>3. e.sit # "SHIPPED" /\ group[g].sit # "SHIPPED" => group'[g].sit # "SHIPPED"
      BY <3>2, ModelAssumption DEF Given, AskedSituation, Situation
    <3>4. e.fee \in {0, Absent} /\ group[g].fee = 0 => group'[g].fee = 0
      BY <3>2 DEF Given
    <3> QED BY <2>0, <3>3, <3>4 DEF FeeFree
  <2>4. ASSUME group'[g].sit \in HandlerSituation, group'[g].fee = group[g].fee
        PROVE  FeeFree(g)'
    BY <2>0, <2>4 DEF FeeFree, HandlerSituation
  <2> QED BY <2>0, <2>1, <2>2, <2>3, <2>4 DEF GroupStep
<1> QED BY <1>4, <1>5, <1>6, <1>7, <1>8 DEF FullInv

LEMMA FullHolds ==
    ASSUME FullRefunds
    PROVE  Spec => [](Sound /\ FullInv)
<1>1. Init => FullInv BY FullInit
<1>2. Sound /\ FullInv /\ [Next]_vars => FullInv' BY FullNext
<1> QED BY <1>1, <1>2, SoundHolds, PTL DEF Spec

-----------------------------------------------------------------------------
(* Settled rows agree with Toss *)

Begins(r, k) ==
    ConfirmToss(r, k) \/ CancelRead(r, k) \/ ReturnRead(r, k) \/ SyncRead(r, k)

\* A request changes only by a step of its own, or when the process dies.
LEMMA OwnSteps ==
    ASSUME TypeOK, [Next]_vars, NEW s \in Req, req'[s] # req[s]
    PROVE  Continue(s) \/ (\E k \in Key : Begins(s, k)) \/ Crash
<1>1. ASSUME NEW r \in Req, NEW q, req' = [req EXCEPT ![r] = q] PROVE r = s
  BY <1>1 DEF TypeOK
<1>2. ASSUME NEW r \in Req, Finish(r) PROVE r = s BY <1>1, <1>2 DEF Finish
<1>3. ASSUME NEW r \in Req, NEW pc, Goto(r, pc) PROVE r = s BY <1>3 DEF Goto, TypeOK
<1>4. ASSUME NEW r \in Req, NEW k \in Key, Begins(r, k) PROVE r = s
  <2>1. ASSUME ConfirmToss(r, k) PROVE r = s
    BY <2>1 DEF ConfirmToss, ConfirmApproved, ConfirmRefused, ConfirmLost, TypeOK
  <2>2. ASSUME CancelRead(r, k) \/ ReturnRead(r, k) \/ SyncRead(r, k) PROVE r = s
    BY <2>2 DEF CancelRead, ReturnRead, SyncRead, TypeOK
  <2> QED BY <1>4, <2>1, <2>2 DEF Begins
<1>5. ASSUME NEW r \in Req, Continue(r) PROVE r = s
  <2>1. ASSUME ConfirmTx(r) \/ RewardRead(r) PROVE r = s
    BY <2>1 DEF ConfirmTx, RewardRead, TypeOK
  <2>2. ASSUME ConfirmTxFails(r) \/ RewardRow(r) \/ RewardSet(r) \/ RewardFails(r) \/ FailMark(r)
        PROVE  r = s
    BY <1>3, <2>2 DEF ConfirmTxFails, RewardRow, RewardSet, RewardFails, FailMark
  <2>3. ASSUME \/ Enqueue(r) \/ FailRecord(r) \/ CancelTx(r) \/ ReturnTx(r)
               \/ ReverseTxFails(r) \/ SyncWrite(r)
        PROVE  r = s
    BY <1>2, <2>3 DEF Enqueue, FailRecord, CancelTx, ReturnTx, ReverseTx, ReverseTxFails,
       SyncWrite
  <2>4. ASSUME NEW a, NEW next, Refunded(r, a, next) \/ RefundRefused(r, a) PROVE r = s
    <3>1. CASE Finish(r) BY <1>2, <3>1
    <3>2. CASE req' = [req EXCEPT ![r].pc = next, ![r].bal = Refund(gw[req[r].key], a).bal]
      BY <3>2 DEF TypeOK
    <3> QED BY <2>4, <3>1, <3>2 DEF Refunded, RefundRefused
  <2>5. ASSUME CancelToss(r) \/ ReturnToss(r) PROVE r = s
    BY <2>4, <2>5 DEF CancelToss, ReturnToss
  <2> QED BY <1>5, <2>1, <2>2, <2>3, <2>5 DEF Continue
<1>6. ASSUME NEW g \in Group,
             \/ Initiate(g) \/ InitiateFails(g) \/ AdminWrite(g) \/ CancelOrderGroup(g)
             \/ Work(g) \/ \E e \in Edit : AdminRead(g, e)
      PROVE  UNCHANGED req
  BY <1>6 DEF Initiate, InitiateFails, AdminWrite, CancelOrderGroup, AdminRead, Work,
     JobRead, JobUpsert, JobLevel, JobCoupons, JobDone, JobFails
<1>7. ASSUME NEW k \in Key, VirtualAccount(k) PROVE UNCHANGED req
  BY <1>7 DEF VirtualAccount
<1>8. UNCHANGED vars => UNCHANGED req BY DEF vars
<1> QED BY <1>4, <1>5, <1>6, <1>7, <1>8 DEF Next, Begins

\* Nothing interrupts a handler: no answer is lost, no transaction fails, the
\* process does not die.
Uninterrupted == "lost" \notin Faults /\ "db" \notin Faults /\ MaxCrashes = 0

\* Money that has been given back is on its way into the books.
Settling(k) ==
    gw[k].st = "CANCELED" /\ row[k].st = "SUCCESS" =>
      \E r \in Req : req[r].pc \in Reversing /\ req[r].key = k

LEMMA SettlingNext ==
    ASSUME FullRefunds, Uninterrupted
    PROVE  Sound /\ FullInv /\ (\A k \in Key : Settling(k)) /\ [Next]_vars
             => \A k \in Key : Settling(k)'
<1> SUFFICES ASSUME Sound, FullInv, \A k \in Key : Settling(k), [Next]_vars,
                    NEW k \in Key, gw'[k].st = "CANCELED", row'[k].st = "SUCCESS"
             PROVE  \E r \in Req : req'[r].pc \in Reversing /\ req'[r].key = k
  BY DEF Settling
<1>0. TypeOK /\ ~Crash BY DEF Sound, TypeOK, Crash, Uninterrupted
<1>1. CASE gw[k].st = "CANCELED"
  <2>1. UNCHANGED row[k]
    <3>1. Paid(k) BY <1>1 DEF FullInv, GatewayFull
    <3> QED BY <3>1, PaidStays
  <2>2. PICK r \in Req : req[r].pc \in Reversing /\ req[r].key = k
    BY <1>1, <2>1 DEF Settling
  \* Its transaction would have written the row.
  <2>3. ~CancelTx(r) /\ ~ReturnTx(r)
    <3>1. SUFFICES ASSUME CancelTx(r) \/ ReturnTx(r) PROVE FALSE OBVIOUS
    <3>2. row'[k].st = RefundStatus(req[r].bal)
      BY <1>0, <2>2, <3>1 DEF CancelTx, ReturnTx, ReverseTx, TypeOK
    <3>3. req[r].bal = 0 BY <2>2 DEF FullInv, RequestFull
    <3> QED BY <3>2, <3>3 DEF RefundStatus
  <2>4. ~Continue(r)
    BY <2>2, <2>3 DEF Continue, ConfirmTx, ConfirmTxFails, RewardRead, RewardRow, RewardSet,
       RewardFails, Enqueue, FailMark, FailRecord, CancelToss, ReturnToss, ReverseTxFails,
       SyncWrite, Reversing, Uninterrupted
  <2>5. \A j \in Key : ~Begins(r, j)
    BY <2>2 DEF Begins, ConfirmToss, ConfirmApproved, ConfirmRefused, ConfirmLost,
       CancelRead, ReturnRead, SyncRead, Reversing
  <2>6. req'[r] = req[r] BY <1>0, <2>4, <2>5, OwnSteps
  <2> QED BY <2>2, <2>6
<1>2. CASE gw[k].st # "CANCELED"
  <2>1. BalanceMove(k) BY <1>0, BalanceMoves
  <2>2. PICK s \in Req, a \in Int : RefundStep(s, a) /\ req[s].key = k
    BY <1>2, <2>1 DEF BalanceMove
  <2>3. req'[s].pc \in Reversing /\ req'[s].key = k
    BY <2>2 DEF RefundStep, Uninterrupted
  <2> QED BY <2>3
<1> QED BY <1>1, <1>2

\* A payment with nothing in flight reads what Toss has: a refund that Toss made is
\* booked by the request that asked for it, whichever other cancellations, returns,
\* confirmations and edits overtake it.  Not so once an answer is lost, a transaction
\* fails or the process dies.
THEOREM SettledRowsAgreeHolds ==
    ASSUME FullRefunds, Uninterrupted
    PROVE  Spec => []SettledRowsAgree
<1> DEFINE AllSettling == \A k \in Key : Settling(k)
<1>1. Init => AllSettling BY DEF Init, Settling
<1>2. Sound /\ FullInv /\ AllSettling /\ [Next]_vars => AllSettling' BY SettlingNext
<1>3. Sound /\ FullInv /\ AllSettling => SettledRowsAgree
  <2> SUFFICES ASSUME Sound, FullInv, AllSettling, NEW k \in Key, Paid(k), ~InFlight(k)
               PROVE  /\ row[k].bal = gw[k].bal
                      /\ (row[k].st = "CANCELLED") = (gw[k].st = "CANCELED")
    BY DEF SettledRowsAgree
  <2>1. CASE row[k].st = "SUCCESS"
    <3>1. gw[k].st # "CANCELED" BY <2>1 DEF Settling, InFlight, Reversing
    <3> QED BY <2>1, <3>1 DEF FullInv, GatewayFull, RowFull
  <2>2. CASE row[k].st = "CANCELLED"
    <3>1. gw[k].st = "CANCELED" BY <2>2 DEF Sound, MoneyInv, RowsFollowGateway, NotAhead
    <3>2. gw[k].bal = 0 BY <3>1 DEF Sound, MoneyInv, CancelledWhenEmpty
    <3> QED BY <2>2, <3>1, <3>2 DEF FullInv, RowFull
  <2> QED BY <2>1, <2>2 DEF Paid
<1> HIDE DEF AllSettling
<1> QED BY <1>1, <1>2, <1>3, FullHolds, PTL DEF Spec

-----------------------------------------------------------------------------
(* Taken money is never lost sight of *)

\* What Toss has processed and not refused is in the books of its group, or on
\* its way there.
Holding == {"confirmTx", "failing", "recording"}

Held(k) ==
    gw[k].st \notin {"READY", "ABORTED"} =>
      \/ HasRow(GroupOf[k])
      \/ \E r \in Req : req[r].key = k /\ req[r].pc \in Holding

\* Toss approves a payment only for a handler that goes on with it, whether or not
\* the answer arrives.
LEMMA ApprovalHeld ==
    ASSUME TypeOK, [Next]_vars, NEW k \in Key,
           gw[k].st = "READY", gw'[k].st \notin {"READY", "ABORTED"}
    PROVE  \E r \in Req : req'[r].key = k /\ req'[r].pc \in Holding
<1>1. ASSUME NEW r \in Req, NEW j \in Key, ConfirmToss(r, j)
      PROVE  req'[r].key = k /\ req'[r].pc \in Holding
  <2>1. ASSUME j # k PROVE gw'[k] = gw[k]
    BY <1>1, <2>1 DEF ConfirmToss, ConfirmApproved, ConfirmRefused, ConfirmLost, TypeOK
  <2>2. j = k BY <2>1
  <2>3. ASSUME ConfirmRefused(r, k) PROVE FALSE
    <3>1. gw' = gw \/ gw' = [gw EXCEPT ![k].st = "ABORTED"]
      BY <2>3 DEF ConfirmRefused
    <3>2. CASE gw' = [gw EXCEPT ![k].st = "ABORTED"]
      BY <3>2 DEF TypeOK, GatewayPayment
    <3> QED BY <3>1, <3>2
  <2>4. IdleReq \in ReqRecord BY IdleReqType
  <2>5. ASSUME ConfirmApproved(r, k) PROVE req'[r].key = k /\ req'[r].pc = "confirmTx"
    BY <2>4, <2>5 DEF ConfirmApproved, TypeOK, ReqRecord
  <2>6. ASSUME ConfirmLost(r, k) PROVE req'[r].key = k /\ req'[r].pc = "failing"
    BY <2>4, <2>6 DEF ConfirmLost, TypeOK, ReqRecord
  <2> QED BY <1>1, <2>2, <2>3, <2>5, <2>6 DEF ConfirmToss, Holding
<1>2. ASSUME NEW r \in Req, CancelToss(r) \/ ReturnToss(r) PROVE FALSE
  <2>1. CASE UNCHANGED gw BY <2>1
  <2>2. ASSUME NEW a, NEW next, Refunded(r, a, next) PROVE FALSE
    <3>1. /\ gw[req[r].key].st \in {"DONE", "PARTIAL_CANCELED"}
          /\ gw' = [gw EXCEPT ![req[r].key] = Refund(gw[req[r].key], a)]
      BY <2>2 DEF Refunded, Refundable
    <3> QED BY <3>1 DEF TypeOK
  <2>3. \A a : RefundRefused(r, a) => UNCHANGED gw BY DEF RefundRefused
  <2> QED BY <1>2, <2>1, <2>2, <2>3 DEF CancelToss, ReturnToss
<1>3. ASSUME NEW j \in Key, VirtualAccount(j) PROVE FALSE
  BY <1>3 DEF VirtualAccount, TypeOK
<1>4. ASSUME NEW r \in Req, Continue(r) PROVE FALSE
  <2>1. CASE CancelToss(r) \/ ReturnToss(r) BY <1>2, <2>1
  <2>2. CASE ~CancelToss(r) /\ ~ReturnToss(r)
    <3>1. UNCHANGED gw
      BY <1>4, <2>2 DEF Continue, ConfirmTx, ConfirmTxFails, RewardRead, RewardRow,
         RewardSet, RewardFails, Enqueue, FailMark, FailRecord, CancelTx, ReturnTx,
         ReverseTx, ReverseTxFails, SyncWrite
    <3> QED BY <3>1
  <2> QED BY <2>1, <2>2
<1>5. ASSUME NEW r \in Req, NEW j \in Key,
             CancelRead(r, j) \/ ReturnRead(r, j) \/ SyncRead(r, j)
      PROVE  FALSE
  BY <1>5 DEF CancelRead, ReturnRead, SyncRead
<1>6. ASSUME NEW g \in Group,
             \/ Initiate(g) \/ InitiateFails(g) \/ AdminWrite(g) \/ CancelOrderGroup(g)
             \/ Work(g) \/ \E e \in Edit : AdminRead(g, e)
      PROVE  FALSE
  BY <1>6 DEF Initiate, InitiateFails, AdminWrite, CancelOrderGroup, AdminRead, Work,
     JobRead, JobUpsert, JobLevel, JobCoupons, JobDone, JobFails
<1>7. ~Crash /\ ~UNCHANGED vars BY DEF Crash, vars
<1> QED BY <1>1, <1>3, <1>4, <1>5, <1>6, <1>7 DEF Next

\* A handler bound to record a payment goes on until its group has a row.
LEMMA HoldingEnds ==
    ASSUME TypeOK, NEW r \in Req, req[r].pc \in Holding, Continue(r),
           "db" \notin Faults, ~HasRow(GroupOf[req[r].key])
    PROVE  \/ ConfirmTx(r)
           \/ row' = [row EXCEPT ![req[r].key] = [st |-> "FAILED", bal |-> 0]]
           \/ req'[r].key = req[r].key /\ req'[r].pc \in Holding
<1>1. ConfirmTx(r) \/ FailMark(r) \/ FailRecord(r)
  BY DEF Continue, Holding, ConfirmTxFails, RewardRead, RewardRow, RewardSet, RewardFails,
     Enqueue, CancelToss, ReturnToss, CancelTx, ReturnTx, ReverseTxFails, SyncWrite
<1>2. FailMark(r) => req'[r].key = req[r].key /\ req'[r].pc \in Holding
  BY DEF FailMark, Goto, Holding, TypeOK, ReqRecord
<1>3. FailRecord(r) => row' = [row EXCEPT ![req[r].key] = [st |-> "FAILED", bal |-> 0]]
  BY DEF FailRecord
<1> QED BY <1>1, <1>2, <1>3

LEMMA HeldNext ==
    ASSUME "db" \notin Faults, MaxCrashes = 0
    PROVE  Sound /\ (\A k \in Key : Held(k)) /\ [Next]_vars => \A k \in Key : Held(k)'
<1> SUFFICES ASSUME Sound, \A k \in Key : Held(k), [Next]_vars, NEW k \in Key,
                    gw'[k].st \notin {"READY", "ABORTED"}
             PROVE  \/ HasRow(GroupOf[k])'
                    \/ \E r \in Req : req'[r].key = k /\ req'[r].pc \in Holding
  BY DEF Held
<1>0. TypeOK /\ ~Crash BY DEF Sound, TypeOK, Crash
<1>1. \A j \in Key : row[j].st # "NONE" => row'[j].st # "NONE"
  <2>1. UNCHANGED row \/ \E j \in Key : RowMove(j)
    BY <1>0, StepMoves DEF Sound, vars, BankMove
  <2> QED BY <1>0, <2>1 DEF RowMove, TypeOK
<1>2. CASE HasRow(GroupOf[k]) BY <1>1, <1>2 DEF HasRow
<1>3. CASE gw[k].st \in {"READY", "ABORTED"}
  <2>1. gw[k].st = "READY" BY <1>0, <1>3, GatewayLater DEF Later
  <2> QED BY <1>0, <2>1, ApprovalHeld
<1>4. CASE ~HasRow(GroupOf[k]) /\ gw[k].st \notin {"READY", "ABORTED"}
  <2>1. PICK r \in Req : req[r].key = k /\ req[r].pc \in Holding
    BY <1>4 DEF Held
  <2>2. CASE req'[r] = req[r] BY <2>1, <2>2
  <2>3. CASE Continue(r)
    <3>1. CASE ConfirmTx(r)
      <4>1. row'[k].st # "NONE"
        BY <1>0, <2>1, <3>1 DEF ConfirmTx, TypeOK, Sound, SlotInv, KnowsItsRow
      <4> QED BY <4>1 DEF HasRow
    <3>2. CASE row' = [row EXCEPT ![req[r].key] = [st |-> "FAILED", bal |-> 0]]
      <4>1. row'[k].st # "NONE" BY <1>0, <2>1, <3>2 DEF TypeOK
      <4> QED BY <4>1 DEF HasRow
    <3> QED BY <1>0, <1>4, <2>1, <2>3, <3>1, <3>2, HoldingEnds
  <2>4. \A j \in Key : ~Begins(r, j)
    BY <2>1 DEF Begins, ConfirmToss, ConfirmApproved, ConfirmRefused, ConfirmLost,
       CancelRead, ReturnRead, SyncRead, Holding
  <2> QED BY <1>0, <2>2, <2>3, <2>4, OwnSteps
<1> QED BY <1>2, <1>3, <1>4

\* Money that Toss has taken has a payment row of its order group, or a handler that
\* is bound to write one, whatever answers are lost and whichever confirmations of the
\* group fail: the part of TakenGetsRow that does not depend on who is scheduled.  A
\* failing transaction or the death of the process may lose the handler.
THEOREM TakenIsHeldHolds ==
    ASSUME "db" \notin Faults, MaxCrashes = 0
    PROVE  Spec => []TakenIsHeld
<1> DEFINE AllHeld == \A k \in Key : Held(k)
<1>1. Init => AllHeld BY DEF Init, Held
<1>2. Sound /\ AllHeld /\ [Next]_vars => AllHeld' BY HeldNext
<1>3. AllHeld => TakenIsHeld BY DEF Held, TakenIsHeld, MoneyTaken, Holding
<1> HIDE DEF AllHeld
<1> QED BY <1>1, <1>2, <1>3, SoundHolds, PTL DEF Spec

-----------------------------------------------------------------------------
(* The books agree *)

\* A payment is booked when it is confirmed, and no edit changes what is booked: no
\* virtual accounts, and the admin edits neither amount nor points.
PlainBooks ==
    /\ FullRefunds
    /\ VirtualKey = {}
    /\ \A e \in Edit : e.final = Absent /\ e.pts = Absent

AsAsked(g) ==
    /\ group[g].sit # Absent => /\ group[g].final = Checkout[g].amount
                                /\ group[g].pts = Checkout[g].pts
    /\ adm[g] # Absent => group[g].sit # Absent
    /\ ~HasRow(g) => ledger[g].deducted = 0

BookedRow(k) ==
    row[k].st = "SUCCESS" =>
      /\ group[GroupOf[k]].sit # Absent
      /\ ledger[GroupOf[k]].deducted = Checkout[GroupOf[k]].pts

BookingRequest(r) ==
    /\ req[r].pc # "idle" => group[GroupOf[req[r].key]].sit # Absent
    /\ req[r].pc = "confirmTx" => req[r].st = "SUCCESS"
    /\ req[r].pc \in {"returnToss", "returnTx"} => req[r].num = Amounts[req[r].key]

BooksInv == /\ \A g \in Group : AsAsked(g)
            /\ \A k \in Key : BookedRow(k)
            /\ \A r \in Req : BookingRequest(r)
            /\ IsFiniteSet(Booked)
            /\ BooksAgree

\* Totals and units for sale change only in a transaction that confirms or reverses,
\* the level only there and in a membership job.
LEMMA TotalsStay ==
    ASSUME TypeOK, [Next]_vars,
           \A r \in Req : ~ConfirmTx(r) /\ ~CancelTx(r) /\ ~ReturnTx(r)
    PROVE  /\ UNCHANGED stock
           /\ account'.purchased = account.purchased
           /\ account'.usedTotal = account.usedTotal
           /\ (\A g \in Group : ~JobUpsert(g) /\ ~JobLevel(g)) =>
                account'.level = account.level /\ account'.member = account.member
<1> DEFINE Same == /\ UNCHANGED stock
                   /\ account'.purchased = account.purchased
                   /\ account'.usedTotal = account.usedTotal
                   /\ (\A g \in Group : ~JobUpsert(g) /\ ~JobLevel(g)) =>
                        account'.level = account.level /\ account'.member = account.member
<1>1. ASSUME NEW r \in Req, RewardSet(r) PROVE Same
  BY <1>1 DEF RewardSet, TypeOK, AccountRecord
<1>2. ASSUME NEW g \in Group, JobUpsert(g) \/ JobLevel(g) PROVE Same
  <2>1. JobUpsert(g) => Same BY DEF JobUpsert, TypeOK, AccountRecord
  <2>2. JobLevel(g) => Same BY DEF JobLevel, TypeOK, AccountRecord
  <2> QED BY <1>2, <2>1, <2>2
<1>3. UNCHANGED <<account, stock>> => Same OBVIOUS
<1>4. ASSUME NEW r \in Req, Continue(r), ~ConfirmTx(r), ~CancelTx(r), ~ReturnTx(r), ~RewardSet(r)
      PROVE  UNCHANGED <<account, stock>>
  BY <1>4 DEF Continue, ConfirmTxFails, RewardRead, RewardRow, RewardFails, FailMark,
     Enqueue, FailRecord, CancelToss, ReturnToss, Refunded, RefundRefused,
     ReverseTxFails, SyncWrite
<1>5. ASSUME NEW r \in Req, NEW k \in Key, Begins(r, k) PROVE UNCHANGED <<account, stock>>
  BY <1>5 DEF Begins, ConfirmToss, ConfirmApproved, ConfirmRefused, ConfirmLost,
     CancelRead, ReturnRead, SyncRead
<1>6. ASSUME NEW g \in Group, Work(g), ~JobUpsert(g), ~JobLevel(g)
      PROVE  UNCHANGED <<account, stock>>
  BY <1>6 DEF Work, JobRead, JobCoupons, JobDone, JobFails
<1>7. ASSUME NEW g \in Group,
             \/ Initiate(g) \/ InitiateFails(g) \/ AdminWrite(g) \/ CancelOrderGroup(g)
             \/ \E e \in Edit : AdminRead(g, e)
      PROVE  UNCHANGED <<account, stock>>
  BY <1>7 DEF Initiate, InitiateFails, AdminWrite, CancelOrderGroup, AdminRead
<1>8. ASSUME NEW k \in Key, VirtualAccount(k) PROVE UNCHANGED <<account, stock>>
  BY <1>8 DEF VirtualAccount
<1>9. Crash => UNCHANGED <<account, stock>> BY DEF Crash
<1>10. UNCHANGED vars => UNCHANGED <<account, stock>> BY DEF vars
<1> HIDE DEF Same
<1>11. Same
  BY <1>1, <1>2, <1>3, <1>4, <1>5, <1>6, <1>7, <1>8, <1>9, <1>10 DEF Next, Begins
<1> QED BY <1>11 DEF Same

\* The points deducted for a group change only when it is confirmed.
LEMMA DeductedStays ==
    ASSUME TypeOK, [Next]_vars, NEW g \in Group
    PROVE  \/ ledger'[g].deducted = ledger[g].deducted
           \/ \E r \in Req :
                /\ ConfirmTx(r) /\ GroupOf[req[r].key] = g
                /\ ledger'[g].deducted = ledger[g].deducted + group[g].pts
<1>0. LedgerMove(g) /\ ledger[g] \in LedgerRecord BY LedgerMoves DEF TypeOK
<1>1. ASSUME NEW r \in Req, ConfirmTx(r), GroupOf[req[r].key] = g
      PROVE  ledger'[g].deducted = ledger[g].deducted + group[g].pts
  BY <1>0, <1>1 DEF ConfirmTx, TypeOK, LedgerRecord
<1>2. ASSUME NEW r \in Req, RewardRow(r), GroupOf[req[r].key] = g
      PROVE  ledger'[g].deducted = ledger[g].deducted
  BY <1>0, <1>2 DEF RewardRow, TypeOK, LedgerRecord
<1>3. ASSUME ledger'[g] = [ledger[g] EXCEPT !.bonus = 0]
      PROVE  ledger'[g].deducted = ledger[g].deducted
  BY <1>0, <1>3 DEF LedgerRecord
<1>4. ASSUME JobCoupons(g) PROVE ledger'[g].deducted = ledger[g].deducted
  <2>1. ledger' = ledger \/ ledger' = [ledger EXCEPT ![g].bonus = @ + 1]
    BY <1>4 DEF JobCoupons
  <2> QED BY <1>0, <2>1 DEF TypeOK, LedgerRecord
<1>5. ledger'[g] = ledger[g] => ledger'[g].deducted = ledger[g].deducted OBVIOUS
<1> QED BY <1>0, <1>1, <1>2, <1>3, <1>4, <1>5 DEF LedgerMove

\* A handler that goes on keeps its payment.
LEMMA KeyStays ==
    ASSUME TypeOK, NEW s \in Req, Continue(s)
    PROVE  req'[s].pc = "idle" \/ req'[s].key = req[s].key
<1>1. Finish(s) => req'[s].pc = "idle" BY IdleReqType DEF Finish, TypeOK
<1>2. ASSUME NEW pc, Goto(s, pc) PROVE req'[s].key = req[s].key
  BY <1>2 DEF Goto, TypeOK, ReqRecord
<1>3. ConfirmTx(s) => req'[s].key = req[s].key BY DEF ConfirmTx, TypeOK, ReqRecord
<1>4. RewardRead(s) => req'[s].key = req[s].key
  <2>1. SUFFICES ASSUME RewardRead(s) PROVE req'[s].key = req[s].key OBVIOUS
  <2>2. PICK pc \in {"rewardRow", "enqueue"} :
           req' = [req EXCEPT ![s].pc = pc, ![s].num = account.avail]
    BY <2>1 DEF RewardRead
  <2> QED BY <2>2 DEF TypeOK, ReqRecord
<1>5. ConfirmTxFails(s) \/ RewardRow(s) \/ RewardSet(s) \/ RewardFails(s) \/ FailMark(s)
        => req'[s].key = req[s].key
  BY <1>2 DEF ConfirmTxFails, RewardRow, RewardSet, RewardFails, FailMark
<1>6. ASSUME \/ Enqueue(s) \/ FailRecord(s) \/ CancelTx(s) \/ ReturnTx(s)
             \/ ReverseTxFails(s) \/ SyncWrite(s)
      PROVE  req'[s].pc = "idle"
  BY <1>1, <1>6 DEF Enqueue, FailRecord, CancelTx, ReturnTx, ReverseTx, ReverseTxFails, SyncWrite
<1>7. ASSUME CancelToss(s) \/ ReturnToss(s)
      PROVE  req'[s].pc = "idle" \/ req'[s].key = req[s].key
  BY <1>1, <1>7, TossSteps DEF RefundStep
<1> QED BY <1>3, <1>4, <1>5, <1>6, <1>7 DEF Continue

LEMMA EditSteps ==
    ASSUME TypeOK, [Next]_vars, NEW g \in Group
    PROVE  \/ adm'[g] = adm[g] \/ adm'[g] = Absent
           \/ group[g].sit # Absent /\ UNCHANGED group
<1> DEFINE Goal == \/ adm'[g] = adm[g] \/ adm'[g] = Absent
                   \/ group[g].sit # Absent /\ UNCHANGED group
<1>1. ASSUME NEW h \in Group, NEW e \in Edit, AdminRead(h, e) PROVE Goal
  <2>1. g # h => adm'[g] = adm[g] BY <1>1 DEF AdminRead, TypeOK
  <2>2. g = h => group[g].sit # Absent /\ UNCHANGED group BY <1>1 DEF AdminRead
  <2> QED BY <2>1, <2>2
<1>2. ASSUME NEW h \in Group, AdminWrite(h) PROVE Goal
  BY <1>2 DEF AdminWrite, TypeOK
<1>3. Crash => Goal BY DEF Crash
<1>4. UNCHANGED adm => Goal OBVIOUS
<1>5. ASSUME NEW r \in Req, Continue(r) PROVE UNCHANGED adm
  BY <1>5 DEF Continue, ConfirmTx, ConfirmTxFails, RewardRead, RewardRow, RewardSet,
     RewardFails, Enqueue, FailMark, FailRecord, CancelToss, ReturnToss, Refunded,
     RefundRefused, CancelTx, ReturnTx, ReverseTx, ReverseTxFails, SyncWrite
<1>6. ASSUME NEW r \in Req, NEW k \in Key, Begins(r, k) PROVE UNCHANGED adm
  BY <1>6 DEF Begins, ConfirmToss, ConfirmApproved, ConfirmRefused, ConfirmLost,
     CancelRead, ReturnRead, SyncRead
<1>7. ASSUME NEW h \in Group,
             Initiate(h) \/ InitiateFails(h) \/ CancelOrderGroup(h) \/ Work(h)
      PROVE  UNCHANGED adm
  BY <1>7 DEF Initiate, InitiateFails, CancelOrderGroup, Work, JobRead, JobUpsert, JobLevel,
     JobCoupons, JobDone, JobFails
<1>8. ASSUME NEW k \in Key, VirtualAccount(k) PROVE UNCHANGED adm
  BY <1>8 DEF VirtualAccount
<1>9. UNCHANGED vars => UNCHANGED adm BY DEF vars
<1> HIDE DEF Goal
<1>10. Goal
  BY <1>1, <1>2, <1>3, <1>4, <1>5, <1>6, <1>7, <1>8, <1>9 DEF Next, Begins
<1> QED BY <1>10 DEF Goal

\* A group that has been opened stays what its checkout asked for.
LEMMA OpenStays ==
    ASSUME PlainBooks, TypeOK, BooksInv, [Next]_vars, NEW g \in Group
    PROVE  /\ group[g].sit # Absent => group'[g].sit # Absent
           /\ group'[g].sit # Absent => /\ group'[g].final = Checkout[g].amount
                                        /\ group'[g].pts = Checkout[g].pts
<1>0. GroupStep(g) /\ AsAsked(g) BY GroupSteps DEF BooksInv
<1>1. Absent \notin Situation BY ModelAssumption
<1>2. ASSUME Initiate(g)
      PROVE  /\ group[g].sit = Absent /\ group'[g].final = Checkout[g].amount
             /\ group'[g].pts = Checkout[g].pts
  BY <1>2 DEF Initiate, TypeOK
<1>3. ASSUME AdminWrite(g)
      PROVE  /\ group[g].sit # Absent /\ group'[g].sit # Absent
             /\ group'[g].final = group[g].final /\ group'[g].pts = group[g].pts
  <2>1. PICK e \in Edit : e = adm[g] BY <1>3 DEF AdminWrite, TypeOK
  <2>2. /\ group'[g].sit = Given(AskedSituation(e), group[g].sit)
        /\ group'[g].final = Given(e.final, group[g].final)
        /\ group'[g].pts = Given(e.pts, group[g].pts)
    BY <1>3, <2>1 DEF AdminWrite, TypeOK
  <2>3. e.final = Absent /\ e.pts = Absent BY DEF PlainBooks
  <2>4. group[g].sit # Absent BY <1>0, <1>3 DEF AsAsked, AdminWrite
  <2>5. group'[g].sit # Absent
    BY <1>1, <2>2, <2>4 DEF Given, AskedSituation, Situation
  <2> QED BY <2>2, <2>3, <2>4, <2>5 DEF Given
<1>4. ASSUME \/ CancelOrderGroup(g)
             \/ \E r \in Req : /\ GroupOf[req[r].key] = g
                               /\ FailMark(r) \/ ConfirmTx(r) \/ CancelTx(r) \/ ReturnTx(r)
      PROVE  group[g].sit # Absent
  <2>1. ASSUME NEW r \in Req, GroupOf[req[r].key] = g,
               FailMark(r) \/ ConfirmTx(r) \/ CancelTx(r) \/ ReturnTx(r)
        PROVE  group[g].sit # Absent
    <3>1. req[r].pc # "idle" BY <2>1 DEF FailMark, ConfirmTx, CancelTx, ReturnTx
    <3> QED BY <2>1, <3>1 DEF BooksInv, BookingRequest
  <2> QED BY <1>4, <2>1 DEF CancelOrderGroup
<1>5. group'[g].sit \in HandlerSituation => group'[g].sit # Absent
  BY <1>1 DEF HandlerSituation, Situation
<1> QED BY <1>0, <1>2, <1>3, <1>4, <1>5 DEF GroupStep, AsAsked

\* What a confirmation and a reversal book.
LEMMA ConfirmBooks ==
    ASSUME PlainBooks, Sound, FullInv, BooksInv, NEW r \in Req, ConfirmTx(r),
           NEW k \in Key, req[r].key = k
    PROVE  /\ k \notin Booked /\ Booked' = Booked \cup {k}
           /\ account'.purchased = account.purchased + Amounts[k]
           /\ account'.usedTotal = account.usedTotal + PointsSpent[k]
           /\ \A p \in Tracked : stock'.origin[p] = stock.origin[p] - Units(p)[k]
           /\ ledger'[GroupOf[k]].deducted = PointsSpent[k]
<1>0. TypeOK BY DEF Sound
<1>1. PICK g \in Group : g = GroupOf[k] BY ModelAssumption
<1>2. ~HasRow(g) /\ row[k].st = "NONE" BY <1>1 DEF ConfirmTx, HasRow
<1>3. group[g].final = Checkout[g].amount /\ group[g].pts = Checkout[g].pts
  BY <1>1 DEF ConfirmTx, BooksInv, BookingRequest, AsAsked
<1>4. req[r].st = "SUCCESS" BY DEF ConfirmTx, BooksInv, BookingRequest
<1>5. Booked' = Booked \cup {k}
  <2>1. row' = [row EXCEPT ![k] = [st |-> req[r].st, bal |-> req[r].bal]] BY DEF ConfirmTx
  <2> QED BY <1>0, <1>4, <2>1 DEF Booked, TypeOK
<1>6. /\ account'.purchased = account.purchased + group[g].final
      /\ account'.usedTotal = account.usedTotal + group[g].pts
  BY <1>0, <1>1 DEF ConfirmTx, TypeOK, AccountRecord
<1>7. \A p \in Tracked : stock'.origin[p] = stock.origin[p] - Checkout[g].qty[p]
  BY <1>0, <1>1, ModelAssumption DEF ConfirmTx, TypeOK, StockRecord
<1>8. ledger'[g].deducted = Checkout[g].pts
  <2>1. ledger'[g].deducted = ledger[g].deducted + group[g].pts
    BY <1>0, <1>1 DEF ConfirmTx, TypeOK, LedgerRecord
  <2>2. ledger[g].deducted = 0 BY <1>2 DEF BooksInv, AsAsked
  <2>3. group[g].pts \in Nat BY <1>0 DEF TypeOK, GroupRecord
  <2> QED BY <1>3, <2>1, <2>2, <2>3
<1> QED BY <1>1, <1>2, <1>3, <1>5, <1>6, <1>7, <1>8
  DEF Booked, Amounts, PointsSpent, Units

LEMMA ReversalBooks ==
    ASSUME PlainBooks, Sound, FullInv, BooksInv, NEW r \in Req, CancelTx(r) \/ ReturnTx(r),
           NEW k \in Key, req[r].key = k
    PROVE  /\ k \in Booked /\ Booked' = Booked \ {k}
           /\ account'.purchased = account.purchased - Amounts[k]
           /\ account'.usedTotal = account.usedTotal - PointsSpent[k]
           /\ \A p \in Tracked : stock'.origin[p] = stock.origin[p] + Units(p)[k]
<1>0. TypeOK BY DEF Sound
<1>1. PICK g \in Group : g = GroupOf[k] BY ModelAssumption
<1>2. req[r].pc \in Reversing BY DEF CancelTx, ReturnTx, Reversing
<1>3. req[r].bal = 0 /\ row[k].st = "SUCCESS" BY <1>2 DEF FullInv, RequestFull
<1>4. group[g].sit # Absent /\ ledger[g].deducted = Checkout[g].pts
  BY <1>1, <1>3 DEF BooksInv, BookedRow
<1>5. PICK final : /\ ReverseTx(r, "CANCELLED", final) \/ ReverseTx(r, "RETURNED", final)
                   /\ final = Checkout[g].amount
  <2>1. CancelTx(r) => ReverseTx(r, "CANCELLED", Checkout[g].amount)
    BY <1>1, <1>4 DEF CancelTx, BooksInv, AsAsked
  <2>2. ReturnTx(r) => ReverseTx(r, "RETURNED", Checkout[g].amount)
    BY <1>1 DEF ReturnTx, BooksInv, BookingRequest, Amounts
  <2> QED BY <2>1, <2>2
<1>6. Booked' = Booked \ {k}
  <2>1. row' = [row EXCEPT ![k] = [st |-> "CANCELLED", bal |-> 0]]
    BY <1>3, <1>5 DEF ReverseTx, RefundStatus
  <2> QED BY <1>0, <2>1 DEF Booked, TypeOK
<1>7. /\ account'.purchased = account.purchased - Checkout[g].amount
      /\ account'.usedTotal = account.usedTotal - ledger[g].deducted
  BY <1>0, <1>1, <1>5 DEF ReverseTx, TypeOK, AccountRecord
<1>8. \A p \in Tracked : stock'.origin[p] = stock.origin[p] + Checkout[g].qty[p]
  BY <1>0, <1>1, <1>5, ModelAssumption DEF ReverseTx, TypeOK, StockRecord
<1> QED BY <1>1, <1>3, <1>4, <1>6, <1>7, <1>8 DEF Booked, Amounts, PointsSpent, Units

\* One more payment, or one less, in all three books.
LEMMA OneBooked ==
    ASSUME NEW A, NEW B, IsFiniteSet(A), NEW k, k \notin A, B = A \cup {k},
           NEW f, \A x \in B : f[x] \in Int
    PROVE  SumFunctionOnSet(f, B) = f[k] + SumFunctionOnSet(f, A)
BY SumAdd

LEMMA BooksAgreeNext ==
    ASSUME PlainBooks
    PROVE  Sound /\ FullInv /\ BooksInv /\ [Next]_vars => IsFiniteSet(Booked)' /\ BooksAgree'
<1> SUFFICES ASSUME Sound, FullInv, BooksInv, [Next]_vars
             PROVE  IsFiniteSet(Booked)' /\ BooksAgree'
  OBVIOUS
<1>0. TypeOK BY DEF Sound
<1>1. \A k \in Key : Amounts[k] \in Int /\ PointsSpent[k] \in Int
  BY ModelAssumption DEF Amounts, PointsSpent
<1>2. \A p \in Tracked, k \in Key : Units(p)[k] \in Int
  BY ModelAssumption DEF Units
<1>3. /\ account.purchased \in Int /\ account.usedTotal \in Int
      /\ \A p \in Tracked : stock.origin[p] \in Int /\ InitOrigin[p] \in Int
  BY <1>0, ModelAssumption DEF TypeOK, AccountRecord, StockRecord
<1>4. Booked \subseteq Key /\ IsFiniteSet(Booked) BY DEF Booked, BooksInv
<1>5. BooksAgree BY DEF BooksInv
<1>6. ASSUME NEW r \in Req, ConfirmTx(r) PROVE IsFiniteSet(Booked)' /\ BooksAgree'
  <2>0. PICK k \in Key : k = req[r].key BY <1>0 DEF TypeOK, ReqRecord
  <2>1. /\ k \notin Booked /\ Booked' = Booked \cup {k}
        /\ account'.purchased = account.purchased + Amounts[k]
        /\ account'.usedTotal = account.usedTotal + PointsSpent[k]
        /\ \A p \in Tracked : stock'.origin[p] = stock.origin[p] - Units(p)[k]
    BY <1>6, <2>0, ConfirmBooks
  <2> DEFINE A == Booked
             B == Booked \cup {k}
  <2>2. IsFiniteSet(B) BY <1>4, FS_AddElement
  <2>3. IsFiniteSet(A) /\ k \notin A /\ B = A \cup {k} /\ A \subseteq Key /\ B \subseteq Key
    BY <1>4, <2>1
  <2>4. BooksAgree' <=>
          /\ account'.purchased = SumFunctionOnSet(Amounts, B)
          /\ account'.usedTotal = SumFunctionOnSet(PointsSpent, B)
          /\ \A p \in Tracked :
                stock'.origin[p] + SumFunctionOnSet(Units(p), B) = InitOrigin[p]
    BY <2>1 DEF BooksAgree, Amounts, PointsSpent, Units
  <2>5. /\ account.purchased = SumFunctionOnSet(Amounts, A)
        /\ account.usedTotal = SumFunctionOnSet(PointsSpent, A)
        /\ \A p \in Tracked :
              stock.origin[p] + SumFunctionOnSet(Units(p), A) = InitOrigin[p]
    BY <1>5 DEF BooksAgree
  <2>6. IsFiniteSet(Booked)' BY <2>1, <2>2
  <2> HIDE DEF A, B
  <2>7. SumFunctionOnSet(Amounts, B) = Amounts[k] + SumFunctionOnSet(Amounts, A)
    <3> DEFINE u == Amounts
    <3>1. \A x \in B : u[x] \in Int BY <1>1, <2>3
    <3> HIDE DEF u
    <3>2. SumFunctionOnSet(u, B) = u[k] + SumFunctionOnSet(u, A) BY <2>3, <3>1, OneBooked
    <3> QED BY <3>2 DEF u
  <2>8. SumFunctionOnSet(PointsSpent, B) = PointsSpent[k] + SumFunctionOnSet(PointsSpent, A)
    <3> DEFINE u == PointsSpent
    <3>1. \A x \in B : u[x] \in Int BY <1>1, <2>3
    <3> HIDE DEF u
    <3>2. SumFunctionOnSet(u, B) = u[k] + SumFunctionOnSet(u, A) BY <2>3, <3>1, OneBooked
    <3> QED BY <3>2 DEF u
  <2>9. ASSUME NEW p \in Tracked
        PROVE  stock'.origin[p] + SumFunctionOnSet(Units(p), B) = InitOrigin[p]
    <3> DEFINE u == Units(p)
    <3>1. \A x \in Key : u[x] \in Int BY <1>2
    <3>2. /\ stock'.origin[p] = stock.origin[p] - u[k]
          /\ stock.origin[p] + SumFunctionOnSet(u, A) = InitOrigin[p]
      BY <2>1, <2>5
    <3> HIDE DEF u
    <3>3. SumFunctionOnSet(u, B) = u[k] + SumFunctionOnSet(u, A)
      <4>1. \A x \in B : u[x] \in Int BY <2>3, <3>1
      <4> QED BY <2>3, <4>1, OneBooked
    <3>4. SumFunctionOnSet(u, A) \in Int BY <2>3, <3>1, SumInt
    <3>5. u[k] \in Int /\ stock.origin[p] \in Int BY <1>3, <3>1
    <3>6. stock'.origin[p] + SumFunctionOnSet(u, B) = InitOrigin[p]
      BY <3>2, <3>3, <3>4, <3>5
    <3> QED BY <3>6 DEF u
  <2>10. SumFunctionOnSet(Amounts, A) \in Int /\ SumFunctionOnSet(PointsSpent, A) \in Int
    BY <1>3, <2>5
  <2>11. /\ account'.purchased = SumFunctionOnSet(Amounts, B)
         /\ account'.usedTotal = SumFunctionOnSet(PointsSpent, B)
    BY <1>1, <2>1, <2>5, <2>7, <2>8, <2>10
  <2> QED BY <2>4, <2>6, <2>9, <2>11
<1>7. ASSUME NEW r \in Req, CancelTx(r) \/ ReturnTx(r)
      PROVE  IsFiniteSet(Booked)' /\ BooksAgree'
  <2>0. PICK k \in Key : k = req[r].key BY <1>0 DEF TypeOK, ReqRecord
  <2>1. /\ k \in Booked /\ Booked' = Booked \ {k}
        /\ account'.purchased = account.purchased - Amounts[k]
        /\ account'.usedTotal = account.usedTotal - PointsSpent[k]
        /\ \A p \in Tracked : stock'.origin[p] = stock.origin[p] + Units(p)[k]
    BY <1>7, <2>0, ReversalBooks
  <2> DEFINE B == Booked
             A == Booked \ {k}
  <2>2. IsFiniteSet(A) BY <1>4, FS_Subset
  <2>3. k \notin A /\ B = A \cup {k} /\ A \subseteq Key /\ B \subseteq Key
    BY <1>4, <2>1
  <2>4. BooksAgree' <=>
          /\ account'.purchased = SumFunctionOnSet(Amounts, A)
          /\ account'.usedTotal = SumFunctionOnSet(PointsSpent, A)
          /\ \A p \in Tracked :
                stock'.origin[p] + SumFunctionOnSet(Units(p), A) = InitOrigin[p]
    BY <2>1 DEF BooksAgree, Amounts, PointsSpent, Units
  <2>5. /\ account.purchased = SumFunctionOnSet(Amounts, B)
        /\ account.usedTotal = SumFunctionOnSet(PointsSpent, B)
        /\ \A p \in Tracked :
              stock.origin[p] + SumFunctionOnSet(Units(p), B) = InitOrigin[p]
    BY <1>5 DEF BooksAgree
  <2>6. IsFiniteSet(Booked)' BY <2>1, <2>2
  <2> HIDE DEF A, B
  <2>7. SumFunctionOnSet(Amounts, B) = Amounts[k] + SumFunctionOnSet(Amounts, A)
    <3> DEFINE u == Amounts
    <3>1. \A x \in B : u[x] \in Int BY <1>1, <2>3
    <3> HIDE DEF u
    <3>2. SumFunctionOnSet(u, B) = u[k] + SumFunctionOnSet(u, A) BY <2>2, <2>3, <3>1, OneBooked
    <3> QED BY <3>2 DEF u
  <2>8. SumFunctionOnSet(PointsSpent, B) = PointsSpent[k] + SumFunctionOnSet(PointsSpent, A)
    <3> DEFINE u == PointsSpent
    <3>1. \A x \in B : u[x] \in Int BY <1>1, <2>3
    <3> HIDE DEF u
    <3>2. SumFunctionOnSet(u, B) = u[k] + SumFunctionOnSet(u, A) BY <2>2, <2>3, <3>1, OneBooked
    <3> QED BY <3>2 DEF u
  <2>9. ASSUME NEW p \in Tracked
        PROVE  stock'.origin[p] + SumFunctionOnSet(Units(p), A) = InitOrigin[p]
    <3> DEFINE u == Units(p)
    <3>1. \A x \in Key : u[x] \in Int BY <1>2
    <3>2. /\ stock'.origin[p] = stock.origin[p] + u[k]
          /\ stock.origin[p] + SumFunctionOnSet(u, B) = InitOrigin[p]
      BY <2>1, <2>5
    <3> HIDE DEF u
    <3>3. SumFunctionOnSet(u, B) = u[k] + SumFunctionOnSet(u, A)
      <4>1. \A x \in B : u[x] \in Int BY <2>3, <3>1
      <4> QED BY <2>2, <2>3, <4>1, OneBooked
    <3>4. SumFunctionOnSet(u, A) \in Int BY <2>2, <2>3, <3>1, SumInt
    <3>5. u[k] \in Int /\ stock.origin[p] \in Int BY <1>3, <3>1
    <3>6. stock'.origin[p] + SumFunctionOnSet(u, A) = InitOrigin[p]
      BY <3>2, <3>3, <3>4, <3>5
    <3> QED BY <3>6 DEF u
  <2>10. SumFunctionOnSet(Amounts, A) \in Int /\ SumFunctionOnSet(PointsSpent, A) \in Int
    BY <1>1, <2>2, <2>3, SumInt
  <2>11. /\ account'.purchased = SumFunctionOnSet(Amounts, A)
         /\ account'.usedTotal = SumFunctionOnSet(PointsSpent, A)
    BY <1>1, <2>1, <2>5, <2>7, <2>8, <2>10
  <2> QED BY <2>4, <2>6, <2>9, <2>11
<1>8. CASE \A r \in Req : ~ConfirmTx(r) /\ ~CancelTx(r) /\ ~ReturnTx(r)
  <2>1. Booked' = Booked
    <3> SUFFICES ASSUME NEW k \in Key
                 PROVE  (row'[k].st = "SUCCESS") <=> (row[k].st = "SUCCESS")
      BY DEF Booked
    <3>1. RowStep(k) BY <1>0, RowSteps
    <3>2. \A r \in Req : ~SyncWrite(r) BY DEF SyncWrite, FullInv, RequestFull
    <3>3. row[k].st = "SUCCESS" => HasRow(GroupOf[k]) BY DEF HasRow
    <3> QED BY <1>8, <3>1, <3>2, <3>3 DEF RowStep
  <2>2. /\ UNCHANGED stock /\ account'.purchased = account.purchased
        /\ account'.usedTotal = account.usedTotal
    BY <1>0, <1>8, TotalsStay
  <2>3. BooksAgree' <=> BooksAgree
    BY <2>1, <2>2 DEF BooksAgree, Amounts, PointsSpent, Units
  <2> QED BY <1>4, <1>5, <2>1, <2>3
<1> QED BY <1>6, <1>7, <1>8

LEMMA BooksNext ==
    ASSUME PlainBooks
    PROVE  Sound /\ FullInv /\ BooksInv /\ [Next]_vars => BooksInv'
<1> SUFFICES ASSUME Sound, FullInv, BooksInv, [Next]_vars PROVE BooksInv' OBVIOUS
<1>0. TypeOK /\ FullRefunds BY DEF Sound, PlainBooks
<1>1. \A r \in Req : req[r].key \in Key /\ GroupOf[req[r].key] \in Group
  BY <1>0, ModelAssumption DEF TypeOK, ReqRecord
<1>2. \A g \in Group : group[g].sit # Absent => group'[g].sit # Absent
  BY <1>0, OpenStays
<1>3. ASSUME NEW g \in Group, HasRow(g) PROVE HasRow(g)'
  <2>1. PICK k \in Key : GroupOf[k] = g /\ row[k].st # "NONE" BY <1>3 DEF HasRow
  <2>2. RowStep(k) BY <1>0, RowSteps
  <2>3. \A r \in Req : ~SyncWrite(r) BY DEF SyncWrite, FullInv, RequestFull
  <2>4. ASSUME NEW r \in Req,
               row'[k] = [st |-> RefundStatus(req[r].bal), bal |-> req[r].bal]
        PROVE  row'[k].st # "NONE"
    <3>1. row'[k].st = RefundStatus(req[r].bal) BY <2>4
    <3> QED BY <3>1 DEF RefundStatus
  <2>5. row'[k].st # "NONE" BY <1>3, <2>1, <2>2, <2>3, <2>4 DEF RowStep
  <2> QED BY <2>1, <2>5 DEF HasRow
<1>4. ASSUME NEW g \in Group PROVE AsAsked(g)'
  <2>1. group'[g].sit # Absent => /\ group'[g].final = Checkout[g].amount
                                  /\ group'[g].pts = Checkout[g].pts
    BY <1>0, OpenStays
  <2>2. adm'[g] # Absent => group'[g].sit # Absent
    BY <1>0, <1>2, EditSteps DEF BooksInv, AsAsked
  <2>3. ASSUME ~HasRow(g)' PROVE ledger'[g].deducted = 0
    <3>1. ledger[g].deducted = 0 BY <1>3, <2>3 DEF BooksInv, AsAsked
    <3>2. ASSUME NEW r \in Req, ConfirmTx(r), GroupOf[req[r].key] = g PROVE FALSE
      <4>0. PICK k \in Key : k = req[r].key BY <1>1
      <4>1. k \in Booked' BY <3>2, <4>0, ConfirmBooks
      <4> QED BY <2>3, <3>2, <4>0, <4>1 DEF Booked, HasRow
    <3> QED BY <1>0, <3>1, <3>2, DeductedStays
  <2> QED BY <2>1, <2>2, <2>3 DEF AsAsked, HasRow
<1>5. ASSUME NEW k \in Key PROVE BookedRow(k)'
  <2>1. SUFFICES ASSUME row'[k].st = "SUCCESS"
                 PROVE  /\ group'[GroupOf[k]].sit # Absent
                        /\ ledger'[GroupOf[k]].deducted = Checkout[GroupOf[k]].pts
    BY DEF BookedRow
  <2>2. PICK g \in Group : g = GroupOf[k] BY ModelAssumption
  <2>3. CASE row[k].st = "SUCCESS"
    <3>1. group[g].sit # Absent /\ ledger[g].deducted = Checkout[g].pts
      BY <2>2, <2>3 DEF BooksInv, BookedRow
    <3>2. HasRow(g) BY <2>2, <2>3 DEF HasRow
    <3>3. ledger'[g].deducted = ledger[g].deducted
      <4>1. \A r \in Req : ConfirmTx(r) => ~HasRow(GroupOf[req[r].key]) BY DEF ConfirmTx
      <4> QED BY <1>0, <3>2, <4>1, DeductedStays
    <3> QED BY <1>2, <2>2, <3>1, <3>3
  <2>4. CASE row[k].st # "SUCCESS"
    <3>1. RowStep(k) BY <1>0, RowSteps
    <3>2. ASSUME NEW r \in Req, CancelTx(r) \/ ReturnTx(r), req[r].key = k PROVE FALSE
      BY <2>4, <3>2 DEF CancelTx, ReturnTx, FullInv, RequestFull, Reversing
    <3>3. \A r \in Req : ~SyncWrite(r) BY DEF SyncWrite, FullInv, RequestFull
    <3>4. PICK r \in Req : ConfirmTx(r) /\ req[r].key = k
      BY <2>1, <2>4, <3>1, <3>2, <3>3 DEF RowStep
    <3>5. group[g].sit # Absent
      BY <2>2, <3>4 DEF ConfirmTx, BooksInv, BookingRequest
    <3>6. ledger'[g].deducted = Checkout[g].pts BY <2>2, <3>4, ConfirmBooks DEF PointsSpent
    <3> QED BY <1>2, <2>2, <3>5, <3>6
  <2> QED BY <2>3, <2>4
<1>6. ASSUME NEW r \in Req PROVE BookingRequest(r)'
  <2>1. req'[r].pc # "idle" => group'[GroupOf[req'[r].key]].sit # Absent
    <3>1. HAVE req'[r].pc # "idle"
    <3>2. CASE req'[r] = req[r] BY <1>1, <1>2, <3>1, <3>2 DEF BooksInv, BookingRequest
    <3>3. CASE Continue(r)
      <4>1. req[r].pc # "idle"
        BY <3>3 DEF Continue, ConfirmTx, ConfirmTxFails, RewardRead, RewardRow, RewardSet,
           RewardFails, Enqueue, FailMark, FailRecord, CancelToss, ReturnToss, CancelTx,
           ReturnTx, ReverseTxFails, SyncWrite
      <4>2. req'[r].key = req[r].key BY <1>0, <3>1, <3>3, KeyStays
      <4> QED BY <1>1, <1>2, <4>1, <4>2 DEF BooksInv, BookingRequest
    <3>4. ASSUME NEW k \in Key, Begins(r, k) PROVE group'[GroupOf[req'[r].key]].sit # Absent
      <4>1. req'[r].key = k
        <5>1. ConfirmApproved(r, k) => req'[r].key = k
          BY <1>0, IdleReqType DEF ConfirmApproved, TypeOK, ReqRecord
        <5>2. ConfirmRefused(r, k) => req'[r].key = k
          BY <1>0, IdleReqType DEF ConfirmRefused, TypeOK, ReqRecord
        <5>3. ConfirmLost(r, k) => req'[r].key = k
          BY <1>0, IdleReqType DEF ConfirmLost, TypeOK, ReqRecord
        <5>4. CancelRead(r, k) => req'[r].key = k
          BY <1>0, IdleReqType DEF CancelRead, TypeOK, ReqRecord
        <5>5. ReturnRead(r, k) => req'[r].key = k
          BY <1>0, IdleReqType DEF ReturnRead, TypeOK, ReqRecord
        <5>6. ~SyncRead(r, k) BY <1>0 DEF SyncRead, FullRefunds
        <5> QED BY <3>4, <5>1, <5>2, <5>3, <5>4, <5>5, <5>6 DEF Begins, ConfirmToss
      <4>2. group[GroupOf[k]].sit # Absent
        <5>1. ConfirmToss(r, k) => group[GroupOf[k]].sit # Absent
          BY DEF ConfirmToss, ConfirmApproved, ConfirmRefused, ConfirmLost
        <5>2. CancelRead(r, k) \/ ReturnRead(r, k) => row[k].st = "SUCCESS"
          BY DEF CancelRead, ReturnRead
        <5>3. ~SyncRead(r, k) BY <1>0 DEF SyncRead, FullRefunds
        <5> QED BY <3>4, <5>1, <5>2, <5>3 DEF Begins, BooksInv, BookedRow
      <4>3. GroupOf[k] \in Group BY ModelAssumption
      <4> QED BY <1>2, <4>1, <4>2, <4>3
    <3>5. Crash => req'[r].pc = "idle" BY IdleReqType DEF Crash
    <3> QED BY <1>0, <3>1, <3>2, <3>3, <3>4, <3>5, OwnSteps
  <2>2. BusyMove(r) /\ BookingRequest(r) BY <1>0, BusyMoves DEF BooksInv
  <2>3. /\ req'[r].pc = "confirmTx" => req'[r].st = "SUCCESS"
        /\ req'[r].pc \in {"returnToss", "returnTx"} => req'[r].num = Amounts[req'[r].key]
    <3> DEFINE Goal == /\ req'[r].pc = "confirmTx" => req'[r].st = "SUCCESS"
                       /\ req'[r].pc \in {"returnToss", "returnTx"}
                            => req'[r].num = Amounts[req'[r].key]
    <3>1. UNCHANGED req[r] => Goal BY <2>2 DEF BookingRequest
    <3>2. req'[r].pc \notin Busy => Goal BY DEF Busy, Refunding, Reversing
    <3>3. ASSUME NEW k \in Key, ConfirmApproved(r, k) PROVE Goal
      <4>1. /\ req'[r].pc = "confirmTx"
            /\ req'[r].st = mapTossStatusToPaymentStatus(Approve(gw[k], k \in VirtualKey).st)
        BY <1>0, <3>3, IdleReqType DEF ConfirmApproved, TypeOK, ReqRecord
      <4>2. k \notin VirtualKey /\ gw[k] \in GatewayPayment BY <1>0 DEF PlainBooks, TypeOK
      <4>3. Approve(gw[k], k \in VirtualKey).st = "DONE"
        BY <4>2 DEF Approve, GatewayPayment
      <4>4. mapTossStatusToPaymentStatus("DONE") = "SUCCESS"
        BY DEF mapTossStatusToPaymentStatus
      <4>5. req'[r].st = "SUCCESS" BY <4>1, <4>3, <4>4
      <4> QED BY <4>1, <4>5
    <3>4. ASSUME NEW k \in Key, CancelRead(r, k) PROVE Goal
      <4>1. req'[r].pc = "cancelToss"
        BY <1>0, <3>4, IdleReqType DEF CancelRead, TypeOK, ReqRecord
      <4> QED BY <4>1
    <3>5. ASSUME NEW k \in Key, ReturnRead(r, k) PROVE Goal
      <4>1. /\ req'[r].pc = "returnToss" /\ req'[r].key = k
            /\ req'[r].num = group[GroupOf[k]].final
        BY <1>0, <3>5, IdleReqType DEF ReturnRead, TypeOK, ReqRecord
      <4>2. GroupOf[k] \in Group BY ModelAssumption
      <4>3. group[GroupOf[k]].final = Checkout[GroupOf[k]].amount
        BY <3>5, <4>2 DEF ReturnRead, BooksInv, BookedRow, AsAsked
      <4>4. req'[r].num = Amounts[k] BY <4>1, <4>3 DEF Amounts
      <4> QED BY <4>1, <4>4
    <3>6. ASSUME NEW k \in Key, SyncRead(r, k) PROVE FALSE
      BY <1>0, <3>6 DEF SyncRead, FullRefunds
    <3>7. ASSUME NEW a \in Int, RefundStep(r, a) PROVE Goal
      BY <2>2, <3>7 DEF RefundStep, BookingRequest, Reversing
    <3> HIDE DEF Goal
    <3>8. Goal BY <2>2, <3>1, <3>2, <3>3, <3>4, <3>5, <3>6, <3>7 DEF BusyMove
    <3> QED BY <3>8 DEF Goal
  <2> QED BY <2>1, <2>3 DEF BookingRequest, Amounts
<1>7. IsFiniteSet(Booked)' /\ BooksAgree' BY BooksAgreeNext
<1> QED BY <1>4, <1>5, <1>6, <1>7 DEF BooksInv

LEMMA BooksInit ==
    ASSUME PlainBooks
    PROVE  Init => BooksInv
<1> SUFFICES ASSUME Init PROVE BooksInv OBVIOUS
<1>1. \A g \in Group : AsAsked(g) BY DEF Init, NoGroup, NoLedger, AsAsked
<1>2. Booked = {} BY DEF Init, Booked
<1>3. \A k \in Key : BookedRow(k) BY DEF Init, BookedRow
<1>4. \A r \in Req : req[r].pc = "idle" BY IdleReqType DEF Init
<1>5. \A r \in Req : BookingRequest(r) BY <1>4 DEF BookingRequest
<1>6. IsFiniteSet(Booked) BY <1>2, FS_EmptySet
<1>7. /\ account.purchased = 0 /\ account.usedTotal = 0
      /\ \A p \in Tracked : stock.origin[p] = InitOrigin[p] /\ InitOrigin[p] \in Int
  BY ModelAssumption DEF Init
<1>8. \A f : SumFunctionOnSet(f, Booked) = 0 BY <1>2, SumEmpty
<1>9. BooksAgree BY <1>7, <1>8 DEF BooksAgree
<1> QED BY <1>1, <1>3, <1>5, <1>6, <1>9 DEF BooksInv

\* Purchases, points spent and units for sale are those of the payments that stand,
\* for any number of groups, attempts and concurrent confirmations, cancellations and
\* returns, lost answers, failing transactions and crashes: a transaction books a
\* payment once, and only the request that got the money back reverses it, once.
THEOREM BooksAgreeHolds ==
    ASSUME PlainBooks
    PROVE  Spec => []BooksAgree
<1>1. Init => BooksInv BY BooksInit
<1>2. Sound /\ FullInv /\ BooksInv /\ [Next]_vars => BooksInv' BY BooksNext
<1>3. Spec => [](Sound /\ FullInv) BY FullHolds DEF PlainBooks
<1>4. BooksInv => BooksAgree BY DEF BooksInv
<1> QED BY <1>1, <1>2, <1>3, <1>4, PTL DEF Spec

-----------------------------------------------------------------------------
(* The membership settles *)

\* A purchase that a membership job has yet to see.
Behind == {"queued", "lost", "failed"}

Awaited == \/ \E r \in Req : req[r].pc \in After
           \/ \E g \in Group : job[g].pc \in Behind

OneWorker == \A g, h \in Group : job[g].pc \in Running /\ job[h].pc \in Running => g = h

NoneCancelled == \A k \in Key : row[k].st # "CANCELLED"

\* The job at work has seen every purchase, or another job or confirmation follows.
JobSees(g) ==
    /\ job[g].pc \in {"read", "upserted"} => Awaited \/ job[g].total = account.purchased
    /\ job[g].pc = "upserted" => Awaited \/ account.member = TierOf(job[g].total)

Deserved == account.level = TierOf(account.purchased) /\ account.member = account.level

LevelInv ==
    /\ OneWorker
    /\ NoneCancelled =>
         /\ \A g \in Group : JobSees(g)
         /\ Awaited \/ Deserved \/ \E g \in Group : job[g].pc \in {"read", "upserted"}

\* What a step does to a membership job.
JobStep(g) ==
    \/ job'[g] = job[g]
    \/ job'[g].pc \in {"queued", "lost"} /\ \E r \in Req : Enqueue(r)
    \/ Work(g) /\ \A h \in Group \ {g} : job'[h] = job[h]
    \/ Crash

LEMMA JobSteps ==
    ASSUME TypeOK, [Next]_vars, NEW g \in Group
    PROVE  JobStep(g)
<1> USE DEF JobStep
<1>1. ASSUME UNCHANGED job PROVE JobStep(g) BY <1>1
<1>2. ASSUME NEW r \in Req, Enqueue(r) PROVE JobStep(g)
  <2>1. GroupOf[req[r].key] # g => job'[g] = job[g] BY <1>2 DEF Enqueue, TypeOK
  <2>2. ASSUME GroupOf[req[r].key] = g PROVE job'[g].pc \in {"queued", "lost"}
    <3>1. [NoJob EXCEPT !.pc = "queued", !.before = req[r].level].pc = "queued"
      BY NoJobType DEF JobRecord
    <3> QED BY <1>2, <2>2, <3>1 DEF Enqueue, TypeOK, JobRecord
  <2> QED BY <1>2, <2>1, <2>2
<1>3. ASSUME NEW h \in Group, Work(h) PROVE JobStep(g)
  <2>1. \A i \in Group \ {h} : job'[i] = job[i]
    BY <1>3 DEF Work, JobRead, JobUpsert, JobLevel, JobCoupons, JobDone, JobFails, TypeOK
  <2> QED BY <1>3, <2>1
<1>4. ASSUME NEW r \in Req, Continue(r), ~Enqueue(r) PROVE UNCHANGED job
  BY <1>4 DEF Continue, ConfirmTx, ConfirmTxFails, RewardRead, RewardRow, RewardSet,
     RewardFails, FailMark, FailRecord, CancelToss, ReturnToss, Refunded, RefundRefused,
     CancelTx, ReturnTx, ReverseTx, ReverseTxFails, SyncWrite
<1>5. ASSUME NEW r \in Req, NEW k \in Key, Begins(r, k) PROVE UNCHANGED job
  BY <1>5 DEF Begins, ConfirmToss, ConfirmApproved, ConfirmRefused, ConfirmLost,
     CancelRead, ReturnRead, SyncRead
<1>6. ASSUME NEW h \in Group,
             \/ Initiate(h) \/ InitiateFails(h) \/ AdminWrite(h) \/ CancelOrderGroup(h)
             \/ \E e \in Edit : AdminRead(h, e)
      PROVE  UNCHANGED job
  BY <1>6 DEF Initiate, InitiateFails, AdminWrite, CancelOrderGroup, AdminRead
<1>7. ASSUME NEW k \in Key, VirtualAccount(k) PROVE UNCHANGED job
  BY <1>7 DEF VirtualAccount
<1>8. UNCHANGED vars => UNCHANGED job BY DEF vars
<1>9. Crash => JobStep(g) OBVIOUS
<1> HIDE DEF JobStep
<1> QED BY <1>1, <1>2, <1>3, <1>4, <1>5, <1>6, <1>7, <1>8, <1>9 DEF Next, Begins

\* A purchase stays awaited until a job reads the purchases.
LEMMA AwaitedStays ==
    ASSUME TypeOK, [Next]_vars, ~Crash, \A g \in Group : ~JobRead(g), Awaited
    PROVE  Awaited'
<1>1. ASSUME NEW r \in Req, Enqueue(r) PROVE Awaited'
  <2>1. PICK g \in Group : g = GroupOf[req[r].key]
    BY ModelAssumption DEF TypeOK, ReqRecord
  <2>2. [NoJob EXCEPT !.pc = "queued", !.before = req[r].level].pc = "queued"
    BY NoJobType DEF JobRecord
  <2>3. job'[g].pc \in {"queued", "lost"}
    BY <1>1, <2>1, <2>2 DEF Enqueue, TypeOK, JobRecord
  <2> QED BY <2>3 DEF Awaited, Behind
<1>2. ASSUME NEW r \in Req, req[r].pc \in After PROVE Awaited'
  <2>1. CASE req'[r] = req[r] BY <1>2, <2>1 DEF Awaited
  <2>2. CASE Continue(r)
    <3>1. RewardRead(r) \/ RewardRow(r) \/ RewardSet(r) \/ RewardFails(r) \/ Enqueue(r)
      BY <1>2, <2>2 DEF Continue, After, ConfirmTx, ConfirmTxFails, FailMark, FailRecord,
         CancelToss, ReturnToss, CancelTx, ReturnTx, ReverseTxFails, SyncWrite
    <3>2. ASSUME RewardRead(r) PROVE req'[r].pc \in After
      <4>1. PICK pc \in {"rewardRow", "enqueue"} :
               req' = [req EXCEPT ![r].pc = pc, ![r].num = account.avail]
        BY <3>2 DEF RewardRead
      <4> QED BY <4>1 DEF After, TypeOK, ReqRecord
    <3>3. ASSUME RewardRow(r) \/ RewardSet(r) \/ RewardFails(r) PROVE req'[r].pc \in After
      <4>1. PICK pc \in {"rewardSet", "enqueue"} : Goto(r, pc)
        BY <3>3 DEF RewardRow, RewardSet, RewardFails
      <4> QED BY <4>1 DEF Goto, After, TypeOK, ReqRecord
    <3> QED BY <1>1, <3>1, <3>2, <3>3 DEF Awaited
  <2>3. \A k \in Key : ~Begins(r, k)
    BY <1>2 DEF After, Begins, ConfirmToss, ConfirmApproved, ConfirmRefused, ConfirmLost,
       CancelRead, ReturnRead, SyncRead
  <2> QED BY <2>1, <2>2, <2>3, OwnSteps
<1>3. ASSUME NEW g \in Group, job[g].pc \in Behind PROVE Awaited'
  <2>1. JobStep(g) BY JobSteps
  <2>2. ~Work(g)
    BY <1>3 DEF Behind, Work, JobRead, JobUpsert, JobLevel, JobCoupons, JobDone, JobFails
  <2>3. job'[g].pc \in Behind BY <1>3, <2>1, <2>2 DEF JobStep, Behind
  <2> QED BY <2>3 DEF Awaited
<1> QED BY <1>2, <1>3 DEF Awaited

LEMMA OneWorkerNext ==
    ASSUME TypeOK, [Next]_vars, ~Crash, OneWorker
    PROVE  OneWorker'
<1> SUFFICES ASSUME NEW g \in Group, NEW h \in Group, job'[g].pc \in Running,
                    job'[h].pc \in Running, g # h
             PROVE  FALSE
  BY DEF OneWorker
<1>1. ASSUME NEW x \in Group, job'[x].pc \in Running PROVE job[x].pc \in Running \/ JobRead(x)
  <2>1. JobStep(x) BY JobSteps
  <2>2. Work(x) => job[x].pc \in Running \/ JobRead(x)
    BY DEF Work, JobUpsert, JobLevel, JobCoupons, JobDone, JobFails, Running
  <2> QED BY <1>1, <2>1, <2>2 DEF JobStep, Running
<1>2. ASSUME NEW x \in Group, NEW y \in Group, x # y, JobRead(x), job'[y].pc \in Running
      PROVE  FALSE
  <2>1. job'[y] = job[y] BY <1>2 DEF JobRead, TypeOK
  <2>2. job[y].pc \notin Running BY <1>2 DEF JobRead
  <2> QED BY <1>2, <2>1, <2>2
<1>3. ~JobRead(g) /\ ~JobRead(h) BY <1>2
<1>4. job[g].pc \in Running /\ job[h].pc \in Running BY <1>1, <1>3
<1> QED BY <1>4 DEF OneWorker

LEMMA LevelNext ==
    ASSUME FullRefunds, MaxCrashes = 0
    PROVE  Sound /\ FullInv /\ LevelInv /\ [Next]_vars => LevelInv'
<1> SUFFICES ASSUME Sound, FullInv, LevelInv, [Next]_vars PROVE LevelInv' OBVIOUS
<1>0. TypeOK /\ ~Crash BY DEF Sound, TypeOK, Crash
<1> DEFINE Sees == \A g \in Group : JobSees(g)
           Busying == \E g \in Group : job[g].pc \in {"read", "upserted"}
           Good == Sees /\ (Awaited \/ Deserved \/ Busying)
<1>1. OneWorker' BY <1>0, OneWorkerNext DEF LevelInv
<1>2. SUFFICES ASSUME NoneCancelled' PROVE Good' BY <1>1 DEF LevelInv, JobSees
\* Nothing has been cancelled so far.
<1>3. NoneCancelled
  <2> SUFFICES ASSUME NEW k \in Key, row[k].st = "CANCELLED" PROVE FALSE BY DEF NoneCancelled
  <2>1. row'[k].st = "CANCELLED" BY PaidStays DEF Paid
  <2> QED BY <1>2, <2>1 DEF NoneCancelled
<1>4. \A r \in Req : ~CancelTx(r) /\ ~ReturnTx(r)
  <2> SUFFICES ASSUME NEW r \in Req, CancelTx(r) \/ ReturnTx(r) PROVE FALSE OBVIOUS
  <2>0. PICK k \in Key : k = req[r].key BY <1>0 DEF TypeOK, ReqRecord
  <2>1. req[r].bal = 0 BY DEF CancelTx, ReturnTx, FullInv, RequestFull, Reversing
  <2>2. row'[k].st = "CANCELLED"
    <3>1. row' = [row EXCEPT ![k] = [st |-> RefundStatus(req[r].bal), bal |-> req[r].bal]]
      BY <2>0 DEF CancelTx, ReturnTx, ReverseTx
    <3>2. row'[k].st = RefundStatus(req[r].bal) BY <1>0, <3>1 DEF TypeOK
    <3> QED BY <2>1, <3>2 DEF RefundStatus
  <2> QED BY <1>2, <2>2 DEF NoneCancelled
<1>5. (\A g \in Group : JobSees(g)) /\ (Awaited \/ Deserved \/ Busying) BY <1>3 DEF LevelInv
<1>6. Awaited' => Good' BY DEF JobSees, Awaited
\* A confirmation is followed by a job.
<1>7. ASSUME NEW r \in Req, ConfirmTx(r) PROVE Awaited'
  <2>1. req'[r].pc = "rewardRead" BY <1>0, <1>7 DEF ConfirmTx, TypeOK, ReqRecord
  <2> QED BY <2>1 DEF Awaited, After
<1>8. ASSUME NEW g \in Group, JobRead(g) PROVE Good'
  <2>1. /\ job'[g].pc = "read" /\ job'[g].total = account.purchased
        /\ UNCHANGED account
    BY <1>0, <1>8 DEF JobRead, TypeOK, JobRecord
  <2>2. \A h \in Group \ {g} : job'[h].pc \notin {"read", "upserted"}
    BY <1>1, <2>1 DEF OneWorker, Running
  <2>3. \A h \in Group : JobSees(h)' BY <2>1, <2>2 DEF JobSees
  <2>4. Busying' BY <2>1
  <2> QED BY <2>3, <2>4
<1>9. CASE /\ \A r \in Req : ~ConfirmTx(r)
           /\ \A g \in Group : ~JobRead(g)
  <2>0. CASE Awaited'  BY <1>6, <2>0
  <2>1. CASE ~Awaited'
    <3>1. ~Awaited BY <1>0, <1>9, <2>1, AwaitedStays
    <3>2. /\ account'.purchased = account.purchased
          /\ (\A g \in Group : ~JobUpsert(g) /\ ~JobLevel(g)) =>
               account'.level = account.level /\ account'.member = account.member
      BY <1>0, <1>4, <1>9, TotalsStay
    <3>3. ASSUME NEW g \in Group, JobUpsert(g) PROVE Good'
      <4>1. /\ job[g].pc = "read" /\ job'[g].pc = "upserted" /\ job'[g].total = job[g].total
            /\ account'.member = TierOf(job[g].total)
        BY <1>0, <3>3 DEF JobUpsert, TypeOK, JobRecord, AccountRecord
      <4>2. job[g].total = account.purchased BY <1>5, <3>1, <4>1 DEF JobSees
      <4>3. \A h \in Group \ {g} : job'[h].pc \notin {"read", "upserted"}
        BY <1>1, <4>1 DEF OneWorker, Running
      <4>4. \A h \in Group : JobSees(h)' BY <3>2, <4>1, <4>2, <4>3 DEF JobSees
      <4>5. Busying' BY <4>1
      <4> QED BY <4>4, <4>5
    <3>4. ASSUME NEW g \in Group, JobLevel(g) PROVE Good'
      <4>1. /\ job[g].pc = "upserted" /\ job'[g].pc = "levelled"
            /\ account'.level = TierOf(job[g].total)
            /\ account'.member = account.member
        BY <1>0, <3>4 DEF JobLevel, TypeOK, JobRecord, AccountRecord
      <4>2. job[g].total = account.purchased /\ account.member = TierOf(job[g].total)
        BY <1>5, <3>1, <4>1 DEF JobSees
      <4>3. \A h \in Group : job'[h].pc \notin {"read", "upserted"}
        BY <1>1, <4>1 DEF OneWorker, Running
      <4>4. \A h \in Group : JobSees(h)' BY <4>3 DEF JobSees
      <4>5. Deserved' BY <3>2, <4>1, <4>2 DEF Deserved
      <4> QED BY <4>4, <4>5
    <3>5. CASE \A g \in Group : ~JobUpsert(g) /\ ~JobLevel(g)
      <4>1. account'.level = account.level /\ account'.member = account.member
        BY <3>2, <3>5
      \* The jobs at work are the same, and have seen the same.
      <4>2. ASSUME NEW g \in Group
            PROVE  \/ job'[g] = job[g]
                   \/ job[g].pc \notin {"read", "upserted"} /\ job'[g].pc \notin {"read", "upserted"}
        <5>1. JobStep(g) BY <1>0, JobSteps
        <5>2. job'[g].pc \notin Behind BY <2>1 DEF Awaited
        <5>3. ASSUME JobFails(g) PROVE FALSE
          <6>1. job'[g].pc \in {"queued", "failed"}
            BY <1>0, <5>3 DEF JobFails, TypeOK, JobRecord
          <6> QED BY <5>2, <6>1 DEF Behind
        <5>4. JobCoupons(g) => job[g].pc = "levelled" /\ job'[g].pc = "issued"
          BY <1>0 DEF JobCoupons, TypeOK, JobRecord
        <5>5. JobDone(g) => job[g].pc = "issued" /\ job'[g].pc = "done"
          <6>1. [NoJob EXCEPT !.pc = "done"].pc = "done" BY NoJobType DEF JobRecord
          <6> QED BY <1>0, <6>1 DEF JobDone, TypeOK
        <5> QED BY <1>0, <1>9, <3>5, <5>1, <5>2, <5>3, <5>4, <5>5 DEF JobStep, Work, Behind
      <4>3. \A g \in Group : JobSees(g)'
        <5> SUFFICES ASSUME NEW g \in Group PROVE JobSees(g)' OBVIOUS
        <5>1. JobSees(g) BY <1>5
        <5> QED BY <3>1, <3>2, <4>1, <4>2, <5>1 DEF JobSees
      <4>4. Deserved => Deserved' BY <3>2, <4>1 DEF Deserved
      <4>5. Busying => Busying' BY <4>2
      <4> QED BY <1>5, <3>1, <4>3, <4>4, <4>5
    <3> QED BY <3>3, <3>4, <3>5
  <2> QED BY <2>0, <2>1
<1> HIDE DEF Good
<1> QED BY <1>6, <1>7, <1>8, <1>9

\* When all jobs are through, the level is the one the purchases deserve, for any
\* number of groups and concurrent confirmations, however their jobs overlap with
\* them, fail and are retried: a job that misses a purchase is followed by the job of
\* that purchase.  (Nothing cancelled; the process does not die: it would forget the
\* jobs of what it had confirmed.)
THEOREM LevelSettlesHolds ==
    ASSUME FullRefunds, MaxCrashes = 0
    PROVE  Spec => []LevelSettles
<1>1. Init => LevelInv
  <2> SUFFICES ASSUME Init PROVE LevelInv OBVIOUS
  <2>1. \A g \in Group : job[g].pc = "none" BY DEF Init, NoJob
  <2>2. OneWorker BY <2>1 DEF OneWorker, Running
  <2>3. \A g \in Group : JobSees(g) BY <2>1 DEF JobSees
  <2>4. Deserved BY DEF Init, Deserved
  <2> QED BY <2>2, <2>3, <2>4 DEF LevelInv
<1>2. Sound /\ FullInv /\ LevelInv /\ [Next]_vars => LevelInv' BY LevelNext
<1>3. LevelInv => LevelSettles
  <2> SUFFICES ASSUME LevelInv, Quiet, NoneCancelled PROVE Deserved
    BY DEF LevelSettles, NoneCancelled, Deserved
  <2>1. ~Awaited BY DEF Quiet, Awaited, After, Behind
  <2>2. \A g \in Group : job[g].pc \notin {"read", "upserted"} BY DEF Quiet
  <2> QED BY <2>1, <2>2 DEF LevelInv
<1> QED BY <1>1, <1>2, <1>3, FullHolds, PTL DEF Spec
=============================================================================
