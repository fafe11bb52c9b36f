------------------------ MODULE OrderPayment_proofs ------------------------
(* What holds of OrderPayment for every value of its constants. *)
EXTENDS OrderPayment, FiniteSetTheorems, TLAPS

-----------------------------------------------------------------------------
(* Lemmas about the helpers *)

\* The ladder gives a tier for every amount.
LEMMA TierOfType == \A amount \in Int : TierOf(amount) \in Level
<1> TAKE amount \in Int
<1>1. CASE Reached(amount) # {}
  <2>1. Reached(amount) \in SUBSET Level BY DEF Reached
  <2>2. PICK l \in Reached(amount) : \A m \in Reached(amount) : MinPrice[m] =< MinPrice[l]
    BY <1>1, <2>1, TierAssumption
  <2>3. Dearest(Reached(amount)) \in Reached(amount) BY <2>2 DEF Dearest
  <2> QED BY <1>1, <2>1, <2>3 DEF TierOf
<1>2. CASE Reached(amount) = {}
  <2>1. PICK l \in Level : \A m \in Level : MinPrice[l] =< MinPrice[m]
    BY TierAssumption
  <2>2. Cheapest(Level) \in Level BY <2>1 DEF Cheapest
  <2> QED BY <1>2, <2>2 DEF TierOf
<1> QED BY <1>1, <1>2

\* A reward is a number of points.
LEMMA RewardType == \A l \in Level, amount \in Nat : Reward(l, amount) \in Nat
<1> TAKE l \in Level, amount \in Nat
<1>1. Rate[l] \in Nat BY TierAssumption
<1>2. amount * Rate[l] \in Nat BY <1>1
<1> DEFINE n == amount * Rate[l]
<1>3. n \in Nat => n \div 1000 \in Nat OBVIOUS
<1> QED BY <1>2, <1>3 DEF Reward

\* The coupons of a group are counted.
LEMMA CouponsOfType == \A g \in Group : CouponsOf(g) \in Nat
<1> TAKE g \in Group
<1>1. IsFiniteSet(Ordered(g)) BY ModelAssumption, FS_Subset DEF Ordered
<1>2. Cardinality(Ordered(g)) \in Nat BY <1>1, FS_CardinalityType
<1> QED BY <1>2 DEF CouponsOf

\* A free slot has the type of a slot.
LEMMA IdleReqType == IdleReq \in ReqRecord /\ IdleReq.pc = "idle"
<1>1. (CHOOSE k \in Key : TRUE) \in Key BY ModelAssumption
<1>2. (CHOOSE l \in Level : TRUE) \in Level BY TierAssumption
<1> QED BY <1>1, <1>2 DEF IdleReq, ReqRecord, Pc, RowStatus

LEMMA NoJobType == NoJob \in JobRecord
<1>1. (CHOOSE l \in Level : TRUE) \in Level BY TierAssumption
<1> QED BY <1>1 DEF NoJob, JobRecord, JobPc, JobAttempts

\* The fields of a checkout.
LEMMA CheckoutType ==
    \A g \in Group : /\ Checkout[g].amount \in Nat \ {0}
                     /\ Checkout[g].fee \in Nat /\ Checkout[g].pts \in Nat
                     /\ Checkout[g].qty \in [Product -> Nat]
                     /\ Checkout[g].coupon \in BOOLEAN
BY ModelAssumption

\* The reward of a request is a number of points.
LEMMA RewardOfType ==
    ASSUME TypeOK, NEW r \in Req
    PROVE  RewardOf(r) \in Nat
<1>1. req[r].level \in Level /\ GroupOf[req[r].key] \in Group
  BY ModelAssumption DEF TypeOK, ReqRecord
<1>2. Checkout[GroupOf[req[r].key]].amount \in Nat BY <1>1, CheckoutType
<1> QED BY <1>1, <1>2, RewardType DEF RewardOf

\* Moving a request on, ending it, and starting one, keep the slots well typed.
LEMMA GotoType ==
    ASSUME TypeOK, NEW r \in Req, NEW pc \in Pc, Goto(r, pc)
    PROVE  req' \in [Req -> ReqRecord]
BY DEF TypeOK, ReqRecord, Goto

LEMMA FinishType ==
    ASSUME TypeOK, NEW r \in Req, Finish(r)
    PROVE  req' \in [Req -> ReqRecord]
BY IdleReqType DEF TypeOK, Finish

LEMMA StartType ==
    ASSUME TypeOK, NEW r \in Req, NEW q \in ReqRecord, req' = [req EXCEPT ![r] = q]
    PROVE  req' \in [Req -> ReqRecord]
BY DEF TypeOK

\* Every gateway status has a row status.
LEMMA StatusType ==
    \A st \in GatewayStatus : mapTossStatusToPaymentStatus(st) \in RowStatus \ {"NONE"}
BY DEF GatewayStatus, RowStatus, mapTossStatusToPaymentStatus

\* What the gateway does to a payment leaves it a payment.
LEMMA GatewayType ==
    \A p \in GatewayPayment :
      /\ \A k : Approve(p, k \in VirtualKey) \in GatewayPayment
      /\ \A a \in Int : Refundable(p, a) => /\ Refund(p, a) \in GatewayPayment
                                            /\ Refund(p, a).bal < p.bal
BY DEF GatewayPayment, GatewayStatus, Approve, Refundable, Refund

-----------------------------------------------------------------------------
(* Type correctness *)

LEMMA TypeInit == Init => TypeOK
<1> SUFFICES ASSUME Init PROVE TypeOK OBVIOUS
<1>1. TierOf(0) \in Level BY TierOfType
<1>2. group \in [Group -> GroupRecord] BY DEF Init, NoGroup, GroupRecord
<1>3. row \in [Key -> RowRecord] BY DEF Init, RowRecord, RowStatus
<1>4. gw \in [Key -> GatewayPayment]
  BY ModelAssumption, CheckoutType DEF Init, GatewayPayment, GatewayStatus
<1>5. /\ stock \in StockRecord
      /\ cart \subseteq Product
      /\ crashes \in Nat
  BY ModelAssumption DEF Init, StockRecord
<1>6. account \in AccountRecord BY <1>1, ModelAssumption DEF Init, AccountRecord
<1>7. ledger \in [Group -> LedgerRecord] BY DEF Init, NoLedger, LedgerRecord
<1>8. job \in [Group -> JobRecord] BY NoJobType DEF Init
<1>9. req \in [Req -> ReqRecord] BY IdleReqType DEF Init
<1>10. adm \in [Group -> Edit \cup {Absent}] BY DEF Init
<1> QED BY <1>2, <1>3, <1>4, <1>5, <1>6, <1>7, <1>8, <1>9, <1>10 DEF TypeOK

\* The reversal of a purchase keeps every record well typed.
LEMMA ReverseType ==
    ASSUME TypeOK, NEW r \in Req, NEW situation \in Situation, NEW final \in Int,
           ReverseTx(r, situation, final)
    PROVE  TypeOK'
<1> DEFINE k == req[r].key
           g == GroupOf[k]
<1>1. k \in Key /\ g \in Group /\ req[r].bal \in Nat
  BY ModelAssumption DEF TypeOK, ReqRecord
<1>2. ledger[g].deducted \in Nat /\ ledger[g].earned \in Nat
  BY <1>1 DEF TypeOK, LedgerRecord
<1>3. /\ account.purchased - final \in Int /\ account.coupons \in Nat
      /\ account.avail \in Int /\ account.usedTotal \in Int
  BY DEF TypeOK, AccountRecord
<1>4. TierOf(account.purchased - final) \in Level BY <1>3, TierOfType
<1>5. stock' \in StockRecord
  <2>1. \A p \in Product : /\ stock.origin[p] \in Int /\ stock.qty[p] \in Int
                           /\ Checkout[g].qty[p] \in Int
    BY <1>1, CheckoutType DEF TypeOK, StockRecord
  <2> DEFINE origin == [p \in Product |->
                 IF p \in Tracked THEN stock.origin[p] + Checkout[g].qty[p]
                                  ELSE stock.origin[p]]
             qty == [p \in Product |-> stock.qty[p] + Checkout[g].qty[p]]
  <2>2. stock' = [origin |-> origin, qty |-> qty] BY DEF ReverseTx
  <2>3. origin \in [Product -> Int] /\ qty \in [Product -> Int] BY <2>1
  <2> HIDE DEF origin, qty
  <2> QED BY <2>2, <2>3 DEF StockRecord
<1>6. row' \in [Key -> RowRecord]
  BY <1>1 DEF ReverseTx, RefundStatus, TypeOK, RowRecord, RowStatus
<1>7. group' \in [Group -> GroupRecord]
  BY <1>1 DEF ReverseTx, TypeOK, GroupRecord
<1>8. account' \in AccountRecord
  <2>1. /\ account.avail + ledger[g].deducted - ledger[g].earned \in Int
        /\ account.usedTotal - ledger[g].deducted \in Int
    BY <1>2, <1>3
  <2>2. account' = [account EXCEPT
           !.avail = account.avail + ledger[g].deducted - ledger[g].earned,
           !.usedTotal = account.usedTotal - ledger[g].deducted,
           !.purchased = account.purchased - final,
           !.level = TierOf(account.purchased - final),
           !.member = TierOf(account.purchased - final)]
    BY DEF ReverseTx
  <2> QED BY <1>3, <1>4, <2>1, <2>2 DEF TypeOK, AccountRecord
<1>9. ledger' \in [Group -> LedgerRecord]
  BY <1>1 DEF ReverseTx, TypeOK, LedgerRecord
<1>10. req' \in [Req -> ReqRecord] BY FinishType DEF ReverseTx
<1> QED BY <1>5, <1>6, <1>7, <1>8, <1>9, <1>10 DEF ReverseTx, TypeOK

\* So does the answer of Toss to a refund.
LEMMA RefundType ==
    ASSUME TypeOK, NEW r \in Req, NEW amount \in Int, NEW next \in Pc,
           Refunded(r, amount, next) \/ RefundRefused(r, amount)
    PROVE  TypeOK'
<1> DEFINE k == req[r].key
<1>1. k \in Key BY DEF TypeOK, ReqRecord
<1>2. gw[k] \in GatewayPayment BY <1>1 DEF TypeOK
<1>3. CASE Refunded(r, amount, next)
  <2>1. Refund(gw[k], amount) \in GatewayPayment
    BY <1>2, <1>3, GatewayType DEF Refunded
  <2>2. gw' \in [Key -> GatewayPayment] BY <1>3, <2>1 DEF Refunded, TypeOK
  <2>3. Refund(gw[k], amount).bal \in Nat BY <2>1 DEF GatewayPayment
  <2>4. CASE req' = [req EXCEPT ![r].pc = next, ![r].bal = Refund(gw[k], amount).bal]
    <3>1. req' \in [Req -> ReqRecord] BY <2>3, <2>4 DEF TypeOK, ReqRecord
    <3> QED BY <1>3, <2>2, <3>1 DEF Refunded, TypeOK
  <2>5. CASE Finish(r)
    <3>1. req' \in [Req -> ReqRecord] BY <2>5, FinishType
    <3> QED BY <1>3, <2>2, <3>1 DEF Refunded, TypeOK
  <2> QED BY <1>3, <2>4, <2>5 DEF Refunded
<1>4. CASE RefundRefused(r, amount)
  <2>1. req' \in [Req -> ReqRecord] BY <1>4, FinishType DEF RefundRefused
  <2> QED BY <1>4, <2>1 DEF RefundRefused, TypeOK
<1> QED BY <1>3, <1>4

LEMMA TypeNext == TypeOK /\ [Next]_vars => TypeOK'
<1> SUFFICES ASSUME TypeOK, [Next]_vars PROVE TypeOK' OBVIOUS
<1>0. \A r \in Req : /\ req[r].key \in Key /\ req[r].bal \in Nat /\ req[r].st \in RowStatus
                     /\ req[r].num \in Int /\ GroupOf[req[r].key] \in Group
  BY ModelAssumption DEF TypeOK, ReqRecord
<1>1. ASSUME NEW g \in Group, Initiate(g) PROVE TypeOK'
  <2>1. group' \in [Group -> GroupRecord]
    BY <1>1, CheckoutType DEF Initiate, TypeOK, GroupRecord, Situation
  <2> QED BY <1>1, <2>1 DEF Initiate, TypeOK
<1>2. ASSUME NEW g \in Group, InitiateFails(g) PROVE TypeOK'
  <2>1. cart' \subseteq Product
    BY <1>2 DEF InitiateFails, CartsWithout, TypeOK
  <2> QED BY <1>2, <2>1 DEF InitiateFails, TypeOK
<1>3. ASSUME NEW r \in Req, NEW k \in Key, ConfirmApproved(r, k) PROVE TypeOK'
  <2>1. gw[k] \in GatewayPayment /\ Approve(gw[k], k \in VirtualKey) \in GatewayPayment
    BY GatewayType DEF TypeOK
  <2>2. gw' \in [Key -> GatewayPayment]
    BY <1>3, <2>1 DEF ConfirmApproved, TypeOK
  <2>3. req' \in [Req -> ReqRecord]
    BY <1>3, <2>1, IdleReqType, StatusType DEF ConfirmApproved, TypeOK, ReqRecord, Pc, GatewayPayment
  <2> QED BY <1>3, <2>2, <2>3 DEF ConfirmApproved, TypeOK
<1>4. ASSUME NEW r \in Req, NEW k \in Key, ConfirmRefused(r, k) PROVE TypeOK'
  <2>1. gw' \in [Key -> GatewayPayment]
    BY <1>4 DEF ConfirmRefused, TypeOK, GatewayPayment, GatewayStatus
  <2>2. req' \in [Req -> ReqRecord]
    BY <1>4, IdleReqType DEF ConfirmRefused, TypeOK, ReqRecord, Pc
  <2> QED BY <1>4, <2>1, <2>2 DEF ConfirmRefused, TypeOK
<1>5. ASSUME NEW r \in Req, NEW k \in Key, ConfirmLost(r, k) PROVE TypeOK'
  <2>1. gw' \in [Key -> GatewayPayment]
    BY <1>5, GatewayType DEF ConfirmLost, TypeOK
  <2>2. req' \in [Req -> ReqRecord]
    BY <1>5, IdleReqType DEF ConfirmLost, TypeOK, ReqRecord, Pc
  <2> QED BY <1>5, <2>1, <2>2 DEF ConfirmLost, TypeOK
<1>6. ASSUME NEW r \in Req, NEW k \in Key, CancelRead(r, k) PROVE TypeOK'
  <2>1. req' \in [Req -> ReqRecord]
    BY <1>6, IdleReqType DEF CancelRead, TypeOK, ReqRecord, Pc
  <2> QED BY <1>6, <2>1 DEF CancelRead, TypeOK
<1>7. ASSUME NEW r \in Req, NEW k \in Key, ReturnRead(r, k) PROVE TypeOK'
  <2>1. row[k].bal - group[GroupOf[k]].fee \in Int /\ group[GroupOf[k]].final \in Nat
    BY ModelAssumption DEF TypeOK, RowRecord, GroupRecord
  <2>2. row[k].bal - group[GroupOf[k]].fee \in Nat BY <1>7, <2>1 DEF ReturnRead
  <2> DEFINE refund == row[k].bal - group[GroupOf[k]].fee
             final == group[GroupOf[k]].final
             q == [IdleReq EXCEPT !.pc = "returnToss", !.key = k,
                                  !.bal = refund, !.num = final]
  <2>3. q \in ReqRecord
    <3>1. refund \in Nat /\ final \in Int BY <2>1, <2>2
    <3>2. "returnToss" \in Pc BY DEF Pc
    <3> HIDE DEF refund, final
    <3> QED BY <3>1, <3>2, IdleReqType DEF ReqRecord
  <2>4. req' \in [Req -> ReqRecord] BY <1>7, <2>3, StartType DEF ReturnRead
  <2> QED BY <1>7, <2>4 DEF ReturnRead, TypeOK
<1>8. ASSUME NEW r \in Req, NEW k \in Key, SyncRead(r, k) PROVE TypeOK'
  <2>1. gw[k].st \in GatewayStatus /\ gw[k].bal \in Nat
    BY DEF TypeOK, GatewayPayment
  <2>2. req' \in [Req -> ReqRecord]
    BY <1>8, <2>1, IdleReqType, StatusType DEF SyncRead, TypeOK, ReqRecord, Pc
  <2> QED BY <1>8, <2>2 DEF SyncRead, TypeOK
<1>9. ASSUME NEW r \in Req, ConfirmTx(r) PROVE TypeOK'
  <2> DEFINE k == req[r].key
  <2> DEFINE g == GroupOf[k]
  <2>1. k \in Key /\ g \in Group /\ CouponsOf(g) \in Nat
    BY <1>0, CouponsOfType
  <2>2. group[g].pts \in Nat /\ group[g].final \in Nat
    BY <2>1 DEF TypeOK, GroupRecord
  <2>3. cart' \subseteq Product
    BY <1>9 DEF ConfirmTx, TypeOK
  <2>4. ledger' \in [Group -> LedgerRecord]
    <3>1. ledger[g].used \in Nat /\ ledger[g].deducted \in Nat
      BY <2>1 DEF TypeOK, LedgerRecord
    <3>2. /\ ledger[g].used + CouponsOf(g) \in Nat
          /\ ledger[g].deducted + group[g].pts \in Nat
      BY <2>1, <2>2, <3>1
    <3> QED BY <1>9, <2>1, <3>2 DEF ConfirmTx, TypeOK, LedgerRecord
  <2>5. account' \in AccountRecord
    <3> DEFINE n == CouponsOf(g)
    <3>1. /\ account.avail \in Int /\ account.usedTotal \in Int
          /\ account.purchased \in Int /\ account.coupons \in Nat
      BY DEF TypeOK, AccountRecord
    <3>2. (IF n =< account.coupons THEN account.coupons - n ELSE 0) \in Nat
      BY <2>1, <3>1
    <3>3. /\ account.avail - group[g].pts \in Int
          /\ account.usedTotal + group[g].pts \in Int
          /\ account.purchased + group[g].final \in Int
      BY <2>2, <3>1
    <3>4. account' = [account EXCEPT
             !.coupons = IF n =< account.coupons THEN account.coupons - n ELSE 0,
             !.avail = account.avail - group[g].pts,
             !.usedTotal = account.usedTotal + group[g].pts,
             !.purchased = account.purchased + group[g].final]
      BY <1>9 DEF ConfirmTx
    <3> QED BY <3>2, <3>3, <3>4 DEF TypeOK, AccountRecord
  <2>6. row' \in [Key -> RowRecord]
    BY <1>9, <1>0 DEF ConfirmTx, TypeOK, RowRecord
  <2>7. group' \in [Group -> GroupRecord]
    BY <1>9, <2>1 DEF ConfirmTx, TypeOK, GroupRecord, Situation
  <2>8. stock' \in StockRecord
    <3> DEFINE origin == [p \in Product |->
                   IF p \in Tracked THEN stock.origin[p] - Checkout[g].qty[p]
                                    ELSE stock.origin[p]]
    <3>1. \A p \in Product : stock.origin[p] \in Int /\ Checkout[g].qty[p] \in Int
      BY <2>1, CheckoutType DEF TypeOK, StockRecord
    <3>2. origin \in [Product -> Int] BY <3>1
    <3>3. stock' = [stock EXCEPT !.origin = origin] BY <1>9 DEF ConfirmTx
    <3> HIDE DEF origin
    <3> QED BY <3>2, <3>3 DEF TypeOK, StockRecord
  <2>9. req' \in [Req -> ReqRecord]
    <3>1. account.level \in Level BY DEF TypeOK, AccountRecord
    <3>2. "rewardRead" \in Pc BY DEF Pc
    <3>3. [req[r] EXCEPT !.pc = "rewardRead", !.level = account.level] \in ReqRecord
      BY <3>1, <3>2 DEF TypeOK, ReqRecord
    <3>4. req' = [req EXCEPT ![r] =
             [req[r] EXCEPT !.pc = "rewardRead", !.level = account.level]]
      BY <1>9 DEF ConfirmTx, TypeOK
    <3> QED BY <3>3, <3>4, StartType
  <2> QED BY <1>9, <2>3, <2>4, <2>5, <2>6, <2>7, <2>8, <2>9 DEF ConfirmTx, TypeOK
<1>10. ASSUME NEW r \in Req, ConfirmTxFails(r) PROVE TypeOK'
  <2>1. req' \in [Req -> ReqRecord]
    BY <1>10, GotoType DEF ConfirmTxFails, Pc
  <2> QED BY <1>10, <2>1 DEF ConfirmTxFails, TypeOK
<1>11. ASSUME NEW r \in Req, RewardRead(r) PROVE TypeOK'
  <2>1. req' \in [Req -> ReqRecord]
    <3>1. account.avail \in Int BY DEF TypeOK, AccountRecord
    <3>2. (IF RewardOf(r) > 0 THEN "rewardRow" ELSE "enqueue") \in Pc BY DEF Pc
    <3> DEFINE pc == IF RewardOf(r) > 0 THEN "rewardRow" ELSE "enqueue"
               q == [req[r] EXCEPT !.pc = pc, !.num = account.avail]
    <3> HIDE DEF pc
    <3>3. pc \in Pc BY <3>2 DEF pc
    <3>4. q \in ReqRecord BY <3>1, <3>3 DEF TypeOK, ReqRecord
    <3>5. req' = [req EXCEPT ![r] = q] BY <1>11 DEF RewardRead, TypeOK, pc
    <3> QED BY <3>4, <3>5, StartType
  <2> QED BY <1>11, <2>1 DEF RewardRead, TypeOK
<1>12. ASSUME NEW r \in Req, RewardRow(r) PROVE TypeOK'
  <2>1. ledger' \in [Group -> LedgerRecord]
    BY <1>12, <1>0, RewardOfType DEF RewardRow, TypeOK, LedgerRecord
  <2>2. req' \in [Req -> ReqRecord]
    BY <1>12, GotoType DEF RewardRow, Pc
  <2> QED BY <1>12, <2>1, <2>2 DEF RewardRow, TypeOK
<1>13. ASSUME NEW r \in Req, RewardSet(r) PROVE TypeOK'
  <2>1. account' \in AccountRecord
    BY <1>13, <1>0, RewardOfType DEF RewardSet, TypeOK, AccountRecord
  <2>2. req' \in [Req -> ReqRecord]
    BY <1>13, GotoType DEF RewardSet, Pc
  <2> QED BY <1>13, <2>1, <2>2 DEF RewardSet, TypeOK
<1>14. ASSUME NEW r \in Req, RewardFails(r) PROVE TypeOK'
  <2>1. req' \in [Req -> ReqRecord]
    BY <1>14, GotoType DEF RewardFails, Pc
  <2> QED BY <1>14, <2>1 DEF RewardFails, TypeOK
<1>15. ASSUME NEW r \in Req, Enqueue(r) PROVE TypeOK'
  <2>1. req[r].level \in Level
    BY DEF TypeOK, ReqRecord
  <2>2. job' \in [Group -> JobRecord]
    <3> DEFINE h == GroupOf[req[r].key]
               queued == [NoJob EXCEPT !.pc = "queued", !.before = req[r].level]
    <3>1. queued \in JobRecord BY <2>1, NoJobType DEF JobRecord, JobPc
    <3>2. CASE job' = [job EXCEPT ![h] = queued] BY <3>1, <3>2 DEF TypeOK
    <3>3. CASE job' = [job EXCEPT ![h].pc = "lost"]
      BY <3>3 DEF TypeOK, JobRecord, JobPc
    <3> QED BY <1>15, <3>2, <3>3 DEF Enqueue
  <2>3. req' \in [Req -> ReqRecord]
    BY <1>15, FinishType DEF Enqueue
  <2> QED BY <1>15, <2>2, <2>3 DEF Enqueue, TypeOK
<1>16. ASSUME NEW r \in Req, FailMark(r) PROVE TypeOK'
  <2>1. cart' \subseteq Product
    BY <1>16 DEF FailMark, CartsWithout, TypeOK
  <2>2. group' \in [Group -> GroupRecord]
    BY <1>16, <1>0 DEF FailMark, TypeOK, GroupRecord, Situation
  <2>3. req' \in [Req -> ReqRecord]
    BY <1>16, GotoType DEF FailMark, Pc
  <2> QED BY <1>16, <2>1, <2>2, <2>3 DEF FailMark, TypeOK
<1>17. ASSUME NEW r \in Req, FailRecord(r) PROVE TypeOK'
  <2>1. row' \in [Key -> RowRecord]
    BY <1>17 DEF FailRecord, TypeOK, RowRecord, RowStatus
  <2>2. req' \in [Req -> ReqRecord]
    BY <1>17, FinishType DEF FailRecord
  <2> QED BY <1>17, <2>1, <2>2 DEF FailRecord, TypeOK
<1>18. ASSUME NEW r \in Req, CancelToss(r) PROVE TypeOK'
  <2>1. PICK amount \in PartialAmount \cup {gw[req[r].key].bal} :
           Refunded(r, amount, "cancelTx") \/ RefundRefused(r, amount)
    BY <1>18 DEF CancelToss
  <2>2. amount \in Int BY <1>0, ModelAssumption DEF TypeOK, GatewayPayment
  <2> QED BY <2>1, <2>2, RefundType DEF Pc
<1>19. ASSUME NEW r \in Req, ReturnToss(r) PROVE TypeOK'
  BY <1>0, <1>19, RefundType DEF ReturnToss, Pc
<1>20. ASSUME NEW r \in Req, CancelTx(r) PROVE TypeOK'
  <2>1. group[GroupOf[req[r].key]].final \in Int /\ "CANCELLED" \in Situation
    BY <1>0 DEF TypeOK, GroupRecord, Situation
  <2> QED BY <1>20, <2>1, ReverseType DEF CancelTx
<1>21. ASSUME NEW r \in Req, ReturnTx(r) PROVE TypeOK'
  <2>1. req[r].num \in Int /\ "RETURNED" \in Situation
    BY <1>0 DEF Situation
  <2> QED BY <1>21, <2>1, ReverseType DEF ReturnTx
<1>22. ASSUME NEW r \in Req, ReverseTxFails(r) PROVE TypeOK'
  <2>1. req' \in [Req -> ReqRecord]
    BY <1>22, FinishType DEF ReverseTxFails
  <2> QED BY <1>22, <2>1 DEF ReverseTxFails, TypeOK
<1>23. ASSUME NEW r \in Req, SyncWrite(r) PROVE TypeOK'
  <2>1. row' \in [Key -> RowRecord]
    BY <1>23, <1>0 DEF SyncWrite, TypeOK, RowRecord
  <2>2. req' \in [Req -> ReqRecord]
    BY <1>23, FinishType DEF SyncWrite
  <2> QED BY <1>23, <2>1, <2>2 DEF SyncWrite, TypeOK
<1>24. ASSUME NEW g \in Group, NEW e \in Edit, AdminRead(g, e) PROVE TypeOK'
  <2>1. adm' \in [Group -> Edit \cup {Absent}]
    BY <1>24 DEF AdminRead, TypeOK
  <2> QED BY <1>24, <2>1 DEF AdminRead, TypeOK
<1>25. ASSUME NEW g \in Group, AdminWrite(g) PROVE TypeOK'
  <2>1. adm[g] \in Edit
    BY <1>25 DEF AdminWrite, TypeOK
  <2>2. adm[g] \in [sit : Situation \cup {Absent}, final : Nat \cup {Absent}, fee : Nat \cup {Absent}, pts : Nat \cup {Absent}, waybill : BOOLEAN]
    BY <2>1, ModelAssumption
  <2> DEFINE e == adm[g]
             edited == [sit     |-> Given(AskedSituation(e), group[g].sit),
                        final   |-> Given(e.final, group[g].final),
                        fee     |-> Given(e.fee, group[g].fee),
                        pts     |-> Given(e.pts, group[g].pts),
                        waybill |-> group[g].waybill \/ e.waybill]
  <2>3. group' \in [Group -> GroupRecord]
    <3>1. group[g] \in GroupRecord BY DEF TypeOK
    <3>2. /\ Given(e.final, group[g].final) \in Nat
          /\ Given(e.fee, group[g].fee) \in Nat
          /\ Given(e.pts, group[g].pts) \in Nat
      BY <2>2, <3>1 DEF Given, GroupRecord
    <3>3. AskedSituation(e) \in Situation \cup {Absent}
      BY <2>2 DEF AskedSituation, Situation
    <3>4. Given(AskedSituation(e), group[g].sit) \in Situation \cup {Absent}
      BY <3>1, <3>3 DEF Given, GroupRecord
    <3>5. edited \in GroupRecord BY <2>2, <3>1, <3>2, <3>4 DEF GroupRecord
    <3>6. group' = [group EXCEPT ![g] = edited] BY <1>25 DEF AdminWrite, TypeOK
    <3> HIDE DEF edited
    <3> QED BY <3>5, <3>6 DEF TypeOK
  <2>4. adm' \in [Group -> Edit \cup {Absent}]
    BY <1>25 DEF AdminWrite, TypeOK
  <2> QED BY <1>25, <2>3, <2>4 DEF AdminWrite, TypeOK
<1>26. ASSUME NEW g \in Group, CancelOrderGroup(g) PROVE TypeOK'
  <2>1. group' \in [Group -> GroupRecord]
    BY <1>26 DEF CancelOrderGroup, TypeOK, GroupRecord, Situation
  <2> QED BY <1>26, <2>1 DEF CancelOrderGroup, TypeOK
<1>27. ASSUME NEW g \in Group, JobRead(g) PROVE TypeOK'
  <2>1. job' \in [Group -> JobRecord]
    <3> DEFINE started == [job[g] EXCEPT !.pc = "read", !.total = account.purchased]
    <3>1. job[g] \in JobRecord /\ account.purchased \in Int
      BY DEF TypeOK, AccountRecord
    <3>2. started \in JobRecord BY <3>1 DEF JobRecord, JobPc, Running
    <3>3. job' = [job EXCEPT ![g] = started] BY <1>27 DEF JobRead, TypeOK
    <3> HIDE DEF started
    <3> QED BY <3>2, <3>3 DEF TypeOK
  <2> QED BY <1>27, <2>1 DEF JobRead, TypeOK
<1>28. ASSUME NEW g \in Group, JobUpsert(g) PROVE TypeOK'
  <2>1. TierOf(job[g].total) \in Level
    BY TierOfType DEF TypeOK, JobRecord
  <2>2. account' \in AccountRecord
    BY <1>28, <2>1 DEF JobUpsert, TypeOK, AccountRecord
  <2>3. job' \in [Group -> JobRecord]
    BY <1>28 DEF JobUpsert, TypeOK, JobRecord, JobPc, Running
  <2> QED BY <1>28, <2>2, <2>3 DEF JobUpsert, TypeOK
<1>29. ASSUME NEW g \in Group, JobLevel(g) PROVE TypeOK'
  <2>1. TierOf(job[g].total) \in Level
    BY TierOfType DEF TypeOK, JobRecord
  <2>2. account' \in AccountRecord
    BY <1>29, <2>1 DEF JobLevel, TypeOK, AccountRecord
  <2>3. job' \in [Group -> JobRecord]
    BY <1>29 DEF JobLevel, TypeOK, JobRecord, JobPc, Running
  <2> QED BY <1>29, <2>2, <2>3 DEF JobLevel, TypeOK
<1>30. ASSUME NEW g \in Group, JobCoupons(g) PROVE TypeOK'
  <2>1. ledger' \in [Group -> LedgerRecord]
    BY <1>30 DEF JobCoupons, TypeOK, LedgerRecord
  <2>2. job' \in [Group -> JobRecord]
    BY <1>30 DEF JobCoupons, TypeOK, JobRecord, JobPc, Running
  <2> QED BY <1>30, <2>1, <2>2 DEF JobCoupons, TypeOK
<1>31. ASSUME NEW g \in Group, JobDone(g) PROVE TypeOK'
  <2>1. job' \in [Group -> JobRecord]
    BY <1>31, NoJobType DEF JobDone, TypeOK, JobRecord, JobPc
  <2> QED BY <1>31, <2>1 DEF JobDone, TypeOK
<1>32. ASSUME NEW g \in Group, JobFails(g) PROVE TypeOK'
  <2>1. job[g].left \in 0..3
    BY DEF TypeOK, JobRecord, JobAttempts
  <2>2. job' \in [Group -> JobRecord]
    BY <1>32, <2>1 DEF JobFails, TypeOK, JobRecord, JobPc, JobAttempts
  <2> QED BY <1>32, <2>2 DEF JobFails, TypeOK
<1>33. ASSUME NEW k \in Key, VirtualAccount(k) PROVE TypeOK'
  <2>1. gw' \in [Key -> GatewayPayment]
    BY <1>33 DEF VirtualAccount, TypeOK, GatewayPayment, GatewayStatus
  <2> QED BY <1>33, <2>1 DEF VirtualAccount, TypeOK
<1>34. ASSUME Crash PROVE TypeOK'
  <2>1. req' \in [Req -> ReqRecord]
    BY <1>34, IdleReqType DEF Crash
  <2>2. adm' \in [Group -> Edit \cup {Absent}]
    BY <1>34 DEF Crash
  <2>3. job' \in [Group -> JobRecord]
    BY <1>34 DEF Crash, TypeOK, JobRecord, JobPc
  <2> QED BY <1>34, <2>1, <2>2, <2>3 DEF Crash, TypeOK
<1>35. CASE UNCHANGED vars BY <1>35 DEF vars, TypeOK
<1> QED
  BY <1>1, <1>2, <1>3, <1>4, <1>5, <1>6, <1>7, <1>8, <1>9, <1>10, <1>11,
     <1>12, <1>13, <1>14, <1>15, <1>16, <1>17, <1>18, <1>19, <1>20, <1>21,
     <1>22, <1>23, <1>24, <1>25, <1>26, <1>27, <1>28, <1>29, <1>30, <1>31,
     <1>32, <1>33, <1>34, <1>35
  DEF Next, ConfirmToss, Continue, Work

\* Every reachable state has the declared shape, whatever the constants.
THEOREM TypeCorrect == Spec => []TypeOK
BY TypeInit, TypeNext, PTL DEF Spec

-----------------------------------------------------------------------------
(* The books never run ahead of Toss *)

\* How one payment may move at Toss.
Forward(p, q) == /\ q.bal =< p.bal
                 /\ MoneyTaken(p) => MoneyTaken(q)
                 /\ p.st = "CANCELED" => q.st = "CANCELED"
                 /\ (p.st = "CANCELED" <=> p.bal = 0) => (q.st = "CANCELED" <=> q.bal = 0)

LEMMA ForwardStay == \A p \in GatewayPayment : Forward(p, p)
BY DEF Forward, GatewayPayment

LEMMA ForwardConfirm ==
    ASSUME NEW p \in GatewayPayment, p.st = "READY", NEW k
    PROVE  /\ Forward(p, Approve(p, k \in VirtualKey))
           /\ Forward(p, [p EXCEPT !.st = "ABORTED"])
BY DEF Forward, GatewayPayment, MoneyTaken, Approve

LEMMA ForwardDeposit ==
    ASSUME NEW p \in GatewayPayment, p.st = "WAITING_FOR_DEPOSIT",
           NEW st \in {"DONE", "EXPIRED"}
    PROVE  Forward(p, [p EXCEPT !.st = st])
BY DEF Forward, GatewayPayment, MoneyTaken

LEMMA ForwardRefund ==
    ASSUME NEW p \in GatewayPayment, NEW a \in Int, Refundable(p, a)
    PROVE  Forward(p, Refund(p, a))
BY DEF Forward, GatewayPayment, MoneyTaken, Refundable, Refund

\* What was not ahead stays so, however late it is used.
LEMMA NotAheadStays ==
    ASSUME NEW p \in GatewayPayment, NEW q \in GatewayPayment, Forward(p, q),
           NEW st, NEW bal \in Nat, NotAhead(p, st, bal)
    PROVE  NotAhead(q, st, bal)
BY DEF Forward, NotAhead, GatewayPayment

\* The amount of a cancellation is an integer.
LEMMA CancelAmountType ==
    TypeOK => \A r \in Req : \A amount \in PartialAmount \cup {gw[req[r].key].bal} :
                 amount \in Int
<1> SUFFICES ASSUME TypeOK, NEW r \in Req,
                    NEW amount \in PartialAmount \cup {gw[req[r].key].bal}
             PROVE  amount \in Int
  OBVIOUS
<1>1. req[r].key \in Key BY DEF TypeOK, ReqRecord
<1>2. gw[req[r].key].bal \in Nat BY <1>1 DEF TypeOK, GatewayPayment
<1>3. PartialAmount \subseteq Nat BY ModelAssumption
<1> QED BY <1>2, <1>3

\* Every step moves every payment forward.
LEMMA GatewayForward ==
    ASSUME TypeOK, [Next]_vars, NEW k \in Key
    PROVE  Forward(gw[k], gw'[k])
<1>0. gw[k] \in GatewayPayment BY DEF TypeOK
<1>1. CASE UNCHANGED gw BY <1>0, <1>1, ForwardStay
<1>2. ASSUME NEW r \in Req, NEW j \in Key, ConfirmToss(r, j)
      PROVE  Forward(gw[k], gw'[k])
  <2>1. CASE ConfirmRefused(r, j) /\ gw' = gw BY <1>1, <2>1
  <2>2. CASE /\ gw[j].st = "READY"
             /\ \/ gw' = [gw EXCEPT ![j] = Approve(gw[j], j \in VirtualKey)]
                \/ gw' = [gw EXCEPT ![j] = [gw[j] EXCEPT !.st = "ABORTED"]]
    <3>1. CASE k = j
      <4>1. gw'[k] \in {Approve(gw[k], k \in VirtualKey), [gw[k] EXCEPT !.st = "ABORTED"]}
        BY <2>2, <3>1 DEF TypeOK
      <4> QED BY <1>0, <2>2, <3>1, <4>1, ForwardConfirm
    <3>2. CASE k # j
      <4>1. gw'[k] = gw[k] BY <2>2, <3>2 DEF TypeOK
      <4> QED BY <1>0, <4>1, ForwardStay
    <3> QED BY <3>1, <3>2
  <2> QED BY <1>2, <2>1, <2>2
    DEF ConfirmToss, ConfirmApproved, ConfirmRefused, ConfirmLost
<1>3. ASSUME NEW r \in Req, NEW amount \in Int, NEW next, Refunded(r, amount, next)
      PROVE  Forward(gw[k], gw'[k])
  BY <1>0, <1>3, ForwardStay, ForwardRefund DEF Refunded, TypeOK
<1>4. ASSUME NEW r \in Req, CancelToss(r) PROVE Forward(gw[k], gw'[k])
  <2>1. PICK amount \in PartialAmount \cup {gw[req[r].key].bal} :
           Refunded(r, amount, "cancelTx") \/ RefundRefused(r, amount)
    BY <1>4 DEF CancelToss
  <2>2. amount \in Int BY CancelAmountType
  <2> QED BY <1>1, <1>3, <2>1, <2>2 DEF RefundRefused
<1>5. ASSUME NEW r \in Req, ReturnToss(r) PROVE Forward(gw[k], gw'[k])
  <2>1. req[r].bal \in Int BY DEF TypeOK, ReqRecord
  <2> QED BY <1>1, <1>3, <1>5, <2>1 DEF ReturnToss, RefundRefused
<1>6. ASSUME NEW j \in Key, VirtualAccount(j) PROVE Forward(gw[k], gw'[k])
  <2>1. PICK st \in {"DONE", "EXPIRED"} : gw' = [gw EXCEPT ![j].st = st]
    BY <1>6 DEF VirtualAccount
  <2>2. CASE k = j
    <3>1. gw'[k] = [gw[k] EXCEPT !.st = st] BY <2>1, <2>2 DEF TypeOK
    <3> QED BY <1>0, <1>6, <2>2, <3>1, ForwardDeposit DEF VirtualAccount
  <2>3. CASE k # j
    <3>1. gw'[k] = gw[k] BY <2>1, <2>3 DEF TypeOK
    <3> QED BY <1>0, <3>1, ForwardStay
  <2> QED BY <2>2, <2>3
<1>7. ASSUME NEW g \in Group, Work(g) PROVE UNCHANGED gw
  BY <1>7 DEF Work, JobRead, JobUpsert, JobLevel, JobCoupons, JobDone, JobFails
<1>8. ASSUME NEW r \in Req, Continue(r), ~CancelToss(r), ~ReturnToss(r)
      PROVE  UNCHANGED gw
  BY <1>8 DEF Continue, ConfirmTx, ConfirmTxFails, RewardRead, RewardRow, RewardSet,
     RewardFails, Enqueue, FailMark, FailRecord, CancelTx, ReturnTx, ReverseTx,
     ReverseTxFails, SyncWrite
<1>9. ASSUME NEW r \in Req, NEW j \in Key,
             CancelRead(r, j) \/ ReturnRead(r, j) \/ SyncRead(r, j)
      PROVE  UNCHANGED gw
  BY <1>9 DEF CancelRead, ReturnRead, SyncRead
<1>10. ASSUME NEW g \in Group,
              \/ Initiate(g) \/ InitiateFails(g) \/ AdminWrite(g) \/ CancelOrderGroup(g)
              \/ \E e \in Edit : AdminRead(g, e)
       PROVE  UNCHANGED gw
  BY <1>10 DEF Initiate, InitiateFails, AdminWrite, CancelOrderGroup, AdminRead
<1>11. Crash => UNCHANGED gw BY DEF Crash
<1>12. UNCHANGED vars => UNCHANGED gw BY DEF vars
<1> QED
  BY <1>1, <1>2, <1>4, <1>5, <1>6, <1>7, <1>8, <1>9, <1>10, <1>11, <1>12 DEF Next

LEMMA MoneyInit == Init => MoneyInv
<1> SUFFICES ASSUME Init PROVE MoneyInv OBVIOUS
<1>1. RowsFollowGateway BY DEF Init, RowsFollowGateway
<1>2. \A r \in Req : AnswerFollowsGateway(r)
  BY IdleReqType DEF Init, AnswerFollowsGateway
<1>3. CancelledWhenEmpty
  BY ModelAssumption, CheckoutType DEF Init, CancelledWhenEmpty
<1> QED BY <1>1, <1>2, <1>3 DEF MoneyInv

\* What Toss answers about a payment is not ahead of the payment.
LEMMA AnswerOfToss ==
    ASSUME NEW p \in GatewayPayment
    PROVE  NotAhead(p, mapTossStatusToPaymentStatus(p.st), p.bal)
BY DEF NotAhead, GatewayPayment, GatewayStatus, MoneyTaken, mapTossStatusToPaymentStatus

LEMMA MoneyNext == TypeOK /\ MoneyInv /\ [Next]_vars => MoneyInv'
<1> SUFFICES ASSUME TypeOK, MoneyInv, [Next]_vars PROVE MoneyInv' OBVIOUS
<1>1. TypeOK' BY TypeNext
<1>2. \A k \in Key : /\ gw[k] \in GatewayPayment /\ gw'[k] \in GatewayPayment
                     /\ Forward(gw[k], gw'[k])
  BY <1>1, GatewayForward DEF TypeOK
<1>3. CancelledWhenEmpty'
  BY <1>2 DEF MoneyInv, CancelledWhenEmpty, Forward
\* Rows and answers a step leaves alone are not ahead of what Toss has now.
<1>4. ASSUME NEW k \in Key, row[k].st \notin {"NONE", "FAILED"}
      PROVE  NotAhead(gw'[k], row[k].st, row[k].bal)
  BY <1>2, <1>4, NotAheadStays DEF MoneyInv, RowsFollowGateway, TypeOK, RowRecord
<1>5. ASSUME NEW r \in Req, req[r].pc \in {"confirmTx", "syncWrite"}
      PROVE  NotAhead(gw'[req[r].key], req[r].st, req[r].bal)
  BY <1>2, <1>5, NotAheadStays DEF MoneyInv, AnswerFollowsGateway, TypeOK, ReqRecord
<1>6. ASSUME NEW r \in Req, req[r].pc \in {"cancelTx", "returnTx"}
      PROVE  NotAhead(gw'[req[r].key], "SUCCESS", req[r].bal)
  BY <1>2, <1>6, NotAheadStays DEF MoneyInv, AnswerFollowsGateway, TypeOK, ReqRecord
<1>7. UNCHANGED row => RowsFollowGateway' BY <1>4 DEF RowsFollowGateway
<1>8. ASSUME NEW r \in Req, UNCHANGED req[r] PROVE AnswerFollowsGateway(r)'
  BY <1>5, <1>6, <1>8 DEF AnswerFollowsGateway
<1>9. ASSUME NEW r \in Req,
             req'[r].pc \notin {"confirmTx", "syncWrite", "cancelTx", "returnTx"}
      PROVE  AnswerFollowsGateway(r)'
  BY <1>9 DEF AnswerFollowsGateway
<1>10. ASSUME NEW r \in Req, AnswerFollowsGateway(r)',
              \A q \in Req \ {r} : UNCHANGED req[q]
       PROVE  \A q \in Req : AnswerFollowsGateway(q)'
  BY <1>8, <1>10
<1>11. UNCHANGED req => \A r \in Req : AnswerFollowsGateway(r)' BY <1>8
\* A request that does not end its step with an answer to use later.
<1>12. ASSUME NEW r \in Req, NEW q \in ReqRecord, req' = [req EXCEPT ![r] = q],
              q.pc \notin {"confirmTx", "syncWrite", "cancelTx", "returnTx"}
       PROVE  \A s \in Req : AnswerFollowsGateway(s)'
  <2>1. req'[r] = q /\ \A s \in Req \ {r} : UNCHANGED req[s] BY <1>12 DEF TypeOK
  <2> QED BY <1>9, <1>10, <1>12, <2>1
<1>13. ASSUME NEW r \in Req, Finish(r) PROVE \A s \in Req : AnswerFollowsGateway(s)'
  BY <1>12, <1>13, IdleReqType DEF Finish
<1>14. ASSUME NEW r \in Req, NEW pc \in Pc, Goto(r, pc),
              pc \notin {"confirmTx", "syncWrite", "cancelTx", "returnTx"}
       PROVE  \A s \in Req : AnswerFollowsGateway(s)'
  <2>1. [req[r] EXCEPT !.pc = pc] \in ReqRecord BY DEF TypeOK, ReqRecord
  <2> QED BY <1>12, <1>14, <2>1 DEF Goto, TypeOK, ReqRecord
<1>15. ASSUME NEW g \in Group, Initiate(g) \/ InitiateFails(g) \/ AdminWrite(g) \/ CancelOrderGroup(g)
       PROVE  MoneyInv'
  BY <1>3, <1>15, <1>7, <1>11 DEF Initiate, InitiateFails, AdminWrite, CancelOrderGroup, MoneyInv
<1>16. ASSUME NEW g \in Group, NEW e \in Edit, AdminRead(g, e)
       PROVE  MoneyInv'
  BY <1>3, <1>16, <1>7, <1>11 DEF AdminRead, MoneyInv
<1>17. ASSUME NEW g \in Group, Work(g)
       PROVE  MoneyInv'
  BY <1>3, <1>17, <1>7, <1>11 DEF Work, JobRead, JobUpsert, JobLevel, JobCoupons, JobDone,
     JobFails, MoneyInv
<1>18. ASSUME NEW k \in Key, VirtualAccount(k)
       PROVE  MoneyInv'
  BY <1>3, <1>18, <1>7, <1>11 DEF VirtualAccount, MoneyInv
<1>19. ASSUME Crash
       PROVE  MoneyInv'
  <2>1. \A r \in Req : AnswerFollowsGateway(r)'
    BY <1>19, <1>9, IdleReqType DEF Crash
  <2> QED BY <1>3, <1>19, <1>7, <2>1 DEF Crash, MoneyInv
<1>20. ASSUME UNCHANGED vars
       PROVE  MoneyInv'
  BY <1>3, <1>20, <1>7, <1>11 DEF vars, MoneyInv
<1>21. ASSUME NEW r \in Req, NEW k \in Key, ConfirmApproved(r, k)
       PROVE  MoneyInv'
  <2> DEFINE paid == Approve(gw[k], k \in VirtualKey)
             q == [IdleReq EXCEPT !.pc = "confirmTx", !.key = k,
                      !.st = mapTossStatusToPaymentStatus(paid.st), !.bal = paid.bal]
  <2>1. req' = [req EXCEPT ![r] = q] /\ gw'[k] = paid
    BY <1>21 DEF ConfirmApproved, TypeOK
  <2>2. /\ req'[r].pc = "confirmTx" /\ req'[r].key = k
        /\ req'[r].st = mapTossStatusToPaymentStatus(paid.st)
        /\ req'[r].bal = paid.bal
    BY <2>1, IdleReqType DEF TypeOK, ReqRecord
  <2>3. NotAhead(paid, mapTossStatusToPaymentStatus(paid.st), paid.bal)
    BY <1>2, <2>1, AnswerOfToss
  <2>4. AnswerFollowsGateway(r)' BY <2>1, <2>2, <2>3 DEF AnswerFollowsGateway
  <2>5. \A s \in Req \ {r} : UNCHANGED req[s] BY <2>1 DEF TypeOK
  <2> QED BY <1>3, <1>21, <1>7, <1>10, <2>4, <2>5 DEF ConfirmApproved, MoneyInv
<1>22. ASSUME NEW r \in Req, NEW k \in Key, SyncRead(r, k)
       PROVE  MoneyInv'
  <2> DEFINE q == [IdleReq EXCEPT !.pc = "syncWrite", !.key = k,
                      !.st = mapTossStatusToPaymentStatus(gw[k].st), !.bal = gw[k].bal]
  <2>1. req' = [req EXCEPT ![r] = q] /\ gw'[k] = gw[k] BY <1>22 DEF SyncRead
  <2>2. /\ req'[r].pc = "syncWrite" /\ req'[r].key = k
        /\ req'[r].st = mapTossStatusToPaymentStatus(gw[k].st)
        /\ req'[r].bal = gw[k].bal
    BY <2>1, IdleReqType DEF TypeOK, ReqRecord
  <2>3. NotAhead(gw[k], mapTossStatusToPaymentStatus(gw[k].st), gw[k].bal)
    BY <1>2, AnswerOfToss
  <2>4. AnswerFollowsGateway(r)' BY <2>1, <2>2, <2>3 DEF AnswerFollowsGateway
  <2>5. \A s \in Req \ {r} : UNCHANGED req[s] BY <2>1 DEF TypeOK
  <2> QED BY <1>3, <1>22, <1>7, <1>10, <2>4, <2>5 DEF SyncRead, MoneyInv
<1>23. ASSUME NEW r \in Req, NEW k \in Key, ConfirmRefused(r, k) \/ ConfirmLost(r, k)
       PROVE  MoneyInv'
  <2>1. [IdleReq EXCEPT !.pc = "failing", !.key = k] \in ReqRecord
    BY IdleReqType DEF ReqRecord, Pc
  <2>2. [IdleReq EXCEPT !.pc = "failing", !.key = k].pc = "failing"
    BY IdleReqType DEF ReqRecord
  <2> QED BY <1>3, <1>23, <1>7, <1>12, <2>1, <2>2 DEF ConfirmRefused, ConfirmLost, MoneyInv
<1>24. ASSUME NEW r \in Req, NEW k \in Key, CancelRead(r, k)
       PROVE  MoneyInv'
  <2>1. [IdleReq EXCEPT !.pc = "cancelToss", !.key = k] \in ReqRecord
    BY IdleReqType DEF ReqRecord, Pc
  <2>2. [IdleReq EXCEPT !.pc = "cancelToss", !.key = k].pc = "cancelToss"
    BY IdleReqType DEF ReqRecord
  <2> QED BY <1>3, <1>24, <1>7, <1>12, <2>1, <2>2 DEF CancelRead, MoneyInv
<1>25. ASSUME NEW r \in Req, NEW k \in Key, ReturnRead(r, k)
       PROVE  MoneyInv'
  <2>1. req'[r].pc = "returnToss" /\ \A s \in Req \ {r} : UNCHANGED req[s]
    BY <1>25, IdleReqType DEF ReturnRead, TypeOK, ReqRecord
  <2> QED BY <1>3, <1>25, <1>7, <1>9, <1>10, <2>1 DEF ReturnRead, MoneyInv
<1>26. ASSUME NEW r \in Req, ConfirmTx(r)
       PROVE  MoneyInv'
  <2> DEFINE k == req[r].key
  <2>1. /\ k \in Key /\ req[r].pc = "confirmTx"
        /\ row' = [row EXCEPT ![k] = [st |-> req[r].st, bal |-> req[r].bal]]
        /\ gw' = gw
    BY <1>26 DEF ConfirmTx, TypeOK, ReqRecord
  <2>2. RowsFollowGateway' BY <1>4, <1>5, <2>1 DEF RowsFollowGateway, TypeOK
  <2>3. req'[r].pc = "rewardRead" /\ \A s \in Req \ {r} : UNCHANGED req[s]
    BY <1>26 DEF ConfirmTx, TypeOK, ReqRecord
  <2> QED BY <1>3, <1>9, <1>10, <2>2, <2>3 DEF MoneyInv
<1>27. ASSUME NEW r \in Req, ConfirmTxFails(r) \/ RewardRow(r) \/ RewardSet(r) \/ RewardFails(r) \/ FailMark(r)
       PROVE  MoneyInv'
  BY <1>3, <1>27, <1>7, <1>14
  DEF ConfirmTxFails, RewardRow, RewardSet, RewardFails, FailMark, Pc, MoneyInv
<1>28. ASSUME NEW r \in Req, RewardRead(r)
       PROVE  MoneyInv'
  <2>1. req'[r].pc \in {"rewardRow", "enqueue"} /\ \A s \in Req \ {r} : UNCHANGED req[s]
    BY <1>28 DEF RewardRead, TypeOK, ReqRecord
  <2> QED BY <1>3, <1>28, <1>7, <1>9, <1>10, <2>1 DEF RewardRead, MoneyInv
<1>29. ASSUME NEW r \in Req, Enqueue(r) \/ ReverseTxFails(r)
       PROVE  MoneyInv'
  BY <1>3, <1>29, <1>7, <1>13 DEF Enqueue, ReverseTxFails, MoneyInv
<1>30. ASSUME NEW r \in Req, FailRecord(r)
       PROVE  MoneyInv'
  <2>1. RowsFollowGateway' BY <1>30, <1>4 DEF FailRecord, RowsFollowGateway, TypeOK
  <2> QED BY <1>3, <1>30, <1>13, <2>1 DEF FailRecord, MoneyInv
<1>31. ASSUME NEW r \in Req, NEW amount \in Int, NEW next \in {"cancelTx", "returnTx"}, Refunded(r, amount, next)
       PROVE  MoneyInv'
  <2> DEFINE k == req[r].key
             left == Refund(gw[k], amount)
  <2>1. k \in Key /\ gw'[k] = left /\ UNCHANGED row /\ left.bal \in Nat
    BY <1>31, <1>2, GatewayType DEF Refunded, TypeOK, ReqRecord, GatewayPayment
  <2>2. CASE req' = [req EXCEPT ![r].pc = next, ![r].bal = left.bal]
    <3>1. req'[r].pc = next /\ req'[r].key = k /\ req'[r].bal = left.bal
      BY <2>2 DEF TypeOK, ReqRecord
    <3>2. MoneyTaken(left) BY <1>31 DEF Refunded, MoneyTaken, Refund
    <3>3. NotAhead(left, "SUCCESS", left.bal) BY <2>1, <3>2 DEF NotAhead
    <3>4. AnswerFollowsGateway(r)' BY <1>31, <2>1, <3>1, <3>3 DEF AnswerFollowsGateway
    <3>5. \A s \in Req \ {r} : UNCHANGED req[s] BY <2>2 DEF TypeOK
    <3> QED BY <1>3, <1>7, <1>10, <2>1, <3>4, <3>5 DEF MoneyInv
  <2>3. CASE Finish(r) BY <1>3, <1>7, <1>13, <2>1, <2>3 DEF MoneyInv
  <2> QED BY <1>31, <2>2, <2>3 DEF Refunded
<1>32. ASSUME NEW r \in Req, NEW amount \in Int, RefundRefused(r, amount)
       PROVE  MoneyInv'
  BY <1>3, <1>32, <1>7, <1>13 DEF RefundRefused, MoneyInv
<1>33. ASSUME NEW r \in Req, CancelToss(r)
       PROVE  MoneyInv'
  <2>1. PICK amount \in PartialAmount \cup {gw[req[r].key].bal} :
           Refunded(r, amount, "cancelTx") \/ RefundRefused(r, amount)
    BY <1>33 DEF CancelToss
  <2>2. amount \in Int BY CancelAmountType
  <2> QED BY <2>1, <2>2, <1>31, <1>32
<1>34. ASSUME NEW r \in Req, ReturnToss(r)
       PROVE  MoneyInv'
  <2>1. req[r].bal \in Int BY DEF TypeOK, ReqRecord
  <2> QED BY <1>34, <2>1, <1>31, <1>32 DEF ReturnToss
<1>35. ASSUME NEW r \in Req, NEW situation, NEW final, ReverseTx(r, situation, final),
              req[r].pc \in {"cancelTx", "returnTx"}
       PROVE  MoneyInv'
  <2> DEFINE k == req[r].key
             st == RefundStatus(req[r].bal)
  <2>1. /\ k \in Key /\ req[r].bal \in Nat
        /\ row' = [row EXCEPT ![k] = [st |-> st, bal |-> req[r].bal]]
        /\ gw' = gw
    BY <1>35 DEF ReverseTx, TypeOK, ReqRecord
  <2>2. NotAhead(gw[k], "SUCCESS", req[r].bal) BY <1>35, <1>6, <2>1
  \* An answer of zero means that Toss has nothing left now either.
  <2>3. NotAhead(gw[k], st, req[r].bal)
    <3>1. gw[k].bal \in Nat BY <1>2, <2>1 DEF GatewayPayment
    <3>2. gw[k].st = "CANCELED" <=> gw[k].bal = 0
      BY <2>1 DEF MoneyInv, CancelledWhenEmpty
    <3> QED BY <2>1, <2>2, <3>1, <3>2 DEF NotAhead, RefundStatus
  <2>4. row'[k].st = st /\ row'[k].bal = req[r].bal
    BY <2>1 DEF TypeOK
  <2>5. \A j \in Key \ {k} : row'[j] = row[j] BY <2>1 DEF TypeOK
  <2>6. RowsFollowGateway' BY <1>4, <2>1, <2>3, <2>4, <2>5 DEF RowsFollowGateway
  <2> QED BY <1>3, <1>35, <1>13, <2>6 DEF ReverseTx, MoneyInv
<1>36. ASSUME NEW r \in Req, CancelTx(r) \/ ReturnTx(r)
       PROVE  MoneyInv'
  BY <1>36, <1>35 DEF CancelTx, ReturnTx
<1>37. ASSUME NEW r \in Req, SyncWrite(r)
       PROVE  MoneyInv'
  <2> DEFINE k == req[r].key
  <2>1. /\ k \in Key /\ req[r].pc = "syncWrite" /\ gw' = gw
        /\ \/ UNCHANGED row
           \/ row' = [row EXCEPT ![k] = [st |-> req[r].st, bal |-> req[r].bal]]
    BY <1>37 DEF SyncWrite, TypeOK, ReqRecord
  <2>2. RowsFollowGateway' BY <1>4, <1>5, <2>1 DEF RowsFollowGateway, TypeOK
  <2> QED BY <1>3, <1>37, <1>13, <2>2 DEF SyncWrite, MoneyInv
<1> QED
  BY <1>15, <1>16, <1>17, <1>18, <1>19, <1>20, <1>21, <1>22, <1>23, <1>24,
     <1>25, <1>26, <1>27, <1>28, <1>29, <1>30, <1>33, <1>34, <1>36, <1>37
  DEF Next, ConfirmToss, Continue

\* No payment row ever claims more than Toss has done: not SUCCESS before the
\* money is taken, not CANCELLED while some is left, and never a balance below
\* the one Toss has, for any number of groups, attempts and requests.
THEOREM BooksNeverAhead == Spec => []RowsFollowGateway
<1>1. Init => TypeOK /\ MoneyInv BY TypeInit, MoneyInit
<1>2. TypeOK /\ MoneyInv /\ [Next]_vars => (TypeOK /\ MoneyInv)'
  BY TypeNext, MoneyNext
<1>3. MoneyInv => RowsFollowGateway BY DEF MoneyInv
<1> QED BY <1>1, <1>2, <1>3, PTL DEF Spec

-----------------------------------------------------------------------------
(* OrderPayment implements PaymentBook. *)

\* What a step of Next does to the rows and to Toss: nothing, or one of them
\* moves, at one payment.
RowMove(k) ==
    /\ row' = [row EXCEPT ![k] = row'[k]]
    /\ row'[k].st # "NONE"
    /\ row[k].st # "NONE" \/ ~HasRow(GroupOf[k])
    /\ UNCHANGED gw

BankMove(k) ==
    /\ gw' = [gw EXCEPT ![k] = gw'[k]]
    /\ \/ /\ MoneyTaken(gw'[k]) <=> MoneyTaken(gw[k])
          /\ gw'[k].bal = gw[k].bal
       \/ ~MoneyTaken(gw[k]) /\ MoneyTaken(gw'[k]) /\ gw'[k].bal = gw[k].bal
       \/ MoneyTaken(gw[k]) /\ MoneyTaken(gw'[k]) /\ gw'[k].bal < gw[k].bal
    /\ UNCHANGED row

LEMMA RefundMoves ==
    ASSUME TypeOK, NEW r \in Req, NEW amount \in Int, NEW next, Refunded(r, amount, next)
    PROVE  BankMove(req[r].key)
<1> DEFINE k == req[r].key
<1>1. k \in Key /\ gw[k] \in GatewayPayment BY DEF TypeOK, ReqRecord
<1>2. /\ gw' = [gw EXCEPT ![k] = Refund(gw[k], amount)] /\ UNCHANGED row
      /\ gw'[k] = Refund(gw[k], amount)
  BY <1>1 DEF Refunded, TypeOK
<1>3. MoneyTaken(gw[k]) /\ MoneyTaken(gw'[k]) /\ gw'[k].bal < gw[k].bal
  BY <1>1, <1>2 DEF Refunded, Refundable, Refund, MoneyTaken, GatewayPayment
<1> QED BY <1>2, <1>3 DEF BankMove

LEMMA StepMoves ==
    ASSUME TypeOK, SlotInv, Next
    PROVE  \/ UNCHANGED <<gw, row>>
           \/ \E k \in Key : RowMove(k) \/ BankMove(k)
<1>1. ASSUME NEW r \in Req, NEW k \in Key, ConfirmToss(r, k)
      PROVE  UNCHANGED <<gw, row>> \/ BankMove(k)
  <2>1. ASSUME ConfirmApproved(r, k) \/ ConfirmLost(r, k) PROVE BankMove(k)
    <3>1. gw' = [gw EXCEPT ![k] = Approve(gw[k], k \in VirtualKey)] /\ UNCHANGED row
      BY <2>1 DEF ConfirmApproved, ConfirmLost
    <3>2. gw[k].st = "READY" /\ gw[k] \in GatewayPayment
      BY <2>1 DEF ConfirmApproved, ConfirmLost, TypeOK
    <3>3. gw'[k] = Approve(gw[k], k \in VirtualKey) BY <3>1 DEF TypeOK
    <3>4. gw'[k].bal = gw[k].bal BY <3>2, <3>3 DEF Approve, GatewayPayment
    <3>5. ~MoneyTaken(gw[k]) BY <3>2 DEF MoneyTaken
    <3>6. gw' = [gw EXCEPT ![k] = gw'[k]] BY <3>1, <3>3
    <3> QED BY <3>1, <3>4, <3>5, <3>6 DEF BankMove
  <2>2. ASSUME ConfirmRefused(r, k) PROVE UNCHANGED <<gw, row>> \/ BankMove(k)
    <3>1. UNCHANGED row /\ gw' \in {gw} \cup (IF gw[k].st = "READY"
                            THEN {[gw EXCEPT ![k].st = "ABORTED"]} ELSE {})
      BY <2>2 DEF ConfirmRefused
    <3>2. CASE gw' = gw BY <3>1, <3>2
    <3>3. CASE gw[k].st = "READY" /\ gw' = [gw EXCEPT ![k].st = "ABORTED"]
      <4>1. /\ gw' = [gw EXCEPT ![k] = gw'[k]] /\ gw'[k].st = "ABORTED"
            /\ gw'[k].bal = gw[k].bal
        BY <3>3 DEF TypeOK, GatewayPayment
      <4>2. MoneyTaken(gw'[k]) <=> MoneyTaken(gw[k]) BY <3>3, <4>1 DEF MoneyTaken
      <4> QED BY <3>1, <4>1, <4>2 DEF BankMove
    <3> QED BY <3>1, <3>2, <3>3
  <2> QED BY <1>1, <2>1, <2>2 DEF ConfirmToss
<1>2. ASSUME NEW r \in Req, CancelToss(r)
      PROVE  UNCHANGED <<gw, row>> \/ BankMove(req[r].key)
  <2>1. PICK amount \in PartialAmount \cup {gw[req[r].key].bal} :
           Refunded(r, amount, "cancelTx") \/ RefundRefused(r, amount)
    BY <1>2 DEF CancelToss
  <2>2. amount \in Int BY CancelAmountType
  <2> QED BY <2>1, <2>2, RefundMoves DEF RefundRefused
<1>3. ASSUME NEW r \in Req, ReturnToss(r)
      PROVE  UNCHANGED <<gw, row>> \/ BankMove(req[r].key)
  <2>1. req[r].bal \in Int BY DEF TypeOK, ReqRecord
  <2> QED BY <1>3, <2>1, RefundMoves DEF ReturnToss, RefundRefused
<1>4. ASSUME NEW k \in Key, VirtualAccount(k) PROVE BankMove(k)
  <2>1. PICK st \in {"DONE", "EXPIRED"} : gw' = [gw EXCEPT ![k].st = st]
    BY <1>4 DEF VirtualAccount
  <2>2. /\ gw' = [gw EXCEPT ![k] = gw'[k]] /\ gw'[k].st = st /\ gw'[k].bal = gw[k].bal
        /\ ~MoneyTaken(gw[k]) /\ UNCHANGED row
    BY <1>4, <2>1 DEF TypeOK, GatewayPayment, VirtualAccount, MoneyTaken
  <2> QED BY <2>2 DEF BankMove
<1>5. ASSUME NEW r \in Req, ConfirmTx(r) PROVE RowMove(req[r].key)
  <2>1. req[r].key \in Key /\ req[r].st # "NONE"
    BY <1>5 DEF ConfirmTx, TypeOK, ReqRecord, SlotInv, KnowsItsRow
  <2> QED BY <1>5, <2>1 DEF ConfirmTx, RowMove, TypeOK
<1>6. ASSUME NEW r \in Req, FailRecord(r) PROVE UNCHANGED <<gw, row>> \/ RowMove(req[r].key)
  <2>1. req[r].key \in Key BY DEF TypeOK, ReqRecord
  <2> QED BY <1>6, <2>1 DEF FailRecord, RowMove, TypeOK
<1>7. ASSUME NEW r \in Req, CancelTx(r) \/ ReturnTx(r) PROVE RowMove(req[r].key)
  <2> DEFINE e == [st |-> RefundStatus(req[r].bal), bal |-> req[r].bal]
  <2>1. req[r].key \in Key /\ row[req[r].key].st # "NONE"
    BY <1>7 DEF CancelTx, ReturnTx, TypeOK, ReqRecord, SlotInv, KnowsItsRow
  <2>2. row' = [row EXCEPT ![req[r].key] = e] /\ UNCHANGED gw
    BY <1>7 DEF CancelTx, ReturnTx, ReverseTx
  <2>3. e.st # "NONE" BY DEF RefundStatus
  <2>4. row'[req[r].key] = e BY <2>1, <2>2 DEF TypeOK
  <2> QED BY <2>1, <2>2, <2>3, <2>4 DEF RowMove
<1>8. ASSUME NEW r \in Req, SyncWrite(r) PROVE UNCHANGED <<gw, row>> \/ RowMove(req[r].key)
  <2>1. req[r].key \in Key /\ req[r].st # "NONE"
    BY <1>8 DEF SyncWrite, TypeOK, ReqRecord, SlotInv, KnowsItsRow
  <2> QED BY <1>8, <2>1 DEF SyncWrite, RowMove, TypeOK
<1>9. ASSUME NEW r \in Req,
             \/ ConfirmTxFails(r) \/ RewardRead(r) \/ RewardRow(r) \/ RewardSet(r)
             \/ RewardFails(r) \/ Enqueue(r) \/ FailMark(r) \/ ReverseTxFails(r)
      PROVE  UNCHANGED <<gw, row>>
  BY <1>9 DEF ConfirmTxFails, RewardRead, RewardRow, RewardSet, RewardFails, Enqueue,
     FailMark, ReverseTxFails
<1>10. ASSUME NEW r \in Req, NEW k \in Key,
              CancelRead(r, k) \/ ReturnRead(r, k) \/ SyncRead(r, k)
       PROVE  UNCHANGED <<gw, row>>
  BY <1>10 DEF CancelRead, ReturnRead, SyncRead
<1>11. ASSUME NEW g \in Group,
              \/ Initiate(g) \/ InitiateFails(g) \/ AdminWrite(g) \/ CancelOrderGroup(g)
              \/ Work(g) \/ \E e \in Edit : AdminRead(g, e)
       PROVE  UNCHANGED <<gw, row>>
  BY <1>11 DEF Initiate, InitiateFails, AdminWrite, CancelOrderGroup, AdminRead, Work,
     JobRead, JobUpsert, JobLevel, JobCoupons, JobDone, JobFails
<1>12. Crash => UNCHANGED <<gw, row>> BY DEF Crash
<1>13. \A r \in Req : req[r].key \in Key BY DEF TypeOK, ReqRecord
<1> QED
  BY <1>1, <1>2, <1>3, <1>4, <1>5, <1>6, <1>7, <1>8, <1>9, <1>10, <1>11, <1>12, <1>13
  DEF Next, Continue

LEMMA SlotInit == Init => SlotInv
BY IdleReqType DEF Init, SlotInv, OneRow, KnowsItsRow

LEMMA SlotNext == TypeOK /\ SlotInv /\ [Next]_vars => SlotInv'
<1> SUFFICES ASSUME TypeOK, SlotInv, [Next]_vars PROVE SlotInv' OBVIOUS
<1>1. UNCHANGED row \/ \E k \in Key : RowMove(k)
  BY StepMoves DEF vars, BankMove
<1>2. OneRow'
  BY <1>1 DEF RowMove, SlotInv, OneRow, HasRow, TypeOK
<1>3. \A k \in Key : row[k].st # "NONE" => row'[k].st # "NONE"
  BY <1>1 DEF RowMove, TypeOK
<1>4. ASSUME NEW r \in Req, UNCHANGED req[r] PROVE KnowsItsRow(r)'
  BY <1>3, <1>4 DEF SlotInv, KnowsItsRow, TypeOK, ReqRecord
\* A request about to do something that needs neither.
<1>5. ASSUME NEW r \in Req, NEW q \in ReqRecord, req' = [req EXCEPT ![r] = q],
             q.pc \in {"confirmTx", "syncWrite"} => q.st # "NONE",
             q.pc \in {"cancelToss", "cancelTx", "returnToss", "returnTx"}
               => row'[q.key].st # "NONE"
      PROVE  SlotInv'
  <2>1. req'[r] = q /\ \A s \in Req \ {r} : UNCHANGED req[s] BY <1>5 DEF TypeOK
  <2>2. KnowsItsRow(r)' BY <1>5, <2>1 DEF KnowsItsRow
  <2> QED BY <1>2, <1>4, <2>1, <2>2 DEF SlotInv
<1>6. UNCHANGED req => SlotInv' BY <1>2, <1>4 DEF SlotInv
<1>7. ASSUME NEW r \in Req, Finish(r) PROVE SlotInv'
  BY <1>5, <1>7, IdleReqType DEF Finish
<1>8. TypeOK' BY TypeNext
<1>9. ASSUME NEW r \in Req, \A s \in Req \ {r} : UNCHANGED req[s],
             req'[r].pc \notin {"confirmTx", "syncWrite", "cancelToss", "cancelTx",
                                "returnToss", "returnTx"}
      PROVE  SlotInv'
  BY <1>2, <1>4, <1>9 DEF SlotInv, KnowsItsRow
<1>10. ASSUME NEW r \in Req, NEW k \in Key, ConfirmToss(r, k) PROVE SlotInv'
  <2>1. \A s \in Req \ {r} : UNCHANGED req[s]
    BY <1>10 DEF ConfirmToss, ConfirmApproved, ConfirmRefused, ConfirmLost, TypeOK
  <2>2. ASSUME ConfirmApproved(r, k) PROVE KnowsItsRow(r)'
    <3>1. req'[r].pc = "confirmTx"
          /\ req'[r].st = mapTossStatusToPaymentStatus(Approve(gw[k], k \in VirtualKey).st)
      BY <2>2, IdleReqType DEF ConfirmApproved, TypeOK, ReqRecord
    <3>2. Approve(gw[k], k \in VirtualKey).st \in GatewayStatus
      BY DEF Approve, TypeOK, GatewayPayment, GatewayStatus
    <3>3. mapTossStatusToPaymentStatus(Approve(gw[k], k \in VirtualKey).st) # "NONE"
      BY <3>2 DEF mapTossStatusToPaymentStatus, GatewayStatus
    <3> QED BY <3>1, <3>3 DEF KnowsItsRow
  <2>3. ASSUME ConfirmRefused(r, k) \/ ConfirmLost(r, k) PROVE SlotInv'
    <3>1. req'[r] = [IdleReq EXCEPT !.pc = "failing", !.key = k]
      BY <2>3 DEF ConfirmRefused, ConfirmLost, TypeOK
    <3>2. [IdleReq EXCEPT !.pc = "failing", !.key = k].pc = "failing"
      BY IdleReqType DEF ReqRecord
    <3> QED BY <1>9, <2>1, <3>1, <3>2
  <2> QED BY <1>2, <1>4, <1>10, <2>1, <2>2, <2>3 DEF ConfirmToss, SlotInv
<1>11. ASSUME NEW r \in Req, NEW k \in Key, CancelRead(r, k) \/ ReturnRead(r, k)
       PROVE  SlotInv'
  <2>1. /\ req'[r].pc \in {"cancelToss", "returnToss"} /\ req'[r].key = k
        /\ row[k].st # "NONE" /\ \A s \in Req \ {r} : UNCHANGED req[s]
    BY <1>11, IdleReqType DEF CancelRead, ReturnRead, TypeOK, ReqRecord
  <2>2. KnowsItsRow(r)' BY <1>3, <2>1 DEF KnowsItsRow
  <2> QED BY <1>2, <1>4, <2>1, <2>2 DEF SlotInv
<1>12. ASSUME NEW r \in Req, NEW k \in Key, SyncRead(r, k) PROVE SlotInv'
  <2>1. /\ req'[r].pc = "syncWrite" /\ req'[r].st = mapTossStatusToPaymentStatus(gw[k].st)
        /\ \A s \in Req \ {r} : UNCHANGED req[s]
    BY <1>12, IdleReqType DEF SyncRead, TypeOK, ReqRecord
  <2>2. mapTossStatusToPaymentStatus(gw[k].st) # "NONE"
    BY DEF TypeOK, GatewayPayment, GatewayStatus, mapTossStatusToPaymentStatus
  <2>3. KnowsItsRow(r)' BY <2>1, <2>2 DEF KnowsItsRow
  <2> QED BY <1>2, <1>4, <2>1, <2>3 DEF SlotInv
<1>13. ASSUME NEW r \in Req,
              \/ ConfirmTx(r) \/ ConfirmTxFails(r) \/ RewardRead(r) \/ RewardRow(r)
              \/ RewardSet(r) \/ RewardFails(r) \/ FailMark(r)
       PROVE  SlotInv'
  <2>1. ASSUME NEW pc \in {"failing", "rewardRow", "rewardSet", "enqueue", "recording"},
               Goto(r, pc)
        PROVE  SlotInv'
    <3>1. req'[r].pc = pc /\ \A s \in Req \ {r} : UNCHANGED req[s]
      BY <2>1 DEF Goto, TypeOK, ReqRecord
    <3> QED BY <1>9, <3>1
  <2>2. CASE ConfirmTx(r)
    <3>1. req' = [req EXCEPT ![r].pc = "rewardRead", ![r].level = account.level]
      BY <2>2 DEF ConfirmTx
    <3>2. req'[r].pc = "rewardRead" /\ \A s \in Req \ {r} : UNCHANGED req[s]
      BY <3>1 DEF TypeOK, ReqRecord
    <3> QED BY <1>9, <3>2
  <2>3. CASE RewardRead(r)
    <3>1. \E pc \in {"rewardRow", "enqueue"} :
             req' = [req EXCEPT ![r].pc = pc, ![r].num = account.avail]
      BY <2>3 DEF RewardRead
    <3>2. /\ req'[r].pc \in {"rewardRow", "enqueue"}
          /\ \A s \in Req \ {r} : UNCHANGED req[s]
      BY <3>1 DEF TypeOK, ReqRecord
    <3> QED BY <1>9, <3>2
  <2> QED BY <1>13, <2>1, <2>2, <2>3 DEF ConfirmTxFails, RewardRow, RewardSet, RewardFails, FailMark
<1>14. ASSUME NEW r \in Req,
              \/ Enqueue(r) \/ FailRecord(r) \/ SyncWrite(r) \/ ReverseTxFails(r)
              \/ CancelTx(r) \/ ReturnTx(r)
       PROVE  SlotInv'
  BY <1>7, <1>14 DEF Enqueue, FailRecord, SyncWrite, ReverseTxFails, CancelTx, ReturnTx,
     ReverseTx
<1>15. ASSUME NEW r \in Req, NEW amount, NEW next \in {"cancelTx", "returnTx"},
              Refunded(r, amount, next) \/ RefundRefused(r, amount),
              req[r].pc \in {"cancelToss", "returnToss"}
       PROVE  SlotInv'
  <2>1. CASE Finish(r) BY <1>7, <2>1
  <2>2. CASE /\ UNCHANGED row
             /\ req' = [req EXCEPT ![r].pc = next, ![r].bal = Refund(gw[req[r].key], amount).bal]
    <3>1. /\ req'[r].pc = next /\ req'[r].key = req[r].key
          /\ \A s \in Req \ {r} : UNCHANGED req[s]
      BY <2>2 DEF TypeOK, ReqRecord
    <3>2. row[req[r].key].st # "NONE" BY <1>15 DEF SlotInv, KnowsItsRow
    <3>3. KnowsItsRow(r)' BY <1>15, <2>2, <3>1, <3>2 DEF KnowsItsRow
    <3> QED BY <1>2, <1>4, <3>1, <3>3 DEF SlotInv
  <2> QED BY <1>15, <2>1, <2>2 DEF Refunded, RefundRefused
<1>16. ASSUME NEW r \in Req, CancelToss(r) \/ ReturnToss(r) PROVE SlotInv'
  <2>1. req[r].pc \in {"cancelToss", "returnToss"} BY <1>16 DEF CancelToss, ReturnToss
  <2>2. \E amount, next : /\ next \in {"cancelTx", "returnTx"}
                          /\ Refunded(r, amount, next) \/ RefundRefused(r, amount)
    BY <1>16 DEF CancelToss, ReturnToss
  <2> QED BY <1>15, <2>1, <2>2
<1>17. ASSUME NEW g \in Group,
              \/ Initiate(g) \/ InitiateFails(g) \/ AdminWrite(g) \/ CancelOrderGroup(g)
              \/ Work(g) \/ \E e \in Edit : AdminRead(g, e)
       PROVE  SlotInv'
  BY <1>6, <1>17 DEF Initiate, InitiateFails, AdminWrite, CancelOrderGroup, AdminRead, Work,
     JobRead, JobUpsert, JobLevel, JobCoupons, JobDone, JobFails
<1>18. ASSUME NEW k \in Key, VirtualAccount(k) PROVE SlotInv'
  BY <1>6, <1>18 DEF VirtualAccount
<1>19. Crash => SlotInv'
  BY <1>2, IdleReqType DEF Crash, SlotInv, KnowsItsRow
<1>20. UNCHANGED vars => SlotInv' BY <1>6 DEF vars
<1> QED
  BY <1>10, <1>11, <1>12, <1>13, <1>14, <1>16, <1>17, <1>18, <1>19, <1>20
  DEF Next, Continue

\* Every behaviour of the handlers is, seen from outside, one of a book with a
\* slot per order that follows the bank: for any number of groups, attempts and
\* requests, lost answers, failing transactions and crashes.
THEOREM BookRefined == Spec => KeepsTheBook
<1>1. Init => Book!Init
  <2> SUFFICES ASSUME Init PROVE Book!Init OBVIOUS
  <2>1. \A k \in Key : MoneyTaken(gw[k]) = FALSE BY DEF Init, MoneyTaken
  <2>2. \A k \in Key : gw[k].bal \in Nat \ {0}
    BY ModelAssumption DEF Init
  <2> QED BY <2>1, <2>2 DEF Init, Book!Init, Book!Blank
<1>2. TypeOK /\ TypeOK' /\ SlotInv /\ MoneyInv /\ MoneyInv' /\ [Next]_vars
        => [Book!Next]_(Book!vars)
  <2> SUFFICES ASSUME TypeOK, TypeOK', SlotInv, MoneyInv, MoneyInv', [Next]_vars
               PROVE  [Book!Next]_(Book!vars)
    OBVIOUS
  <2> DEFINE bankOf(f) == [k \in Key |-> [taken |-> MoneyTaken(f[k]), left |-> f[k].bal]]
  <2>1. CASE UNCHANGED <<gw, row>> BY <2>1 DEF Book!vars
  <2>2. ASSUME NEW k \in Key, RowMove(k) PROVE Book!Record(k)
    <3>1. \A j \in Key : GroupOf[j] = GroupOf[k] /\ row[j].st # "NONE" => j = k
      BY <2>2 DEF RowMove, SlotInv, OneRow, HasRow
    <3>2. row'[k] \in Book!Entry
      BY <2>2 DEF RowMove, TypeOK, RowRecord, RowStatus, Book!Entry
    <3>3. row'[k].st # "FAILED" => NotAhead(gw[k], row'[k].st, row'[k].bal)
      BY <2>2 DEF RowMove, MoneyInv, RowsFollowGateway
    <3>4. gw[k].st = "CANCELED" => MoneyTaken(gw[k]) /\ gw[k].bal = 0
      BY DEF MoneyInv, CancelledWhenEmpty, MoneyTaken
    <3>5. bankOf(gw)[k].left = gw[k].bal /\ (bankOf(gw)[k].taken <=> MoneyTaken(gw[k]))
      OBVIOUS
    <3>6. Book!Truthful(row'[k], bankOf(gw)[k])
      BY <3>3, <3>4, <3>5 DEF Book!Truthful, NotAhead
    <3> QED BY <2>2, <3>1, <3>2, <3>6 DEF Book!Record, RowMove
  <2>3. ASSUME NEW k \in Key, BankMove(k)
        PROVE  Book!Take(k) \/ Book!GiveBack(k) \/ UNCHANGED Book!vars
    <3>1. \A j \in Key : j # k => gw'[j] = gw[j] BY <2>3 DEF BankMove, TypeOK
    <3>2. bankOf(gw') = [bankOf(gw) EXCEPT ![k] = bankOf(gw')[k]] BY <3>1
    <3>3. /\ bankOf(gw)[k] = [taken |-> MoneyTaken(gw[k]), left |-> gw[k].bal]
          /\ bankOf(gw')[k] = [taken |-> MoneyTaken(gw'[k]), left |-> gw'[k].bal]
      OBVIOUS
    <3>4. CASE (MoneyTaken(gw'[k]) <=> MoneyTaken(gw[k])) /\ gw'[k].bal = gw[k].bal
      <4>1. MoneyTaken(gw'[k]) = MoneyTaken(gw[k]) BY <3>4 DEF MoneyTaken
      <4>2. bankOf(gw')[k] = bankOf(gw)[k] BY <3>3, <3>4, <4>1
      <4>3. bankOf(gw') = bankOf(gw) BY <3>1, <4>2
      <4> QED BY <2>3, <4>3 DEF Book!vars, BankMove
    <3>5. CASE ~MoneyTaken(gw[k]) /\ MoneyTaken(gw'[k]) /\ gw'[k].bal = gw[k].bal
      <4>1. MoneyTaken(gw'[k]) = TRUE BY <3>5 DEF MoneyTaken
      <4>2. bankOf(gw')[k] = [taken |-> TRUE, left |-> bankOf(gw)[k].left]
        BY <3>3, <3>5, <4>1
      <4> QED BY <2>3, <3>2, <3>3, <3>5, <4>2 DEF Book!Take, BankMove
    <3>6. CASE MoneyTaken(gw[k]) /\ MoneyTaken(gw'[k]) /\ gw'[k].bal < gw[k].bal
      <4>1. gw'[k].bal \in Nat BY DEF TypeOK, GatewayPayment
      <4>2. MoneyTaken(gw'[k]) = TRUE BY <3>6 DEF MoneyTaken
      <4>3. bankOf(gw')[k] \in Book!Account /\ bankOf(gw')[k].taken
            /\ bankOf(gw')[k].left < bankOf(gw)[k].left
        BY <3>3, <3>6, <4>1, <4>2 DEF Book!Account
      <4> QED BY <2>3, <3>2, <3>3, <3>6, <4>3 DEF Book!GiveBack, BankMove
    <3> QED BY <2>3, <3>4, <3>5, <3>6 DEF BankMove
  <2> QED BY <2>1, <2>2, <2>3, StepMoves DEF vars, Book!Next
<1>3. Init => TypeOK /\ MoneyInv /\ SlotInv BY TypeInit, MoneyInit, SlotInit
<1>4. TypeOK /\ MoneyInv /\ SlotInv /\ [Next]_vars => (TypeOK /\ MoneyInv /\ SlotInv)'
  BY TypeNext, MoneyNext, SlotNext
<1> QED BY <1>1, <1>2, <1>3, <1>4, PTL DEF Spec, KeepsTheBook, Book!Spec
=============================================================================
