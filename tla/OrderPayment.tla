---------------------------- MODULE OrderPayment ----------------------------
(***************************************************************************)
(* Checkout, confirmation, cancellation, return and synchronisation of     *)
(* payments (payment.service.ts), the admin's edits of an order group      *)
(* (order.service.ts), the reward points of a purchase (point.service.ts)  *)
(* and the membership job (payment-queue.processer.ts), for one customer.  *)
(*                                                                         *)
(* A request is a handler running in the server.  Handlers interleave at   *)
(* every await, so a handler is a chain of steps: a read, a call to Toss,  *)
(* a transaction.  A prisma.$transaction is one step: it commits whole or  *)
(* not at all.  What a handler holds between steps is in req[r], and is    *)
(* lost if the server crashes.                                             *)
(***************************************************************************)
EXTENDS FiniteSets, Functions, TossGateway, MembershipTier

CONSTANTS
    Group,          \* order groups: one per checkout of the customer
    Key,            \* Toss payment keys: one per payment attempt
    GroupOf,        \* the order group an attempt pays for
    Product,
    Tracked,        \* products whose origin (units for sale) is not null
    Checkout,       \* what each checkout asked for
    Req,            \* requests the server runs at the same time
    Edit,           \* bodies of PATCH order-group that the admin may send
    Absent,         \* a field, or an edit, that is not there
    PartialAmount,  \* values the admin gives for cancelAmount
    SyncKey,        \* keys somebody asks to sync with Toss
    CouponLevel,    \* membership levels that come with coupons
    MetadataUser,   \* TRUE if Toss metadata names the customer
    VirtualKey,     \* attempts paid by virtual account: approved, not deposited
    Faults,         \* which of "lost", "db", "job", "queue" may happen
    MaxCrashes,     \* bound: how often the server process may die
    InitOrigin, InitStockQty, InitPoints, InitCoupons

Situation == {"PENDING", "COMPLETED", "FAILED", "BEING_SHIPPED", "SHIPPED",
              "CANCELLED", "RETURNED"}

RowStatus == {"NONE", "PENDING", "SUCCESS", "CANCELLED", "FAILED"}

JobAttempts == 3

ASSUME ModelAssumption ==
    /\ GroupOf \in [Key -> Group]
    /\ Key # {}
    /\ IsFiniteSet(Product)
    /\ Tracked \subseteq Product
    /\ Checkout \in [Group -> [amount : Nat \ {0}, fee : Nat, pts : Nat,
                               qty : [Product -> Nat],
                               direct : BOOLEAN, coupon : BOOLEAN]]
    /\ Absent \notin Situation /\ Absent \notin Nat
    /\ Edit \subseteq [sit : Situation \cup {Absent}, final : Nat \cup {Absent},
                       fee : Nat \cup {Absent}, pts : Nat \cup {Absent},
                       waybill : BOOLEAN]
    /\ Absent \notin Edit
    /\ PartialAmount \subseteq Nat
    /\ CouponLevel \subseteq Level
    /\ SyncKey \subseteq Key /\ VirtualKey \subseteq Key
    /\ MetadataUser \in BOOLEAN
    /\ Faults \subseteq {"lost", "db", "job", "queue"}
    /\ MaxCrashes \in Nat
    /\ InitOrigin \in [Product -> Nat] /\ InitStockQty \in [Product -> Nat]
    /\ InitPoints \in Nat /\ InitCoupons \in Nat

VARIABLES
    group,    \* OrderGroup rows: situation, finalAmount, deliveryFee, pointsUsed,
              \* and whether courierCompany and invoiceNumber are set
    row,      \* Payment rows by paymentKey: status and balanceAmount
    gw,       \* the payments as Toss has them
    cart,     \* products in the customer's cart
    stock,    \* Product.origin and Product.stockQuantity
    account,  \* the User row, the UserMembership row and the ISSUED coupons
    ledger,   \* per order group: Point rows and CouponHistory rows about it
    job,      \* per order group: the membership job of its payment
    req,      \* the requests in flight
    adm,      \* per order group: the admin's edit in flight
    crashes

vars == <<group, row, gw, cart, stock, account, ledger, job, req, adm, crashes>>

Ordered(g) == {p \in Product : Checkout[g].qty[p] > 0}

\* Mutant: a failed payment does not take the slot of its order group.
HasRow_Failed(g) == \E k \in Key : GroupOf[k] = g /\ row[k].st \notin {"NONE", "FAILED"}

\* orderGroupNumber and paymentKey are both unique in Payment.
HasRow(g) == \E k \in Key : GroupOf[k] = g /\ row[k].st # "NONE"

\* Mutant: Toss's own spelling of the status, which the schema does not know.
mapTossStatus_Spelling(st) ==
    CASE st \in {"READY", "WAITING_FOR_DEPOSIT"} -> "PENDING"
      [] st \in {"DONE", "PARTIAL_CANCELED"}     -> "SUCCESS"
      [] st = "CANCELED"                         -> "CANCELED"
      [] st \in {"ABORTED", "EXPIRED"}           -> "FAILED"

mapTossStatusToPaymentStatus(st) ==
    CASE st \in {"READY", "WAITING_FOR_DEPOSIT"} -> "PENDING"
      [] st \in {"DONE", "PARTIAL_CANCELED"}     -> "SUCCESS"
      [] st = "CANCELED"                         -> "CANCELLED"
      [] st \in {"ABORTED", "EXPIRED"}           -> "FAILED"

\* A free slot.  The other fields have the same values in every free slot.
IdleReq == [pc |-> "idle", key |-> CHOOSE k \in Key : TRUE,
            st |-> "NONE", bal |-> 0, num |-> 0,
            level |-> CHOOSE l \in Level : TRUE]

NoGroup == [sit |-> Absent, final |-> 0, fee |-> 0, pts |-> 0, waybill |-> FALSE]
NoLedger == [deducted |-> 0, earned |-> 0, used |-> 0, bonus |-> 0]
NoJob == [pc |-> "none", before |-> CHOOSE l \in Level : TRUE,
          total |-> 0, left |-> JobAttempts]

Init ==
    /\ group = [g \in Group |-> NoGroup]
    /\ row = [k \in Key |-> [st |-> "NONE", bal |-> 0]]
    /\ gw = [k \in Key |-> [st |-> "READY", bal |-> Checkout[GroupOf[k]].amount]]
    /\ cart = Product
    /\ stock = [origin |-> InitOrigin, qty |-> InitStockQty]
    /\ account = [avail |-> InitPoints, usedTotal |-> 0, purchased |-> 0,
                  level |-> TierOf(0), member |-> TierOf(0),
                  coupons |-> InitCoupons]
    /\ ledger = [g \in Group |-> NoLedger]
    /\ job = [g \in Group |-> NoJob]
    /\ req = [r \in Req |-> IdleReq]
    /\ adm = [g \in Group |-> Absent]
    /\ crashes = 0

-----------------------------------------------------------------------------
(* initiatePayment, initiatePaymentV2 (direct): the checks and the creation *)
(* of the order group.  Nothing is reserved.                                *)

CanInitiate(g) ==
    /\ Checkout[g].pts > 0 => Checkout[g].pts =< account.avail
    /\ \A p \in Tracked : Checkout[g].qty[p] =< stock.origin[p]
    /\ Ordered(g) \subseteq IF Checkout[g].direct THEN Tracked ELSE cart

Initiate(g) ==
    /\ group[g].sit = Absent
    /\ CanInitiate(g)
    /\ group' = [group EXCEPT ![g] =
                    [sit |-> "PENDING", final |-> Checkout[g].amount,
                     fee |-> Checkout[g].fee, pts |-> Checkout[g].pts,
                     waybill |-> FALSE]]
    /\ UNCHANGED <<row, gw, cart, stock, account, ledger, job, req, adm, crashes>>

\* removeItem, item by item: an error of one is swallowed and the item stays.
CartsWithout(g) ==
    {cart \ gone : gone \in IF "db" \in Faults THEN SUBSET Ordered(g) ELSE {Ordered(g)}}

\* Any error of a cart checkout removes the requested items from the cart.
InitiateFails(g) ==
    /\ group[g].sit = Absent
    /\ ~CanInitiate(g) \/ "db" \in Faults
    /\ ~Checkout[g].direct
    /\ cart' \in CartsWithout(g)
    /\ UNCHANGED <<group, row, gw, stock, account, ledger, job, req, adm, crashes>>

-----------------------------------------------------------------------------
(* confirmPayment *)

Goto(r, pc) == req' = [req EXCEPT ![r].pc = pc]
Finish(r)   == req' = [req EXCEPT ![r] = IdleReq]

\* Toss is called first, outside any transaction.
ConfirmApproved(r, k) ==
    /\ req[r].pc = "idle" /\ group[GroupOf[k]].sit # Absent
    /\ gw[k].st = "READY"
    /\ LET paid == Approve(gw[k], k \in VirtualKey) IN
       /\ gw' = [gw EXCEPT ![k] = paid]
       /\ req' = [req EXCEPT ![r] =
                    [IdleReq EXCEPT !.pc = "confirmTx", !.key = k,
                        !.st = mapTossStatusToPaymentStatus(paid.st),
                        !.bal = paid.bal]]
    /\ UNCHANGED <<group, row, cart, stock, account, ledger, job, adm, crashes>>

\* Mutant: the error of Toss is taken for an answer.
ConfirmRefused_GoesOn(r, k) ==
    /\ req[r].pc = "idle" /\ group[GroupOf[k]].sit # Absent
    /\ gw[k].st = "READY"
    /\ req' = [req EXCEPT ![r] = [IdleReq EXCEPT !.pc = "confirmTx", !.key = k,
                                     !.st = "SUCCESS", !.bal = gw[k].bal]]
    /\ UNCHANGED <<group, row, gw, cart, stock, account, ledger, job, adm, crashes>>

\* Toss declines the attempt, or refuses a payment it has already processed.
ConfirmRefused(r, k) ==
    /\ req[r].pc = "idle" /\ group[GroupOf[k]].sit # Absent
    /\ gw' \in {gw} \cup (IF gw[k].st = "READY"
                            THEN {[gw EXCEPT ![k].st = "ABORTED"]} ELSE {})
    /\ req' = [req EXCEPT ![r] = [IdleReq EXCEPT !.pc = "failing", !.key = k]]
    /\ UNCHANGED <<group, row, cart, stock, account, ledger, job, adm, crashes>>

\* Toss approves, but its answer does not arrive within the axios timeout.
ConfirmLost(r, k) ==
    /\ "lost" \in Faults
    /\ req[r].pc = "idle" /\ group[GroupOf[k]].sit # Absent
    /\ gw[k].st = "READY"
    /\ gw' = [gw EXCEPT ![k] = Approve(@, k \in VirtualKey)]
    /\ req' = [req EXCEPT ![r] = [IdleReq EXCEPT !.pc = "failing", !.key = k]]
    /\ UNCHANGED <<group, row, cart, stock, account, ledger, job, adm, crashes>>

\* Coupons the orders of g were created with: one per order.
CouponsOf(g) == IF Checkout[g].coupon THEN Cardinality(Ordered(g)) ELSE 0

\* The transaction.  The row it inserts must be the only one of its group.
ConfirmTx(r) ==
    LET k == req[r].key
        g == GroupOf[k]
        n == CouponsOf(g)
    IN  /\ req[r].pc = "confirmTx"
        /\ ~HasRow(g)
        /\ cart' = IF Checkout[g].direct THEN cart ELSE cart \ Ordered(g)
        /\ ledger' = [ledger EXCEPT ![g].used = @ + n,
                                    ![g].deducted = @ + group[g].pts]
        /\ account' = [account EXCEPT
                !.coupons = IF n =< @ THEN @ - n ELSE 0,
                !.avail = @ - group[g].pts,
                !.usedTotal = @ + group[g].pts,
                !.purchased = @ + group[g].final]
        /\ row' = [row EXCEPT ![k] = [st |-> req[r].st, bal |-> req[r].bal]]
        /\ group' = [group EXCEPT ![g].sit = "COMPLETED"]
        /\ stock' = [stock EXCEPT !.origin =
                [p \in Product |-> IF p \in Tracked THEN @[p] - Checkout[g].qty[p]
                                                    ELSE @[p]]]
        /\ req' = [req EXCEPT ![r].pc = "rewardRead", ![r].level = account.level]
        /\ UNCHANGED <<gw, job, adm, crashes>>

\* Mutant: the coupons are written outside the transaction.
ConfirmTxFails_CouponsStay(r) ==
    LET g == GroupOf[req[r].key] IN
    /\ req[r].pc = "confirmTx"
    /\ HasRow(g) \/ "db" \in Faults
    /\ ledger' = [ledger EXCEPT ![g].used = @ + CouponsOf(g)]
    /\ Goto(r, "failing")
    /\ UNCHANGED <<group, row, gw, cart, stock, account, job, adm, crashes>>

\* Unique violation, deadlock or timeout: nothing of the transaction stays.
ConfirmTxFails(r) ==
    /\ req[r].pc = "confirmTx"
    /\ HasRow(GroupOf[req[r].key]) \/ "db" \in Faults
    /\ Goto(r, "failing")
    /\ UNCHANGED <<group, row, gw, cart, stock, account, ledger, job, adm, crashes>>

\* issueAfterPayment: read the balance, insert the Point row, write the
\* balance read plus the reward.  Its errors are swallowed.
RewardOf(r) == Reward(req[r].level, Checkout[GroupOf[req[r].key]].amount)

RewardRead(r) ==
    /\ req[r].pc = "rewardRead"
    /\ req' = [req EXCEPT ![r].pc = IF RewardOf(r) > 0 THEN "rewardRow" ELSE "enqueue",
                          ![r].num = account.avail]
    /\ UNCHANGED <<group, row, gw, cart, stock, account, ledger, job, adm, crashes>>

RewardRow(r) ==
    /\ req[r].pc = "rewardRow"
    /\ ledger' = [ledger EXCEPT ![GroupOf[req[r].key]].earned = @ + RewardOf(r)]
    /\ Goto(r, "rewardSet")
    /\ UNCHANGED <<group, row, gw, cart, stock, account, job, adm, crashes>>

RewardSet(r) ==
    /\ req[r].pc = "rewardSet"
    /\ account' = [account EXCEPT !.avail = req[r].num + RewardOf(r)]
    /\ Goto(r, "enqueue")
    /\ UNCHANGED <<group, row, gw, cart, stock, ledger, job, adm, crashes>>

RewardFails(r) ==
    /\ "db" \in Faults
    /\ req[r].pc \in {"rewardRead", "rewardRow", "rewardSet"}
    /\ Goto(r, "enqueue")
    /\ UNCHANGED <<group, row, gw, cart, stock, account, ledger, job, adm, crashes>>

\* The membership job; a failure to enqueue it is swallowed too.
Enqueue(r) ==
    LET g == GroupOf[req[r].key] IN
    /\ req[r].pc = "enqueue"
    /\ \/ job' = [job EXCEPT ![g] = [NoJob EXCEPT !.pc = "queued", !.before = req[r].level]]
       \/ /\ "queue" \in Faults
          /\ job' = [job EXCEPT ![g].pc = "lost"]
    /\ Finish(r)
    /\ UNCHANGED <<group, row, gw, cart, stock, account, ledger, adm, crashes>>

\* Mutant: the handler ends before the failed payment is recorded.
FailMark_Ends(r) ==
    LET g == GroupOf[req[r].key] IN
    /\ req[r].pc = "failing"
    /\ cart' \in IF Checkout[g].direct THEN {cart} ELSE CartsWithout(g)
    /\ group' = [group EXCEPT ![g].sit = "FAILED"]
    /\ Finish(r)
    /\ UNCHANGED <<row, gw, stock, account, ledger, job, adm, crashes>>

\* The catch block: cart items out, the group FAILED whatever its situation,
\* then a FAILED payment row if the unique keys still let one in.
FailMark(r) ==
    LET g == GroupOf[req[r].key] IN
    /\ req[r].pc = "failing"
    /\ cart' \in IF Checkout[g].direct THEN {cart} ELSE CartsWithout(g)
    /\ \/ group' = [group EXCEPT ![g].sit = "FAILED"]
       \/ "db" \in Faults /\ UNCHANGED group
    /\ Goto(r, "recording")
    /\ UNCHANGED <<row, gw, stock, account, ledger, job, adm, crashes>>

FailRecord(r) ==
    LET k == req[r].key IN
    /\ req[r].pc = "recording"
    /\ \/ ~HasRow(GroupOf[k]) /\ row' = [row EXCEPT ![k] = [st |-> "FAILED", bal |-> 0]]
       \/ (HasRow(GroupOf[k]) \/ "db" \in Faults) /\ UNCHANGED row
    /\ Finish(r)
    /\ UNCHANGED <<group, gw, cart, stock, account, ledger, job, adm, crashes>>

-----------------------------------------------------------------------------
(* cancelPayment and returnPayment *)

\* Checked before Toss is called, and not again.
CancelRead(r, k) ==
    /\ req[r].pc = "idle"
    /\ row[k].st = "SUCCESS" /\ row[k].bal > 0
    /\ group[GroupOf[k]].sit = "COMPLETED"
    /\ req' = [req EXCEPT ![r] = [IdleReq EXCEPT !.pc = "cancelToss", !.key = k]]
    /\ UNCHANGED <<group, row, gw, cart, stock, account, ledger, job, adm, crashes>>

\* The refund of a return leaves the delivery fee with the shop.
ReturnRead(r, k) ==
    LET g == GroupOf[k]
        refundAmount == row[k].bal - group[g].fee
    IN  /\ req[r].pc = "idle"
        /\ row[k].st = "SUCCESS" /\ row[k].bal > 0
        /\ group[g].sit = "SHIPPED"
        /\ refundAmount > 0
        /\ req' = [req EXCEPT ![r] =
                     [IdleReq EXCEPT !.pc = "returnToss", !.key = k,
                         !.bal = refundAmount, !.num = group[g].final]]
        /\ UNCHANGED <<group, row, gw, cart, stock, account, ledger, job, adm, crashes>>

\* Toss gives the amount back; the answer carries the remaining balance.
Refunded(r, amount, next) ==
    LET k == req[r].key IN
    /\ Refundable(gw[k], amount)
    /\ gw' = [gw EXCEPT ![k] = Refund(@, amount)]
    /\ \/ req' = [req EXCEPT ![r].pc = next, ![r].bal = Refund(gw[k], amount).bal]
       \/ "lost" \in Faults /\ Finish(r)
    /\ UNCHANGED <<group, row, cart, stock, account, ledger, job, adm, crashes>>

\* Mutant: the error of Toss is taken for an answer without balance.
RefundRefused_GoesOn(r, amount) ==
    /\ ~Refundable(gw[req[r].key], amount)
    /\ req' = [req EXCEPT ![r].pc = IF @ = "cancelToss" THEN "cancelTx" ELSE "returnTx",
                          ![r].bal = 0]
    /\ UNCHANGED <<group, row, gw, cart, stock, account, ledger, job, adm, crashes>>

RefundRefused(r, amount) ==
    /\ ~Refundable(gw[req[r].key], amount)
    /\ Finish(r)
    /\ UNCHANGED <<group, row, gw, cart, stock, account, ledger, job, adm, crashes>>

\* Without cancelAmount Toss cancels all that remains.
CancelToss(r) ==
    /\ req[r].pc = "cancelToss"
    /\ \E amount \in PartialAmount \cup {gw[req[r].key].bal} :
          Refunded(r, amount, "cancelTx") \/ RefundRefused(r, amount)

ReturnToss(r) ==
    /\ req[r].pc = "returnToss"
    /\ Refunded(r, req[r].bal, "returnTx") \/ RefundRefused(r, req[r].bal)

\* Mutant: every refund counts as a full one.
RefundStatus_Full(left) == "CANCELLED"

\* Mutant: every refund counts as a partial one.
RefundStatus_Partial(left) == "SUCCESS"

\* The status of a payment of which the balance left remains.
RefundStatus(left) == IF left = 0 THEN "CANCELLED" ELSE "SUCCESS"

\* The transaction of both handlers: restock, books, situation, points,
\* purchases, coupons of this payment, membership.
ReverseTx(r, situation, final) ==
    LET k == req[r].key
        g == GroupOf[k]
        purchased == account.purchased - final
    IN  /\ stock' = [origin |-> [p \in Product |->
                         IF p \in Tracked THEN stock.origin[p] + Checkout[g].qty[p]
                                          ELSE stock.origin[p]],
                     qty |-> [p \in Product |-> stock.qty[p] + Checkout[g].qty[p]]]
        /\ row' = [row EXCEPT ![k] =
                     [st |-> RefundStatus(req[r].bal), bal |-> req[r].bal]]
        /\ group' = [group EXCEPT ![g].sit = situation]
        /\ account' = [account EXCEPT
                !.avail = @ + ledger[g].deducted - ledger[g].earned,
                !.usedTotal = @ - ledger[g].deducted,
                !.purchased = purchased,
                !.level = TierOf(purchased),
                !.member = TierOf(purchased)]
        /\ ledger' = [ledger EXCEPT ![g].bonus = 0]
        /\ Finish(r)
        /\ UNCHANGED <<gw, cart, job, adm, crashes>>

CancelTx(r) ==
    /\ req[r].pc = "cancelTx"
    /\ ReverseTx(r, "CANCELLED", group[GroupOf[req[r].key]].final)

ReturnTx(r) ==
    /\ req[r].pc = "returnTx"
    /\ ReverseTx(r, "RETURNED", req[r].num)

\* The transaction fails after Toss has paid back: nothing makes up for it.
ReverseTxFails(r) ==
    /\ "db" \in Faults
    /\ req[r].pc \in {"cancelTx", "returnTx"}
    /\ Finish(r)
    /\ UNCHANGED <<group, row, gw, cart, stock, account, ledger, job, adm, crashes>>

-----------------------------------------------------------------------------
(* syncPayment: ask Toss, then update or create the row.  The order group  *)
(* is left as it is.                                                       *)

SyncRead(r, k) ==
    /\ req[r].pc = "idle" /\ k \in SyncKey
    /\ req' = [req EXCEPT ![r] =
                 [IdleReq EXCEPT !.pc = "syncWrite", !.key = k,
                     !.st = mapTossStatusToPaymentStatus(gw[k].st),
                     !.bal = gw[k].bal]]
    /\ UNCHANGED <<group, row, gw, cart, stock, account, ledger, job, adm, crashes>>

SyncWrite(r) ==
    LET k == req[r].key
        creatable == /\ MetadataUser
                     /\ ~HasRow(GroupOf[k])
                     /\ group[GroupOf[k]].sit # Absent
    IN  /\ req[r].pc = "syncWrite"
        /\ IF row[k].st # "NONE" \/ creatable
             THEN row' = [row EXCEPT ![k] = [st |-> req[r].st, bal |-> req[r].bal]]
             ELSE UNCHANGED row
        /\ Finish(r)
        /\ UNCHANGED <<group, gw, cart, stock, account, ledger, job, adm, crashes>>

-----------------------------------------------------------------------------
(* updateOrderGroup and cancelOrderGroup *)

\* The situation an edit asks for: courier and invoice alone mean shipping.
AskedSituation(e) ==
    IF e.sit # Absent THEN e.sit ELSE IF e.waybill THEN "BEING_SHIPPED" ELSE Absent

Given(new, old) == IF new = Absent THEN old ELSE new

AdminRead(g, e) ==
    /\ adm[g] = Absent
    /\ group[g].sit \notin {Absent, "CANCELLED", "RETURNED"}
    /\ Given(AskedSituation(e), group[g].sit) \in {"BEING_SHIPPED", "SHIPPED"}
          => e.waybill \/ group[g].waybill
    /\ adm' = [adm EXCEPT ![g] = e]
    /\ UNCHANGED <<group, row, gw, cart, stock, account, ledger, job, req, crashes>>

AdminWrite(g) ==
    LET e == adm[g] IN
    /\ e # Absent
    /\ group' = [group EXCEPT ![g] =
                   [sit     |-> Given(AskedSituation(e), @.sit),
                    final   |-> Given(e.final, @.final),
                    fee     |-> Given(e.fee, @.fee),
                    pts     |-> Given(e.pts, @.pts),
                    waybill |-> @.waybill \/ e.waybill]]
    /\ adm' = [adm EXCEPT ![g] = Absent]
    /\ UNCHANGED <<row, gw, cart, stock, account, ledger, job, req, crashes>>

\* The checkout page gives up: no condition on the situation.
CancelOrderGroup(g) ==
    /\ group[g].sit # Absent
    /\ group' = [group EXCEPT ![g].sit = "FAILED"]
    /\ UNCHANGED <<row, gw, cart, stock, account, ledger, job, req, adm, crashes>>

-----------------------------------------------------------------------------
(* The membership job: one worker, three attempts, each a whole rerun. *)

Running == {"read", "upserted", "levelled", "issued"}

\* Mutant: several workers at a time.
JobRead_ManyWorkers(g) ==
    /\ job[g].pc = "queued"
    /\ job' = [job EXCEPT ![g].pc = "read", ![g].total = account.purchased]
    /\ UNCHANGED <<group, row, gw, cart, stock, account, ledger, req, adm, crashes>>

JobRead(g) ==
    /\ job[g].pc = "queued"
    /\ \A h \in Group : job[h].pc \notin Running
    /\ job' = [job EXCEPT ![g].pc = "read", ![g].total = account.purchased]
    /\ UNCHANGED <<group, row, gw, cart, stock, account, ledger, req, adm, crashes>>

\* recalculateUserMembership writes the UserMembership row, then the User row.
JobUpsert(g) ==
    /\ job[g].pc = "read"
    /\ account' = [account EXCEPT !.member = TierOf(job[g].total)]
    /\ job' = [job EXCEPT ![g].pc = "upserted"]
    /\ UNCHANGED <<group, row, gw, cart, stock, ledger, req, adm, crashes>>

JobLevel(g) ==
    /\ job[g].pc = "upserted"
    /\ account' = [account EXCEPT !.level = TierOf(job[g].total)]
    /\ job' = [job EXCEPT ![g].pc = "levelled"]
    /\ UNCHANGED <<group, row, gw, cart, stock, ledger, req, adm, crashes>>

\* The level is read again; a changed one earns the coupons of the level,
\* issued under this payment.  Errors in issuing them are swallowed.
JobCoupons(g) ==
    LET earned == account.level # job[g].before /\ account.level \in CouponLevel IN
    /\ job[g].pc = "levelled"
    /\ \/ earned /\ ledger' = [ledger EXCEPT ![g].bonus = @ + 1]
       \/ (~earned \/ "db" \in Faults) /\ UNCHANGED ledger
    /\ job' = [job EXCEPT ![g].pc = "issued"]
    /\ UNCHANGED <<group, row, gw, cart, stock, account, req, adm, crashes>>

JobDone(g) ==
    /\ job[g].pc = "issued"
    /\ job' = [job EXCEPT ![g] = [NoJob EXCEPT !.pc = "done"]]
    /\ UNCHANGED <<group, row, gw, cart, stock, account, ledger, req, adm, crashes>>

\* Mutant: attempts are not counted.
JobFails_Forever(g) ==
    /\ "job" \in Faults
    /\ job[g].pc \in {"read", "upserted", "levelled"}
    /\ job' = [job EXCEPT ![g].pc = "queued"]
    /\ UNCHANGED <<group, row, gw, cart, stock, account, ledger, req, adm, crashes>>

\* Mutant: an error after the coupons is rethrown too.
JobFails_AfterCoupons(g) ==
    /\ "job" \in Faults
    /\ job[g].pc \in Running
    /\ job' = [job EXCEPT ![g].left = @ - 1,
                          ![g].pc = IF job[g].left > 1 THEN "queued" ELSE "failed"]
    /\ UNCHANGED <<group, row, gw, cart, stock, account, ledger, req, adm, crashes>>

\* Rethrown, so that BullMQ tries again until the attempts are used up.
JobFails(g) ==
    /\ "job" \in Faults
    /\ job[g].pc \in {"read", "upserted", "levelled"}
    /\ job' = [job EXCEPT ![g].left = @ - 1,
                          ![g].pc = IF job[g].left > 1 THEN "queued" ELSE "failed"]
    /\ UNCHANGED <<group, row, gw, cart, stock, account, ledger, req, adm, crashes>>

-----------------------------------------------------------------------------
(* The environment *)

\* The customer deposits into the virtual account, or lets it expire.
VirtualAccount(k) ==
    /\ gw[k].st = "WAITING_FOR_DEPOSIT"
    /\ \E st \in {"DONE", "EXPIRED"} : gw' = [gw EXCEPT ![k].st = st]
    /\ UNCHANGED <<group, row, cart, stock, account, ledger, job, req, adm, crashes>>

\* The process dies: handlers are gone, a job the worker held is queued again.
Crash ==
    /\ crashes < MaxCrashes
    /\ crashes' = crashes + 1
    /\ req' = [r \in Req |-> IdleReq]
    /\ adm' = [g \in Group |-> Absent]
    /\ job' = [g \in Group |->
                 IF job[g].pc \in Running THEN [job[g] EXCEPT !.pc = "queued"] ELSE job[g]]
    /\ UNCHANGED <<group, row, gw, cart, stock, account, ledger>>

-----------------------------------------------------------------------------
ConfirmToss(r, k) == ConfirmApproved(r, k) \/ ConfirmRefused(r, k) \/ ConfirmLost(r, k)

\* A handler that has started goes on.
Continue(r) ==
    \/ ConfirmTx(r) \/ ConfirmTxFails(r)
    \/ RewardRead(r) \/ RewardRow(r) \/ RewardSet(r) \/ RewardFails(r)
    \/ Enqueue(r) \/ FailMark(r) \/ FailRecord(r)
    \/ CancelToss(r) \/ ReturnToss(r)
    \/ CancelTx(r) \/ ReturnTx(r) \/ ReverseTxFails(r)
    \/ SyncWrite(r)

Work(g) == \/ JobRead(g) \/ JobUpsert(g) \/ JobLevel(g) \/ JobCoupons(g)
           \/ JobDone(g) \/ JobFails(g)

Next ==
    \/ \E g \in Group : Initiate(g) \/ InitiateFails(g)
    \/ \E r \in Req, k \in Key : \/ ConfirmToss(r, k) \/ CancelRead(r, k)
                                 \/ ReturnRead(r, k) \/ SyncRead(r, k)
    \/ \E r \in Req : Continue(r)
    \/ \E g \in Group, e \in Edit : AdminRead(g, e)
    \/ \E g \in Group : AdminWrite(g) \/ CancelOrderGroup(g) \/ Work(g)
    \/ \E k \in Key : VirtualAccount(k)
    \/ Crash

Spec == Init /\ [][Next]_vars

\* Node resumes every handler that awaits (Toss calls time out after 30 s and
\* transactions after 20 or 30 s), and the BullMQ worker takes what is queued.
FairSpec == /\ Spec
            /\ \A r \in Req : WF_vars(Continue(r))
            /\ \A g \in Group : WF_vars(Work(g))
-----------------------------------------------------------------------------
(* Type invariant *)

Pc == {"idle", "confirmTx", "rewardRead", "rewardRow", "rewardSet", "enqueue",
       "failing", "recording", "cancelToss", "cancelTx", "returnToss",
       "returnTx", "syncWrite"}

JobPc == {"none", "queued", "lost", "done", "failed"} \cup Running

GroupRecord == [sit : Situation \cup {Absent}, final : Nat, fee : Nat, pts : Nat,
                waybill : BOOLEAN]
RowRecord == [st : RowStatus, bal : Nat]
StockRecord == [origin : [Product -> Int], qty : [Product -> Int]]
AccountRecord == [avail : Int, usedTotal : Int, purchased : Int,
                  level : Level, member : Level, coupons : Nat]
LedgerRecord == [deducted : Nat, earned : Nat, used : Nat, bonus : Nat]
JobRecord == [pc : JobPc, before : Level, total : Int, left : 0..JobAttempts]
ReqRecord == [pc : Pc, key : Key, st : RowStatus, bal : Nat, num : Int, level : Level]

\* Shape of the state.  Only points, stock and purchases may be negative.
TypeOK ==
    /\ group \in [Group -> GroupRecord]
    /\ row \in [Key -> RowRecord]
    /\ gw \in [Key -> GatewayPayment]
    /\ cart \subseteq Product
    /\ stock \in StockRecord
    /\ account \in AccountRecord
    /\ ledger \in [Group -> LedgerRecord]
    /\ job \in [Group -> JobRecord]
    /\ req \in [Req -> ReqRecord]
    /\ adm \in [Group -> Edit \cup {Absent}]
    /\ crashes \in Nat

-----------------------------------------------------------------------------
(* Safety *)

\* To say that payment p of Toss has status st and balance bal is not ahead of
\* Toss: SUCCESS only if the money was taken, CANCELLED only if all of it was
\* given back, and no smaller balance than Toss has left.
NotAhead(p, st, bal) ==
    /\ st = "SUCCESS" => MoneyTaken(p)
    /\ st = "CANCELLED" => p.st = "CANCELED"
    /\ bal >= p.bal

\* What the shop books never runs ahead of what Toss has done.  Rows are written
\* by confirm, cancel, return and sync from answers of Toss that other requests
\* may have overtaken, in any order.
RowsFollowGateway ==
    \A k \in Key :
      row[k].st \notin {"NONE", "FAILED"} => NotAhead(gw[k], row[k].st, row[k].bal)

\* The answers requests still hold are not ahead either, and Toss has cancelled
\* a payment exactly when nothing of it is left: with these RowsFollowGateway is
\* inductive.
AnswerFollowsGateway(r) ==
    /\ req[r].pc \in {"confirmTx", "syncWrite"}
         => NotAhead(gw[req[r].key], req[r].st, req[r].bal)
    /\ req[r].pc \in {"cancelTx", "returnTx"}
         => NotAhead(gw[req[r].key], "SUCCESS", req[r].bal)

CancelledWhenEmpty == \A k \in Key : gw[k].st = "CANCELED" <=> gw[k].bal = 0

MoneyInv == /\ RowsFollowGateway
            /\ \A r \in Req : AnswerFollowsGateway(r)
            /\ CancelledWhenEmpty

\* Rows share no order group; what a request is about to write is a status, and
\* the payment it is about to reverse has a row.
OneRow == \A j, k \in Key :
    GroupOf[j] = GroupOf[k] /\ row[j].st # "NONE" /\ row[k].st # "NONE" => j = k

KnowsItsRow(r) ==
    /\ req[r].pc \in {"confirmTx", "syncWrite"} => req[r].st # "NONE"
    /\ req[r].pc \in {"cancelToss", "cancelTx", "returnToss", "returnTx"}
         => row[req[r].key].st # "NONE"

SlotInv == OneRow /\ \A r \in Req : KnowsItsRow(r)

Paid(k) == row[k].st \in {"SUCCESS", "CANCELLED"}

\* Points spent, coupons used, rewards and level coupons exist only for a group
\* with a payment that did not fail (a virtual account may expire later): the
\* transaction of confirmPayment leaves nothing behind when it fails, whichever
\* of two concurrent confirmations of the group fails it.
EffectsHavePayment ==
    \A g \in Group :
      ledger[g] # NoLedger =>
        \E k \in Key : /\ GroupOf[k] = g
                       /\ row[k].st # "NONE"
                       /\ row[k].st = "FAILED" => k \in VirtualKey

\* A group reads COMPLETED, CANCELLED or RETURNED only if Toss took money for it.
\* (Edits that write these situations themselves, and virtual accounts, apart.)
SettledMeansTaken ==
    \A g \in Group :
      group[g].sit \in {"COMPLETED", "CANCELLED", "RETURNED"} =>
        \E k \in Key : GroupOf[k] = g /\ (MoneyTaken(gw[k]) \/ k \in VirtualKey)

\* What each payment is worth, in the three books it is entered in.
Amounts == [k \in Key |-> Checkout[GroupOf[k]].amount]
PointsSpent == [k \in Key |-> Checkout[GroupOf[k]].pts]
Units(p) == [k \in Key |-> Checkout[GroupOf[k]].qty[p]]

Booked == {k \in Key : row[k].st = "SUCCESS"}

\* The customer's totals and the units for sale are those of the payments that
\* stand: each payment is booked once and reversed once, however confirmations
\* and full cancellations interleave.  (Without partial refunds and edits.)
BooksAgree ==
    /\ account.purchased = SumFunctionOnSet(Amounts, Booked)
    /\ account.usedTotal = SumFunctionOnSet(PointsSpent, Booked)
    /\ \A p \in Tracked :
          stock.origin[p] + SumFunctionOnSet(Units(p), Booked) = InitOrigin[p]

InFlight(k) == \E r \in Req : req[r].pc # "idle" /\ req[r].key = k

\* Once nothing is in flight for a payment its row shows what Toss has.
\* (Without partial refunds, lost answers and failing transactions.)
SettledRowsAgree ==
    \A k \in Key :
      Paid(k) /\ ~InFlight(k) =>
        /\ row[k].bal = gw[k].bal
        /\ (row[k].st = "CANCELLED") = (gw[k].st = "CANCELED")

Quiet == /\ \A r \in Req : req[r].pc = "idle"
         /\ \A g \in Group : job[g].pc \in {"none", "done"}

\* When all jobs are through, the membership is the one the purchases deserve,
\* in both places that store it: however the jobs of several payments overlap
\* with their transactions, the last job sees the last purchase.  (As long as
\* nothing has been cancelled or returned.)
LevelSettles ==
    Quiet /\ (\A k \in Key : row[k].st # "CANCELLED") =>
        /\ account.level = TierOf(account.purchased)
        /\ account.member = account.level

\* Money that Toss has taken is never lost sight of: its order group has a payment
\* row, or a handler of confirmPayment is still bound to write one, even if the
\* answer of Toss was lost or another confirmation of the group fails meanwhile.
\* (Without failing transactions and crashes.)
TakenIsHeld ==
    \A k \in Key :
      MoneyTaken(gw[k]) =>
        \/ HasRow(GroupOf[k])
        \/ \E r \in Req : /\ req[r].key = k
                           /\ req[r].pc \in {"confirmTx", "failing", "recording"}

\* One payment brings the coupons of a new level at most once.  (Without crashes.)
BonusIssuedOnce == \A g \in Group : ledger[g].bonus =< 1

-----------------------------------------------------------------------------
(* Refinement *)

Book == INSTANCE PaymentBook WITH
    Payment <- Key, OrderOf <- GroupOf, book <- row,
    bank <- [k \in Key |-> [taken |-> MoneyTaken(gw[k]), left |-> gw[k].bal]]

\* Seen from outside, the handlers of payment.service.ts, however they interleave,
\* fail and crash, keep a book that follows the bank: one payment per order group
\* (Payment.orderGroupNumber), never removed, never ahead of Toss.
KeepsTheBook == Book!Spec

-----------------------------------------------------------------------------
(* Liveness *)

\* Money that Toss takes is eventually accounted for by a payment row of its
\* order group, also when the answer of Toss is lost.
TakenGetsRow == \A k \in Key : MoneyTaken(gw[k]) ~> HasRow(GroupOf[k])

\* A queued membership job comes to an end.
JobsEnd == \A g \in Group : job[g].pc = "queued" ~> job[g].pc \in {"done", "failed"}

-----------------------------------------------------------------------------
(* What the repository says of itself *)

\* payment.service.ts:1250 tells the customer of a failed payment to try again,
\* and :801 that a confirmed payment is saved: once its requests have ended, a
\* group whose money was taken has a payment that says so.
RetryIsRecorded ==
    \A k \in Key :
      MoneyTaken(gw[k]) /\ (\A j \in Key : GroupOf[j] = GroupOf[k] => ~InFlight(j)) =>
        \E j \in Key : GroupOf[j] = GroupOf[k] /\ Paid(j)

\* payment.service.ts:1343 and :1358 allow a cancellation only for a group that
\* is COMPLETED or SHIPPED.
CancelsOnlyAllowed ==
    [][\A r \in Req : CancelTx(r) =>
          group[GroupOf[req[r].key]].sit \in {"COMPLETED", "SHIPPED"}]_vars

\* order.service.ts:1201: an order group that is cancelled or returned may not
\* be updated.
EditsRespectFinal ==
    [][\A g \in Group : AdminWrite(g) => group[g].sit \notin {"CANCELLED", "RETURNED"}]_vars
=============================================================================
