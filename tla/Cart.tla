-------------------------------- MODULE Cart --------------------------------
(***************************************************************************)
(* One shopping cart: carts/services/cart.service.ts and                   *)
(* cart-item.service.ts on PostgreSQL's READ COMMITTED.                    *)
(*                                                                         *)
(* A handler checks rows, then opens a transaction, writes cart items, adds *)
(* up the ACTIVE ones it sees and writes the sum to the cart.  What it has *)
(* written is in pend[r]: the rows are locked, and nobody else sees them   *)
(* until the commit.  A row keeps its id; the id of a removed row is never *)
(* used again.                                                             *)
(***************************************************************************)
EXTENDS Integers, FiniteSets, Functions

CONSTANTS
    Item,         \* ids of cart items
    Product,      \* products for sale, each with a sale price
    Price,
    Quantity,     \* quantities a request may ask for
    Req,          \* requests the server runs at the same time
    Absent,       \* a field that is not given, a row that was not found
    Faults,       \* {"db"} if a transaction may fail
    MaxRequests   \* bound on the requests begun

ASSUME CartAssumption ==
    /\ IsFiniteSet(Item)
    /\ Price \in [Product -> Nat]
    /\ Quantity \subseteq Nat \ {0}
    /\ Absent \notin Item /\ Absent \notin Product /\ Absent \notin Nat
    /\ MaxRequests \in Nat

VARIABLES
    cart,    \* the Cart row: totalAmount, checkedOutAt set
    item,    \* the CartItem rows
    pend,    \* per request: the rows its open transaction has written
    req,     \* the requests in flight
    begun,   \* how many requests have begun
    drift    \* history: may totalAmount be off?  (See TotalRight.)

vars == <<cart, item, pend, req, begun, drift>>

ItemStatus == {"none", "ACTIVE", "CHECKED_OUT", "gone"}

ItemRow(st, product, qty, price) ==
    [st |-> st, product |-> product, qty |-> qty, price |-> price]

NoItem == ItemRow("none", Absent, 0, 0)
GoneItem == ItemRow("gone", Absent, 0, 0)

\* A row the transaction has not written.
Unwritten == ItemRow("unwritten", Absent, 0, 0)
NoWrites == [i \in Item |-> Unwritten]

There(i) == item[i].st \in {"ACTIVE", "CHECKED_OUT"}

\* What the transaction of r sees: its own writes over what is committed.
View(r) == [i \in Item |-> IF pend[r][i].st = "unwritten" THEN item[i] ELSE pend[r][i]]

Locked(i, r) == \E q \in Req \ {r} : pend[q][i].st # "unwritten"

\* Mutant: every row counts, whatever its status.
Counted_All(row) == row.st \in {"ACTIVE", "CHECKED_OUT"}

\* Only ACTIVE items count.
Counted(row) == row.st = "ACTIVE"

\* The amount calculateCartTotal and recalculateCartTotal arrive at for the
\* items f.
SumOf(f) ==
    SumFunctionOnSet([i \in Item |-> IF Counted(f[i]) THEN f[i].qty * f[i].price ELSE 0], Item)

\* What totalAmount is meant to be.
Worth(f) ==
    SumFunctionOnSet([i \in Item |-> f[i].qty * f[i].price], {i \in Item : f[i].st = "ACTIVE"})

Request(pc, next, todo, product, qty, found, sum, late) ==
    [pc |-> pc, next |-> next, todo |-> todo, product |-> product, qty |-> qty,
     found |-> found, sum |-> sum, late |-> late]

IdleReq == Request("idle", "idle", {}, Absent, 0, Absent, 0, FALSE)

\* A request that goes on to the step pc.
To(q, pc) == Request(pc, q.next, q.todo, q.product, q.qty, q.found, q.sum, q.late)

Init ==
    /\ cart = [st |-> "none", total |-> 0, out |-> FALSE]
    /\ item = [i \in Item |-> NoItem]
    /\ pend = [r \in Req |-> NoWrites]
    /\ req = [r \in Req |-> IdleReq]
    /\ begun = 0
    /\ drift = FALSE

-----------------------------------------------------------------------------
\* A request begins.
Begin(r, q) ==
    /\ req[r].pc = "idle" /\ begun < MaxRequests
    /\ req' = [req EXCEPT ![r] = q]
    /\ begun' = begun + 1

Step(r, q) == req' = [req EXCEPT ![r] = q] /\ UNCHANGED begun

\* An exception, or a rollback: nothing the transaction wrote stays.
Ends(r) ==
    /\ Step(r, IdleReq)
    /\ pend' = [pend EXCEPT ![r] = NoWrites]
    /\ UNCHANGED <<cart, item, drift>>

\* The items change under a sum that another request has made already.
Holding == {"commit", "store"}
Overtaken(q) == IF q.pc \in Holding
    THEN Request(q.pc, q.next, q.todo, q.product, q.qty, q.found, q.sum, TRUE)
    ELSE q

ItemsChange(r, q) ==
    /\ req' = [s \in Req |-> IF s = r THEN q ELSE Overtaken(req[s])]
    /\ UNCHANGED begun

-----------------------------------------------------------------------------
(* createCart; the second of two concurrent creations hits Cart.userId *)

CreateCart ==
    /\ cart.st = "none"
    /\ cart' = [st |-> "there", total |-> 0, out |-> FALSE]
    /\ UNCHANGED <<item, pend, req, begun, drift>>

-----------------------------------------------------------------------------
(* addItem; with again it is called by addItemToCart, which then adds up   *)
(* once more.                                                              *)

AddRead(r, p, n, again) ==
    /\ cart.st = "there"
    /\ Begin(r, Request("find", IF again THEN "total" ELSE "idle", {}, p, n, Absent, 0, FALSE))
    /\ UNCHANGED <<cart, item, pend, drift>>

\* In the transaction: the row of the product, if there is one.
AddFind(r) ==
    LET q == req[r]
        rows == {i \in Item : There(i) /\ item[i].product = q.product}
    IN  /\ q.pc = "find"
        /\ \/ rows = {} /\ Step(r, To(q, "insert")) /\ UNCHANGED pend
           \/ \E i \in rows :
                /\ item[i].st = "ACTIVE"
                /\ Step(r, Request("add", q.next, {}, q.product, item[i].qty + q.qty, i, 0, FALSE))
                /\ UNCHANGED pend
           \/ \E i \in rows : item[i].st = "CHECKED_OUT" /\ Ends(r)
        /\ UNCHANGED <<cart, item, drift>>

\* The transaction of r writes row i, unless another one has it.
Write(r, i, row, q) ==
    /\ ~Locked(i, r)
    /\ pend' = [pend EXCEPT ![r][i] = row]
    /\ Step(r, q)
    /\ UNCHANGED <<cart, item, drift>>

\* Another transaction has this product in a row it has not committed.
KeyLocked(r, p) ==
    \E j \in Item : Locked(j, r) /\
        (item[j].product = p \/ \E s \in Req \ {r} : pend[s][j].product = p)

\* @@unique([cartId, productId])
KeyTaken(r, i, p) ==
    \E j \in Item \ {i} : View(r)[j].product = p

\* The quantity read before, plus the one asked for; the status stays.
AddWrite(r) ==
    LET q == req[r]
        i == q.found
    IN  /\ q.pc = "add"
        /\ \/ /\ There(i)
              /\ Write(r, i, ItemRow(item[i].st, item[i].product, q.qty, Price[q.product]),
                       To(q, "sum"))
           \/ ~There(i) /\ Ends(r)

InsertWrite(r) ==
    LET q == req[r] IN
    /\ q.pc = "insert"
    /\ ~KeyLocked(r, q.product)
    /\ \/ /\ cart.st = "there"
          /\ \E i \in Item :
                /\ item[i].st = "none" /\ ~KeyTaken(r, i, q.product)
                /\ Write(r, i, ItemRow("ACTIVE", q.product, q.qty, Price[q.product]), To(q, "sum"))
       \/ (cart.st # "there" \/ \E i \in Item : KeyTaken(r, i, q.product)) /\ Ends(r)

-----------------------------------------------------------------------------
(* updateItem, updateItemQuantity, bulkUpdateItems: the statuses are checked *)
(* before the transaction.                                                 *)

\* p or n may be Absent; the sale price stays that of the old product.
UpdateItem(r, i, p, n) ==
    /\ item[i].st = "ACTIVE"
    /\ Begin(r, Request("update", "idle", {i}, p, n, Absent, 0, FALSE))
    /\ UNCHANGED <<cart, item, pend, drift>>

UpdateItemQuantity(r, i, n) ==
    /\ item[i].st = "ACTIVE"
    /\ Begin(r, Request("update", "idle", {i}, Absent, n, Absent, 0, FALSE))
    /\ UNCHANGED <<cart, item, pend, drift>>

\* Refused for good once the cart has been checked out.
BulkUpdateItems(r, S, n) ==
    /\ S # {} /\ \A i \in S : item[i].st = "ACTIVE"
    /\ ~cart.out
    /\ Begin(r, Request("update", "idle", S, Absent, n, Absent, 0, FALSE))
    /\ UNCHANGED <<cart, item, pend, drift>>

\* Mutant: a field left out is written as it is.
Given_Raw(new, old) == new

\* toEntityPartial: only the fields given.
Given(new, old) == IF new = Absent THEN old ELSE new

\* The rows one by one, in the order of the body.
UpdateWrite(r) ==
    LET q == req[r] IN
    /\ q.pc = "update"
    /\ q.product = Absent \/ ~KeyLocked(r, q.product)
    /\ \E i \in q.todo :
         LET clash == q.product # Absent /\ KeyTaken(r, i, q.product) IN
         \/ /\ There(i) /\ ~clash
            /\ Write(r, i, ItemRow(item[i].st, Given(q.product, item[i].product),
                                   Given(q.qty, item[i].qty), item[i].price),
                     Request(IF q.todo = {i} THEN "sum" ELSE "update", q.next, q.todo \ {i},
                             q.product, q.qty, Absent, 0, FALSE))
         \/ (~There(i) \/ clash) /\ Ends(r)

-----------------------------------------------------------------------------
(* removeItem *)

RemoveItem(r, i) ==
    /\ item[i].st = "ACTIVE"
    /\ Begin(r, Request("remove", "idle", {}, Absent, 0, i, 0, FALSE))
    /\ UNCHANGED <<cart, item, pend, drift>>

RemoveWrite(r) ==
    LET i == req[r].found IN
    /\ req[r].pc = "remove"
    /\ \/ There(i) /\ Write(r, i, GoneItem, To(req[r], "sum"))
       \/ ~There(i) /\ Ends(r)

-----------------------------------------------------------------------------
(* clearCart: one transaction, the rows found ACTIVE are deleted if they   *)
(* still are when their locks are free.                                    *)

ClearCart(r) ==
    /\ cart.st = "there"
    /\ Begin(r, Request("clear", "idle", {i \in Item : item[i].st = "ACTIVE"},
                        Absent, 0, Absent, 0, FALSE))
    /\ UNCHANGED <<cart, item, pend, drift>>

\* Mutant: the rows found are deleted by their ids.
Clearable_ById(i) == There(i)

Clearable(i) == item[i].st = "ACTIVE"

ClearWrite(r) ==
    /\ req[r].pc = "clear"
    /\ \A i \in req[r].todo : ~Locked(i, r)
    /\ pend' = [pend EXCEPT ![r] =
                  [i \in Item |-> IF i \in req[r].todo /\ Clearable(i) THEN GoneItem ELSE Unwritten]]
    /\ Step(r, To(req[r], "sum"))
    /\ UNCHANGED <<cart, item, drift>>

-----------------------------------------------------------------------------
(* recalculateCartTotal, the last two statements of every transaction *)

Recalculate(r) ==
    LET q == req[r] IN
    /\ q.pc = "sum"
    /\ Step(r, Request("commit", q.next, q.todo, Absent, 0, Absent, SumOf(View(r)), FALSE))
    /\ UNCHANGED <<cart, item, pend, drift>>

\* The total is written and everything becomes visible.
Commit(r) ==
    LET q == req[r] IN
    /\ q.pc = "commit"
    /\ \/ /\ cart.st = "there"
          /\ item' = View(r)
          /\ pend' = [pend EXCEPT ![r] = NoWrites]
          /\ cart' = [cart EXCEPT !.total = q.sum]
          /\ drift' = q.late
          /\ ItemsChange(r, To(IdleReq, q.next))
       \/ cart.st # "there" /\ Ends(r)

\* A deadlock, a timeout, a lost connection.
TxFails(r) ==
    /\ "db" \in Faults
    /\ req[r].pc \notin {"idle", "checkout", "stamp", "total", "store"}
    /\ Ends(r)

-----------------------------------------------------------------------------
(* calculateCartTotal: two statements of their own, at the end of          *)
(* addItemToCart and whenever the total is asked for.                      *)

AskTotal(r) ==
    /\ Begin(r, To(IdleReq, "total"))
    /\ UNCHANGED <<cart, item, pend, drift>>

TotalRead(r) ==
    /\ req[r].pc = "total"
    /\ Step(r, Request("store", "idle", {}, Absent, 0, Absent, SumOf(item), FALSE))
    /\ UNCHANGED <<cart, item, pend, drift>>

TotalWrite(r) ==
    /\ req[r].pc = "store"
    /\ IF cart.st = "there"
         THEN cart' = [cart EXCEPT !.total = req[r].sum] /\ drift' = req[r].late
         ELSE UNCHANGED <<cart, drift>>
    /\ Step(r, IdleReq)
    /\ UNCHANGED <<item, pend>>

-----------------------------------------------------------------------------
(* checkoutCart: updateMany, then the time stamp; totalAmount stays.       *)

CheckoutRead(r) ==
    /\ \E i \in Item : item[i].st = "ACTIVE"
    /\ Begin(r, To(IdleReq, "scan"))
    /\ UNCHANGED <<cart, item, pend, drift>>

\* updateMany looks for the ACTIVE rows, waits for those that are locked,
CheckoutScan(r) ==
    /\ req[r].pc = "scan"
    /\ Step(r, Request("checkout", "idle", {i \in Item : item[i].st = "ACTIVE"},
                       Absent, 0, Absent, 0, FALSE))
    /\ UNCHANGED <<cart, item, pend, drift>>

\* and looks again at what has become of them.
CheckoutWrite(r) ==
    LET taken == {i \in req[r].todo : item[i].st = "ACTIVE"} IN
    /\ req[r].pc = "checkout"
    /\ \A i \in req[r].todo : ~Locked(i, r)
    /\ item' = [i \in Item |-> IF i \in taken
                    THEN ItemRow("CHECKED_OUT", item[i].product, item[i].qty, item[i].price)
                    ELSE item[i]]
    /\ drift' = (drift \/ taken # {})
    /\ ItemsChange(r, To(IdleReq, "stamp"))
    /\ UNCHANGED <<cart, pend>>

CheckoutStamp(r) ==
    /\ req[r].pc = "stamp"
    /\ cart' = [cart EXCEPT !.out = cart.out \/ cart.st = "there"]
    /\ Step(r, IdleReq)
    /\ UNCHANGED <<item, pend, drift>>

-----------------------------------------------------------------------------
\* deleteCart: the rows go with the cart, once nobody holds one.
DeleteCart ==
    /\ cart.st = "there"
    /\ \A r \in Req : pend[r] = NoWrites
    /\ cart' = [st |-> "gone", total |-> 0, out |-> FALSE]
    /\ item' = [i \in Item |-> IF There(i) THEN GoneItem ELSE item[i]]
    /\ req' = [s \in Req |-> Overtaken(req[s])]
    /\ UNCHANGED <<pend, begun, drift>>

\* confirmPayment deletes the items its order was made of, whatever their
\* status, and leaves the total as it is.
PaymentTakes(S) ==
    /\ S # {} /\ \A i \in S : There(i) /\ \A r \in Req : pend[r][i].st = "unwritten"
    /\ item' = [i \in Item |-> IF i \in S THEN GoneItem ELSE item[i]]
    /\ drift' = TRUE
    /\ req' = [s \in Req |-> Overtaken(req[s])]
    /\ UNCHANGED <<cart, pend, begun>>

-----------------------------------------------------------------------------
Starts(r) ==
    \/ \E p \in Product, n \in Quantity, again \in BOOLEAN : AddRead(r, p, n, again)
    \/ \E i \in Item, p \in Product \cup {Absent}, n \in Quantity \cup {Absent} : UpdateItem(r, i, p, n)
    \/ \E i \in Item, n \in Quantity : UpdateItemQuantity(r, i, n)
    \/ \E S \in SUBSET Item, n \in Quantity : BulkUpdateItems(r, S, n)
    \/ \E i \in Item : RemoveItem(r, i)
    \/ ClearCart(r) \/ CheckoutRead(r) \/ AskTotal(r)

Continues(r) ==
    \/ AddFind(r) \/ AddWrite(r) \/ InsertWrite(r) \/ UpdateWrite(r) \/ RemoveWrite(r)
    \/ ClearWrite(r) \/ Recalculate(r) \/ Commit(r) \/ TxFails(r)
    \/ TotalRead(r) \/ TotalWrite(r)
    \/ CheckoutScan(r) \/ CheckoutWrite(r) \/ CheckoutStamp(r)

Next ==
    \/ CreateCart \/ DeleteCart
    \/ \E r \in Req : Starts(r) \/ Continues(r)
    \/ \E S \in SUBSET Item : PaymentTakes(S)

Spec == Init /\ [][Next]_vars
-----------------------------------------------------------------------------
Pc == {"idle", "find", "insert", "add", "update", "remove", "clear", "sum", "commit",
       "total", "store", "scan", "checkout", "stamp"}

ItemRecord == [st : ItemStatus \cup {"unwritten"}, product : Product \cup {Absent},
               qty : Nat, price : Nat]
ReqRecord == [pc : Pc, next : {"idle", "total", "stamp"}, todo : SUBSET Item,
              product : Product \cup {Absent}, qty : Nat \cup {Absent},
              found : Item \cup {Absent}, sum : Int, late : BOOLEAN]

\* Shape of the state.  updateItem may leave out the quantity, addItem may not.
TypeOK ==
    /\ cart \in [st : {"none", "there", "gone"}, total : Int, out : BOOLEAN]
    /\ item \in [Item -> ItemRecord]
    /\ \A i \in Item : item[i].st # "unwritten"
    /\ pend \in [Req -> [Item -> ItemRecord]]
    /\ req \in [Req -> ReqRecord]
    /\ \A r \in Req : req[r].pc \in {"find", "insert", "add"} => req[r].qty # Absent
    /\ begun \in Nat /\ drift \in BOOLEAN

\* cart-item.service.ts:520: the total counts the ACTIVE items.  Handlers add up
\* what they see while others change it, so it may be wrong; but only since the
\* items changed under a sum that was then written, or a checkout or a payment
\* took items away (drift).  A request that is not overtaken always sets it right,
\* whatever was wrong before.
TotalRight == cart.st = "there" /\ ~drift => cart.total = Worth(item)

\* The sums requests still hold are right too, unless they have been overtaken.
SumRight(r) ==
    /\ req[r].pc = "commit" /\ ~req[r].late => req[r].sum = Worth(View(r))
    /\ req[r].pc = "store" /\ ~req[r].late => req[r].sum = Worth(item)

CartInv == TotalRight /\ \A r \in Req : SumRight(r)

\* cart.service.ts:295 "keep CHECKED_OUT items": a clear that found an item ACTIVE
\* does not delete it if it has been checked out meanwhile.
ClearKeepsCheckedOut ==
    [][\A r \in Req, i \in Item :
          Commit(r) /\ i \in req[r].todo /\ item[i].st = "CHECKED_OUT" => item'[i] = item[i]]_vars
=============================================================================
