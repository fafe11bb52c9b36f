----------------------------- MODULE Cart_proofs -----------------------------
(* The total of a cart and the rows it is made of, for every value of the    *)
(* constants of Cart: any number of items, products and requests.            *)
EXTENDS Cart, Sums_proofs

-----------------------------------------------------------------------------
(* Types *)

\* A request carries what its next step needs; only an edit of several rows, a
\* clear and a checkout carry rows still to do.
Sensible(q) ==
    /\ q.pc \in {"find", "insert", "add"} => q.product \in Product /\ q.qty \in Nat
    /\ q.pc \in {"add", "remove"} => q.found \in Item
    /\ q.pc \in {"find", "insert", "add", "remove"} => q.todo = {}

TypeInv == TypeOK /\ \A r \in Req : Sensible(req[r])

Asks == {q \in ReqRecord : Sensible(q)}

LEMMA RequestIsRecord ==
    ASSUME NEW pc \in Pc, NEW next \in {"idle", "total", "stamp"}, NEW todo \in SUBSET Item,
           NEW product \in Product \cup {Absent}, NEW qty \in Nat \cup {Absent},
           NEW found \in Item \cup {Absent}, NEW sum \in Int, NEW late \in BOOLEAN
    PROVE  Request(pc, next, todo, product, qty, found, sum, late) \in ReqRecord
BY DEF Request, ReqRecord

LEMMA IdleAsks == IdleReq \in Asks
<1>1. IdleReq \in ReqRecord BY DEF IdleReq, Request, ReqRecord, Pc
<1> QED BY <1>1 DEF IdleReq, Request, Asks, Sensible

LEMMA ToAsks ==
    ASSUME NEW q \in Asks, NEW pc \in Pc,
           pc = "insert" => q.pc = "find",
           pc \notin {"find", "add", "remove"}
    PROVE  To(q, pc) \in Asks
<1>1. To(q, pc) \in ReqRecord
  BY DEF To, Request, Asks, ReqRecord
<1> QED BY <1>1 DEF To, Request, Asks, Sensible

LEMMA OvertakenAsks ==
    ASSUME NEW q \in Asks
    PROVE  Overtaken(q) \in Asks
<1>1. CASE q.pc \in Holding
  <2>1. Overtaken(q) = Request(q.pc, q.next, q.todo, q.product, q.qty, q.found, q.sum, TRUE)
    BY <1>1 DEF Overtaken
  <2>2. Overtaken(q) \in ReqRecord BY <2>1 DEF Request, Asks, ReqRecord
  <2> QED BY <1>1, <2>1, <2>2 DEF Asks, Sensible, Request, Holding
<1>2. CASE q.pc \notin Holding BY <1>2 DEF Overtaken
<1> QED BY <1>1, <1>2

\* The requests after the step of one of them.
LEMMA ReqAfterStep ==
    ASSUME TypeInv, NEW r \in Req, NEW q \in Asks, req' = [req EXCEPT ![r] = q]
    PROVE  req' \in [Req -> ReqRecord] /\ \A s \in Req : Sensible(req'[s])
BY DEF TypeInv, TypeOK, Asks

LEMMA ReqAfterChange ==
    ASSUME TypeInv, NEW r \in Req, NEW q \in Asks, ItemsChange(r, q)
    PROVE  req' \in [Req -> ReqRecord] /\ \A s \in Req : Sensible(req'[s])
<1>1. ASSUME NEW s \in Req PROVE req'[s] \in Asks
  <2>1. req[s] \in Asks BY DEF TypeInv, TypeOK, Asks
  <2> QED BY <2>1, OvertakenAsks DEF ItemsChange
<1>2. req' = [s \in Req |-> req'[s]] BY DEF ItemsChange
<1> QED BY <1>1, <1>2 DEF Asks

LEMMA ReqOvertaken ==
    ASSUME TypeInv, req' = [s \in Req |-> Overtaken(req[s])]
    PROVE  req' \in [Req -> ReqRecord] /\ \A s \in Req : Sensible(req'[s])
<1>1. ASSUME NEW s \in Req PROVE req'[s] \in Asks
  <2>1. req[s] \in Asks BY DEF TypeInv, TypeOK, Asks
  <2> QED BY <2>1, OvertakenAsks
<1> QED BY <1>1 DEF Asks

LEMMA ViewType ==
    ASSUME TypeInv, NEW r \in Req
    PROVE  /\ View(r) \in [Item -> ItemRecord]
           /\ \A i \in Item : View(r)[i].st # "unwritten"
BY DEF TypeInv, TypeOK, View

LEMMA ItemRowType ==
    ASSUME NEW st \in ItemStatus \cup {"unwritten"}, NEW product \in Product \cup {Absent},
           NEW qty \in Nat, NEW price \in Nat
    PROVE  ItemRow(st, product, qty, price) \in ItemRecord
BY DEF ItemRow, ItemRecord

LEMMA EmptyRowsType ==
    /\ NoItem \in ItemRecord /\ NoItem.st = "none"
    /\ GoneItem \in ItemRecord /\ GoneItem.st = "gone"
    /\ Unwritten \in ItemRecord /\ Unwritten.st = "unwritten"
    /\ NoWrites \in [Item -> ItemRecord]
BY DEF NoItem, GoneItem, Unwritten, NoWrites, ItemRow, ItemRecord, ItemStatus

\* Any row's quantity times its price is a whole number.
LEMMA ValueType ==
    ASSUME NEW f \in [Item -> ItemRecord], NEW i \in Item
    PROVE  f[i].qty * f[i].price \in Int
<1>1. f[i].qty \in Int /\ f[i].price \in Int BY DEF ItemRecord
<1> QED BY <1>1

\* The amount the handlers arrive at is what the cart is worth.
LEMMA SumOfIsWorth ==
    ASSUME NEW f \in [Item -> ItemRecord]
    PROVE  SumOf(f) = Worth(f) /\ SumOf(f) \in Int
<1> DEFINE P == {i \in Item : f[i].st = "ACTIVE"}
           v == [i \in Item |-> f[i].qty * f[i].price]
           c == [i \in Item |-> IF Counted(f[i]) THEN f[i].qty * f[i].price ELSE 0]
<1>1. \A i \in P : v[i] \in Int /\ c[i] = v[i] BY ValueType DEF Counted
<1>2. \A i \in Item \ P : c[i] = 0 BY DEF Counted
<1>3. \A i \in Item : c[i] \in Int BY <1>1, <1>2
<1>4. IsFiniteSet(Item) BY CartAssumption
<1>5. P \in SUBSET Item OBVIOUS
<1>6. SumOf(f) = SumFunctionOnSet(c, Item) BY DEF SumOf
<1>7. Worth(f) = SumFunctionOnSet(v, P) BY DEF Worth
<1> HIDE DEF P, v, c
<1>8. SumFunctionOnSet(c, Item) = SumFunctionOnSet(v, P)
  BY <1>1, <1>2, <1>4, <1>5, SumOfPart
<1>9. SumFunctionOnSet(c, Item) \in Int BY <1>3, <1>4, SumInt
<1> QED BY <1>6, <1>7, <1>8, <1>9

LEMMA TypeInit == Init => TypeInv
<1> SUFFICES ASSUME Init PROVE TypeInv OBVIOUS
<1>1. \A r \in Req : req[r] \in Asks BY IdleAsks DEF Init
<1>2. req \in [Req -> ReqRecord] BY <1>1 DEF Init, Asks
<1>3. item \in [Item -> ItemRecord] /\ \A i \in Item : item[i].st # "unwritten"
  BY EmptyRowsType DEF Init
<1>4. pend \in [Req -> [Item -> ItemRecord]] BY EmptyRowsType DEF Init
<1>5. \A r \in Req : req[r].pc = "idle" BY DEF Init, IdleReq, Request
<1>6. cart \in [st : {"none", "there", "gone"}, total : Int, out : BOOLEAN] BY DEF Init
<1>7. begun \in Nat /\ drift \in BOOLEAN BY DEF Init
<1> QED BY <1>1, <1>2, <1>3, <1>4, <1>5, <1>6, <1>7 DEF TypeInv, TypeOK, Asks

\* The parts of TypeInv that a step changes one by one.
CartRecord == [st : {"none", "there", "gone"}, total : Int, out : BOOLEAN]

LEMMA TypeParts ==
    ASSUME cart' \in CartRecord, item' \in [Item -> ItemRecord],
           \A i \in Item : item'[i].st # "unwritten",
           pend' \in [Req -> [Item -> ItemRecord]],
           req' \in [Req -> ReqRecord], \A s \in Req : Sensible(req'[s]),
           begun' \in Nat, drift' \in BOOLEAN
    PROVE  TypeInv'
<1>1. \A r \in Req : req'[r].pc \in {"find", "insert", "add"} => req'[r].qty # Absent
  BY CartAssumption DEF Sensible
<1> QED BY <1>1 DEF TypeInv, TypeOK, CartRecord

LEMMA TypeBegin ==
    ASSUME TypeInv, NEW r \in Req, NEW q \in Asks,
           Begin(r, q) \/ Step(r, q), UNCHANGED <<cart, item, pend, drift>>
    PROVE  TypeInv'
<1>1. req' = [req EXCEPT ![r] = q] /\ begun' \in Nat BY DEF Begin, Step, TypeInv, TypeOK
<1>2. req' \in [Req -> ReqRecord] /\ \A s \in Req : Sensible(req'[s])
  BY <1>1, ReqAfterStep
<1> QED BY <1>1, <1>2, TypeParts DEF TypeInv, TypeOK, CartRecord

LEMMA TypeEnds ==
    ASSUME TypeInv, NEW r \in Req, Ends(r)
    PROVE  TypeInv'
<1>1. req' = [req EXCEPT ![r] = IdleReq] /\ begun' \in Nat BY DEF Ends, Step, TypeInv, TypeOK
<1>2. req' \in [Req -> ReqRecord] /\ \A s \in Req : Sensible(req'[s])
  BY <1>1, IdleAsks, ReqAfterStep
<1>3. pend' \in [Req -> [Item -> ItemRecord]] BY EmptyRowsType DEF Ends, TypeInv, TypeOK
<1>4. UNCHANGED <<cart, item, drift>> BY DEF Ends
<1> QED BY <1>1, <1>2, <1>3, <1>4, TypeParts DEF TypeInv, TypeOK, CartRecord

LEMMA TypeWrite ==
    ASSUME TypeInv, NEW r \in Req, NEW i \in Item, NEW x \in ItemRecord, NEW q \in Asks,
           Write(r, i, x, q)
    PROVE  TypeInv'
<1>1. req' = [req EXCEPT ![r] = q] /\ begun' \in Nat BY DEF Write, Step, TypeInv, TypeOK
<1>2. req' \in [Req -> ReqRecord] /\ \A s \in Req : Sensible(req'[s])
  BY <1>1, ReqAfterStep
<1>3. pend' \in [Req -> [Item -> ItemRecord]] BY DEF Write, TypeInv, TypeOK
<1>4. UNCHANGED <<cart, item, drift>> BY DEF Write
<1> QED BY <1>1, <1>2, <1>3, <1>4, TypeParts DEF TypeInv, TypeOK, CartRecord

\* A request that starts asks for something sensible, and holds no sum yet.
Begins(r, q) ==
    /\ Begin(r, q) /\ q.pc \notin Holding \cup {"sum"}
    /\ UNCHANGED <<cart, item, pend, drift>>

LEMMA StartsAsk ==
    ASSUME TypeInv, NEW r \in Req, Starts(r)
    PROVE  \E q \in Asks : Begins(r, q)
<1> USE DEF Begins, Asks, Sensible, Request, ReqRecord, Pc, Holding
<1>1. ASSUME NEW p \in Product, NEW n \in Quantity, NEW again \in BOOLEAN, AddRead(r, p, n, again)
      PROVE  \E q \in Asks : Begins(r, q)
  <2>1. PICK next \in {"idle", "total"} :
          Begin(r, Request("find", next, {}, p, n, Absent, 0, FALSE))
    BY <1>1 DEF AddRead
  <2>2. n \in Nat BY CartAssumption
  <2>3. Request("find", next, {}, p, n, Absent, 0, FALSE) \in Asks BY <2>2
  <2> QED BY <1>1, <2>1, <2>3 DEF AddRead
<1>2. ASSUME NEW i \in Item, NEW p \in Product \cup {Absent}, NEW n \in Quantity \cup {Absent},
             UpdateItem(r, i, p, n)
      PROVE  \E q \in Asks : Begins(r, q)
  <2>1. n \in Nat \cup {Absent} BY CartAssumption
  <2>2. Request("update", "idle", {i}, p, n, Absent, 0, FALSE) \in Asks BY <2>1
  <2> QED BY <1>2, <2>2 DEF UpdateItem
<1>3. ASSUME NEW i \in Item, NEW n \in Quantity, UpdateItemQuantity(r, i, n)
      PROVE  \E q \in Asks : Begins(r, q)
  <2>1. n \in Nat BY CartAssumption
  <2>2. Request("update", "idle", {i}, Absent, n, Absent, 0, FALSE) \in Asks BY <2>1
  <2> QED BY <1>3, <2>2 DEF UpdateItemQuantity
<1>4. ASSUME NEW S \in SUBSET Item, NEW n \in Quantity, BulkUpdateItems(r, S, n)
      PROVE  \E q \in Asks : Begins(r, q)
  <2>1. n \in Nat BY CartAssumption
  <2>2. Request("update", "idle", S, Absent, n, Absent, 0, FALSE) \in Asks BY <2>1
  <2> QED BY <1>4, <2>2 DEF BulkUpdateItems
<1>5. ASSUME NEW i \in Item, RemoveItem(r, i)
      PROVE  \E q \in Asks : Begins(r, q)
  <2>1. Request("remove", "idle", {}, Absent, 0, i, 0, FALSE) \in Asks OBVIOUS
  <2> QED BY <1>5, <2>1 DEF RemoveItem
<1>6. ASSUME ClearCart(r)
      PROVE  \E q \in Asks : Begins(r, q)
  <2>1. Request("clear", "idle", {i \in Item : item[i].st = "ACTIVE"}, Absent, 0, Absent, 0, FALSE)
           \in Asks
    OBVIOUS
  <2> QED BY <1>6, <2>1 DEF ClearCart
<1>7. ASSUME NEW pc \in {"scan", "total"}, Begin(r, To(IdleReq, pc)),
             UNCHANGED <<cart, item, pend, drift>>
      PROVE  \E q \in Asks : Begins(r, q)
  <2>1. To(IdleReq, pc) \in Asks BY IdleAsks, ToAsks
  <2>2. To(IdleReq, pc).pc = pc BY DEF To
  <2> QED BY <1>7, <2>1, <2>2
<1>8. CheckoutRead(r) => Begin(r, To(IdleReq, "scan")) /\ UNCHANGED <<cart, item, pend, drift>>
  BY DEF CheckoutRead
<1>9. AskTotal(r) => Begin(r, To(IdleReq, "total")) /\ UNCHANGED <<cart, item, pend, drift>>
  BY DEF AskTotal
<1> QED BY <1>1, <1>2, <1>3, <1>4, <1>5, <1>6, <1>7, <1>8, <1>9 DEF Starts

LEMMA AsksNow ==
    ASSUME TypeInv, NEW r \in Req
    PROVE  req[r] \in Asks
BY DEF TypeInv, TypeOK, Asks

LEMMA TypeAddFind ==
    ASSUME TypeInv, NEW r \in Req, AddFind(r)
    PROVE  TypeInv'
<1> DEFINE q == req[r]
<1>1. q \in Asks /\ q.pc = "find" BY AsksNow DEF AddFind
<1>2. CASE Step(r, To(q, "insert")) /\ UNCHANGED pend
  <2>1. To(q, "insert") \in Asks BY <1>1, ToAsks DEF Pc
  <2>2. UNCHANGED <<cart, item, pend, drift>> BY <1>2 DEF AddFind
  <2> HIDE DEF q
  <2> QED BY <1>2, <2>1, <2>2, TypeBegin
<1>3. ASSUME NEW i \in Item, UNCHANGED pend,
             Step(r, Request("add", q.next, {}, q.product, item[i].qty + q.qty, i, 0, FALSE))
      PROVE  TypeInv'
  <2>1. item[i].qty + q.qty \in Nat
    <3>1. item[i].qty \in Nat BY DEF TypeInv, TypeOK, ItemRecord
    <3>2. q.qty \in Nat BY <1>1 DEF Asks, Sensible
    <3> QED BY <3>1, <3>2
  <2>2. q.product \in Product /\ q.next \in {"idle", "total", "stamp"}
    BY <1>1 DEF Asks, Sensible, ReqRecord
  <2> DEFINE n == item[i].qty + q.qty
  <2> HIDE DEF n
  <2>3. n \in Nat BY <2>1 DEF n
  <2>4. Request("add", q.next, {}, q.product, n, i, 0, FALSE) \in Asks
    <3> HIDE DEF q
    <3> QED BY <2>2, <2>3 DEF Asks, Sensible, Request, ReqRecord, Pc
  <2>5. UNCHANGED <<cart, item, pend, drift>> BY <1>3 DEF AddFind
  <2> HIDE DEF q
  <2> QED BY <1>3, <2>4, <2>5, TypeBegin DEF n
<1>4. CASE Ends(r) BY <1>4, TypeEnds
<1> QED BY <1>2, <1>3, <1>4 DEF AddFind

LEMMA TypeAddWrite ==
    ASSUME TypeInv, NEW r \in Req, AddWrite(r)
    PROVE  TypeInv'
<1> DEFINE q == req[r]
           i == q.found
           x == ItemRow(item[i].st, item[i].product, q.qty, Price[q.product])
<1>1. q \in Asks /\ q.pc = "add" BY AsksNow DEF AddWrite
<1>2. i \in Item /\ q.product \in Product /\ q.qty \in Nat BY <1>1 DEF Asks, Sensible
<1>3. To(q, "sum") \in Asks BY <1>1, ToAsks DEF Pc
<1>4. CASE Write(r, i, x, To(q, "sum"))
  <2>1. x \in ItemRecord
    <3>1. Price[q.product] \in Nat BY <1>2, CartAssumption
    <3>2. item[i].st \in ItemStatus \cup {"unwritten"} /\ item[i].product \in Product \cup {Absent}
      BY <1>2 DEF TypeInv, TypeOK, ItemRecord
    <3> HIDE DEF q, i
    <3> QED BY <1>2, <3>1, <3>2, ItemRowType
  <2> HIDE DEF q, i, x
  <2> QED BY <1>2, <1>3, <1>4, <2>1, TypeWrite
<1>5. CASE Ends(r) BY <1>5, TypeEnds
<1> QED BY <1>4, <1>5 DEF AddWrite

LEMMA TypeInsertWrite ==
    ASSUME TypeInv, NEW r \in Req, InsertWrite(r)
    PROVE  TypeInv'
<1> DEFINE q == req[r]
           x == ItemRow("ACTIVE", q.product, q.qty, Price[q.product])
<1>1. q \in Asks /\ q.pc = "insert" BY AsksNow DEF InsertWrite
<1>2. q.product \in Product /\ q.qty \in Nat BY <1>1 DEF Asks, Sensible
<1>3. To(q, "sum") \in Asks BY <1>1, ToAsks DEF Pc
<1>4. ASSUME NEW i \in Item, Write(r, i, x, To(q, "sum")) PROVE TypeInv'
  <2>1. x \in ItemRecord
    <3>1. Price[q.product] \in Nat BY <1>2, CartAssumption
    <3> HIDE DEF q
    <3> QED BY <1>2, <3>1, ItemRowType DEF ItemStatus
  <2> HIDE DEF q, x
  <2> QED BY <1>3, <1>4, <2>1, TypeWrite
<1>5. CASE Ends(r) BY <1>5, TypeEnds
<1> QED BY <1>4, <1>5 DEF InsertWrite

LEMMA TypeUpdateWrite ==
    ASSUME TypeInv, NEW r \in Req, UpdateWrite(r)
    PROVE  TypeInv'
<1> DEFINE q == req[r]
           x(i) == ItemRow(item[i].st, Given(q.product, item[i].product),
                           Given(q.qty, item[i].qty), item[i].price)
           n(i) == Request(IF q.todo = {i} THEN "sum" ELSE "update", q.next, q.todo \ {i},
                           q.product, q.qty, Absent, 0, FALSE)
<1>1. q \in Asks /\ q.pc = "update" BY AsksNow DEF UpdateWrite
<1>2. ASSUME NEW i \in q.todo, Write(r, i, x(i), n(i)) PROVE TypeInv'
  <2>1. i \in Item BY <1>1, <1>2 DEF Asks, ReqRecord
  <2>2. x(i) \in ItemRecord
    <3>1. /\ item[i].st \in ItemStatus \cup {"unwritten"} /\ item[i].price \in Nat
          /\ item[i].product \in Product \cup {Absent} /\ item[i].qty \in Nat
      BY <2>1 DEF TypeInv, TypeOK, ItemRecord
    <3>2. q.product \in Product \cup {Absent} /\ q.qty \in Nat \cup {Absent}
      BY <1>1 DEF Asks, ReqRecord
    <3>3. /\ Given(q.product, item[i].product) \in Product \cup {Absent}
          /\ Given(q.qty, item[i].qty) \in Nat
      BY <3>1, <3>2 DEF Given
    <3> QED BY <3>1, <3>3, ItemRowType
  <2>3. n(i) \in Asks
    <3>1. PICK pc \in {"sum", "update"} :
             n(i) = Request(pc, q.next, q.todo \ {i}, q.product, q.qty, Absent, 0, FALSE)
      OBVIOUS
    <3>2. /\ q.next \in {"idle", "total", "stamp"} /\ q.todo \ {i} \in SUBSET Item
          /\ q.product \in Product \cup {Absent} /\ q.qty \in Nat \cup {Absent}
      BY <1>1 DEF Asks, ReqRecord
    <3> HIDE DEF q, n
    <3> QED BY <3>1, <3>2 DEF Asks, Sensible, Request, ReqRecord, Pc
  <2> HIDE DEF q, x, n
  <2> QED BY <1>2, <2>1, <2>2, <2>3, TypeWrite
<1>3. CASE Ends(r) BY <1>3, TypeEnds
<1> QED BY <1>2, <1>3 DEF UpdateWrite

LEMMA TypeRemoveWrite ==
    ASSUME TypeInv, NEW r \in Req, RemoveWrite(r)
    PROVE  TypeInv'
<1> DEFINE q == req[r]
<1>1. q \in Asks /\ q.pc = "remove" BY AsksNow DEF RemoveWrite
<1>2. q.found \in Item BY <1>1 DEF Asks, Sensible
<1>3. To(q, "sum") \in Asks BY <1>1, ToAsks DEF Pc
<1>4. CASE Write(r, q.found, GoneItem, To(q, "sum"))
  <2> HIDE DEF q
  <2> QED BY <1>2, <1>3, <1>4, EmptyRowsType, TypeWrite
<1>5. CASE Ends(r) BY <1>5, TypeEnds
<1> QED BY <1>4, <1>5 DEF RemoveWrite

LEMMA TypeClearWrite ==
    ASSUME TypeInv, NEW r \in Req, ClearWrite(r)
    PROVE  TypeInv'
<1>1. To(req[r], "sum") \in Asks BY AsksNow, ToAsks DEF Pc
<1>2. req' = [req EXCEPT ![r] = To(req[r], "sum")] /\ begun' \in Nat
  BY DEF ClearWrite, Step, TypeInv, TypeOK
<1>3. req' \in [Req -> ReqRecord] /\ \A s \in Req : Sensible(req'[s])
  BY <1>1, <1>2, ReqAfterStep
<1>4. pend' \in [Req -> [Item -> ItemRecord]]
  BY EmptyRowsType DEF ClearWrite, TypeInv, TypeOK
<1>5. UNCHANGED <<cart, item, drift>> BY DEF ClearWrite
<1> QED BY <1>2, <1>3, <1>4, <1>5, TypeParts DEF TypeInv, TypeOK, CartRecord

LEMMA TypeRecalculate ==
    ASSUME TypeInv, NEW r \in Req, Recalculate(r)
    PROVE  TypeInv'
<1> DEFINE q == req[r]
           sum == SumOf(View(r))
<1>1. q \in Asks BY AsksNow
<1>2. sum \in Int BY ViewType, SumOfIsWorth
<1>3. q.next \in {"idle", "total", "stamp"} /\ q.todo \in SUBSET Item
  BY <1>1 DEF Asks, ReqRecord
<1>4. Step(r, Request("commit", q.next, q.todo, Absent, 0, Absent, sum, FALSE))
      /\ UNCHANGED <<cart, item, pend, drift>>
  BY DEF Recalculate
<1> HIDE DEF q, sum
<1>5. Request("commit", q.next, q.todo, Absent, 0, Absent, sum, FALSE) \in Asks
  BY <1>2, <1>3 DEF Asks, Sensible, Request, ReqRecord, Pc
<1> QED BY <1>4, <1>5, TypeBegin

\* A request that commits goes on with what its caller does next.
LEMMA NextAsks ==
    ASSUME NEW q \in Asks
    PROVE  To(IdleReq, q.next) \in Asks
<1>1. q.next \in {"idle", "total", "stamp"} BY DEF Asks, ReqRecord
<1> QED BY <1>1, IdleAsks, ToAsks DEF Pc

LEMMA TypeCommit ==
    ASSUME TypeInv, NEW r \in Req, Commit(r)
    PROVE  TypeInv'
<1> DEFINE q == req[r]
<1>1. q \in Asks BY AsksNow
<1>2. CASE Ends(r) BY <1>2, TypeEnds
<1>3. CASE /\ item' = View(r)
           /\ pend' = [pend EXCEPT ![r] = NoWrites]
           /\ cart' = [cart EXCEPT !.total = q.sum]
           /\ drift' = q.late
           /\ ItemsChange(r, To(IdleReq, q.next))
  <2>1. req' \in [Req -> ReqRecord] /\ \A s \in Req : Sensible(req'[s])
    BY <1>1, <1>3, NextAsks, ReqAfterChange
  <2>2. item' \in [Item -> ItemRecord] /\ \A i \in Item : item'[i].st # "unwritten"
    BY <1>3, ViewType
  <2>3. pend' \in [Req -> [Item -> ItemRecord]]
    BY <1>3, EmptyRowsType DEF TypeInv, TypeOK
  <2>4. cart' \in CartRecord
    BY <1>1, <1>3 DEF TypeInv, TypeOK, Asks, ReqRecord, CartRecord
  <2>5. drift' \in BOOLEAN BY <1>1, <1>3 DEF Asks, ReqRecord
  <2>6. begun' \in Nat BY <1>3 DEF ItemsChange, TypeInv, TypeOK
  <2> QED BY <2>1, <2>2, <2>3, <2>4, <2>5, <2>6, TypeParts
<1> QED BY <1>2, <1>3 DEF Commit

LEMMA TypeTotalWrite ==
    ASSUME TypeInv, NEW r \in Req, TotalWrite(r)
    PROVE  TypeInv'
<1>1. req[r] \in Asks BY AsksNow
<1>2. req' = [req EXCEPT ![r] = IdleReq] /\ begun' \in Nat
  BY DEF TotalWrite, Step, TypeInv, TypeOK
<1>3. req' \in [Req -> ReqRecord] /\ \A s \in Req : Sensible(req'[s])
  BY <1>2, IdleAsks, ReqAfterStep
<1>4. UNCHANGED <<item, pend>> BY DEF TotalWrite
<1>5. cart' \in CartRecord
  BY <1>1 DEF TotalWrite, TypeInv, TypeOK, Asks, ReqRecord, CartRecord
<1>6. drift' = req[r].late \/ drift' = drift
  <2>1. CASE cart.st = "there" BY <2>1 DEF TotalWrite
  <2>2. CASE cart.st # "there" BY <2>2 DEF TotalWrite
  <2> QED BY <2>1, <2>2
<1>7. drift' \in BOOLEAN BY <1>1, <1>6 DEF Asks, ReqRecord, TypeInv, TypeOK
<1> QED BY <1>2, <1>3, <1>4, <1>5, <1>7, TypeParts DEF TypeInv, TypeOK

LEMMA TypeCheckoutWrite ==
    ASSUME TypeInv, NEW r \in Req, CheckoutWrite(r)
    PROVE  TypeInv'
<1>1. To(IdleReq, "stamp") \in Asks BY IdleAsks, ToAsks DEF Pc
<1>2. req' \in [Req -> ReqRecord] /\ \A s \in Req : Sensible(req'[s])
  BY <1>1, ReqAfterChange DEF CheckoutWrite
<1>3. begun' \in Nat BY DEF CheckoutWrite, ItemsChange, TypeInv, TypeOK
<1>4. UNCHANGED <<cart, pend>> BY DEF CheckoutWrite
<1>5. ASSUME NEW i \in Item
      PROVE  item'[i] \in ItemRecord /\ item'[i].st # "unwritten"
  <2>1. \/ item'[i] = item[i]
        \/ item'[i] = ItemRow("CHECKED_OUT", item[i].product, item[i].qty, item[i].price)
    BY DEF CheckoutWrite
  <2>2. item[i] \in ItemRecord /\ item[i].st # "unwritten" BY DEF TypeInv, TypeOK
  <2> QED BY <2>1, <2>2 DEF ItemRow, ItemRecord, ItemStatus
<1>6. item' \in [Item -> ItemRecord] BY <1>5 DEF CheckoutWrite
<1>7. drift' \in BOOLEAN BY DEF CheckoutWrite
<1> QED BY <1>2, <1>3, <1>4, <1>5, <1>6, <1>7, TypeParts DEF TypeInv, TypeOK, CartRecord

LEMMA TypeCheckoutStamp ==
    ASSUME TypeInv, NEW r \in Req, CheckoutStamp(r)
    PROVE  TypeInv'
<1>1. req' = [req EXCEPT ![r] = IdleReq] /\ begun' \in Nat
  BY DEF CheckoutStamp, Step, TypeInv, TypeOK
<1>2. req' \in [Req -> ReqRecord] /\ \A s \in Req : Sensible(req'[s])
  BY <1>1, IdleAsks, ReqAfterStep
<1>3. UNCHANGED <<item, pend, drift>> BY DEF CheckoutStamp
<1>4. cart' = [cart EXCEPT !.out = cart.out \/ cart.st = "there"] BY DEF CheckoutStamp
<1>5. (cart.out \/ cart.st = "there") \in BOOLEAN OBVIOUS
<1>6. cart' \in CartRecord BY <1>4, <1>5 DEF TypeInv, TypeOK, CartRecord
<1> QED BY <1>1, <1>2, <1>3, <1>6, TypeParts DEF TypeInv, TypeOK

LEMMA TypeItemsGone ==
    ASSUME TypeInv, NEW S, item' = [i \in Item |-> IF i \in S THEN GoneItem ELSE item[i]],
           req' = [s \in Req |-> Overtaken(req[s])], UNCHANGED <<pend, begun>>,
           cart' \in CartRecord, drift' \in BOOLEAN
    PROVE  TypeInv'
<1>1. req' \in [Req -> ReqRecord] /\ \A s \in Req : Sensible(req'[s]) BY ReqOvertaken
<1>2. item' \in [Item -> ItemRecord] /\ \A i \in Item : item'[i].st # "unwritten"
  BY EmptyRowsType DEF TypeInv, TypeOK
<1> QED BY <1>1, <1>2, TypeParts DEF TypeInv, TypeOK

LEMMA TypeNext ==
    ASSUME TypeInv, [Next]_vars
    PROVE  TypeInv'
<1>1. CASE CreateCart
  <2>1. cart' \in CartRecord BY <1>1 DEF CreateCart, CartRecord
  <2>2. UNCHANGED <<item, pend, req, begun, drift>> BY <1>1 DEF CreateCart
  <2> QED BY <2>1, <2>2, TypeParts DEF TypeInv, TypeOK
<1>2. CASE DeleteCart
  <2>1. cart' \in CartRecord BY <1>2 DEF DeleteCart, CartRecord
  <2>2. UNCHANGED <<pend, begun, drift>> /\ req' = [s \in Req |-> Overtaken(req[s])]
    BY <1>2 DEF DeleteCart
  <2>3. item' = [i \in Item |-> IF i \in {j \in Item : There(j)} THEN GoneItem ELSE item[i]]
    BY <1>2 DEF DeleteCart
  <2>4. drift' \in BOOLEAN BY <2>2 DEF TypeInv, TypeOK
  <2> QED BY <2>1, <2>2, <2>3, <2>4, TypeItemsGone
<1>3. ASSUME NEW S \in SUBSET Item, PaymentTakes(S) PROVE TypeInv'
  <2>1. cart' \in CartRecord BY <1>3 DEF PaymentTakes, TypeInv, TypeOK, CartRecord
  <2>2. drift' \in BOOLEAN BY <1>3 DEF PaymentTakes
  <2> QED BY <1>3, <2>1, <2>2, TypeItemsGone DEF PaymentTakes
<1>4. ASSUME NEW r \in Req, Starts(r) PROVE TypeInv'
  BY <1>4, StartsAsk, TypeBegin DEF Begins
<1>5. ASSUME NEW r \in Req, TotalRead(r) PROVE TypeInv'
  <2> DEFINE sum == SumOf(item)
  <2>1. sum \in Int BY SumOfIsWorth DEF TypeInv, TypeOK
  <2>2. Step(r, Request("store", "idle", {}, Absent, 0, Absent, sum, FALSE))
        /\ UNCHANGED <<cart, item, pend, drift>>
    BY <1>5 DEF TotalRead
  <2> HIDE DEF sum
  <2>3. Request("store", "idle", {}, Absent, 0, Absent, sum, FALSE) \in Asks
    BY <2>1 DEF Asks, Sensible, Request, ReqRecord, Pc
  <2> QED BY <2>2, <2>3, TypeBegin
<1>6. ASSUME NEW r \in Req, CheckoutScan(r) PROVE TypeInv'
  <2>1. Request("checkout", "idle", {i \in Item : item[i].st = "ACTIVE"}, Absent, 0, Absent, 0, FALSE)
           \in Asks
    BY DEF Asks, Sensible, Request, ReqRecord, Pc
  <2> QED BY <1>6, <2>1, TypeBegin DEF CheckoutScan
<1>7. ASSUME NEW r \in Req, TxFails(r) PROVE TypeInv'
  BY <1>7, TypeEnds DEF TxFails
<1>8. CASE UNCHANGED vars
  BY <1>8, TypeParts DEF vars, TypeInv, TypeOK, CartRecord
<1> QED
  BY <1>1, <1>2, <1>3, <1>4, <1>5, <1>6, <1>7, <1>8, TypeAddFind, TypeAddWrite,
     TypeInsertWrite, TypeUpdateWrite, TypeRemoveWrite, TypeClearWrite, TypeRecalculate,
     TypeCommit, TypeTotalWrite, TypeCheckoutWrite, TypeCheckoutStamp
  DEF Next, Continues

LEMMA TypeInvHolds == Spec => []TypeInv
<1>1. TypeInv /\ [Next]_vars => TypeInv' BY TypeNext
<1> QED BY <1>1, TypeInit, PTL DEF Spec

\* The rows, the open transactions and the requests of a cart keep their shape:
\* a quantity or a product that a handler writes is never one that was left out.
THEOREM TypeCorrect == Spec => []TypeOK
<1>1. TypeInv => TypeOK BY DEF TypeInv
<1> QED BY <1>1, TypeInvHolds, PTL

-----------------------------------------------------------------------------
(* The total *)

\* A cart that does not exist has no items to count.
NoneActive == cart.st # "there" => \A i \in Item : item[i].st # "ACTIVE"

TotalInv == CartInv /\ NoneActive

\* What a step does to the sum a request holds: nothing, the request lets go of
\* it, makes it, or is overtaken.
SumMove(s) ==
    \/ UNCHANGED item /\ pend'[s] = pend[s] /\ req'[s] = req[s]
    \/ req'[s].pc \notin Holding
    \/ Recalculate(s)
    \/ TotalRead(s)
    \/ req'[s] = Overtaken(req[s])

LEMMA SumMoves ==
    ASSUME TypeInv, [Next]_vars, NEW s \in Req
    PROVE  SumMove(s)
<1> USE DEF SumMove
<1>1. ASSUME NEW r \in Req, NEW q, req' = [req EXCEPT ![r] = q], q.pc \notin Holding,
             UNCHANGED item, s # r => pend'[s] = pend[s]
      PROVE  SumMove(s)
  <2>1. CASE s = r
    <3>1. req'[s] = q BY <1>1, <2>1 DEF TypeInv, TypeOK
    <3> QED BY <1>1, <3>1
  <2>2. CASE s # r
    <3>1. req'[s] = req[s] BY <1>1, <2>2 DEF TypeInv, TypeOK
    <3> QED BY <1>1, <2>2, <3>1
  <2> QED BY <2>1, <2>2
<1>2. ASSUME NEW r \in Req, Ends(r) PROVE SumMove(s)
  <2>1. IdleReq.pc \notin Holding BY DEF IdleReq, Request, Holding
  <2>2. s # r => pend'[s] = pend[s] BY <1>2 DEF Ends, TypeInv, TypeOK
  <2>3. req' = [req EXCEPT ![r] = IdleReq] /\ UNCHANGED item BY <1>2 DEF Ends, Step
  <2> QED BY <1>1, <2>1, <2>2, <2>3
<1>3. ASSUME NEW r \in Req, NEW i, NEW x, NEW q, Write(r, i, x, q), q.pc \notin Holding
      PROVE  SumMove(s)
  <2>1. s # r => pend'[s] = pend[s] BY <1>3 DEF Write, TypeInv, TypeOK
  <2>2. req' = [req EXCEPT ![r] = q] /\ UNCHANGED item BY <1>3 DEF Write, Step
  <2> QED BY <1>1, <1>3, <2>1, <2>2
<1>4. ASSUME NEW r \in Req, NEW q, Begin(r, q) \/ Step(r, q), q.pc \notin Holding,
             UNCHANGED <<item, pend>>
      PROVE  SumMove(s)
  <2>1. req' = [req EXCEPT ![r] = q] BY <1>4 DEF Begin, Step
  <2> QED BY <1>1, <1>4, <2>1
<1>5. ASSUME NEW r \in Req, Starts(r) PROVE SumMove(s)
  BY <1>4, <1>5, StartsAsk DEF Begins
<1>6. ASSUME NEW r \in Req, AddFind(r) PROVE SumMove(s)
  <2>1. \/ Ends(r)
        \/ \E q : Step(r, q) /\ q.pc \notin Holding /\ UNCHANGED <<item, pend>>
    BY <1>6 DEF AddFind, To, Request, Holding
  <2> QED BY <1>2, <1>4, <2>1
<1>7. ASSUME NEW r \in Req, AddWrite(r) \/ InsertWrite(r) \/ RemoveWrite(r) PROVE SumMove(s)
  <2>1. Ends(r) \/ \E i, x : Write(r, i, x, To(req[r], "sum"))
    BY <1>7 DEF AddWrite, InsertWrite, RemoveWrite
  <2>2. To(req[r], "sum").pc \notin Holding BY DEF To, Request, Holding
  <2> QED BY <1>2, <1>3, <2>1, <2>2
<1>8. ASSUME NEW r \in Req, UpdateWrite(r) PROVE SumMove(s)
  <2>1. Ends(r) \/ \E i, x, q : Write(r, i, x, q) /\ q.pc \in {"sum", "update"}
    BY <1>8 DEF UpdateWrite, Request
  <2> QED BY <1>2, <1>3, <2>1 DEF Holding
<1>9. ASSUME NEW r \in Req, ClearWrite(r) PROVE SumMove(s)
  <2>1. s # r => pend'[s] = pend[s] BY <1>9 DEF ClearWrite, TypeInv, TypeOK
  <2>2. req' = [req EXCEPT ![r] = To(req[r], "sum")] /\ UNCHANGED item
    BY <1>9 DEF ClearWrite, Step
  <2>3. To(req[r], "sum").pc \notin Holding BY DEF To, Request, Holding
  <2> QED BY <1>1, <2>1, <2>2, <2>3
<1>10. ASSUME NEW r \in Req, Recalculate(r) \/ TotalRead(r) PROVE SumMove(s)
  <2>1. s # r => UNCHANGED item /\ pend'[s] = pend[s] /\ req'[s] = req[s]
    BY <1>10 DEF Recalculate, TotalRead, Step, TypeInv, TypeOK
  <2> QED BY <1>10, <2>1
<1>11. ASSUME NEW r \in Req, NEW q, ItemsChange(r, q), q.pc \notin Holding PROVE SumMove(s)
  BY <1>11 DEF ItemsChange
<1>12. ASSUME NEW r \in Req, Commit(r) PROVE SumMove(s)
  <2>1. req[r].next \in {"idle", "total", "stamp"} BY DEF TypeInv, TypeOK, ReqRecord
  <2>2. To(IdleReq, req[r].next).pc \notin Holding BY <2>1 DEF To, Request, Holding
  <2> QED BY <1>2, <1>11, <1>12, <2>2 DEF Commit
<1>13. ASSUME NEW r \in Req, CheckoutWrite(r) PROVE SumMove(s)
  <2>1. To(IdleReq, "stamp").pc \notin Holding BY DEF To, Request, Holding
  <2> QED BY <1>11, <1>13, <2>1 DEF CheckoutWrite
<1>14. ASSUME NEW r \in Req, TxFails(r) PROVE SumMove(s)
  BY <1>2, <1>14 DEF TxFails
<1>15. ASSUME NEW r \in Req, TotalWrite(r) \/ CheckoutStamp(r) PROVE SumMove(s)
  <2>1. IdleReq.pc \notin Holding BY DEF IdleReq, Request, Holding
  <2> QED BY <1>4, <1>15, <2>1 DEF TotalWrite, CheckoutStamp
<1>16. ASSUME NEW r \in Req, CheckoutScan(r) PROVE SumMove(s)
  BY <1>4, <1>16 DEF CheckoutScan, Request, Holding
<1>17. CreateCart => SumMove(s) BY DEF CreateCart
<1>18. DeleteCart => SumMove(s) BY DEF DeleteCart
<1>19. ASSUME NEW S \in SUBSET Item, PaymentTakes(S) PROVE SumMove(s)
  BY <1>19 DEF PaymentTakes
<1>20. UNCHANGED vars => SumMove(s) BY DEF vars
<1> HIDE DEF SumMove
<1> QED
  BY <1>5, <1>6, <1>7, <1>8, <1>9, <1>10, <1>12, <1>13, <1>14, <1>15, <1>16, <1>17, <1>18,
     <1>19, <1>20 DEF Next, Continues

\* A sum stays right unless its request is overtaken.
LEMMA SumStaysRight ==
    ASSUME TypeInv, [Next]_vars, NEW s \in Req, SumRight(s)
    PROVE  SumRight(s)'
<1>1. CASE UNCHANGED item /\ pend'[s] = pend[s] /\ req'[s] = req[s]
  <2>1. View(s)' = View(s) BY <1>1 DEF View
  <2> QED BY <1>1, <2>1 DEF SumRight
<1>2. CASE req'[s].pc \notin Holding BY <1>2 DEF SumRight, Holding
<1>3. CASE Recalculate(s)
  <2>1. View(s)' = View(s) BY <1>3 DEF Recalculate, View
  <2>2. req'[s].pc = "commit" /\ req'[s].sum = SumOf(View(s))
    BY <1>3 DEF Recalculate, Step, Request, TypeInv, TypeOK
  <2>3. SumOf(View(s)) = Worth(View(s)) BY ViewType, SumOfIsWorth
  <2> QED BY <2>1, <2>2, <2>3 DEF SumRight
<1>4. CASE TotalRead(s)
  <2>1. req'[s].pc = "store" /\ req'[s].sum = SumOf(item) /\ item' = item
    BY <1>4 DEF TotalRead, Step, Request, TypeInv, TypeOK
  <2>2. SumOf(item) = Worth(item) BY SumOfIsWorth DEF TypeInv, TypeOK
  <2> QED BY <2>1, <2>2 DEF SumRight
<1>5. CASE req'[s] = Overtaken(req[s])
  <2>1. req'[s].pc \in Holding => req'[s].late = TRUE
    BY <1>5 DEF Overtaken, Request
  <2> QED BY <2>1 DEF SumRight, Holding
<1> QED BY <1>1, <1>2, <1>3, <1>4, <1>5, SumMoves DEF SumMove

LEMMA NothingIsWorthNothing ==
    ASSUME NEW f, \A i \in Item : f[i].st # "ACTIVE"
    PROVE  Worth(f) = 0
<1>1. {i \in Item : f[i].st = "ACTIVE"} = {} OBVIOUS
<1> QED BY <1>1, SumEmpty DEF Worth

LEMMA TotalInit == Init => TotalInv
<1> SUFFICES ASSUME Init PROVE TotalInv OBVIOUS
<1>1. \A r \in Req : req[r].pc = "idle" BY DEF Init, IdleReq, Request
<1>2. cart.st = "none" /\ \A i \in Item : item[i].st # "ACTIVE"
  BY DEF Init, NoItem, ItemRow
<1> QED BY <1>1, <1>2 DEF TotalInv, CartInv, TotalRight, SumRight, NoneActive

LEMMA TotalNext ==
    ASSUME TypeInv, TotalInv, [Next]_vars
    PROVE  TotalRight' /\ NoneActive'
<1>1. ASSUME UNCHANGED <<item, drift>>, cart'.st = cart.st, cart'.total = cart.total
      PROVE  TotalRight' /\ NoneActive'
  BY <1>1 DEF TotalInv, CartInv, TotalRight, NoneActive
<1>2. ASSUME UNCHANGED <<cart, item, drift>> PROVE TotalRight' /\ NoneActive'
  BY <1>1, <1>2
<1>3. CASE CreateCart
  <2>1. item' = item /\ cart'.st = "there" /\ cart'.total = 0 /\ cart.st = "none"
    BY <1>3 DEF CreateCart
  <2>2. Worth(item') = 0 BY <2>1, NothingIsWorthNothing DEF TotalInv, NoneActive
  <2>3. Worth(item)' = 0 BY <2>2 DEF Worth
  <2> QED BY <2>1, <2>3 DEF TotalRight, NoneActive
<1>4. CASE DeleteCart
  <2>1. cart'.st = "gone" /\ \A i \in Item : item'[i].st # "ACTIVE"
    BY <1>4, EmptyRowsType DEF DeleteCart, There
  <2> QED BY <2>1 DEF TotalRight, NoneActive
<1>5. ASSUME NEW r \in Req, Commit(r) PROVE TotalRight' /\ NoneActive'
  <2>1. CASE Ends(r) BY <1>2, <2>1 DEF Ends
  <2>2. CASE /\ cart.st = "there" /\ item' = View(r) /\ cart' = [cart EXCEPT !.total = req[r].sum]
             /\ drift' = req[r].late
    <3>1. cart'.total = req[r].sum /\ cart'.st = "there"
      BY <2>2 DEF TypeInv, TypeOK
    <3>2. req[r].pc = "commit" BY <1>5 DEF Commit
    <3>3. ~drift' => req[r].sum = Worth(View(r))
      BY <2>2, <3>2 DEF TotalInv, CartInv, SumRight
    <3>4. Worth(item)' = Worth(View(r)) BY <2>2 DEF Worth
    <3> QED BY <3>1, <3>3, <3>4 DEF TotalRight, NoneActive
  <2> QED BY <1>5, <2>1, <2>2 DEF Commit
<1>6. ASSUME NEW r \in Req, TotalWrite(r) PROVE TotalRight' /\ NoneActive'
  <2>1. CASE cart.st = "there"
    <3>1. item' = item /\ cart' = [cart EXCEPT !.total = req[r].sum] /\ drift' = req[r].late
      BY <1>6, <2>1 DEF TotalWrite
    <3>2. cart'.total = req[r].sum /\ cart'.st = "there" BY <2>1, <3>1 DEF TypeInv, TypeOK
    <3>3. req[r].pc = "store" BY <1>6 DEF TotalWrite
    <3>4. ~drift' => req[r].sum = Worth(item) BY <3>1, <3>3 DEF TotalInv, CartInv, SumRight
    <3>5. Worth(item)' = Worth(item) BY <3>1 DEF Worth
    <3> QED BY <3>2, <3>4, <3>5 DEF TotalRight, NoneActive
  <2>2. CASE cart.st # "there" BY <1>2, <1>6, <2>2 DEF TotalWrite
  <2> QED BY <2>1, <2>2
<1>7. ASSUME NEW r \in Req, CheckoutWrite(r) PROVE TotalRight' /\ NoneActive'
  <2> DEFINE taken == {i \in req[r].todo : item[i].st = "ACTIVE"}
  <2>1. drift' = (drift \/ taken # {}) /\ cart' = cart BY <1>7 DEF CheckoutWrite
  <2>2. item' = [i \in Item |-> IF i \in taken
             THEN ItemRow("CHECKED_OUT", item[i].product, item[i].qty, item[i].price)
             ELSE item[i]]
    BY <1>7 DEF CheckoutWrite
  <2>3. \A i \in Item : item'[i].st = "ACTIVE" => item[i].st = "ACTIVE"
    BY <2>2 DEF ItemRow
  <2>4. NoneActive' BY <2>1, <2>3 DEF TotalInv, NoneActive
  <2>5. CASE taken = {}
    <3>1. item' = item BY <2>2, <2>5 DEF TypeInv, TypeOK
    <3>2. drift' <=> drift BY <2>1, <2>5
    <3>3. Worth(item)' = Worth(item) BY <3>1 DEF Worth
    <3> QED BY <2>1, <2>4, <3>2, <3>3 DEF TotalInv, CartInv, TotalRight
  <2>6. CASE taken # {}
    <3>1. drift' BY <2>1, <2>6
    <3> QED BY <2>4, <3>1 DEF TotalRight
  <2> QED BY <2>5, <2>6
<1>8. ASSUME NEW S \in SUBSET Item, PaymentTakes(S) PROVE TotalRight' /\ NoneActive'
  <2>1. drift' = TRUE /\ cart' = cart BY <1>8 DEF PaymentTakes
  <2>2. \A i \in Item : item'[i].st = "ACTIVE" => item[i].st = "ACTIVE"
    BY <1>8, EmptyRowsType DEF PaymentTakes
  <2> QED BY <2>1, <2>2 DEF TotalInv, TotalRight, NoneActive
<1>9. ASSUME NEW r \in Req, CheckoutStamp(r) PROVE TotalRight' /\ NoneActive'
  <2>1. cart'.st = cart.st /\ cart'.total = cart.total BY <1>9 DEF CheckoutStamp, TypeInv, TypeOK
  <2> QED BY <1>1, <1>9, <2>1 DEF CheckoutStamp
<1>10. ASSUME NEW r \in Req, Starts(r) PROVE TotalRight' /\ NoneActive'
  BY <1>2, <1>10, StartsAsk DEF Begins
<1>11. ASSUME NEW r \in Req,
              \/ AddFind(r) \/ AddWrite(r) \/ InsertWrite(r) \/ UpdateWrite(r) \/ RemoveWrite(r)
              \/ ClearWrite(r) \/ Recalculate(r) \/ TxFails(r) \/ TotalRead(r) \/ CheckoutScan(r)
       PROVE  TotalRight' /\ NoneActive'
  <2>1. UNCHANGED <<cart, item, drift>>
    BY <1>11 DEF AddFind, AddWrite, InsertWrite, UpdateWrite, RemoveWrite, ClearWrite,
       Recalculate, TxFails, TotalRead, CheckoutScan, Write, Ends
  <2> QED BY <1>2, <2>1
<1>12. CASE UNCHANGED vars BY <1>2, <1>12 DEF vars
<1> QED
  BY <1>3, <1>4, <1>5, <1>6, <1>7, <1>8, <1>9, <1>10, <1>11, <1>12 DEF Next, Continues

LEMMA TotalInvHolds == Spec => []TotalInv
<1>1. TypeInv /\ TotalInv /\ [Next]_vars => TotalInv'
  <2> SUFFICES ASSUME TypeInv, TotalInv, [Next]_vars PROVE TotalInv' OBVIOUS
  <2>1. \A s \in Req : SumRight(s)' BY SumStaysRight DEF TotalInv, CartInv
  <2> QED BY <2>1, TotalNext DEF TotalInv, CartInv
<1> QED BY <1>1, TotalInit, TypeInvHolds, PTL DEF Spec

\* totalAmount is the sum of quantity times price over the ACTIVE items, unless
\* the items changed under a sum that was then written, or a checkout or a
\* payment took items away: however many handlers add up at the same time.
THEOREM TotalRightHolds == Spec => []TotalRight
<1>1. TotalInv => TotalRight BY DEF TotalInv, CartInv
<1> QED BY <1>1, TotalInvHolds, PTL

-----------------------------------------------------------------------------
(* Clearing the cart *)

Held(s, i) == pend[s][i].st # "unwritten"

\* A row is written by one open transaction at a time.
Exclusive == \A r, s \in Req, i \in Item : Held(r, i) /\ Held(s, i) => r = s

\* Only a clear still knows rows when its transaction adds up; what it deletes of
\* them has been ACTIVE since it locked it.
ClearHolds(r) ==
    req[r].pc \in {"sum", "commit"} =>
      \A i \in req[r].todo : Held(r, i) => item[i].st = "ACTIVE"

ClearInv == Exclusive /\ \A r \in Req : ClearHolds(r)

\* A transaction gets a row only while no other one has it.
LEMMA WritesGrow ==
    ASSUME TypeInv, [Next]_vars, NEW s \in Req, NEW i \in Item, Held(s, i)'
    PROVE  \/ Held(s, i)
           \/ ~Locked(i, s) /\ \A t \in Req \ {s} : pend'[t] = pend[t]
<1> DEFINE Goal == \/ Held(s, i)
                   \/ ~Locked(i, s) /\ \A t \in Req \ {s} : pend'[t] = pend[t]
<1>1. UNCHANGED pend => Goal BY DEF Held
<1>2. ASSUME NEW r \in Req, pend' = [pend EXCEPT ![r] = NoWrites] PROVE Goal
  <2>1. s = r => pend'[s][i].st = "unwritten"
    BY <1>2, EmptyRowsType DEF TypeInv, TypeOK, NoWrites
  <2>2. s # r => pend'[s] = pend[s] BY <1>2 DEF TypeInv, TypeOK
  <2> QED BY <2>1, <2>2 DEF Held
<1>3. ASSUME NEW r \in Req, NEW j \in Item, NEW x, NEW q, Write(r, j, x, q) PROVE Goal
  <2>1. ~Locked(j, r) /\ pend' = [pend EXCEPT ![r][j] = x] BY <1>3 DEF Write
  <2>2. CASE s = r /\ i = j BY <2>1, <2>2 DEF TypeInv, TypeOK
  <2>3. CASE s # r \/ i # j
    <3>1. pend'[s][i] = pend[s][i] BY <2>1, <2>3 DEF TypeInv, TypeOK
    <3> QED BY <3>1 DEF Held
  <2> QED BY <2>2, <2>3
<1>4. ASSUME NEW r \in Req, ClearWrite(r) PROVE Goal
  <2>1. CASE s = r
    <3>1. i \in req[r].todo BY <1>4, <2>1, EmptyRowsType DEF ClearWrite, Held, TypeInv, TypeOK
    <3> QED BY <1>4, <2>1, <3>1 DEF ClearWrite, TypeInv, TypeOK
  <2>2. CASE s # r
    <3>1. pend'[s] = pend[s] BY <1>4, <2>2 DEF ClearWrite, TypeInv, TypeOK
    <3> QED BY <3>1 DEF Held
  <2> QED BY <2>1, <2>2
<1>5. ASSUME NEW r \in Req, Ends(r) PROVE Goal BY <1>2, <1>5 DEF Ends
<1>6. ASSUME NEW r \in Req, Commit(r) PROVE Goal BY <1>2, <1>5, <1>6 DEF Commit
<1>7. ASSUME NEW r \in Req, AddWrite(r) \/ RemoveWrite(r) PROVE Goal
  <2>1. req[r].found \in Item BY <1>7 DEF AddWrite, RemoveWrite, TypeInv, Sensible
  <2> QED BY <1>3, <1>5, <1>7, <2>1 DEF AddWrite, RemoveWrite
<1>8. ASSUME NEW r \in Req, InsertWrite(r) PROVE Goal BY <1>3, <1>5, <1>8 DEF InsertWrite
<1>9. ASSUME NEW r \in Req, UpdateWrite(r) PROVE Goal
  <2>1. \A j \in req[r].todo : j \in Item BY DEF TypeInv, TypeOK, ReqRecord
  <2> QED BY <1>3, <1>5, <1>9, <2>1 DEF UpdateWrite
<1>10. ASSUME NEW r \in Req, AddFind(r) PROVE Goal BY <1>1, <1>5, <1>10 DEF AddFind
<1>11. ASSUME NEW r \in Req, TxFails(r) PROVE Goal BY <1>5, <1>11 DEF TxFails
<1>12. ASSUME NEW r \in Req,
              \/ Recalculate(r) \/ TotalRead(r) \/ TotalWrite(r) \/ CheckoutScan(r)
              \/ CheckoutWrite(r) \/ CheckoutStamp(r)
       PROVE  Goal
  <2>1. UNCHANGED pend
    BY <1>12 DEF Recalculate, TotalRead, TotalWrite, CheckoutScan, CheckoutWrite, CheckoutStamp
  <2> QED BY <1>1, <2>1
<1>13. ASSUME NEW r \in Req, Starts(r) PROVE Goal BY <1>1, <1>13, StartsAsk DEF Begins
<1>14. ASSUME CreateCart \/ DeleteCart \/ UNCHANGED vars PROVE Goal
  BY <1>1, <1>14 DEF CreateCart, DeleteCart, vars
<1>15. ASSUME NEW S \in SUBSET Item, PaymentTakes(S) PROVE Goal
  BY <1>1, <1>15 DEF PaymentTakes
<1> HIDE DEF Goal
<1>16. Goal
  BY <1>4, <1>6, <1>7, <1>8, <1>9, <1>10, <1>11, <1>12, <1>13, <1>14, <1>15
  DEF Next, Continues
<1> QED BY <1>16 DEF Goal

\* A row that a transaction has written does not change under it.
LEMMA HeldRowStays ==
    ASSUME TypeInv, Exclusive, [Next]_vars, NEW s \in Req, NEW i \in Item, Held(s, i),
           req'[s].pc \in {"sum", "commit"}
    PROVE  item'[i] = item[i]
<1>1. UNCHANGED item => item'[i] = item[i] OBVIOUS
<1>2. ASSUME NEW r \in Req, Commit(r), ~Ends(r) PROVE item'[i] = item[i]
  <2>1. item' = View(r) /\ ItemsChange(r, To(IdleReq, req[r].next)) BY <1>2 DEF Commit
  <2>2. r # s
    <3>1. req[r].next \in {"idle", "total", "stamp"} BY DEF TypeInv, TypeOK, ReqRecord
    <3> QED BY <2>1, <3>1 DEF ItemsChange, To, Request
  <2>3. pend[r][i].st = "unwritten" BY <2>2 DEF Exclusive, Held
  <2> QED BY <2>1, <2>3 DEF View
<1>3. ASSUME NEW r \in Req, CheckoutWrite(r) PROVE item'[i] = item[i]
  <2>1. r # s BY <1>3 DEF CheckoutWrite, ItemsChange, To, Request
  <2>2. Locked(i, r) BY <2>1 DEF Locked, Held
  <2>3. i \notin req[r].todo BY <1>3, <2>2 DEF CheckoutWrite
  <2> QED BY <1>3, <2>3 DEF CheckoutWrite
<1>4. ASSUME DeleteCart PROVE item'[i] = item[i]
  <2>1. pend[s] = NoWrites BY <1>4 DEF DeleteCart
  <2>2. ~Held(s, i) BY <2>1, EmptyRowsType DEF NoWrites, Held
  <2> QED BY <2>2
<1>5. ASSUME NEW S \in SUBSET Item, PaymentTakes(S) PROVE item'[i] = item[i]
  BY <1>5 DEF PaymentTakes, Held
<1>6. ASSUME NEW r \in Req, Starts(r) PROVE UNCHANGED item BY <1>6, StartsAsk DEF Begins
<1>7. ASSUME NEW r \in Req, Continues(r), ~Commit(r) \/ Ends(r), ~CheckoutWrite(r)
      PROVE  UNCHANGED item
  BY <1>7 DEF Continues, AddFind, AddWrite, InsertWrite, UpdateWrite, RemoveWrite, ClearWrite,
     Recalculate, TxFails, TotalRead, TotalWrite, CheckoutScan, CheckoutStamp, Write, Ends
<1>8. CreateCart => UNCHANGED item BY DEF CreateCart
<1>9. UNCHANGED vars => UNCHANGED item BY DEF vars
<1> QED BY <1>1, <1>2, <1>3, <1>4, <1>5, <1>6, <1>7, <1>8, <1>9 DEF Next

\* How a request gets to where its transaction adds up.
ClearMove(s) ==
    \/ /\ pend'[s] = pend[s] /\ req'[s].todo = req[s].todo
       /\ req'[s].pc \in {"sum", "commit"} => req[s].pc \in {"sum", "commit"}
    \/ req'[s].pc \notin {"sum", "commit"}
    \/ req'[s].todo = {}
    \/ ClearWrite(s)

LEMMA ClearMoves ==
    ASSUME TypeInv, [Next]_vars, NEW s \in Req
    PROVE  ClearMove(s)
<1> USE DEF ClearMove
<1>1. ASSUME NEW r \in Req, NEW q, req' = [req EXCEPT ![r] = q],
             q.pc \notin {"sum", "commit"} \/ q.todo = {}, s # r => pend'[s] = pend[s]
      PROVE  ClearMove(s)
  <2>1. CASE s = r
    <3>1. req'[s] = q BY <1>1, <2>1 DEF TypeInv, TypeOK
    <3> QED BY <1>1, <3>1
  <2>2. CASE s # r
    <3>1. req'[s] = req[s] BY <1>1, <2>2 DEF TypeInv, TypeOK
    <3> QED BY <1>1, <2>2, <3>1
  <2> QED BY <2>1, <2>2
<1>2. ASSUME NEW r \in Req, Ends(r) PROVE ClearMove(s)
  <2>1. IdleReq.todo = {} BY DEF IdleReq, Request
  <2>2. s # r => pend'[s] = pend[s] BY <1>2 DEF Ends, TypeInv, TypeOK
  <2>3. req' = [req EXCEPT ![r] = IdleReq] BY <1>2 DEF Ends, Step
  <2> QED BY <1>1, <2>1, <2>2, <2>3
<1>3. ASSUME NEW r \in Req, NEW i, NEW x, NEW q, Write(r, i, x, q),
             q.pc \notin {"sum", "commit"} \/ q.todo = {}
      PROVE  ClearMove(s)
  <2>1. s # r => pend'[s] = pend[s] BY <1>3 DEF Write, TypeInv, TypeOK
  <2>2. req' = [req EXCEPT ![r] = q] BY <1>3 DEF Write, Step
  <2> QED BY <1>1, <1>3, <2>1, <2>2
<1>4. ASSUME NEW r \in Req, NEW q, Begin(r, q) \/ Step(r, q),
             q.pc \notin {"sum", "commit"} \/ q.todo = {}, UNCHANGED pend
      PROVE  ClearMove(s)
  <2>1. req' = [req EXCEPT ![r] = q] BY <1>4 DEF Begin, Step
  <2> QED BY <1>1, <1>4, <2>1
<1>5. ASSUME NEW r \in Req, Starts(r) PROVE ClearMove(s)
  <2>1. PICK q \in Asks : Begins(r, q) BY <1>5, StartsAsk
  <2>2. q.pc # "sum" BY <2>1 DEF Begins
  <2> QED BY <1>4, <2>1, <2>2 DEF Begins, Holding
<1>6. ASSUME NEW r \in Req, AddFind(r) PROVE ClearMove(s)
  <2>1. \/ Ends(r)
        \/ \E q : Step(r, q) /\ q.pc \notin {"sum", "commit"} /\ UNCHANGED pend
    BY <1>6 DEF AddFind, To, Request
  <2> QED BY <1>2, <1>4, <2>1
<1>7. ASSUME NEW r \in Req, AddWrite(r) \/ InsertWrite(r) \/ RemoveWrite(r) PROVE ClearMove(s)
  <2>1. Ends(r) \/ \E i, x : Write(r, i, x, To(req[r], "sum"))
    BY <1>7 DEF AddWrite, InsertWrite, RemoveWrite
  <2>2. req[r].todo = {} BY <1>7 DEF AddWrite, InsertWrite, RemoveWrite, TypeInv, Sensible
  <2>3. To(req[r], "sum").todo = {} BY <2>2 DEF To, Request
  <2> QED BY <1>2, <1>3, <2>1, <2>3
<1>8. ASSUME NEW r \in Req, UpdateWrite(r) PROVE ClearMove(s)
  <2>1. CASE Ends(r) BY <1>2, <2>1
  <2>2. ASSUME NEW i \in req[r].todo, NEW x,
               Write(r, i, x, Request(IF req[r].todo = {i} THEN "sum" ELSE "update", req[r].next,
                        req[r].todo \ {i}, req[r].product, req[r].qty, Absent, 0, FALSE))
        PROVE  ClearMove(s)
    <3> DEFINE q == Request(IF req[r].todo = {i} THEN "sum" ELSE "update", req[r].next,
                        req[r].todo \ {i}, req[r].product, req[r].qty, Absent, 0, FALSE)
    <3>1. q.pc \notin {"sum", "commit"} \/ q.todo = {}
      BY DEF Request
    <3> HIDE DEF q
    <3> QED BY <1>3, <2>2, <3>1 DEF q
  <2> QED BY <1>8, <2>1, <2>2 DEF UpdateWrite
<1>9. ASSUME NEW r \in Req, ClearWrite(r) PROVE ClearMove(s)
  <2>1. s # r => pend'[s] = pend[s] /\ req'[s] = req[s]
    BY <1>9 DEF ClearWrite, Step, TypeInv, TypeOK
  <2> QED BY <1>9, <2>1
<1>10. ASSUME NEW r \in Req, Recalculate(r) PROVE ClearMove(s)
  <2>1. UNCHANGED pend /\ req[r].pc = "sum" BY <1>10 DEF Recalculate
  <2>2. req'[r].todo = req[r].todo BY <1>10 DEF Recalculate, Step, Request, TypeInv, TypeOK
  <2>3. s # r => req'[s] = req[s] BY <1>10 DEF Recalculate, Step, TypeInv, TypeOK
  <2> QED BY <2>1, <2>2, <2>3
<1>11. ASSUME req'[s] = Overtaken(req[s]), pend'[s] = pend[s] PROVE ClearMove(s)
  BY <1>11 DEF Overtaken, Request
<1>12. ASSUME NEW r \in Req, NEW q, ItemsChange(r, q), q.todo = {}, s # r => pend'[s] = pend[s]
       PROVE  ClearMove(s)
  BY <1>11, <1>12 DEF ItemsChange
<1>13. ASSUME NEW r \in Req, Commit(r) PROVE ClearMove(s)
  <2>1. CASE Ends(r) BY <1>2, <2>1
  <2>2. CASE ~Ends(r)
    <3>1. ItemsChange(r, To(IdleReq, req[r].next)) /\ pend' = [pend EXCEPT ![r] = NoWrites]
      BY <1>13, <2>2 DEF Commit
    <3>2. s # r => pend'[s] = pend[s] BY <3>1 DEF TypeInv, TypeOK
    <3>3. To(IdleReq, req[r].next).todo = {} BY DEF To, IdleReq, Request
    <3> QED BY <1>12, <3>1, <3>2, <3>3
  <2> QED BY <2>1, <2>2
<1>14. ASSUME NEW r \in Req, CheckoutWrite(r) PROVE ClearMove(s)
  <2>1. To(IdleReq, "stamp").todo = {} BY DEF To, IdleReq, Request
  <2> QED BY <1>12, <1>14, <2>1 DEF CheckoutWrite
<1>15. ASSUME NEW r \in Req, TxFails(r) PROVE ClearMove(s) BY <1>2, <1>15 DEF TxFails
<1>16. ASSUME NEW r \in Req, TotalWrite(r) \/ CheckoutStamp(r) PROVE ClearMove(s)
  <2>1. IdleReq.todo = {} BY DEF IdleReq, Request
  <2> QED BY <1>4, <1>16, <2>1 DEF TotalWrite, CheckoutStamp
<1>17. ASSUME NEW r \in Req, CheckoutScan(r) \/ TotalRead(r) PROVE ClearMove(s)
  <2>1. \E q : Step(r, q) /\ q.pc \notin {"sum", "commit"} /\ UNCHANGED pend
    BY <1>17 DEF CheckoutScan, TotalRead, Request
  <2> QED BY <1>4, <2>1
<1>18. CASE CreateCart \/ DeleteCart \/ \E S \in SUBSET Item : PaymentTakes(S)
  BY <1>11, <1>18 DEF CreateCart, DeleteCart, PaymentTakes
<1>19. UNCHANGED vars => ClearMove(s) BY DEF vars
<1> HIDE DEF ClearMove
<1> QED
  BY <1>5, <1>6, <1>7, <1>8, <1>9, <1>10, <1>13, <1>14, <1>15, <1>16, <1>17, <1>18, <1>19
  DEF Next, Continues

LEMMA ClearInit == Init => ClearInv
BY EmptyRowsType DEF Init, ClearInv, Exclusive, ClearHolds, Held, NoWrites, IdleReq, Request

LEMMA ClearNext ==
    ASSUME TypeInv, ClearInv, [Next]_vars
    PROVE  ClearInv'
<1>1. Exclusive'
  <2> SUFFICES ASSUME NEW r \in Req, NEW s \in Req, NEW i \in Item, Held(r, i)', Held(s, i)', r # s
               PROVE  FALSE
    BY DEF Exclusive
  <2>1. ASSUME NEW t \in Req, NEW u \in Req, t # u, ~Held(t, i), Held(t, i)', Held(u, i)'
        PROVE  FALSE
    <3>1. ~Locked(i, t) /\ pend'[u] = pend[u] BY <2>1, WritesGrow
    <3>2. Held(u, i) BY <2>1, <3>1 DEF Held
    <3> QED BY <2>1, <3>1, <3>2 DEF Locked, Held
  <2> QED BY <2>1 DEF ClearInv, Exclusive
<1>2. ASSUME NEW s \in Req PROVE ClearHolds(s)'
  <2> SUFFICES ASSUME req'[s].pc \in {"sum", "commit"}, NEW i \in req'[s].todo, Held(s, i)'
               PROVE  item'[i].st = "ACTIVE"
    BY DEF ClearHolds
  <2>1. CASE /\ pend'[s] = pend[s] /\ req'[s].todo = req[s].todo
             /\ req'[s].pc \in {"sum", "commit"} => req[s].pc \in {"sum", "commit"}
    <3>1. i \in Item BY <2>1 DEF TypeInv, TypeOK, ReqRecord
    <3>2. Held(s, i) BY <2>1 DEF Held
    <3>3. ClearHolds(s) BY DEF ClearInv
    <3>4. item[i].st = "ACTIVE" BY <2>1, <3>2, <3>3 DEF ClearHolds
    <3> QED BY <3>1, <3>2, <3>4, HeldRowStays DEF ClearInv
  <2>2. CASE ClearWrite(s)
    <3>1. item' = item /\ req'[s].todo = req[s].todo
      BY <2>2 DEF ClearWrite, Step, To, Request, TypeInv, TypeOK
    <3>2. i \in Item BY <3>1 DEF TypeInv, TypeOK, ReqRecord
    <3>3. pend'[s][i] = IF i \in req[s].todo /\ Clearable(i) THEN GoneItem ELSE Unwritten
      BY <2>2, <3>2 DEF ClearWrite, TypeInv, TypeOK
    <3>4. Clearable(i) BY <3>3, EmptyRowsType DEF Held
    <3> QED BY <3>1, <3>4 DEF Clearable
  <2> QED BY <2>1, <2>2, ClearMoves DEF ClearMove
<1> QED BY <1>1, <1>2 DEF ClearInv

\* clearCart deletes the items it found ACTIVE only if they still are: an item
\* that was checked out meanwhile stays as it is, whoever else is at the cart.
THEOREM ClearKeeps == Spec => ClearKeepsCheckedOut
<1>1. TypeInv /\ ClearInv /\ [Next]_vars => ClearInv' BY ClearNext
<1>2. Spec => []ClearInv BY <1>1, ClearInit, TypeInvHolds, PTL DEF Spec
<1>3. TypeInv /\ ClearInv /\ [Next]_vars =>
        [\A r \in Req, i \in Item :
           Commit(r) /\ i \in req[r].todo /\ item[i].st = "CHECKED_OUT" => item'[i] = item[i]]_vars
  <2> SUFFICES ASSUME TypeInv, ClearInv, NEW r \in Req, NEW i \in Item, Commit(r),
                      i \in req[r].todo, item[i].st = "CHECKED_OUT"
               PROVE  item'[i] = item[i]
    OBVIOUS
  <2>1. CASE Ends(r) BY <2>1 DEF Ends
  <2>2. CASE item' = View(r)
    <3>1. req[r].pc = "commit" /\ ClearHolds(r) BY DEF Commit, ClearInv
    <3>2. ~Held(r, i) BY <3>1 DEF ClearHolds
    <3> QED BY <2>2, <3>2 DEF View, Held
  <2> QED BY <2>1, <2>2 DEF Commit
<1> QED BY <1>2, <1>3, TypeInvHolds, PTL DEF Spec, ClearKeepsCheckedOut
=============================================================================
