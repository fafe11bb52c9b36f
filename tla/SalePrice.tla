------------------------------ MODULE SalePrice ------------------------------
(***************************************************************************)
(* Product.salePrice: product-discount.service.ts, the nightly job         *)
(* product-discount.cronjob.service.ts, and product.service.ts where it    *)
(* edits prices, discounts and special offers.                             *)
(*                                                                         *)
(* The job reads all rows three times (discounts, offers, products) and    *)
(* after each read works through what it read, product by product, while   *)
(* admins edit.  Every process of the application runs it.  A day stands   *)
(* for the instants at which no start or end date passes.                  *)
(***************************************************************************)
EXTENDS Integers, FiniteSets

CONSTANTS
    Product,
    Proc,       \* processes of the application
    Pricing,    \* consumer and sale prices an admin may enter: .new for a new
                \* product, .edit for one that is there
    Rate,       \* percentages of a discount
    Window,     \* start and end dates an admin may enter, .new and .edit
    Deal,       \* amount and special price of an offer, .new and .edit, as far as given
    Absent,     \* a field that is null or not given
    Faults,     \* {"db"} if statements may fail, {"crash"} if processes may die
    LastDay,    \* bound on the days
    MaxEdits    \* bound on the admins' requests

\* The rates are those a double divides by 100 exactly.
ASSUME SalePriceAssumption ==
    /\ Pricing \in [{"new", "edit"} -> SUBSET [consumer : Nat \cup {Absent}, sale : Nat]]
    /\ Deal \in [{"new", "edit"} ->
                   SUBSET [amount : Nat \cup {Absent}, special : Int \cup {Absent}]]
    /\ Rate \subseteq {25, 50, 75, 100}
    /\ Window \in [{"new", "edit"} -> SUBSET [start : Nat \cup {Absent}, end : Nat \cup {Absent}]]
    /\ Absent \notin Int
    /\ LastDay \in Nat /\ MaxEdits \in Nat

VARIABLES
    day,
    price,    \* Product: consumerPrice, salePrice
    disc,     \* ProductDiscount
    offer,    \* ProductSpecialOffer
    night,    \* the nightly job of each process
    adm,      \* an admin's request between two statements
    edits,    \* how many requests have begun
    clean,    \* history: products nobody disturbed since the job of a process began
    settled   \* history: products a job has passed, undisturbed since

vars == <<day, price, disc, offer, night, adm, edits, clean, settled>>

Discount(id, st, rate, win) == [id |-> id, st |-> st, rate |-> rate, win |-> win]
NoDisc == Discount(0, FALSE, 0, [start |-> Absent, end |-> Absent])

Offer(id, st, deal, win) == [id |-> id, st |-> st, deal |-> deal, win |-> win]
NoDeal == [amount |-> 0, special |-> 0]
NoOffer == Offer(0, FALSE, NoDeal, [start |-> Absent, end |-> Absent])

HasDisc(d) == d # NoDisc
HasOffer(o) == o # NoOffer

\* What the job knows of a product.
Seen(pr, d, o) == [price |-> pr, disc |-> d, offer |-> o]
NoPrice == [consumer |-> Absent, sale |-> 0]
Nothing == Seen(NoPrice, NoDisc, NoOffer)
NothingSeen == [p \in Product |-> Nothing]

Night(pc, todo, now, seen) == [pc |-> pc, todo |-> todo, now |-> now, seen |-> seen]
NoNight(d) == Night("idle", {}, d, NothingSeen)

Request(pc, p, row, sale) == [pc |-> pc, p |-> p, row |-> row, sale |-> sale]
NoRequest == Request("idle", Absent, Absent, 0)

-----------------------------------------------------------------------------
\* shouldDiscountBeActive, shouldSpecialOfferBeActive
ShouldBeActive(win, now) ==
    win.start # Absent /\ win.end # Absent /\ win.start =< now /\ now =< win.end

\* What createProduct and updateProduct go by: the end does not matter.
Started(win, now) == win.start = Absent \/ win.start =< now

\* The offer of a new product: without a start the status given counts.
Begun(win, given, now) == IF win.start = Absent THEN given ELSE win.start =< now

Expired(win, now) == win.end # Absent /\ win.end < now

\* Mutant: what is not given is written as it is.
Given_Raw(new, old) == new

\* new ?? old
Given(new, old) == IF new = Absent THEN old ELSE new

NotNegative(n) == IF n < 0 THEN 0 ELSE n

\* Math.floor(base * (1 - rate / 100))
Discounted(base, rate) == (base * (100 - rate)) \div 100

\* The price of what was seen, with the discount and the offer counted or not: an
\* offer without a special price takes the consumer price.
Priced(s, withDisc, withOffer) ==
    LET base == IF withOffer THEN Given(s.offer.deal.special, s.price.consumer)
                ELSE s.price.consumer
    IN
    NotNegative(IF withDisc THEN Discounted(base, s.disc.rate) ELSE base)

\* recalculateProductSalePricesById
PriceById(s) == Priced(s, s.disc.st, s.offer.st)

\* recalculateProductSalePrices: what is past its end does not count.
PriceAt(s, now) ==
    Priced(s, s.disc.st /\ ~Expired(s.disc.win, now), s.offer.st /\ ~Expired(s.offer.win, now))

-----------------------------------------------------------------------------
\* The prices entered for a new product: an offer's price replaces the sale price.
Entered(pr, o) ==
    IF o.st /\ o.deal.special # Absent THEN [pr EXCEPT !.sale = o.deal.special] ELSE pr

\* The offer of a new product keeps a missing special price as null.
Fresh(deal) == [deal EXCEPT !.amount = Given(@, 0)]

\* createProduct, on the first day: a discount and an offer may be given.
Init ==
    /\ day = 1
    /\ disc \in [Product -> {NoDisc} \cup {Discount(1, Started(w, 1), r, w) : r \in Rate, w \in Window.new}]
    /\ offer \in [Product -> {NoOffer} \cup
            {Offer(1, Begun(w, st, 1), Fresh(d), w) : st \in BOOLEAN, d \in Deal.new, w \in Window.new}]
    /\ \E pr \in [Product -> Pricing.new] : price = [p \in Product |-> Entered(pr[p], offer[p])]
    /\ night = [w \in Proc |-> NoNight(0)]
    /\ adm = NoRequest
    /\ edits = 1
    /\ clean = [w \in Proc |-> {}]
    /\ settled = {}

Tick ==
    /\ day < LastDay
    /\ day' = day + 1
    /\ clean' = [w \in Proc |-> {}]
    /\ settled' = {}
    /\ UNCHANGED <<price, disc, offer, night, adm, edits>>

\* Somebody other than an undisturbed job changes product p.
Disturb(p) ==
    /\ clean' = [w \in Proc |-> clean[w] \ {p}]
    /\ settled' = settled \ {p}

-----------------------------------------------------------------------------
(* The nightly job *)

Runs(w, pc, todo, seen) == night' = [night EXCEPT ![w] = Night(pc, todo, day, seen)]

\* updateAllProductDiscountStatuses: the rows whose status is not that of their
\* dates.
NightBegin(w) ==
    LET wrong == {p \in Product : disc[p].st # ShouldBeActive(disc[p].win, day)} IN
    /\ night[w].pc = "idle" /\ night[w].now < day
    /\ Runs(w, "discounts", wrong,
            [p \in Product |-> Seen(NoPrice, IF p \in wrong THEN disc[p] ELSE NoDisc, NoOffer)])
    /\ clean' = [clean EXCEPT ![w] = Product]
    /\ UNCHANGED <<day, price, disc, offer, adm, edits, settled>>

\* The job of w is done with p.
Passed(w, p) == night' = [night EXCEPT ![w].todo = @ \ {p}, ![w].seen[p] = Nothing]

\* Mutant: the first error ends the loop.
Fails_Ends(w, p) ==
    /\ night' = [night EXCEPT ![w].todo = {}]
    /\ clean' = [clean EXCEPT ![w] = @ \ {p}]
    /\ UNCHANGED <<day, price, disc, offer, adm, edits, settled>>

\* A statement of the job about p fails and is only counted.
Fails(w, p) ==
    /\ Passed(w, p)
    /\ clean' = [clean EXCEPT ![w] = @ \ {p}]
    /\ UNCHANGED <<day, price, disc, offer, adm, edits, settled>>

\* The job writes p.
Writes(w, p) ==
    /\ Passed(w, p)
    /\ IF p \in clean[w] THEN UNCHANGED <<clean, settled>> ELSE Disturb(p)
    /\ UNCHANGED <<day, adm, edits>>

NightDiscount(w, p) ==
    LET d == night[w].seen[p].disc IN
    /\ night[w].pc = "discounts" /\ p \in night[w].todo
    /\ \/ /\ disc[p].id = d.id
          /\ disc' = [disc EXCEPT ![p].st = ~d.st]
          /\ Writes(w, p)
          /\ UNCHANGED <<price, offer>>
       \/ (disc[p].id # d.id \/ "db" \in Faults) /\ Fails(w, p)

\* updateAllProductSpecialOfferStatuses
NightOffers(w) ==
    LET wrong == {p \in Product : offer[p].st # ShouldBeActive(offer[p].win, day)} IN
    /\ night[w].pc = "discounts" /\ night[w].todo = {}
    /\ Runs(w, "offers", wrong,
            [p \in Product |-> Seen(NoPrice, NoDisc, IF p \in wrong THEN offer[p] ELSE NoOffer)])
    /\ UNCHANGED <<day, price, disc, offer, adm, edits, clean, settled>>

NightOffer(w, p) ==
    LET o == night[w].seen[p].offer IN
    /\ night[w].pc = "offers" /\ p \in night[w].todo
    /\ \/ /\ offer[p].id = o.id
          /\ offer' = [offer EXCEPT ![p].st = ~o.st]
          /\ Writes(w, p)
          /\ UNCHANGED <<price, disc>>
       \/ (offer[p].id # o.id \/ "db" \in Faults) /\ Fails(w, p)

\* The products recalculateProductSalePrices works on: those with a discount or an
\* offer, but for the ones without a consumer price, which it skips.
Promoted(s) == s.price.consumer # Absent /\ (HasDisc(s.disc) \/ HasOffer(s.offer))

\* Mutant: the prices are worked out before the offers are.
NightPrices_Early(w) ==
    LET rows == [p \in Product |-> Seen(price[p], disc[p], offer[p])] IN
    /\ night[w].pc = "discounts" /\ night[w].todo = {}
    /\ Runs(w, "prices", {p \in Product : Promoted(rows[p])},
            [p \in Product |-> IF Promoted(rows[p]) THEN rows[p] ELSE Nothing])
    /\ UNCHANGED <<day, price, disc, offer, adm, edits, clean, settled>>

NightPrices(w) ==
    LET rows == [p \in Product |-> Seen(price[p], disc[p], offer[p])] IN
    /\ night[w].pc = "offers" /\ night[w].todo = {}
    /\ Runs(w, "prices", {p \in Product : Promoted(rows[p])},
            [p \in Product |-> IF Promoted(rows[p]) THEN rows[p] ELSE Nothing])
    /\ UNCHANGED <<day, price, disc, offer, adm, edits, clean, settled>>

\* One product: the price and the deletion of an expired discount in one
\* transaction.
NightPrice(w, p) ==
    LET s == night[w].seen[p]
        new == PriceAt(s, night[w].now)
        drop == HasDisc(s.disc) /\ Expired(s.disc.win, night[w].now)
    IN  /\ night[w].pc = "prices" /\ p \in night[w].todo
        /\ \/ /\ drop => disc[p].id = s.disc.id
              /\ price' = [price EXCEPT ![p].sale = IF s.price.sale # new THEN new ELSE @]
              /\ disc' = [disc EXCEPT ![p] = IF drop THEN NoDisc ELSE @]
              /\ Passed(w, p)
              /\ IF p \in clean[w]
                   THEN settled' = settled \cup {p} /\ UNCHANGED clean
                   ELSE IF drop \/ s.price.sale # new THEN Disturb(p)
                        ELSE UNCHANGED <<clean, settled>>
              /\ UNCHANGED <<day, offer, adm, edits>>
           \/ /\ \/ drop /\ disc[p].id # s.disc.id
                 \/ "db" \in Faults /\ (drop \/ s.price.sale # new)
              /\ Fails(w, p)

\* Done, or a read failed: the next run is tomorrow's.
NightEnd(w) ==
    /\ night[w].pc = "prices" /\ night[w].todo = {}
    /\ night' = [night EXCEPT ![w] = NoNight(night[w].now)]
    /\ clean' = [clean EXCEPT ![w] = {}]
    /\ UNCHANGED <<day, price, disc, offer, adm, edits, settled>>

NightFails(w) ==
    /\ "db" \in Faults
    /\ night[w].pc \in {"discounts", "offers"} /\ night[w].todo = {}
    /\ night' = [night EXCEPT ![w] = NoNight(night[w].now)]
    /\ clean' = [clean EXCEPT ![w] = {}]
    /\ UNCHANGED <<day, price, disc, offer, adm, edits, settled>>

\* The process dies with its job.
Crash(w) ==
    /\ "crash" \in Faults /\ night[w].pc # "idle"
    /\ night' = [night EXCEPT ![w] = NoNight(night[w].now)]
    /\ clean' = [clean EXCEPT ![w] = {}]
    /\ UNCHANGED <<day, price, disc, offer, adm, edits, settled>>

-----------------------------------------------------------------------------
(* Admins.  A request of several statements is in adm between them. *)

Begins == edits < MaxEdits /\ edits' = edits + 1

ValidDates(win) == win.start # Absent /\ win.end # Absent => win.start < win.end

\* create: the price is recalculated before the row is there.
CreateRead(p, st, r, win) ==
    /\ adm.pc = "idle" /\ Begins
    /\ ~HasDisc(disc[p]) /\ ValidDates(win)
    /\ adm' = Request("recalc", p, Discount(edits + 1, st, r, win), 0)
    /\ UNCHANGED <<day, price, disc, offer, night, clean, settled>>

CreateRecalc ==
    LET s == Seen(price[adm.p], disc[adm.p], offer[adm.p]) IN
    /\ adm.pc = "recalc"
    /\ adm' = IF s.price.consumer = Absent THEN NoRequest
              ELSE Request("reprice", adm.p, adm.row, PriceById(s))
    /\ UNCHANGED <<day, price, disc, offer, night, edits, clean, settled>>

\* An admin's request writes the price.
Sells(p, sale) ==
    /\ price' = [price EXCEPT ![p].sale = sale]
    /\ Disturb(p)

CreateReprice ==
    /\ adm.pc = "reprice"
    /\ Sells(adm.p, adm.sale)
    /\ adm' = Request("insert", adm.p, adm.row, 0)
    /\ UNCHANGED <<day, disc, offer, night, edits>>

\* ProductDiscount.productId is unique.
CreateInsert ==
    /\ adm.pc = "insert"
    /\ IF HasDisc(disc[adm.p]) THEN UNCHANGED <<disc, clean, settled>>
       ELSE disc' = [disc EXCEPT ![adm.p] = adm.row] /\ Disturb(adm.p)
    /\ adm' = NoRequest
    /\ UNCHANGED <<day, price, offer, night, edits>>

\* update, updateByProductId: the price is left alone.
UpdateDiscount(p, st, r, win) ==
    /\ Begins
    /\ HasDisc(disc[p]) /\ (win # Absent => ValidDates(win))
    /\ disc' = [disc EXCEPT ![p] =
           Discount(disc[p].id, Given(st, disc[p].st), Given(r, disc[p].rate), Given(win, disc[p].win))]
    /\ Disturb(p)
    /\ UNCHANGED <<day, price, offer, night, adm>>

\* remove, removeByProductId, bulkDelete: the price is left alone.
RemoveDiscount(p) ==
    /\ Begins
    /\ HasDisc(disc[p])
    /\ disc' = [disc EXCEPT ![p] = NoDisc]
    /\ Disturb(p)
    /\ UNCHANGED <<day, price, offer, night, adm>>

\* updateProduct: one transaction.  No rate leaves the discount alone, the rate
\* 0 removes it.
UpdateProduct(p, pr, r, win) ==
    /\ Begins
    /\ price' = [price EXCEPT ![p] = Given(pr, price[p])]
    /\ disc' = [disc EXCEPT ![p] =
           IF r = Absent THEN @
           ELSE IF r = 0 THEN NoDisc
           ELSE Discount(IF HasDisc(@) THEN @.id ELSE edits + 1, Started(win, day), r, win)]
    /\ Disturb(p)
    /\ UNCHANGED <<day, offer, night, adm>>

\* What is given of a deal, over a stored one; a new row has zeros.
Merged(deal, old) ==
    [amount |-> Given(deal.amount, old.amount), special |-> Given(deal.special, old.special)]

\* The price before the offer, as the code restores it.
Whole(deal) == deal.amount + Given(deal.special, 0)

\* The price restored when the offer goes.
Restored(deal, p) == IF Whole(deal) > 0 THEN Whole(deal) ELSE price[p].sale

\* updateProductSpecialOffer: three ways to go on, by the offer as read here.
OfferRead(p, deal, win) ==
    LET st == ShouldBeActive(win, day)
        now == Merged(deal, offer[p].deal)
        row == Offer(edits + 1, st, deal, win)
    IN
    /\ adm.pc = "idle" /\ Begins
    /\ adm' = IF Expired(win, day) THEN Request("restore", p, Absent, Restored(now, p))
              ELSE IF HasOffer(offer[p])
                THEN Request("offerUpdate", p, row,
                             IF st /\ deal.special # Absent THEN deal.special ELSE Whole(now))
                ELSE Request("offerInsert", p, row, 0)
    /\ UNCHANGED <<day, price, disc, offer, night, clean, settled>>

OfferInsert ==
    LET row == adm.row IN
    /\ adm.pc = "offerInsert"
    /\ IF HasOffer(offer[adm.p])
         THEN adm' = NoRequest /\ UNCHANGED <<offer, clean, settled>>
         ELSE /\ offer' = [offer EXCEPT ![adm.p] = [row EXCEPT !.deal = Merged(@, NoDeal)]]
              /\ adm' = IF row.st /\ row.deal.special # Absent
                          THEN Request("sell", adm.p, Absent, row.deal.special)
                          ELSE NoRequest
              /\ Disturb(adm.p)
    /\ UNCHANGED <<day, price, disc, night, edits>>

OfferUpdate ==
    LET old == offer[adm.p] IN
    /\ adm.pc = "offerUpdate"
    /\ IF ~HasOffer(old)
         THEN adm' = NoRequest /\ UNCHANGED <<offer, clean, settled>>
         ELSE /\ offer' = [offer EXCEPT ![adm.p] =
                     Offer(old.id, adm.row.st, Merged(adm.row.deal, old.deal), adm.row.win)]
              /\ adm' = Request("sell", adm.p, Absent, adm.sale)
              /\ Disturb(adm.p)
    /\ UNCHANGED <<day, price, disc, night, edits>>

OfferSell ==
    /\ adm.pc = "sell"
    /\ Sells(adm.p, adm.sale)
    /\ adm' = NoRequest
    /\ UNCHANGED <<day, disc, offer, night, edits>>

\* deleteProductSpecialOffer: the price first, the row then.
OfferDelete(p) ==
    /\ adm.pc = "idle" /\ Begins
    /\ HasOffer(offer[p])
    /\ adm' = Request("restore", p, Absent, Restored(offer[p].deal, p))
    /\ UNCHANGED <<day, price, disc, offer, night, clean, settled>>

OfferRestore ==
    /\ adm.pc = "restore"
    /\ Sells(adm.p, adm.sale)
    /\ adm' = Request("offerDrop", adm.p, Absent, 0)
    /\ UNCHANGED <<day, disc, offer, night, edits>>

OfferDrop ==
    /\ adm.pc = "offerDrop"
    /\ offer' = [offer EXCEPT ![adm.p] = NoOffer]
    /\ Disturb(adm.p)
    /\ adm' = NoRequest
    /\ UNCHANGED <<day, price, disc, night, edits>>

AdminFails ==
    /\ "db" \in Faults /\ adm.pc # "idle"
    /\ adm' = NoRequest
    /\ UNCHANGED <<day, price, disc, offer, night, edits, clean, settled>>

-----------------------------------------------------------------------------
NightStep(w) ==
    \/ NightBegin(w) \/ NightOffers(w) \/ NightPrices(w)
    \/ NightEnd(w) \/ NightFails(w) \/ Crash(w)
    \/ \E p \in Product : NightDiscount(w, p) \/ NightOffer(w, p) \/ NightPrice(w, p)

EditDiscount(p) ==
    \/ \E st \in BOOLEAN, r \in Rate, win \in Window.edit : CreateRead(p, st, r, win)
    \/ \E st \in BOOLEAN \cup {Absent}, r \in Rate \cup {Absent}, win \in Window.edit \cup {Absent} :
          UpdateDiscount(p, st, r, win)
    \/ RemoveDiscount(p)

EditProduct(p) ==
    \/ \E pr \in Pricing.edit \cup {Absent}, r \in Rate \cup {0, Absent}, win \in Window.edit :
          UpdateProduct(p, pr, r, win)
    \/ \E deal \in Deal.edit, win \in Window.edit : OfferRead(p, deal, win)
    \/ OfferDelete(p)

AdminGoesOn ==
    \/ CreateRecalc \/ CreateReprice \/ CreateInsert
    \/ OfferInsert \/ OfferUpdate \/ OfferSell \/ OfferRestore \/ OfferDrop \/ AdminFails

Next ==
    \/ Tick
    \/ \E w \in Proc : NightStep(w)
    \/ \E p \in Product : EditDiscount(p) \/ EditProduct(p)
    \/ AdminGoesOn

Spec == Init /\ [][Next]_vars
-----------------------------------------------------------------------------
Dates == [start : Nat \cup {Absent}, end : Nat \cup {Absent}]
DiscRecord == [id : Nat, st : BOOLEAN, rate : Nat, win : Dates]
OfferRecord ==
    [id : Nat, st : BOOLEAN, deal : [amount : Nat, special : Int \cup {Absent}], win : Dates]
OfferEntry ==
    [id : Nat, st : BOOLEAN, win : Dates,
     deal : [amount : Nat \cup {Absent}, special : Int \cup {Absent}]]
PriceRecord == [consumer : Nat \cup {Absent}, sale : Int]

\* Shape of the state.
TypeOK ==
    /\ day \in Nat /\ edits \in Nat
    /\ price \in [Product -> PriceRecord]
    /\ disc \in [Product -> DiscRecord]
    /\ offer \in [Product -> OfferRecord]
    /\ night \in [Proc ->
          [pc : {"idle", "discounts", "offers", "prices"}, todo : SUBSET Product, now : Nat,
           seen : [Product -> [price : PriceRecord, disc : DiscRecord, offer : OfferRecord]]]]
    /\ adm \in [pc : {"idle", "recalc", "reprice", "insert", "offerInsert", "offerUpdate", "sell",
                      "restore", "offerDrop"},
                p : Product \cup {Absent}, row : DiscRecord \cup OfferEntry \cup {Absent},
                sale : Int]
    /\ clean \in [Proc -> SUBSET Product]
    /\ settled \subseteq Product

\* What a product sells for by the dates of its discount and offer.
DueToday(p) ==
    Priced(Seen(price[p], disc[p], offer[p]),
           ShouldBeActive(disc[p].win, day), ShouldBeActive(offer[p].win, day))

\* cronjob.service.ts:348 "Recalculate sale prices": a product the job has passed
\* undisturbed sells at the price its discount and offer give it today, their
\* statuses are those of the dates, and no discount is left that has run out;
\* however many processes run the job at once, whatever failed for others, and
\* until somebody edits it or a date passes.
Settled ==
    \A p \in settled :
        /\ price[p].sale = DueToday(p)
        /\ disc[p].st = ShouldBeActive(disc[p].win, day)
        /\ offer[p].st = ShouldBeActive(offer[p].win, day)
        /\ ~Expired(disc[p].win, day)

\* A product with a promotion that nobody disturbed and for which nothing failed
\* is settled when the job ends: neither errors of others nor other runs make the
\* job leave it out.
NobodyLeftOut ==
    [][\A w \in Proc : night[w].pc = "prices" /\ night[w].todo = {} /\ night'[w].pc = "idle" =>
          {p \in clean[w] : Promoted(Seen(price[p], disc[p], offer[p]))} \subseteq settled']_vars

\* cronjob.service.ts:427 "delete expired record(s)": the job deletes a discount
\* only after its end.
DeletesOnlyExpired ==
    [][\A w \in Proc, p \in Product :
          NightPrice(w, p) /\ HasDisc(disc[p]) /\ ~HasDisc(disc'[p]) => Expired(disc[p].win, day)]_vars
=============================================================================
