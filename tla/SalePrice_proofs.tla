-------------------------- MODULE SalePrice_proofs --------------------------
(* What holds of SalePrice for every value of its constants.               *)
EXTENDS SalePrice, TLAPS

SeenRecord == [price : PriceRecord, disc : DiscRecord, offer : OfferRecord]

\* What an admin's request that goes on holds.
AdmShape ==
    /\ adm.pc # "idle" => adm.p \in Product
    /\ adm.pc \in {"recalc", "reprice", "insert"} => adm.row \in DiscRecord /\ adm.row.id > 0
    /\ adm.pc \in {"offerInsert", "offerUpdate"} => adm.row \in OfferEntry

\* The id tells a row from no row.
Ids == \A p \in Product : disc[p] = NoDisc \/ disc[p].id > 0

\* A run toggles rows only, and prices what has a consumer price.
SeenRows ==
    \A w \in Proc : \A p \in night[w].todo :
        /\ night[w].pc = "discounts" => night[w].seen[p].disc.id > 0
        /\ night[w].pc = "prices" => night[w].seen[p].price.consumer # Absent

TypeInv == TypeOK /\ AdmShape /\ Ids /\ SeenRows

NightRecord == [pc : {"idle", "discounts", "offers", "prices"}, todo : SUBSET Product,
                now : Nat, seen : [Product -> SeenRecord]]

\* Deals as stored, and as given.
Deals == [amount : Nat, special : Int \cup {Absent}]
GivenDeals == [amount : Nat \cup {Absent}, special : Int \cup {Absent}]

-----------------------------------------------------------------------------
(* Shapes *)

LEMMA NoRows == NoDisc \in DiscRecord /\ NoOffer \in OfferRecord /\ NoPrice \in PriceRecord
BY DEF NoDisc, NoOffer, NoDeal, NoPrice, Discount, Offer, DiscRecord, OfferRecord, PriceRecord, Dates

\* Nothing is due by the dates of no row.
LEMMA NothingDue ==
    ASSUME NEW now
    PROVE  /\ NoDisc.id = 0 /\ NoDisc.st = FALSE /\ NoOffer.st = FALSE
           /\ ShouldBeActive(NoDisc.win, now) = FALSE /\ ShouldBeActive(NoOffer.win, now) = FALSE
           /\ ~Expired(NoDisc.win, now)
BY DEF NoDisc, NoOffer, Discount, Offer, ShouldBeActive, Expired

LEMMA NothingSeenType == Nothing \in SeenRecord /\ NothingSeen \in [Product -> SeenRecord]
BY NoRows DEF NothingSeen, Nothing, Seen, SeenRecord

LEMMA DatesType == Window.new \subseteq Dates /\ Window.edit \subseteq Dates
BY SalePriceAssumption DEF Dates

LEMMA EntryTypes ==
    /\ Deal.new \subseteq GivenDeals /\ Deal.edit \subseteq GivenDeals
    /\ Pricing.new \subseteq PriceRecord /\ Pricing.edit \subseteq PriceRecord
<1>1. Deal.new \subseteq GivenDeals /\ Deal.edit \subseteq GivenDeals
  BY SalePriceAssumption DEF GivenDeals
<1>2. /\ Pricing.new \subseteq [consumer : Nat \cup {Absent}, sale : Nat]
      /\ Pricing.edit \subseteq [consumer : Nat \cup {Absent}, sale : Nat]
  BY SalePriceAssumption
<1>3. [consumer : Nat \cup {Absent}, sale : Nat] \subseteq PriceRecord BY DEF PriceRecord
<1> QED BY <1>1, <1>2, <1>3

LEMMA DiscountType ==
    ASSUME NEW id \in Nat, NEW st \in BOOLEAN, NEW rate \in Nat, NEW win \in Dates
    PROVE  Discount(id, st, rate, win) \in DiscRecord /\ Discount(id, st, rate, win).id = id
BY DEF Discount, DiscRecord

LEMMA OfferType ==
    ASSUME NEW id \in Nat, NEW st \in BOOLEAN, NEW win \in Dates
    PROVE  /\ \A deal \in Deals : Offer(id, st, deal, win) \in OfferRecord
           /\ \A deal \in GivenDeals : Offer(id, st, deal, win) \in OfferEntry
BY DEF Offer, OfferRecord, OfferEntry, Deals, GivenDeals

LEMMA DealTypes ==
    /\ \A deal \in GivenDeals : Fresh(deal) \in Deals
    /\ \A deal \in GivenDeals, old \in Deals : Merged(deal, old) \in Deals
    /\ NoDeal \in Deals
    /\ \A deal \in Deals : Whole(deal) \in Int
<1>1. \A deal \in GivenDeals : Fresh(deal) \in Deals BY DEF Fresh, Given, Deals, GivenDeals
<1>2. \A deal \in GivenDeals, old \in Deals : Merged(deal, old) \in Deals
  BY DEF Merged, Given, Deals, GivenDeals
<1>3. NoDeal \in Deals BY DEF NoDeal, Deals
<1>4. \A deal \in Deals : Whole(deal) \in Int BY DEF Whole, Given, Deals
<1> QED BY <1>1, <1>2, <1>3, <1>4

LEMMA Booleans ==
    ASSUME NEW win \in Dates, NEW now \in Nat
    PROVE  /\ ShouldBeActive(win, now) \in BOOLEAN
           /\ Started(win, now) \in BOOLEAN
           /\ \A given \in BOOLEAN : Begun(win, given, now) \in BOOLEAN
           /\ Expired(win, now) \in BOOLEAN
<1>1. ShouldBeActive(win, now) \in BOOLEAN BY DEF ShouldBeActive
<1>2. Started(win, now) \in BOOLEAN BY DEF Started
<1>3. ASSUME NEW given \in BOOLEAN PROVE Begun(win, given, now) \in BOOLEAN
  <2>1. CASE win.start = Absent BY <2>1, Zenon DEF Begun
  <2>2. CASE win.start # Absent
    <3>1. (win.start =< now) \in BOOLEAN OBVIOUS
    <3> QED BY <2>2, <3>1, Zenon DEF Begun
  <2> QED BY <2>1, <2>2
<1>4. Expired(win, now) \in BOOLEAN BY DEF Expired
<1> QED BY <1>1, <1>2, <1>3, <1>4

LEMMA PricedType ==
    ASSUME NEW s \in SeenRecord, s.price.consumer # Absent, NEW withDisc \in BOOLEAN,
           NEW withOffer \in BOOLEAN
    PROVE  Priced(s, withDisc, withOffer) \in Int
<1>1. s.price.consumer \in Nat /\ s.offer.deal.special \in Int \cup {Absent} /\ s.disc.rate \in Nat
  BY DEF SeenRecord, PriceRecord, OfferRecord, DiscRecord
<1> DEFINE base == IF withOffer THEN Given(s.offer.deal.special, s.price.consumer)
                   ELSE s.price.consumer
<1>2. base \in Int BY <1>1 DEF Given
<1>3. base * (100 - s.disc.rate) \in Int BY <1>1, <1>2
<1>4. Discounted(base, s.disc.rate) \in Int
  <2> HIDE DEF base
  <2> QED BY <1>3 DEF Discounted
<1>5. \A n \in Int : NotNegative(n) \in Int BY DEF NotNegative
<1> QED BY <1>2, <1>4, <1>5 DEF Priced

-----------------------------------------------------------------------------
(* Initial states *)

LEMMA TypeInit == Init => TypeInv
<1> SUFFICES ASSUME Init PROVE TypeInv OBVIOUS
<1> USE DEF Init
<1>1. disc \in [Product -> DiscRecord] /\ Ids
  <2> SUFFICES ASSUME NEW p \in Product
               PROVE  disc[p] \in DiscRecord /\ (disc[p] = NoDisc \/ disc[p].id > 0)
    BY DEF Ids
  <2>1. CASE disc[p] = NoDisc BY <2>1, NoRows
  <2>2. CASE disc[p] # NoDisc
    <3>1. PICK r \in Rate, w \in Window.new : disc[p] = Discount(1, Started(w, 1), r, w)
      BY <2>2
    <3>2. r \in Nat /\ w \in Dates BY DatesType, SalePriceAssumption
    <3> QED BY <3>1, <3>2, Booleans, DiscountType
  <2> QED BY <2>1, <2>2
<1>2. offer \in [Product -> OfferRecord]
  <2> SUFFICES ASSUME NEW p \in Product PROVE offer[p] \in OfferRecord OBVIOUS
  <2>1. CASE offer[p] = NoOffer BY <2>1, NoRows
  <2>2. CASE offer[p] # NoOffer
    <3>1. PICK st \in BOOLEAN, d \in Deal.new, w \in Window.new :
                 offer[p] = Offer(1, Begun(w, st, 1), Fresh(d), w)
      BY <2>2
    <3>2. w \in Dates /\ d \in GivenDeals BY DatesType, EntryTypes
    <3>3. Fresh(d) \in Deals /\ Begun(w, st, 1) \in BOOLEAN BY <3>2, DealTypes, Booleans
    <3> QED BY <3>1, <3>2, <3>3, OfferType
  <2> QED BY <2>1, <2>2
<1>3. price \in [Product -> PriceRecord]
  <2>1. PICK pr \in [Product -> Pricing.new] : price = [p \in Product |-> Entered(pr[p], offer[p])]
    OBVIOUS
  <2>2. SUFFICES ASSUME NEW p \in Product PROVE price[p] \in PriceRecord BY <2>1
  <2>3. pr[p] \in PriceRecord BY EntryTypes
  <2>4. offer[p].deal.special \in Int \cup {Absent} BY <1>2 DEF OfferRecord
  <2>5. Entered(pr[p], offer[p]) \in PriceRecord BY <2>3, <2>4 DEF PriceRecord, Entered
  <2> QED BY <2>1, <2>5
<1>4. night \in [Proc -> NightRecord] /\ SeenRows
  BY NothingSeenType DEF NoNight, Night, NightRecord, SeenRows
<1>5. adm \in [pc : {"idle", "recalc", "reprice", "insert", "offerInsert", "offerUpdate", "sell",
                     "restore", "offerDrop"},
               p : Product \cup {Absent}, row : DiscRecord \cup OfferEntry \cup {Absent},
               sale : Int] /\ AdmShape
  BY DEF NoRequest, Request, AdmShape
<1> QED BY <1>1, <1>2, <1>3, <1>4, <1>5 DEF TypeInv, TypeOK, SeenRecord, NightRecord

-----------------------------------------------------------------------------
(* Steps of the nightly job *)

LEMMA NightType == TypeOK <=>
    /\ day \in Nat /\ edits \in Nat
    /\ price \in [Product -> PriceRecord]
    /\ disc \in [Product -> DiscRecord]
    /\ offer \in [Product -> OfferRecord]
    /\ night \in [Proc -> NightRecord]
    /\ adm \in [pc : {"idle", "recalc", "reprice", "insert", "offerInsert", "offerUpdate", "sell",
                      "restore", "offerDrop"},
                p : Product \cup {Absent}, row : DiscRecord \cup OfferEntry \cup {Absent},
                sale : Int]
    /\ clean \in [Proc -> SUBSET Product]
    /\ settled \subseteq Product
BY DEF TypeOK, SeenRecord, NightRecord

\* A step of one run that leaves prices and rows alone.
LEMMA NightAlone ==
    ASSUME TypeInv, NEW w \in Proc, NEW x \in NightRecord,
           night' = [night EXCEPT ![w] = x],
           \A p \in x.todo :
               /\ x.pc = "discounts" => x.seen[p].disc.id > 0
               /\ x.pc = "prices" => x.seen[p].price.consumer # Absent,
           UNCHANGED <<day, price, disc, offer, adm, edits>>,
           clean' \in [Proc -> SUBSET Product], settled' \subseteq Product
    PROVE  TypeInv'
<1>1. TypeOK' 
  <2>1. /\ day' \in Nat /\ edits' \in Nat
        /\ price' \in [Product -> PriceRecord] /\ disc' \in [Product -> DiscRecord]
        /\ offer' \in [Product -> OfferRecord] /\ night' \in [Proc -> NightRecord]
        /\ clean' \in [Proc -> SUBSET Product] /\ settled' \subseteq Product
    BY NightType DEF TypeInv
  <2> QED BY <2>1 DEF TypeInv, TypeOK, SeenRecord, NightRecord
<1>2. AdmShape' BY DEF TypeInv, AdmShape
<1>3. Ids' BY DEF TypeInv, Ids
<1>4. SeenRows' BY NightType DEF TypeInv, SeenRows
<1> QED BY <1>1, <1>2, <1>3, <1>4 DEF TypeInv

LEMMA NightReads ==
    ASSUME TypeInv, NEW w \in Proc, NightBegin(w) \/ NightOffers(w) \/ NightPrices(w)
    PROVE  TypeInv'
<1> USE DEF TypeInv
<1>0. /\ price \in [Product -> PriceRecord] /\ disc \in [Product -> DiscRecord]
      /\ offer \in [Product -> OfferRecord] /\ day \in Nat
      /\ clean \in [Proc -> SUBSET Product] /\ settled \subseteq Product
  BY NightType
<1>a. \A pr \in PriceRecord, d \in DiscRecord, o \in OfferRecord : Seen(pr, d, o) \in SeenRecord
  BY DEF Seen, SeenRecord
<1>b. \A pc \in {"idle", "discounts", "offers", "prices"}, todo \in SUBSET Product,
         seen \in [Product -> SeenRecord] : Night(pc, todo, day, seen) \in NightRecord
  BY <1>0 DEF Night, NightRecord
<1>1. CASE NightBegin(w)
  <2> DEFINE wrong == {p \in Product : disc[p].st # ShouldBeActive(disc[p].win, day)}
  <2> DEFINE seen == [p \in Product |-> Seen(NoPrice, IF p \in wrong THEN disc[p] ELSE NoDisc, NoOffer)]
  <2>1. seen \in [Product -> SeenRecord] BY <1>0, <1>a, NoRows
  <2>2. ASSUME NEW p \in wrong PROVE seen[p].disc.id > 0
    <3>1. disc[p] # NoDisc BY NothingDue
    <3>2. seen[p].disc = disc[p] BY DEF Seen
    <3> QED BY <3>1, <3>2 DEF Ids
  <2>3. /\ night' = [night EXCEPT ![w] = Night("discounts", wrong, day, seen)]
        /\ UNCHANGED <<day, price, disc, offer, adm, edits, settled>>
        /\ clean' = [clean EXCEPT ![w] = Product]
    BY <1>1 DEF NightBegin, Runs
  <2>4. Night("discounts", wrong, day, seen) \in NightRecord BY <2>1, <1>b
  <2>5. clean' \in [Proc -> SUBSET Product] BY <2>3, <1>0
  <2>6. \A p \in wrong : seen[p].disc.id > 0 BY <2>2
  <2> HIDE DEF wrong, seen
  <2>7. \A p \in Night("discounts", wrong, day, seen).todo :
           Night("discounts", wrong, day, seen).seen[p].disc.id > 0
    BY <2>6 DEF Night
  <2>8. Night("discounts", wrong, day, seen).pc = "discounts" BY DEF Night
  <2> QED BY <2>3, <2>4, <2>5, <2>7, <2>8, <1>0, NightAlone
<1>2. CASE NightOffers(w)
  <2> DEFINE wrong == {p \in Product : offer[p].st # ShouldBeActive(offer[p].win, day)}
  <2> DEFINE seen == [p \in Product |-> Seen(NoPrice, NoDisc, IF p \in wrong THEN offer[p] ELSE NoOffer)]
  <2>1. seen \in [Product -> SeenRecord] BY <1>0, <1>a, NoRows
  <2>3. /\ night' = [night EXCEPT ![w] = Night("offers", wrong, day, seen)]
        /\ UNCHANGED <<day, price, disc, offer, adm, edits, clean, settled>>
    BY <1>2 DEF NightOffers, Runs
  <2>4. Night("offers", wrong, day, seen) \in NightRecord BY <2>1, <1>b
  <2> HIDE DEF wrong, seen
  <2>5. Night("offers", wrong, day, seen).pc = "offers" BY DEF Night
  <2> QED BY <2>3, <2>4, <2>5, <1>0, NightAlone
<1>3. CASE NightPrices(w)
  <2> DEFINE rows == [p \in Product |-> Seen(price[p], disc[p], offer[p])]
  <2> DEFINE todo == {p \in Product : Promoted(rows[p])}
  <2> DEFINE seen == [p \in Product |-> IF Promoted(rows[p]) THEN rows[p] ELSE Nothing]
  <2>1. seen \in [Product -> SeenRecord] BY <1>0, <1>a, NothingSeenType
  <2>2. \A p \in todo : seen[p].price.consumer # Absent BY DEF Promoted
  <2>3. /\ night' = [night EXCEPT ![w] = Night("prices", todo, day, seen)]
        /\ UNCHANGED <<day, price, disc, offer, adm, edits, clean, settled>>
    BY <1>3 DEF NightPrices, Runs
  <2>4. Night("prices", todo, day, seen) \in NightRecord BY <2>1, <1>b
  <2> HIDE DEF todo, seen
  <2>5. /\ Night("prices", todo, day, seen).pc = "prices"
        /\ Night("prices", todo, day, seen).todo = todo
        /\ Night("prices", todo, day, seen).seen = seen
    BY DEF Night
  <2>6. \A p \in Night("prices", todo, day, seen).todo :
           Night("prices", todo, day, seen).seen[p].price.consumer # Absent
    BY <2>2, <2>5
  <2> QED BY <2>3, <2>4, <2>5, <2>6, <1>0, NightAlone
<1> QED BY <1>1, <1>2, <1>3

LEMMA NightEnds ==
    ASSUME TypeInv, NEW w \in Proc, NightEnd(w) \/ NightFails(w) \/ Crash(w)
    PROVE  TypeInv'
<1> USE DEF TypeInv
<1>0. night \in [Proc -> NightRecord] /\ clean \in [Proc -> SUBSET Product] /\ settled \subseteq Product
  BY NightType
<1>1. night' = [night EXCEPT ![w] = NoNight(night[w].now)]
  BY DEF NightEnd, NightFails, Crash
<1>2. NoNight(night[w].now) \in NightRecord /\ NoNight(night[w].now).pc = "idle"
  BY <1>0, NothingSeenType DEF NoNight, Night, NightRecord
<1>3. clean' \in [Proc -> SUBSET Product] /\ settled' \subseteq Product
  BY <1>0 DEF NightEnd, NightFails, Crash
<1>4. UNCHANGED <<day, price, disc, offer, adm, edits>> BY DEF NightEnd, NightFails, Crash
<1> QED BY <1>1, <1>2, <1>3, <1>4, NightAlone

\* What passing a product does to the runs.
LEMMA PassedEffect ==
    ASSUME night \in [Proc -> NightRecord], NEW w \in Proc, NEW p \in Product, Passed(w, p)
    PROVE  /\ night' \in [Proc -> NightRecord]
           /\ \A v \in Proc : v # w => night'[v] = night[v]
           /\ night'[w].pc = night[w].pc /\ night'[w].now = night[w].now
           /\ night'[w].todo = night[w].todo \ {p}
           /\ \A q \in Product : q # p => night'[w].seen[q] = night[w].seen[q]
<1>1. night[w] \in NightRecord /\ night[w].seen \in [Product -> SeenRecord] BY DEF NightRecord
<1> DEFINE seen == [night[w].seen EXCEPT ![p] = Nothing]
<1> DEFINE x == [night[w] EXCEPT !.todo = night[w].todo \ {p}, !.seen = seen]
<1>2. night' = [night EXCEPT ![w] = x] BY <1>1 DEF Passed, NightRecord
<1>3. seen \in [Product -> SeenRecord] /\ \A q \in Product : q # p => seen[q] = night[w].seen[q]
  BY <1>1, NothingSeenType
<1> HIDE DEF seen
<1>4. /\ x \in NightRecord /\ x.pc = night[w].pc /\ x.now = night[w].now
      /\ x.todo = night[w].todo \ {p} /\ x.seen = seen
  BY <1>1, <1>3 DEF NightRecord
<1> HIDE DEF x
<1>5. night'[w] = x /\ \A v \in Proc : v # w => night'[v] = night[v] BY <1>2
<1>6. night' \in [Proc -> NightRecord] BY <1>2, <1>4
<1> QED BY <1>3, <1>4, <1>5, <1>6

\* A step of a run about one product.
LEMMA PassedType ==
    ASSUME TypeInv, NEW w \in Proc, NEW p \in Product, Passed(w, p),
           UNCHANGED <<day, adm, edits>>,
           price' \in [Product -> PriceRecord], disc' \in [Product -> DiscRecord],
           offer' \in [Product -> OfferRecord],
           clean' \in [Proc -> SUBSET Product], settled' \subseteq Product, Ids'
    PROVE  TypeInv'
<1> USE DEF TypeInv
<1>1. night \in [Proc -> NightRecord] /\ day \in Nat /\ edits \in Nat BY NightType
<1>2. night' \in [Proc -> NightRecord] BY <1>1, PassedEffect
<1>3. TypeOK'
  <2>1. day' \in Nat /\ edits' \in Nat BY <1>1
  <2> QED BY <2>1, <1>2 DEF TypeOK, SeenRecord, NightRecord
<1>4. AdmShape' BY DEF AdmShape
<1>5. SeenRows'
  <2> SUFFICES ASSUME NEW v \in Proc, NEW q \in night'[v].todo
               PROVE  /\ night'[v].pc = "discounts" => night'[v].seen[q].disc.id > 0
                      /\ night'[v].pc = "prices" => night'[v].seen[q].price.consumer # Absent
    BY DEF SeenRows
  <2>1. CASE v # w BY <1>1, <2>1, PassedEffect DEF SeenRows
  <2>2. CASE v = w
    <3>1. q \in night[w].todo /\ q # p /\ q \in Product
      BY <1>1, <2>2, PassedEffect DEF NightRecord
    <3>2. night'[w].seen[q] = night[w].seen[q] /\ night'[w].pc = night[w].pc
      BY <1>1, <3>1, PassedEffect
    <3> QED BY <2>2, <3>1, <3>2 DEF SeenRows
  <2> QED BY <2>1, <2>2
<1> QED BY <1>3, <1>4, <1>5

LEMMA WritesEffect ==
    ASSUME clean \in [Proc -> SUBSET Product], settled \subseteq Product,
           NEW w \in Proc, NEW p \in Product, Writes(w, p)
    PROVE  /\ Passed(w, p) /\ UNCHANGED <<day, adm, edits>>
           /\ clean' \in [Proc -> SUBSET Product] /\ settled' \subseteq settled
           /\ \A v \in Proc : clean'[v] \subseteq clean[v]
           /\ IF p \in clean[w] THEN UNCHANGED <<clean, settled>> ELSE Disturb(p)
BY DEF Writes, Disturb

LEMMA FailsEffect ==
    ASSUME clean \in [Proc -> SUBSET Product], NEW w \in Proc, NEW p \in Product, Fails(w, p)
    PROVE  /\ Passed(w, p) /\ UNCHANGED <<day, price, disc, offer, adm, edits, settled>>
           /\ clean' \in [Proc -> SUBSET Product]
           /\ p \notin clean'[w] /\ \A v \in Proc : clean'[v] \subseteq clean[v]
BY DEF Fails

LEMMA ToggleType ==
    ASSUME TypeInv, NEW w \in Proc, NEW p \in night[w].todo,
           NightDiscount(w, p) \/ NightOffer(w, p)
    PROVE  TypeInv'
<1> USE DEF TypeInv
<1>0. /\ disc \in [Product -> DiscRecord] /\ offer \in [Product -> OfferRecord]
      /\ price \in [Product -> PriceRecord] /\ night \in [Proc -> NightRecord]
      /\ clean \in [Proc -> SUBSET Product] /\ settled \subseteq Product
  BY NightType
<1>1. p \in Product /\ night[w].seen[p] \in SeenRecord BY <1>0 DEF NightRecord
<1>2. CASE Fails(w, p)
  <2>1. Ids' BY <1>1, <1>2, <1>0, FailsEffect DEF Ids
  <2> QED BY <1>0, <1>1, <1>2, <2>1, FailsEffect, PassedType
<1>3. CASE NightDiscount(w, p) /\ ~Fails(w, p)
  <2> DEFINE d == night[w].seen[p].disc
  <2>1. /\ disc[p].id = d.id /\ disc' = [disc EXCEPT ![p].st = ~d.st]
        /\ Writes(w, p) /\ UNCHANGED <<price, offer>> /\ night[w].pc = "discounts"
    BY <1>3 DEF NightDiscount
  <2>2. d.st \in BOOLEAN /\ d.id > 0 BY <2>1, <1>1 DEF SeenRecord, DiscRecord, SeenRows
  <2>3. (~d.st) \in BOOLEAN BY <2>2
  <2> HIDE DEF d
  <2>4. disc' \in [Product -> DiscRecord] BY <2>1, <2>3, <1>0, <1>1 DEF DiscRecord
  <2>5. Ids' BY <2>1, <2>2, <1>0, <1>1 DEF Ids, DiscRecord
  <2> QED BY <2>1, <2>4, <2>5, <1>0, <1>1, WritesEffect, PassedType
<1>4. CASE NightOffer(w, p) /\ ~Fails(w, p)
  <2> DEFINE o == night[w].seen[p].offer
  <2>1. /\ offer' = [offer EXCEPT ![p].st = ~o.st]
        /\ Writes(w, p) /\ UNCHANGED <<price, disc>>
    BY <1>4 DEF NightOffer
  <2>2. o.st \in BOOLEAN BY <1>1 DEF SeenRecord, OfferRecord
  <2>3. (~o.st) \in BOOLEAN BY <2>2
  <2> HIDE DEF o
  <2>4. offer' \in [Product -> OfferRecord] BY <2>1, <2>3, <1>0, <1>1 DEF OfferRecord
  <2>5. Ids' BY <2>1 DEF Ids
  <2> QED BY <2>1, <2>4, <2>5, <1>0, <1>1, WritesEffect, PassedType
<1> QED BY <1>2, <1>3, <1>4

\* What the pricing of a product does.
LEMMA PriceEffect ==
    ASSUME TypeInv, NEW w \in Proc, NEW p \in night[w].todo, NightPrice(w, p)
    PROVE  /\ p \in Product /\ night[w].pc = "prices" /\ Passed(w, p)
           /\ UNCHANGED <<day, offer, adm, edits>>
           /\ price' \in [Product -> PriceRecord]
           /\ \A q \in Product : price'[q].consumer = price[q].consumer
           /\ \A q \in Product : disc'[q] = disc[q] \/ disc'[q] = NoDisc
           /\ \A q \in Product \ {p} : price'[q] = price[q] /\ disc'[q] = disc[q]
           /\ disc' \in [Product -> DiscRecord]
           /\ clean' \in [Proc -> SUBSET Product] /\ settled' \subseteq Product
           /\ \A v \in Proc : clean'[v] \subseteq clean[v]
<1> USE DEF TypeInv
<1>0. /\ disc \in [Product -> DiscRecord] /\ price \in [Product -> PriceRecord]
      /\ night \in [Proc -> NightRecord] /\ day \in Nat
      /\ clean \in [Proc -> SUBSET Product] /\ settled \subseteq Product
  BY NightType
<1>1. p \in Product /\ night[w].seen[p] \in SeenRecord /\ night[w].now \in Nat
  BY <1>0 DEF NightRecord
<1>2. night[w].pc = "prices" BY DEF NightPrice
<1> DEFINE s == night[w].seen[p]
<1> DEFINE new == PriceAt(s, night[w].now)
<1> DEFINE drop == HasDisc(s.disc) /\ Expired(s.disc.win, night[w].now)
<1>3. s.price.consumer # Absent BY <1>2 DEF SeenRows
<1>4. CASE Fails(w, p) BY <1>0, <1>1, <1>2, <1>4, FailsEffect
<1>5. CASE /\ price' = [price EXCEPT ![p].sale = IF s.price.sale # new THEN new ELSE @]
           /\ disc' = [disc EXCEPT ![p] = IF drop THEN NoDisc ELSE @]
           /\ Passed(w, p)
           /\ IF p \in clean[w]
                THEN settled' = settled \cup {p} /\ UNCHANGED clean
                ELSE IF drop \/ s.price.sale # new THEN Disturb(p)
                     ELSE UNCHANGED <<clean, settled>>
           /\ UNCHANGED <<day, offer, adm, edits>>
  <2>1. new \in Int
    <3>1. s.disc.st \in BOOLEAN /\ s.offer.st \in BOOLEAN /\ s.disc.win \in Dates /\ s.offer.win \in Dates
      BY <1>1 DEF SeenRecord, DiscRecord, OfferRecord
    <3>2. (s.disc.st /\ ~Expired(s.disc.win, night[w].now)) \in BOOLEAN
          /\ (s.offer.st /\ ~Expired(s.offer.win, night[w].now)) \in BOOLEAN
      BY Zenon
    <3> QED BY <1>1, <1>3, <3>2, PricedType DEF PriceAt
  <2> HIDE DEF new, drop, s
  <2>2. price' \in [Product -> PriceRecord] /\ \A q \in Product : price'[q].consumer = price[q].consumer
    BY <1>0, <1>1, <1>5, <2>1 DEF PriceRecord
  <2>3. disc' \in [Product -> DiscRecord] /\ \A q \in Product : disc'[q] = disc[q] \/ disc'[q] = NoDisc
    BY <1>0, <1>1, <1>5, NoRows
  <2>4. \A q \in Product \ {p} : price'[q] = price[q] /\ disc'[q] = disc[q]
    BY <1>0, <1>1, <1>5
  <2>5. clean' \in [Proc -> SUBSET Product] /\ settled' \subseteq Product
        /\ \A v \in Proc : clean'[v] \subseteq clean[v]
    BY <1>0, <1>1, <1>5 DEF Disturb
  <2> QED BY <1>1, <1>2, <1>5, <2>2, <2>3, <2>4, <2>5
<1> QED BY <1>4, <1>5 DEF NightPrice

LEMMA PriceType ==
    ASSUME TypeInv, NEW w \in Proc, NEW p \in night[w].todo, NightPrice(w, p)
    PROVE  TypeInv'
<1>1. offer' \in [Product -> OfferRecord] BY PriceEffect, NightType DEF TypeInv
<1>2. Ids' BY PriceEffect DEF TypeInv, Ids
<1> QED BY <1>1, <1>2, PriceEffect, PassedType

-----------------------------------------------------------------------------
(* Steps of admins *)

AdmRecord == [pc : {"idle", "recalc", "reprice", "insert", "offerInsert", "offerUpdate", "sell",
                    "restore", "offerDrop"},
              p : Product \cup {Absent}, row : DiscRecord \cup OfferEntry \cup {Absent},
              sale : Int]

\* Between two statements there is either nothing or a product to go on with.
Between ==
    /\ adm' \in AdmRecord
    /\ AdmShape'

LEMMA BetweenNothing == adm' = NoRequest => Between
BY DEF Between, NoRequest, Request, AdmShape, AdmRecord

LEMMA BetweenRequest ==
    ASSUME NEW pc \in {"recalc", "reprice", "insert", "offerInsert", "offerUpdate", "sell",
                       "restore", "offerDrop"},
           NEW p \in Product, NEW row \in DiscRecord \cup OfferEntry \cup {Absent},
           NEW sale \in Int, adm' = Request(pc, p, row, sale),
           pc \in {"recalc", "reprice", "insert"} => row \in DiscRecord /\ row.id > 0,
           pc \in {"offerInsert", "offerUpdate"} => row \in OfferEntry
    PROVE  Between
<1>1. adm'.pc = pc /\ adm'.p = p /\ adm'.row = row BY DEF Request
<1>2. adm' \in AdmRecord BY DEF Request, AdmRecord
<1> QED BY <1>1, <1>2 DEF Between, AdmShape

LEMMA AdminType ==
    ASSUME TypeInv, UNCHANGED <<day, night>>, edits' \in Nat,
           price' \in [Product -> PriceRecord], disc' \in [Product -> DiscRecord],
           offer' \in [Product -> OfferRecord], Between, Ids',
           UNCHANGED <<clean, settled>> \/ \E p \in Product : Disturb(p)
    PROVE  TypeInv'
<1> USE DEF TypeInv
<1>1. clean' \in [Proc -> SUBSET Product] /\ settled' \subseteq Product
  BY NightType DEF Disturb
<1>2. TypeOK'
  <2>1. day' \in Nat /\ night' \in [Proc -> NightRecord] BY NightType
  <2> QED BY <1>1, <2>1 DEF TypeOK, SeenRecord, NightRecord, Between, AdmRecord
<1>3. SeenRows' BY DEF SeenRows
<1> QED BY <1>2, <1>3 DEF Between

\* What the state gives an admin's request to go on with.
LEMMA AdminState ==
    ASSUME TypeInv
    PROVE  /\ day \in Nat /\ edits \in Nat
           /\ price \in [Product -> PriceRecord] /\ disc \in [Product -> DiscRecord]
           /\ offer \in [Product -> OfferRecord] /\ adm \in AdmRecord
           /\ adm.pc # "idle" => adm.p \in Product
           /\ adm.pc \in {"recalc", "reprice", "insert"} => adm.row \in DiscRecord /\ adm.row.id > 0
           /\ adm.pc \in {"offerInsert", "offerUpdate"} => adm.row \in OfferEntry
           /\ adm.sale \in Int
<1>1. adm \in AdmRecord BY NightType DEF TypeInv, AdmRecord
<1>2. adm.sale \in Int BY <1>1 DEF AdmRecord
<1> QED BY <1>1, <1>2, NightType DEF TypeInv, AdmShape

\* A price is written and nothing else.
LEMMA SellType ==
    ASSUME TypeInv, NEW p \in Product, NEW sale \in Int, Sells(p, sale),
           UNCHANGED <<day, disc, offer, night, edits>>, Between
    PROVE  TypeInv'
<1>1. price' \in [Product -> PriceRecord] BY AdminState DEF Sells, PriceRecord
<1>2. \E q \in Product : Disturb(q) BY DEF Sells
<1>3. Ids' BY DEF TypeInv, Ids
<1> QED BY <1>1, <1>2, <1>3, AdminState, AdminType

LEMMA CreateType ==
    ASSUME TypeInv,
           \/ \E p \in Product, st \in BOOLEAN, r \in Rate, win \in Window.edit : CreateRead(p, st, r, win)
           \/ CreateRecalc \/ CreateReprice \/ CreateInsert
    PROVE  TypeInv'
<1> USE AdminState
<1>i. Ids BY DEF TypeInv
<1>1. ASSUME NEW p \in Product, NEW st \in BOOLEAN, NEW r \in Rate, NEW win \in Window.edit,
             CreateRead(p, st, r, win)
      PROVE  TypeInv'
  <2>1. r \in Nat /\ win \in Dates BY SalePriceAssumption, DatesType
  <2>2. Discount(edits + 1, st, r, win) \in DiscRecord /\ Discount(edits + 1, st, r, win).id > 0
    BY <2>1, DiscountType
  <2>3. Between BY <1>1, <2>2, BetweenRequest DEF CreateRead
  <2>4. edits' \in Nat /\ UNCHANGED <<day, price, disc, offer, night, clean, settled>>
    BY <1>1 DEF CreateRead, Begins
  <2>5. Ids' BY <1>i, <2>4 DEF Ids
  <2> QED BY <2>3, <2>4, <2>5, AdminType
<1>2. CASE CreateRecalc
  <2> DEFINE s == Seen(price[adm.p], disc[adm.p], offer[adm.p])
  <2>1. adm.pc = "recalc" /\ adm.p \in Product /\ adm.row \in DiscRecord /\ adm.row.id > 0
    BY <1>2 DEF CreateRecalc
  <2>2. s \in SeenRecord BY <2>1 DEF Seen, SeenRecord
  <2>3. ASSUME s.price.consumer # Absent PROVE PriceById(s) \in Int
    <3>1. s.disc.st \in BOOLEAN /\ s.offer.st \in BOOLEAN
      BY <2>2 DEF SeenRecord, DiscRecord, OfferRecord
    <3> HIDE DEF s
    <3> QED BY <2>2, <2>3, <3>1, PricedType DEF PriceById
  <2>4. adm' = IF s.price.consumer = Absent THEN NoRequest
               ELSE Request("reprice", adm.p, adm.row, PriceById(s))
    BY <1>2 DEF CreateRecalc
  <2> HIDE DEF s
  <2>5. Between BY <2>1, <2>3, <2>4, BetweenNothing, BetweenRequest
  <2>6. UNCHANGED <<day, price, disc, offer, night, edits, clean, settled>>
    BY <1>2 DEF CreateRecalc
  <2>7. Ids' BY <1>i, <2>6 DEF Ids
  <2> QED BY <2>5, <2>6, <2>7, AdminType
<1>3. CASE CreateReprice
  <2>1. adm.pc = "reprice" /\ adm.p \in Product /\ adm.row \in DiscRecord /\ adm.row.id > 0
    BY <1>3 DEF CreateReprice
  <2>2. Between BY <1>3, <2>1, BetweenRequest DEF CreateReprice
  <2> QED BY <1>3, <2>1, <2>2, SellType DEF CreateReprice
<1>4. CASE CreateInsert
  <2>1. adm.p \in Product /\ adm.row \in DiscRecord /\ adm.row.id > 0
    BY <1>4 DEF CreateInsert
  <2>2. disc' = disc \/ disc' = [disc EXCEPT ![adm.p] = adm.row]
    BY <1>4 DEF CreateInsert
  <2>3. disc' \in [Product -> DiscRecord] /\ Ids' BY <1>i, <2>1, <2>2 DEF Ids
  <2>4. UNCHANGED <<day, price, offer, night, edits>> /\ Between
    BY <1>4, BetweenNothing DEF CreateInsert
  <2>5. UNCHANGED <<clean, settled>> \/ \E p \in Product : Disturb(p)
    BY <1>4, <2>1 DEF CreateInsert
  <2> QED BY <2>3, <2>4, <2>5, AdminType
<1> QED BY <1>1, <1>2, <1>3, <1>4

LEMMA DiscountEditType ==
    ASSUME TypeInv, NEW p \in Product,
           \/ \E st \in BOOLEAN \cup {Absent}, r \in Rate \cup {Absent}, win \in Window.edit \cup {Absent} :
                 UpdateDiscount(p, st, r, win)
           \/ RemoveDiscount(p)
    PROVE  TypeInv'
<1> USE AdminState
<1>i. Ids BY DEF TypeInv
<1>1. ASSUME NEW st \in BOOLEAN \cup {Absent}, NEW r \in Rate \cup {Absent},
             NEW win \in Window.edit \cup {Absent}, UpdateDiscount(p, st, r, win)
      PROVE  TypeInv'
  <2> DEFINE new == Discount(disc[p].id, Given(st, disc[p].st), Given(r, disc[p].rate), Given(win, disc[p].win))
  <2>1. disc[p].id \in Nat /\ disc[p].st \in BOOLEAN /\ disc[p].rate \in Nat /\ disc[p].win \in Dates
    BY DEF DiscRecord
  <2>2. Given(st, disc[p].st) \in BOOLEAN BY <2>1, Zenon DEF Given
  <2>3. Given(r, disc[p].rate) \in Nat BY <2>1, SalePriceAssumption DEF Given
  <2>4. Given(win, disc[p].win) \in Dates BY <2>1, DatesType DEF Given
  <2>5. new \in DiscRecord /\ new.id = disc[p].id BY <2>1, <2>2, <2>3, <2>4, DiscountType
  <2>6. disc' = [disc EXCEPT ![p] = new] /\ HasDisc(disc[p]) BY <1>1 DEF UpdateDiscount
  <2> HIDE DEF new
  <2>7. disc' \in [Product -> DiscRecord] /\ Ids' BY <1>i, <2>5, <2>6 DEF Ids, HasDisc
  <2>8. UNCHANGED <<day, price, offer, night, adm>> /\ edits' \in Nat /\ Disturb(p)
    BY <1>1 DEF UpdateDiscount, Begins
  <2>9. Between BY <2>8 DEF Between, TypeInv, AdmShape
  <2> QED BY <2>7, <2>8, <2>9, AdminType
<1>2. CASE RemoveDiscount(p)
  <2>1. disc' = [disc EXCEPT ![p] = NoDisc] BY <1>2 DEF RemoveDiscount
  <2>2. disc' \in [Product -> DiscRecord] /\ Ids' BY <1>i, <2>1, NoRows DEF Ids
  <2>3. UNCHANGED <<day, price, offer, night, adm>> /\ edits' \in Nat /\ Disturb(p)
    BY <1>2 DEF RemoveDiscount, Begins
  <2>4. Between BY <2>3 DEF Between, TypeInv, AdmShape
  <2> QED BY <2>2, <2>3, <2>4, AdminType
<1> QED BY <1>1, <1>2

LEMMA ProductEditType ==
    ASSUME TypeInv, NEW p \in Product, NEW pr \in Pricing.edit \cup {Absent},
           NEW r \in Rate \cup {0, Absent}, NEW win \in Window.edit, UpdateProduct(p, pr, r, win)
    PROVE  TypeInv'
<1> USE AdminState
<1>i. Ids BY DEF TypeInv
<1> DEFINE new == IF r = Absent THEN disc[p]
                  ELSE IF r = 0 THEN NoDisc
                  ELSE Discount(IF HasDisc(disc[p]) THEN disc[p].id ELSE edits + 1,
                                Started(win, day), r, win)
<1>1. new \in DiscRecord /\ (new = NoDisc \/ new.id > 0)
  <2>1. CASE r = Absent BY <1>i, <2>1 DEF Ids
  <2>2. CASE r = 0 BY <2>2, NoRows, SalePriceAssumption
  <2>3. CASE r # Absent /\ r # 0
    <3> DEFINE id == IF HasDisc(disc[p]) THEN disc[p].id ELSE edits + 1
    <3>1. id \in Nat /\ id > 0 BY <1>i DEF Ids, HasDisc, DiscRecord
    <3>2. r \in Nat /\ win \in Dates BY <2>3, SalePriceAssumption, DatesType
    <3>3. Started(win, day) \in BOOLEAN BY <3>2, Booleans
    <3> HIDE DEF id
    <3>4. Discount(id, Started(win, day), r, win) \in DiscRecord
          /\ Discount(id, Started(win, day), r, win).id = id
      BY <3>1, <3>2, <3>3, DiscountType
    <3>5. new = Discount(id, Started(win, day), r, win) BY <2>3 DEF id
    <3> QED BY <3>1, <3>4, <3>5
  <2> QED BY <2>1, <2>2, <2>3
<1>2. disc' = [disc EXCEPT ![p] = new] BY DEF UpdateProduct
<1> HIDE DEF new
<1>3. disc' \in [Product -> DiscRecord] /\ Ids' BY <1>i, <1>1, <1>2 DEF Ids
<1>4. Given(pr, price[p]) \in PriceRecord BY EntryTypes DEF Given
<1>5. price' \in [Product -> PriceRecord] BY <1>4 DEF UpdateProduct
<1>6. UNCHANGED <<day, offer, night, adm>> /\ edits' \in Nat /\ Disturb(p)
  BY DEF UpdateProduct, Begins
<1>7. Between BY <1>6 DEF Between, TypeInv, AdmShape
<1> QED BY <1>3, <1>5, <1>6, <1>7, AdminType

LEMMA RestoredType ==
    ASSUME TypeInv, NEW p \in Product
    PROVE  offer[p].deal \in Deals /\ \A deal \in Deals : Restored(deal, p) \in Int
<1>1. offer[p] \in OfferRecord /\ price[p] \in PriceRecord BY AdminState
<1>2. offer[p].deal \in Deals /\ price[p].sale \in Int
  BY <1>1 DEF OfferRecord, PriceRecord, Deals
<1> QED BY <1>2, DealTypes DEF Restored

LEMMA OfferStartType ==
    ASSUME TypeInv, NEW p \in Product,
           OfferDelete(p) \/ \E deal \in Deal.edit, win \in Window.edit : OfferRead(p, deal, win)
    PROVE  TypeInv'
<1> USE AdminState
<1>1. Between
  <2>1. ASSUME NEW deal \in Deal.edit, NEW win \in Window.edit, OfferRead(p, deal, win) PROVE Between
    <3> DEFINE st == ShouldBeActive(win, day)
    <3> DEFINE now == Merged(deal, offer[p].deal)
    <3> DEFINE row == Offer(edits + 1, st, deal, win)
    <3> DEFINE back == Restored(now, p)
    <3> DEFINE sale == IF st /\ deal.special # Absent THEN deal.special ELSE Whole(now)
    <3>1. deal \in GivenDeals /\ win \in Dates /\ edits + 1 \in Nat BY EntryTypes, DatesType
    <3>2. st \in BOOLEAN BY <3>1, Booleans
    <3>3. now \in Deals BY <3>1, RestoredType, DealTypes
    <3>4. row \in OfferEntry BY <3>1, <3>2, OfferType
    <3>5. back \in Int BY <3>3, RestoredType
    <3>6. sale \in Int
      <4>1. Whole(now) \in Int BY <3>3, DealTypes
      <4>2. deal.special \in Int \cup {Absent} BY <3>1 DEF GivenDeals
      <4> HIDE DEF now, st
      <4> QED BY <4>1, <4>2
    <3>7. adm' = IF Expired(win, day) THEN Request("restore", p, Absent, back)
                 ELSE IF HasOffer(offer[p]) THEN Request("offerUpdate", p, row, sale)
                 ELSE Request("offerInsert", p, row, 0)
      BY <2>1 DEF OfferRead
    <3> HIDE DEF back, sale, row
    <3>8. CASE Expired(win, day) BY <3>5, <3>7, <3>8, BetweenRequest
    <3>9. CASE ~Expired(win, day) /\ HasOffer(offer[p])
      BY <3>4, <3>6, <3>7, <3>9, BetweenRequest
    <3>10. CASE ~Expired(win, day) /\ ~HasOffer(offer[p]) BY <3>4, <3>7, <3>10, BetweenRequest
    <3> QED BY <3>8, <3>9, <3>10
  <2>2. CASE OfferDelete(p)
    <3> DEFINE sale == Restored(offer[p].deal, p)
    <3>1. sale \in Int BY RestoredType
    <3>2. adm' = Request("restore", p, Absent, sale) BY <2>2 DEF OfferDelete
    <3> HIDE DEF sale
    <3> QED BY <3>1, <3>2, BetweenRequest
  <2> QED BY <2>1, <2>2
<1>2. UNCHANGED <<day, price, disc, offer, night, clean, settled>> /\ edits' \in Nat
  BY DEF OfferDelete, OfferRead, Begins
<1>3. Ids' BY <1>2 DEF TypeInv, Ids
<1> QED BY <1>1, <1>2, <1>3, AdminType

LEMMA OfferGoesOnType ==
    ASSUME TypeInv, OfferInsert \/ OfferUpdate \/ OfferSell \/ OfferRestore \/ OfferDrop \/ AdminFails
    PROVE  TypeInv'
<1> USE AdminState
<1>i. Ids BY DEF TypeInv
<1>1. CASE OfferInsert
  <2>1. adm.p \in Product /\ adm.row \in OfferEntry BY <1>1 DEF OfferInsert
  <2>2. /\ adm.row.deal \in GivenDeals /\ adm.row.id \in Nat /\ adm.row.st \in BOOLEAN
        /\ adm.row.win \in Dates
    BY <2>1 DEF OfferEntry, GivenDeals
  <2> DEFINE new == [adm.row EXCEPT !.deal = Merged(adm.row.deal, NoDeal)]
  <2>3. new \in OfferRecord
    <3>1. Merged(adm.row.deal, NoDeal) \in Deals BY <2>2, DealTypes
    <3> QED BY <2>1, <2>2, <3>1 DEF OfferRecord, OfferEntry, Deals
  <2>4. \/ adm' = NoRequest
        \/ /\ adm.row.deal.special # Absent
           /\ adm' = Request("sell", adm.p, Absent, adm.row.deal.special)
    BY <1>1 DEF OfferInsert
  <2>5. Between
    <3>1. adm.row.deal.special \in Int \cup {Absent} BY <2>2 DEF GivenDeals
    <3> QED BY <2>1, <2>4, <3>1, BetweenNothing, BetweenRequest
  <2>6. offer' = offer \/ offer' = [offer EXCEPT ![adm.p] = new] BY <1>1 DEF OfferInsert
  <2> HIDE DEF new
  <2>7. offer' \in [Product -> OfferRecord] BY <2>1, <2>3, <2>6
  <2>8. UNCHANGED <<day, price, disc, night, edits>> BY <1>1 DEF OfferInsert
  <2>9. UNCHANGED <<clean, settled>> \/ \E p \in Product : Disturb(p)
    BY <1>1, <2>1 DEF OfferInsert
  <2>10. Ids' BY <1>i, <2>8 DEF Ids
  <2> QED BY <2>5, <2>7, <2>8, <2>9, <2>10, AdminType
<1>2. CASE OfferUpdate
  <2> DEFINE new == Offer(offer[adm.p].id, adm.row.st, Merged(adm.row.deal, offer[adm.p].deal),
                          adm.row.win)
  <2>1. adm.p \in Product /\ adm.row \in OfferEntry BY <1>2 DEF OfferUpdate
  <2>3. new \in OfferRecord
    <3>1. /\ adm.row.st \in BOOLEAN /\ adm.row.deal \in GivenDeals /\ adm.row.win \in Dates
      BY <2>1 DEF OfferEntry, GivenDeals
    <3>2. offer[adm.p] \in OfferRecord BY <2>1
    <3>3. offer[adm.p].id \in Nat /\ offer[adm.p].deal \in Deals BY <3>2 DEF OfferRecord, Deals
    <3>4. Merged(adm.row.deal, offer[adm.p].deal) \in Deals BY <3>1, <3>3, DealTypes
    <3> QED BY <3>1, <3>3, <3>4, OfferType
  <2>4. \/ adm' = NoRequest /\ UNCHANGED <<offer, clean, settled>>
        \/ /\ offer' = [offer EXCEPT ![adm.p] = new]
           /\ adm' = Request("sell", adm.p, Absent, adm.sale)
           /\ Disturb(adm.p)
    BY <1>2 DEF OfferUpdate
  <2>5. UNCHANGED <<day, price, disc, night, edits>> BY <1>2 DEF OfferUpdate
  <2> HIDE DEF new
  <2>6. Between BY <2>1, <2>4, BetweenNothing, BetweenRequest
  <2>7. offer' \in [Product -> OfferRecord] BY <2>3, <2>4
  <2>8. UNCHANGED <<clean, settled>> \/ \E p \in Product : Disturb(p) BY <2>1, <2>4
  <2>9. Ids' BY <1>i, <2>5 DEF Ids
  <2> QED BY <2>5, <2>6, <2>7, <2>8, <2>9, AdminType
<1>3. CASE OfferSell
  <2>1. adm.p \in Product /\ Between BY <1>3, BetweenNothing DEF OfferSell
  <2> QED BY <1>3, <2>1, SellType DEF OfferSell
<1>4. CASE OfferRestore
  <2>1. adm.p \in Product BY <1>4 DEF OfferRestore
  <2>2. Between
    <3>1. adm' = Request("offerDrop", adm.p, Absent, 0) BY <1>4 DEF OfferRestore
    <3>2. adm'.pc = "offerDrop" /\ adm'.p = adm.p /\ adm'.row = Absent /\ adm'.sale = 0
      BY <3>1 DEF Request
    <3>3. adm' \in [pc : {"offerDrop"}, p : {adm.p}, row : {Absent}, sale : {0}]
      BY <3>1 DEF Request
    <3> QED BY <2>1, <3>2, <3>3 DEF Between, AdmShape, AdmRecord
  <2> QED BY <1>4, <2>1, <2>2, SellType DEF OfferRestore
<1>5. CASE OfferDrop
  <2>1. adm.p \in Product /\ Between BY <1>5, BetweenNothing DEF OfferDrop
  <2>2. UNCHANGED <<day, price, disc, night, edits>> /\ Disturb(adm.p)
        /\ offer' = [offer EXCEPT ![adm.p] = NoOffer]
    BY <1>5 DEF OfferDrop
  <2>3. offer' \in [Product -> OfferRecord] BY <2>2, NoRows
  <2>4. Ids' BY <1>i, <2>2 DEF Ids
  <2> QED BY <2>1, <2>2, <2>3, <2>4, AdminType
<1>6. CASE AdminFails
  <2>1. UNCHANGED <<day, price, disc, offer, night, edits, clean, settled>> /\ Between
    BY <1>6, BetweenNothing DEF AdminFails
  <2>2. Ids' BY <1>i, <2>1 DEF Ids
  <2> QED BY <2>1, <2>2, AdminType
<1> QED BY <1>1, <1>2, <1>3, <1>4, <1>5, <1>6

-----------------------------------------------------------------------------
(* All steps *)

LEMMA TypeNext == TypeInv /\ [Next]_vars => TypeInv'
<1> SUFFICES ASSUME TypeInv, [Next]_vars PROVE TypeInv' OBVIOUS
<1>1. CASE Tick
  <2>1. /\ day' \in Nat /\ clean' \in [Proc -> SUBSET Product] /\ settled' \subseteq Product
        /\ UNCHANGED <<price, disc, offer, night, adm, edits>>
    BY <1>1, NightType DEF Tick, TypeInv
  <2>2. TypeOK' BY <2>1 DEF TypeInv, TypeOK
  <2> QED BY <2>1, <2>2 DEF TypeInv, AdmShape, Ids, SeenRows
<1>2. CASE UNCHANGED vars
  BY <1>2 DEF vars, TypeInv, TypeOK, AdmShape, Ids, SeenRows
<1>3. ASSUME NEW w \in Proc, NightStep(w) PROVE TypeInv'
  <2>1. CASE NightBegin(w) \/ NightOffers(w) \/ NightPrices(w) BY <2>1, NightReads
  <2>2. CASE NightEnd(w) \/ NightFails(w) \/ Crash(w) BY <2>2, NightEnds
  <2>3. ASSUME NEW p \in Product, NightDiscount(w, p) \/ NightOffer(w, p) PROVE TypeInv'
    <3>1. p \in night[w].todo BY <2>3 DEF NightDiscount, NightOffer
    <3> QED BY <2>3, <3>1, ToggleType
  <2>4. ASSUME NEW p \in Product, NightPrice(w, p) PROVE TypeInv'
    <3>1. p \in night[w].todo BY <2>4 DEF NightPrice
    <3> QED BY <2>4, <3>1, PriceType
  <2> QED BY <1>3, <2>1, <2>2, <2>3, <2>4 DEF NightStep
<1>4. ASSUME NEW p \in Product, EditDiscount(p) PROVE TypeInv'
  <2>1. CASE \E st \in BOOLEAN, r \in Rate, win \in Window.edit : CreateRead(p, st, r, win)
    BY <2>1, CreateType
  <2> QED BY <1>4, <2>1, DiscountEditType DEF EditDiscount
<1>5. ASSUME NEW p \in Product, EditProduct(p) PROVE TypeInv'
  BY <1>5, ProductEditType, OfferStartType DEF EditProduct
<1>6. CASE AdminGoesOn
  BY <1>6, CreateType, OfferGoesOnType DEF AdminGoesOn
<1> QED BY <1>1, <1>2, <1>3, <1>4, <1>5, <1>6 DEF Next

\* The state keeps its shape: sale prices are integers, every row is whole.
THEOREM TypeCorrect == Spec => []TypeOK
<1>1. TypeInv => TypeOK BY DEF TypeInv
<1> QED BY <1>1, TypeInit, TypeNext, PTL DEF Spec

-----------------------------------------------------------------------------
(* How far a run has come with a product nobody disturbed *)

Right(row, now) == row.st = ShouldBeActive(row.win, now)

Due(pr, d, o, now) ==
    Priced(Seen(pr, d, o), ShouldBeActive(d.win, now), ShouldBeActive(o.win, now))

\* A run at pc has (open = FALSE) or has not (open = TRUE) passed a product it
\* saw as s, which now has the prices pr, the discount d and the offer o.
Pass(pc, open, s, now, pr, d, o, done) ==
    /\ pc = "discounts" /\ open =>
          \/ d = NoDisc
          \/ /\ d.id = s.disc.id /\ d.win = s.disc.win /\ d.rate = s.disc.rate
             /\ ~Right(s.disc, now)
    /\ pc = "discounts" /\ ~open => Right(d, now)
    /\ pc \in {"offers", "prices"} => Right(d, now)
    /\ pc = "offers" /\ open =>
          /\ o.id = s.offer.id /\ o.win = s.offer.win /\ o.deal = s.offer.deal
          /\ ~Right(s.offer, now)
    /\ pc = "offers" /\ ~open => Right(o, now)
    /\ pc = "prices" => Right(o, now)
    /\ pc = "prices" /\ open =>
          /\ s.price.consumer = pr.consumer /\ s.offer = o
          /\ d = s.disc \/ (d = NoDisc /\ Expired(s.disc.win, now))
          /\ pr.sale = s.price.sale \/ (pr.consumer # Absent => pr.sale = Due(pr, d, o, now))
    /\ pc = "prices" /\ ~open /\ Promoted(Seen(pr, d, o)) => done

\* The price and the rows are what the dates make them.
Ready(pr, d, o, now) ==
    /\ pr.sale = Due(pr, d, o, now)
    /\ Right(d, now) /\ Right(o, now)
    /\ ~Expired(d.win, now)

InStep(w, p) ==
    night[w].pc # "idle" =>
        /\ night[w].now = day
        /\ Pass(night[w].pc, p \in night[w].todo, night[w].seen[p], day,
                price[p], disc[p], offer[p], p \in settled)

SettledInv ==
    /\ TypeInv
    /\ \A p \in settled : Ready(price[p], disc[p], offer[p], day)
    /\ \A w \in Proc : \A p \in clean[w] : InStep(w, p)

\* A discount set right keeps its place.
LEMMA PassDiscount ==
    ASSUME NEW pc, NEW open, NEW s \in SeenRecord, NEW now \in Nat, NEW pr \in PriceRecord,
           NEW d \in DiscRecord, NEW o \in OfferRecord, NEW done,
           Pass(pc, open, s, now, pr, d, o, done),
           NEW e \in DiscRecord, e = [d EXCEPT !.st = ShouldBeActive(d.win, now)]
    PROVE  Pass(pc, open, s, now, pr, e, o, done)
<1>1. ShouldBeActive(d.win, now) \in BOOLEAN BY Booleans DEF DiscRecord
<1>2. /\ e.id = d.id /\ e.win = d.win /\ e.rate = d.rate
      /\ e.st = ShouldBeActive(d.win, now)
  BY <1>1 DEF DiscRecord
<1>3. Right(e, now) BY <1>2 DEF Right
<1>4. CASE Right(d, now)
  <2>1. e = d BY <1>4 DEF Right, DiscRecord
  <2> QED BY <2>1
<1>5. CASE ~Right(d, now)
  <2>1. d # NoDisc BY <1>5, NothingDue DEF Right
  <2> QED BY <1>2, <1>3, <1>5, <2>1 DEF Pass
<1> QED BY <1>4, <1>5

LEMMA PassOffer ==
    ASSUME NEW pc, NEW open, NEW s \in SeenRecord, NEW now \in Nat, NEW pr \in PriceRecord,
           NEW d \in DiscRecord, NEW o \in OfferRecord, NEW done,
           Pass(pc, open, s, now, pr, d, o, done),
           NEW e \in OfferRecord, e = [o EXCEPT !.st = ShouldBeActive(o.win, now)]
    PROVE  Pass(pc, open, s, now, pr, d, e, done)
<1>1. ShouldBeActive(o.win, now) \in BOOLEAN BY Booleans DEF OfferRecord
<1>2. /\ e.id = o.id /\ e.win = o.win /\ e.deal = o.deal
      /\ e.st = ShouldBeActive(o.win, now)
  BY <1>1 DEF OfferRecord
<1>3. Right(e, now) BY <1>2 DEF Right
<1>4. CASE Right(o, now)
  <2>1. e = o BY <1>4 DEF Right, OfferRecord
  <2> QED BY <2>1
<1>5. CASE ~Right(o, now)
  <2> QED BY <1>2, <1>3, <1>5 DEF Pass
<1> QED BY <1>4, <1>5

\* The price due does not depend on the sale price, nor on a discount past its end.
LEMMA DueKept ==
    ASSUME NEW now \in Nat, NEW pr \in PriceRecord, NEW d \in DiscRecord, NEW o \in OfferRecord,
           NEW ps \in PriceRecord, ps.consumer = pr.consumer,
           NEW e \in DiscRecord, e = d \/ (Expired(d.win, now) /\ e = NoDisc)
    PROVE  Due(ps, e, o, now) = Due(pr, d, o, now)
<1>1. CASE e = d BY <1>1 DEF Due, Priced, Seen
<1>2. CASE Expired(d.win, now) /\ e = NoDisc
  <2>1. d.win \in Dates BY DEF DiscRecord
  <2>2. ~ShouldBeActive(d.win, now) BY <1>2, <2>1 DEF Expired, ShouldBeActive, Dates
  <2>3. ~ShouldBeActive(e.win, now) BY <1>2, NothingDue
  <2> QED BY <2>2, <2>3 DEF Due, Priced, Seen
<1> QED BY <1>1, <1>2

\* A product that got its price, and lost its discount if it had run out.
LEMMA PassPrice ==
    ASSUME NEW pc, NEW open, NEW s \in SeenRecord, NEW now \in Nat, NEW pr \in PriceRecord,
           NEW d \in DiscRecord, NEW o \in OfferRecord, NEW done,
           Pass(pc, open, s, now, pr, d, o, done),
           NEW ps \in PriceRecord, ps.consumer = pr.consumer, ps.sale = Due(pr, d, o, now),
           NEW e \in DiscRecord, e = d \/ (Expired(d.win, now) /\ e = NoDisc)
    PROVE  Pass(pc, open, s, now, ps, e, o, TRUE)
<1>1. ps.sale = Due(ps, e, o, now) BY DueKept
<1>2. CASE e = d BY <1>1, <1>2 DEF Pass
<1>3. CASE Expired(d.win, now) /\ e = NoDisc
  <2>1. Right(e, now) BY <1>3, NothingDue DEF Right
  <2> QED BY <1>1, <1>3, <2>1 DEF Pass
<1> QED BY <1>2, <1>3

\* What the run works out is due.
LEMMA PriceDue ==
    ASSUME NEW s \in SeenRecord, NEW now \in Nat, NEW pr \in PriceRecord,
           NEW d \in DiscRecord, NEW o \in OfferRecord, NEW done,
           Pass("prices", TRUE, s, now, pr, d, o, done)
    PROVE  PriceAt(s, now) = Due(pr, d, o, now)
<1>1. /\ s.price.consumer = pr.consumer /\ s.offer = o
      /\ d = s.disc \/ (d = NoDisc /\ Expired(s.disc.win, now))
      /\ Right(d, now) /\ Right(o, now)
  BY DEF Pass
<1>2. s.disc.win \in Dates /\ o.win \in Dates /\ d.win \in Dates
  BY DEF SeenRecord, DiscRecord, OfferRecord
<1>3. \A win \in Dates : ShouldBeActive(win, now) => ~Expired(win, now)
  BY DEF ShouldBeActive, Expired, Dates
<1>4. (s.offer.st /\ ~Expired(s.offer.win, now)) <=> ShouldBeActive(o.win, now)
  BY <1>1, <1>2, <1>3 DEF Right
<1>5. CASE d = s.disc
  <2>1. (s.disc.st /\ ~Expired(s.disc.win, now)) <=> ShouldBeActive(d.win, now)
    BY <1>1, <1>2, <1>3, <1>5 DEF Right
  <2> QED BY <1>1, <1>4, <1>5, <2>1 DEF PriceAt, Due, Priced, Seen
<1>6. CASE d = NoDisc /\ Expired(s.disc.win, now)
  <2>1. ~ShouldBeActive(d.win, now) BY <1>6, NothingDue
  <2> QED BY <1>1, <1>4, <1>6, <2>1 DEF PriceAt, Due, Priced, Seen
<1> QED BY <1>1, <1>5, <1>6

-----------------------------------------------------------------------------
(* Steps keep the place of products they do not touch *)

LEMMA NightFacts ==
    ASSUME TypeInv, NEW w \in Proc, NEW p \in Product
    PROVE  /\ night[w] \in NightRecord /\ night[w].seen[p] \in SeenRecord
           /\ price[p] \in PriceRecord /\ disc[p] \in DiscRecord /\ offer[p] \in OfferRecord
           /\ clean[w] \subseteq Product /\ settled \subseteq Product /\ day \in Nat
<1>1. night[w] \in NightRecord BY NightType DEF TypeInv
<1>2. night[w].seen[p] \in SeenRecord BY <1>1 DEF NightRecord
<1> QED BY <1>1, <1>2, NightType DEF TypeInv

\* Run w stays where it is with p.
Stays(w, p) ==
    /\ night'[w].pc = night[w].pc /\ night'[w].now = night[w].now
    /\ night'[w].seen[p] = night[w].seen[p]
    /\ p \in night'[w].todo <=> p \in night[w].todo

Untouched(p) ==
    /\ price'[p] = price[p] /\ disc'[p] = disc[p] /\ offer'[p] = offer[p]
    /\ p \in settled => p \in settled'

LEMMA StepKept ==
    ASSUME NEW w \in Proc, NEW p \in Product, InStep(w, p), day' = day, Stays(w, p), Untouched(p)
    PROVE  InStep(w, p)'
<1>1. CASE night[w].pc = "idle" BY <1>1 DEF InStep, Stays
<1>2. CASE night[w].pc # "idle"
  <2>1. night[w].now = day
        /\ Pass(night[w].pc, p \in night[w].todo, night[w].seen[p], day,
                price[p], disc[p], offer[p], p \in settled)
    BY <1>2 DEF InStep
  <2>2. Pass(night'[w].pc, p \in night'[w].todo, night'[w].seen[p], day',
             price'[p], disc'[p], offer'[p], p \in settled')
    BY <2>1 DEF Pass, Stays, Untouched
  <2> QED BY <2>1, <2>2 DEF InStep, Stays
<1> QED BY <1>1, <1>2

LEMMA ReadyKept ==
    ASSUME NEW p, Ready(price[p], disc[p], offer[p], day), day' = day,
           price'[p] = price[p], disc'[p] = disc[p], offer'[p] = offer[p]
    PROVE  Ready(price[p], disc[p], offer[p], day)'
OBVIOUS

\* A step that changes one product, whose history it ends.
LEMMA DisturbKeeps ==
    ASSUME SettledInv, TypeInv', day' = day, NEW p \in Product, Disturb(p),
           \A w \in Proc : \A q \in Product \ {p} : Stays(w, q),
           \A q \in Product \ {p} :
               price'[q] = price[q] /\ disc'[q] = disc[q] /\ offer'[q] = offer[q]
    PROVE  SettledInv'
<1>1. settled \subseteq Product /\ \A w \in Proc : clean[w] \subseteq Product
  BY NightType DEF SettledInv, TypeInv
<1>2. ASSUME NEW q \in settled' PROVE Ready(price[q], disc[q], offer[q], day)'
  <2>1. q \in settled /\ q \in Product \ {p} BY <1>1, <1>2 DEF Disturb
  <2> QED BY <2>1, ReadyKept DEF SettledInv
<1>3. ASSUME NEW w \in Proc, NEW q \in clean'[w] PROVE InStep(w, q)'
  <2>1. q \in clean[w] /\ q \in Product \ {p} BY <1>1, <1>3 DEF Disturb
  <2>2. Untouched(q) BY <2>1 DEF Untouched, Disturb
  <2> QED BY <2>1, <2>2, StepKept DEF SettledInv
<1> QED BY <1>2, <1>3 DEF SettledInv

\* A step that changes no price and no row, and after which nobody is clean who
\* was not and whose run does not stay.
LEMMA QuietKeeps ==
    ASSUME SettledInv, TypeInv', UNCHANGED <<day, price, disc, offer, settled>>,
           \A w \in Proc : \A p \in clean'[w] : InStep(w, p)' \/ (p \in clean[w] /\ Stays(w, p))
    PROVE  SettledInv'
<1>1. ASSUME NEW p \in settled' PROVE Ready(price[p], disc[p], offer[p], day)'
  BY <1>1, ReadyKept DEF SettledInv
<1>2. ASSUME NEW w \in Proc, NEW p \in clean'[w] PROVE InStep(w, p)'
  <2>1. CASE p \in clean[w] /\ Stays(w, p)
    <3>1. p \in Product BY <2>1, NightType DEF SettledInv, TypeInv
    <3> QED BY <2>1, <3>1, StepKept DEF SettledInv, Untouched
  <2> QED BY <1>2, <2>1
<1> QED BY <1>1, <1>2 DEF SettledInv

LEMMA RunsStay ==
    ASSUME night' = night, NEW w \in Proc, NEW p
    PROVE  Stays(w, p)
BY DEF Stays

-----------------------------------------------------------------------------
(* Admins and the days *)

LEMMA TickKeeps == SettledInv /\ TypeInv' /\ Tick => SettledInv'
<1> SUFFICES ASSUME SettledInv, TypeInv', Tick PROVE SettledInv' OBVIOUS
<1>1. settled' = {} /\ \A w \in Proc : clean'[w] = {} BY DEF Tick
<1> QED BY <1>1 DEF SettledInv

\* What an admin's step changes: nothing, or one product.
LEMMA AdminEffect ==
    ASSUME TypeInv, (\E p \in Product : EditDiscount(p) \/ EditProduct(p)) \/ AdminGoesOn
    PROVE  /\ UNCHANGED <<day, night>>
           /\ \/ UNCHANGED <<price, disc, offer, clean, settled>>
              \/ \E p \in Product :
                    /\ Disturb(p)
                    /\ \A q \in Product \ {p} :
                          price'[q] = price[q] /\ disc'[q] = disc[q] /\ offer'[q] = offer[q]
<1> DEFINE Quiet == UNCHANGED <<price, disc, offer, clean, settled>>
<1> DEFINE One(p) ==
        /\ Disturb(p)
        /\ \A q \in Product \ {p} :
              price'[q] = price[q] /\ disc'[q] = disc[q] /\ offer'[q] = offer[q]
<1>0. /\ price \in [Product -> PriceRecord] /\ disc \in [Product -> DiscRecord]
      /\ offer \in [Product -> OfferRecord]
  BY NightType DEF TypeInv
<1>p. adm.pc # "idle" => adm.p \in Product BY DEF TypeInv, AdmShape
<1>1. ASSUME NEW p \in Product, EditDiscount(p)
      PROVE  UNCHANGED <<day, night>> /\ (Quiet \/ One(p))
  <2>1. CASE \E st \in BOOLEAN, r \in Rate, win \in Window.edit : CreateRead(p, st, r, win)
    BY <2>1 DEF CreateRead
  <2>2. CASE RemoveDiscount(p) BY <2>2, <1>0 DEF RemoveDiscount
  <2>3. CASE \E st \in BOOLEAN \cup {Absent}, r \in Rate \cup {Absent}, win \in Window.edit \cup {Absent} :
                UpdateDiscount(p, st, r, win)
    BY <2>3, <1>0 DEF UpdateDiscount
  <2> QED BY <1>1, <2>1, <2>2, <2>3 DEF EditDiscount
<1>2. ASSUME NEW p \in Product, EditProduct(p)
      PROVE  UNCHANGED <<day, night>> /\ (Quiet \/ One(p))
  <2>1. CASE \E pr \in Pricing.edit \cup {Absent}, r \in Rate \cup {0, Absent}, win \in Window.edit :
                UpdateProduct(p, pr, r, win)
    BY <2>1, <1>0 DEF UpdateProduct
  <2>2. CASE \E deal \in Deal.edit, win \in Window.edit : OfferRead(p, deal, win)
    BY <2>2 DEF OfferRead
  <2>3. CASE OfferDelete(p) BY <2>3 DEF OfferDelete
  <2> QED BY <1>2, <2>1, <2>2, <2>3 DEF EditProduct
<1>3. CASE AdminGoesOn
  <2>1. CASE CreateRecalc \/ AdminFails BY <2>1 DEF CreateRecalc, AdminFails
  <2>2. CASE CreateReprice \/ OfferSell \/ OfferRestore
    <3>1. adm.p \in Product /\ Sells(adm.p, adm.sale) /\ UNCHANGED <<day, disc, offer, night>>
      BY <2>2, <1>p DEF CreateReprice, OfferSell, OfferRestore
    <3> QED BY <3>1, <1>0 DEF Sells
  <2>3. CASE CreateInsert
    <3>1. adm.p \in Product BY <2>3, <1>p DEF CreateInsert
    <3> QED BY <2>3, <3>1, <1>0 DEF CreateInsert
  <2>4. CASE OfferInsert
    <3>1. adm.p \in Product BY <2>4, <1>p DEF OfferInsert
    <3> QED BY <2>4, <3>1, <1>0 DEF OfferInsert
  <2>5. CASE OfferUpdate
    <3>1. adm.p \in Product BY <2>5, <1>p DEF OfferUpdate
    <3> QED BY <2>5, <3>1, <1>0 DEF OfferUpdate
  <2>6. CASE OfferDrop
    <3>1. adm.p \in Product BY <2>6, <1>p DEF OfferDrop
    <3> QED BY <2>6, <3>1, <1>0 DEF OfferDrop
  <2> QED BY <1>3, <2>1, <2>2, <2>3, <2>4, <2>5, <2>6 DEF AdminGoesOn
<1> QED BY <1>1, <1>2, <1>3

LEMMA AdminKeeps ==
    ASSUME SettledInv, TypeInv', (\E p \in Product : EditDiscount(p) \/ EditProduct(p)) \/ AdminGoesOn
    PROVE  SettledInv'
<1>0. TypeInv BY DEF SettledInv
<1>1. UNCHANGED <<day, night>> BY <1>0, AdminEffect
<1>2. \A w \in Proc : \A q : Stays(w, q) BY <1>1, RunsStay
<1>3. CASE UNCHANGED <<price, disc, offer, clean, settled>>
  BY <1>1, <1>2, <1>3, QuietKeeps
<1>4. ASSUME NEW p \in Product, Disturb(p),
             \A q \in Product \ {p} :
                 price'[q] = price[q] /\ disc'[q] = disc[q] /\ offer'[q] = offer[q]
      PROVE  SettledInv'
  BY <1>1, <1>2, <1>4, DisturbKeeps
<1> QED BY <1>0, <1>3, <1>4, AdminEffect

-----------------------------------------------------------------------------
(* The nightly job *)

\* A step about one product.
LEMMA TouchKeeps ==
    ASSUME SettledInv, TypeInv', day' = day, NEW p \in Product,
           \A v \in Proc : clean'[v] \subseteq clean[v],
           settled \subseteq settled', settled' \subseteq settled \cup {p},
           \A v \in Proc : \A q \in Product \ {p} : Stays(v, q),
           \A q \in Product \ {p} :
               price'[q] = price[q] /\ disc'[q] = disc[q] /\ offer'[q] = offer[q],
           p \in settled' => Ready(price[p], disc[p], offer[p], day)',
           \A v \in Proc : p \in clean'[v] => InStep(v, p)'
    PROVE  SettledInv'
<1>1. settled \subseteq Product /\ \A w \in Proc : clean[w] \subseteq Product
  BY NightType DEF SettledInv, TypeInv
<1>2. ASSUME NEW q \in settled', q # p PROVE Ready(price[q], disc[q], offer[q], day)'
  <2>1. q \in settled /\ q \in Product \ {p} BY <1>1, <1>2
  <2> QED BY <2>1, ReadyKept DEF SettledInv
<1>3. ASSUME NEW w \in Proc, NEW q \in clean'[w], q # p PROVE InStep(w, q)'
  <2>1. q \in clean[w] /\ q \in Product \ {p} BY <1>1, <1>3
  <2>2. Untouched(q) BY <2>1 DEF Untouched
  <2> QED BY <2>1, <2>2, StepKept DEF SettledInv
<1> QED BY <1>2, <1>3 DEF SettledInv

LEMMA PassedStays ==
    ASSUME TypeInv, NEW w \in Proc, NEW p \in Product, Passed(w, p)
    PROVE  /\ \A v \in Proc : \A q \in Product \ {p} : Stays(v, q)
           /\ \A v \in Proc \ {w} : \A q \in Product : Stays(v, q)
           /\ night'[w].pc = night[w].pc /\ night'[w].now = night[w].now
           /\ p \notin night'[w].todo
<1>1. night \in [Proc -> NightRecord] BY NightType DEF TypeInv
<1> QED BY <1>1, PassedEffect DEF Stays

LEMMA FailsKeeps ==
    ASSUME SettledInv, TypeInv', NEW w \in Proc, NEW p \in Product, Fails(w, p)
    PROVE  SettledInv'
<1>0. TypeInv BY DEF SettledInv
<1>1. clean \in [Proc -> SUBSET Product] BY <1>0, NightType DEF TypeInv
<1>2. /\ Passed(w, p) /\ UNCHANGED <<day, price, disc, offer, settled>>
      /\ p \notin clean'[w] /\ \A v \in Proc : clean'[v] \subseteq clean[v]
  BY <1>1, FailsEffect
<1>3. ASSUME NEW v \in Proc, NEW q \in clean'[v] PROVE q \in clean[v] /\ Stays(v, q)
  <2>1. q \in clean[v] /\ q \in Product BY <1>1, <1>2, <1>3
  <2> QED BY <1>0, <1>2, <1>3, <2>1, PassedStays
<1> QED BY <1>2, <1>3, QuietKeeps

\* What the reads of the job leave alone.
LEMMA RunsEffect ==
    ASSUME TypeInv, NEW w \in Proc, NEW pc, NEW todo, NEW seen, Runs(w, pc, todo, seen)
    PROVE  /\ \A v \in Proc \ {w} : \A q : Stays(v, q)
           /\ night'[w].pc = pc /\ night'[w].todo = todo
           /\ night'[w].now = day /\ night'[w].seen = seen
<1>1. night \in [Proc -> NightRecord] BY NightType DEF TypeInv
<1>2. night'[w] = Night(pc, todo, day, seen) BY <1>1 DEF Runs
<1>3. \A v \in Proc \ {w} : night'[v] = night[v] BY <1>1 DEF Runs
<1> QED BY <1>2, <1>3 DEF Night, Stays

LEMMA BeginKeeps ==
    ASSUME SettledInv, TypeInv', NEW w \in Proc, NightBegin(w)
    PROVE  SettledInv'
<1>0. TypeInv BY DEF SettledInv
<1> DEFINE wrong == {p \in Product : disc[p].st # ShouldBeActive(disc[p].win, day)}
<1> DEFINE seen == [p \in Product |-> Seen(NoPrice, IF p \in wrong THEN disc[p] ELSE NoDisc, NoOffer)]
<1>1. /\ Runs(w, "discounts", wrong, seen)
      /\ clean' = [clean EXCEPT ![w] = Product]
      /\ UNCHANGED <<day, price, disc, offer, settled>>
  BY DEF NightBegin
<1>2. \A p \in Product : (p \in wrong <=> ~Right(disc[p], day)) BY DEF Right
<1>3. \A p \in wrong : seen[p].disc = disc[p] BY DEF Seen
<1> HIDE DEF wrong, seen
<1>4. clean \in [Proc -> SUBSET Product] BY <1>0, NightType DEF TypeInv
<1>5. ASSUME NEW p \in Product PROVE InStep(w, p)'
  <2>1. Pass("discounts", p \in wrong, seen[p], day', price'[p], disc'[p], offer'[p], p \in settled')
    BY <1>1, <1>2, <1>3 DEF Pass
  <2>2. /\ night'[w].pc = "discounts" /\ night'[w].todo = wrong
        /\ night'[w].now = day /\ night'[w].seen = seen
    BY <1>0, <1>1, RunsEffect
  <2> QED BY <1>1, <2>1, <2>2 DEF InStep
<1>6. ASSUME NEW v \in Proc, NEW p \in clean'[v]
      PROVE  InStep(v, p)' \/ (p \in clean[v] /\ Stays(v, p))
  <2>1. CASE v = w BY <1>1, <1>4, <1>5, <1>6, <2>1
  <2>2. CASE v # w
    <3>1. p \in clean[v] BY <1>1, <1>4, <1>6, <2>2
    <3> QED BY <1>0, <1>1, <2>2, <3>1, RunsEffect
  <2> QED BY <2>1, <2>2
<1> QED BY <1>1, <1>6, QuietKeeps

LEMMA OffersKeeps ==
    ASSUME SettledInv, TypeInv', NEW w \in Proc, NightOffers(w)
    PROVE  SettledInv'
<1>0. TypeInv BY DEF SettledInv
<1> DEFINE wrong == {p \in Product : offer[p].st # ShouldBeActive(offer[p].win, day)}
<1> DEFINE seen == [p \in Product |-> Seen(NoPrice, NoDisc, IF p \in wrong THEN offer[p] ELSE NoOffer)]
<1>1. /\ Runs(w, "offers", wrong, seen)
      /\ night[w].pc = "discounts" /\ night[w].todo = {}
      /\ UNCHANGED <<day, price, disc, offer, clean, settled>>
  BY DEF NightOffers
<1>2. \A p \in Product : (p \in wrong <=> ~Right(offer[p], day)) BY DEF Right
<1>3. \A p \in wrong : seen[p].offer = offer[p] BY DEF Seen
<1> HIDE DEF wrong, seen
<1>4. clean \in [Proc -> SUBSET Product] BY <1>0, NightType DEF TypeInv
<1>5. ASSUME NEW p \in clean[w] PROVE InStep(w, p)'
  <2>1. p \in Product BY <1>4
  <2>2. Right(disc[p], day) BY <1>1 DEF SettledInv, InStep, Pass
  <2>3. Pass("offers", p \in wrong, seen[p], day', price'[p], disc'[p], offer'[p], p \in settled')
    BY <1>1, <1>2, <1>3, <2>1, <2>2 DEF Pass
  <2>4. /\ night'[w].pc = "offers" /\ night'[w].todo = wrong
        /\ night'[w].now = day /\ night'[w].seen = seen
    BY <1>0, <1>1, RunsEffect
  <2> QED BY <1>1, <2>3, <2>4 DEF InStep
<1>6. ASSUME NEW v \in Proc, NEW p \in clean'[v]
      PROVE  InStep(v, p)' \/ (p \in clean[v] /\ Stays(v, p))
  <2>1. CASE v = w BY <1>1, <1>5, <1>6, <2>1
  <2>2. CASE v # w BY <1>0, <1>1, <1>6, <2>2, RunsEffect
  <2> QED BY <2>1, <2>2
<1> QED BY <1>1, <1>6, QuietKeeps

LEMMA PricesKeeps ==
    ASSUME SettledInv, TypeInv', NEW w \in Proc, NightPrices(w)
    PROVE  SettledInv'
<1>0. TypeInv BY DEF SettledInv
<1> DEFINE rows == [p \in Product |-> Seen(price[p], disc[p], offer[p])]
<1> DEFINE todo == {p \in Product : Promoted(rows[p])}
<1> DEFINE seen == [p \in Product |-> IF Promoted(rows[p]) THEN rows[p] ELSE Nothing]
<1>1. /\ Runs(w, "prices", todo, seen)
      /\ night[w].pc = "offers" /\ night[w].todo = {}
      /\ UNCHANGED <<day, price, disc, offer, clean, settled>>
  BY DEF NightPrices
<1>2. \A p \in Product : (p \in todo <=> Promoted(Seen(price[p], disc[p], offer[p]))) OBVIOUS
<1>3. \A p \in todo : seen[p].price = price[p] /\ seen[p].disc = disc[p] /\ seen[p].offer = offer[p]
  BY DEF Seen
<1> HIDE DEF todo, seen
<1>4. clean \in [Proc -> SUBSET Product] BY <1>0, NightType DEF TypeInv
<1>5. ASSUME NEW p \in clean[w] PROVE InStep(w, p)'
  <2>1. p \in Product BY <1>4
  <2>2. Right(disc[p], day) /\ Right(offer[p], day) BY <1>1 DEF SettledInv, InStep, Pass
  <2>3. Pass("prices", p \in todo, seen[p], day', price'[p], disc'[p], offer'[p], p \in settled')
    BY <1>1, <1>2, <1>3, <2>1, <2>2 DEF Pass
  <2>4. /\ night'[w].pc = "prices" /\ night'[w].todo = todo
        /\ night'[w].now = day /\ night'[w].seen = seen
    BY <1>0, <1>1, RunsEffect
  <2> QED BY <1>1, <2>3, <2>4 DEF InStep
<1>6. ASSUME NEW v \in Proc, NEW p \in clean'[v]
      PROVE  InStep(v, p)' \/ (p \in clean[v] /\ Stays(v, p))
  <2>1. CASE v = w BY <1>1, <1>5, <1>6, <2>1
  <2>2. CASE v # w BY <1>0, <1>1, <1>6, <2>2, RunsEffect
  <2> QED BY <2>1, <2>2
<1> QED BY <1>1, <1>6, QuietKeeps

LEMMA EndsKeeps ==
    ASSUME SettledInv, TypeInv', NEW w \in Proc, NightEnd(w) \/ NightFails(w) \/ Crash(w)
    PROVE  SettledInv'
<1>0. TypeInv BY DEF SettledInv
<1>1. night \in [Proc -> NightRecord] /\ clean \in [Proc -> SUBSET Product]
  BY <1>0, NightType DEF TypeInv
<1>2. /\ night' = [night EXCEPT ![w] = NoNight(night[w].now)]
      /\ UNCHANGED <<day, price, disc, offer, settled>>
      /\ UNCHANGED clean \/ clean' = [clean EXCEPT ![w] = {}]
  BY DEF NightEnd, NightFails, Crash
<1>3. night'[w].pc = "idle" BY <1>1, <1>2 DEF NoNight, Night
<1>4. ASSUME NEW v \in Proc, NEW p \in clean'[v]
      PROVE  InStep(v, p)' \/ (p \in clean[v] /\ Stays(v, p))
  <2>1. CASE v = w BY <1>3, <2>1 DEF InStep
  <2>2. CASE v # w
    <3>1. night'[v] = night[v] /\ p \in clean[v] BY <1>1, <1>2, <1>4, <2>2
    <3> QED BY <3>1 DEF Stays
  <2> QED BY <2>1, <2>2
<1> QED BY <1>2, <1>4, QuietKeeps

LEMMA DiscountKeeps ==
    ASSUME SettledInv, TypeInv', NEW w \in Proc, NEW p \in Product, NightDiscount(w, p)
    PROVE  SettledInv'
<1> DEFINE s == night[w].seen[p]
<1>0. TypeInv BY DEF SettledInv
<1>1. night[w].pc = "discounts" /\ p \in night[w].todo BY DEF NightDiscount
<1>2. CASE Fails(w, p) BY <1>2, FailsKeeps
<1>3. ASSUME disc[p].id = s.disc.id, disc' = [disc EXCEPT ![p].st = ~s.disc.st],
             Writes(w, p), UNCHANGED <<price, offer>>
      PROVE  SettledInv'
  <2> HIDE DEF s
  <2>0. /\ clean \in [Proc -> SUBSET Product] /\ settled \subseteq Product
        /\ disc \in [Product -> DiscRecord]
    BY <1>0, NightType DEF TypeInv
  <2>1. Passed(w, p) /\ UNCHANGED day BY <1>3 DEF Writes
  <2>2. \A v \in Proc : \A q \in Product \ {p} : Stays(v, q) BY <1>0, <2>1, PassedStays
  <2>3. \A q \in Product \ {p} :
            price'[q] = price[q] /\ disc'[q] = disc[q] /\ offer'[q] = offer[q]
    BY <1>3, <2>0
  <2>4. CASE p \notin clean[w]
    <3>1. Disturb(p) BY <1>3, <2>4 DEF Writes
    <3> QED BY <2>1, <2>2, <2>3, <3>1, DisturbKeeps
  <2>5. CASE p \in clean[w]
    <3>1. UNCHANGED <<clean, settled>> BY <1>3, <2>5 DEF Writes
    <3>2. disc[p] \in DiscRecord /\ s \in SeenRecord /\ day \in Nat /\ offer[p] \in OfferRecord
          /\ price[p] \in PriceRecord
      BY <1>0, NightFacts DEF s
    <3>3. Pass("discounts", TRUE, s, day, price[p], disc[p], offer[p], p \in settled)
      BY <1>1, <2>5 DEF SettledInv, InStep, s
    <3>4. s.disc.id > 0 BY <1>0, <1>1 DEF TypeInv, SeenRows, s
    <3>5. disc[p] # NoDisc
      <4>1. NoDisc.id = 0 BY DEF NoDisc, Discount
      <4> QED BY <1>3, <3>4, <4>1
    <3>6. disc[p].win = s.disc.win /\ ~Right(s.disc, day) BY <3>3, <3>5 DEF Pass
    <3>7. s.disc.st \in BOOLEAN /\ ShouldBeActive(disc[p].win, day) \in BOOLEAN
      BY <3>2, Booleans DEF SeenRecord, DiscRecord
    <3>8. (~s.disc.st) = ShouldBeActive(disc[p].win, day)
      BY <3>6, <3>7, Zenon DEF Right
    <3>9. disc'[p] = [disc[p] EXCEPT !.st = ~s.disc.st] BY <1>3, <2>0, Zenon
    <3>10. disc'[p] = [disc[p] EXCEPT !.st = ShouldBeActive(disc[p].win, day)]
      BY <3>8, <3>9, Zenon
    <3>11. disc'[p] \in DiscRecord BY DEF TypeInv, TypeOK
    <3>12. disc'[p].win = disc[p].win /\ disc'[p].st = ShouldBeActive(disc[p].win, day)
      BY <3>2, <3>7, <3>10 DEF DiscRecord
    <3>13. Right(disc'[p], day) BY <3>12 DEF Right
    <3>14. p \in settled' => Ready(price[p], disc[p], offer[p], day)'
      <4>1. SUFFICES ASSUME p \in settled PROVE Ready(price[p], disc[p], offer[p], day)' BY <3>1
      <4>2. Ready(price[p], disc[p], offer[p], day) BY <4>1 DEF SettledInv
      <4>3. disc'[p] = disc[p] BY <3>2, <3>12, <3>10, <4>2 DEF Ready, Right, DiscRecord
      <4> QED BY <1>3, <2>1, <4>2, <4>3
    <3>15. ASSUME NEW v \in Proc, p \in clean'[v] PROVE InStep(v, p)'
      <4>1. InStep(v, p) BY <3>1, <3>15 DEF SettledInv
      <4>2. CASE v = w
        <5>1. Pass("discounts", FALSE, s, day', price'[p], disc'[p], offer'[p], p \in settled')
          BY <2>1, <3>13 DEF Pass
        <5>2. /\ night'[w].pc = "discounts" /\ night'[w].now = night[w].now
              /\ p \notin night'[w].todo
          BY <1>0, <1>1, <2>1, PassedStays
        <5>3. night[w].now = day BY <1>1, <4>1, <4>2 DEF InStep
        <5>4. Pass(night'[w].pc, p \in night'[w].todo, night'[w].seen[p], day',
                   price'[p], disc'[p], offer'[p], p \in settled')
          BY <5>1, <5>2 DEF Pass
        <5> QED BY <2>1, <4>2, <5>2, <5>3, <5>4 DEF InStep
      <4>3. CASE v # w
        <5>1. Stays(v, p) BY <1>0, <2>1, <4>3, PassedStays
        <5>2. CASE night[v].pc = "idle" BY <5>1, <5>2 DEF Stays, InStep
        <5>3. CASE night[v].pc # "idle"
          <6>1. Pass(night[v].pc, p \in night[v].todo, night[v].seen[p], day,
                     price[p], disc[p], offer[p], p \in settled)
            BY <4>1, <5>3 DEF InStep
          <6>2. night[v].seen[p] \in SeenRecord BY <1>0, NightFacts
          <6>3. Pass(night[v].pc, p \in night[v].todo, night[v].seen[p], day,
                     price[p], disc'[p], offer[p], p \in settled)
            <7> DEFINE Moves(open, done) ==
                    Pass(night[v].pc, open, night[v].seen[p], day, price[p], disc[p], offer[p], done)
                      => Pass(night[v].pc, open, night[v].seen[p], day, price[p], disc'[p], offer[p], done)
            <7>1. \A open, done : Moves(open, done)
              BY <3>2, <3>10, <3>11, <6>2, PassDiscount
            <7>2. Moves(p \in night[v].todo, p \in settled) BY <7>1, Zenon
            <7> QED BY <6>1, <7>2
          <6>4. Pass(night'[v].pc, p \in night'[v].todo, night'[v].seen[p], day',
                     price'[p], disc'[p], offer'[p], p \in settled')
            BY <1>3, <2>1, <3>1, <5>1, <6>3 DEF Stays, Pass
          <6> QED BY <2>1, <4>1, <5>1, <6>4 DEF InStep, Stays
        <5> QED BY <5>2, <5>3
      <4> QED BY <4>2, <4>3
    <3> QED BY <2>1, <2>2, <2>3, <3>1, <3>14, <3>15, TouchKeeps
  <2> QED BY <2>4, <2>5
<1> QED BY <1>2, <1>3 DEF NightDiscount

LEMMA OfferKeeps ==
    ASSUME SettledInv, TypeInv', NEW w \in Proc, NEW p \in Product, NightOffer(w, p)
    PROVE  SettledInv'
<1> DEFINE s == night[w].seen[p]
<1>0. TypeInv BY DEF SettledInv
<1>1. night[w].pc = "offers" /\ p \in night[w].todo BY DEF NightOffer
<1>2. CASE Fails(w, p) BY <1>2, FailsKeeps
<1>3. ASSUME offer' = [offer EXCEPT ![p].st = ~s.offer.st],
             Writes(w, p), UNCHANGED <<price, disc>>
      PROVE  SettledInv'
  <2> HIDE DEF s
  <2>0. /\ clean \in [Proc -> SUBSET Product] /\ settled \subseteq Product
        /\ offer \in [Product -> OfferRecord]
    BY <1>0, NightType DEF TypeInv
  <2>1. Passed(w, p) /\ UNCHANGED day BY <1>3 DEF Writes
  <2>2. \A v \in Proc : \A q \in Product \ {p} : Stays(v, q) BY <1>0, <2>1, PassedStays
  <2>3. \A q \in Product \ {p} :
            price'[q] = price[q] /\ disc'[q] = disc[q] /\ offer'[q] = offer[q]
    BY <1>3, <2>0
  <2>4. CASE p \notin clean[w]
    <3>1. Disturb(p) BY <1>3, <2>4 DEF Writes
    <3> QED BY <2>1, <2>2, <2>3, <3>1, DisturbKeeps
  <2>5. CASE p \in clean[w]
    <3>1. UNCHANGED <<clean, settled>> BY <1>3, <2>5 DEF Writes
    <3>2. disc[p] \in DiscRecord /\ s \in SeenRecord /\ day \in Nat /\ offer[p] \in OfferRecord
          /\ price[p] \in PriceRecord
      BY <1>0, NightFacts DEF s
    <3>3. Pass("offers", TRUE, s, day, price[p], disc[p], offer[p], p \in settled)
      BY <1>1, <2>5 DEF SettledInv, InStep, s
    <3>4. offer[p].win = s.offer.win /\ ~Right(s.offer, day) /\ Right(disc[p], day)
      BY <3>3 DEF Pass
    <3>7. s.offer.st \in BOOLEAN /\ ShouldBeActive(offer[p].win, day) \in BOOLEAN
      BY <3>2, Booleans DEF SeenRecord, OfferRecord
    <3>8. (~s.offer.st) = ShouldBeActive(offer[p].win, day)
      BY <3>4, <3>7, Zenon DEF Right
    <3>9. offer'[p] = [offer[p] EXCEPT !.st = ~s.offer.st] BY <1>3, <2>0, Zenon
    <3>10. offer'[p] = [offer[p] EXCEPT !.st = ShouldBeActive(offer[p].win, day)]
      BY <3>8, <3>9, Zenon
    <3>11. offer'[p] \in OfferRecord BY DEF TypeInv, TypeOK
    <3>12. offer'[p].win = offer[p].win /\ offer'[p].st = ShouldBeActive(offer[p].win, day)
      BY <3>2, <3>7, <3>10 DEF OfferRecord
    <3>13. Right(offer'[p], day) BY <3>12 DEF Right
    <3>14. p \in settled' => Ready(price[p], disc[p], offer[p], day)'
      <4>1. SUFFICES ASSUME p \in settled PROVE Ready(price[p], disc[p], offer[p], day)' BY <3>1
      <4>2. Ready(price[p], disc[p], offer[p], day) BY <4>1 DEF SettledInv
      <4>3. offer'[p] = offer[p] BY <3>2, <3>12, <3>10, <4>2 DEF Ready, Right, OfferRecord
      <4> QED BY <1>3, <2>1, <4>2, <4>3
    <3>15. ASSUME NEW v \in Proc, p \in clean'[v] PROVE InStep(v, p)'
      <4>1. InStep(v, p) BY <3>1, <3>15 DEF SettledInv
      <4>2. CASE v = w
        <5>1. Pass("offers", FALSE, s, day', price'[p], disc'[p], offer'[p], p \in settled')
          BY <1>3, <2>1, <3>4, <3>13 DEF Pass
        <5>2. /\ night'[w].pc = "offers" /\ night'[w].now = night[w].now
              /\ p \notin night'[w].todo
          BY <1>0, <1>1, <2>1, PassedStays
        <5>3. night[w].now = day BY <1>1, <4>1, <4>2 DEF InStep
        <5>4. Pass(night'[w].pc, p \in night'[w].todo, night'[w].seen[p], day',
                   price'[p], disc'[p], offer'[p], p \in settled')
          BY <5>1, <5>2 DEF Pass
        <5> QED BY <2>1, <4>2, <5>2, <5>3, <5>4 DEF InStep
      <4>3. CASE v # w
        <5>1. Stays(v, p) BY <1>0, <2>1, <4>3, PassedStays
        <5>2. CASE night[v].pc = "idle" BY <5>1, <5>2 DEF Stays, InStep
        <5>3. CASE night[v].pc # "idle"
          <6>1. Pass(night[v].pc, p \in night[v].todo, night[v].seen[p], day,
                     price[p], disc[p], offer[p], p \in settled)
            BY <4>1, <5>3 DEF InStep
          <6>2. night[v].seen[p] \in SeenRecord BY <1>0, NightFacts
          <6>3. Pass(night[v].pc, p \in night[v].todo, night[v].seen[p], day,
                     price[p], disc[p], offer'[p], p \in settled)
            <7> DEFINE Moves(open, done) ==
                    Pass(night[v].pc, open, night[v].seen[p], day, price[p], disc[p], offer[p], done)
                      => Pass(night[v].pc, open, night[v].seen[p], day, price[p], disc[p], offer'[p], done)
            <7>1. \A open, done : Moves(open, done)
              BY <3>2, <3>10, <3>11, <6>2, PassOffer
            <7>2. Moves(p \in night[v].todo, p \in settled) BY <7>1, Zenon
            <7> QED BY <6>1, <7>2
          <6>4. Pass(night'[v].pc, p \in night'[v].todo, night'[v].seen[p], day',
                     price'[p], disc'[p], offer'[p], p \in settled')
            BY <1>3, <2>1, <3>1, <5>1, <6>3 DEF Stays, Pass
          <6> QED BY <2>1, <4>1, <5>1, <6>4 DEF InStep, Stays
        <5> QED BY <5>2, <5>3
      <4> QED BY <4>2, <4>3
    <3> QED BY <2>1, <2>2, <2>3, <3>1, <3>14, <3>15, TouchKeeps
  <2> QED BY <2>4, <2>5
<1> QED BY <1>2, <1>3 DEF NightOffer

LEMMA PriceKeeps ==
    ASSUME SettledInv, TypeInv', NEW w \in Proc, NEW p \in Product, NightPrice(w, p)
    PROVE  SettledInv'
<1> DEFINE s == night[w].seen[p]
<1> DEFINE now == night[w].now
<1> DEFINE new == PriceAt(s, now)
<1> DEFINE drop == HasDisc(s.disc) /\ Expired(s.disc.win, now)
<1>0. TypeInv BY DEF SettledInv
<1>1. night[w].pc = "prices" /\ p \in night[w].todo BY DEF NightPrice
<1>a. /\ clean \in [Proc -> SUBSET Product] /\ settled \subseteq Product
      /\ disc \in [Product -> DiscRecord] /\ price \in [Product -> PriceRecord]
  BY <1>0, NightType DEF TypeInv
<1>b. disc[p] \in DiscRecord /\ s \in SeenRecord /\ day \in Nat /\ offer[p] \in OfferRecord
      /\ price[p] \in PriceRecord
  BY <1>0, NightFacts
<1>2. CASE Fails(w, p) BY <1>2, FailsKeeps
<1>3. s.price.consumer # Absent BY <1>0, <1>1 DEF TypeInv, SeenRows
<1>4. ASSUME /\ price' = [price EXCEPT ![p].sale = IF s.price.sale # new THEN new ELSE @]
             /\ disc' = [disc EXCEPT ![p] = IF drop THEN NoDisc ELSE @]
             /\ Passed(w, p) /\ UNCHANGED <<day, offer>>,
             IF p \in clean[w]
               THEN settled' = settled \cup {p} /\ UNCHANGED clean
               ELSE IF drop \/ s.price.sale # new THEN Disturb(p)
                    ELSE UNCHANGED <<clean, settled>>
      PROVE  SettledInv'
  <2> HIDE DEF s, new, drop, now
  <2>1. \A v \in Proc : \A q \in Product \ {p} : Stays(v, q) BY <1>0, <1>4, PassedStays
  <2>2. \A q \in Product \ {p} :
            price'[q] = price[q] /\ disc'[q] = disc[q] /\ offer'[q] = offer[q]
    BY <1>4, <1>a
  <2>3. /\ price'[p] = [price[p] EXCEPT !.sale = IF s.price.sale # new THEN new ELSE @]
        /\ disc'[p] = IF drop THEN NoDisc ELSE disc[p]
    BY <1>4, <1>a
  <2>4. CASE p \notin clean[w] /\ (drop \/ s.price.sale # new)
    <3>1. Disturb(p) BY <1>4, <2>4
    <3> QED BY <1>4, <2>1, <2>2, <3>1, DisturbKeeps
  <2>5. CASE p \notin clean[w] /\ ~drop /\ s.price.sale = new
    <3>1. price'[p] = price[p] /\ disc'[p] = disc[p] BY <2>3, <2>5, <1>b DEF PriceRecord
    <3>2. UNCHANGED <<price, disc>> BY <3>1, <2>2, <1>a, <1>4
    <3>3. UNCHANGED <<clean, settled>> BY <1>4, <2>5
    <3>4. ASSUME NEW v \in Proc, NEW q \in clean'[v] PROVE q \in clean[v] /\ Stays(v, q)
      <4>1. q \in clean[v] /\ q \in Product BY <1>a, <3>3, <3>4
      <4>2. v # w \/ q # p BY <2>5, <4>1
      <4> QED BY <1>0, <1>4, <4>1, <4>2, PassedStays
    <3> QED BY <1>4, <3>2, <3>3, <3>4, QuietKeeps
  <2>6. CASE p \in clean[w]
    <3>1. settled' = settled \cup {p} /\ UNCHANGED clean BY <1>4, <2>6
    <3>2. now = day /\ Pass("prices", TRUE, s, day, price[p], disc[p], offer[p], p \in settled)
      BY <1>1, <2>6 DEF SettledInv, InStep, s, now
    <3>3. new = Due(price[p], disc[p], offer[p], day)
      BY <3>2, <1>b, PriceDue DEF new
    <3>4. /\ s.price.consumer = price[p].consumer
          /\ disc[p] = s.disc \/ (disc[p] = NoDisc /\ Expired(s.disc.win, day))
          /\ Right(disc[p], day) /\ Right(offer[p], day)
          /\ price[p].sale = s.price.sale \/ (price[p].consumer # Absent => price[p].sale = new)
      BY <3>2, <3>3 DEF Pass
    <3>5. price'[p] \in PriceRecord /\ disc'[p] \in DiscRecord BY DEF TypeInv, TypeOK
    <3>6. price'[p].sale = new /\ price'[p].consumer = price[p].consumer
      BY <1>b, <1>3, <2>3, <3>4 DEF PriceRecord
    <3>7. disc'[p] = disc[p] \/ (Expired(disc[p].win, day) /\ disc'[p] = NoDisc)
      BY <2>3, <3>2, <3>4 DEF drop
    <3>8. ~Expired(disc'[p].win, day)
      <4>1. ~Expired(NoDisc.win, day) BY NothingDue
      <4>2. CASE drop BY <2>3, <4>1, <4>2
      <4>3. CASE ~drop BY <2>3, <3>2, <3>4, <4>1, <4>3 DEF drop, HasDisc
      <4> QED BY <4>2, <4>3
    <3>9. Right(disc'[p], day) BY <3>4, <3>7, NothingDue DEF Right
    <3>10. Ready(price[p], disc[p], offer[p], day)'
      <4>1. Due(price'[p], disc'[p], offer[p], day) = new
        BY <1>b, <3>3, <3>5, <3>6, <3>7, DueKept
      <4>2. Ready(price'[p], disc'[p], offer'[p], day')
        BY <1>4, <3>4, <3>6, <3>8, <3>9, <4>1 DEF Ready
      <4> QED BY <4>2
    <3>11. ASSUME NEW v \in Proc, p \in clean'[v] PROVE InStep(v, p)'
      <4>1. InStep(v, p) BY <3>1, <3>11 DEF SettledInv
      <4>2. night'[v].pc = night[v].pc /\ night'[v].now = night[v].now
        <5>1. CASE v = w BY <1>0, <1>4, <5>1, PassedStays
        <5>2. CASE v # w BY <1>0, <1>4, <5>2, PassedStays DEF Stays
        <5> QED BY <5>1, <5>2
      <4>3. CASE night[v].pc = "idle" BY <4>2, <4>3 DEF InStep
      <4>4. CASE night[v].pc # "idle"
        <5> DEFINE here == p \in night[v].todo
        <5>1. night[v].now = day /\ night[v].seen[p] \in SeenRecord
              /\ Pass(night[v].pc, here, night[v].seen[p], day,
                      price[p], disc[p], offer[p], p \in settled)
          BY <1>0, <4>1, <4>4, NightFacts DEF InStep
        <5>2. Pass(night[v].pc, here, night[v].seen[p], day, price'[p], disc'[p], offer[p], TRUE)
          <6> DEFINE Moves(open, done) ==
                  Pass(night[v].pc, open, night[v].seen[p], day, price[p], disc[p], offer[p], done)
                    => Pass(night[v].pc, open, night[v].seen[p], day, price'[p], disc'[p], offer[p], TRUE)
          <6>1. \A open, done : Moves(open, done)
            BY <1>b, <3>3, <3>5, <3>6, <3>7, <5>1, PassPrice
          <6>2. Moves(here, p \in settled) BY <6>1, Zenon
          <6> QED BY <5>1, <6>2
        <5>3. CASE v # w
          <6>1. (p \in night'[v].todo <=> here) /\ night'[v].seen[p] = night[v].seen[p]
            BY <1>0, <1>4, <5>3, PassedStays DEF Stays
          <6>2. Pass(night'[v].pc, p \in night'[v].todo, night'[v].seen[p], day',
                     price'[p], disc'[p], offer'[p], p \in settled')
            BY <1>4, <3>1, <4>2, <5>2, <6>1 DEF Pass
          <6> QED BY <1>4, <4>2, <5>1, <6>2 DEF InStep
        <5>4. CASE v = w
          <6>1. p \notin night'[w].todo /\ night[w].pc = "prices" BY <1>0, <1>1, <1>4, PassedStays
          <6>2. Pass(night'[v].pc, p \in night'[v].todo, night'[v].seen[p], day',
                     price'[p], disc'[p], offer'[p], p \in settled')
            BY <1>4, <3>1, <4>2, <5>2, <5>4, <6>1 DEF Pass
          <6> QED BY <1>4, <4>2, <5>1, <6>2 DEF InStep
        <5> QED BY <5>3, <5>4
      <4> QED BY <4>3, <4>4
    <3> QED BY <1>4, <2>1, <2>2, <3>1, <3>10, <3>11, TouchKeeps
  <2> QED BY <2>4, <2>5, <2>6
<1> QED BY <1>2, <1>4 DEF NightPrice

-----------------------------------------------------------------------------
(* The theorems *)

LEMMA SettledInit == Init => SettledInv
<1> SUFFICES ASSUME Init PROVE SettledInv OBVIOUS
<1>1. TypeInv BY TypeInit
<1>2. settled = {} /\ \A w \in Proc : clean[w] = {} BY DEF Init
<1> QED BY <1>1, <1>2 DEF SettledInv

LEMMA SettledNext == SettledInv /\ [Next]_vars => SettledInv'
<1> SUFFICES ASSUME SettledInv, [Next]_vars PROVE SettledInv' OBVIOUS
<1>0. TypeInv' BY TypeNext DEF SettledInv
<1>1. CASE Tick BY <1>0, <1>1, TickKeeps
<1>2. CASE UNCHANGED vars
  <2>1. UNCHANGED <<day, price, disc, offer, night, clean, settled>> BY <1>2 DEF vars
  <2> QED BY <1>0, <2>1, RunsStay, QuietKeeps
<1>3. ASSUME NEW w \in Proc, NightStep(w) PROVE SettledInv'
  <2>1. CASE NightBegin(w) BY <1>0, <2>1, BeginKeeps
  <2>2. CASE NightOffers(w) BY <1>0, <2>2, OffersKeeps
  <2>3. CASE NightPrices(w) BY <1>0, <2>3, PricesKeeps
  <2>4. CASE NightEnd(w) \/ NightFails(w) \/ Crash(w) BY <1>0, <2>4, EndsKeeps
  <2>5. ASSUME NEW p \in Product, NightDiscount(w, p) PROVE SettledInv'
    BY <1>0, <2>5, DiscountKeeps
  <2>6. ASSUME NEW p \in Product, NightOffer(w, p) PROVE SettledInv'
    BY <1>0, <2>6, OfferKeeps
  <2>7. ASSUME NEW p \in Product, NightPrice(w, p) PROVE SettledInv'
    BY <1>0, <2>7, PriceKeeps
  <2> QED BY <1>3, <2>1, <2>2, <2>3, <2>4, <2>5, <2>6, <2>7 DEF NightStep
<1>4. CASE (\E p \in Product : EditDiscount(p) \/ EditProduct(p)) \/ AdminGoesOn
  BY <1>0, <1>4, AdminKeeps
<1> QED BY <1>1, <1>2, <1>3, <1>4 DEF Next

\* Whatever processes run the job at once, whatever fails or dies and whenever
\* admins edit: a product the job has passed undisturbed sells at the price of its
\* dates, shows the statuses of its dates and has no discount past its end.
THEOREM SettledHolds == Spec => []Settled
<1>1. SettledInv => Settled
  <2> SUFFICES ASSUME SettledInv, NEW p \in settled
               PROVE  /\ price[p].sale = DueToday(p)
                      /\ disc[p].st = ShouldBeActive(disc[p].win, day)
                      /\ offer[p].st = ShouldBeActive(offer[p].win, day)
                      /\ ~Expired(disc[p].win, day)
    BY DEF Settled
  <2>1. Ready(price[p], disc[p], offer[p], day) BY DEF SettledInv
  <2> QED BY <2>1 DEF Ready, Right, Due, DueToday
<1> QED BY <1>1, SettledInit, SettledNext, PTL DEF Spec

\* When a run ends, every product with a promotion that nothing disturbed is settled.
THEOREM NobodyLeftOutHolds == Spec => NobodyLeftOut
<1> DEFINE Left(w) ==
        night[w].pc = "prices" /\ night[w].todo = {} /\ night'[w].pc = "idle" =>
          {p \in clean[w] : Promoted(Seen(price[p], disc[p], offer[p]))} \subseteq settled'
<1>1. SettledInv /\ [Next]_vars => [\A w \in Proc : Left(w)]_vars
  <2> SUFFICES ASSUME SettledInv, [Next]_vars, NEW w \in Proc, night[w].pc = "prices",
                      night[w].todo = {}, night'[w].pc = "idle",
                      NEW p \in clean[w], Promoted(Seen(price[p], disc[p], offer[p]))
               PROVE  p \in settled'
    OBVIOUS
  <2>0. TypeInv /\ night \in [Proc -> NightRecord] /\ clean \in [Proc -> SUBSET Product]
    BY NightType DEF SettledInv, TypeInv
  <2>1. night'[w] # night[w] BY Zenon
  <2>2. PICK v \in Proc : NightStep(v)
    <3>1. CASE (\E q \in Product : EditDiscount(q) \/ EditProduct(q)) \/ AdminGoesOn
      BY <2>0, <2>1, <3>1, AdminEffect
    <3>2. CASE Tick \/ UNCHANGED vars BY <2>1, <3>2 DEF Tick, vars
    <3> QED BY <3>1, <3>2 DEF Next
  <2>3. CASE NightBegin(v) \/ NightOffers(v) \/ NightPrices(v)
    <3>1. \E pc \in {"discounts", "offers", "prices"} : \E todo, seen : Runs(v, pc, todo, seen)
      BY <2>3 DEF NightBegin, NightOffers, NightPrices
    <3>2. night'[v].pc # "idle" /\ \A u \in Proc \ {v} : night'[u] = night[u]
      BY <2>0, <3>1 DEF Runs, Night
    <3> QED BY <2>1, <3>2
  <2>4. ASSUME NEW q \in Product, NightDiscount(v, q) \/ NightOffer(v, q) \/ NightPrice(v, q)
        PROVE  FALSE
    <3>1. Passed(v, q)
      BY <2>4 DEF NightDiscount, NightOffer, NightPrice, Writes, Fails
    <3>2. \A u \in Proc : night'[u].pc = night[u].pc BY <2>0, <3>1, PassedEffect
    <3> QED BY <3>2
  <2>5. CASE NightEnd(v) \/ NightFails(v) \/ Crash(v)
    <3>1. settled' = settled BY <2>5 DEF NightEnd, NightFails, Crash
    <3>2. InStep(w, p) BY DEF SettledInv
    <3>3. p \in settled BY <3>2 DEF InStep, Pass
    <3> QED BY <3>1, <3>3
  <2> QED BY <2>2, <2>3, <2>4, <2>5 DEF NightStep
<1> QED BY <1>1, SettledInit, SettledNext, PTL DEF Spec, NobodyLeftOut
=============================================================================
