-------------------------- MODULE MembershipRecalc --------------------------
(***************************************************************************)
(* The membership ladder while it is edited, and the customers' places on  *)
(* it: the recalculation of everybody (membership-cronjob.service.ts, from *)
(* its queue or after a tier edit), the recalculation of one customer by   *)
(* the payment worker, and the admin's edits (memberships.service.ts,      *)
(* user.service.ts).  Each reads totals and tiers, awaits, and then writes *)
(* User.totalPurchaseAmount, UserMembership and User.membershipLevel, in   *)
(* statements of their own.                                                *)
(***************************************************************************)
EXTENDS Integers, FiniteSets

CONSTANTS
    User, Tier, Pay,
    Payer, Worth,  \* who made a payment, and what it was worth
    Part,          \* what a partial refund of it gives back
    Price,         \* prices an admin may give each tier (minPrice)
    FirstTiers,    \* the ladder of the first start
    Wish,          \* levels and statuses an admin may ask for (lvl, st)
    Edit,          \* recalculations after tier edits
    Worker,        \* the worker of the membership queue
    Payments,      \* the worker of the payment queue
    Absent,        \* null
    MaxEdits,      \* bounds: the admin's edits, and his requests to recalculate
    MaxFaults      \* bound: errors of the database and the queue, and restarts

Asked == {"edit", "recalculation"}
Exec == Edit \cup {Worker, Payments}
Attempts == 3
Ladder == [Tier -> Int \cup {Absent}]
Level == Tier \cup {Absent}
Status == {"normal", "stop"}

ASSUME RecalcAssumption ==
    /\ User # {}
    /\ Payer \in [Pay -> User] /\ Worth \in [Pay -> Int] /\ Part \in [Pay -> Int]
    /\ Price \in [Tier -> SUBSET Int] /\ FirstTiers \in [Tier -> Int \cup {Absent}]
    /\ Wish \subseteq [lvl : Tier \cup {Absent}, st : {"normal", "stop"} \cup {Absent}]
    /\ Worker \notin Edit /\ Payments \notin Edit /\ Worker # Payments
    /\ Absent \notin Int /\ Absent \notin Tier /\ Absent \notin User /\ Absent \notin Status
    /\ Absent \notin [tier : Tier, status : Status]
    /\ MaxEdits \in [{"edit", "recalculation"} -> Nat] /\ MaxFaults \in Nat

VARIABLES
    tiers,     \* minPrice by tier; Absent: no such row
    cached,    \* the tiers the process cached when it started
    paid,      \* what became of each payment
    spent,     \* the sum over the customer's SUCCESS payments in the basePeriod
    total,     \* User.totalPurchaseAmount
    row,       \* UserMembership by customer, or Absent
    level,     \* User.membershipLevel
    exec,      \* recalculations in flight
    payjob,    \* the membership job of a payment, until it is complete or given up
    jobs,      \* recalculate-all jobs in the queue, by the attempts they have left
    adm,       \* an admin's request in flight
    edits, faults,
    calm,      \* history: customers nobody has disturbed, and with whom nothing
               \* has failed, since a recalculation read the totals while nothing
               \* else was about to write them
    settled    \* history: customers a recalculation has passed since then

vars == <<tiers, cached, paid, spent, total, row, level, exec, payjob, jobs,
          adm, edits, faults, calm, settled>>
places == <<total, row, level>>
history == <<calm, settled>>

Rungs(lad) == {t \in Tier : lad[t] # Absent}
Reached(lad, amount) == {t \in Rungs(lad) : lad[t] =< amount}

\* The dearest tier reached, the cheapest of all when none is; any of them
\* when prices are equal.
Deserved(lad, amount) ==
    IF Reached(lad, amount) # {}
    THEN {t \in Reached(lad, amount) : \A s \in Reached(lad, amount) : lad[s] =< lad[t]}
    ELSE {t \in Rungs(lad) : \A s \in Rungs(lad) : lad[t] =< lad[s]}

Membership(t, status) == [tier |-> t, status |-> status]

Execution(pc, tries, lad, todo, amount, user, tier) ==
    [pc |-> pc, tries |-> tries, lad |-> lad, todo |-> todo,
     amount |-> amount, user |-> user, tier |-> tier]

NoLadder == [t \in Tier |-> Absent]
NoAmount == [u \in User |-> 0]
Start(pc, tries, user) == Execution(pc, tries, NoLadder, {}, NoAmount, user, Absent)
Idle == Start("idle", Attempts, Absent)

Job(st, tries) == [st |-> st, tries |-> tries]
NoJob == Job("none", Attempts)

NoAdm == [pc |-> "idle", user |-> Absent, lvl |-> Absent, st |-> Absent, todo |-> {}]

Init ==
    /\ tiers = FirstTiers
    /\ cached = Rungs(FirstTiers)
    /\ paid = [p \in Pay |-> "none"]
    /\ spent = NoAmount
    /\ total = NoAmount
    /\ row = [u \in User |-> Absent]
    /\ level = [u \in User |-> Absent]
    /\ exec = [e \in Exec |-> Idle]
    /\ payjob = [p \in Pay |-> NoJob]
    /\ jobs = [k \in 1..Attempts |-> 0]
    /\ adm = NoAdm
    /\ edits = [what \in Asked |-> 0] /\ faults = 0
    /\ calm = {} /\ settled = {}

Fault == faults < MaxFaults /\ faults' = faults + 1

AdminAsks(what) == edits[what] < MaxEdits[what] /\ edits' = [edits EXCEPT ![what] = @ + 1]
AdminWrites == AdminAsks("edit")

\* Somebody else acts on these customers.
Disturb(users) == calm' = calm \ users /\ settled' = settled \ users

-----------------------------------------------------------------------------
(* What payments do to the totals: confirmPayment, cancelPayment and the    *)
(* passing of the basePeriod                                                *)

Confirm(p) ==
    LET u == Payer[p] IN
    /\ paid[p] = "none"
    /\ paid' = [paid EXCEPT ![p] = "counted"]
    /\ spent' = [spent EXCEPT ![u] = @ + Worth[p]]
    /\ total' = [total EXCEPT ![u] = @ + Worth[p]]
    /\ payjob' = [payjob EXCEPT ![p] = Job("due", Attempts)]
    /\ Disturb({u})
    /\ UNCHANGED <<tiers, cached, row, level, exec, jobs, adm, edits, faults>>

Enqueue(p) ==
    /\ payjob[p].st = "due"
    /\ \/ payjob' = [payjob EXCEPT ![p] = Job("queued", Attempts)] /\ UNCHANGED faults
       \/ payjob' = [payjob EXCEPT ![p] = NoJob] /\ Fault
    /\ UNCHANGED <<tiers, cached, paid, spent, places, exec, jobs, adm, edits, history>>

\* The whole order leaves the total, whatever has been refunded and however old
\* the payment is, and the customer's place follows in the same transaction.
Reverse(p, refund) ==
    LET u == Payer[p]
        left == total[u] - Worth[p]
    IN  /\ paid[p] \in {"counted", "aged"}
        /\ paid' = [paid EXCEPT ![p] = IF paid[p] = "counted" /\ refund = Part[p]
                                       THEN "partly" ELSE "closed"]
        /\ spent' = IF paid[p] = "counted" THEN [spent EXCEPT ![u] = @ - refund] ELSE spent
        /\ total' = [total EXCEPT ![u] = left]
        /\ IF Rungs(tiers) = {} THEN UNCHANGED <<row, level>>
           ELSE \E t \in Deserved(tiers, left) :
                  /\ row' = [row EXCEPT ![u] = Membership(t, "normal")]
                  /\ level' = [level EXCEPT ![u] = t]
        /\ Disturb({u})
        /\ UNCHANGED <<tiers, cached, exec, payjob, jobs, adm, edits, faults>>

\* The payment is older than the basePeriod: it does not count any more.
Age(p) ==
    LET left == IF paid[p] = "partly" THEN Worth[p] - Part[p] ELSE Worth[p] IN
    /\ paid[p] \in {"counted", "partly"}
    /\ paid' = [paid EXCEPT ![p] = IF paid[p] = "partly" THEN "closed" ELSE "aged"]
    /\ spent' = [spent EXCEPT ![Payer[p]] = @ - left]
    /\ Disturb({Payer[p]})
    /\ UNCHANGED <<tiers, cached, places, exec, payjob, jobs, adm, edits, faults>>

-----------------------------------------------------------------------------
(* Recalculation: of everybody (Edit, Worker), of one customer (Payments)   *)

\* POST recalculate-all
RecalculateAll ==
    /\ AdminAsks("recalculation")
    /\ jobs' = [jobs EXCEPT ![Attempts] = @ + 1]
    /\ UNCHANGED <<tiers, cached, paid, spent, places, exec, payjob, adm, faults, history>>

WorkerTakes(k) ==
    /\ jobs[k] > 0 /\ exec[Worker].pc = "idle"
    /\ jobs' = [jobs EXCEPT ![k] = @ - 1]
    /\ exec' = [exec EXCEPT ![Worker] = Start("tiers", k, Absent)]
    /\ UNCHANGED <<tiers, cached, paid, spent, places, payjob, adm, edits, faults, history>>

\* A job that is to be tried again waits in the queue; others may come first.
PaymentsTakes(p) ==
    /\ payjob[p].st = "queued" /\ exec[Payments].pc = "idle"
    /\ payjob' = [payjob EXCEPT ![p] = Job("running", payjob[p].tries)]
    /\ exec' = [exec EXCEPT ![Payments] = Start("read", Attempts, Payer[p])]
    /\ UNCHANGED <<tiers, cached, paid, spent, places, jobs, adm, edits, faults, history>>

\* The level has been read again, and coupons issued where it changed; an error
\* of the coupons is only logged.
JobDone(p) ==
    /\ payjob[p].st = "running" /\ exec[Payments].pc = "coupons"
    /\ payjob' = [payjob EXCEPT ![p] = NoJob]
    /\ exec' = [exec EXCEPT ![Payments] = Idle]
    /\ UNCHANGED <<tiers, cached, paid, spent, places, jobs, adm, edits, faults, history>>

Executes == UNCHANGED <<tiers, cached, paid, spent, payjob, jobs, adm, edits>>

\* The payment worker starts from the total in the User row.
ReadTotal ==
    LET x == exec[Payments] IN
    /\ x.pc = "read"
    /\ exec' = [exec EXCEPT ![Payments] =
                  Execution("tiers", x.tries, NoLadder, {},
                            [u \in User |-> IF u = x.user THEN total[u] ELSE 0],
                            x.user, Absent)]
    /\ UNCHANGED <<places, history, faults>> /\ Executes

\* Nothing to do: there are no tiers, or the one that was edited is gone.
NothingToDo(e) == \/ Rungs(tiers) = {}
                  \/ e \in Edit /\ tiers[exec[e].tier] = Absent

\* Without tiers the payment worker goes on to the coupons all the same.
Leaving(e, x) == IF e = Payments THEN Start("coupons", x.tries, x.user) ELSE Idle

ReadTiers(e) ==
    LET x == exec[e] IN
    /\ x.pc = "tiers"
    /\ IF NothingToDo(e) THEN exec' = [exec EXCEPT ![e] = Leaving(e, x)]
       ELSE IF e # Payments
         THEN exec' = [exec EXCEPT ![e] =
                Execution("totals", x.tries, tiers, {}, NoAmount, Absent, Absent)]
         ELSE \E t \in Deserved(tiers, x.amount[x.user]) :
                exec' = [exec EXCEPT ![e] =
                  Execution("find", x.tries, NoLadder, {}, NoAmount, x.user, t)]
    /\ UNCHANGED <<places, history, faults>> /\ Executes

\* Some other recalculation or request may still write this customer's place
\* from what it read before.
Busy(e, u) ==
    \/ adm.user = u
    \/ \E p \in Pay : Payer[p] = u /\ payjob[p].st # "none"
    \/ \E d \in Exec \ {e} :
         \/ exec[d].user = u \/ u \in exec[d].todo
         \/ (exec[d].pc = "totals" /\ exec[d].lad # tiers)

\* getUsersWithPurchaseAmounts: everybody, by one query.
ReadTotals(e) ==
    LET x == exec[e] IN
    /\ x.pc = "totals"
    /\ exec' = [exec EXCEPT ![e] =
                  Execution("next", x.tries, x.lad, User, spent, Absent, Absent)]
    /\ calm' = calm \cup {u \in User : x.lad = tiers /\ ~Busy(e, u)}
    /\ UNCHANGED <<places, settled, faults>> /\ Executes

\* Mutant: the total is left to the payments.
SyncTotal_Skipped(e, u) ==
    LET x == exec[e] IN
    /\ x.pc = "next" /\ u \in x.todo
    /\ \E t \in Deserved(x.lad, x.amount[u]) :
         exec' = [exec EXCEPT ![e] =
                    Execution("find", x.tries, x.lad, x.todo, x.amount, u, t)]
    /\ UNCHANGED <<places, history, faults>> /\ Executes

\* syncUserTotalPurchaseAmount for the next customer, in no particular order.
SyncTotal(e, u) ==
    LET x == exec[e] IN
    /\ x.pc = "next" /\ u \in x.todo
    /\ total' = [total EXCEPT ![u] = x.amount[u]]
    /\ \E t \in Deserved(x.lad, x.amount[u]) :
         exec' = [exec EXCEPT ![e] =
                    Execution("find", x.tries, x.lad, x.todo, x.amount, u, t)]
    /\ UNCHANGED <<row, level, history, faults>> /\ Executes

Moves(e, pc) ==
    LET x == exec[e] IN
    exec' = [exec EXCEPT ![e] =
               Execution(pc, x.tries, x.lad, x.todo, x.amount, x.user, x.tier)]

\* Done with this customer.  The payment worker has only the one, and goes on.
Passed(x, u) ==
    IF x.todo = {} THEN Start("coupons", x.tries, x.user)
    ELSE IF x.todo = {u} THEN Idle
    ELSE Execution("next", x.tries, x.lad, x.todo \ {u}, [x.amount EXCEPT ![u] = 0], Absent, Absent)

\* A blocked membership is not found, and so it will be written.
HasAlready(x) == row[x.user] = Membership(x.tier, "normal")

Find(e) ==
    /\ exec[e].pc = "find"
    /\ Moves(e, IF HasAlready(exec[e]) THEN "level" ELSE "upsert")
    /\ UNCHANGED <<places, history, faults>> /\ Executes

\* The tier must still be there: it is a foreign key.
Upsert(e) ==
    LET x == exec[e] IN
    /\ x.pc = "upsert" /\ tiers[x.tier] # Absent
    /\ row' = [row EXCEPT ![x.user] = Membership(x.tier, "normal")]
    /\ Moves(e, "level")
    /\ UNCHANGED <<total, level, history, faults>> /\ Executes

\* The level is written even when the membership was right.
SetLevel(e) ==
    LET x == exec[e] IN
    /\ x.pc = "level"
    /\ level' = [level EXCEPT ![x.user] = x.tier]
    /\ exec' = [exec EXCEPT ![e] = Passed(x, x.user)]
    /\ settled' = settled \cup ({x.user} \cap calm)
    /\ UNCHANGED <<total, row, calm, faults>> /\ Executes

\* The tier has been removed, or the database fails.
ErrorWith(x) == \/ x.pc = "upsert" /\ tiers[x.tier] = Absent /\ UNCHANGED faults
                \/ Fault

Fails(u) == calm' = calm \ {u} /\ UNCHANGED <<places, settled>> /\ Executes

\* Mutant: an error with one customer ends the recalculation.
UserFails_Stops(e) ==
    LET x == exec[e] IN
    /\ e # Payments /\ x.pc \in {"find", "upsert", "level"}
    /\ ErrorWith(x)
    /\ exec' = [exec EXCEPT ![e] = Idle]
    /\ Fails(x.user)

\* An error with one customer is logged; the recalculation goes on.
UserFails(e) ==
    LET x == exec[e] IN
    /\ e # Payments /\ x.pc \in {"find", "upsert", "level"}
    /\ ErrorWith(x)
    /\ exec' = [exec EXCEPT ![e] = Passed(x, x.user)]
    /\ Fails(x.user)

\* The same, before anything has been written for the customer.
SyncFails(e, u) ==
    /\ exec[e].pc = "next" /\ u \in exec[e].todo /\ Fault
    /\ exec' = [exec EXCEPT ![e] = Passed(exec[e], u)]
    /\ Fails(u)

\* The tiers or the totals cannot be read: a job goes back to the queue until
\* its attempts are used up; after a tier edit the error is logged.
ReadFails(e) ==
    LET x == exec[e] IN
    /\ e # Payments /\ Fault
    /\ x.pc \in {"tiers", "totals"}
    /\ exec' = [exec EXCEPT ![e] = Idle]
    /\ jobs' = IF e = Worker /\ x.tries > 1 THEN [jobs EXCEPT ![x.tries - 1] = @ + 1] ELSE jobs
    /\ UNCHANGED <<tiers, cached, paid, spent, places, payjob, adm, edits, history>>

\* Any error of the payment worker is rethrown, the last read's too: the whole
\* job is tried again later, whatever it has written, while it has attempts left.
JobFails(p) ==
    LET left == payjob[p].tries - 1 IN
    /\ payjob[p].st = "running"
    /\ ErrorWith(exec[Payments])
    /\ payjob' = [payjob EXCEPT ![p] = IF left > 0 THEN Job("queued", left) ELSE NoJob]
    /\ exec' = [exec EXCEPT ![Payments] = Idle]
    /\ UNCHANGED <<tiers, cached, paid, spent, places, jobs, adm, edits, history>>

-----------------------------------------------------------------------------
(* The admin: tiers *)

SetTier(t, price) == tiers' = [tiers EXCEPT ![t] = price] /\ Disturb(User)

CreateTier(t, price) ==
    /\ AdminWrites /\ tiers[t] = Absent
    /\ SetTier(t, price)
    /\ UNCHANGED <<cached, paid, spent, places, exec, payjob, jobs, adm, faults>>

\* update with a minPrice: everybody is recalculated, and nobody waits for it.
UpdateTier(t, price, e) ==
    /\ AdminWrites /\ tiers[t] # Absent
    /\ exec[e].pc = "idle"
    /\ SetTier(t, price)
    /\ exec' = [exec EXCEPT ![e] =
                  Execution("tiers", Attempts, NoLadder, {}, NoAmount, Absent, t)]
    /\ UNCHANGED <<cached, paid, spent, places, payjob, jobs, adm, faults>>

\* One item of bulkUpdateMemberships: nobody is recalculated.
BulkUpdateTier(t, price) ==
    /\ AdminWrites /\ tiers[t] # Absent
    /\ SetTier(t, price)
    /\ UNCHANGED <<cached, paid, spent, places, exec, payjob, jobs, adm, faults>>

\* The memberships of the tier go with it; the levels stay.
RemoveTier(t) ==
    /\ AdminWrites /\ tiers[t] # Absent
    /\ SetTier(t, Absent)
    /\ row' = [u \in User |-> IF row[u] # Absent /\ row[u].tier = t THEN Absent ELSE row[u]]
    /\ UNCHANGED <<cached, paid, spent, total, level, exec, payjob, jobs, adm, faults>>

-----------------------------------------------------------------------------
(* The admin: customers *)

ByAdmin == UNCHANGED <<tiers, cached, paid, spent, total, exec, payjob, jobs, faults>>

\* Mutant: a status that is not given is written as such.
OrNormal_Raw(st) == st

OrNormal(st) == IF st = Absent THEN "normal" ELSE st

\* assignMembershipToUser: the level stays.
Assign(u, w) ==
    /\ AdminWrites /\ row[u] = Absent
    /\ w.lvl # Absent /\ tiers[w.lvl] # Absent
    /\ row' = [row EXCEPT ![u] = Membership(w.lvl, OrNormal(w.st))]
    /\ Disturb({u})
    /\ UNCHANGED <<level, adm>> /\ ByAdmin

RemoveUserMembership(u) ==
    /\ AdminWrites /\ row[u] # Absent
    /\ row' = [row EXCEPT ![u] = Absent]
    /\ Disturb({u})
    /\ UNCHANGED <<level, adm>> /\ ByAdmin

Request(pc, u, lvl, st, todo) ==
    [pc |-> pc, user |-> u, lvl |-> lvl, st |-> st, todo |-> todo]

\* PATCH user/:userId: the membership and the level are written side by side.
UpdateUserMembership(u, w) ==
    /\ AdminWrites /\ adm.pc = "idle"
    /\ row[u] # Absent /\ (w.lvl # Absent => tiers[w.lvl] # Absent)
    /\ adm' = Request("both", u, w.lvl, OrNormal(w.st),
                      IF w.lvl # Absent THEN {"row", "level"} ELSE {"row"})
    /\ Disturb({u})
    /\ UNCHANGED <<row, level>> /\ ByAdmin

Wrote(part) == adm' = IF adm.todo \ {part} = {} THEN NoAdm
                      ELSE Request("both", adm.user, adm.lvl, adm.st, adm.todo \ {part})

WriteRow ==
    LET u == adm.user
        tier == IF adm.lvl = Absent THEN row[u].tier ELSE adm.lvl
    IN  /\ adm.pc = "both" /\ "row" \in adm.todo
        /\ IF row[u] # Absent /\ tiers[tier] # Absent
             THEN row' = [row EXCEPT ![u] = Membership(tier, adm.st)]
             ELSE UNCHANGED row
        /\ Wrote("row")
        /\ UNCHANGED <<level, edits, history>> /\ ByAdmin

WriteLevel ==
    /\ adm.pc = "both" /\ "level" \in adm.todo
    /\ level' = [level EXCEPT ![adm.user] = adm.lvl]
    /\ Wrote("level")
    /\ UNCHANGED <<row, edits, history>> /\ ByAdmin

\* UserService.update: the level first, then the membership, then its status.
UpdateUser(u, w) ==
    /\ AdminWrites /\ adm.pc = "idle"
    /\ w.lvl # Absent \/ w.st # Absent
    /\ level' = IF w.lvl = Absent THEN level ELSE [level EXCEPT ![u] = w.lvl]
    /\ adm' = Request(IF w.lvl = Absent THEN "status" ELSE "sync", u, w.lvl, w.st, {})
    /\ Disturb({u})
    /\ UNCHANGED row /\ ByAdmin

ThenStatus == adm' = IF adm.st = Absent THEN NoAdm
                     ELSE Request("status", adm.user, adm.lvl, adm.st, {})

\* syncUserMembershipByLevel: a tier the process does not know, or a customer
\* without a membership, is an error, and the level stays as written.
SyncByLevel ==
    LET u == adm.user IN
    /\ adm.pc = "sync"
    /\ IF adm.lvl \notin cached \/ row[u] = Absent THEN adm' = NoAdm
       ELSE IF row[u].tier = adm.lvl THEN ThenStatus
       ELSE adm' = Request("upsert", u, adm.lvl, adm.st, {})
    /\ UNCHANGED <<row, level, edits, history>> /\ ByAdmin

SyncUpsert ==
    /\ adm.pc = "upsert"
    /\ IF tiers[adm.lvl] = Absent THEN adm' = NoAdm /\ UNCHANGED row
       ELSE /\ row' = [row EXCEPT ![adm.user] = Membership(adm.lvl, "normal")]
            /\ ThenStatus
    /\ UNCHANGED <<level, edits, history>> /\ ByAdmin

\* updateUserMembershipStatus
SetStatus ==
    LET u == adm.user IN
    /\ adm.pc = "status"
    /\ row' = IF row[u] = Absent THEN row
              ELSE [row EXCEPT ![u] = Membership(row[u].tier, adm.st)]
    /\ adm' = NoAdm
    /\ UNCHANGED <<level, edits, history>> /\ ByAdmin

\* The process dies: BullMQ puts the jobs that ran back into their queues,
\* everything else is lost, and the tiers are cached anew.
Restart ==
    LET w == exec[Worker] IN
    /\ Fault
    /\ cached' = Rungs(tiers)
    /\ exec' = [e \in Exec |-> Idle]
    /\ jobs' = IF w.pc = "idle" THEN jobs ELSE [jobs EXCEPT ![w.tries] = @ + 1]
    /\ payjob' = [p \in Pay |-> CASE payjob[p].st = "due" -> NoJob
                                 [] payjob[p].st = "running" -> Job("queued", payjob[p].tries)
                                 [] OTHER -> payjob[p]]
    /\ adm' = NoAdm
    /\ calm' = calm \cap settled
    /\ UNCHANGED <<tiers, paid, spent, places, edits, settled>>

-----------------------------------------------------------------------------
Run(e) ==
    \/ ReadTiers(e) \/ ReadTotals(e) \/ \E u \in User : SyncTotal(e, u) \/ SyncFails(e, u)
    \/ Find(e) \/ Upsert(e) \/ SetLevel(e)
    \/ UserFails(e) \/ ReadFails(e)

Admin ==
    \/ RecalculateAll
    \/ \E t \in Tier :
         \/ \E price \in Price[t] :
              CreateTier(t, price) \/ BulkUpdateTier(t, price) \/ \E e \in Edit : UpdateTier(t, price, e)
         \/ RemoveTier(t)
    \/ \E u \in User :
         \/ RemoveUserMembership(u)
         \/ \E w \in Wish : Assign(u, w) \/ UpdateUserMembership(u, w) \/ UpdateUser(u, w)
    \/ WriteRow \/ WriteLevel \/ SyncByLevel \/ SyncUpsert \/ SetStatus

Next ==
    \/ \E p \in Pay : \/ Confirm(p) \/ Enqueue(p) \/ Age(p)
                      \/ PaymentsTakes(p) \/ JobDone(p) \/ JobFails(p)
                      \/ \E refund \in {Worth[p], Part[p]} : Reverse(p, refund)
    \/ ReadTotal \/ \E k \in 1..Attempts : WorkerTakes(k)
    \/ \E e \in Exec : Run(e)
    \/ Admin \/ Restart

Spec == Init /\ [][Next]_vars

-----------------------------------------------------------------------------
(* Type invariant *)

Pc == {"idle", "read", "tiers", "totals", "next", "find", "upsert", "level", "coupons"}
ExecRecord == [pc : Pc, tries : 1..Attempts, lad : Ladder, todo : SUBSET User,
               amount : [User -> Int], user : User \cup {Absent}, tier : Level]
AdmRecord == [pc : {"idle", "both", "sync", "upsert", "status"}, user : User \cup {Absent},
              lvl : Level, st : Status \cup {Absent}, todo : SUBSET {"row", "level"}]
Row == [tier : Tier, status : Status]
PayJob == [st : {"none", "due", "queued", "running"}, tries : 1..Attempts]

\* Shape of the state.
TypeOK ==
    /\ tiers \in Ladder /\ cached \subseteq Tier
    /\ paid \in [Pay -> {"none", "counted", "partly", "aged", "closed"}]
    /\ spent \in [User -> Int] /\ total \in [User -> Int]
    /\ row \in [User -> Row \cup {Absent}]
    /\ level \in [User -> Level]
    /\ exec \in [Exec -> ExecRecord]
    /\ payjob \in [Pay -> PayJob]
    /\ jobs \in [1..Attempts -> Nat]
    /\ adm \in AdmRecord
    /\ edits \in [Asked -> Nat] /\ \A what \in Asked : edits[what] =< MaxEdits[what]
    /\ faults \in 0..MaxFaults
    /\ calm \subseteq User /\ settled \subseteq User

-----------------------------------------------------------------------------
(* Safety and liveness *)

InPlace(u) == /\ total[u] = spent[u]
              /\ row[u] # Absent
              /\ {row[u].tier, level[u]} \subseteq Deserved(tiers, spent[u])

\* A recalculation puts every customer it passes in place (total, membership
\* and level), if nothing else was about to write them when it read the totals,
\* and they stay there until somebody pays, cancels, or edits them or the tiers:
\* other recalculations and faults may come at any time.
Settled == \A u \in settled : InPlace(u)

\* Nobody is left out: of those it found calm, each is in place or still to
\* come, whatever fails for others.
NobodyLeftOut ==
    \A u \in calm \ settled : \E e \in Exec \ {Payments} : u \in exec[e].todo

\* What the two rest on: whatever is still about to write such a customer holds
\* what is true of him now.
UpToDate(e, u) ==
    /\ exec[e].pc = "totals" => exec[e].lad = tiers
    /\ u \in exec[e].todo => exec[e].lad = tiers /\ exec[e].amount[u] = spent[u]
    /\ exec[e].user = u =>
         /\ e # Payments
         /\ exec[e].tier \in Deserved(tiers, spent[u])
         /\ total[u] = spent[u]
         /\ exec[e].pc = "level" =>
              row[u] # Absent /\ row[u].tier \in Deserved(tiers, spent[u])
Undisturbed(u) ==
    /\ adm.user # u
    /\ \A p \in Pay : Payer[p] = u => payjob[p].st = "none"
    /\ \A e \in Exec : UpToDate(e, u)

Placing == {"find", "upsert", "level"}
ShapeOf(e, x) ==
    /\ x.pc \in Placing => x.user \in User /\ x.tier \in Tier
    /\ x.pc \notin Placing \cup {"next"} => x.todo = {}
    /\ e # Payments => /\ x.pc \notin {"read", "coupons"}
                       /\ x.pc \in Placing => x.user \in x.todo
                       /\ x.pc \notin Placing => x.user = Absent
    /\ e = Payments => /\ x.todo = {} /\ x.pc \notin {"totals", "next"}
                       /\ x.pc # "idle" => x.user \in User
ExecShape == \A e \in Exec : ShapeOf(e, exec[e])
AdmShape ==
    /\ adm.pc = "idle" <=> adm.user = Absent
    /\ adm.pc = "both" => adm.st \in Status
    /\ adm.pc = "both" /\ "level" \in adm.todo => adm.lvl \in Tier
    /\ adm.pc \in {"sync", "upsert"} => adm.lvl \in Tier
    /\ adm.pc = "status" => adm.st \in Status

RecalcInv == /\ TypeOK /\ ExecShape /\ AdmShape
             /\ \A u \in calm \cup settled : Undisturbed(u)
             /\ Settled /\ NobodyLeftOut
=============================================================================
