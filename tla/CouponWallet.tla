---------------------------- MODULE CouponWallet ----------------------------
(***************************************************************************)
(* One coupon and the coupons of it that customers hold (CouponHistory):   *)
(* coupons.service.ts, coupon-history.service.ts, the queue that issues a  *)
(* new coupon by membership grade, the monthly issue by cron, the coupons  *)
(* of a new membership level, and the use of coupons by confirmPayment.    *)
(*                                                                         *)
(* Each of these reads rows, awaits, and writes by id or by status later.  *)
(* Time is counted in months.                                              *)
(***************************************************************************)
EXTENDS Integers, FiniteSets

CONSTANTS
    User,      \* customers
    Kind,      \* coupons the admin may create: isAutoIssue, isPermanent, given
               \* with dates, and who has one of the targetGrades (or all)
    Payment,   \* payments that lift a customer to a new level
    Payer,     \* who made them
    Req,       \* requests the server runs at the same time
    CronRun,   \* server processes that run the monthly job
    Faults,    \* which of "queue" (enqueueing), "job", "update", "request",
               \* "level", "cron" (the database, there) may fail
    Absent,    \* null
    MaxRows,   \* bound: rows per customer
    MaxMonth,  \* bound: months
    MaxBegun   \* bound: requests and updates that are begun

Status == {"ISSUED", "USED", "CANCELLED", "EXPIRED"}
Source == {"grade", "admin", "update", "cron", "level", "order"}
Month == 0..MaxMonth
Slot == User \X (1..MaxRows)
Attempts == 3

ASSUME WalletAssumption ==
    /\ Kind \subseteq [auto : BOOLEAN, perm : BOOLEAN, dated : BOOLEAN,
                       all : BOOLEAN, targets : SUBSET User]
    /\ Payer \in [Payment -> User]
    /\ Absent \notin Source /\ Absent \notin Int /\ Absent \notin BOOLEAN /\ Absent \notin Kind
    /\ Absent \notin CronRun /\ Absent \notin Payment /\ Absent \notin Slot
    /\ Faults \subseteq {"queue", "job", "update", "request", "level", "cron"}
    /\ MaxRows \in Nat /\ MaxMonth \in Nat /\ MaxBegun \in Nat

VARIABLES
    coupon,  \* the Coupon row: kind, isActive, endDate
    hist,    \* CouponHistory rows, by slot; a slot without a row is "FREE",
             \* and "DELETED" when the row has been deleted
    month,
    job,     \* the job issue-coupon-to-users-by-target-grades
    req,     \* requests in flight
    adm,     \* the admin's update in flight
    level,   \* the payment worker, issuing the coupons of a new level
    lifted,  \* payments whose coupons the worker has taken on
    cron,    \* runs of the monthly job
    begun,   \* how many requests and updates have begun
    lock     \* who holds the row lock on the coupon (SELECT ... FOR UPDATE)

vars == <<coupon, hist, month, job, req, adm, level, lifted, cron, begun, lock>>

NewRow(st, qty, src) == [st |-> st, qty |-> qty, from |-> Absent, until |-> Absent,
                         src |-> src, pay |-> Absent, woken |-> FALSE]

FreeRow == NewRow("FREE", 0, Absent)
Issued(src) == NewRow("ISSUED", 1, src)
UsedRow == NewRow("USED", 1, "order")

Dated(row, from, until) == [row EXCEPT !.from = from, !.until = until]

There == coupon.kind # Absent /\ ~coupon.gone
Active == There /\ coupon.active
Targeted == IF coupon.kind.all THEN User ELSE coupon.kind.targets

HasRoom(users) == \A u \in users : \E i \in 1..MaxRows : hist[<<u, i>>].st = "FREE"

\* The first slot of a customer with this status: free for the next row, or
\* ISSUED for the oldest coupon that can be used.
First(s, st) == /\ hist[s].st = st
                /\ \A j \in 1..(s[2] - 1) : hist[<<s[1], j>>].st # st

\* Inserting a row needs the key of the coupon, which FOR UPDATE withholds.
CanInsert(users) == lock = Absent /\ There /\ HasRoom(users)

With(users, row) ==
    [s \in Slot |-> IF s[1] \in users /\ First(s, "FREE") THEN row ELSE hist[s]]

Holds(u, statuses) == {i \in 1..MaxRows : hist[<<u, i>>].st \in statuses}

Begin == begun < MaxBegun /\ begun' = begun + 1

IdleReq == [pc |-> "idle", slot |-> Absent, users |-> {}, big |-> FALSE]
IdleAdm == [pc |-> "idle", want |-> Absent, was |-> FALSE]
IdleLevel == [pc |-> "idle", pay |-> Absent]
NoJob == [pc |-> "none", left |-> Attempts, from |-> Absent, until |-> Absent]

Init ==
    /\ coupon = [kind |-> Absent, gone |-> FALSE, active |-> FALSE, until |-> Absent]
    /\ hist = [s \in Slot |-> FreeRow]
    /\ month = 0
    /\ job = NoJob
    /\ req = [r \in Req |-> IdleReq]
    /\ adm = IdleAdm
    /\ level = IdleLevel
    /\ lifted = {}
    /\ cron = [c \in CronRun |-> [pc |-> "idle", due |-> 1, seen |-> {}]]
    /\ begun = 0
    /\ lock = Absent

-----------------------------------------------------------------------------
(* create, and the job it enqueues *)

\* The row is created first; if the queue is down the coupon stays, unissued.
\* An auto-issue coupon gets the next month for its period.
Create(kind) ==
    LET queued == [NoJob EXCEPT !.pc = "queued",
                              !.from  = IF kind.dated THEN month ELSE Absent,
                              !.until = IF kind.dated THEN month + 1 ELSE Absent]
    IN  /\ coupon.kind = Absent
        /\ coupon' = [coupon EXCEPT !.kind = kind, !.active = TRUE,
                          !.until = IF kind.auto \/ kind.dated THEN month + 1 ELSE Absent]
        /\ job' \in IF kind.auto THEN {job}
                    ELSE {queued} \cup (IF "queue" \in Faults THEN {job} ELSE {})
        /\ UNCHANGED <<hist, month, req, adm, level, lifted, cron, begun, lock>>

\* What issueCouponToUsersByTargetGrades does once it has read the coupon: an
\* inactive coupon is an error if it is for some grades, and none if for all.
GradeVerdict ==
    CASE Targeted = {}                -> "nobody"
      [] Targeted # {} /\ Active      -> "issue"
      [] Targeted # {} /\ ~Active     -> IF coupon.kind.all THEN "nobody" ELSE "error"

JobFailed == [job EXCEPT !.left = @ - 1,
                         !.pc = IF job.left > 1 THEN "queued" ELSE "failed"]

JobRead ==
    /\ job.pc = "queued"
    /\ job' = CASE GradeVerdict = "issue"  -> [job EXCEPT !.pc = "write"]
                [] GradeVerdict = "nobody" -> [job EXCEPT !.pc = "done"]
                [] GradeVerdict = "error"  -> JobFailed
    /\ UNCHANGED <<coupon, hist, month, req, adm, level, lifted, cron, begun, lock>>

\* createBulk is one transaction: every customer gets a row, or none does.
JobWrite ==
    /\ job.pc = "write"
    /\ CanInsert(Targeted)
    /\ hist' = With(Targeted, Dated(Issued("grade"), job.from, job.until))
    /\ job' = [job EXCEPT !.pc = "done"]
    /\ UNCHANGED <<coupon, month, req, adm, level, lifted, cron, begun, lock>>

\* Mutant: the rows are created one by one, and stay when the next one fails.
JobFails_HalfWritten ==
    /\ job.pc = "write"
    /\ ~There \/ "job" \in Faults
    /\ job' = JobFailed
    /\ IF lock = Absent /\ \E u \in Targeted : HasRoom({u})
         THEN \E u \in Targeted : HasRoom({u}) /\ hist' = With({u}, Issued("grade"))
         ELSE UNCHANGED hist
    /\ UNCHANGED <<coupon, month, req, adm, level, lifted, cron, begun, lock>>

\* The coupon has been deleted, or the transaction failed: BullMQ tries again.
JobFails ==
    /\ job.pc = "write"
    /\ ~There \/ "job" \in Faults
    /\ job' = JobFailed
    /\ UNCHANGED <<coupon, hist, month, req, adm, level, lifted, cron, begun, lock>>

-----------------------------------------------------------------------------
(* update and remove *)

UpdateRead(want) ==
    /\ adm.pc = "idle" /\ There /\ Begin
    /\ adm' = [pc |-> IF coupon.kind.auto THEN "grant" ELSE "rows",
               want |-> want, was |-> coupon.active]
    /\ UNCHANGED <<coupon, hist, month, job, req, level, lifted, cron, lock>>

\* An update of an auto-issue coupon issues it once more.
UpdateGrant ==
    /\ adm.pc = "grant"
    /\ adm' = CASE GradeVerdict = "issue"  -> [adm EXCEPT !.pc = "grantWrite"]
                [] GradeVerdict = "nobody" -> [adm EXCEPT !.pc = "rows"]
                [] GradeVerdict = "error"  -> IdleAdm
    /\ UNCHANGED <<coupon, hist, month, job, req, level, lifted, cron, begun, lock>>

UpdateGrantWrite ==
    /\ adm.pc = "grantWrite"
    /\ CanInsert(Targeted)
    /\ hist' = With(Targeted, Issued("update"))
    /\ adm' = [adm EXCEPT !.pc = "rows"]
    /\ UNCHANGED <<coupon, month, job, req, level, lifted, cron, begun, lock>>

\* expireAllByCouponId
Expired == [s \in Slot |-> IF hist[s].st = "ISSUED" THEN [hist[s] EXCEPT !.st = "EXPIRED"]
                           ELSE hist[s]]

\* Mutant: every row of the period comes back, not only the EXPIRED ones.
Revivable_AnyStatus(row) ==
    /\ row.st \in Status
    /\ row.from # Absent /\ row.from =< month
    /\ row.until = Absent \/ row.until >= month

\* In SQL a startDate that is null is not =< now.
Revivable(row) ==
    /\ row.st = "EXPIRED"
    /\ row.from # Absent /\ row.from =< month
    /\ row.until = Absent \/ row.until >= month

\* reactivateExpiredByCouponId
Reactivated == [s \in Slot |-> IF Revivable(hist[s])
                               THEN [hist[s] EXCEPT !.st = "ISSUED", !.woken = TRUE]
                               ELSE hist[s]]

\* The rows are written before the coupon.
UpdateRows ==
    /\ adm.pc = "rows"
    /\ hist' = CASE adm.want = FALSE           -> Expired
                 [] adm.want = TRUE /\ ~adm.was -> Reactivated
                 [] OTHER                       -> hist
    /\ adm' = [adm EXCEPT !.pc = "save"]
    /\ UNCHANGED <<coupon, month, job, req, level, lifted, cron, begun, lock>>

UpdateSave ==
    /\ adm.pc = "save" /\ There /\ lock = Absent
    /\ coupon' = IF adm.want # Absent THEN [coupon EXCEPT !.active = adm.want] ELSE coupon
    /\ adm' = IdleAdm
    /\ UNCHANGED <<hist, month, job, req, level, lifted, cron, begun, lock>>

\* An error on the way, or no coupon any more: what has been written stays.
UpdateFails ==
    /\ "update" \in Faults \/ ~There
    /\ adm.pc # "idle"
    /\ adm' = IdleAdm
    /\ UNCHANGED <<coupon, hist, month, job, req, level, lifted, cron, begun, lock>>

\* A hard delete; the rows keep their status but lose the coupon.
Remove ==
    /\ There /\ lock = Absent
    /\ coupon' = [coupon EXCEPT !.gone = TRUE]
    /\ UNCHANGED <<hist, month, job, req, adm, level, lifted, cron, begun, lock>>

-----------------------------------------------------------------------------
(* issueCoupon, useCoupon, cancelCoupon *)

IssueRead(r, users) ==
    /\ req[r].pc = "idle" /\ Begin /\ Active
    /\ \A u \in users : Holds(u, {"ISSUED"}) = {}
    /\ req' = [req EXCEPT ![r] = [IdleReq EXCEPT !.pc = "issueWrite", !.users = users]]
    /\ UNCHANGED <<coupon, hist, month, job, adm, level, lifted, cron, lock>>

IssueWrite(r) ==
    /\ req[r].pc = "issueWrite"
    /\ CanInsert(req[r].users)
    /\ hist' = With(req[r].users, Issued("admin"))
    /\ req' = [req EXCEPT ![r] = IdleReq]
    /\ UNCHANGED <<coupon, month, job, adm, level, lifted, cron, begun, lock>>

\* A date compared with an endDate that is null is past it.
UseRead(r, s) ==
    /\ req[r].pc = "idle" /\ Begin /\ Active
    /\ hist[s].st = "ISSUED"
    /\ coupon.until # Absent /\ month =< coupon.until
    /\ req' = [req EXCEPT ![r] = [IdleReq EXCEPT !.pc = "useWrite", !.slot = s]]
    /\ UNCHANGED <<coupon, hist, month, job, adm, level, lifted, cron, lock>>

CancelRead(r, s) ==
    /\ req[r].pc = "idle" /\ Begin
    /\ hist[s].st = "ISSUED"
    /\ req' = [req EXCEPT ![r] = [IdleReq EXCEPT !.pc = "cancelWrite", !.slot = s]]
    /\ UNCHANGED <<coupon, hist, month, job, adm, level, lifted, cron, lock>>

\* By id, whatever the status has become.
Mark(r, pc, st) ==
    /\ req[r].pc = pc
    /\ hist[req[r].slot].st \in Status
    /\ hist' = [hist EXCEPT ![req[r].slot].st = st]
    /\ req' = [req EXCEPT ![r] = IdleReq]
    /\ UNCHANGED <<coupon, month, job, adm, level, lifted, cron, begun, lock>>

\* Mutant: the status as the gateway spells it.
CancelWrite_Spelling(r) == Mark(r, "cancelWrite", "CANCELED")

UseWrite(r)    == Mark(r, "useWrite", "USED")
CancelWrite(r) == Mark(r, "cancelWrite", "CANCELLED")

\* The database fails, or the row to update or its coupon has been deleted.
RequestFails(r) ==
    /\ req[r].pc # "idle"
    /\ \/ "request" \in Faults \/ ~There
       \/ req[r].slot # Absent /\ hist[req[r].slot].st = "DELETED"
    /\ req' = [req EXCEPT ![r] = IdleReq]
    /\ UNCHANGED <<coupon, hist, month, job, adm, level, lifted, cron, begun, lock>>

-----------------------------------------------------------------------------
(* The coupon of an order, in the transaction of confirmPayment *)

\* The oldest ISSUED row of the customer, if there is one.
ConfirmRead(r, u) ==
    /\ req[r].pc = "idle" /\ There /\ Begin
    /\ \E s \in {t \in Slot : t[1] = u /\ First(t, "ISSUED")}
               \cup (IF Holds(u, {"ISSUED"}) = {} THEN {Absent} ELSE {}) :
         req' = [req EXCEPT ![r] =
                   [IdleReq EXCEPT !.pc = "confirmWrite", !.users = {u}, !.slot = s,
                       !.big = s # Absent /\ hist[s].qty > 1]]
    /\ UNCHANGED <<coupon, hist, month, job, adm, level, lifted, cron, lock>>

ConfirmWrite(r) ==
    LET s == req[r].slot IN
    /\ req[r].pc = "confirmWrite"
    /\ s # Absent => hist[s].st \in Status
    /\ IF s # Absent /\ ~req[r].big
         THEN hist' = [hist EXCEPT ![s].st = "USED"]
         ELSE /\ CanInsert(req[r].users)
              /\ hist' = IF s = Absent THEN With(req[r].users, UsedRow)
                         ELSE [With(req[r].users, UsedRow) EXCEPT ![s].qty = @ - 1]
    /\ req' = [req EXCEPT ![r] = IdleReq]
    /\ UNCHANGED <<coupon, month, job, adm, level, lifted, cron, begun, lock>>

-----------------------------------------------------------------------------
(* The coupon of a new level: issueSpecialBenefit, called by the payment    *)
(* worker, one job at a time, and the withdrawal when a payment is cancelled *)

\* Mutant: only a coupon that has not been used yet counts.
existsByUserAndCoupon_Issued(u) == Holds(u, {"ISSUED"}) # {}

\* Any status counts.
existsByUserAndCoupon(u) == Holds(u, Status) # {}

LevelRead(p) ==
    /\ level.pc = "idle" /\ p \notin lifted
    /\ Active /\ ~existsByUserAndCoupon(Payer[p])
    /\ level' = [pc |-> "write", pay |-> p]
    /\ lifted' = lifted \cup {p}
    /\ UNCHANGED <<coupon, hist, month, job, req, adm, cron, begun, lock>>

\* createWithQuantity: from now on for thirty days.
LevelWrite ==
    /\ level.pc = "write"
    /\ CanInsert({Payer[level.pay]})
    /\ hist' = With({Payer[level.pay]},
                    [Dated(Issued("level"), month, month + 1) EXCEPT !.pay = level.pay])
    /\ level' = IdleLevel
    /\ UNCHANGED <<coupon, month, job, req, adm, lifted, cron, begun, lock>>

\* Its errors are swallowed by the job.
LevelFails ==
    /\ level.pc = "write"
    /\ "level" \in Faults \/ ~There
    /\ level' = IdleLevel
    /\ UNCHANGED <<coupon, hist, month, job, req, adm, lifted, cron, begun, lock>>

\* deleteMany of the rows of the payment that are still ISSUED.
Withdraw(p) ==
    /\ \E s \in Slot : hist[s].pay = p /\ hist[s].st = "ISSUED"
    /\ hist' = [s \in Slot |-> IF hist[s].pay = p /\ hist[s].st = "ISSUED"
                               THEN [hist[s] EXCEPT !.st = "DELETED"] ELSE hist[s]]
    /\ UNCHANGED <<coupon, month, job, req, adm, level, lifted, cron, begun, lock>>

-----------------------------------------------------------------------------
(* issueAutoIssueCouponsToTargetGrades: one transaction on every process    *)

Monthly == Active /\ (coupon.kind.auto \/ coupon.kind.perm) /\ Targeted # {}

\* One ISSUED row of each targeted customer who has any, in no particular order.
RowsFound ==
    {S \in SUBSET {s \in Slot : s[1] \in Targeted /\ hist[s].st = "ISSUED"} :
        /\ \A u \in Targeted : Holds(u, {"ISSUED"}) # {} => \E s \in S : s[1] = u
        /\ \A s, t \in S : s[1] = t[1] => s = t}

CronIdle(c) == [cron EXCEPT ![c].pc = "idle", ![c].due = month + 1, ![c].seen = {}]

\* Mutant: the run reads without locking the coupon.
CronRead_Unlocked(c) ==
    /\ cron[c].pc = "idle" /\ cron[c].due =< month
    /\ Monthly
    /\ \E seen \in RowsFound : cron' = [cron EXCEPT ![c].pc = "write", ![c].seen = seen]
    /\ UNCHANGED <<coupon, hist, month, job, req, adm, level, lifted, begun, lock>>

\* The lock, then the ISSUED rows.
CronRead(c) ==
    /\ cron[c].pc = "idle" /\ cron[c].due =< month
    /\ Monthly /\ lock = Absent
    /\ lock' = c
    /\ \E seen \in RowsFound : cron' = [cron EXCEPT ![c].pc = "write", ![c].seen = seen]
    /\ UNCHANGED <<coupon, hist, month, job, req, adm, level, lifted, begun>>

\* One more for each row it saw, by id, and a row for everybody else.
CronWrite(c) ==
    LET new == {u \in Targeted : \A s \in cron[c].seen : s[1] # u} IN
    /\ cron[c].pc = "write"
    /\ HasRoom(new)
    /\ hist' = [s \in Slot |->
                  IF s \in cron[c].seen /\ hist[s].st \in Status
                  THEN [hist[s] EXCEPT !.qty = @ + 1]
                  ELSE With(new, Dated(Issued("cron"), month, month))[s]]
    /\ coupon' = [coupon EXCEPT !.until = month]
    /\ cron' = CronIdle(c)
    /\ lock' = Absent
    /\ UNCHANGED <<month, job, req, adm, level, lifted, begun>>

CronFails(c) ==
    /\ "cron" \in Faults
    /\ cron[c].pc = "write"
    /\ cron' = CronIdle(c)
    /\ lock' = Absent
    /\ UNCHANGED <<coupon, hist, month, job, req, adm, level, lifted, begun>>

\* A month begins: the processes that had nothing to do are done with the last.
Tick ==
    /\ month < MaxMonth
    /\ month' = month + 1
    /\ UNCHANGED <<coupon, hist, job, req, adm, level, lifted, cron, begun, lock>>

-----------------------------------------------------------------------------
Next ==
    \/ \E kind \in Kind : Create(kind)
    \/ JobRead \/ JobWrite \/ JobFails
    \/ \E want \in BOOLEAN \cup {Absent} : UpdateRead(want)
    \/ UpdateGrant \/ UpdateGrantWrite \/ UpdateRows \/ UpdateSave \/ UpdateFails
    \/ Remove
    \/ \E r \in Req :
         \/ \E users \in SUBSET User \ {{}} : IssueRead(r, users)
         \/ \E s \in Slot : UseRead(r, s) \/ CancelRead(r, s)
         \/ \E u \in User : ConfirmRead(r, u)
         \/ IssueWrite(r) \/ UseWrite(r) \/ CancelWrite(r) \/ ConfirmWrite(r)
         \/ RequestFails(r)
    \/ \E p \in Payment : LevelRead(p) \/ Withdraw(p)
    \/ LevelWrite \/ LevelFails
    \/ \E c \in CronRun : CronRead(c) \/ CronWrite(c) \/ CronFails(c)
    \/ Tick

Spec == Init /\ [][Next]_vars
-----------------------------------------------------------------------------
(* Type invariant *)

Date == {Absent} \cup 0..(MaxMonth + 1)
RowRecord == [st : Status \cup {"FREE", "DELETED"}, qty : Int, from : Date,
              until : Date, src : Source \cup {Absent},
              pay : Payment \cup {Absent}, woken : BOOLEAN]
CouponRecord == [kind : Kind \cup {Absent}, gone : BOOLEAN, active : BOOLEAN, until : Date]
JobRecord == [pc : {"none", "queued", "write", "done", "failed"},
              left : 0..Attempts, from : Date, until : Date]
ReqRecord == [pc : {"idle", "issueWrite", "useWrite", "cancelWrite", "confirmWrite"},
              slot : Slot \cup {Absent}, users : SUBSET User, big : BOOLEAN]
AdmRecord == [pc : {"idle", "grant", "grantWrite", "rows", "save"},
              want : BOOLEAN \cup {Absent}, was : BOOLEAN]
LevelRecord == [pc : {"idle", "write"}, pay : Payment \cup {Absent}]
CronRecord == [pc : {"idle", "write"}, due : 0..(MaxMonth + 1), seen : SUBSET Slot]

\* Shape of the state.
TypeOK ==
    /\ coupon \in CouponRecord
    /\ hist \in [Slot -> RowRecord]
    /\ month \in Month
    /\ job \in JobRecord
    /\ req \in [Req -> ReqRecord]
    /\ adm \in AdmRecord
    /\ level \in LevelRecord
    /\ lifted \subseteq Payment
    /\ cron \in [CronRun -> CronRecord]
    /\ begun \in 0..MaxBegun
    /\ lock \in CronRun \cup {Absent}

-----------------------------------------------------------------------------
(* Safety *)

RowsFrom(u, src) == {i \in 1..MaxRows : hist[<<u, i>>].src = src}

AtMostOne(S) == \A i, j \in S : i = j

\* A retried job does not issue the new coupon to anybody twice, wherever its
\* attempts fail.  (As long as the worker process does not die.)
GrantedOnce == \A u \in User : AtMostOne(RowsFrom(u, "grade"))

\* Rows of the monthly job that have been ISSUED from the start: those that an
\* update expired and brought back are not counted.
MonthlyRows(u) == {i \in RowsFrom(u, "cron") \cap Holds(u, {"ISSUED"}) :
                     ~hist[<<u, i>>].woken}

\* coupon-history.cronjob.service.ts:48: concurrent runs of the monthly job make
\* no duplicate rows, nor do runs of different months.
CronNoDuplicates == \A u \in User : AtMostOne(MonthlyRows(u))

BenefitRows(u) == RowsFrom(u, "level") \cap Holds(u, Status)

\* A customer has the special benefit of the highest level once, whether it has
\* been used, cancelled or expired since, and however many payments reach the
\* level, are withdrawn, and reach it again.
SpecialOnce == \A u \in User : AtMostOne(BenefitRows(u))

\* What each issuing handler relies on between its read and its write.
GradePending == job.pc # "done" => \A u \in User : RowsFrom(u, "grade") = {}
LevelPending == level.pc = "write" =>
                  level.pay \in Payment /\ BenefitRows(Payer[level.pay]) = {}
LockHeld == \A c \in CronRun : cron[c].pc = "write" <=> lock = c
JobCounts == /\ job.pc \in {"none", "queued", "write"} => job.left \in 1..Attempts
             /\ coupon.kind = Absent => job.pc = "none"
CronPending == \A c \in CronRun : cron[c].pc = "write" =>
                 /\ coupon.kind # Absent
                 /\ \A u \in User \cap Targeted :
                      (\A s \in cron[c].seen : s[1] # u) => MonthlyRows(u) = {}

\* With these the properties above are inductive.
WalletInv == /\ GrantedOnce /\ CronNoDuplicates /\ SpecialOnce
             /\ GradePending /\ LevelPending /\ LockHeld /\ CronPending

\* A coupon that was used or cancelled does not come back: updates of the
\* coupon, the monthly job and requests that read the row earlier included.
NeverReissued ==
    [][\A s \in Slot : hist[s].st \in {"USED", "CANCELLED"}
                       => hist'[s].st \notin {"ISSUED", "EXPIRED"}]_vars
=============================================================================
