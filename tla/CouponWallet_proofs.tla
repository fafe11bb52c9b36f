------------------------ MODULE CouponWallet_proofs ------------------------
(* What holds of CouponWallet for every value of its constants. *)
EXTENDS CouponWallet, TLAPS

-----------------------------------------------------------------------------
(* Helpers *)

LEMMA IssuedType ==
    /\ FreeRow \in RowRecord
    /\ UsedRow \in RowRecord
    /\ \A src \in Source : Issued(src) \in RowRecord
    /\ \A src \in Source, from \in Date, until \in Date :
          Dated(Issued(src), from, until) \in RowRecord
<1>1. FreeRow \in RowRecord BY DEF FreeRow, NewRow, RowRecord, Date
<1>2. \A src \in Source : Issued(src) \in RowRecord
  BY DEF Issued, NewRow, RowRecord, Status, Date
<1>3. UsedRow \in RowRecord BY DEF UsedRow, NewRow, RowRecord, Status, Date, Source
<1>4. \A row \in RowRecord, from \in Date, until \in Date :
         Dated(row, from, until) \in RowRecord
  BY DEF Dated, RowRecord
<1> QED BY <1>1, <1>2, <1>3, <1>4

\* Inserting rows keeps the table a table.
LEMMA WithType ==
    ASSUME hist \in [Slot -> RowRecord], NEW users, NEW row \in RowRecord
    PROVE  With(users, row) \in [Slot -> RowRecord]
BY DEF With

\* The rows an update writes.
LEMMA UpdateRowsType ==
    ASSUME hist \in [Slot -> RowRecord]
    PROVE  /\ Expired \in [Slot -> RowRecord]
           /\ Reactivated \in [Slot -> RowRecord]
<1>1. \A s \in Slot : hist[s] \in RowRecord OBVIOUS
<1>2. \A row \in RowRecord : /\ [row EXCEPT !.st = "EXPIRED"] \in RowRecord
                             /\ [row EXCEPT !.st = "ISSUED", !.woken = TRUE] \in RowRecord
  BY DEF RowRecord, Status
<1> QED BY <1>1, <1>2 DEF Expired, Reactivated

LEMMA VerdictType == GradeVerdict \in {"issue", "nobody", "error"}
BY DEF GradeVerdict

\* A failed attempt is counted, and the last one ends the job.
LEMMA JobFailedType ==
    ASSUME job \in JobRecord, JobCounts, job.pc \in {"queued", "write"}
    PROVE  /\ JobFailed \in JobRecord
           /\ JobFailed.pc \in {"queued", "failed"}
           /\ JobFailed.pc = "queued" => JobFailed.left \in 1..Attempts
<1>1. job.left \in 1..3 BY DEF JobCounts, Attempts
<1>2. \A n \in 0..3, pc \in {"queued", "failed"} :
          [job EXCEPT !.left = n, !.pc = pc] \in JobRecord
  BY DEF JobRecord, Attempts
<1>3. job.left - 1 \in 0..3 /\ (job.left > 1 => job.left - 1 \in 1..3) BY <1>1
<1>4. JobFailed = [job EXCEPT !.left = job.left - 1,
                              !.pc = IF job.left > 1 THEN "queued" ELSE "failed"]
  BY DEF JobFailed
<1>5. JobFailed \in JobRecord BY <1>2, <1>3, <1>4
<1>6. JobFailed.left = job.left - 1
      /\ JobFailed.pc = IF job.left > 1 THEN "queued" ELSE "failed"
  BY <1>4 DEF JobRecord
<1> QED BY <1>3, <1>5, <1>6 DEF Attempts
-----------------------------------------------------------------------------
(* Type correctness *)

Typed == TypeOK /\ JobCounts

LEMMA TypeInit == Init => Typed
<1> SUFFICES ASSUME Init PROVE Typed OBVIOUS
<1> USE WalletAssumption
<1>1. hist \in [Slot -> RowRecord] BY IssuedType DEF Init
<1>2. coupon \in CouponRecord BY DEF Init, CouponRecord, Date
<1>3. job \in JobRecord /\ JobCounts
  BY DEF Init, NoJob, JobRecord, JobCounts, Attempts, Date
<1>4. cron \in [CronRun -> CronRecord]
  BY DEF Init, CronRecord
<1>5. /\ req \in [Req -> ReqRecord] /\ adm \in AdmRecord /\ level \in LevelRecord
  BY DEF Init, IdleReq, ReqRecord, IdleAdm, AdmRecord, IdleLevel, LevelRecord
<1>6. month \in Month /\ lifted \subseteq Payment /\ begun \in 0..MaxBegun
      /\ lock \in CronRun \cup {Absent}
  BY DEF Init, Month
<1> QED BY <1>1, <1>2, <1>3, <1>4, <1>5, <1>6 DEF Typed, TypeOK

LEMMA TypeStep == Typed /\ [Next]_vars => Typed'
<1> SUFFICES ASSUME Typed, [Next]_vars PROVE Typed' OBVIOUS
<1> USE DEF Typed
<1>t. /\ coupon \in CouponRecord /\ hist \in [Slot -> RowRecord] /\ month \in Month
      /\ job \in JobRecord /\ JobCounts /\ req \in [Req -> ReqRecord]
      /\ adm \in AdmRecord /\ level \in LevelRecord /\ lifted \subseteq Payment
      /\ cron \in [CronRun -> CronRecord] /\ begun \in 0..MaxBegun
      /\ lock \in CronRun \cup {Absent}
  BY DEF TypeOK
<1>m. month \in Date /\ month + 1 \in Date /\ month + 1 \in 0..(MaxMonth + 1)
  BY <1>t, WalletAssumption DEF Month, Date
<1>b. Begin => begun' \in 0..MaxBegun BY <1>t, WalletAssumption DEF Begin
<1>c. There => coupon.kind \in Kind BY <1>t DEF There, CouponRecord
<1>i. IdleReq \in ReqRecord /\ IdleAdm \in AdmRecord /\ IdleLevel \in LevelRecord
  BY DEF IdleReq, ReqRecord, IdleAdm, AdmRecord, IdleLevel, LevelRecord
<1>r. \A st \in Status : \A row \in RowRecord : [row EXCEPT !.st = st] \in RowRecord
  BY DEF RowRecord, Status
<1>1. ASSUME NEW kind \in Kind, Create(kind) PROVE Typed'
  <2>1. coupon' \in CouponRecord BY <1>1, <1>t, <1>m DEF Create, CouponRecord, Date
  <2>3. coupon'.kind # Absent BY <1>1, <1>t, WalletAssumption DEF Create, CouponRecord
  <2>4. CASE job' = job
    BY <1>1, <1>t, <2>1, <2>3, <2>4 DEF Create, TypeOK, JobCounts
  <2>5. ASSUME NEW d \in Date, NEW e \in Date,
               job' = [NoJob EXCEPT !.pc = "queued", !.from = d, !.until = e]
        PROVE  Typed'
    <3>0. job' = [pc |-> "queued", left |-> 3, from |-> d, until |-> e]
      BY <2>5 DEF NoJob, Attempts
    <3>1. job' \in JobRecord /\ job'.left = 3 BY <3>0 DEF JobRecord, Attempts
    <3>2. JobCounts' BY <2>3, <3>1 DEF JobCounts, Attempts
    <3> QED BY <1>1, <1>t, <2>1, <3>1, <3>2 DEF Create, TypeOK
  <2>6. Absent \in Date BY DEF Date
  <2>7. \/ job' = job
        \/ job' = [NoJob EXCEPT !.pc = "queued",
                       !.from = IF kind.dated THEN month ELSE Absent,
                       !.until = IF kind.dated THEN month + 1 ELSE Absent]
    BY <1>1 DEF Create
  <2>8. PICK d \in Date, e \in Date : /\ d = IF kind.dated THEN month ELSE Absent
                                      /\ e = IF kind.dated THEN month + 1 ELSE Absent
    BY <1>m, <2>6
  <2> QED BY <2>4, <2>5, <2>7, <2>8
<1>2. CASE JobRead
  <2>1. job' \in JobRecord /\ JobCounts'
    BY <1>2, <1>t, VerdictType, JobFailedType DEF JobRead, JobRecord, JobCounts, Attempts
  <2> QED BY <1>2, <1>t, <2>1 DEF JobRead, TypeOK
<1>3. CASE JobWrite
  <2>1. hist' \in [Slot -> RowRecord]
    BY <1>3, <1>t, WithType, IssuedType DEF JobWrite, JobRecord, Source
  <2>2. job' \in JobRecord /\ JobCounts' BY <1>3, <1>t DEF JobWrite, JobRecord, JobCounts
  <2> QED BY <1>3, <1>t, <2>1, <2>2 DEF JobWrite, TypeOK
<1>4. CASE JobFails
  BY <1>4, <1>t, JobFailedType DEF JobFails, TypeOK, JobCounts
<1>5. ASSUME NEW want \in BOOLEAN \cup {Absent}, UpdateRead(want) PROVE Typed'
  <2>1. adm' \in AdmRecord BY <1>5, <1>t, <1>c DEF UpdateRead, AdmRecord, CouponRecord
  <2> QED BY <1>5, <1>t, <1>b, <2>1 DEF UpdateRead, TypeOK, JobCounts
<1>6. CASE UpdateGrant
  <2>1. adm' \in AdmRecord BY <1>6, <1>t, <1>i, VerdictType DEF UpdateGrant, AdmRecord
  <2> QED BY <1>6, <1>t, <2>1 DEF UpdateGrant, TypeOK, JobCounts
<1>7. CASE UpdateGrantWrite
  <2>1. hist' \in [Slot -> RowRecord]
    BY <1>7, <1>t, WithType, IssuedType DEF UpdateGrantWrite, Source
  <2>2. adm' \in AdmRecord BY <1>7, <1>t DEF UpdateGrantWrite, AdmRecord
  <2> QED BY <1>7, <1>t, <2>1, <2>2 DEF UpdateGrantWrite, TypeOK, JobCounts
<1>8. CASE UpdateRows
  <2>1. hist' \in [Slot -> RowRecord] BY <1>8, <1>t, UpdateRowsType DEF UpdateRows
  <2>2. adm' \in AdmRecord BY <1>8, <1>t DEF UpdateRows, AdmRecord
  <2> QED BY <1>8, <1>t, <2>1, <2>2 DEF UpdateRows, TypeOK, JobCounts
<1>9. CASE UpdateSave
  <2>1. coupon' \in CouponRecord
    BY <1>9, <1>t DEF UpdateSave, CouponRecord, AdmRecord
  <2> QED BY <1>9, <1>t, <1>i, <2>1 DEF UpdateSave, TypeOK, JobCounts
<1>10. CASE UpdateFails BY <1>10, <1>t, <1>i DEF UpdateFails, TypeOK, JobCounts
<1>11. CASE Remove
  <2>1. coupon' \in CouponRecord BY <1>11, <1>t DEF Remove, CouponRecord
  <2> QED BY <1>11, <1>t, <2>1 DEF Remove, TypeOK, JobCounts
<1>12. ASSUME NEW r \in Req, NEW users \in SUBSET User \ {{}}, IssueRead(r, users)
       PROVE Typed'
  <2>1. req' \in [Req -> ReqRecord]
    BY <1>12, <1>t DEF IssueRead, IdleReq, ReqRecord
  <2> QED BY <1>12, <1>t, <1>b, <2>1 DEF IssueRead, TypeOK, JobCounts
<1>13. ASSUME NEW r \in Req, NEW s \in Slot, UseRead(r, s) \/ CancelRead(r, s) PROVE Typed'
  <2>1. CASE UseRead(r, s)
    BY <1>13, <1>t, <1>b, <2>1 DEF UseRead, IdleReq, ReqRecord, TypeOK, JobCounts
  <2>2. CASE CancelRead(r, s)
    BY <1>13, <1>t, <1>b, <2>2 DEF CancelRead, IdleReq, ReqRecord, TypeOK, JobCounts
  <2> QED BY <1>13, <2>1, <2>2
<1>14. ASSUME NEW r \in Req, NEW u \in User, ConfirmRead(r, u) PROVE Typed'
  <2>1. PICK s \in Slot \cup {Absent} :
          req' = [req EXCEPT ![r] =
                   [IdleReq EXCEPT !.pc = "confirmWrite", !.users = {u}, !.slot = s,
                       !.big = s # Absent /\ hist[s].qty > 1]]
    BY <1>14 DEF ConfirmRead
  <2>2. PICK big \in BOOLEAN : big = (s # Absent /\ hist[s].qty > 1) OBVIOUS
  <2>3. req' = [req EXCEPT ![r] = [IdleReq EXCEPT !.pc = "confirmWrite", !.users = {u},
                                      !.slot = s, !.big = big]]
    BY <2>1, <2>2
  <2>4. [IdleReq EXCEPT !.pc = "confirmWrite", !.users = {u}, !.slot = s, !.big = big]
          \in ReqRecord
    BY DEF IdleReq, ReqRecord
  <2>5. req' \in [Req -> ReqRecord] BY <1>t, <2>3, <2>4
  <2> QED BY <1>14, <1>t, <1>b, <2>5 DEF ConfirmRead, TypeOK, JobCounts
<1>15. ASSUME NEW r \in Req, IssueWrite(r) PROVE Typed'
  <2>1. hist' \in [Slot -> RowRecord]
    BY <1>15, <1>t, WithType, IssuedType DEF IssueWrite, Source
  <2> QED BY <1>15, <1>t, <1>i, <2>1 DEF IssueWrite, TypeOK, JobCounts
<1>16. ASSUME NEW r \in Req, UseWrite(r) \/ CancelWrite(r) PROVE Typed'
  <2>1. hist' \in [Slot -> RowRecord]
    BY <1>16, <1>t, <1>r DEF UseWrite, CancelWrite, Mark, Status
  <2>2. req' \in [Req -> ReqRecord] BY <1>16, <1>t, <1>i DEF UseWrite, CancelWrite, Mark
  <2> QED BY <1>16, <1>t, <2>1, <2>2 DEF UseWrite, CancelWrite, Mark, TypeOK, JobCounts
<1>17. ASSUME NEW r \in Req, ConfirmWrite(r) PROVE Typed'
  <2>1. With(req[r].users, UsedRow) \in [Slot -> RowRecord]
    BY <1>t, WithType, IssuedType
  <2>2. \A row \in RowRecord : [row EXCEPT !.qty = @ - 1] \in RowRecord
    BY DEF RowRecord
  <2>3. [hist EXCEPT ![req[r].slot].st = "USED"] \in [Slot -> RowRecord]
    BY <1>t, <1>r DEF Status
  <2>4. [With(req[r].users, UsedRow) EXCEPT ![req[r].slot].qty = @ - 1] \in [Slot -> RowRecord]
    BY <2>1, <2>2
  <2>5. hist' \in [Slot -> RowRecord]
    BY <1>17, <2>1, <2>3, <2>4 DEF ConfirmWrite
  <2>6. req' \in [Req -> ReqRecord] BY <1>17, <1>t, <1>i DEF ConfirmWrite
  <2> QED BY <1>17, <1>t, <2>5, <2>6 DEF ConfirmWrite, TypeOK, JobCounts
<1>18. ASSUME NEW r \in Req, RequestFails(r) PROVE Typed'
  BY <1>18, <1>t, <1>i DEF RequestFails, TypeOK, JobCounts
<1>19. ASSUME NEW p \in Payment, LevelRead(p) PROVE Typed'
  <2>1. level' \in LevelRecord BY <1>19 DEF LevelRead, LevelRecord
  <2> QED BY <1>19, <1>t, <2>1 DEF LevelRead, TypeOK, JobCounts
<1>20. ASSUME NEW p \in Payment, Withdraw(p) PROVE Typed'
  <2>1. \A row \in RowRecord : [row EXCEPT !.st = "DELETED"] \in RowRecord
    BY DEF RowRecord
  <2>2. hist' \in [Slot -> RowRecord] BY <1>20, <1>t, <2>1 DEF Withdraw
  <2> QED BY <1>20, <1>t, <2>2 DEF Withdraw, TypeOK, JobCounts
<1>21. CASE LevelWrite
  <2>1. Dated(Issued("level"), month, month + 1) \in RowRecord
    BY <1>m, IssuedType DEF Source
  <2>2. [Dated(Issued("level"), month, month + 1) EXCEPT !.pay = level.pay] \in RowRecord
    BY <2>1, <1>t DEF RowRecord, LevelRecord
  <2>3. hist' \in [Slot -> RowRecord] BY <1>21, <1>t, <2>2, WithType DEF LevelWrite
  <2> QED BY <1>21, <1>t, <1>i, <2>3 DEF LevelWrite, TypeOK, JobCounts
<1>22. CASE LevelFails BY <1>22, <1>t, <1>i DEF LevelFails, TypeOK, JobCounts
<1>23. ASSUME NEW c \in CronRun, CronRead(c) PROVE Typed'
  <2>1. PICK seen \in RowsFound :
          cron' = [cron EXCEPT ![c].pc = "write", ![c].seen = seen]
    BY <1>23 DEF CronRead
  <2>2. seen \in SUBSET Slot BY DEF RowsFound
  <2>3. cron' \in [CronRun -> CronRecord] BY <1>t, <2>1, <2>2 DEF CronRecord
  <2> QED BY <1>23, <1>t, <2>3 DEF CronRead, TypeOK, JobCounts
<1>24. ASSUME NEW c \in CronRun, CronWrite(c) PROVE Typed'
  <2>1. CronIdle(c) \in [CronRun -> CronRecord]
    BY <1>t, <1>m DEF CronIdle, CronRecord
  <2>2. Dated(Issued("cron"), month, month) \in RowRecord
    BY <1>m, IssuedType DEF Source
  <2>3. \A row \in RowRecord : [row EXCEPT !.qty = @ + 1] \in RowRecord
    BY DEF RowRecord
  <2> DEFINE new == {u \in Targeted : \A s \in cron[c].seen : s[1] # u}
             added == With(new, Dated(Issued("cron"), month, month))
  <2>4. added \in [Slot -> RowRecord] BY <1>t, <2>2, WithType
  <2>5. hist' = [s \in Slot |-> IF s \in cron[c].seen /\ hist[s].st \in Status
                                THEN [hist[s] EXCEPT !.qty = @ + 1] ELSE added[s]]
    BY <1>24 DEF CronWrite
  <2> HIDE DEF added
  <2>6. hist' \in [Slot -> RowRecord] BY <1>t, <2>3, <2>4, <2>5
  <2>7. coupon' \in CouponRecord BY <1>24, <1>t, <1>m DEF CronWrite, CouponRecord
  <2>8. coupon'.kind = coupon.kind BY <1>24, <1>t DEF CronWrite, CouponRecord
  <2> QED BY <1>24, <1>t, <2>1, <2>6, <2>7, <2>8 DEF CronWrite, TypeOK, JobCounts
<1>25. ASSUME NEW c \in CronRun, CronFails(c) PROVE Typed'
  <2>1. CronIdle(c) \in [CronRun -> CronRecord]
    BY <1>t, <1>m DEF CronIdle, CronRecord
  <2> QED BY <1>25, <1>t, <2>1 DEF CronFails, TypeOK, JobCounts
<1>26. CASE Tick
  <2>1. month' \in Month BY <1>26, <1>t, WalletAssumption DEF Tick, Month
  <2> QED BY <1>26, <1>t, <2>1 DEF Tick, TypeOK, JobCounts
<1>27. CASE UNCHANGED vars BY <1>27 DEF vars, TypeOK, JobCounts
<1> QED BY <1>1, <1>2, <1>3, <1>4, <1>5, <1>6, <1>7, <1>8, <1>9, <1>10, <1>11, <1>12,
           <1>13, <1>14, <1>15, <1>16, <1>17, <1>18, <1>19, <1>20, <1>21, <1>22,
           <1>23, <1>24, <1>25, <1>26, <1>27 DEF Next

\* Shape of the state, in every reachable state.
THEOREM TypeCorrect == Spec => []TypeOK
<1>1. Spec => []Typed BY TypeInit, TypeStep, PTL DEF Spec
<1>2. Typed => TypeOK BY DEF Typed
<1> QED BY <1>1, <1>2, PTL
-----------------------------------------------------------------------------
(* What a step does to a row *)

\* A row that stays: it keeps its source, is not undeleted, comes back only
\* woken, and not from USED or CANCELLED.
RowKept(a, b) ==
    /\ b.src = a.src
    /\ b.st \in Status => a.st \in Status
    /\ b.st = "ISSUED" /\ ~b.woken => a.st = "ISSUED" /\ ~a.woken
    /\ a.st \in {"USED", "CANCELLED"} => b.st \notin {"ISSUED", "EXPIRED"}

RowsKept == \A s \in Slot : RowKept(hist[s], hist'[s])

RowAdded(s, users, row) == s[1] \in users /\ First(s, "FREE") /\ hist'[s] = row

RowsAdded(users, row) ==
    \A s \in Slot : RowKept(hist[s], hist'[s]) \/ RowAdded(s, users, row)

LEMMA WithAdds ==
    ASSUME NEW users, NEW row, hist' = With(users, row)
    PROVE  RowsAdded(users, row)
<1> SUFFICES ASSUME NEW s \in Slot
             PROVE  RowKept(hist[s], hist'[s]) \/ RowAdded(s, users, row)
  BY DEF RowsAdded
<1>1. hist'[s] = IF s[1] \in users /\ First(s, "FREE") THEN row ELSE hist[s] BY DEF With
<1> QED BY <1>1 DEF RowKept, RowAdded

\* A customer has one first free slot.
LEMMA FirstUnique ==
    ASSUME NEW u \in User, NEW i \in 1..MaxRows, NEW j \in 1..MaxRows,
           First(<<u, i>>, "FREE"), First(<<u, j>>, "FREE")
    PROVE  i = j
<1>1. i \in Int /\ j \in Int /\ i >= 1 /\ j >= 1 BY WalletAssumption
<1>2. \A k \in 1..(j - 1) : hist[<<u, k>>].st # "FREE" BY DEF First
<1>3. \A k \in 1..(i - 1) : hist[<<u, k>>].st # "FREE" BY DEF First
<1>4. hist[<<u, i>>].st = "FREE" /\ hist[<<u, j>>].st = "FREE" BY DEF First
<1>5. ~(i < j) BY <1>1, <1>2, <1>4
<1>6. ~(j < i) BY <1>1, <1>3, <1>4
<1> QED BY <1>1, <1>5, <1>6

\* Rows that are kept do not enter the sets the properties are about.
LEMMA KeptShrinks ==
    ASSUME RowsKept, NEW u \in User
    PROVE  /\ \A src \in Source : RowsFrom(u, src)' \subseteq RowsFrom(u, src)
           /\ MonthlyRows(u)' \subseteq MonthlyRows(u)
           /\ BenefitRows(u)' \subseteq BenefitRows(u)
<1>1. \A i \in 1..MaxRows : <<u, i>> \in Slot BY DEF Slot
<1>2. \A i \in 1..MaxRows : RowKept(hist[<<u, i>>], hist'[<<u, i>>]) BY <1>1 DEF RowsKept
<1>3. \A src : RowsFrom(u, src)' \subseteq RowsFrom(u, src)
  BY <1>2 DEF RowsFrom, RowKept
<1>4. MonthlyRows(u)' \subseteq MonthlyRows(u)
  BY <1>2 DEF MonthlyRows, RowsFrom, Holds, RowKept
<1>5. BenefitRows(u)' \subseteq BenefitRows(u)
  BY <1>2 DEF BenefitRows, RowsFrom, Holds, RowKept
<1> QED BY <1>3, <1>4, <1>5

\* Of the rows added only those of the right source enter, one per customer.
LEMMA AddedGrows ==
    ASSUME NEW users, NEW row, RowsAdded(users, row), NEW u \in User
    PROVE  /\ \A src \in Source : row.src # src => RowsFrom(u, src)' \subseteq RowsFrom(u, src)
           /\ row.src # "cron" \/ u \notin users => MonthlyRows(u)' \subseteq MonthlyRows(u)
           /\ row.src # "level" \/ u \notin users => BenefitRows(u)' \subseteq BenefitRows(u)
           /\ RowsFrom(u, row.src) = {} => AtMostOne(RowsFrom(u, row.src)')
           /\ MonthlyRows(u) = {} => AtMostOne(MonthlyRows(u)')
           /\ BenefitRows(u) = {} => AtMostOne(BenefitRows(u)')
<1>1. \A i \in 1..MaxRows : <<u, i>> \in Slot /\ <<u, i>>[1] = u BY DEF Slot
<1>2. \A i \in 1..MaxRows : \/ RowKept(hist[<<u, i>>], hist'[<<u, i>>])
                            \/ /\ u \in users /\ First(<<u, i>>, "FREE")
                               /\ hist'[<<u, i>>] = row
  BY <1>1 DEF RowsAdded, RowAdded
<1>3. \A src \in Source : row.src # src => RowsFrom(u, src)' \subseteq RowsFrom(u, src)
  BY <1>2 DEF RowsFrom, RowKept
<1>4. row.src # "cron" \/ u \notin users => MonthlyRows(u)' \subseteq MonthlyRows(u)
  BY <1>2 DEF MonthlyRows, RowsFrom, Holds, RowKept
<1>5. row.src # "level" \/ u \notin users => BenefitRows(u)' \subseteq BenefitRows(u)
  BY <1>2 DEF BenefitRows, RowsFrom, Holds, RowKept
<1>6. RowsFrom(u, row.src) = {} =>
         \A i \in RowsFrom(u, row.src)' : i \in 1..MaxRows /\ First(<<u, i>>, "FREE")
  BY <1>2 DEF RowsFrom, RowKept
<1>7. MonthlyRows(u) = {} =>
         \A i \in MonthlyRows(u)' : i \in 1..MaxRows /\ First(<<u, i>>, "FREE")
  BY <1>2 DEF MonthlyRows, RowsFrom, Holds, RowKept
<1>8. BenefitRows(u) = {} =>
         \A i \in BenefitRows(u)' : i \in 1..MaxRows /\ First(<<u, i>>, "FREE")
  BY <1>2 DEF BenefitRows, RowsFrom, Holds, RowKept
<1>9. RowsFrom(u, row.src) = {} => AtMostOne(RowsFrom(u, row.src)')
  BY <1>6, FirstUnique DEF AtMostOne
<1>10. MonthlyRows(u) = {} => AtMostOne(MonthlyRows(u)')
  BY <1>7, FirstUnique DEF AtMostOne
<1>11. BenefitRows(u) = {} => AtMostOne(BenefitRows(u)')
  BY <1>8, FirstUnique DEF AtMostOne
<1> QED BY <1>3, <1>4, <1>5, <1>9, <1>10, <1>11

LEMMA SubsetAtMostOne ==
    ASSUME NEW S, NEW T, S \subseteq T, AtMostOne(T) PROVE AtMostOne(S)
BY DEF AtMostOne
LEMMA UpdateRowsKeeps ==
    ASSUME hist \in [Slot -> RowRecord], UpdateRows
    PROVE  RowsKept
<1> SUFFICES ASSUME NEW s \in Slot PROVE RowKept(hist[s], hist'[s]) BY DEF RowsKept
<1>1. hist[s] \in RowRecord OBVIOUS
<1>2. CASE hist' = Expired BY <1>1, <1>2 DEF Expired, RowKept, RowRecord, Status
<1>3. CASE hist' = Reactivated
  BY <1>1, <1>3 DEF Reactivated, Revivable, RowKept, RowRecord, Status
<1>4. CASE hist' = hist BY <1>4 DEF RowKept
<1> QED BY <1>2, <1>3, <1>4 DEF UpdateRows

LEMMA MarkKeeps ==
    ASSUME hist \in [Slot -> RowRecord], NEW r \in Req, UseWrite(r) \/ CancelWrite(r)
    PROVE  RowsKept
<1> SUFFICES ASSUME NEW s \in Slot PROVE RowKept(hist[s], hist'[s]) BY DEF RowsKept
<1>1. hist[s] \in RowRecord OBVIOUS
<1>2. hist[req[r].slot].st \in Status BY DEF UseWrite, CancelWrite, Mark
<1>3. PICK st \in {"USED", "CANCELLED"} : hist' = [hist EXCEPT ![req[r].slot].st = st]
  BY DEF UseWrite, CancelWrite, Mark
<1>4. hist'[s] = hist[s] \/ (s = req[r].slot /\ hist'[s] = [hist[s] EXCEPT !.st = st])
  BY <1>3
<1> QED BY <1>1, <1>2, <1>4 DEF RowKept, RowRecord, Status

LEMMA ConfirmAdds ==
    ASSUME hist \in [Slot -> RowRecord], NEW r \in Req, ConfirmWrite(r)
    PROVE  RowsAdded(req[r].users, UsedRow)
<1> DEFINE t == req[r].slot
           W == With(req[r].users, UsedRow)
<1> SUFFICES ASSUME NEW s \in Slot
             PROVE  RowKept(hist[s], hist'[s]) \/ RowAdded(s, req[r].users, UsedRow)
  BY DEF RowsAdded
<1>1. hist[s] \in RowRecord OBVIOUS
<1>2. W[s] = IF s[1] \in req[r].users /\ First(s, "FREE") THEN UsedRow ELSE hist[s]
  BY DEF With
<1>3. CASE hist' = W BY <1>2, <1>3 DEF RowKept, RowAdded
<1>4. CASE hist' = [hist EXCEPT ![t].st = "USED"] /\ t # Absent
  <2>1. hist[t].st \in Status BY <1>4 DEF ConfirmWrite
  <2>2. hist'[s] = hist[s] \/ (s = t /\ hist'[s] = [hist[s] EXCEPT !.st = "USED"])
    BY <1>4
  <2> QED BY <1>1, <2>1, <2>2 DEF RowKept, RowRecord, Status
<1>5. CASE hist' = [W EXCEPT ![t].qty = @ - 1] /\ t # Absent
  <2>1. hist[t].st # "FREE" BY <1>5 DEF ConfirmWrite, Status
  <2>2. W \in [Slot -> RowRecord] BY WithType, IssuedType
  <2>3. CASE s = t
    <3>1. ~First(s, "FREE") BY <2>1, <2>3 DEF First
    <3>2. W[s] = hist[s] BY <1>2, <3>1
    <3>3. hist'[s] = [hist[s] EXCEPT !.qty = @ - 1] BY <1>5, <2>2, <2>3, <3>2
    <3> QED BY <1>1, <3>3 DEF RowKept, RowRecord
  <2>4. CASE s # t
    <3>1. hist'[s] = W[s] BY <1>5, <2>2, <2>4
    <3> QED BY <1>2, <3>1 DEF RowKept, RowAdded
  <2> QED BY <2>3, <2>4
<1> QED BY <1>3, <1>4, <1>5 DEF ConfirmWrite

LEMMA WithdrawKeeps ==
    ASSUME hist \in [Slot -> RowRecord], NEW p \in Payment, Withdraw(p)
    PROVE  RowsKept
<1> SUFFICES ASSUME NEW s \in Slot PROVE RowKept(hist[s], hist'[s]) BY DEF RowsKept
<1>1. hist[s] \in RowRecord OBVIOUS
<1>2. hist'[s] = hist[s] \/ hist'[s] = [hist[s] EXCEPT !.st = "DELETED"]
  BY DEF Withdraw
<1> QED BY <1>1, <1>2 DEF RowKept, RowRecord, Status

LEMMA CronAdds ==
    ASSUME hist \in [Slot -> RowRecord], NEW c \in CronRun, CronWrite(c)
    PROVE  RowsAdded({u \in Targeted : \A s \in cron[c].seen : s[1] # u},
                     Dated(Issued("cron"), month, month))
<1> DEFINE new == {u \in Targeted : \A s \in cron[c].seen : s[1] # u}
           row == Dated(Issued("cron"), month, month)
           W == With(new, row)
<1>1. hist' = [s \in Slot |-> IF s \in cron[c].seen /\ hist[s].st \in Status
                              THEN [hist[s] EXCEPT !.qty = @ + 1] ELSE W[s]]
  BY DEF CronWrite
<1>3. RowsAdded(new, row)
  <2> SUFFICES ASSUME NEW s \in Slot
               PROVE  RowKept(hist[s], hist'[s]) \/ RowAdded(s, new, row)
    BY DEF RowsAdded
  <2>1. hist[s] \in RowRecord OBVIOUS
  <2>2. W[s] = IF s[1] \in new /\ First(s, "FREE") THEN row ELSE hist[s] BY DEF With
  <2>3. CASE hist'[s] = W[s] BY <2>2, <2>3 DEF RowKept, RowAdded
  <2>4. CASE hist'[s] = [hist[s] EXCEPT !.qty = @ + 1]
    BY <2>1, <2>4 DEF RowKept, RowRecord
  <2> HIDE DEF W
  <2> QED BY <1>1, <2>3, <2>4
<1> QED BY <1>3

\* No step does anything else to the rows.
LEMMA StepAdds ==
    ASSUME Typed, [Next]_vars
    PROVE  \E users, row : RowsAdded(users, row)
<1>t. hist \in [Slot -> RowRecord] BY DEF Typed, TypeOK
<1>k. RowsKept => \E users, row : RowsAdded(users, row) BY DEF RowsKept, RowsAdded
<1>s. hist' = hist => RowsKept BY DEF RowsKept, RowKept
<1>w. ASSUME NEW users, NEW row, hist' = With(users, row)
      PROVE  \E us, rw : RowsAdded(us, rw)
  BY <1>w, WithAdds
<1>1. CASE JobWrite BY <1>1, <1>w DEF JobWrite
<1>2. CASE UpdateGrantWrite BY <1>2, <1>w DEF UpdateGrantWrite
<1>3. CASE UpdateRows BY <1>3, <1>t, <1>k, UpdateRowsKeeps
<1>4. ASSUME NEW r \in Req, IssueWrite(r) PROVE \E users, row : RowsAdded(users, row)
  BY <1>4, <1>w DEF IssueWrite
<1>5. ASSUME NEW r \in Req, UseWrite(r) \/ CancelWrite(r)
      PROVE  \E users, row : RowsAdded(users, row)
  BY <1>5, <1>t, <1>k, MarkKeeps
<1>6. ASSUME NEW r \in Req, ConfirmWrite(r) PROVE \E users, row : RowsAdded(users, row)
  BY <1>6, <1>t, ConfirmAdds
<1>7. ASSUME NEW p \in Payment, Withdraw(p) PROVE \E users, row : RowsAdded(users, row)
  BY <1>7, <1>t, <1>k, WithdrawKeeps
<1>8. CASE LevelWrite BY <1>8, <1>w DEF LevelWrite
<1>9. ASSUME NEW c \in CronRun, CronWrite(c) PROVE \E users, row : RowsAdded(users, row)
  BY <1>9, <1>t, CronAdds
<1>10. \/ hist' = hist
       \/ JobWrite \/ UpdateGrantWrite \/ UpdateRows \/ LevelWrite
       \/ \E r \in Req : \/ IssueWrite(r) \/ UseWrite(r) \/ CancelWrite(r)
                          \/ ConfirmWrite(r)
       \/ \E p \in Payment : Withdraw(p)
       \/ \E c \in CronRun : CronWrite(c)
  BY DEF Next, vars, Create, JobRead, JobFails, UpdateRead, UpdateGrant, UpdateSave,
         UpdateFails, Remove, IssueRead, UseRead, CancelRead, ConfirmRead, RequestFails,
         LevelRead, LevelFails, CronRead, CronFails, Tick
<1> QED BY <1>1, <1>2, <1>3, <1>4, <1>5, <1>6, <1>7, <1>8, <1>9, <1>10, <1>k, <1>s

-----------------------------------------------------------------------------
(* The inductive invariant *)

\* Steps under which the sets of rows the invariant is about do not grow.
GradeShrinks == \A u \in User : RowsFrom(u, "grade")' \subseteq RowsFrom(u, "grade")
MonthlyShrinks == \A u \in User : MonthlyRows(u)' \subseteq MonthlyRows(u)
BenefitShrinks == \A u \in User : BenefitRows(u)' \subseteq BenefitRows(u)

LEMMA KeptIsShrinks == RowsKept => GradeShrinks /\ MonthlyShrinks /\ BenefitShrinks
BY KeptShrinks DEF Source, GradeShrinks, MonthlyShrinks, BenefitShrinks

LEMMA AddedIsShrinks ==
    ASSUME NEW users, NEW row, RowsAdded(users, row)
    PROVE  /\ row.src # "grade" => GradeShrinks
           /\ row.src # "cron" => MonthlyShrinks
           /\ row.src # "level" => BenefitShrinks
BY AddedGrows DEF Source, GradeShrinks, MonthlyShrinks, BenefitShrinks

LEMMA GradeSafe ==
    ASSUME WalletInv, GradeShrinks, job'.pc # "done" => job.pc # "done"
    PROVE  GrantedOnce' /\ GradePending'
<1>1. GrantedOnce' BY SubsetAtMostOne DEF WalletInv, GrantedOnce, GradeShrinks
<1>2. GradePending' BY DEF WalletInv, GradePending, GradeShrinks
<1> QED BY <1>1, <1>2

LEMMA LevelSafe ==
    ASSUME WalletInv, BenefitShrinks, level'.pc = "write" => level' = level
    PROVE  SpecialOnce' /\ LevelPending'
<1>0. SpecialOnce' BY SubsetAtMostOne DEF WalletInv, SpecialOnce, BenefitShrinks
<1>1. CASE level'.pc # "write" BY <1>0, <1>1 DEF LevelPending
<1>2. CASE level'.pc = "write"
  <2>1. level' = level BY <1>2
  <2>2. level.pay \in Payment /\ BenefitRows(Payer[level.pay]) = {}
    BY <1>2, <2>1 DEF WalletInv, LevelPending
  <2> DEFINE u == Payer[level.pay]
  <2>3. u \in User BY <2>2, WalletAssumption
  <2>4. BenefitRows(Payer[level.pay])' = {}
    <3>1. \A v \in User : v = u => BenefitRows(v)' = {} BY <2>2 DEF BenefitShrinks
    <3>2. PICK v \in User : v = u BY <2>3
    <3>3. v = Payer[level'.pay] BY <2>1, <3>2
    <3> QED BY <3>1, <3>2, <3>3 DEF BenefitRows, RowsFrom, Holds
  <2> QED BY <1>0, <2>1, <2>2, <2>4 DEF LevelPending
<1> QED BY <1>0, <1>1, <1>2

LEMMA CronSafe ==
    ASSUME WalletInv, MonthlyShrinks, UNCHANGED <<cron, lock>>,
           coupon'.kind = coupon.kind \/ coupon.kind = Absent
    PROVE  CronNoDuplicates' /\ LockHeld' /\ CronPending'
<1>0. CronNoDuplicates'
  BY SubsetAtMostOne DEF WalletInv, CronNoDuplicates, MonthlyShrinks
<1>1. LockHeld' BY DEF WalletInv, LockHeld
<1>2. CASE coupon.kind = Absent
  <2>1. \A c \in CronRun : cron'[c].pc # "write" BY <1>2 DEF WalletInv, CronPending
  <2> QED BY <1>0, <1>1, <2>1 DEF CronPending
<1>3. CASE coupon'.kind = coupon.kind
  <2>1. Targeted' = Targeted BY <1>3 DEF Targeted
  <2>2. cron' = cron OBVIOUS
  <2>3. \A c \in CronRun : cron[c].pc = "write" =>
          /\ coupon.kind # Absent
          /\ \A u \in User \cap Targeted :
               (\A s \in cron[c].seen : s[1] # u) => MonthlyRows(u)' = {}
    BY DEF WalletInv, CronPending, MonthlyShrinks
  <2> QED BY <1>0, <1>1, <1>3, <2>1, <2>2, <2>3 DEF CronPending
<1> QED BY <1>2, <1>3

\* The steps that do nothing else.
LEMMA InvShrinks ==
    ASSUME WalletInv, GradeShrinks, MonthlyShrinks, BenefitShrinks,
           UNCHANGED <<level, cron, lock>>,
           coupon'.kind = coupon.kind \/ coupon.kind = Absent,
           job'.pc # "done" => job.pc # "done"
    PROVE  WalletInv'
BY GradeSafe, LevelSafe, CronSafe DEF WalletInv

LEMMA KeptUnchanged == UNCHANGED hist => RowsKept
BY DEF RowsKept, RowKept

LEMMA InvInit == Init => WalletInv
<1> SUFFICES ASSUME Init PROVE WalletInv OBVIOUS
<1>1. \A u \in User, i \in 1..MaxRows : hist[<<u, i>>] = FreeRow BY DEF Init, Slot
<1>2. FreeRow.src = Absent /\ FreeRow.st = "FREE" BY DEF FreeRow, NewRow
<1>3. \A u \in User : Holds(u, Status) = {} /\ Holds(u, {"ISSUED"}) = {}
  BY <1>1, <1>2 DEF Holds, Status
<1>4. \A u \in User : MonthlyRows(u) = {} /\ BenefitRows(u) = {}
  BY <1>3 DEF MonthlyRows, BenefitRows
<1>5. \A u \in User : RowsFrom(u, "grade") = {}
  BY <1>1, <1>2, WalletAssumption DEF RowsFrom, Source
<1>6. level.pc = "idle" /\ \A c \in CronRun : cron[c].pc = "idle" /\ lock # c
  BY WalletAssumption DEF Init, IdleLevel
<1> QED BY <1>4, <1>5, <1>6 DEF WalletInv, GrantedOnce, CronNoDuplicates, SpecialOnce,
           GradePending, LevelPending, LockHeld, CronPending, AtMostOne

\* Every step preserves it.  One case per action; most of them keep the rows or
\* add rows of a source the invariant does not speak of.
LEMMA InvStep == Typed /\ WalletInv /\ [Next]_vars => WalletInv'
<1> SUFFICES ASSUME Typed, WalletInv, [Next]_vars PROVE WalletInv' OBVIOUS
<1>t. /\ coupon \in CouponRecord /\ hist \in [Slot -> RowRecord] /\ job \in JobRecord
      /\ req \in [Req -> ReqRecord] /\ level \in LevelRecord
      /\ cron \in [CronRun -> CronRecord] /\ JobCounts
  BY DEF Typed, TypeOK
<1>u. UNCHANGED hist => GradeShrinks /\ MonthlyShrinks /\ BenefitShrinks
  BY KeptUnchanged, KeptIsShrinks
<1>1. ASSUME NEW kind \in Kind, Create(kind) PROVE WalletInv'
  BY <1>1, <1>t, <1>u, InvShrinks DEF Create, JobCounts, NoJob
<1>2. CASE JobRead
  BY <1>2, <1>t, <1>u, InvShrinks DEF JobRead
<1>3. CASE JobWrite
  <2> DEFINE row == Dated(Issued("grade"), job.from, job.until)
  <2>1. RowsAdded(Targeted, row) BY <1>3, WithAdds DEF JobWrite
  <2>2. row.src = "grade" BY DEF Dated, Issued, NewRow
  <2>3. \A u \in User : AtMostOne(RowsFrom(u, "grade")')
    BY <1>3, <2>1, <2>2, AddedGrows DEF JobWrite, WalletInv, GradePending
  <2>4. GrantedOnce' BY <2>3 DEF GrantedOnce
  <2>5. GradePending' BY <1>3, <1>t DEF JobWrite, JobRecord, GradePending
  <2>6. MonthlyShrinks /\ BenefitShrinks BY <2>1, <2>2, AddedIsShrinks
  <2> QED BY <1>3, <2>4, <2>5, <2>6, LevelSafe, CronSafe DEF JobWrite, WalletInv
<1>4. CASE JobFails
  BY <1>4, <1>t, <1>u, InvShrinks DEF JobFails
<1>5. ASSUME NEW want \in BOOLEAN \cup {Absent}, UpdateRead(want) PROVE WalletInv'
  BY <1>5, <1>u, InvShrinks DEF UpdateRead
<1>6. CASE UpdateGrant BY <1>6, <1>u, InvShrinks DEF UpdateGrant
<1>7. CASE UpdateGrantWrite
  <2>1. RowsAdded(Targeted, Issued("update")) BY <1>7, WithAdds DEF UpdateGrantWrite
  <2>2. Issued("update").src = "update" BY DEF Issued, NewRow
  <2> QED BY <1>7, <2>1, <2>2, AddedIsShrinks, InvShrinks DEF UpdateGrantWrite
<1>8. CASE UpdateRows
  <2>1. RowsKept BY <1>8, <1>t, UpdateRowsKeeps
  <2> QED BY <1>8, <2>1, KeptIsShrinks, InvShrinks DEF UpdateRows
<1>9. CASE UpdateSave
  <2>1. coupon'.kind = coupon.kind BY <1>9, <1>t DEF UpdateSave, CouponRecord
  <2> QED BY <1>9, <1>u, <2>1, InvShrinks DEF UpdateSave
<1>10. CASE UpdateFails BY <1>10, <1>u, InvShrinks DEF UpdateFails
<1>11. CASE Remove
  <2>1. coupon'.kind = coupon.kind BY <1>11, <1>t DEF Remove, CouponRecord
  <2> QED BY <1>11, <1>u, <2>1, InvShrinks DEF Remove
<1>12. ASSUME NEW r \in Req, NEW users \in SUBSET User \ {{}}, IssueRead(r, users)
       PROVE  WalletInv'
  BY <1>12, <1>u, InvShrinks DEF IssueRead
<1>13. ASSUME NEW r \in Req, NEW s \in Slot, UseRead(r, s) \/ CancelRead(r, s)
       PROVE  WalletInv'
  BY <1>13, <1>u, InvShrinks DEF UseRead, CancelRead
<1>14. ASSUME NEW r \in Req, NEW u \in User, ConfirmRead(r, u) PROVE WalletInv'
  BY <1>14, <1>u, InvShrinks DEF ConfirmRead
<1>15. ASSUME NEW r \in Req, IssueWrite(r) PROVE WalletInv'
  <2>1. RowsAdded(req[r].users, Issued("admin")) BY <1>15, WithAdds DEF IssueWrite
  <2>2. Issued("admin").src = "admin" BY DEF Issued, NewRow
  <2> QED BY <1>15, <2>1, <2>2, AddedIsShrinks, InvShrinks DEF IssueWrite
<1>16. ASSUME NEW r \in Req, UseWrite(r) \/ CancelWrite(r) PROVE WalletInv'
  <2>1. RowsKept BY <1>16, <1>t, MarkKeeps
  <2> QED BY <1>16, <2>1, KeptIsShrinks, InvShrinks DEF UseWrite, CancelWrite, Mark
<1>17. ASSUME NEW r \in Req, ConfirmWrite(r) PROVE WalletInv'
  <2>1. RowsAdded(req[r].users, UsedRow) BY <1>17, <1>t, ConfirmAdds
  <2>2. UsedRow.src = "order" BY DEF UsedRow, NewRow
  <2> QED BY <1>17, <2>1, <2>2, AddedIsShrinks, InvShrinks DEF ConfirmWrite
<1>18. ASSUME NEW r \in Req, RequestFails(r) PROVE WalletInv'
  BY <1>18, <1>u, InvShrinks DEF RequestFails
<1>19. ASSUME NEW p \in Payment, LevelRead(p) PROVE WalletInv'
  <2>0. hist' = hist BY <1>19 DEF LevelRead
  <2>1. \A u \in User : BenefitRows(u)' \subseteq BenefitRows(u)
    BY <1>u, <2>0 DEF BenefitShrinks
  <2>2. SpecialOnce' BY <2>1, SubsetAtMostOne DEF WalletInv, SpecialOnce
  <2>3. Payer[p] \in User BY WalletAssumption
  <2>4. BenefitRows(Payer[p]) = {}
    BY <1>19 DEF LevelRead, existsByUserAndCoupon, BenefitRows
  <2>5. \A u \in User : u = Payer[p] => BenefitRows(u)' = {} BY <2>1, <2>4
  <2>6. level'.pay = p BY <1>19 DEF LevelRead
  <2>7. LevelPending'
    BY <2>0, <2>4, <2>6 DEF LevelPending, BenefitRows, RowsFrom, Holds
  <2> QED BY <1>19, <1>u, <2>0, <2>2, <2>7, GradeSafe, CronSafe DEF LevelRead, WalletInv
<1>20. ASSUME NEW p \in Payment, Withdraw(p) PROVE WalletInv'
  <2>1. RowsKept BY <1>20, <1>t, WithdrawKeeps
  <2> QED BY <1>20, <2>1, KeptIsShrinks, InvShrinks DEF Withdraw
<1>21. CASE LevelWrite
  <2> DEFINE u == Payer[level.pay]
             row == [Dated(Issued("level"), month, month + 1) EXCEPT !.pay = level.pay]
  <2>1. RowsAdded({u}, row) BY <1>21, WithAdds DEF LevelWrite
  <2>2. row.src = "level" BY DEF Dated, Issued, NewRow
  <2>3. GradeShrinks /\ MonthlyShrinks BY <2>1, <2>2, AddedIsShrinks
  <2>4. \A v \in User : BenefitRows(v)' \subseteq BenefitRows(v) \/ v = u
    BY <2>1, AddedGrows
  <2>5. BenefitRows(u) = {} BY <1>21 DEF LevelWrite, WalletInv, LevelPending
  <2>6. \A v \in User : AtMostOne(BenefitRows(v)')
    BY <2>1, <2>4, <2>5, AddedGrows, SubsetAtMostOne DEF WalletInv, SpecialOnce
  <2>7. SpecialOnce' BY <2>6 DEF SpecialOnce
  <2>8. LevelPending' BY <1>21 DEF LevelWrite, IdleLevel, LevelPending
  <2> QED BY <1>21, <2>3, <2>7, <2>8, GradeSafe, CronSafe DEF LevelWrite, WalletInv
<1>22. CASE LevelFails
  <2>1. SpecialOnce' /\ LevelPending'
    BY <1>22, <1>u, LevelSafe DEF LevelFails, IdleLevel
  <2> QED BY <1>22, <1>u, <2>1, GradeSafe, CronSafe DEF LevelFails, WalletInv
<1>23. ASSUME NEW c \in CronRun, CronRead(c) PROVE WalletInv'
  <2>0. hist' = hist /\ coupon' = coupon BY <1>23 DEF CronRead
  <2>1. PICK seen \in RowsFound :
          cron' = [cron EXCEPT ![c].pc = "write", ![c].seen = seen]
    BY <1>23 DEF CronRead
  <2>2. CronNoDuplicates'
    BY <1>u, <2>0, SubsetAtMostOne DEF WalletInv, CronNoDuplicates, MonthlyShrinks
  <2>3. lock = Absent /\ lock' = c /\ coupon.kind # Absent
    BY <1>23 DEF CronRead, Monthly, Active, There
  <2>4. \A d \in CronRun : cron[d].pc # "write"
    BY <2>3, WalletAssumption DEF WalletInv, LockHeld
  <2>5. cron'[c].pc = "write" /\ cron'[c].seen = seen BY <1>t, <2>1 DEF CronRecord
  <2>6. \A d \in CronRun : d # c => cron'[d].pc # "write" BY <1>t, <2>1, <2>4
  <2>7. LockHeld' BY <2>3, <2>5, <2>6 DEF LockHeld
  <2>8. \A u \in User \cap Targeted :
          (\A s \in seen : s[1] # u) => MonthlyRows(u)' = {}
    <3> SUFFICES ASSUME NEW u \in User \cap Targeted, \A s \in seen : s[1] # u
                 PROVE  MonthlyRows(u)' = {}
      OBVIOUS
    <3>1. Holds(u, {"ISSUED"}) = {} BY DEF RowsFound
    <3>2. MonthlyRows(u) = {} BY <3>1 DEF MonthlyRows
    <3> QED BY <1>u, <2>0, <3>2 DEF MonthlyShrinks
  <2>9. CronPending'
    <3>1. Targeted' = Targeted /\ coupon'.kind # Absent BY <2>0, <2>3 DEF Targeted
    <3> QED BY <2>5, <2>6, <2>8, <3>1 DEF CronPending
  <2> QED BY <1>23, <1>u, <2>0, <2>2, <2>7, <2>9, GradeSafe, LevelSafe
          DEF CronRead, WalletInv
<1>24. ASSUME NEW c \in CronRun, CronWrite(c) PROVE WalletInv'
  <2> DEFINE new == {u \in Targeted : \A s \in cron[c].seen : s[1] # u}
             row == Dated(Issued("cron"), month, month)
  <2>2. row.src = "cron" BY DEF Dated, Issued, NewRow
  <2>3. RowsAdded(new, row) BY <1>24, <1>t, CronAdds
  <2> HIDE DEF row, new
  <2>4. GradeShrinks /\ BenefitShrinks BY <2>2, <2>3, AddedIsShrinks
  <2>5. \A u \in User : u \in new => MonthlyRows(u) = {}
    BY <1>24 DEF CronWrite, WalletInv, CronPending, new
  <2>6. \A u \in User : AtMostOne(MonthlyRows(u)')
    BY <2>3, <2>5, AddedGrows, SubsetAtMostOne DEF WalletInv, CronNoDuplicates
  <2>7. CronNoDuplicates' BY <2>6 DEF CronNoDuplicates
  <2>8. lock = c BY <1>24 DEF CronWrite, WalletInv, LockHeld
  <2>9. \A d \in CronRun : cron'[d].pc # "write" /\ lock' # d
    BY <1>24, <1>t, <2>8, WalletAssumption DEF CronWrite, CronIdle, WalletInv, LockHeld
  <2>10. LockHeld' /\ CronPending' BY <2>9 DEF LockHeld, CronPending
  <2> QED BY <1>24, <2>4, <2>7, <2>10, GradeSafe, LevelSafe DEF CronWrite, WalletInv
<1>25. ASSUME NEW c \in CronRun, CronFails(c) PROVE WalletInv'
  <2>0. hist' = hist BY <1>25 DEF CronFails
  <2>1. CronNoDuplicates'
    BY <1>u, <2>0, SubsetAtMostOne DEF WalletInv, CronNoDuplicates, MonthlyShrinks
  <2>2. lock = c BY <1>25 DEF CronFails, WalletInv, LockHeld
  <2>3. \A d \in CronRun : cron'[d].pc # "write" /\ lock' # d
    BY <1>25, <1>t, <2>2, WalletAssumption DEF CronFails, CronIdle, WalletInv, LockHeld
  <2>4. LockHeld' /\ CronPending' BY <2>3 DEF LockHeld, CronPending
  <2> QED BY <1>25, <1>u, <2>0, <2>1, <2>4, GradeSafe, LevelSafe DEF CronFails, WalletInv
<1>26. CASE Tick BY <1>26, <1>u, InvShrinks DEF Tick
<1>27. CASE UNCHANGED vars BY <1>27, <1>u, InvShrinks DEF vars
<1> QED BY <1>1, <1>2, <1>3, <1>4, <1>5, <1>6, <1>7, <1>8, <1>9, <1>10, <1>11, <1>12,
           <1>13, <1>14, <1>15, <1>16, <1>17, <1>18, <1>19, <1>20, <1>21, <1>22,
           <1>23, <1>24, <1>25, <1>26, <1>27 DEF Next
-----------------------------------------------------------------------------
(* Theorems *)

THEOREM WalletCorrect == Spec => []WalletInv
<1>1. Init => Typed /\ WalletInv BY TypeInit, InvInit
<1>2. Typed /\ WalletInv /\ [Next]_vars => (Typed /\ WalletInv)' BY TypeStep, InvStep
<1> QED BY <1>1, <1>2, PTL DEF Spec

\* A new coupon is issued once per customer, whatever attempts of its job fail.
THEOREM GrantedOnceHolds == Spec => []GrantedOnce
<1>1. WalletInv => GrantedOnce BY DEF WalletInv
<1> QED BY <1>1, WalletCorrect, PTL

\* Concurrent runs of the monthly job make no duplicate rows.
THEOREM CronNoDuplicatesHolds == Spec => []CronNoDuplicates
<1>1. WalletInv => CronNoDuplicates BY DEF WalletInv
<1> QED BY <1>1, WalletCorrect, PTL

\* The special benefit of the highest level comes once.
THEOREM SpecialOnceHolds == Spec => []SpecialOnce
<1>1. WalletInv => SpecialOnce BY DEF WalletInv
<1> QED BY <1>1, WalletCorrect, PTL

\* A coupon that was used or cancelled does not come back.
THEOREM NeverReissuedHolds == Spec => NeverReissued
<1>1. ASSUME Typed, [Next]_vars
      PROVE  \A s \in Slot : hist[s].st \in {"USED", "CANCELLED"}
                             => hist'[s].st \notin {"ISSUED", "EXPIRED"}
  <2>1. PICK users, row : RowsAdded(users, row) BY <1>1, StepAdds
  <2> QED BY <2>1 DEF RowsAdded, RowAdded, RowKept, First
<1>2. Typed /\ [Next]_vars
        => [\A s \in Slot : hist[s].st \in {"USED", "CANCELLED"}
                            => hist'[s].st \notin {"ISSUED", "EXPIRED"}]_vars
  BY <1>1
<1>3. Spec => []Typed BY TypeInit, TypeStep, PTL DEF Spec
<1> QED BY <1>2, <1>3, PTL DEF Spec, NeverReissued
=============================================================================
