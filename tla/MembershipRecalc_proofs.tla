---------------------- MODULE MembershipRecalc_proofs ----------------------
(* What holds of MembershipRecalc for every value of its constants. *)
EXTENDS MembershipRecalc, TLAPS

-----------------------------------------------------------------------------
(* Helpers *)

LEMMA DeservedType == \A lad, amount : Deserved(lad, amount) \subseteq Tier
BY DEF Deserved, Reached, Rungs

LEMMA ExecutionType ==
    ASSUME NEW pc \in Pc, NEW tries \in 1..Attempts, NEW lad \in Ladder,
           NEW todo \in SUBSET User, NEW amount \in [User -> Int],
           NEW user \in User \cup {Absent}, NEW tier \in Level
    PROVE  Execution(pc, tries, lad, todo, amount, user, tier) \in ExecRecord
BY DEF Execution, ExecRecord

LEMMA StartType ==
    ASSUME NEW pc \in Pc, NEW tries \in 1..Attempts, NEW user \in User \cup {Absent}
    PROVE  Start(pc, tries, user) \in ExecRecord
<1>1. NoLadder \in Ladder /\ NoAmount \in [User -> Int] /\ Absent \in Level
  BY DEF NoLadder, Ladder, NoAmount, Level
<1> QED BY <1>1, ExecutionType DEF Start

LEMMA IdleType == Idle \in ExecRecord
BY StartType DEF Idle, Pc, Attempts

LEMMA ExecutionParts ==
    \A pc, tries, lad, todo, amount, user, tier :
        LET x == Execution(pc, tries, lad, todo, amount, user, tier) IN
        /\ x.pc = pc /\ x.lad = lad /\ x.todo = todo /\ x.amount = amount
        /\ x.user = user /\ x.tier = tier /\ x.tries = tries
BY DEF Execution

LEMMA StartParts ==
    \A pc, tries, user : LET x == Start(pc, tries, user) IN
        x.pc = pc /\ x.todo = {} /\ x.user = user
BY DEF Start, Execution

LEMMA IdleParts == Idle.pc = "idle" /\ Idle.todo = {} /\ Idle.user = Absent
BY StartParts DEF Idle

LEMMA JobParts ==
    ASSUME NEW st \in {"none", "due", "queued", "running"}, NEW tries \in 1..Attempts
    PROVE  Job(st, tries) \in PayJob /\ Job(st, tries).st = st /\ Job(st, tries).tries = tries
BY DEF Job, PayJob

LEMMA NoJobParts == NoJob \in PayJob /\ NoJob.st = "none"
BY JobParts DEF NoJob, Attempts

LEMMA MembershipParts ==
    ASSUME NEW t \in Tier, NEW st \in Status
    PROVE  /\ Membership(t, st) \in Row /\ Membership(t, st).tier = t
           /\ Membership(t, st) # Absent
BY RecalcAssumption DEF Membership, Row

LEMMA RequestType ==
    ASSUME NEW pc \in {"idle", "both", "sync", "upsert", "status"},
           NEW user \in User \cup {Absent}, NEW lvl \in Level,
           NEW st \in Status \cup {Absent}, NEW todo \in SUBSET {"row", "level"}
    PROVE  Request(pc, user, lvl, st, todo) \in AdmRecord
BY DEF Request, AdmRecord

LEMMA RequestParts ==
    \A pc, user, lvl, st, todo : LET a == Request(pc, user, lvl, st, todo) IN
        a.pc = pc /\ a.user = user /\ a.lvl = lvl /\ a.st = st /\ a.todo = todo
BY DEF Request

LEMMA NoAdmParts ==
    NoAdm \in AdmRecord /\ NoAdm.pc = "idle" /\ NoAdm.user = Absent /\ NoAdm.todo = {}
BY DEF NoAdm, AdmRecord, Level

-----------------------------------------------------------------------------
(* Types *)

Shape == TypeOK /\ ExecShape /\ AdmShape

\* One recalculation takes a step.
LEMMA ExecSet ==
    ASSUME exec \in [Exec -> ExecRecord], ExecShape,
           NEW e \in Exec, NEW x \in ExecRecord, ShapeOf(e, x),
           exec' = [exec EXCEPT ![e] = x]
    PROVE  exec' \in [Exec -> ExecRecord] /\ ExecShape'
BY DEF ExecShape

LEMMA IdleShape == ASSUME NEW e \in Exec PROVE ShapeOf(e, Idle)
BY IdleParts DEF ShapeOf, Placing

LEMMA StartShape ==
    ASSUME NEW e \in Exec, e # Payments, NEW tries \in 1..Attempts
    PROVE  /\ Start("tiers", tries, Absent) \in ExecRecord
           /\ ShapeOf(e, Start("tiers", tries, Absent))
BY StartParts, StartType DEF ShapeOf, Placing, Pc

LEMMA StartPaymentsShape ==
    ASSUME NEW tries \in 1..Attempts, NEW u \in User
    PROVE  /\ Start("read", tries, u) \in ExecRecord
           /\ ShapeOf(Payments, Start("read", tries, u))
           /\ Start("coupons", tries, u) \in ExecRecord
           /\ ShapeOf(Payments, Start("coupons", tries, u))
BY StartParts, StartType DEF ShapeOf, Placing, Pc

LEMMA PassedShape ==
    ASSUME NEW e \in Exec, NEW x \in ExecRecord, ShapeOf(e, x), NEW u \in User,
           x.pc \in Placing \/ u \in x.todo
    PROVE  Passed(x, u) \in ExecRecord /\ ShapeOf(e, Passed(x, u))
<1>1. CASE x.todo = {}
  <2>1. e = Payments /\ x.user \in User /\ x.tries \in 1..Attempts
    BY <1>1 DEF ShapeOf, ExecRecord, Placing
  <2> QED BY <1>1, <2>1, StartPaymentsShape DEF Passed
<1>2. CASE x.todo = {u}
  BY <1>2, IdleType, IdleShape DEF Passed
<1>3. CASE x.todo # {} /\ x.todo # {u}
  <2> DEFINE y == Execution("next", x.tries, x.lad, x.todo \ {u}, [x.amount EXCEPT ![u] = 0],
                            Absent, Absent)
  <2>1. e # Payments /\ Passed(x, u) = y
    BY <1>3 DEF ShapeOf, Passed
  <2>2. /\ x.tries \in 1..Attempts /\ x.lad \in Ladder /\ x.todo \ {u} \in SUBSET User
        /\ [x.amount EXCEPT ![u] = 0] \in [User -> Int] /\ Absent \in Level /\ "next" \in Pc
    BY DEF ExecRecord, Level, Pc
  <2>3. y \in ExecRecord
    BY <2>2, ExecutionType
  <2>4. y.pc = "next" /\ y.user = Absent
    BY ExecutionParts
  <2>5. ShapeOf(e, y)
    BY <2>1, <2>4 DEF ShapeOf, Placing
  <2> QED BY <2>1, <2>3, <2>5
<1> QED BY <1>1, <1>2, <1>3

\* From one step of a customer's placing to another.
LEMMA MovesShape ==
    ASSUME exec \in [Exec -> ExecRecord], ExecShape,
           NEW e \in Exec, exec[e].pc \in Placing, NEW pc \in Placing, Moves(e, pc)
    PROVE  exec' \in [Exec -> ExecRecord] /\ ExecShape'
<1> DEFINE x == exec[e]
           y == Execution(pc, x.tries, x.lad, x.todo, x.amount, x.user, x.tier)
<1>1. x \in ExecRecord /\ ShapeOf(e, x)
  BY DEF ExecShape
<1>2. y \in ExecRecord
  BY <1>1, ExecutionType DEF ExecRecord, Pc, Placing
<1>3. y.pc = pc /\ y.todo = x.todo /\ y.user = x.user /\ y.tier = x.tier
  BY ExecutionParts
<1>4. ShapeOf(e, y)
  BY <1>1, <1>3 DEF ShapeOf, Placing
<1> QED BY <1>2, <1>4, ExecSet DEF Moves

LEMMA TypeInit == Init => Shape
<1> SUFFICES ASSUME Init PROVE Shape
  OBVIOUS
<1>1. TypeOK
  BY RecalcAssumption, IdleType, NoAdmParts, NoJobParts
     DEF Init, TypeOK, Ladder, Level, Rungs, NoAmount, Asked
<1>2. ExecShape
  BY IdleShape DEF Init, ExecShape
<1>3. AdmShape
  BY NoAdmParts DEF Init, AdmShape
<1> QED BY <1>1, <1>2, <1>3 DEF Shape

\* Whoever recalculates leaves everything else but a customer's place alone.
LEMMA ExecTypes ==
    ASSUME Shape, Executes,
           exec' \in [Exec -> ExecRecord], ExecShape',
           total' \in [User -> Int], row' \in [User -> Row \cup {Absent}],
           level' \in [User -> Level], faults' \in 0..MaxFaults,
           calm' \subseteq User, settled' \subseteq User
    PROVE  Shape'
BY DEF Shape, TypeOK, AdmShape, Executes

LEMMA FaultType == ASSUME faults \in 0..MaxFaults, Fault \/ UNCHANGED faults
                   PROVE  faults' \in 0..MaxFaults
BY RecalcAssumption DEF Fault

EditsOK == edits \in [Asked -> Nat] /\ \A what \in Asked : edits[what] =< MaxEdits[what]

LEMMA EditType ==
    ASSUME EditsOK,
           AdminWrites \/ AdminAsks("recalculation") \/ UNCHANGED edits
    PROVE  EditsOK'
<1>1. ASSUME NEW what \in Asked, AdminAsks(what) PROVE EditsOK'
  BY <1>1, RecalcAssumption DEF AdminAsks, EditsOK, Asked
<1>2. "edit" \in Asked /\ "recalculation" \in Asked
  BY DEF Asked
<1> QED BY <1>1, <1>2 DEF AdminWrites, EditsOK

\* A job gets one attempt less, or one more of its kind waits.
LEMMA JobsSet ==
    ASSUME jobs \in [1..Attempts -> Nat], NEW k \in 1..Attempts,
           \/ jobs' = jobs \/ jobs' = [jobs EXCEPT ![k] = @ + 1]
           \/ jobs[k] > 0 /\ jobs' = [jobs EXCEPT ![k] = @ - 1]
    PROVE  jobs' \in [1..Attempts -> Nat]
OBVIOUS

LEMMA ReadTotalType == ASSUME Shape, ReadTotal PROVE Shape'
<1> DEFINE x == exec[Payments]
           a == [u \in User |-> IF u = x.user THEN total[u] ELSE 0]
           y == Execution("tiers", x.tries, NoLadder, {}, a, x.user, Absent)
<1>1. x \in ExecRecord /\ ShapeOf(Payments, x) /\ x.pc = "read"
  BY DEF Shape, TypeOK, ExecShape, Exec, ReadTotal
<1>2. a \in [User -> Int]
  BY DEF Shape, TypeOK
<1>3. NoLadder \in Ladder /\ Absent \in Level /\ "tiers" \in Pc
  BY DEF NoLadder, Ladder, Level, Pc
<1>4. y \in ExecRecord
  BY <1>1, <1>2, <1>3, ExecutionType DEF ExecRecord
<1>5. y.pc = "tiers" /\ y.todo = {} /\ y.user = x.user
  BY ExecutionParts
<1>6. ShapeOf(Payments, y)
  BY <1>1, <1>5 DEF ShapeOf, Placing
<1>7. exec' \in [Exec -> ExecRecord] /\ ExecShape'
  BY <1>4, <1>6, ExecSet DEF Shape, TypeOK, Exec, ReadTotal
<1> QED BY <1>7, ExecTypes DEF ReadTotal, Shape, TypeOK, places, history

LEMMA ReadTiersType ==
    ASSUME Shape, NEW e \in Exec, ReadTiers(e) PROVE Shape'
<1> DEFINE x == exec[e]
<1>1. x \in ExecRecord /\ ShapeOf(e, x) /\ x.pc = "tiers" /\ tiers \in Ladder
  BY DEF Shape, TypeOK, ExecShape, ReadTiers
<1>2. exec' \in [Exec -> ExecRecord] /\ ExecShape'
  <2>1. CASE NothingToDo(e)
    <3>1. CASE e # Payments
      BY <2>1, <3>1, IdleType, IdleShape, ExecSet DEF ReadTiers, Leaving, Shape, TypeOK
    <3>2. CASE e = Payments
      <4>1. x.user \in User /\ x.tries \in 1..Attempts
        BY <1>1, <3>2 DEF ShapeOf, ExecRecord
      <4> QED BY <2>1, <3>2, <4>1, StartPaymentsShape, ExecSet
              DEF ReadTiers, Leaving, Shape, TypeOK
    <3> QED BY <3>1, <3>2
  <2>2. CASE ~NothingToDo(e) /\ e # Payments
    <3> DEFINE y == Execution("totals", x.tries, tiers, {}, NoAmount, Absent, Absent)
    <3>0. NoAmount \in [User -> Int] /\ Absent \in Level /\ "totals" \in Pc
      BY DEF NoAmount, Level, Pc
    <3>1. y \in ExecRecord
      BY <1>1, <3>0, ExecutionType DEF ExecRecord
    <3>2. y.pc = "totals" /\ y.todo = {} /\ y.user = Absent
      BY ExecutionParts
    <3>3. ShapeOf(e, y)
      BY <2>2, <3>2 DEF ShapeOf, Placing
    <3> QED BY <2>2, <3>1, <3>3, ExecSet DEF ReadTiers, Shape, TypeOK
  <2>3. CASE ~NothingToDo(e) /\ e = Payments
    <3>1. PICK t \in Deserved(tiers, x.amount[x.user]) :
            exec' = [exec EXCEPT ![e] =
                       Execution("find", x.tries, NoLadder, {}, NoAmount, x.user, t)]
      BY <2>3 DEF ReadTiers
    <3> DEFINE y == Execution("find", x.tries, NoLadder, {}, NoAmount, x.user, t)
    <3>2. t \in Tier /\ x.user \in User
      BY <1>1, <2>3, <3>1, DeservedType DEF ShapeOf
    <3>a. /\ NoLadder \in Ladder /\ NoAmount \in [User -> Int] /\ "find" \in Pc
          /\ t \in Level /\ x.tries \in 1..Attempts
      BY <1>1, <3>2 DEF NoLadder, Ladder, NoAmount, Pc, Level, ExecRecord
    <3>3. y \in ExecRecord
      BY <3>2, <3>a, ExecutionType
    <3>4. y.pc = "find" /\ y.todo = {} /\ y.user = x.user /\ y.tier = t
      BY ExecutionParts
    <3>5. ShapeOf(e, y)
      BY <2>3, <3>2, <3>4 DEF ShapeOf, Placing
    <3> QED BY <3>1, <3>3, <3>5, ExecSet DEF Shape, TypeOK
  <2> QED BY <2>1, <2>2, <2>3
<1>3. UNCHANGED <<places, history, faults>> /\ Executes
  BY DEF ReadTiers
<1> QED BY <1>2, <1>3, ExecTypes DEF Shape, TypeOK, places, history

LEMMA ReadTotalsType ==
    ASSUME Shape, NEW e \in Exec, ReadTotals(e) PROVE Shape'
<1> DEFINE x == exec[e]
           y == Execution("next", x.tries, x.lad, User, spent, Absent, Absent)
<1>1. x \in ExecRecord /\ ShapeOf(e, x) /\ x.pc = "totals" /\ spent \in [User -> Int]
  BY DEF Shape, TypeOK, ExecShape, ReadTotals
<1>2. y \in ExecRecord
  BY <1>1, ExecutionType DEF ExecRecord, Pc, Level
<1>3. y.pc = "next" /\ y.user = Absent
  BY ExecutionParts
<1>4. ShapeOf(e, y)
  BY <1>1, <1>3 DEF ShapeOf, Placing
<1>5. exec' \in [Exec -> ExecRecord] /\ ExecShape'
  BY <1>2, <1>4, ExecSet DEF ReadTotals, Shape, TypeOK
<1>6. calm' \subseteq User
  BY DEF ReadTotals, Shape, TypeOK
<1> QED BY <1>5, <1>6, ExecTypes DEF ReadTotals, Shape, TypeOK, places

LEMMA SyncTotalType ==
    ASSUME Shape, NEW e \in Exec, NEW u \in User, SyncTotal(e, u) PROVE Shape'
<1> DEFINE x == exec[e]
<1>1. x \in ExecRecord /\ ShapeOf(e, x) /\ x.pc = "next" /\ u \in x.todo
  BY DEF Shape, TypeOK, ExecShape, SyncTotal
<1>2. PICK t \in Deserved(x.lad, x.amount[u]) :
        exec' = [exec EXCEPT ![e] =
                   Execution("find", x.tries, x.lad, x.todo, x.amount, u, t)]
  BY DEF SyncTotal
<1> DEFINE y == Execution("find", x.tries, x.lad, x.todo, x.amount, u, t)
<1>3. t \in Tier
  BY DeservedType
<1>4. y \in ExecRecord
  BY <1>1, <1>3, ExecutionType DEF ExecRecord, Pc, Level
<1>5. y.pc = "find" /\ y.todo = x.todo /\ y.user = u /\ y.tier = t
  BY ExecutionParts
<1>6. ShapeOf(e, y)
  BY <1>1, <1>3, <1>5 DEF ShapeOf, Placing
<1>7. exec' \in [Exec -> ExecRecord] /\ ExecShape'
  BY <1>2, <1>4, <1>6, ExecSet DEF Shape, TypeOK
<1>8. total' \in [User -> Int]
  BY <1>1 DEF SyncTotal, Shape, TypeOK, ExecRecord
<1>9. UNCHANGED <<row, level, history, faults>> /\ Executes
  BY DEF SyncTotal
<1> QED BY <1>7, <1>8, <1>9, ExecTypes DEF Shape, TypeOK, history

LEMMA FindType == ASSUME Shape, NEW e \in Exec, Find(e) PROVE Shape'
<1>1. exec[e].pc \in Placing
  BY DEF Find, Placing
<1>2. CASE HasAlready(exec[e])
  <2>1. Moves(e, "level") BY <1>2 DEF Find
  <2>2. exec' \in [Exec -> ExecRecord] /\ ExecShape'
    BY <1>1, <2>1, MovesShape DEF Placing, Shape, TypeOK
  <2> QED BY <2>2, ExecTypes DEF Find, Shape, TypeOK, places, history
<1>3. CASE ~HasAlready(exec[e])
  <2>1. Moves(e, "upsert") BY <1>3 DEF Find
  <2>2. exec' \in [Exec -> ExecRecord] /\ ExecShape'
    BY <1>1, <2>1, MovesShape DEF Placing, Shape, TypeOK
  <2> QED BY <2>2, ExecTypes DEF Find, Shape, TypeOK, places, history
<1> QED BY <1>2, <1>3

\* The memberships after one of them is written.
LEMMA RowSet ==
    ASSUME row \in [User -> Row \cup {Absent}], NEW u \in User, NEW t \in Tier,
           NEW st \in Status, row' = [row EXCEPT ![u] = Membership(t, st)]
    PROVE  row' \in [User -> Row \cup {Absent}]
BY MembershipParts

LEMMA UpsertType == ASSUME Shape, NEW e \in Exec, Upsert(e) PROVE Shape'
<1>1. exec[e].pc \in Placing /\ exec[e].user \in User /\ exec[e].tier \in Tier
  BY DEF Upsert, Placing, Shape, ExecShape, ShapeOf
<1>2. exec' \in [Exec -> ExecRecord] /\ ExecShape'
  BY <1>1, MovesShape DEF Placing, Shape, TypeOK, Upsert
<1>3. row' \in [User -> Row \cup {Absent}]
  BY <1>1, RowSet DEF Upsert, Shape, TypeOK, Status
<1> QED BY <1>2, <1>3, ExecTypes DEF Upsert, Shape, TypeOK, history

LEMMA SetLevelType == ASSUME Shape, NEW e \in Exec, SetLevel(e) PROVE Shape'
<1>1. /\ exec[e].user \in User /\ exec[e].tier \in Tier
      /\ exec[e] \in ExecRecord /\ ShapeOf(e, exec[e]) /\ exec[e].pc \in Placing
  BY DEF SetLevel, Placing, Shape, TypeOK, ExecShape, ShapeOf
<1>2. exec' \in [Exec -> ExecRecord] /\ ExecShape'
  BY <1>1, PassedShape, ExecSet DEF Shape, TypeOK, SetLevel
<1>3. level' \in [User -> Level] /\ settled' \subseteq User
  BY <1>1 DEF SetLevel, Shape, TypeOK, Level
<1> QED BY <1>2, <1>3, ExecTypes DEF SetLevel, Shape, TypeOK

LEMMA UserFailsType == ASSUME Shape, NEW e \in Exec, UserFails(e) PROVE Shape'
<1>1. /\ exec[e].user \in User
      /\ exec[e] \in ExecRecord /\ ShapeOf(e, exec[e]) /\ exec[e].pc \in Placing
  BY DEF UserFails, Placing, Shape, TypeOK, ExecShape, ShapeOf
<1>2. exec' \in [Exec -> ExecRecord] /\ ExecShape'
  BY <1>1, PassedShape, ExecSet DEF Shape, TypeOK, UserFails
<1>3. faults' \in 0..MaxFaults
  BY FaultType DEF UserFails, ErrorWith, Shape, TypeOK
<1> QED BY <1>2, <1>3, ExecTypes DEF UserFails, Fails, Shape, TypeOK, places

LEMMA SyncFailsType ==
    ASSUME Shape, NEW e \in Exec, NEW u \in User, SyncFails(e, u) PROVE Shape'
<1>1. exec[e] \in ExecRecord /\ ShapeOf(e, exec[e]) /\ u \in exec[e].todo
  BY DEF SyncFails, Shape, TypeOK, ExecShape
<1>2. exec' \in [Exec -> ExecRecord] /\ ExecShape'
  BY <1>1, PassedShape, ExecSet DEF Shape, TypeOK, SyncFails
<1>3. faults' \in 0..MaxFaults
  BY FaultType DEF SyncFails, Shape, TypeOK
<1> QED BY <1>2, <1>3, ExecTypes DEF SyncFails, Fails, Shape, TypeOK, places

LEMMA ReadFailsType == ASSUME Shape, NEW e \in Exec, ReadFails(e) PROVE Shape'
<1>1. exec[e].tries \in 1..Attempts
  BY DEF Shape, TypeOK, ExecRecord
<1>2. exec' \in [Exec -> ExecRecord] /\ ExecShape'
  BY IdleType, IdleShape, ExecSet DEF ReadFails, Shape, TypeOK
<1>3. jobs' \in [1..Attempts -> Nat]
  <2>1. CASE e = Worker /\ exec[e].tries > 1
    <3>1. exec[e].tries - 1 \in 1..Attempts
      BY <1>1, <2>1 DEF Attempts
    <3> QED BY <2>1, <3>1, JobsSet DEF ReadFails, Shape, TypeOK
  <2>2. CASE ~(e = Worker /\ exec[e].tries > 1)
    BY <2>2 DEF ReadFails, Shape, TypeOK
  <2> QED BY <2>1, <2>2
<1>4. faults' \in 0..MaxFaults
  BY FaultType DEF ReadFails, Shape, TypeOK
<1> QED BY <1>2, <1>3, <1>4 DEF ReadFails, Shape, TypeOK, AdmShape, places, history

LEMMA JobFailsType == ASSUME Shape, NEW p \in Pay, JobFails(p) PROVE Shape'
<1> DEFINE left == payjob[p].tries - 1
<1>1. Payments \in Exec /\ payjob[p].tries \in 1..Attempts
  BY DEF Shape, TypeOK, PayJob, Exec
<1>2. exec' \in [Exec -> ExecRecord] /\ ExecShape'
  BY <1>1, IdleType, IdleShape, ExecSet DEF JobFails, Shape, TypeOK
<1>3. payjob' \in [Pay -> PayJob]
  <2>1. left > 0 => Job("queued", left) \in PayJob
    BY <1>1, JobParts DEF Attempts
  <2> QED BY <2>1, NoJobParts DEF JobFails, Shape, TypeOK
<1>4. faults' \in 0..MaxFaults
  BY FaultType DEF JobFails, ErrorWith, Shape, TypeOK
<1> QED BY <1>2, <1>3, <1>4 DEF JobFails, Shape, TypeOK, AdmShape, places, history

LEMMA JobDoneType == ASSUME Shape, NEW p \in Pay, JobDone(p) PROVE Shape'
<1>1. exec' \in [Exec -> ExecRecord] /\ ExecShape'
  BY IdleType, IdleShape, ExecSet DEF JobDone, Shape, TypeOK, Exec
<1>2. payjob' \in [Pay -> PayJob]
  BY NoJobParts DEF JobDone, Shape, TypeOK
<1> QED BY <1>1, <1>2 DEF JobDone, Shape, TypeOK, AdmShape, places, history

LEMMA DisturbType ==
    ASSUME Shape, NEW users, Disturb(users)
    PROVE  calm' \subseteq User /\ settled' \subseteq User
BY DEF Disturb, Shape, TypeOK

LEMMA ConfirmType == ASSUME Shape, NEW p \in Pay, Confirm(p) PROVE Shape'
<1>1. Payer[p] \in User /\ Worth[p] \in Int
  BY RecalcAssumption
<1>2. /\ spent' \in [User -> Int] /\ total' \in [User -> Int]
  BY <1>1 DEF Confirm, Shape, TypeOK
<1>3. /\ paid' \in [Pay -> {"none", "counted", "partly", "aged", "closed"}]
      /\ payjob' \in [Pay -> PayJob]
  BY JobParts DEF Confirm, Shape, TypeOK, Attempts
<1>4. calm' \subseteq User /\ settled' \subseteq User
  BY <1>1, DisturbType DEF Confirm
<1> QED BY <1>2, <1>3, <1>4 DEF Confirm, Shape, TypeOK, ExecShape, AdmShape

LEMMA EnqueueType == ASSUME Shape, NEW p \in Pay, Enqueue(p) PROVE Shape'
<1>1. payjob' \in [Pay -> PayJob]
  BY JobParts, NoJobParts DEF Enqueue, Shape, TypeOK, Attempts
<1>2. faults' \in 0..MaxFaults
  BY FaultType DEF Enqueue, Shape, TypeOK
<1> QED BY <1>1, <1>2 DEF Enqueue, Shape, TypeOK, ExecShape, AdmShape, places, history

LEMMA ReverseType ==
    ASSUME Shape, NEW p \in Pay, NEW refund \in {Worth[p], Part[p]}, Reverse(p, refund)
    PROVE  Shape'
<1> DEFINE u == Payer[p]
           left == total[u] - Worth[p]
<1>1. u \in User /\ Worth[p] \in Int /\ refund \in Int
  BY RecalcAssumption
<1>2. spent' \in [User -> Int] /\ total' \in [User -> Int]
  BY <1>1 DEF Reverse, Shape, TypeOK
<1>3. paid' \in [Pay -> {"none", "counted", "partly", "aged", "closed"}]
  BY DEF Reverse, Shape, TypeOK
<1>4. row' \in [User -> Row \cup {Absent}] /\ level' \in [User -> Level]
  <2>1. CASE Rungs(tiers) = {}
    BY <2>1 DEF Reverse, Shape, TypeOK
  <2>2. CASE Rungs(tiers) # {}
    <3>1. PICK t \in Deserved(tiers, left) :
            /\ row' = [row EXCEPT ![u] = Membership(t, "normal")]
            /\ level' = [level EXCEPT ![u] = t]
      BY <2>2 DEF Reverse
    <3>2. t \in Tier
      BY DeservedType
    <3>3. row' \in [User -> Row \cup {Absent}]
      BY <1>1, <3>1, <3>2, RowSet DEF Shape, TypeOK, Status
    <3> QED BY <1>1, <3>1, <3>2, <3>3 DEF Shape, TypeOK, Level
  <2> QED BY <2>1, <2>2
<1>5. calm' \subseteq User /\ settled' \subseteq User
  BY <1>1, DisturbType DEF Reverse
<1>6. UNCHANGED <<tiers, cached, exec, payjob, jobs, adm, edits, faults>>
  BY DEF Reverse
<1> QED BY <1>2, <1>3, <1>4, <1>5, <1>6 DEF Shape, TypeOK, ExecShape, AdmShape

LEMMA AgeType == ASSUME Shape, NEW p \in Pay, Age(p) PROVE Shape'
<1>1. Payer[p] \in User /\ Worth[p] \in Int /\ Part[p] \in Int
  BY RecalcAssumption
<1>2. spent' \in [User -> Int]
  BY <1>1 DEF Age, Shape, TypeOK
<1>3. paid' \in [Pay -> {"none", "counted", "partly", "aged", "closed"}]
  BY DEF Age, Shape, TypeOK
<1>4. calm' \subseteq User /\ settled' \subseteq User
  BY <1>1, DisturbType DEF Age
<1> QED BY <1>2, <1>3, <1>4 DEF Age, Shape, TypeOK, ExecShape, AdmShape, places

LEMMA RecalculateAllType == ASSUME Shape, RecalculateAll PROVE Shape'
<1>1. EditsOK'
  BY EditType DEF RecalculateAll, EditsOK, Shape, TypeOK
<1>2. jobs' \in [1..Attempts -> Nat]
  BY JobsSet DEF RecalculateAll, Shape, TypeOK, Attempts
<1> QED BY <1>1, <1>2
        DEF RecalculateAll, EditsOK, Shape, TypeOK, ExecShape, AdmShape, places, history

LEMMA WorkerTakesType ==
    ASSUME Shape, NEW k \in 1..Attempts, WorkerTakes(k) PROVE Shape'
<1>1. Worker \in Exec /\ Worker # Payments
  BY RecalcAssumption DEF Exec
<1>2. exec' \in [Exec -> ExecRecord] /\ ExecShape'
  BY <1>1, StartShape, ExecSet DEF WorkerTakes, Shape, TypeOK
<1>3. jobs' \in [1..Attempts -> Nat]
  BY JobsSet DEF WorkerTakes, Shape, TypeOK
<1> QED BY <1>2, <1>3 DEF WorkerTakes, Shape, TypeOK, AdmShape, places, history

LEMMA PaymentsTakesType == ASSUME Shape, NEW p \in Pay, PaymentsTakes(p) PROVE Shape'
<1>1. Payments \in Exec /\ Payer[p] \in User /\ Attempts \in 1..Attempts
  BY RecalcAssumption DEF Exec, Attempts
<1>2. exec' \in [Exec -> ExecRecord] /\ ExecShape'
  BY <1>1, StartPaymentsShape, ExecSet DEF PaymentsTakes, Shape, TypeOK
<1>3. payjob' \in [Pay -> PayJob]
  BY JobParts DEF PaymentsTakes, Shape, TypeOK, PayJob
<1> QED BY <1>2, <1>3 DEF PaymentsTakes, Shape, TypeOK, AdmShape, places, history

LEMMA SetTierType ==
    ASSUME Shape, NEW t \in Tier, NEW price \in Price[t] \cup {Absent}, SetTier(t, price)
    PROVE  tiers' \in Ladder /\ calm' = {} /\ settled' = {}
BY RecalcAssumption DEF SetTier, Disturb, Shape, TypeOK, Ladder

LEMMA CreateTierType ==
    ASSUME Shape, NEW t \in Tier, NEW price \in Price[t],
           CreateTier(t, price) \/ BulkUpdateTier(t, price)
    PROVE  Shape'
<1>1. /\ SetTier(t, price) /\ AdminWrites
      /\ UNCHANGED <<cached, paid, spent, places, exec, payjob, jobs, adm, faults>>
  BY DEF CreateTier, BulkUpdateTier
<1>2. tiers' \in Ladder /\ calm' = {} /\ settled' = {}
  BY <1>1, SetTierType
<1>3. EditsOK'
  BY <1>1, EditType DEF EditsOK, Shape, TypeOK
<1> QED BY <1>1, <1>2, <1>3 DEF EditsOK, Shape, TypeOK, ExecShape, AdmShape, places

LEMMA UpdateTierType ==
    ASSUME Shape, NEW t \in Tier, NEW price \in Price[t], NEW e \in Edit,
           UpdateTier(t, price, e)
    PROVE  Shape'
<1>1. e \in Exec /\ e # Payments /\ Attempts \in 1..Attempts
  BY RecalcAssumption DEF Exec, Attempts
<1> DEFINE x == Execution("tiers", Attempts, NoLadder, {}, NoAmount, Absent, t)
<1>a. /\ NoLadder \in Ladder /\ NoAmount \in [User -> Int] /\ t \in Level
      /\ Absent \in User \cup {Absent} /\ {} \in SUBSET User /\ "tiers" \in Pc
  BY DEF NoLadder, Ladder, NoAmount, Level, Pc
<1>b. x \in ExecRecord
  BY <1>1, <1>a, ExecutionType
<1>c. ShapeOf(e, x)
  BY <1>1, ExecutionParts DEF ShapeOf, Placing
<1>2. exec' \in [Exec -> ExecRecord] /\ ExecShape'
  BY <1>1, <1>b, <1>c, ExecSet DEF UpdateTier, Shape, TypeOK
<1>3. tiers' \in Ladder /\ calm' = {} /\ settled' = {}
  BY SetTierType DEF UpdateTier
<1>4. EditsOK'
  BY EditType DEF EditsOK, UpdateTier, Shape, TypeOK
<1> QED BY <1>2, <1>3, <1>4 DEF EditsOK, UpdateTier, Shape, TypeOK, AdmShape, places

LEMMA RemoveTierType == ASSUME Shape, NEW t \in Tier, RemoveTier(t) PROVE Shape'
<1>1. tiers' \in Ladder /\ calm' = {} /\ settled' = {}
  BY SetTierType DEF RemoveTier
<1>2. row' \in [User -> Row \cup {Absent}]
  BY DEF RemoveTier, Shape, TypeOK
<1>3. EditsOK'
  BY EditType DEF EditsOK, RemoveTier, Shape, TypeOK
<1> QED BY <1>1, <1>2, <1>3 DEF EditsOK, RemoveTier, Shape, TypeOK, ExecShape, AdmShape

\* A request of the admin writes a customer's place and its own progress.
LEMMA AdmTypes ==
    ASSUME Shape, ByAdmin, EditsOK',
           row' \in [User -> Row \cup {Absent}], level' \in [User -> Level],
           adm' \in AdmRecord, AdmShape',
           calm' \subseteq User, settled' \subseteq User
    PROVE  Shape'
BY DEF EditsOK, Shape, TypeOK, ExecShape, ByAdmin

LEMMA WishType ==
    ASSUME NEW w \in Wish
    PROVE  /\ w.lvl \in Level /\ w.st \in Status \cup {Absent} /\ OrNormal(w.st) \in Status
           /\ w.lvl # Absent => w.lvl \in Tier
           /\ w.st # Absent => w.st \in Status
BY RecalcAssumption DEF Level, Status, OrNormal

LEMMA AssignType ==
    ASSUME Shape, NEW u \in User, NEW w \in Wish, Assign(u, w) PROVE Shape'
<1>1. row' \in [User -> Row \cup {Absent}]
  BY WishType, RowSet DEF Assign, Shape, TypeOK
<1>2. EditsOK'
  BY EditType DEF EditsOK, Assign, Shape, TypeOK
<1>3. calm' \subseteq User /\ settled' \subseteq User
  BY DisturbType DEF Assign
<1> QED BY <1>1, <1>2, <1>3, AdmTypes DEF Assign, Shape, TypeOK, AdmShape

LEMMA RemoveUserMembershipType ==
    ASSUME Shape, NEW u \in User, RemoveUserMembership(u) PROVE Shape'
<1>1. row' \in [User -> Row \cup {Absent}]
  BY DEF RemoveUserMembership, Shape, TypeOK
<1>2. EditsOK'
  BY EditType DEF EditsOK, RemoveUserMembership, Shape, TypeOK
<1>3. calm' \subseteq User /\ settled' \subseteq User
  BY DisturbType DEF RemoveUserMembership
<1> QED BY <1>1, <1>2, <1>3, AdmTypes DEF RemoveUserMembership, Shape, TypeOK, AdmShape

LEMMA UpdateUserMembershipType ==
    ASSUME Shape, NEW u \in User, NEW w \in Wish, UpdateUserMembership(u, w)
    PROVE  Shape'
<1> DEFINE parts == IF w.lvl # Absent THEN {"row", "level"} ELSE {"row"}
<1>1. adm' = Request("both", u, w.lvl, OrNormal(w.st), parts)
  BY DEF UpdateUserMembership
<1>2. adm' \in AdmRecord
  BY <1>1, WishType, RequestType
<1>3. AdmShape'
  BY <1>1, WishType, RequestParts, RecalcAssumption DEF AdmShape
<1>4. EditsOK'
  BY EditType DEF EditsOK, UpdateUserMembership, Shape, TypeOK
<1>5. calm' \subseteq User /\ settled' \subseteq User
  BY DisturbType DEF UpdateUserMembership
<1>6. UNCHANGED <<row, level>> /\ ByAdmin
  BY DEF UpdateUserMembership
<1> QED BY <1>2, <1>3, <1>4, <1>5, <1>6, AdmTypes DEF Shape, TypeOK

LEMMA UpdateUserType ==
    ASSUME Shape, NEW u \in User, NEW w \in Wish, UpdateUser(u, w) PROVE Shape'
<1> DEFINE pc == IF w.lvl = Absent THEN "status" ELSE "sync"
<1>1. adm' = Request(pc, u, w.lvl, w.st, {})
  BY DEF UpdateUser
<1>2. adm' \in AdmRecord
  BY <1>1, WishType, RequestType
<1>3. AdmShape'
  BY <1>1, WishType, RequestParts, RecalcAssumption DEF AdmShape, UpdateUser
<1>4. EditsOK'
  BY EditType DEF EditsOK, UpdateUser, Shape, TypeOK
<1>5. calm' \subseteq User /\ settled' \subseteq User
  BY DisturbType DEF UpdateUser
<1>6. level' \in [User -> Level]
  BY WishType DEF UpdateUser, Shape, TypeOK
<1>7. UNCHANGED row /\ ByAdmin
  BY DEF UpdateUser
<1> QED BY <1>2, <1>3, <1>4, <1>5, <1>6, <1>7, AdmTypes DEF Shape, TypeOK

\* The customer, level and status of a request in flight.
LEMMA AdmFields ==
    ASSUME Shape, adm.pc # "idle"
    PROVE  /\ adm.user \in User /\ adm.lvl \in Level /\ adm.st \in Status \cup {Absent}
           /\ adm.todo \in SUBSET {"row", "level"}
           /\ adm.pc = "both" => adm.st \in Status
           /\ adm.pc = "both" /\ "level" \in adm.todo => adm.lvl \in Tier
           /\ adm.pc \in {"sync", "upsert"} => adm.lvl \in Tier
           /\ adm.pc = "status" => adm.st \in Status
BY DEF Shape, TypeOK, AdmShape, AdmRecord

LEMMA WroteType ==
    ASSUME Shape, adm.pc = "both", NEW part, Wrote(part)
    PROVE  adm' \in AdmRecord /\ AdmShape'
<1>1. CASE adm.todo \ {part} = {}
  BY <1>1, NoAdmParts DEF Wrote, AdmShape
<1>2. CASE adm.todo \ {part} # {}
  <2>1. adm' = Request("both", adm.user, adm.lvl, adm.st, adm.todo \ {part})
    BY <1>2 DEF Wrote
  <2>2. adm' \in AdmRecord
    BY <2>1, AdmFields, RequestType
  <2>3. AdmShape'
    BY <2>1, AdmFields, RequestParts, RecalcAssumption DEF AdmShape
  <2> QED BY <2>2, <2>3
<1> QED BY <1>1, <1>2

LEMMA WriteRowType == ASSUME Shape, WriteRow PROVE Shape'
<1> DEFINE u == adm.user
           tier == IF adm.lvl = Absent THEN row[u].tier ELSE adm.lvl
<1>1. adm' \in AdmRecord /\ AdmShape'
  BY WroteType DEF WriteRow
<1>2. row' \in [User -> Row \cup {Absent}]
  <2>1. CASE row[u] # Absent /\ tiers[tier] # Absent
    <3>1. row' = [row EXCEPT ![u] = Membership(tier, adm.st)]
      BY <2>1 DEF WriteRow
    <3>2. u \in User /\ adm.st \in Status
      BY AdmFields DEF WriteRow
    <3>3. tier \in Tier
      BY <2>1, <3>2, AdmFields DEF WriteRow, Shape, TypeOK, Row, Level
    <3> QED BY <3>1, <3>2, <3>3, RowSet DEF Shape, TypeOK
  <2>2. CASE ~(row[u] # Absent /\ tiers[tier] # Absent)
    BY <2>2 DEF WriteRow, Shape, TypeOK
  <2> QED BY <2>1, <2>2
<1>3. UNCHANGED <<level, edits, history>> /\ ByAdmin
  BY DEF WriteRow
<1> QED BY <1>1, <1>2, <1>3, AdmTypes DEF EditsOK, Shape, TypeOK, history

LEMMA WriteLevelType == ASSUME Shape, WriteLevel PROVE Shape'
<1>1. adm' \in AdmRecord /\ AdmShape'
  BY WroteType DEF WriteLevel
<1>2. level' \in [User -> Level]
  BY AdmFields DEF WriteLevel, Shape, TypeOK, Level
<1> QED BY <1>1, <1>2, AdmTypes DEF EditsOK, WriteLevel, Shape, TypeOK, history

LEMMA ThenStatusType ==
    ASSUME Shape, adm.pc # "idle", ThenStatus
    PROVE  adm' \in AdmRecord /\ AdmShape'
<1>1. CASE adm.st = Absent
  BY <1>1, NoAdmParts DEF ThenStatus, AdmShape
<1>2. CASE adm.st # Absent
  <2>1. adm' = Request("status", adm.user, adm.lvl, adm.st, {})
    BY <1>2 DEF ThenStatus
  <2>2. adm' \in AdmRecord
    BY <2>1, AdmFields, RequestType
  <2>3. AdmShape'
    BY <1>2, <2>1, AdmFields, RequestParts, RecalcAssumption DEF AdmShape
  <2> QED BY <2>2, <2>3
<1> QED BY <1>1, <1>2

LEMMA SyncByLevelType == ASSUME Shape, SyncByLevel PROVE Shape'
<1>1. adm' \in AdmRecord /\ AdmShape'
  <2>1. CASE adm' = NoAdm
    BY <2>1, NoAdmParts DEF AdmShape
  <2>2. CASE ThenStatus
    BY <2>2, ThenStatusType DEF SyncByLevel
  <2>3. CASE adm' = Request("upsert", adm.user, adm.lvl, adm.st, {})
    <3>1. adm' \in AdmRecord
      BY <2>3, AdmFields, RequestType DEF SyncByLevel
    <3>2. AdmShape'
      BY <2>3, AdmFields, RequestParts, RecalcAssumption DEF AdmShape, SyncByLevel
    <3> QED BY <3>1, <3>2
  <2> QED BY <2>1, <2>2, <2>3 DEF SyncByLevel
<1>2. UNCHANGED <<row, level, edits, history>> /\ ByAdmin
  BY DEF SyncByLevel
<1> QED BY <1>1, <1>2, AdmTypes DEF EditsOK, Shape, TypeOK, history

LEMMA SyncUpsertType == ASSUME Shape, SyncUpsert PROVE Shape'
<1>1. adm.user \in User /\ adm.lvl \in Tier
  BY AdmFields DEF SyncUpsert
<1>2. adm' \in AdmRecord /\ AdmShape' /\ row' \in [User -> Row \cup {Absent}]
  <2>1. CASE tiers[adm.lvl] = Absent
    BY <2>1, NoAdmParts DEF AdmShape, SyncUpsert, Shape, TypeOK
  <2>2. CASE tiers[adm.lvl] # Absent
    <3>1. ThenStatus /\ row' = [row EXCEPT ![adm.user] = Membership(adm.lvl, "normal")]
      BY <2>2 DEF SyncUpsert
    <3>2. row' \in [User -> Row \cup {Absent}]
      BY <1>1, <3>1, RowSet DEF Shape, TypeOK, Status
    <3> QED BY <3>1, <3>2, ThenStatusType DEF SyncUpsert
  <2> QED BY <2>1, <2>2
<1>3. UNCHANGED <<level, edits, history>> /\ ByAdmin
  BY DEF SyncUpsert
<1> QED BY <1>2, <1>3, AdmTypes DEF EditsOK, Shape, TypeOK, history

LEMMA SetStatusType == ASSUME Shape, SetStatus PROVE Shape'
<1>1. adm.user \in User /\ adm.st \in Status
  BY AdmFields DEF SetStatus
<1>2. row' \in [User -> Row \cup {Absent}]
  <2>1. CASE row[adm.user] = Absent
    BY <2>1 DEF SetStatus, Shape, TypeOK
  <2>2. CASE row[adm.user] # Absent
    <3>1. row[adm.user].tier \in Tier
      BY <1>1, <2>2 DEF Shape, TypeOK, Row
    <3> QED BY <1>1, <2>2, <3>1, RowSet DEF SetStatus, Shape, TypeOK
  <2> QED BY <2>1, <2>2
<1>3. adm' \in AdmRecord /\ AdmShape'
  BY NoAdmParts DEF SetStatus, AdmShape
<1> QED BY <1>2, <1>3, AdmTypes DEF EditsOK, SetStatus, Shape, TypeOK, history

LEMMA RestartType == ASSUME Shape, Restart PROVE Shape'
<1>1. exec' \in [Exec -> ExecRecord] /\ ExecShape'
  BY IdleType, IdleShape DEF Restart, ExecShape
<1>2. cached' \subseteq Tier /\ calm' \subseteq User
  BY DEF Restart, Rungs, Shape, TypeOK
<1>3. payjob' \in [Pay -> PayJob]
  BY JobParts, NoJobParts DEF Restart, Shape, TypeOK, PayJob
<1>4. jobs' \in [1..Attempts -> Nat]
  <2>1. exec[Worker].tries \in 1..Attempts
    BY DEF Shape, TypeOK, ExecRecord, Exec
  <2> QED BY <2>1, JobsSet DEF Restart, Shape, TypeOK
<1>5. faults' \in 0..MaxFaults
  BY FaultType DEF Restart, Shape, TypeOK
<1>6. adm' \in AdmRecord /\ AdmShape'
  BY NoAdmParts DEF Restart, AdmShape
<1> QED BY <1>1, <1>2, <1>3, <1>4, <1>5, <1>6 DEF Restart, Shape, TypeOK, places

LEMMA RunType == ASSUME Shape, NEW e \in Exec, Run(e) PROVE Shape'
<1>1. ASSUME NEW u \in User, SyncTotal(e, u) \/ SyncFails(e, u) PROVE Shape'
  BY <1>1, SyncTotalType, SyncFailsType
<1>2. ASSUME ReadTiers(e) \/ ReadTotals(e) PROVE Shape'
  BY <1>2, ReadTiersType, ReadTotalsType
<1>3. ASSUME Find(e) \/ Upsert(e) \/ SetLevel(e) PROVE Shape'
  BY <1>3, FindType, UpsertType, SetLevelType
<1>4. ASSUME UserFails(e) \/ ReadFails(e) PROVE Shape'
  BY <1>4, UserFailsType, ReadFailsType
<1> QED BY <1>1, <1>2, <1>3, <1>4 DEF Run

LEMMA AdminType == ASSUME Shape, Admin PROVE Shape'
<1>1. ASSUME NEW t \in Tier, NEW price \in Price[t],
             CreateTier(t, price) \/ BulkUpdateTier(t, price)
      PROVE  Shape'
  BY <1>1, CreateTierType
<1>2. ASSUME NEW t \in Tier, NEW price \in Price[t], NEW e \in Edit, UpdateTier(t, price, e)
      PROVE  Shape'
  BY <1>2, UpdateTierType
<1>3. ASSUME NEW t \in Tier, RemoveTier(t) PROVE Shape'
  BY <1>3, RemoveTierType
<1>4. ASSUME NEW u \in User, RemoveUserMembership(u) PROVE Shape'
  BY <1>4, RemoveUserMembershipType
<1>5. ASSUME NEW u \in User, NEW w \in Wish,
             Assign(u, w) \/ UpdateUserMembership(u, w) \/ UpdateUser(u, w)
      PROVE  Shape'
  BY <1>5, AssignType, UpdateUserMembershipType, UpdateUserType
<1>6. ASSUME WriteRow \/ WriteLevel \/ SyncByLevel \/ SyncUpsert \/ SetStatus PROVE Shape'
  BY <1>6, WriteRowType, WriteLevelType, SyncByLevelType, SyncUpsertType, SetStatusType
<1>7. ASSUME RecalculateAll PROVE Shape'
  BY <1>7, RecalculateAllType
<1> QED BY <1>1, <1>2, <1>3, <1>4, <1>5, <1>6, <1>7 DEF Admin

LEMMA TypeStep == Shape /\ [Next]_vars => Shape'
<1> SUFFICES ASSUME Shape, [Next]_vars PROVE Shape'
  OBVIOUS
<1>1. ASSUME NEW p \in Pay, Confirm(p) \/ Enqueue(p) \/ Age(p) PROVE Shape'
  BY <1>1, ConfirmType, EnqueueType, AgeType
<1>a. ASSUME NEW p \in Pay, PaymentsTakes(p) \/ JobDone(p) \/ JobFails(p) PROVE Shape'
  BY <1>a, PaymentsTakesType, JobDoneType, JobFailsType
<1>2. ASSUME NEW p \in Pay, NEW refund \in {Worth[p], Part[p]}, Reverse(p, refund)
      PROVE  Shape'
  BY <1>2, ReverseType
<1>3. ASSUME ReadTotal \/ \E k \in 1..Attempts : WorkerTakes(k) PROVE Shape'
  BY <1>3, WorkerTakesType, ReadTotalType
<1>4. ASSUME NEW e \in Exec, Run(e) PROVE Shape'
  BY <1>4, RunType
<1>5. ASSUME Admin \/ Restart PROVE Shape'
  BY <1>5, AdminType, RestartType
<1>6. CASE UNCHANGED vars
  BY <1>6 DEF vars, places, history, Shape, TypeOK, ExecShape, AdmShape
<1> QED BY <1>1, <1>a, <1>2, <1>3, <1>4, <1>5, <1>6 DEF Next

\* The shape of the state is never left.
THEOREM TypeCorrect == Spec => []TypeOK
<1>1. Shape => TypeOK BY DEF Shape
<1> QED BY <1>1, TypeInit, TypeStep, PTL DEF Spec

-----------------------------------------------------------------------------
(* Customers a recalculation has passed *)

Kept(u) == Undisturbed(u) /\ (u \in settled => InPlace(u))
Standing == (\A u \in calm \cup settled : Kept(u)) /\ NobodyLeftOut

\* Nothing that concerns the customer has changed, and nobody else is about to.
LEMMA KeptSame ==
    ASSUME NEW u \in User, Kept(u), tiers' = tiers, exec' = exec,
           spent'[u] = spent[u], total'[u] = total[u], row'[u] = row[u],
           level'[u] = level[u], adm'.user # u,
           \A p \in Pay : Payer[p] = u => payjob'[p].st = "none",
           u \in settled' => u \in settled
    PROVE  Kept(u)'
BY DEF Kept, Undisturbed, UpToDate, InPlace

\* A recalculation takes a step that leaves the places alone.
LEMMA KeptExec ==
    ASSUME NEW u \in User, Kept(u), Executes, UNCHANGED places,
           u \in settled' => u \in settled,
           NEW e \in Exec, \A d \in Exec \ {e} : exec'[d] = exec[d], UpToDate(e, u)'
    PROVE  Kept(u)'
<1>1. \A d \in Exec \ {e} : UpToDate(d, u)'
  BY DEF Kept, Undisturbed, UpToDate, Executes, places
<1>2. Undisturbed(u)'
  BY <1>1 DEF Kept, Undisturbed, Executes
<1>3. u \in settled' => InPlace(u)'
  BY DEF Kept, InPlace, Executes, places
<1> QED BY <1>2, <1>3 DEF Kept

\* Whoever is to come, is still to come.
LEMMA NobodyKeeps ==
    ASSUME NobodyLeftOut, calm' \ settled' \subseteq calm \ settled,
           \A e \in Exec \ {Payments} : \A u \in calm' \ settled' :
               u \in exec[e].todo => u \in exec'[e].todo
    PROVE  NobodyLeftOut'
BY DEF NobodyLeftOut

\* Disturbed customers are nobody's promise; of the others nothing changes.
LEMMA DisturbKeeps ==
    ASSUME Shape, Standing, NEW users, Disturb(users), tiers' = tiers, exec' = exec,
           \A u \in User \ users :
               /\ spent'[u] = spent[u] /\ total'[u] = total[u]
               /\ row'[u] = row[u] /\ level'[u] = level[u]
               /\ adm.user # u => adm'.user # u
               /\ \A p \in Pay : Payer[p] = u /\ payjob[p].st = "none" => payjob'[p].st = "none"
    PROVE  Standing'
<1>1. ASSUME NEW u \in calm' \cup settled' PROVE Kept(u)'
  <2>1. u \in User /\ u \notin users /\ Kept(u) /\ (u \in settled' => u \in settled)
    BY DEF Disturb, Standing, Shape, TypeOK
  <2> QED BY <2>1, KeptSame DEF Kept, Undisturbed
<1>2. NobodyLeftOut'
  BY NobodyKeeps DEF Standing, Disturb
<1> QED BY <1>1, <1>2 DEF Standing

LEMMA ConfirmKeeps == ASSUME Shape, Standing, NEW p \in Pay, Confirm(p) PROVE Standing'
<1>1. Payer[p] \in User
  BY RecalcAssumption
<1> QED BY <1>1, DisturbKeeps DEF Confirm, Shape, TypeOK

LEMMA ReverseKeeps ==
    ASSUME Shape, Standing, NEW p \in Pay, NEW refund, Reverse(p, refund)
    PROVE  Standing'
<1>1. Payer[p] \in User
  BY RecalcAssumption
<1>2. \A u \in User \ {Payer[p]} : /\ spent'[u] = spent[u] /\ total'[u] = total[u]
                                   /\ row'[u] = row[u] /\ level'[u] = level[u]
  <2>1. CASE Rungs(tiers) = {}
    BY <1>1, <2>1 DEF Reverse, Shape, TypeOK
  <2>2. CASE Rungs(tiers) # {}
    <3>1. PICK t : /\ row' = [row EXCEPT ![Payer[p]] = Membership(t, "normal")]
                   /\ level' = [level EXCEPT ![Payer[p]] = t]
      BY <2>2 DEF Reverse
    <3> QED BY <1>1, <3>1 DEF Reverse, Shape, TypeOK
  <2> QED BY <2>1, <2>2
<1>3. Disturb({Payer[p]}) /\ UNCHANGED <<tiers, exec, payjob, adm>>
  BY DEF Reverse
<1> QED BY <1>2, <1>3, DisturbKeeps

LEMMA AgeKeeps == ASSUME Shape, Standing, NEW p \in Pay, Age(p) PROVE Standing'
<1>1. Payer[p] \in User
  BY RecalcAssumption
<1> QED BY <1>1, DisturbKeeps DEF Age, Shape, TypeOK, places

\* An edit of the ladder disturbs everybody.
LEMMA SetTierKeeps ==
    ASSUME NEW t, NEW price, SetTier(t, price), Shape PROVE Standing'
BY DEF SetTier, Disturb, Standing, NobodyLeftOut, Shape, TypeOK

LEMMA CustomerKeeps ==
    ASSUME Shape, Standing, NEW u \in User, NEW w \in Wish,
           \/ Assign(u, w) \/ RemoveUserMembership(u)
           \/ UpdateUserMembership(u, w) \/ UpdateUser(u, w)
    PROVE  Standing'
<1>1. CASE Assign(u, w)
  BY <1>1, DisturbKeeps DEF Assign, ByAdmin, Shape, TypeOK
<1>2. CASE RemoveUserMembership(u)
  BY <1>2, DisturbKeeps DEF RemoveUserMembership, ByAdmin, Shape, TypeOK
<1>3. CASE UpdateUserMembership(u, w)
  <2>1. adm'.user = u /\ Disturb({u})
    BY <1>3, RequestParts DEF UpdateUserMembership
  <2>2. UNCHANGED <<tiers, spent, total, row, level, exec, payjob>>
    BY <1>3 DEF UpdateUserMembership, ByAdmin
  <2> QED BY <2>1, <2>2, DisturbKeeps
<1>4. CASE UpdateUser(u, w)
  <2>1. adm'.user = u /\ Disturb({u})
    BY <1>4, RequestParts DEF UpdateUser
  <2>2. UNCHANGED <<tiers, spent, total, row, exec, payjob>>
    BY <1>4 DEF UpdateUser, ByAdmin
  <2>3. \A v \in User \ {u} : level'[v] = level[v]
    BY <1>4 DEF UpdateUser, Shape, TypeOK
  <2> QED BY <2>1, <2>2, <2>3, DisturbKeeps
<1> QED BY <1>1, <1>2, <1>3, <1>4

\* The admin's writes go to the customer of his request, whom it disturbed.
LEMMA AdmKeeps ==
    ASSUME Shape, Standing, ByAdmin, UNCHANGED history,
           \A u \in User : u # adm.user => /\ row'[u] = row[u] /\ level'[u] = level[u]
                                           /\ adm'.user # u
    PROVE  Standing'
<1>1. ASSUME NEW u \in calm' \cup settled' PROVE Kept(u)'
  <2>1. u \in User /\ Kept(u) /\ adm.user # u
    BY DEF history, Standing, Kept, Undisturbed, Shape, TypeOK
  <2> QED BY <2>1, KeptSame DEF ByAdmin, history, Kept, Undisturbed
<1>2. NobodyLeftOut'
  BY NobodyKeeps DEF Standing, ByAdmin, history
<1> QED BY <1>1, <1>2 DEF Standing

LEMMA RequestKeeps ==
    ASSUME Shape, Standing,
           WriteRow \/ WriteLevel \/ SyncByLevel \/ SyncUpsert \/ SetStatus
    PROVE  Standing'
<1>0. /\ adm.pc # "idle" /\ adm.user \in User /\ Absent \notin User
      /\ \A u \in User : NoAdm.user # u
  BY AdmFields, NoAdmParts, RecalcAssumption
     DEF WriteRow, WriteLevel, SyncByLevel, SyncUpsert, SetStatus
<1>1. CASE WriteRow
  BY <1>0, <1>1, AdmKeeps, RequestParts DEF WriteRow, Wrote, Shape, TypeOK
<1>2. CASE WriteLevel
  BY <1>0, <1>2, AdmKeeps, RequestParts DEF WriteLevel, Wrote, Shape, TypeOK
<1>3. CASE SyncByLevel
  BY <1>0, <1>3, AdmKeeps, RequestParts DEF SyncByLevel, ThenStatus
<1>4. CASE SyncUpsert
  BY <1>0, <1>4, AdmKeeps, RequestParts DEF SyncUpsert, ThenStatus, Shape, TypeOK
<1>5. CASE SetStatus
  BY <1>0, <1>5, AdmKeeps DEF SetStatus, Shape, TypeOK
<1> QED BY <1>1, <1>2, <1>3, <1>4, <1>5

LEMMA QueueKeeps ==
    ASSUME Shape, Standing, \/ RecalculateAll \/ \E p \in Pay : Enqueue(p)
    PROVE  Standing'
<1>1. UNCHANGED <<tiers, spent, places, exec, adm, history>>
  BY DEF RecalculateAll, Enqueue
<1>2. \A p \in Pay : payjob[p].st = "none" => payjob'[p].st = "none"
  BY NoJobParts DEF RecalculateAll, Enqueue, Shape, TypeOK
<1>3. ASSUME NEW u \in calm' \cup settled' PROVE Kept(u)'
  <2>1. u \in User /\ Kept(u)
    BY <1>1 DEF history, Standing, Shape, TypeOK
  <2> QED BY <1>1, <1>2, <2>1, KeptSame DEF places, history, Kept, Undisturbed
<1>4. NobodyLeftOut'
  BY <1>1, NobodyKeeps DEF Standing, history
<1> QED BY <1>3, <1>4 DEF Standing

\* One recalculation takes a step, and whoever it had to pass it still has to.
LEMMA ExecKeeps ==
    ASSUME Shape, Standing, Executes, UNCHANGED places,
           calm' \subseteq calm, settled' = settled,
           NEW e \in Exec, NEW x, exec' = [exec EXCEPT ![e] = x],
           \A u \in calm' \cup settled : UpToDate(e, u)',
           \A u \in calm' \ settled : e # Payments /\ u \in exec[e].todo => u \in x.todo
    PROVE  Standing'
<1>1. exec'[e] = x /\ \A d \in Exec \ {e} : exec'[d] = exec[d]
  BY DEF Shape, TypeOK
<1>2. ASSUME NEW u \in calm' \cup settled' PROVE Kept(u)'
  <2>1. u \in User /\ Kept(u)
    BY DEF Standing, Shape, TypeOK
  <2>2. UpToDate(e, u)'
    OBVIOUS
  <2> QED BY <1>1, <2>1, <2>2, KeptExec
<1>3. NobodyLeftOut'
  BY <1>1, NobodyKeeps DEF Standing
<1> QED BY <1>2, <1>3 DEF Standing

\* Who reads nothing and has nobody to pass promises nothing.
LEMMA EmptyUpToDate ==
    ASSUME NEW e \in Exec, NEW u \in User, exec'[e].pc # "totals",
           exec'[e].todo = {}, exec'[e].user # u
    PROVE  UpToDate(e, u)'
BY DEF UpToDate

LEMMA StandingParts ==
    ASSUME Shape, Standing, NEW u \in calm \cup settled
    PROVE  /\ u \in User /\ Kept(u) /\ adm.user # u
           /\ \A e \in Exec : UpToDate(e, u)
           /\ exec[Payments].user # u
BY DEF Shape, TypeOK, Standing, Kept, Undisturbed, UpToDate, Exec

LEMMA WorkerTakesKeeps ==
    ASSUME Shape, Standing, NEW k \in 1..Attempts, WorkerTakes(k) PROVE Standing'
<1> DEFINE x == Start("tiers", k, Absent)
<1>1. Worker \in Exec /\ x.pc = "tiers" /\ x.todo = {} /\ x.user = Absent
  BY StartParts DEF Exec
<1>2. exec' = [exec EXCEPT ![Worker] = x] /\ exec'[Worker] = x
  BY <1>1 DEF WorkerTakes, Shape, TypeOK
<1>3. exec[Worker].todo = {}
  BY <1>1 DEF WorkerTakes, Shape, ExecShape, ShapeOf, Placing
<1>4. ASSUME NEW u \in calm' \cup settled' PROVE Kept(u)'
  <2>1. u \in User /\ Kept(u) /\ u # Absent
    BY RecalcAssumption, StandingParts DEF WorkerTakes, history
  <2>2. UpToDate(Worker, u)'
    BY <1>1, <1>2, <2>1, EmptyUpToDate
  <2>3. \A d \in Exec : UpToDate(d, u)'
    BY <1>1, <1>2, <2>1, <2>2 DEF WorkerTakes, places, Kept, Undisturbed, UpToDate, Shape, TypeOK
  <2> QED BY <2>1, <2>3 DEF WorkerTakes, places, history, Kept, Undisturbed, InPlace
<1>5. NobodyLeftOut'
  BY <1>2, <1>3, NobodyKeeps DEF Standing, WorkerTakes, history, Shape, TypeOK
<1> QED BY <1>4, <1>5 DEF Standing

LEMMA PaymentsTakesKeeps ==
    ASSUME Shape, Standing, NEW p \in Pay, PaymentsTakes(p) PROVE Standing'
<1> DEFINE x == Start("read", Attempts, Payer[p])
<1>1. Payments \in Exec /\ x.pc = "read" /\ x.todo = {} /\ x.user = Payer[p]
  BY StartParts DEF Exec
<1>2. exec' = [exec EXCEPT ![Payments] = x] /\ exec'[Payments] = x
  BY <1>1 DEF PaymentsTakes, Shape, TypeOK
<1>3. ASSUME NEW u \in calm' \cup settled' PROVE Kept(u)'
  <2>1. u \in User /\ Kept(u) /\ u # Payer[p]
    BY StandingParts DEF PaymentsTakes, history, Kept, Undisturbed
  <2>2. UpToDate(Payments, u)'
    BY <1>1, <1>2, <2>1, EmptyUpToDate
  <2>3. \A d \in Exec : UpToDate(d, u)'
    BY <1>1, <1>2, <2>1, <2>2 DEF PaymentsTakes, places, Kept, Undisturbed, UpToDate, Shape, TypeOK
  <2>4. \A q \in Pay : Payer[q] = u => payjob'[q].st = "none"
    BY <2>1 DEF PaymentsTakes, Kept, Undisturbed, Shape, TypeOK
  <2> QED BY <2>1, <2>3, <2>4 DEF PaymentsTakes, places, history, Kept, Undisturbed, InPlace
<1>4. NobodyLeftOut'
  BY <1>2, NobodyKeeps DEF Standing, PaymentsTakes, history, Shape, TypeOK
<1> QED BY <1>3, <1>4 DEF Standing

LEMMA ReadTotalKeeps == ASSUME Shape, Standing, ReadTotal PROVE Standing'
<1> DEFINE y == Execution("tiers", exec[Payments].tries, NoLadder, {},
                          [v \in User |-> IF v = exec[Payments].user THEN total[v] ELSE 0],
                          exec[Payments].user, Absent)
<1>1. /\ Payments \in Exec /\ exec' = [exec EXCEPT ![Payments] = y]
      /\ y.pc = "tiers" /\ y.todo = {} /\ y.user = exec[Payments].user
  BY ExecutionParts DEF ReadTotal, Exec
<1>2. \A u \in calm' \cup settled : UpToDate(Payments, u)'
  BY <1>1, StandingParts, EmptyUpToDate DEF ReadTotal, history, Shape, TypeOK
<1> QED BY <1>1, <1>2, ExecKeeps DEF ReadTotal, history

LEMMA ReadTiersKeeps ==
    ASSUME Shape, Standing, NEW e \in Exec, ReadTiers(e) PROVE Standing'
<1>0. /\ UNCHANGED <<places, history, faults>> /\ Executes /\ tiers' = tiers
      /\ exec[e].todo = {} /\ (e # Payments => exec[e].user = Absent)
  BY DEF ReadTiers, Executes, Shape, ExecShape, ShapeOf, Placing
<1>1. CASE NothingToDo(e)
  <2> DEFINE y == Leaving(e, exec[e])
  <2>1. /\ exec' = [exec EXCEPT ![e] = y] /\ y.pc # "totals" /\ y.todo = {}
        /\ y.user = Absent \/ (e = Payments /\ y.user = exec[e].user)
    BY <1>1, StartParts, IdleParts DEF ReadTiers, Leaving
  <2>2. exec'[e] = y
    BY <2>1 DEF Shape, TypeOK
  <2>3. \A u \in calm' \cup settled : UpToDate(e, u)'
    BY <1>0, <2>1, <2>2, StandingParts, EmptyUpToDate, RecalcAssumption DEF history
  <2> QED BY <1>0, <2>1, <2>3, ExecKeeps DEF history
<1>2. CASE ~NothingToDo(e) /\ e # Payments
  <2> DEFINE y == Execution("totals", exec[e].tries, tiers, {}, NoAmount, Absent, Absent)
  <2>1. /\ exec' = [exec EXCEPT ![e] = y]
        /\ y.pc = "totals" /\ y.lad = tiers /\ y.todo = {} /\ y.user = Absent
    BY <1>2, ExecutionParts DEF ReadTiers
  <2>2. ASSUME NEW u \in calm' \cup settled PROVE UpToDate(e, u)'
    <3>1. u \in User /\ u # Absent
      BY <1>0, StandingParts, RecalcAssumption DEF history
    <3> QED BY <1>0, <2>1, <3>1 DEF UpToDate, Shape, TypeOK
  <2> QED BY <1>0, <2>1, <2>2, ExecKeeps DEF history
<1>3. CASE ~NothingToDo(e) /\ e = Payments
  <2>1. PICK t : exec' = [exec EXCEPT ![e] =
                   Execution("find", exec[e].tries, NoLadder, {}, NoAmount, exec[e].user, t)]
    BY <1>3 DEF ReadTiers
  <2> DEFINE y == Execution("find", exec[e].tries, NoLadder, {}, NoAmount, exec[e].user, t)
  <2>2. y.pc = "find" /\ y.todo = {} /\ y.user = exec[e].user
    BY ExecutionParts
  <2>3. \A u \in calm' \cup settled : UpToDate(e, u)'
    BY <1>0, <1>3, <2>1, <2>2, StandingParts, EmptyUpToDate DEF history, Shape, TypeOK
  <2> QED BY <1>0, <2>1, <2>3, ExecKeeps DEF history
<1> QED BY <1>1, <1>2, <1>3

\* The customers with whom nobody is busy hold what is true of them now.
LEMMA ReadTotalsKeeps ==
    ASSUME Shape, Standing, NEW e \in Exec, ReadTotals(e) PROVE Standing'
<1> DEFINE x == exec[e]
           y == Execution("next", x.tries, x.lad, User, spent, Absent, Absent)
<1>1. /\ exec' = [exec EXCEPT ![e] = y] /\ exec'[e] = y
      /\ y.pc = "next" /\ y.lad = x.lad /\ y.todo = User /\ y.amount = spent
      /\ y.user = Absent
      /\ e # Payments /\ x.pc = "totals"
  BY ExecutionParts DEF ReadTotals, Shape, TypeOK, ExecShape, ShapeOf
<1>2. UNCHANGED <<places, settled, tiers, spent, payjob, adm>>
  BY DEF ReadTotals, Executes
<1>3. \A d \in Exec \ {e} : exec'[d] = exec[d]
  BY <1>1 DEF Shape, TypeOK
<1>4. ASSUME NEW u \in calm' \cup settled' PROVE Kept(u)'
  <2>1. u \in User /\ u # Absent
    BY <1>2, RecalcAssumption DEF ReadTotals, Shape, TypeOK
  <2>2. x.lad = tiers => UpToDate(e, u)'
    BY <1>1, <1>2, <2>1 DEF UpToDate
  <2>3. CASE u \in calm \cup settled
    <3>1. Kept(u) /\ x.lad = tiers
      BY <1>1, <2>3, StandingParts DEF UpToDate
    <3> QED BY <1>2, <1>3, <2>1, <2>2, <3>1, KeptExec DEF ReadTotals
  <2>4. CASE u \notin calm \cup settled
    <3>1. x.lad = tiers /\ ~Busy(e, u) /\ u \notin settled'
      BY <1>2, <2>4 DEF ReadTotals
    <3>2. \A d \in Exec \ {e} : UpToDate(d, u)'
      BY <1>2, <1>3, <3>1 DEF Busy, UpToDate
    <3>3. Undisturbed(u)'
      BY <1>2, <2>1, <2>2, <3>1, <3>2 DEF Undisturbed, Busy, Shape, TypeOK
    <3> QED BY <3>1, <3>3 DEF Kept
  <2> QED BY <2>3, <2>4
<1>5. NobodyLeftOut'
  BY <1>1 DEF NobodyLeftOut, ReadTotals, Shape, TypeOK
<1> QED BY <1>4, <1>5 DEF Standing

LEMMA FindKeeps == ASSUME Shape, Standing, NEW e \in Exec, Find(e) PROVE Standing'
<1> DEFINE x == exec[e]
           pc == IF HasAlready(x) THEN "level" ELSE "upsert"
           y == Execution(pc, x.tries, x.lad, x.todo, x.amount, x.user, x.tier)
<1>1. /\ exec' = [exec EXCEPT ![e] = y] /\ exec'[e] = y
      /\ y.pc = pc /\ y.lad = x.lad /\ y.todo = x.todo /\ y.amount = x.amount
      /\ y.user = x.user /\ y.tier = x.tier
  BY ExecutionParts DEF Find, Moves, Shape, TypeOK
<1>2. UNCHANGED <<places, history, tiers, spent>> /\ Executes
  BY DEF Find, Executes
<1>3. ASSUME NEW u \in calm' \cup settled PROVE UpToDate(e, u)'
  <2>1. u \in User /\ UpToDate(e, u)
    BY <1>2, StandingParts DEF history
  <2>2. x.user = u /\ HasAlready(x) => row[u] # Absent /\ row[u].tier = x.tier
    <3>1. x.user = u => x.tier \in Tier
      BY DEF Find, Placing, Shape, ExecShape, ShapeOf
    <3> QED BY <3>1, MembershipParts DEF HasAlready, Status
  <2> QED BY <1>1, <1>2, <2>1, <2>2 DEF UpToDate, places
<1> QED BY <1>1, <1>2, <1>3, ExecKeeps DEF history

LEMMA PassedParts ==
    ASSUME NEW x \in ExecRecord, NEW u
    PROVE  LET y == Passed(x, u) IN
           /\ y.pc \in {"idle", "next", "coupons"} /\ y.todo = x.todo \ {u}
           /\ y.user = Absent \/ (x.todo = {} /\ y.user = x.user)
           /\ y.todo # {} => /\ y.lad = x.lad
                             /\ \A v \in User \ {u} : y.amount[v] = x.amount[v]
<1>1. CASE x.todo = {}
  BY <1>1, StartParts DEF Passed
<1>2. CASE x.todo = {u}
  BY <1>2, IdleParts DEF Passed
<1>3. CASE x.todo # {} /\ x.todo # {u}
  <2>1. \A v \in User \ {u} : [x.amount EXCEPT ![u] = 0][v] = x.amount[v]
    BY DEF ExecRecord
  <2> DEFINE y == Execution("next", x.tries, x.lad, x.todo \ {u}, [x.amount EXCEPT ![u] = 0],
                            Absent, Absent)
  <2>2. /\ y.pc = "next" /\ y.todo = x.todo \ {u} /\ y.user = Absent
        /\ y.lad = x.lad /\ y.amount = [x.amount EXCEPT ![u] = 0]
    BY ExecutionParts
  <2>3. Passed(x, u) = y
    BY <1>3 DEF Passed
  <2> QED BY <2>1, <2>2, <2>3
<1> QED BY <1>1, <1>2, <1>3

\* Done with a customer, a recalculation is as up to date with the others.
LEMMA PassedUpToDate ==
    ASSUME NEW e \in Exec, exec[e] \in ExecRecord, exec[e].todo = {} => e = Payments,
           NEW v, exec'[e] = Passed(exec[e], v), tiers' = tiers,
           spent' = spent, NEW u \in User, UpToDate(e, u)
    PROVE  UpToDate(e, u)'
<1> DEFINE y == Passed(exec[e], v)
<1>1. u # Absent
  BY RecalcAssumption
<1>2. exec'[e].user # u
  <2>1. exec[e].todo = {} => exec[e].user # u
    BY DEF UpToDate
  <2> QED BY <1>1, <2>1, PassedParts
<1>3. /\ exec'[e].pc # "totals"
      /\ u \in exec'[e].todo => /\ u \in exec[e].todo /\ exec'[e].lad = exec[e].lad
                                /\ exec'[e].amount[u] = exec[e].amount[u]
  BY PassedParts
<1> QED BY <1>2, <1>3 DEF UpToDate

LEMMA UserFailsKeeps ==
    ASSUME Shape, Standing, NEW e \in Exec, UserFails(e) PROVE Standing'
<1>1. /\ exec' = [exec EXCEPT ![e] = Passed(exec[e], exec[e].user)]
      /\ exec'[e] = Passed(exec[e], exec[e].user)
      /\ calm' = calm \ {exec[e].user} /\ UNCHANGED <<places, settled>> /\ Executes
      /\ tiers' = tiers /\ spent' = spent
  BY DEF UserFails, Fails, Executes, Shape, TypeOK
<1>a. exec[e] \in ExecRecord /\ exec[e].todo # {}
  BY DEF UserFails, Shape, TypeOK, ExecShape, ShapeOf, Placing
<1>2. \A u \in calm' \cup settled : UpToDate(e, u)'
  BY <1>1, <1>a, StandingParts, PassedUpToDate
<1>3. \A u \in calm' \ settled : u \in exec[e].todo => u \in Passed(exec[e], exec[e].user).todo
  BY <1>1, <1>a, PassedParts
<1> QED BY <1>1, <1>2, <1>3, ExecKeeps

LEMMA SyncFailsKeeps ==
    ASSUME Shape, Standing, NEW e \in Exec, NEW v \in User, SyncFails(e, v)
    PROVE  Standing'
<1>1. /\ exec' = [exec EXCEPT ![e] = Passed(exec[e], v)]
      /\ exec'[e] = Passed(exec[e], v)
      /\ calm' = calm \ {v} /\ UNCHANGED <<places, settled>> /\ Executes
      /\ tiers' = tiers /\ spent' = spent
  BY DEF SyncFails, Fails, Executes, Shape, TypeOK
<1>a. exec[e] \in ExecRecord /\ exec[e].todo # {}
  BY DEF SyncFails, Shape, TypeOK, ExecShape, ShapeOf, Placing
<1>2. \A u \in calm' \cup settled : UpToDate(e, u)'
  BY <1>1, <1>a, StandingParts, PassedUpToDate
<1>3. \A u \in calm' \ settled : u \in exec[e].todo => u \in Passed(exec[e], v).todo
  BY <1>1, <1>a, PassedParts
<1> QED BY <1>1, <1>2, <1>3, ExecKeeps

LEMMA ReadFailsKeeps ==
    ASSUME Shape, Standing, NEW e \in Exec, ReadFails(e) PROVE Standing'
<1>1. /\ exec' = [exec EXCEPT ![e] = Idle] /\ exec'[e] = Idle
      /\ exec[e].todo = {} /\ UNCHANGED <<tiers, spent, places, payjob, adm, history>>
      /\ \A d \in Exec \ {e} : exec'[d] = exec[d]
  BY DEF ReadFails, Shape, TypeOK, ExecShape, ShapeOf, Placing
<1>2. ASSUME NEW u \in calm' \cup settled' PROVE Kept(u)'
  <2>1. u \in User /\ Kept(u) /\ u # Absent /\ \A d \in Exec : UpToDate(d, u)
    BY <1>1, RecalcAssumption, StandingParts DEF history
  <2>2. UpToDate(e, u)'
    BY <1>1, <2>1, IdleParts, EmptyUpToDate
  <2>3. \A d \in Exec \ {e} : UpToDate(d, u)'
    BY <1>1, <2>1 DEF UpToDate, places
  <2> QED BY <1>1, <2>1, <2>2, <2>3 DEF places, history, Kept, Undisturbed, InPlace
<1>3. NobodyLeftOut'
  BY <1>1, NobodyKeeps DEF Standing, history
<1> QED BY <1>2, <1>3 DEF Standing

\* The payment worker lets go of a job, for good or until it is tried again.
LEMMA JobEndsKeeps ==
    ASSUME Shape, Standing, NEW p \in Pay, JobDone(p) \/ JobFails(p) PROVE Standing'
<1>0. Payments \in Exec
  BY DEF Exec
<1>1. /\ exec' = [exec EXCEPT ![Payments] = Idle] /\ exec'[Payments] = Idle
      /\ UNCHANGED <<tiers, spent, places, adm, history>>
      /\ \A d \in Exec \ {Payments} : exec'[d] = exec[d]
  BY <1>0 DEF JobDone, JobFails, Shape, TypeOK
<1>2. \A q \in Pay : payjob[q].st = "none" => payjob'[q].st = "none"
  BY DEF JobDone, JobFails, Shape, TypeOK
<1>3. ASSUME NEW u \in calm' \cup settled' PROVE Kept(u)'
  <2>1. u \in User /\ Kept(u) /\ u # Absent /\ \A d \in Exec : UpToDate(d, u)
    BY <1>1, RecalcAssumption, StandingParts DEF history
  <2>2. UpToDate(Payments, u)'
    BY <1>0, <1>1, <2>1, IdleParts, EmptyUpToDate
  <2>3. \A d \in Exec \ {Payments} : UpToDate(d, u)'
    BY <1>1, <2>1 DEF UpToDate, places
  <2> QED BY <1>1, <1>2, <2>1, <2>2, <2>3 DEF places, history, Kept, Undisturbed, InPlace
<1>4. NobodyLeftOut'
  BY <1>1, NobodyKeeps DEF Standing, history
<1> QED BY <1>3, <1>4 DEF Standing

LEMMA RestartKeeps == ASSUME Shape, Standing, Restart PROVE Standing'
<1>1. ASSUME NEW u \in calm' \cup settled' PROVE Kept(u)'
  <2>1. u \in User /\ u # Absent /\ Kept(u) /\ u \in settled
    BY StandingParts, RecalcAssumption DEF Restart
  <2>2. ASSUME NEW e \in Exec PROVE UpToDate(e, u)'
    <3>1. exec'[e] = Idle
      BY DEF Restart
    <3> QED BY <2>1, <3>1, IdleParts, EmptyUpToDate
  <2>3. adm'.user # u
    BY <2>1, NoAdmParts DEF Restart
  <2>4. \A p \in Pay : Payer[p] = u => payjob'[p].st = "none"
    BY <2>1 DEF Restart, Kept, Undisturbed
  <2> QED BY <2>1, <2>2, <2>3, <2>4 DEF Restart, places, Kept, Undisturbed, InPlace
<1>2. NobodyLeftOut'
  BY DEF NobodyLeftOut, Restart
<1> QED BY <1>1, <1>2 DEF Standing

\* What a recalculation writes for a customer it found calm is true of him.
LEMMA SyncTotalKeeps ==
    ASSUME Shape, Standing, NEW e \in Exec, NEW v \in User, SyncTotal(e, v)
    PROVE  Standing'
<1> DEFINE x == exec[e]
<1>1. PICK t \in Deserved(x.lad, x.amount[v]) :
        exec' = [exec EXCEPT ![e] =
                   Execution("find", x.tries, x.lad, x.todo, x.amount, v, t)]
  BY DEF SyncTotal
<1> DEFINE y == Execution("find", x.tries, x.lad, x.todo, x.amount, v, t)
<1>2. /\ exec'[e] = y
      /\ y.pc = "find" /\ y.lad = x.lad /\ y.todo = x.todo /\ y.amount = x.amount
      /\ y.user = v /\ y.tier = t /\ x.pc = "next" /\ v \in x.todo /\ e # Payments
  BY <1>1, ExecutionParts DEF SyncTotal, Shape, TypeOK, ExecShape, ShapeOf
<1>3. /\ UNCHANGED <<row, level, history, tiers, spent, payjob, adm>>
      /\ \A d \in Exec \ {e} : exec'[d] = exec[d]
      /\ total' = [total EXCEPT ![v] = x.amount[v]]
  BY <1>1 DEF SyncTotal, Executes, Shape, TypeOK
<1>4. ASSUME NEW u \in calm' \cup settled' PROVE Kept(u)'
  <2>1. u \in User /\ Kept(u) /\ \A d \in Exec : UpToDate(d, u)
    BY <1>3, StandingParts DEF history
  <2>2. u = v => total'[u] = spent[u] /\ x.lad = tiers /\ x.amount[u] = spent[u]
    BY <1>2, <1>3, <2>1 DEF UpToDate, Shape, TypeOK
  <2>3. u # v => total'[u] = total[u]
    BY <1>3, <2>1 DEF Shape, TypeOK
  <2>4. UpToDate(e, u)'
    BY <1>1, <1>2, <1>3, <2>1, <2>2 DEF UpToDate
  <2>5. \A d \in Exec \ {e} : UpToDate(d, u)'
    BY <1>3, <2>1, <2>2, <2>3 DEF UpToDate
  <2>6. Undisturbed(u)'
    BY <1>3, <2>1, <2>4, <2>5 DEF Kept, Undisturbed
  <2>7. u \in settled' => InPlace(u)'
    BY <1>3, <2>1, <2>2, <2>3 DEF Kept, InPlace, history
  <2> QED BY <2>6, <2>7 DEF Kept
<1>5. NobodyLeftOut'
  BY <1>2, <1>3, NobodyKeeps DEF Standing, history
<1> QED BY <1>4, <1>5 DEF Standing

LEMMA UpsertKeeps == ASSUME Shape, Standing, NEW e \in Exec, Upsert(e) PROVE Standing'
<1> DEFINE x == exec[e]
           y == Execution("level", x.tries, x.lad, x.todo, x.amount, x.user, x.tier)
<1>1. /\ exec'[e] = y
      /\ y.pc = "level" /\ y.lad = x.lad /\ y.todo = x.todo /\ y.amount = x.amount
      /\ y.user = x.user /\ y.tier = x.tier /\ x.pc = "upsert"
      /\ x.user \in User /\ x.tier \in Tier
  BY ExecutionParts DEF Upsert, Moves, Shape, TypeOK, ExecShape, ShapeOf, Placing
<1>2. /\ UNCHANGED <<total, level, history, tiers, spent, payjob, adm>>
      /\ \A d \in Exec \ {e} : exec'[d] = exec[d]
      /\ row' = [row EXCEPT ![x.user] = Membership(x.tier, "normal")]
  BY DEF Upsert, Moves, Executes, Shape, TypeOK
<1>3. /\ row'[x.user] # Absent /\ row'[x.user].tier = x.tier
      /\ \A u \in User \ {x.user} : row'[u] = row[u]
  BY <1>1, <1>2, MembershipParts DEF Shape, TypeOK, Status
<1>4. ASSUME NEW u \in calm' \cup settled' PROVE Kept(u)'
  <2>1. u \in User /\ Kept(u) /\ \A d \in Exec : UpToDate(d, u)
    BY <1>2, StandingParts DEF history
  <2>2. u = x.user => row'[u].tier \in Deserved(tiers, spent[u]) /\ row'[u] # Absent
    BY <1>3, <2>1 DEF UpToDate
  <2>3. u # x.user => row'[u] = row[u]
    BY <1>3, <2>1
  <2>4. UpToDate(e, u)'
    BY <1>1, <1>2, <2>1, <2>2 DEF UpToDate
  <2>5. \A d \in Exec \ {e} : UpToDate(d, u)'
    BY <1>2, <2>1, <2>2, <2>3 DEF UpToDate
  <2>6. Undisturbed(u)'
    BY <1>2, <2>1, <2>4, <2>5 DEF Kept, Undisturbed
  <2>7. u \in settled' => InPlace(u)'
    BY <1>2, <2>1, <2>2, <2>3 DEF Kept, InPlace, history
  <2> QED BY <2>6, <2>7 DEF Kept
<1>5. NobodyLeftOut'
  BY <1>1, <1>2, NobodyKeeps DEF Standing, history
<1> QED BY <1>4, <1>5 DEF Standing

LEMMA SetLevelKeeps == ASSUME Shape, Standing, NEW e \in Exec, SetLevel(e) PROVE Standing'
<1> DEFINE x == exec[e]
<1>1. /\ exec'[e] = Passed(x, x.user) /\ x.pc = "level"
      /\ x.user \in User /\ x.tier \in Tier /\ x \in ExecRecord
      /\ x.todo = {} => e = Payments
  BY DEF SetLevel, Shape, TypeOK, ExecShape, ShapeOf, Placing
<1>2. /\ UNCHANGED <<total, row, calm, tiers, spent, payjob, adm>>
      /\ \A d \in Exec \ {e} : exec'[d] = exec[d]
      /\ level' = [level EXCEPT ![x.user] = x.tier]
      /\ settled' = settled \cup ({x.user} \cap calm)
  BY DEF SetLevel, Executes, Shape, TypeOK
<1>3. ASSUME NEW u \in calm' \cup settled' PROVE Kept(u)'
  <2>1. u \in User /\ Kept(u) /\ \A d \in Exec : UpToDate(d, u)
    BY <1>2, StandingParts
  <2>2. UpToDate(e, u)'
    BY <1>1, <1>2, <2>1, PassedUpToDate
  <2>3. \A d \in Exec \ {e} : UpToDate(d, u)'
    BY <1>2, <2>1 DEF UpToDate
  <2>4. Undisturbed(u)'
    BY <1>2, <2>1, <2>2, <2>3 DEF Kept, Undisturbed
  <2>5. u \in settled' => InPlace(u)'
    <3>1. CASE u = x.user
      <4>1. /\ x.tier \in Deserved(tiers, spent[u]) /\ total[u] = spent[u]
            /\ row[u] # Absent /\ row[u].tier \in Deserved(tiers, spent[u])
        BY <1>1, <2>1, <3>1 DEF UpToDate
      <4>2. level'[u] = x.tier
        BY <1>2, <2>1, <3>1 DEF Shape, TypeOK
      <4> QED BY <1>2, <4>1, <4>2 DEF InPlace
    <3>2. CASE u # x.user
      <4>1. level'[u] = level[u] /\ (u \in settled' => u \in settled)
        BY <1>2, <2>1, <3>2 DEF Shape, TypeOK
      <4> QED BY <1>2, <2>1, <4>1 DEF Kept, InPlace
    <3> QED BY <3>1, <3>2
  <2> QED BY <2>4, <2>5 DEF Kept
<1>4. NobodyLeftOut'
  BY <1>1, <1>2, PassedParts, NobodyKeeps DEF Standing
<1> QED BY <1>3, <1>4 DEF Standing

LEMMA StandingInit == Init => Standing
BY DEF Init, Standing, NobodyLeftOut

LEMMA RunKeeps == ASSUME Shape, Standing, NEW e \in Exec, Run(e) PROVE Standing'
<1>1. ASSUME NEW u \in User, SyncTotal(e, u) \/ SyncFails(e, u) PROVE Standing'
  BY <1>1, SyncTotalKeeps, SyncFailsKeeps
<1>2. ASSUME ReadTiers(e) \/ ReadTotals(e) PROVE Standing'
  BY <1>2, ReadTiersKeeps, ReadTotalsKeeps
<1>3. ASSUME Find(e) \/ Upsert(e) \/ SetLevel(e) PROVE Standing'
  BY <1>3, FindKeeps, UpsertKeeps, SetLevelKeeps
<1>4. ASSUME UserFails(e) \/ ReadFails(e) PROVE Standing'
  BY <1>4, UserFailsKeeps, ReadFailsKeeps
<1> QED BY <1>1, <1>2, <1>3, <1>4 DEF Run

LEMMA AdminKeeps == ASSUME Shape, Standing, Admin PROVE Standing'
<1>1. ASSUME NEW t \in Tier, NEW price \in Price[t],
             CreateTier(t, price) \/ BulkUpdateTier(t, price)
      PROVE  Standing'
  BY <1>1, SetTierKeeps DEF CreateTier, BulkUpdateTier
<1>2. ASSUME NEW t \in Tier, NEW price \in Price[t], NEW e \in Edit, UpdateTier(t, price, e)
      PROVE  Standing'
  BY <1>2, SetTierKeeps DEF UpdateTier
<1>3. ASSUME NEW t \in Tier, RemoveTier(t) PROVE Standing'
  BY <1>3, SetTierKeeps DEF RemoveTier
<1>4. ASSUME NEW u \in User, NEW w \in Wish,
             \/ Assign(u, w) \/ RemoveUserMembership(u)
             \/ UpdateUserMembership(u, w) \/ UpdateUser(u, w)
      PROVE  Standing'
  BY <1>4, CustomerKeeps
<1>5. ASSUME NEW u \in User, RemoveUserMembership(u) PROVE Standing'
  BY <1>5, DisturbKeeps DEF RemoveUserMembership, ByAdmin, Shape, TypeOK
<1>6. ASSUME WriteRow \/ WriteLevel \/ SyncByLevel \/ SyncUpsert \/ SetStatus
      PROVE  Standing'
  BY <1>6, RequestKeeps
<1>7. ASSUME RecalculateAll PROVE Standing'
  BY <1>7, QueueKeeps
<1> QED BY <1>1, <1>2, <1>3, <1>4, <1>5, <1>6, <1>7 DEF Admin

LEMMA StandingStep == Shape /\ Standing /\ [Next]_vars => Standing'
<1> SUFFICES ASSUME Shape, Standing, [Next]_vars PROVE Standing'
  OBVIOUS
<1>1. ASSUME NEW p \in Pay, Confirm(p) \/ Enqueue(p) \/ Age(p) PROVE Standing'
  BY <1>1, ConfirmKeeps, QueueKeeps, AgeKeeps
<1>a. ASSUME NEW p \in Pay, PaymentsTakes(p) \/ JobDone(p) \/ JobFails(p) PROVE Standing'
  BY <1>a, PaymentsTakesKeeps, JobEndsKeeps
<1>2. ASSUME NEW p \in Pay, NEW refund \in {Worth[p], Part[p]}, Reverse(p, refund)
      PROVE  Standing'
  BY <1>2, ReverseKeeps
<1>3. ASSUME ReadTotal \/ \E k \in 1..Attempts : WorkerTakes(k) PROVE Standing'
  BY <1>3, WorkerTakesKeeps, ReadTotalKeeps
<1>4. ASSUME NEW e \in Exec, Run(e) PROVE Standing'
  BY <1>4, RunKeeps
<1>5. ASSUME Admin \/ Restart PROVE Standing'
  BY <1>5, AdminKeeps, RestartKeeps
<1>6. CASE UNCHANGED vars
  <2>1. ASSUME NEW u \in calm' \cup settled' PROVE Kept(u)'
    <3>1. u \in User /\ Kept(u)
      BY <1>6, StandingParts DEF vars
    <3> QED BY <1>6, <3>1, KeptSame DEF vars, Kept, Undisturbed
  <2>2. NobodyLeftOut'
    BY <1>6 DEF vars, Standing, NobodyLeftOut
  <2> QED BY <2>1, <2>2 DEF Standing
<1> QED BY <1>1, <1>a, <1>2, <1>3, <1>4, <1>5, <1>6 DEF Next

\* The inductive invariant.
LEMMA RecalcCorrect == Spec => []RecalcInv
<1>1. Shape /\ Standing => RecalcInv
  BY DEF Shape, Standing, Kept, Settled, RecalcInv
<1> QED BY <1>1, TypeInit, TypeStep, StandingInit, StandingStep, PTL DEF Spec

\* Whom a recalculation has passed undisturbed is in his place.
THEOREM SettledHolds == Spec => []Settled
<1>1. RecalcInv => Settled BY DEF RecalcInv
<1> QED BY <1>1, RecalcCorrect, PTL

\* Nobody it found calm is left out.
THEOREM NobodyLeftOutHolds == Spec => []NobodyLeftOut
<1>1. RecalcInv => NobodyLeftOut BY DEF RecalcInv
<1> QED BY <1>1, RecalcCorrect, PTL
=============================================================================
