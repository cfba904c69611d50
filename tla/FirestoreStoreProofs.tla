------------------------ MODULE FirestoreStoreProofs ------------------------
(***************************************************************************)
(* Proofs about FirestoreStore, for every set of jobs and clients and      *)
(* every value of the limits, the lease and the clock.                     *)
(***************************************************************************)
EXTENDS FirestoreStore, JobStoreRefinement

\* Calls have their types, and tx is a table of calls.
TxTypeOK == tx \in [Clients -> {Idle} \cup Creating \cup Reading]

\* A call read the clock in the past, and it goes on only if its function
\* found a reason to write in what it read.
TxInv ==
    \A c \in Clients :
        /\ tx[c].phase # "idle" => tx[c].at <= now
        /\ tx[c].phase = "read" =>
              Applies(tx[c].op, tx[c].doc, tx[c].quota, tx[c].attempt, tx[c].at)

CallsInv == TxTypeOK /\ TxInv

-----------------------------------------------------------------------------
(* A commit is one operation applied to the documents as they are.         *)

\* The operation op of attempt a that read the clock at t is applied to j.
Applied(op, j, a, t) ==
    LET day == QuotaDay(op, jobs[j], t)
        quota == IF op \in QuotaOps THEN quotas[day] ELSE NoQuota
    IN  /\ t <= now
        /\ Applies(op, jobs[j], quota, a, t)
        /\ jobs' = [jobs EXCEPT ![j] = DocAfter(op, jobs[j], a, t)]
        /\ quotas' = IF op \in QuotaOps
                     THEN [quotas EXCEPT ![day] = QuotaAfter(op, quotas[day])]
                     ELSE quotas
        /\ UNCHANGED now

\* What a client reads as its call is a reading call.
LEMMA ReadingCall ==
    ASSUME TxTypeOK, NEW c \in Clients, tx[c].phase = "read"
    PROVE  tx[c] \in Reading
BY DEF TxTypeOK, Idle, Creating, Reading

LEMMA CommitIsApplied ==
    ASSUME CallsInv, NEW c \in Clients, Commit(c), NEW r \in Reading, r = tx[c]
    PROVE  Applied(r.op, r.job, r.attempt, r.at)
<1>1. r.at <= now /\ Applies(r.op, r.doc, r.quota, r.attempt, r.at)
  BY DEF CallsInv, TxInv, Reading
<1>2. jobs[r.job] = r.doc
  BY DEF Commit, Current, TransactionReads
<1>3. r.op \in QuotaOps => quotas[QuotaDay(r.op, r.doc, r.at)] = r.quota
  BY DEF Commit, Current, TransactionReads
<1>4. r.op \notin QuotaOps => Applies(r.op, r.doc, NoQuota, r.attempt, r.at)
  BY <1>1 DEF Applies, QuotaOps
<1> QED BY <1>1, <1>2, <1>3, <1>4 DEF Applied, Commit

LEMMA CommitApplies ==
    ASSUME CallsInv, NEW c \in Clients, Commit(c)
    PROVE  \E op \in Ops, j \in JobIds, a \in 0..MaxClaims, t \in Times : Applied(op, j, a, t)
<1>1. PICK r \in Reading : r = tx[c]
  BY ReadingCall DEF CallsInv, Commit
<1>2. r.op \in Ops /\ r.job \in JobIds /\ r.attempt \in 0..MaxClaims /\ r.at \in Times
  BY DEF Reading
<1> QED BY <1>1, <1>2, CommitIsApplied

\* Every step is a commit, a tick, or changes neither documents nor clock.
LEMMA StepKinds ==
    ASSUME CallsInv, [FNext]_fvars
    PROVE  \/ \E op \in Ops, j \in JobIds, a \in 0..MaxClaims, t \in Times : Applied(op, j, a, t)
           \/ Tick
           \/ UNCHANGED vars
<1>1. CASE UNCHANGED fvars
  BY <1>1 DEF fvars, vars
<1>2. CASE FTick
  BY <1>2 DEF FTick
<1>3. ASSUME NEW c \in Clients, CallCreate(c) \/ ReadCreate(c) \/ ReadOther(c) \/ Refused(c)
      PROVE  UNCHANGED vars
  BY <1>3 DEF CallCreate, ReadCreate, ReadOther, Refused
<1> QED BY <1>1, <1>2, <1>3, CommitApplies DEF FNext

-----------------------------------------------------------------------------
(* Types.                                                                  *)

\* The document an operation writes is a document.
LEMMA DocAfterType ==
    ASSUME NEW op \in Ops, NEW doc \in Job, NEW quota, NEW a \in 0..MaxClaims, NEW t \in Times,
           Applies(op, doc, quota, a, t)
    PROVE  DocAfter(op, doc, a, t) \in Job
<1>1. /\ LeaseUntil(t) \in 0..(MaxNow + LeaseSeconds)
      /\ 0 \in 0..(MaxNow + LeaseSeconds)
      /\ 0 \in 0..MaxClaims
  BY LeaseAssumption, ClockAssumption, ClaimsAssumption DEF LeaseUntil, Times
<1>2. CASE op = CreateOp
  <2>1. NewJob("queued", DayKey(t)) \in Job
    BY <1>1, DaysOfTimes DEF NewJob, Job, Statuses
  <2> QED BY <1>2, <2>1 DEF DocAfter, CreateOp
<1>3. CASE op = "claim"
  <2> DEFINE n == doc.attempt_id + 1
             e == [attempt_id |-> n, started_at |-> t]
  <2>1. n \in AttemptIds /\ e \in Entry /\ n \in 0..MaxClaims
    BY <1>3, ClaimsAssumption DEF Applies, CreateOp, OwnerOps, Entry, AttemptIds, Job
  <2>2. Remember(doc.attempts, e) \in Seq(Entry)
    BY <2>1, RememberProperties DEF Job, Entry
  <2>3. DocAfter(op, doc, a, t) = [doc EXCEPT !.status = "running", !.attempt_id = n,
            !.lease_expires_at = LeaseUntil(t), !.attempts = Remember(doc.attempts, e)]
    BY <1>3 DEF DocAfter, CreateOp
  <2> HIDE DEF n, e
  <2> QED BY <1>1, <2>1, <2>2, <2>3 DEF Job, Statuses, Entry
<1>4. CASE op \in {"renew", "progress", "retry", "cancel"}
  BY <1>1, <1>4 DEF DocAfter, CreateOp, Job, Statuses
<1>5. CASE op \in {"complete", "fail"}
  BY <1>1, <1>5 DEF DocAfter, CreateOp, Finished, Job, Statuses
<1> QED BY <1>2, <1>3, <1>4, <1>5 DEF Ops, OwnerOps, CreateOp

LEMMA QuotaAfterType ==
    ASSUME NEW op, NEW quota \in [active : Nat, created : Nat]
    PROVE  QuotaAfter(op, quota) \in [active : Nat, created : Nat]
BY DEF QuotaAfter

LEMMA DayOfQuota ==
    ASSUME TypeOK, NEW op, NEW j \in JobIds, NEW t \in Times
    PROVE  QuotaDay(op, jobs[j], t) \in Days
BY DaysOfTimes DEF QuotaDay, TypeOK, Job

LEMMA DocumentsTyped == TypeOK /\ CallsInv /\ [FNext]_fvars => TypeOK'
<1> SUFFICES ASSUME TypeOK, CallsInv, [FNext]_fvars PROVE TypeOK'
  OBVIOUS
<1>1. ASSUME NEW op \in Ops, NEW j \in JobIds, NEW a \in 0..MaxClaims, NEW t \in Times,
             Applied(op, j, a, t)
      PROVE  TypeOK'
  <2>1. DocAfter(op, jobs[j], a, t) \in Job
    BY <1>1, DocAfterType DEF Applied, TypeOK
  <2>2. PICK day \in Days : day = QuotaDay(op, jobs[j], t)
    BY DayOfQuota
  <2>3. QuotaAfter(op, quotas[day]) \in [active : Nat, created : Nat]
    BY QuotaAfterType DEF TypeOK
  <2>4. jobs' \in [JobIds -> Job] /\ now' \in Times
    BY <1>1, <2>1 DEF Applied, TypeOK
  <2>5. quotas' \in [Days -> [active : Nat, created : Nat]]
    BY <1>1, <2>2, <2>3 DEF Applied, TypeOK
  <2> QED BY <2>4, <2>5 DEF TypeOK
<1>2. CASE Tick \/ UNCHANGED vars
  BY <1>2, NextType DEF Next
<1> QED BY <1>1, <1>2, StepKinds

\* A reading call, and the call of a client that reads, are calls.
LEMMA ReadTyped ==
    ASSUME TypeOK, TxTypeOK, NEW c \in Clients, NEW op \in Ops, NEW j \in JobIds,
           NEW a \in 0..MaxClaims, NEW t \in Times, t <= now, Read(c, op, j, a, t)
    PROVE  /\ TxTypeOK'
           /\ \A b \in Clients : b # c => tx'[b] = tx[b]
           /\ tx'[c].phase # "idle" => tx'[c].at <= now
           /\ tx'[c].phase = "read" =>
                 Applies(tx'[c].op, tx'[c].doc, tx'[c].quota, tx'[c].attempt, tx'[c].at)
<1> DEFINE quota == IF op \in QuotaOps THEN quotas[QuotaDay(op, jobs[j], t)] ELSE NoQuota
           call == [phase |-> "read", op |-> op, job |-> j, attempt |-> a,
                    at |-> t, doc |-> jobs[j], quota |-> quota]
<1>1. jobs[j] \in Job /\ quota \in [active : Nat, created : Nat]
  BY DayOfQuota DEF TypeOK, NoQuota
<1>2. tx' = [tx EXCEPT ![c] = IF Applies(op, jobs[j], quota, a, t) THEN call ELSE Idle]
  BY DEF Read
<1> HIDE DEF quota
<1>3. call \in Reading
  BY <1>1 DEF Reading
<1>4. Idle \notin Reading /\ Idle.phase = "idle" /\ call.phase = "read"
  BY DEF Idle, Reading
<1>5. CASE Applies(op, jobs[j], quota, a, t)
  <2>1. tx' = [tx EXCEPT ![c] = call]
    BY <1>2, <1>5
  <2>2. TxTypeOK' /\ tx'[c] = call /\ \A b \in Clients : b # c => tx'[b] = tx[b]
    BY <1>3, <2>1 DEF TxTypeOK
  <2> QED BY <1>5, <2>2
<1>6. CASE ~Applies(op, jobs[j], quota, a, t)
  <2>1. tx' = [tx EXCEPT ![c] = Idle]
    BY <1>2, <1>6
  <2>2. TxTypeOK' /\ tx'[c] = Idle /\ \A b \in Clients : b # c => tx'[b] = tx[b]
    BY <2>1 DEF TxTypeOK
  <2> QED BY <1>4, <2>2
<1> QED BY <1>5, <1>6

LEMMA CallsStep == TypeOK /\ CallsInv /\ [FNext]_fvars => CallsInv'
<1> SUFFICES ASSUME TypeOK, CallsInv, [FNext]_fvars PROVE CallsInv'
  OBVIOUS
<1> DEFINE Held(r, t) ==
       /\ r.phase # "idle" => r.at <= t
       /\ r.phase = "read" => Applies(r.op, r.doc, r.quota, r.attempt, r.at)
<1>0. now \in Nat /\ \A c \in Clients : Held(tx[c], now)
  BY ClockAssumption DEF TypeOK, Times, CallsInv, TxInv
<1>1. ASSUME NEW c \in Clients, TxTypeOK', now' = now, Held(tx'[c], now),
             \A b \in Clients : b # c => tx'[b] = tx[b]
      PROVE  CallsInv'
  BY <1>0, <1>1 DEF CallsInv, TxInv
<1>2. Held(Idle, now)
  BY DEF Idle
<1>3. ASSUME NEW c \in Clients, tx' = [tx EXCEPT ![c] = Idle], now' = now PROVE CallsInv'
  <2>1. TxTypeOK' /\ tx'[c] = Idle /\ \A b \in Clients : b # c => tx'[b] = tx[b]
    BY <1>3 DEF CallsInv, TxTypeOK
  <2> QED BY <1>1, <1>2, <1>3, <2>1
<1>4. ASSUME NEW c \in Clients, NEW j \in JobIds, NEW t \in Times, t <= now, now' = now,
             tx' = [tx EXCEPT ![c] = [phase |-> "called", job |-> j, at |-> t]]
      PROVE  CallsInv'
  <2>1. [phase |-> "called", job |-> j, at |-> t] \in Creating
    BY DEF Creating
  <2>2. /\ TxTypeOK' /\ tx'[c] = [phase |-> "called", job |-> j, at |-> t]
        /\ \A b \in Clients : b # c => tx'[b] = tx[b]
    BY <1>4, <2>1 DEF CallsInv, TxTypeOK
  <2>3. Held(tx'[c], now)
    BY <1>4, <2>2
  <2> QED BY <1>1, <1>4, <2>2, <2>3
<1>5. ASSUME NEW c \in Clients, NEW op \in Ops, NEW j \in JobIds, NEW a \in 0..MaxClaims,
             NEW t \in Times, t <= now, Read(c, op, j, a, t), now' = now
      PROVE  CallsInv'
  BY <1>1, <1>5, ReadTyped DEF CallsInv
<1>6. ASSUME NEW c \in Clients, CallCreate(c) PROVE CallsInv'
  <2>1. now \in Times /\ now <= now /\ now' = now
    BY <1>0, <1>6 DEF TypeOK, CallCreate, vars
  <2> QED BY <1>4, <1>6, <2>1 DEF CallCreate
<1>7. ASSUME NEW c \in Clients, ReadCreate(c) PROVE CallsInv'
  <2>1. tx[c] \in Creating
    BY <1>7 DEF ReadCreate, CallsInv, TxTypeOK, Idle, Reading
  <2>2. tx[c].job \in JobIds /\ tx[c].at \in Times /\ tx[c].at <= now
    BY <1>0, <1>7, <2>1 DEF Creating, ReadCreate
  <2>3. CreateOp \in Ops /\ 0 \in 0..MaxClaims /\ now' = now
    BY <1>7, ClaimsAssumption DEF Ops, ReadCreate, vars
  <2> QED BY <1>5, <1>7, <2>2, <2>3 DEF ReadCreate
<1>8. ASSUME NEW c \in Clients, ReadOther(c) PROVE CallsInv'
  <2>1. PICK op \in Ops, j \in JobIds, a \in 0..MaxClaims : Read(c, op, j, a, now)
    BY <1>8 DEF ReadOther
  <2>2. now \in Times /\ now <= now /\ now' = now
    BY <1>0, <1>8 DEF TypeOK, ReadOther, vars
  <2> QED BY <1>5, <2>1, <2>2
<1>9. ASSUME NEW c \in Clients, Commit(c) PROVE CallsInv'
  BY <1>3, <1>9 DEF Commit
<1>10. ASSUME NEW c \in Clients, Refused(c) PROVE CallsInv'
  <2>1. PICK r \in Reading : r = tx[c]
    BY <1>10, ReadingCall DEF CallsInv, Refused
  <2>2. r.job \in JobIds /\ r.at \in Times /\ r.at <= now /\ now' = now
    BY <1>0, <1>10, <2>1 DEF Reading, Refused, vars
  <2>3. \/ tx' = [tx EXCEPT ![c] = Idle]
        \/ tx' = [tx EXCEPT ![c] = [phase |-> "called", job |-> r.job, at |-> r.at]]
    BY <1>10, <2>1 DEF Refused
  <2> QED BY <1>3, <1>4, <2>2, <2>3
<1>11. CASE FTick
  <2>1. tx' = tx /\ now' = now + 1
    BY <1>11 DEF FTick, Tick
  <2>2. \A c \in Clients : tx[c].phase # "idle" => tx[c].at \in Nat
    BY ClockAssumption DEF CallsInv, TxTypeOK, Idle, Creating, Reading, Times
  <2> QED BY <1>0, <2>1, <2>2 DEF CallsInv, TxTypeOK, TxInv
<1>12. CASE UNCHANGED fvars
  BY <1>12 DEF fvars, CallsInv, TxTypeOK, TxInv
<1> QED BY <1>6, <1>7, <1>8, <1>9, <1>10, <1>11, <1>12 DEF FNext

LEMMA CallsInit == FInit => TypeOK /\ CallsInv
<1> SUFFICES ASSUME FInit PROVE TypeOK /\ CallsInv
  OBVIOUS
<1>1. TypeOK
  BY InitType DEF FInit
<1>2. TxTypeOK /\ \A c \in Clients : tx[c] = Idle
  BY DEF FInit, TxTypeOK
<1> QED BY <1>1, <1>2 DEF CallsInv, TxInv, Idle

LEMMA CallsCorrect == FSpec => [](TypeOK /\ CallsInv)
BY CallsInit, DocumentsTyped, CallsStep, PTL DEF FSpec

\* Documents, counters and calls have their types.
THEOREM FTypeCorrect == FSpec => []FTypeOK
<1>1. TypeOK /\ CallsInv => FTypeOK
  BY DEF CallsInv, TxTypeOK, FTypeOK
<1> QED BY <1>1, CallsCorrect, PTL

-----------------------------------------------------------------------------
(* What an applied operation does to its document.                         *)

LEMMA AppliedEffect ==
    ASSUME TypeOK, NEW op \in Ops, NEW j \in JobIds, NEW a \in 0..MaxClaims, NEW t \in Times,
           Applied(op, j, a, t)
    PROVE  /\ \A i \in JobIds : i # j => jobs'[i] = jobs[i]
           /\ jobs'[j] = DocAfter(op, jobs[j], a, t)
           /\ op = CreateOp => jobs[j].status = "missing" /\ jobs'[j] = NewJob("queued", DayKey(t))
           /\ op # CreateOp => jobs'[j].quota_day = jobs[j].quota_day
           /\ op = "claim" => /\ Claimable(jobs[j], t) /\ jobs'[j].status = "running"
                              /\ jobs'[j].attempt_id = jobs[j].attempt_id + 1
                              /\ jobs'[j].dossier = jobs[j].dossier
           /\ op \notin {CreateOp, "claim"} => jobs'[j].attempt_id = jobs[j].attempt_id
           /\ op \notin {CreateOp, "complete"} => jobs'[j].dossier = jobs[j].dossier
           /\ op = "cancel" => jobs[j].status = "queued" /\ jobs'[j].status = "failed"
           /\ op \in OwnerOps => HeldBy(jobs[j], a)
           /\ op \in {"renew", "progress"} => jobs'[j].status = "running"
           /\ op = "retry" => jobs'[j].status = "queued"
           /\ op = "fail" => jobs'[j].status = "failed"
           /\ op = "complete" => jobs'[j].status = "complete" /\ jobs'[j].dossier = a
<1>1. jobs'[j] = DocAfter(op, jobs[j], a, t) /\ \A i \in JobIds : i # j => jobs'[i] = jobs[i]
  BY DEF Applied, TypeOK
<1>2. jobs[j] \in Job
  BY DEF TypeOK
<1>3. PICK quota : Applies(op, jobs[j], quota, a, t)
  BY DEF Applied
<1>4. CASE op = CreateOp
  BY <1>1, <1>3, <1>4 DEF Applies, DocAfter, CreateOp, OwnerOps
<1>5. CASE op = "claim"
  BY <1>1, <1>2, <1>3, <1>5 DEF Applies, DocAfter, CreateOp, OwnerOps, Job
<1>6. CASE op = "cancel"
  BY <1>1, <1>2, <1>3, <1>6 DEF Applies, DocAfter, CreateOp, OwnerOps, Job
<1>7. CASE op \in OwnerOps
  <2>1. HeldBy(jobs[j], a)
    BY <1>3, <1>7 DEF Applies, CreateOp, OwnerOps
  <2>2. CASE op \in {"renew", "progress", "retry"}
    BY <1>1, <1>2, <2>1, <2>2 DEF DocAfter, CreateOp, Job, OwnerOps, HeldBy
  <2>3. CASE op = "fail"
    BY <1>1, <1>2, <2>1, <2>3 DEF DocAfter, CreateOp, Job, Finished
  <2>4. CASE op = "complete"
    BY <1>1, <1>2, <2>1, <2>4 DEF DocAfter, CreateOp, Job, Finished
  <2> QED BY <1>7, <2>2, <2>3, <2>4 DEF OwnerOps
<1> QED BY <1>1, <1>4, <1>5, <1>6, <1>7 DEF Ops

-----------------------------------------------------------------------------
(* The counters.                                                           *)

LEMMA QuotaStep == TypeOK /\ QuotaExact /\ CallsInv /\ [FNext]_fvars => QuotaExact'
<1> SUFFICES ASSUME TypeOK, QuotaExact, CallsInv, [FNext]_fvars PROVE QuotaExact'
  OBVIOUS
<1>1. ASSUME NEW op \in Ops, NEW j \in JobIds, NEW a \in 0..MaxClaims, NEW t \in Times,
             Applied(op, j, a, t)
      PROVE  QuotaExact'
  <2>1. CASE op = CreateOp
    <3>1. PICK day \in Days : day = DayKey(t)
      BY DaysOfTimes
    <3>2. /\ jobs[j].status = "missing"
          /\ jobs' = [jobs EXCEPT ![j] = NewJob("queued", day)]
      BY <1>1, <2>1, <3>1 DEF Applied, Applies, DocAfter, CreateOp, OwnerOps
    <3>3. /\ HasCapacity(day)
          /\ quotas' = [quotas EXCEPT ![day] = [active |-> quotas[day].active + 1,
                                                created |-> quotas[day].created + 1]]
      BY <1>1, <2>1, <3>1
      DEF Applied, Applies, QuotaDay, QuotaAfter, QuotaOps, CreateOp, OwnerOps, HasCapacity
    <3>4. /\ quotas'[day].active = quotas[day].active + 1
          /\ quotas'[day].created = quotas[day].created + 1
          /\ \A d \in Days \ {day} : quotas'[d] = quotas[d]
      BY <3>3 DEF TypeOK
    <3> QED BY <3>2, <3>3, <3>4, BookingTakesQuota
  <2>2. CASE op \in {"claim", "renew", "progress", "retry"}
    <3>1. quotas' = quotas
      BY <1>1, <2>2 DEF Applied, QuotaOps, CreateOp, FinishOps
    <3>2. \A i \in JobIds :
              /\ jobs'[i].quota_day = jobs[i].quota_day
              /\ jobs'[i].status \in Live <=> jobs[i].status \in Live
              /\ jobs'[i].status = "missing" <=> jobs[i].status = "missing"
      BY <1>1, <2>2, AppliedEffect DEF CreateOp, OwnerOps, Claimable, HeldBy, Live
    <3> QED BY <3>1, <3>2, KeepsQuota
  <2>3. CASE op \in {"cancel", "complete", "fail"}
    <3>1. PICK day \in Days : day = jobs[j].quota_day
      BY DEF TypeOK, Job
    <3>2. quotas' = [quotas EXCEPT ![day] =
             [quotas[day] EXCEPT !.active = IF @ > 0 THEN @ - 1 ELSE 0]]
      BY <1>1, <2>3, <3>1 DEF Applied, QuotaDay, QuotaAfter, QuotaOps, CreateOp, FinishOps
    <3>3. quotas' = DecrementActive(day)
      BY <3>2 DEF DecrementActive
    <3>4. /\ jobs[j].status \in Live /\ jobs'[j].status \in Terminal
          /\ jobs'[j].quota_day = jobs[j].quota_day
          /\ \A i \in JobIds \ {j} : jobs'[i] = jobs[i]
      BY <1>1, <2>3, AppliedEffect DEF CreateOp, OwnerOps, HeldBy, Live, Terminal
    <3> QED BY <3>1, <3>3, <3>4, ReleasesQuota
  <2> QED BY <2>1, <2>2, <2>3 DEF Ops, OwnerOps
<1>2. CASE Tick \/ UNCHANGED vars
  BY <1>2, NextQuota DEF Next
<1> QED BY <1>1, <1>2, StepKinds

\* The counters of the documents are exact whatever the transactions overlap:
\* each of them also reads the quota document it writes.
THEOREM FQuotaCorrect == FSpec => []QuotaExact
<1>1. FInit => QuotaExact
  BY InitQuota DEF FInit
<1> QED BY <1>1, QuotaStep, CallsCorrect, PTL DEF FSpec

-----------------------------------------------------------------------------
(* Dossiers, terminal jobs, leases.                                        *)

\* A running job was claimed.
Started == \A j \in JobIds : jobs[j].status = "running" => jobs[j].attempt_id # 0

LEMMA StartedStep == TypeOK /\ CallsInv /\ Started /\ [FNext]_fvars => Started'
<1> SUFFICES ASSUME TypeOK, CallsInv, Started, [FNext]_fvars PROVE Started'
  OBVIOUS
<1>1. ASSUME NEW op \in Ops, NEW j \in JobIds, NEW a \in 0..MaxClaims, NEW t \in Times,
             Applied(op, j, a, t), NEW i \in JobIds, jobs'[i].status = "running"
      PROVE  jobs'[i].attempt_id # 0
  <2>1. CASE i # j
    BY <1>1, <2>1, AppliedEffect DEF Started
  <2>2. CASE i = j /\ op = CreateOp
    <3>1. jobs'[j] = NewJob("queued", DayKey(t))
      BY <1>1, <2>2, AppliedEffect
    <3> QED BY <1>1, <2>2, <3>1 DEF NewJob
  <2>3. CASE i = j /\ op = "claim"
    <3>1. jobs[j].attempt_id \in Nat
      BY ClaimsAssumption DEF TypeOK, Job
    <3> QED BY <1>1, <2>3, <3>1, AppliedEffect
  <2>4. CASE i = j /\ op = "cancel"
    BY <1>1, <2>4, AppliedEffect
  <2>5. CASE i = j /\ op \in OwnerOps
    <3>1. jobs[j].status = "running" /\ op \notin {CreateOp, "claim"}
      BY <1>1, <2>5, AppliedEffect DEF HeldBy, OwnerOps, CreateOp
    <3>2. jobs'[j].attempt_id = jobs[j].attempt_id
      BY <1>1, <3>1, AppliedEffect
    <3> QED BY <2>5, <3>1, <3>2 DEF Started
  <2> QED BY <2>1, <2>2, <2>3, <2>4, <2>5 DEF Ops
<1>2. CASE Tick \/ UNCHANGED vars
  BY <1>2 DEF Tick, vars, Started
<1> QED BY <1>1, <1>2, StepKinds DEF Started

LEMMA DossierStep ==
    TypeOK /\ CallsInv /\ Started /\ DossierFromLastAttempt /\ [FNext]_fvars
        => DossierFromLastAttempt'
<1> SUFFICES ASSUME TypeOK, CallsInv, Started, DossierFromLastAttempt, [FNext]_fvars
             PROVE  DossierFromLastAttempt'
  OBVIOUS
<1> DEFINE Right(job) == /\ job.dossier # 0 <=> job.status = "complete"
                         /\ job.dossier # 0 => job.dossier = job.attempt_id
<1>1. ASSUME NEW op \in Ops, NEW j \in JobIds, NEW a \in 0..MaxClaims, NEW t \in Times,
             Applied(op, j, a, t), NEW i \in JobIds
      PROVE  Right(jobs'[i])
  <2>0. Right(jobs[i])
    BY DEF DossierFromLastAttempt
  <2>1. CASE i # j
    BY <1>1, <2>0, <2>1, AppliedEffect
  <2>2. CASE i = j /\ op = CreateOp
    <3>1. jobs'[j] = NewJob("queued", DayKey(t))
      BY <1>1, <2>2, AppliedEffect
    <3> QED BY <1>1, <2>2, <3>1 DEF NewJob
  <2>3. CASE i = j /\ op = "claim"
    BY <1>1, <2>0, <2>3, AppliedEffect DEF Claimable, CreateOp
  <2>4. CASE i = j /\ op = "cancel"
    BY <1>1, <2>0, <2>4, AppliedEffect DEF CreateOp
  <2>5. CASE i = j /\ op = "complete"
    <3>1. /\ jobs[j].status = "running" /\ jobs[j].attempt_id = a
          /\ jobs'[j].status = "complete" /\ jobs'[j].dossier = a
      BY <1>1, <2>5, AppliedEffect DEF OwnerOps, HeldBy
    <3>2. jobs'[j].attempt_id = a /\ a # 0
      BY <1>1, <2>5, <3>1, AppliedEffect DEF CreateOp, Started
    <3> QED BY <2>5, <3>1, <3>2
  <2>6. CASE i = j /\ op \in OwnerOps \ {"complete"}
    <3>1. /\ jobs[j].status = "running" /\ jobs'[j].dossier = jobs[j].dossier
          /\ jobs'[j].status \in {"running", "queued", "failed"}
      BY <1>1, <2>6, AppliedEffect DEF OwnerOps, HeldBy, CreateOp
    <3> QED BY <2>0, <2>6, <3>1
  <2> QED BY <2>1, <2>2, <2>3, <2>4, <2>5, <2>6 DEF Ops
<1>2. CASE Tick \/ UNCHANGED vars
  BY <1>2 DEF Tick, vars, DossierFromLastAttempt
<1> QED BY <1>1, <1>2, StepKinds DEF DossierFromLastAttempt

LEMMA DossiersCorrect == FSpec => [](TypeOK /\ CallsInv /\ Started /\ DossierFromLastAttempt)
<1>1. FInit => Started /\ DossierFromLastAttempt
  BY DEF FInit, Init, NoJob, NewJob, Started, DossierFromLastAttempt
<1> QED BY <1>1, StartedStep, DossierStep, CallsCorrect, PTL DEF FSpec

\* The document of a complete job holds the dossier of its last attempt, and
\* no other document holds one.
THEOREM FDossierCorrect == FSpec => []DossierFromLastAttempt
BY DossiersCorrect, PTL

\* No commit, however old the reading it is based on, changes the document of
\* a complete or failed job.
THEOREM FTerminalCorrect == FSpec => TerminalIsFinal
<1>1. TypeOK /\ CallsInv /\ [FNext]_fvars =>
        [\A j \in JobIds : jobs[j].status \in Terminal => jobs'[j] = jobs[j]]_vars
  <2> SUFFICES ASSUME TypeOK, CallsInv, [FNext]_fvars, NEW i \in JobIds,
                      jobs[i].status \in Terminal
               PROVE  jobs'[i] = jobs[i]
    OBVIOUS
  <2>1. ASSUME NEW op \in Ops, NEW j \in JobIds, NEW a \in 0..MaxClaims, NEW t \in Times,
               Applied(op, j, a, t)
        PROVE  jobs'[i] = jobs[i]
    <3>1. CASE i # j
      BY <2>1, <3>1, AppliedEffect
    <3>2. CASE i = j
      <4>1. jobs[j].status \in {"missing", "queued", "running"}
        BY <2>1, AppliedEffect DEF Ops, HeldBy, Claimable
      <4> QED BY <3>2, <4>1 DEF Terminal
    <3> QED BY <3>1, <3>2
  <2>2. CASE Tick \/ UNCHANGED vars
    BY <2>2 DEF Tick, vars
  <2> QED BY <2>1, <2>2, StepKinds
<1> QED BY <1>1, CallsCorrect, PTL DEF FSpec, TerminalIsFinal

\* A lease that still runs when a claim commits is not taken away, although
\* the claim looked at an earlier version of the clock.
THEOREM LeaseNotStolenCorrect == FSpec => LeaseNotStolen
<1>1. TypeOK /\ CallsInv /\ [FNext]_fvars =>
        [\A j \in JobIds :
           jobs[j].status = "running" /\ jobs'[j].attempt_id # jobs[j].attempt_id
              => jobs[j].lease_expires_at <= now]_fvars
  <2> SUFFICES ASSUME TypeOK, CallsInv, [FNext]_fvars, NEW i \in JobIds,
                      jobs[i].status = "running", jobs'[i].attempt_id # jobs[i].attempt_id
               PROVE  jobs[i].lease_expires_at <= now
    OBVIOUS
  <2>1. ASSUME NEW op \in Ops, NEW j \in JobIds, NEW a \in 0..MaxClaims, NEW t \in Times,
               Applied(op, j, a, t)
        PROVE  jobs[i].lease_expires_at <= now
    <3>1. i = j /\ op \in {CreateOp, "claim"}
      BY <2>1, AppliedEffect
    <3>2. Claimable(jobs[i], t) /\ t <= now
      BY <2>1, <3>1, AppliedEffect DEF Applied
    <3>3. jobs[i].lease_expires_at \in Nat /\ t \in Nat /\ now \in Nat
      BY ClockAssumption, LeaseAssumption DEF TypeOK, Job, Times
    <3> QED BY <3>2, <3>3 DEF Claimable
  <2>2. CASE Tick \/ UNCHANGED vars
    BY <2>2 DEF Tick, vars
  <2> QED BY <2>1, <2>2, StepKinds
<1> QED BY <1>1, CallsCorrect, PTL DEF FSpec, LeaseNotStolen

-----------------------------------------------------------------------------
(* Every commit but one of fail() is a call of the in-memory adapter.      *)

\* A record of the two counters is determined by them.
LEMMA CountersEqual ==
    ASSUME NEW x \in [active : Nat, created : Nat], NEW y \in [active : Nat, created : Nat],
           x.active = y.active, x.created = y.created
    PROVE  x = y
OBVIOUS

\* Replacing both counters one after the other makes a new record.
LEMMA CountersReplaced ==
    ASSUME NEW q \in [active : Nat, created : Nat], NEW m \in Nat, NEW n \in Nat
    PROVE  [[q EXCEPT !.active = m] EXCEPT !.created = n] = [active |-> m, created |-> n]
<1> DEFINE p == [q EXCEPT !.active = m]
           x == [p EXCEPT !.created = n]
           y == [active |-> m, created |-> n]
<1>1. p \in [active : Nat, created : Nat] /\ p.active = m
  OBVIOUS
<1> HIDE DEF p
<1>2. x \in [active : Nat, created : Nat] /\ x.active = p.active /\ x.created = n
  BY <1>1
<1>3. y \in [active : Nat, created : Nat] /\ y.active = m /\ y.created = n
  OBVIOUS
<1> HIDE DEF x, y
<1>4. x = y
  BY <1>1, <1>2, <1>3, CountersEqual
<1> QED BY <1>4 DEF p, x, y

\* What the in-memory adapter at time t calls its owner, its lease and so on.
LEMMA MemoryOperators ==
    ASSUME NEW t, NEW j, NEW a, NEW h, NEW e, NEW d
    PROVE  /\ Memory(t)!Owns(j, a) <=> HeldBy(jobs[j], a)
           /\ Memory(t)!LeaseUntil(t) = LeaseUntil(t)
           /\ Memory(t)!DecrementActive(d) = DecrementActive(d)
           /\ Memory(t)!Remember(h, e) = Remember(h, e)
           /\ Memory(t)!Today = DayKey(t)
           /\ Memory(t)!HasCapacity(d) <=> HasCapacity(d)
           /\ Memory(t)!NewJob("queued", d) = NewJob("queued", d)
           /\ Memory(t)!AttemptIds = AttemptIds
BY DEF Memory!Owns, Memory!LeaseUntil, Memory!DecrementActive, Memory!Remember, Memory!Today,
       Memory!HasCapacity, Memory!NewJob, Memory!DayKey, Memory!AttemptIds,
       HeldBy, LeaseUntil, DecrementActive, Remember, HasCapacity, NewJob, DayKey, AttemptIds

\* The same, of an operation that was applied.
LEMMA AppliedAsMemory ==
    ASSUME TypeOK, NEW op \in Ops \ {"fail"}, NEW j \in JobIds, NEW a \in 0..MaxClaims,
           NEW t \in Times, Applied(op, j, a, t)
    PROVE  MemoryStep(op, j, a, t)
<1>1. jobs' = [jobs EXCEPT ![j] = DocAfter(op, jobs[j], a, t)] /\ jobs[j] \in Job
  BY DEF Applied, TypeOK
<1>2. op \notin QuotaOps => quotas' = quotas
  BY DEF Applied
<1>3. ASSUME NEW day \in Days, day = jobs[j].quota_day, op \in {"cancel", "complete"}
      PROVE  quotas' = DecrementActive(day)
  BY <1>3 DEF Applied, QuotaDay, QuotaAfter, QuotaOps, CreateOp, FinishOps, DecrementActive
<1>4. CASE op = CreateOp
  <2>1. PICK day \in Days : day = DayKey(t)
    BY DaysOfTimes
  <2>2. jobs' = [jobs EXCEPT ![j] = NewJob("queued", day)] /\ jobs[j].status = "missing"
    <3>1. jobs[j].status = "missing"
      BY <1>4, AppliedEffect
    <3>2. DocAfter(op, jobs[j], a, t) = NewJob("queued", day)
      BY <1>4, <2>1 DEF DocAfter, CreateOp
    <3> QED BY <1>1, <3>1, <3>2
  <2>3. /\ HasCapacity(day)
        /\ quotas' = [quotas EXCEPT ![day] = [active |-> quotas[day].active + 1,
                                              created |-> quotas[day].created + 1]]
    BY <1>4, <2>1
    DEF Applied, Applies, QuotaDay, QuotaAfter, QuotaOps, CreateOp, OwnerOps, HasCapacity
  <2>4. PICK q \in [active : Nat, created : Nat] : q = quotas[day]
    BY DEF TypeOK
  <2>5. [[q EXCEPT !.active = q.active + 1] EXCEPT !.created = q.created + 1]
          = [active |-> q.active + 1, created |-> q.created + 1]
    <3>1. q.active + 1 \in Nat /\ q.created + 1 \in Nat
      OBVIOUS
    <3> QED BY <3>1, CountersReplaced
  <2>6. quotas' = [quotas EXCEPT ![day].active = @ + 1, ![day].created = @ + 1]
    <3>1. quotas' = [quotas EXCEPT ![day] =
              [[q EXCEPT !.active = q.active + 1] EXCEPT !.created = q.created + 1]]
      BY <2>3, <2>4, <2>5
    <3> QED BY <2>4, <3>1 DEF TypeOK
  <2>7. Memory(t)!Create(j)
    <3>1. Memory(t)!Today = day
      BY <2>1 DEF Memory!Today, Memory!DayKey, DayKey
    <3>2. Memory(t)!HasCapacity(day)
      BY <2>3 DEF Memory!HasCapacity, HasCapacity
    <3>3. Memory(t)!NewJob("queued", day) = NewJob("queued", day)
      BY DEF Memory!NewJob, NewJob
    <3> QED BY <2>2, <2>6, <3>1, <3>2, <3>3 DEF Memory!Create
  <2> QED BY <1>4, <2>7 DEF MemoryStep, CreateOp
<1>5. CASE op = "claim"
  <2> DEFINE n == jobs[j].attempt_id + 1
             e == [attempt_id |-> n, started_at |-> t]
  <2>1. Claimable(jobs[j], t) /\ n \in AttemptIds
    BY <1>1, <1>5, ClaimsAssumption
    DEF Applied, Applies, CreateOp, OwnerOps, AttemptIds, Job
  <2>2. jobs' = [jobs EXCEPT ![j] = [jobs[j] EXCEPT !.status = "running", !.attempt_id = n,
            !.lease_expires_at = LeaseUntil(t), !.attempts = Remember(jobs[j].attempts, e)]]
    BY <1>1, <1>5 DEF DocAfter, CreateOp
  <2>3. quotas' = quotas
    BY <1>2, <1>5 DEF QuotaOps, CreateOp, FinishOps
  <2>4. Memory(t)!ClaimOutcome(j) = "acquired"
    <3>1. t \in Nat /\ jobs[j].lease_expires_at \in Nat
      BY <1>1, ClockAssumption, LeaseAssumption DEF Times, Job
    <3>2. ~Memory(t)!LeaseActive(j)
      BY <2>1, <3>1 DEF Memory!LeaseActive, Claimable
    <3> QED BY <2>1, <3>2 DEF Memory!ClaimOutcome, Claimable
  <2>5. Memory(t)!Claim(j)
    BY <2>1, <2>2, <2>3, <2>4, MemoryOperators DEF Memory!Claim
  <2> QED BY <1>5, <2>5 DEF MemoryStep, CreateOp
<1>6. CASE op = "cancel"
  <2>1. PICK day \in Days : day = jobs[j].quota_day
    BY <1>1 DEF Job
  <2>2. /\ jobs[j].status = "queued" /\ quotas' = DecrementActive(day)
        /\ jobs' = [jobs EXCEPT ![j] = [jobs[j] EXCEPT !.status = "failed"]]
    <3>1. jobs[j].status = "queued"
      BY <1>6, AppliedEffect
    <3>2. DocAfter(op, jobs[j], a, t) = [jobs[j] EXCEPT !.status = "failed"]
      BY <1>6 DEF DocAfter, CreateOp
    <3> QED BY <1>1, <1>3, <1>6, <2>1, <3>1, <3>2
  <2>3. Memory(t)!CancelUnpublished(j)
    BY <2>1, <2>2, MemoryOperators DEF Memory!CancelUnpublished
  <2> QED BY <1>6, <2>3 DEF MemoryStep, CreateOp
<1>7. ASSUME op \in OwnerOps PROVE Memory(t)!Owns(j, a)
  BY <1>7, AppliedEffect, MemoryOperators
<1>8. CASE op = "renew"
  <2>1. /\ jobs' = [jobs EXCEPT ![j] = [jobs[j] EXCEPT !.lease_expires_at = LeaseUntil(t)]]
        /\ quotas' = quotas
    BY <1>1, <1>2, <1>8 DEF DocAfter, CreateOp, QuotaOps, FinishOps
  <2>2. Memory(t)!Renew(j, a)
    BY <1>7, <1>8, <2>1, MemoryOperators DEF Memory!Renew, OwnerOps
  <2> QED BY <1>8, <2>2 DEF MemoryStep, CreateOp
<1>9. CASE op = "progress"
  <2>1. /\ jobs' = [jobs EXCEPT ![j] = [jobs[j] EXCEPT !.progress = a]]
        /\ quotas' = quotas
    BY <1>1, <1>2, <1>9 DEF DocAfter, CreateOp, QuotaOps, FinishOps
  <2>2. Memory(t)!Progress(j, a)
    BY <1>7, <1>9, <2>1 DEF Memory!Progress, OwnerOps
  <2> QED BY <1>9, <2>2 DEF MemoryStep, CreateOp
<1>10. CASE op = "retry"
  <2>1. /\ jobs' = [jobs EXCEPT ![j] = [jobs[j] EXCEPT !.status = "queued", !.lease_expires_at = 0]]
        /\ quotas' = quotas
    BY <1>1, <1>2, <1>10 DEF DocAfter, CreateOp, QuotaOps, FinishOps
  <2>2. Memory(t)!Retry(j, a)
    BY <1>7, <1>10, <2>1 DEF Memory!Retry, OwnerOps
  <2> QED BY <1>10, <2>2 DEF MemoryStep, CreateOp
<1>11. CASE op = "complete"
  <2>1. PICK day \in Days : day = jobs[j].quota_day
    BY <1>1 DEF Job
  <2>2. quotas' = DecrementActive(day)
    BY <1>3, <1>11, <2>1
  <2>3. jobs' = [jobs EXCEPT ![j] =
            [Finished(jobs[j], "complete") EXCEPT !.dossier = a]]
    BY <1>1, <1>11 DEF DocAfter, CreateOp
  <2>4. [Finished(jobs[j], "complete") EXCEPT !.dossier = a]
          = [jobs[j] EXCEPT !.status = "complete", !.dossier = a,
                            !.lease_expires_at = 0, !.completed_at = TRUE]
    BY <1>1 DEF Finished, Job
  <2>5. Memory(t)!Complete(j, a)
    BY <1>7, <1>11, <2>1, <2>2, <2>3, <2>4, MemoryOperators DEF Memory!Complete, OwnerOps
  <2> QED BY <1>11, <2>5 DEF MemoryStep, CreateOp
<1> QED BY <1>4, <1>5, <1>6, <1>8, <1>9, <1>10, <1>11 DEF Ops, OwnerOps

\* A commit by one client leaves the calls of the others as they were.
LEMMA OnlyOneCall ==
    ASSUME CallsInv, NEW c \in Clients, [FNext]_fvars,
           <<jobs, quotas>>' # <<jobs, quotas>>, tx'[c] # tx[c]
    PROVE  Commit(c)
<1>1. PICK b \in Clients : Commit(b)
  BY DEF FNext, FTick, Tick, CallCreate, ReadCreate, ReadOther, Refused, fvars, vars
<1>2. b = c
  BY <1>1 DEF Commit, CallsInv, TxTypeOK
<1> QED BY <1>1, <1>2

\* Except for fail(), the transactional adapter does with overlapping
\* transactions what the in-memory adapter does under its lock.
THEOREM SerializesCorrect == FSpec => SerializesAsMemory
<1>1. TypeOK /\ CallsInv /\ [FNext]_fvars => [CommitsAsMemory(Ops \ {"fail"})]_fvars
  <2> SUFFICES ASSUME TypeOK, CallsInv, [FNext]_fvars, NEW c \in Clients, NEW t \in Times,
                      tx[c].phase = "read", tx[c].op \in Ops \ {"fail"}, tx[c].at = t,
                      tx'[c] # tx[c], <<jobs, quotas>>' # <<jobs, quotas>>
               PROVE  MemoryStep(tx[c].op, tx[c].job, tx[c].attempt, t)
    BY DEF CommitsAsMemory
  <2>1. Commit(c)
    BY OnlyOneCall
  <2>2. PICK r \in Reading : r = tx[c]
    BY ReadingCall DEF CallsInv
  <2>3. r.job \in JobIds /\ r.attempt \in 0..MaxClaims /\ r.op \in Ops \ {"fail"} /\ r.at = t
    BY <2>2 DEF Reading
  <2>4. Applied(r.op, r.job, r.attempt, r.at)
    BY <2>1, <2>2, CommitIsApplied
  <2>5. MemoryStep(r.op, r.job, r.attempt, t)
    BY <2>3, <2>4, AppliedAsMemory
  <2> QED BY <2>2, <2>5
<1> QED BY <1>1, CallsCorrect, PTL DEF FSpec, SerializesAsMemory

-----------------------------------------------------------------------------
(* Leases, histories and progress reports.                                 *)

\* What a client read of a running document is not newer than the clock it
\* read: its lease does not reach further than a renewal by that clock.
LeasesRead ==
    \A c \in Clients :
        tx[c].phase = "read" /\ tx[c].doc.status = "running" =>
            tx[c].doc.lease_expires_at <= tx[c].at + LeaseSeconds

DocumentInv == LeaseCoversAttempt /\ HistoryIsTail /\ Fresh

\* What an applied operation does to the lease, the history and the report.
LEMMA AppliedFields ==
    ASSUME TypeOK, NEW op \in Ops \ {CreateOp}, NEW j \in JobIds, NEW a \in 0..MaxClaims,
           NEW t \in Times, Applied(op, j, a, t)
    PROVE  LET e == [attempt_id |-> jobs[j].attempt_id + 1, started_at |-> t]
           IN  /\ op = "claim" => e \in Entry /\ jobs'[j].attempts = Remember(jobs[j].attempts, e)
               /\ op # "claim" => jobs'[j].attempts = jobs[j].attempts
               /\ op = "progress" => jobs'[j].progress = a
               /\ op # "progress" => jobs'[j].progress = jobs[j].progress
               /\ op \in {"claim", "renew"} => jobs'[j].lease_expires_at = LeaseUntil(t)
               /\ op \in {"progress", "cancel"} =>
                     jobs'[j].lease_expires_at = jobs[j].lease_expires_at
               /\ op \in {"retry", "complete", "fail"} => jobs'[j].lease_expires_at = 0
<1>1. jobs'[j] = DocAfter(op, jobs[j], a, t) /\ jobs[j] \in Job
  BY AppliedEffect DEF TypeOK
<1>2. CASE op = "claim"
  <2>1. jobs[j].attempt_id + 1 \in AttemptIds
    BY <1>1, <1>2, ClaimsAssumption DEF Applied, Applies, CreateOp, OwnerOps, AttemptIds, Job
  <2> QED BY <1>1, <1>2, <2>1 DEF DocAfter, CreateOp, Job, Entry
<1>3. CASE op \in {"renew", "progress", "retry", "cancel"}
  BY <1>1, <1>3 DEF DocAfter, CreateOp, Job
<1>4. CASE op \in {"complete", "fail"}
  BY <1>1, <1>4 DEF DocAfter, CreateOp, Finished, Job
<1> QED BY <1>2, <1>3, <1>4 DEF Ops, OwnerOps, CreateOp

\* A commit is applied to a document whose lease the client's clock covers.
LEMMA CommitReadsLease ==
    ASSUME TypeOK, CallsInv, LeasesRead, NEW c \in Clients, Commit(c)
    PROVE  \E op \in Ops, j \in JobIds, a \in 0..MaxClaims, t \in Times :
              /\ Applied(op, j, a, t)
              /\ jobs[j].status = "running" => jobs[j].lease_expires_at <= t + LeaseSeconds
<1>1. PICK r \in Reading : r = tx[c]
  BY ReadingCall DEF CallsInv, Commit
<1>2. r.op \in Ops /\ r.job \in JobIds /\ r.attempt \in 0..MaxClaims /\ r.at \in Times
  BY DEF Reading
<1>3. jobs[r.job] = r.doc /\ r.phase = "read"
  BY <1>1 DEF Commit, Current, TransactionReads
<1>4. jobs[r.job].status = "running" => jobs[r.job].lease_expires_at <= r.at + LeaseSeconds
  BY <1>1, <1>3 DEF LeasesRead
<1> QED BY <1>1, <1>2, <1>4, CommitIsApplied

LEMMA LeasesReadStep ==
    TypeOK /\ CallsInv /\ LeaseCoversAttempt /\ LeasesRead /\ [FNext]_fvars => LeasesRead'
<1> SUFFICES ASSUME TypeOK, CallsInv, LeaseCoversAttempt, LeasesRead, [FNext]_fvars,
                    NEW c \in Clients, tx'[c].phase = "read", tx'[c].doc.status = "running"
             PROVE  tx'[c].doc.lease_expires_at <= tx'[c].at + LeaseSeconds
  BY DEF LeasesRead
<1>1. CASE tx'[c] = tx[c]
  BY <1>1 DEF LeasesRead
<1>2. ASSUME NEW b \in Clients, NEW r, tx' = [tx EXCEPT ![b] = r], r.phase # "read"
      PROVE  tx'[c] = tx[c]
  BY <1>2 DEF CallsInv, TxTypeOK
<1>3. ASSUME NEW b \in Clients, NEW op \in Ops, NEW j \in JobIds, NEW a, NEW t,
             Read(b, op, j, a, t), tx'[c] # tx[c]
      PROVE  /\ tx'[c].doc = jobs[j] /\ tx'[c].at = t
             /\ \E quota : Applies(op, jobs[j], quota, a, t)
  BY <1>3 DEF Read, Idle, CallsInv, TxTypeOK
<1>4. ASSUME NEW b \in Clients, CallCreate(b) PROVE tx'[c] = tx[c]
  <2>1. PICK j \in JobIds : tx' = [tx EXCEPT ![b] = [phase |-> "called", job |-> j, at |-> now]]
    BY <1>4 DEF CallCreate
  <2> QED BY <1>2, <2>1
<1>5. ASSUME NEW b \in Clients, ReadCreate(b), tx'[c] # tx[c] PROVE FALSE
  <2>1. tx[b].job \in JobIds
    BY <1>5 DEF ReadCreate, CallsInv, TxTypeOK, Idle, Creating, Reading
  <2>2. PICK j \in JobIds : j = tx[b].job
    BY <2>1
  <2>3. CreateOp \in Ops /\ Read(b, CreateOp, j, 0, tx[b].at)
    BY <1>5, <2>2 DEF ReadCreate, Ops
  <2>4. PICK quota : Applies(CreateOp, jobs[j], quota, 0, tx[b].at)
    BY <1>3, <1>5, <2>3
  <2>5. jobs[j].status = "missing"
    BY <2>4 DEF Applies, CreateOp, OwnerOps
  <2> QED BY <1>3, <1>5, <2>3, <2>5
<1>6. ASSUME NEW b \in Clients, ReadOther(b), tx'[c] # tx[c]
      PROVE  tx'[c].doc.lease_expires_at <= tx'[c].at + LeaseSeconds
  <2>1. PICK op \in Ops, j \in JobIds, a \in 0..MaxClaims : Read(b, op, j, a, now)
    BY <1>6 DEF ReadOther
  <2>2. tx'[c].doc = jobs[j] /\ tx'[c].at = now
    BY <1>3, <1>6, <2>1
  <2> QED BY <2>2 DEF LeaseCoversAttempt
<1>7. ASSUME NEW b \in Clients, Commit(b) PROVE tx'[c] = tx[c]
  BY <1>2, <1>7 DEF Commit, Idle
<1>8. ASSUME NEW b \in Clients, Refused(b) PROVE tx'[c] = tx[c]
  <2>1. \/ tx' = [tx EXCEPT ![b] = Idle]
        \/ \E j, t : tx' = [tx EXCEPT ![b] = [phase |-> "called", job |-> j, at |-> t]]
    BY <1>8 DEF Refused
  <2>2. CASE tx' = [tx EXCEPT ![b] = Idle]
    BY <1>2, <2>2 DEF Idle
  <2>3. ASSUME NEW j, NEW t, tx' = [tx EXCEPT ![b] = [phase |-> "called", job |-> j, at |-> t]]
        PROVE  tx'[c] = tx[c]
    BY <1>2, <2>3
  <2> QED BY <2>1, <2>2, <2>3
<1>9. CASE FTick \/ UNCHANGED fvars
  BY <1>1, <1>9 DEF FTick, fvars
<1> QED BY <1>1, <1>4, <1>5, <1>6, <1>7, <1>8, <1>9 DEF FNext

\* A document's lease, with the clock at t.
Covered(job, t) ==
    /\ job.lease_expires_at # 0 <=> job.status = "running"
    /\ job.status = "running" =>
          /\ job.attempts # <<>>
          /\ job.lease_expires_at >= job.attempts[Len(job.attempts)].started_at + LeaseSeconds
          /\ job.lease_expires_at <= t + LeaseSeconds

LEMMA LeaseStep ==
    TypeOK /\ CallsInv /\ LeasesRead /\ LeaseCoversAttempt /\ [FNext]_fvars => LeaseCoversAttempt'
<1> SUFFICES ASSUME TypeOK, CallsInv, LeasesRead, LeaseCoversAttempt, [FNext]_fvars
             PROVE  LeaseCoversAttempt'
  OBVIOUS
<1>1. \A i \in JobIds : Covered(jobs[i], now)
  BY DEF LeaseCoversAttempt, Covered
<1>2. SUFFICES \A i \in JobIds : Covered(jobs'[i], now')
  BY DEF LeaseCoversAttempt, Covered
<1>3. ASSUME NEW op \in Ops, NEW j \in JobIds, NEW a \in 0..MaxClaims, NEW t \in Times,
             Applied(op, j, a, t),
             jobs[j].status = "running" => jobs[j].lease_expires_at <= t + LeaseSeconds
      PROVE  \A i \in JobIds : Covered(jobs'[i], now')
  <2>0. /\ t \in Nat /\ now \in Nat /\ t <= now /\ now' = now
        /\ LeaseUntil(t) = t + LeaseSeconds /\ LeaseUntil(t) # 0 /\ LeaseSeconds \in Nat
        /\ jobs[j].lease_expires_at \in Nat
    BY <1>3, LeaseAssumption, ClockAssumption
    DEF Applied, LeaseUntil, TypeOK, Times, Job
  <2>1. CASE op = CreateOp
    <3>1. jobs'[j] = NewJob("queued", DayKey(t))
      BY <1>3, <2>1, AppliedEffect
    <3>2. Covered(jobs'[j], now)
      BY <3>1 DEF Covered, NewJob
    <3> QED BY <1>1, <1>3, <2>0, <3>2, AppliedEffect
  <2>2. CASE op = "claim"
    <3> DEFINE h == jobs[j].attempts
               e == [attempt_id |-> jobs[j].attempt_id + 1, started_at |-> t]
               r == Remember(h, e)
    <3>1. /\ jobs'[j].attempts = r /\ jobs'[j].lease_expires_at = LeaseUntil(t)
          /\ e \in Entry /\ e.started_at = t
      BY <1>3, <2>2, AppliedFields DEF CreateOp
    <3>2. jobs'[j].status = "running" /\ h \in Seq(Entry)
      BY <1>3, <2>2, AppliedEffect DEF TypeOK, Job, Entry
    <3> HIDE DEF h, e
    <3>3. r[Len(r)] = e /\ Len(r) = IF Len(h) >= HistoryLimit THEN HistoryLimit ELSE Len(h) + 1
      BY <3>1, <3>2, RememberProperties
    <3>4. r # <<>>
      <4>1. Len(r) # 0
        BY <3>2, <3>3, HistoryAssumption
      <4> QED BY <4>1
    <3> HIDE DEF r
    <3>5. Covered(jobs'[j], now)
      BY <2>0, <3>1, <3>2, <3>3, <3>4 DEF Covered
    <3> QED BY <1>1, <1>3, <2>0, <3>5, AppliedEffect
  <2>3. CASE op = "renew"
    <3>1. jobs[j].status = "running" /\ jobs'[j].status = "running"
      BY <1>3, <2>3, AppliedEffect DEF OwnerOps, HeldBy
    <3>6. /\ jobs'[j].attempts = jobs[j].attempts
          /\ jobs'[j].lease_expires_at = LeaseUntil(t)
      <4>1. op \in Ops \ {CreateOp} /\ op # "claim"
        BY <2>3 DEF CreateOp
      <4> QED BY <1>3, <2>3, <4>1, AppliedFields
    <3> DEFINE start == jobs[j].attempts[Len(jobs[j].attempts)].started_at
    <3>2. start \in Nat
      <4>1. jobs[j].attempts \in Seq(Entry) /\ jobs[j].attempts # <<>>
        BY <1>1, <3>1 DEF TypeOK, Job, Entry, Covered
      <4>2. jobs[j].attempts[Len(jobs[j].attempts)] \in Entry
        BY <4>1
      <4> QED BY <4>2 DEF Entry, Times
    <3>3. jobs[j].attempts # <<>> /\ jobs[j].lease_expires_at >= start + LeaseSeconds
      BY <1>1, <3>1 DEF Covered
    <3>4. LeaseUntil(t) >= start + LeaseSeconds /\ LeaseUntil(t) <= now + LeaseSeconds
      BY <1>3, <2>0, <3>1, <3>2, <3>3
    <3>5. Covered(jobs'[j], now)
      BY <2>0, <3>1, <3>3, <3>4, <3>6 DEF Covered
    <3> QED BY <1>1, <1>3, <2>0, <3>5, AppliedEffect
  <2>4. CASE op \in {"progress", "cancel"}
    <3>1. /\ jobs'[j].attempts = jobs[j].attempts
          /\ jobs'[j].lease_expires_at = jobs[j].lease_expires_at
      BY <1>3, <2>4, AppliedFields DEF CreateOp
    <3>2. \/ jobs[j].status = "running" /\ jobs'[j].status = "running"
          \/ jobs[j].status = "queued" /\ jobs'[j].status = "failed"
      BY <1>3, <2>4, AppliedEffect DEF OwnerOps, HeldBy
    <3>3. Covered(jobs'[j], now)
      BY <1>1, <3>1, <3>2 DEF Covered
    <3> QED BY <1>1, <1>3, <2>0, <3>3, AppliedEffect
  <2>5. CASE op \in {"retry", "complete", "fail"}
    <3>1. jobs'[j].lease_expires_at = 0
      BY <1>3, <2>5, AppliedFields DEF CreateOp
    <3>2. jobs'[j].status # "running"
      BY <1>3, <2>5, AppliedEffect
    <3>3. Covered(jobs'[j], now)
      BY <3>1, <3>2 DEF Covered
    <3> QED BY <1>1, <1>3, <2>0, <3>3, AppliedEffect
  <2> QED BY <2>1, <2>2, <2>3, <2>4, <2>5 DEF Ops, OwnerOps
<1>4. ASSUME Tick \/ UNCHANGED vars PROVE \A i \in JobIds : Covered(jobs'[i], now')
  <2>1. LeaseCoversAttempt'
    BY <1>4, NextLease DEF Next
  <2> QED BY <2>1 DEF LeaseCoversAttempt, Covered
<1>5. ASSUME NEW c \in Clients, Commit(c) PROVE \A i \in JobIds : Covered(jobs'[i], now')
  BY <1>3, <1>5, CommitReadsLease
<1>6. ASSUME NEW c \in Clients, CallCreate(c) \/ ReadCreate(c) \/ ReadOther(c) \/ Refused(c)
      PROVE  UNCHANGED vars
  BY <1>6 DEF CallCreate, ReadCreate, ReadOther, Refused
<1> QED BY <1>4, <1>5, <1>6 DEF FNext, FTick, fvars, vars

LEMMA HistoryStep == TypeOK /\ CallsInv /\ HistoryIsTail /\ [FNext]_fvars => HistoryIsTail'
<1> SUFFICES ASSUME TypeOK, CallsInv, HistoryIsTail, [FNext]_fvars PROVE HistoryIsTail'
  OBVIOUS
<1>1. \A i \in JobIds : GaplessTail(jobs[i].attempts, jobs[i].attempt_id)
  BY DEF HistoryIsTail, GaplessTail
<1>2. SUFFICES \A i \in JobIds : GaplessTail(jobs'[i].attempts, jobs'[i].attempt_id)
  BY DEF HistoryIsTail, GaplessTail
<1>3. ASSUME NEW op \in Ops, NEW j \in JobIds, NEW a \in 0..MaxClaims, NEW t \in Times,
             Applied(op, j, a, t)
      PROVE  \A i \in JobIds : GaplessTail(jobs'[i].attempts, jobs'[i].attempt_id)
  <2>1. CASE op = CreateOp
    <3>0. jobs'[j] = NewJob("queued", DayKey(t))
      BY <1>3, <2>1, AppliedEffect
    <3>1. jobs'[j].attempts = <<>> /\ jobs'[j].attempt_id = 0
      BY <3>0 DEF NewJob
    <3>2. GaplessTail(jobs'[j].attempts, jobs'[j].attempt_id)
      BY <3>1, HistoryAssumption DEF GaplessTail
    <3> QED BY <1>1, <1>3, <3>2, AppliedEffect
  <2>2. CASE op = "claim"
    <3> DEFINE last == jobs[j].attempt_id
               h == jobs[j].attempts
               e == [attempt_id |-> last + 1, started_at |-> t]
    <3>1. jobs'[j].attempts = Remember(h, e) /\ e \in Entry /\ e.attempt_id = last + 1
      BY <1>3, <2>2, AppliedFields DEF CreateOp
    <3>2. jobs'[j].attempt_id = last + 1
      BY <1>3, <2>2, AppliedEffect
    <3>3. GaplessTail(h, last)
      BY <1>1
    <3>5. h \in Seq(Entry) /\ last \in Nat
      <4>1. jobs[j] \in Job
        BY DEF TypeOK
      <4> QED BY <4>1, ClaimsAssumption DEF Job, Entry
    <3> HIDE DEF last, h, e
    <3>4. GaplessTail(jobs'[j].attempts, jobs'[j].attempt_id)
      BY <3>1, <3>2, <3>3, <3>5, RememberKeepsTail
    <3> QED BY <1>1, <1>3, <3>4, AppliedEffect
  <2>3. CASE op \in Ops \ {CreateOp, "claim"}
    <3>1. jobs'[j].attempts = jobs[j].attempts
      <4>1. op \in Ops \ {CreateOp} /\ op # "claim"
        BY <2>3
      <4> QED BY <1>3, <4>1, AppliedFields
    <3>2. jobs'[j].attempt_id = jobs[j].attempt_id
      BY <1>3, <2>3, AppliedEffect
    <3> QED BY <1>1, <1>3, <3>1, <3>2, AppliedEffect
  <2> QED BY <2>1, <2>2, <2>3
<1>4. CASE Tick \/ UNCHANGED vars
  BY <1>1, <1>4 DEF Tick, vars
<1> QED BY <1>3, <1>4, StepKinds

LEMMA ReportStep ==
    TypeOK /\ CallsInv /\ Fresh /\ [FNext]_fvars
        => Fresh' /\ \A j \in JobIds : jobs'[j].progress >= jobs[j].progress
<1> SUFFICES ASSUME TypeOK, CallsInv, Fresh, [FNext]_fvars
             PROVE  Fresh' /\ \A j \in JobIds : jobs'[j].progress >= jobs[j].progress
  OBVIOUS
<1> DEFINE Reported(i) == /\ jobs'[i].status = "missing" => jobs'[i] = NoJob
                          /\ jobs'[i].progress <= jobs'[i].attempt_id
                          /\ jobs'[i].progress >= jobs[i].progress
<1>0. \A i \in JobIds : /\ jobs[i].progress \in Nat /\ jobs[i].attempt_id \in Nat
                        /\ jobs[i].status = "missing" => jobs[i] = NoJob
                        /\ jobs[i].progress <= jobs[i].attempt_id
  BY ClaimsAssumption DEF TypeOK, Job, Fresh
<1>1. SUFFICES \A i \in JobIds : Reported(i)
  BY DEF Fresh
<1>2. ASSUME NEW i \in JobIds, jobs'[i] = jobs[i] PROVE Reported(i)
  BY <1>0, <1>2
<1>3. ASSUME NEW op \in Ops, NEW j \in JobIds, NEW a \in 0..MaxClaims, NEW t \in Times,
             Applied(op, j, a, t)
      PROVE  Reported(j)
  <2>1. CASE op = CreateOp
    <3>1. jobs[j].status = "missing" /\ jobs'[j] = NewJob("queued", DayKey(t))
      BY <1>3, <2>1, AppliedEffect
    <3>2. jobs[j].progress = 0
      BY <1>0, <3>1 DEF NoJob, NewJob
    <3> QED BY <3>1, <3>2 DEF NewJob
  <2>2. CASE op = "claim"
    <3>1. jobs'[j].status = "running" /\ jobs'[j].attempt_id = jobs[j].attempt_id + 1
      BY <1>3, <2>2, AppliedEffect
    <3>2. jobs'[j].progress = jobs[j].progress
      BY <1>3, <2>2, AppliedFields DEF CreateOp
    <3> QED BY <1>0, <3>1, <3>2
  <2>3. CASE op = "progress"
    <3>1. jobs[j].attempt_id = a
      BY <1>3, <2>3, AppliedEffect DEF OwnerOps, HeldBy
    <3>2. jobs'[j].attempt_id = jobs[j].attempt_id /\ jobs'[j].status = "running"
      BY <1>3, <2>3, AppliedEffect DEF CreateOp
    <3>3. jobs'[j].progress = a
      BY <1>3, <2>3, AppliedFields DEF CreateOp
    <3> QED BY <1>0, <3>1, <3>2, <3>3
  <2>4. CASE op \in Ops \ {CreateOp, "claim", "progress"}
    <3>1. jobs'[j].attempt_id = jobs[j].attempt_id
      BY <1>3, <2>4, AppliedEffect
    <3>3. jobs'[j].progress = jobs[j].progress
      BY <1>3, <2>4, AppliedFields
    <3>2. jobs'[j].status # "missing"
      BY <1>3, <2>4, AppliedEffect DEF Ops, OwnerOps, CreateOp
    <3> QED BY <1>0, <3>1, <3>2, <3>3
  <2> QED BY <2>1, <2>2, <2>3, <2>4
<1>4. ASSUME NEW op \in Ops, NEW j \in JobIds, NEW a \in 0..MaxClaims, NEW t \in Times,
             Applied(op, j, a, t), NEW i \in JobIds
      PROVE  Reported(i)
  BY <1>2, <1>3, <1>4, AppliedEffect
<1>5. CASE Tick \/ UNCHANGED vars
  BY <1>2, <1>5 DEF Tick, vars
<1> HIDE DEF Reported
<1> QED BY <1>4, <1>5, StepKinds

LEMMA DocumentsCorrect == FSpec => [](TypeOK /\ CallsInv /\ LeasesRead /\ DocumentInv)
<1>1. FInit => LeasesRead /\ DocumentInv
  BY HistoryAssumption
  DEF FInit, Init, Idle, NoJob, NewJob, LeasesRead, DocumentInv, LeaseCoversAttempt, HistoryIsTail, Fresh
<1>2. TypeOK /\ CallsInv /\ LeasesRead /\ DocumentInv /\ [FNext]_fvars => (LeasesRead /\ DocumentInv)'
  BY LeasesReadStep, LeaseStep, HistoryStep, ReportStep DEF DocumentInv
<1> QED BY <1>1, <1>2, CallsCorrect, PTL DEF FSpec

\* A document's lease covers LeaseSeconds from the start of the attempt that
\* holds it, although a renewal is computed from a clock that is past when it
\* commits: a document that was claimed since then is not the one it read.
THEOREM FLeaseCorrect == FSpec => []LeaseCoversAttempt
BY DocumentsCorrect, PTL DEF DocumentInv

\* The history of a document holds its newest attempts, although a claim
\* appends to the history that its transaction read.
THEOREM FHistoryCorrect == FSpec => []HistoryIsTail
BY DocumentsCorrect, PTL DEF DocumentInv

\* A progress report that commits late never replaces one of a newer attempt.
THEOREM FProgressCorrect == FSpec => ProgressNeverRegresses
<1>1. TypeOK /\ CallsInv /\ DocumentInv /\ [FNext]_fvars =>
        [\A j \in JobIds : jobs'[j].progress >= jobs[j].progress]_vars
  BY ReportStep DEF DocumentInv
<1> QED BY <1>1, DocumentsCorrect, PTL DEF FSpec, ProgressNeverRegresses

-----------------------------------------------------------------------------
(* The abstract lifecycle.                                                 *)

\* A job that was not created was not claimed.
Unclaimed == \A j \in JobIds : jobs[j].status = "missing" => jobs[j].attempt_id = 0

LEMMA UnclaimedStep == TypeOK /\ CallsInv /\ Unclaimed /\ [FNext]_fvars => Unclaimed'
<1> SUFFICES ASSUME TypeOK, CallsInv, Unclaimed, [FNext]_fvars PROVE Unclaimed'
  OBVIOUS
<1>1. ASSUME NEW op \in Ops, NEW j \in JobIds, NEW a \in 0..MaxClaims, NEW t \in Times,
             Applied(op, j, a, t), NEW i \in JobIds, jobs'[i].status = "missing"
      PROVE  jobs'[i].attempt_id = 0
  <2>1. i # j
    <3>1. op = CreateOp => jobs'[j].status = "queued"
      <4>1. op = CreateOp => jobs'[j] = NewJob("queued", DayKey(t))
        BY <1>1, AppliedEffect
      <4> QED BY <4>1 DEF NewJob
    <3>2. op \in Ops \ {CreateOp} => jobs'[j].status # "missing"
      BY <1>1, AppliedEffect DEF Ops, OwnerOps, CreateOp
    <3> QED BY <1>1, <3>1, <3>2
  <2> QED BY <1>1, <2>1, AppliedEffect DEF Unclaimed
<1>2. CASE Tick \/ UNCHANGED vars
  BY <1>2 DEF Tick, vars, Unclaimed
<1> QED BY <1>1, <1>2, StepKinds DEF Unclaimed

LEMMA AppliedRefines ==
    ASSUME TypeOK, QuotaExact, DossierFromLastAttempt, Unclaimed,
           NEW op \in Ops, NEW j \in JobIds, NEW a \in 0..MaxClaims, NEW t \in Times,
           Applied(op, j, a, t)
    PROVE  [Lifecycle!Next]_(Lifecycle!vars)
<1>1. Today' = Today
  BY DEF Applied, Today
<1>2. jobs' = [jobs EXCEPT ![j] = DocAfter(op, jobs[j], a, t)] /\ jobs \in [JobIds -> Job]
  BY DEF Applied, TypeOK
<1>3. \A i \in JobIds : i # j => jobs'[i] = jobs[i]
  BY <1>2
<1>4. CASE op = CreateOp
  <2>1. PICK d \in Days : d = DayKey(t)
    BY DaysOfTimes
  <2>2. /\ jobs[j].status = "missing" /\ jobs[j].attempt_id = 0 /\ jobs[j].dossier = 0
        /\ jobs'[j] = NewJob("queued", d)
    BY <1>4, <2>1, AppliedEffect DEF Unclaimed, DossierFromLastAttempt
  <2>3. HasCapacity(d)
    BY <1>4, <2>1 DEF Applied, Applies, QuotaDay, QuotaOps, CreateOp, OwnerOps, HasCapacity
  <2>4. /\ Lifecycle!Cardinality(Lifecycle!OpenJobs(d)) < MaxActive
        /\ Lifecycle!Cardinality(Lifecycle!Submitted(d)) < MaxDaily
    BY <2>3, SameSets, SameCardinality DEF HasCapacity, QuotaExact
  <2>5. d <= Today
    BY <2>1, DaysInOrder DEF Applied, TypeOK, Today
  <2>6. \A i \in JobIds :
           /\ jobs'[i].status = IF i = j THEN "queued" ELSE jobs[i].status
           /\ jobs'[i].quota_day = IF i = j THEN d ELSE jobs[i].quota_day
           /\ jobs'[i].attempt_id = jobs[i].attempt_id
           /\ jobs'[i].dossier = jobs[i].dossier
    BY <1>3, <2>2 DEF NewJob
  <2>7. Lifecycle!Submit(j, d)
    BY <1>1, <2>2, <2>4, <2>5, <2>6 DEF Lifecycle!Submit
  <2> QED BY <2>7 DEF Lifecycle!Next
<1>5. CASE op = "claim"
  <2>1. /\ jobs[j].status \in {"queued", "running"} /\ jobs'[j].status = "running"
        /\ jobs'[j].attempt_id = jobs[j].attempt_id + 1
        /\ jobs'[j].dossier = jobs[j].dossier /\ jobs'[j].quota_day = jobs[j].quota_day
    BY <1>5, AppliedEffect DEF Claimable, CreateOp
  <2>2. Lifecycle!Start(j)
    BY <1>1, <1>3, <2>1 DEF Lifecycle!Start, Lifecycle!Open
  <2> QED BY <2>2 DEF Lifecycle!Next
<1>6. CASE op \in {"cancel", "fail"}
  <2>1. /\ jobs[j].status \in {"queued", "running"} /\ jobs'[j].status = "failed"
        /\ jobs'[j].attempt_id = jobs[j].attempt_id
        /\ jobs'[j].dossier = jobs[j].dossier /\ jobs'[j].quota_day = jobs[j].quota_day
    BY <1>6, AppliedEffect DEF CreateOp, OwnerOps, HeldBy
  <2>2. Lifecycle!GiveUp(j)
    BY <1>1, <1>3, <2>1 DEF Lifecycle!GiveUp, Lifecycle!Open
  <2> QED BY <2>2 DEF Lifecycle!Next
<1>7. CASE op \in {"renew", "progress"}
  <2>1. /\ jobs[j].status = "running" /\ jobs'[j].status = "running"
        /\ jobs'[j].attempt_id = jobs[j].attempt_id
        /\ jobs'[j].dossier = jobs[j].dossier /\ jobs'[j].quota_day = jobs[j].quota_day
    BY <1>7, AppliedEffect DEF CreateOp, OwnerOps, HeldBy
  <2> QED BY <1>1, <1>3, <2>1 DEF Lifecycle!vars
<1>8. CASE op = "retry"
  <2>1. /\ jobs[j].status = "running" /\ jobs'[j].status = "queued"
        /\ jobs'[j].attempt_id = jobs[j].attempt_id
        /\ jobs'[j].dossier = jobs[j].dossier /\ jobs'[j].quota_day = jobs[j].quota_day
    BY <1>8, AppliedEffect DEF CreateOp, OwnerOps, HeldBy
  <2>2. Lifecycle!Requeue(j)
    BY <1>1, <1>3, <2>1 DEF Lifecycle!Requeue
  <2> QED BY <2>2 DEF Lifecycle!Next
<1>9. CASE op = "complete"
  <2>1. /\ jobs[j].status = "running" /\ jobs'[j].status = "complete"
        /\ jobs'[j].attempt_id = jobs[j].attempt_id
        /\ jobs'[j].dossier = jobs[j].attempt_id /\ jobs'[j].quota_day = jobs[j].quota_day
    BY <1>9, AppliedEffect DEF CreateOp, OwnerOps, HeldBy
  <2>2. Lifecycle!Finish(j)
    BY <1>1, <1>3, <2>1 DEF Lifecycle!Finish
  <2> QED BY <2>2 DEF Lifecycle!Next
<1> QED BY <1>4, <1>5, <1>6, <1>7, <1>8, <1>9 DEF Ops, OwnerOps

\* The transactional adapter implements the abstract lifecycle as well.
THEOREM FRefinesLifecycle == FSpec => ImplementsLifecycle
<1>1. FInit => Lifecycle!Init /\ Unclaimed
  BY InitRefines DEF FInit, Init, NoJob, NewJob, Unclaimed
<1>2. TypeOK /\ CallsInv /\ QuotaExact /\ DossierFromLastAttempt /\ Unclaimed /\ [FNext]_fvars
        => [Lifecycle!Next]_(Lifecycle!vars)
  <2> SUFFICES ASSUME TypeOK, CallsInv, QuotaExact, DossierFromLastAttempt, Unclaimed,
                      [FNext]_fvars
               PROVE  [Lifecycle!Next]_(Lifecycle!vars)
    OBVIOUS
  <2>1. CASE Tick \/ UNCHANGED vars
    BY <2>1, ClockRefines
  <2> QED BY <2>1, StepKinds, AppliedRefines
<1>3. FSpec => Lifecycle!Spec
  BY <1>1, <1>2, UnclaimedStep, CallsCorrect, FQuotaCorrect, FDossierCorrect, PTL
  DEF FSpec, Lifecycle!Spec
<1> QED BY <1>3 DEF ImplementsLifecycle
=============================================================================
