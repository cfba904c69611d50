--------------------------- MODULE JobStoreProofs ---------------------------
(***************************************************************************)
(* Proofs about JobStore, for every set of jobs and every value of the     *)
(* limits, the lease and the clock.                                        *)
(***************************************************************************)
EXTENDS JobStore, FiniteSetTheorems, SequenceTheorems, TLAPS

Entry == [attempt_id : AttemptIds, started_at : Times]

\* The days of the clock are days of the quota table.
LEMMA DaysOfTimes ==
    /\ DayKey(0) \in Days
    /\ \A t \in Times : DayKey(t) \in Days
<1>1. 0 \in Times
  BY ClockAssumption DEF Times
<1> QED
  BY <1>1 DEF Days

\* What Remember returns: at most HistoryLimit entries, the newest last,
\* preceded by the newest ones of the old history.
LEMMA RememberProperties ==
    ASSUME NEW S, NEW h \in Seq(S), NEW e \in S
    PROVE  /\ Remember(h, e) \in Seq(S)
           /\ Len(Remember(h, e)) =
                IF Len(h) >= HistoryLimit THEN HistoryLimit ELSE Len(h) + 1
           /\ Remember(h, e)[Len(Remember(h, e))] = e
           /\ \A i \in 1..(Len(Remember(h, e)) - 1) :
                 Remember(h, e)[i] = h[Len(h) - Len(Remember(h, e)) + 1 + i]
<1> DEFINE k == HistoryLimit - 1
           n == Len(h)
           kept == IF n > k THEN SubSeq(h, n - k + 1, n) ELSE h
<1>1. n \in Nat /\ k \in Nat /\ k > 0
  BY HistoryAssumption
<1>2. /\ kept \in Seq(S)
      /\ Len(kept) = IF n > k THEN k ELSE n
      /\ \A i \in 1..Len(kept) : kept[i] = h[n - Len(kept) + i]
  <2>1. CASE n > k
    <3> DEFINE s == SubSeq(h, n - k + 1, n)
    <3>1. \A i \in (n - k + 1)..n : h[i] \in S
      BY <1>1, <2>1
    <3>2. /\ s \in Seq(S)
          /\ Len(s) = k
          /\ \A i \in 1..k : s[i] = h[n - k + 1 + i - 1]
      <4>1. /\ s \in Seq(S)
            /\ Len(s) = IF n - k + 1 <= n THEN n - (n - k + 1) + 1 ELSE 0
            /\ \A i \in 1..(n - (n - k + 1) + 1) : s[i] = h[n - k + 1 + i - 1]
        <5>1. n - k + 1 \in Int /\ n \in Int
          BY <1>1
        <5> HIDE DEF k, n
        <5> QED BY <5>1, <3>1, SubSeqProperties
      <4> QED BY <4>1, <1>1, <2>1
    <3> QED BY <3>2, <1>1, <2>1
  <2>2. CASE ~(n > k)
    BY <2>2, <1>1
  <2> QED BY <2>1, <2>2
<1>3. Remember(h, e) = Append(kept, e)
  BY DEF Remember
<1> HIDE DEF kept
<1> DEFINE r == Append(kept, e)
<1>4. /\ r \in Seq(S)
      /\ Len(r) = Len(kept) + 1
      /\ \A i \in 1..Len(kept) : r[i] = kept[i]
      /\ r[Len(kept) + 1] = e
  BY <1>2, AppendProperties
<1> HIDE DEF r
<1>5. Len(kept) = IF n > k THEN k ELSE n
  BY <1>2
<1>6. Len(kept) \in Nat
  BY <1>1, <1>5
<1>7. Len(r) = IF n >= HistoryLimit THEN HistoryLimit ELSE n + 1
  <2>1. n > k <=> n >= HistoryLimit
    BY <1>1, HistoryAssumption
  <2> QED BY <2>1, <1>1, <1>4, <1>5, HistoryAssumption
<1>8. \A i \in 1..(Len(r) - 1) : r[i] = h[n - Len(r) + 1 + i]
  <2> SUFFICES ASSUME NEW i \in 1..(Len(r) - 1)
               PROVE  r[i] = h[n - Len(r) + 1 + i]
    OBVIOUS
  <2>1. i \in 1..Len(kept)
    BY <1>4, <1>6
  <2>2. r[i] = h[n - Len(kept) + i]
    BY <2>1, <1>2, <1>4
  <2>3. n - Len(kept) + i = n - Len(r) + 1 + i
    BY <2>1, <1>1, <1>4, <1>6
  <2> QED BY <2>2, <2>3
<1> QED
  BY <1>3, <1>4, <1>6, <1>7, <1>8 DEF r

-----------------------------------------------------------------------------
(* Type correctness.                                                       *)

\* A job that a method changes keeps its type.
LEMMA InitType == Init => TypeOK
<1> SUFFICES ASSUME Init PROVE TypeOK
  OBVIOUS
<1>1. NoJob \in Job
  BY DaysOfTimes, LeaseAssumption, ClockAssumption, ClaimsAssumption
  DEF NoJob, NewJob, Job, Statuses
<1>2. 0 \in Times
  BY ClockAssumption DEF Times
<1> QED
  BY <1>1, <1>2 DEF Init, TypeOK

LEMMA NextType == TypeOK /\ [Next]_vars => TypeOK'
<1> SUFFICES ASSUME TypeOK, [Next]_vars PROVE TypeOK'
  OBVIOUS
<1> USE DEF TypeOK
<1>1. Today \in Days /\ now \in Nat
  BY DaysOfTimes, ClockAssumption DEF Today, Times
<1>2. /\ LeaseUntil(now) \in 0..(MaxNow + LeaseSeconds)
      /\ 0 \in 0..(MaxNow + LeaseSeconds)
      /\ 0 \in 0..MaxClaims
  BY LeaseAssumption, ClockAssumption, ClaimsAssumption DEF LeaseUntil, Times
<1>3. \A d \in Days : DecrementActive(d) \in [Days -> [active : Nat, created : Nat]]
  BY DEF DecrementActive
<1>4. ASSUME NEW j \in JobIds, Create(j) PROVE TypeOK'
  <2>1. NewJob("queued", Today) \in Job
    BY <1>1, <1>2 DEF NewJob, Job, Statuses
  <2> QED BY <1>4, <2>1, <1>1 DEF Create
<1>5. ASSUME NEW j \in JobIds, Claim(j) PROVE TypeOK'
  <2> DEFINE a == jobs[j].attempt_id + 1
             e == [attempt_id |-> a, started_at |-> now]
  <2>1. a \in AttemptIds /\ e \in Entry /\ a \in 0..MaxClaims
    BY <1>5, ClaimsAssumption DEF Claim, Entry, AttemptIds
  <2>2. jobs[j] \in Job /\ jobs[j].attempts \in Seq(Entry)
    BY DEF Job, Entry
  <2>3. Remember(jobs[j].attempts, e) \in Seq(Entry)
    BY <2>1, <2>2, RememberProperties
  <2>4. jobs' = [jobs EXCEPT ![j] = [@ EXCEPT
            !.status = "running", !.attempt_id = a,
            !.lease_expires_at = LeaseUntil(now),
            !.attempts = Remember(jobs[j].attempts, e)]]
    BY <1>5 DEF Claim
  <2> HIDE DEF a, e
  <2>5. [jobs[j] EXCEPT !.status = "running", !.attempt_id = a,
            !.lease_expires_at = LeaseUntil(now),
            !.attempts = Remember(jobs[j].attempts, e)] \in Job
    BY <2>1, <2>2, <2>3, <1>2 DEF Job, Statuses, Entry
  <2> QED BY <2>4, <2>5, <1>5 DEF Claim
<1>6. ASSUME NEW j \in JobIds, CancelUnpublished(j) PROVE TypeOK'
  BY <1>6, <1>3 DEF CancelUnpublished, Job, Statuses
<1>7. ASSUME NEW j \in JobIds, NEW a \in Callers(j), Renew(j, a) PROVE TypeOK'
  BY <1>7, <1>2 DEF Renew, Job
<1>8. ASSUME NEW j \in JobIds, NEW a \in Callers(j), Progress(j, a) PROVE TypeOK'
  BY <1>8 DEF Progress, Owns, Job
<1>9. ASSUME NEW j \in JobIds, NEW a \in Callers(j), Complete(j, a) PROVE TypeOK'
  <2>1. /\ jobs[j] \in Job
        /\ a = jobs[j].attempt_id
    BY <1>9 DEF Complete, Owns
  <2>2. /\ a \in 0..MaxClaims
        /\ jobs[j].quota_day \in Days
    BY <2>1 DEF Job
  <2>3. [jobs[j] EXCEPT !.status = "complete", !.dossier = a,
                        !.lease_expires_at = 0, !.completed_at = TRUE] \in Job
    BY <2>1, <2>2, <1>2 DEF Job, Statuses
  <2> QED BY <2>2, <2>3, <1>9, <1>3 DEF Complete
<1>10. ASSUME NEW j \in JobIds, NEW a \in Callers(j), Retry(j, a) PROVE TypeOK'
  BY <1>10, <1>2 DEF Retry, Job, Statuses
<1>11. ASSUME NEW j \in JobIds, NEW a \in Callers(j), Fail(j, a) PROVE TypeOK'
  BY <1>11, <1>2, <1>3 DEF Fail, Job, Statuses
<1>12. CASE Tick
  BY <1>12, ClockAssumption DEF Tick, Times
<1>13. CASE UNCHANGED vars
  BY <1>13 DEF vars
<1> QED
  BY <1>4, <1>5, <1>6, <1>7, <1>8, <1>9, <1>10, <1>11, <1>12, <1>13 DEF Next

\* Every reachable state of the store is well typed: in particular the
\* counters stay natural numbers and a lease never exceeds the clock's range.
THEOREM TypeCorrect == Spec => []TypeOK
<1> QED BY InitType, NextType, PTL DEF Spec

-----------------------------------------------------------------------------
(* The quota counters.                                                     *)

\* The sets the counters stand for are finite, so they can be counted.
LEMMA CountsFinite ==
    ASSUME NEW d
    PROVE  /\ IsFiniteSet(LiveJobs(d)) /\ Cardinality(LiveJobs(d)) \in Nat
           /\ IsFiniteSet(CreatedJobs(d)) /\ Cardinality(CreatedJobs(d)) \in Nat
<1>1. LiveJobs(d) \in SUBSET JobIds /\ CreatedJobs(d) \in SUBSET JobIds
  BY DEF LiveJobs, CreatedJobs
<1> QED BY <1>1, JobIdsAssumption, FS_Subset, FS_CardinalityType

\* A step that makes no job live or created, and no longer so, keeps both
\* counters right if it leaves them alone.
LEMMA KeepsQuota ==
    ASSUME QuotaExact, UNCHANGED quotas,
           \A j \in JobIds :
              /\ jobs'[j].quota_day = jobs[j].quota_day
              /\ jobs'[j].status \in Live <=> jobs[j].status \in Live
              /\ jobs'[j].status = "missing" <=> jobs[j].status = "missing"
    PROVE  QuotaExact'
<1>1. \A d \in Days : LiveJobs(d)' = LiveJobs(d) /\ CreatedJobs(d)' = CreatedJobs(d)
  BY DEF LiveJobs, CreatedJobs
<1> QED BY <1>1 DEF QuotaExact

\* A step that ends one live job gives back exactly one slot, on the day the
\* job was created.
LEMMA ReleasesQuota ==
    ASSUME TypeOK, QuotaExact, NEW j \in JobIds,
           jobs[j].status \in Live,
           jobs'[j].status \in Terminal,
           jobs'[j].quota_day = jobs[j].quota_day,
           \A i \in JobIds \ {j} : jobs'[i] = jobs[i],
           quotas' = DecrementActive(jobs[j].quota_day)
    PROVE  QuotaExact'
<1>1. PICK day \in Days : day = jobs[j].quota_day
  BY DEF TypeOK, Job
<1>2. LiveJobs(day)' = LiveJobs(day) \ {j} /\ j \in LiveJobs(day)
  BY <1>1 DEF LiveJobs, Live, Terminal
<1>3. \A d \in Days : d # day => LiveJobs(d)' = LiveJobs(d)
  BY <1>1 DEF LiveJobs
<1>4. \A d \in Days : CreatedJobs(d)' = CreatedJobs(d)
  BY DEF CreatedJobs, Live, Terminal
<1>5. Cardinality(LiveJobs(day)') = Cardinality(LiveJobs(day)) - 1
  BY <1>2, CountsFinite, FS_RemoveElement
<1>6. Cardinality(LiveJobs(day)) \in Nat /\ Cardinality(LiveJobs(day)) # 0
  BY <1>2, CountsFinite, FS_EmptySet
<1>7. /\ quotas[day].active = Cardinality(LiveJobs(day))
      /\ quotas[day].active <= MaxActive
  BY <1>1 DEF QuotaExact
<1>8. /\ quotas'[day].active = Cardinality(LiveJobs(day)')
      /\ quotas'[day].active <= MaxActive
      /\ quotas'[day].created = quotas[day].created
  <2>1. quotas'[day].active = quotas[day].active - 1
    BY <1>1, <1>6, <1>7 DEF DecrementActive, TypeOK
  <2>2. quotas'[day].created = quotas[day].created
    BY <1>1 DEF DecrementActive, TypeOK
  <2> QED BY <2>1, <2>2, <1>5, <1>6, <1>7, QuotaAssumption
<1>9. \A d \in Days : d # day => quotas'[d] = quotas[d]
  BY <1>1 DEF DecrementActive, TypeOK
<1> SUFFICES ASSUME NEW d \in Days
             PROVE  /\ quotas'[d].active = Cardinality(LiveJobs(d)')
                    /\ quotas'[d].created = Cardinality(CreatedJobs(d)')
                    /\ quotas'[d].active <= MaxActive
                    /\ quotas'[d].created <= MaxDaily
  BY DEF QuotaExact
<1>10. CASE d = day
  BY <1>10, <1>4, <1>8 DEF QuotaExact
<1>11. CASE d # day
  BY <1>11, <1>3, <1>4, <1>9 DEF QuotaExact
<1> QED BY <1>10, <1>11

\* Booking a job on a day takes one slot of that day, and only if one is free.
LEMMA BookingTakesQuota ==
    ASSUME TypeOK, QuotaExact, NEW j \in JobIds, NEW day \in Days,
           jobs[j].status = "missing", HasCapacity(day),
           jobs' = [jobs EXCEPT ![j] = NewJob("queued", day)],
           quotas'[day].active = quotas[day].active + 1,
           quotas'[day].created = quotas[day].created + 1,
           \A d \in Days \ {day} : quotas'[d] = quotas[d]
    PROVE  QuotaExact'
<1>1. /\ LiveJobs(day)' = LiveJobs(day) \cup {j} /\ j \notin LiveJobs(day)
      /\ CreatedJobs(day)' = CreatedJobs(day) \cup {j} /\ j \notin CreatedJobs(day)
  BY DEF LiveJobs, CreatedJobs, NewJob, TypeOK, Live
<1>2. \A d \in Days : d # day =>
         LiveJobs(d)' = LiveJobs(d) /\ CreatedJobs(d)' = CreatedJobs(d)
  BY DEF LiveJobs, CreatedJobs, NewJob, TypeOK, Live
<1>3. /\ Cardinality(LiveJobs(day)') = Cardinality(LiveJobs(day)) + 1
      /\ Cardinality(CreatedJobs(day)') = Cardinality(CreatedJobs(day)) + 1
  BY <1>1, CountsFinite, FS_AddElement
<1>4. /\ quotas'[day].active = quotas[day].active + 1
      /\ quotas'[day].created = quotas[day].created + 1
      /\ \A d \in Days : d # day => quotas'[d] = quotas[d]
  OBVIOUS
<1>5. /\ quotas[day].active < MaxActive /\ quotas[day].created < MaxDaily
      /\ quotas[day].active \in Nat /\ quotas[day].created \in Nat
  BY DEF HasCapacity, TypeOK
<1> SUFFICES ASSUME NEW d \in Days
             PROVE  /\ quotas'[d].active = Cardinality(LiveJobs(d)')
                    /\ quotas'[d].created = Cardinality(CreatedJobs(d)')
                    /\ quotas'[d].active <= MaxActive
                    /\ quotas'[d].created <= MaxDaily
  BY DEF QuotaExact
<1>6. CASE d = day
  <2>1. /\ quotas[d].active = Cardinality(LiveJobs(d))
        /\ quotas[d].created = Cardinality(CreatedJobs(d))
    BY DEF QuotaExact
  <2> QED BY <1>6, <2>1, <1>3, <1>4, <1>5, QuotaAssumption
<1>7. CASE d # day
  BY <1>7, <1>2, <1>4 DEF QuotaExact
<1> QED BY <1>6, <1>7

\* Creating a job books it on today.
LEMMA CreateTakesQuota ==
    ASSUME TypeOK, QuotaExact, NEW j \in JobIds, Create(j)
    PROVE  QuotaExact'
<1>1. PICK day \in Days : day = Today
  BY DaysOfTimes DEF Today, TypeOK
<1>2. /\ quotas'[day].active = quotas[day].active + 1
      /\ quotas'[day].created = quotas[day].created + 1
      /\ \A d \in Days \ {day} : quotas'[d] = quotas[d]
  BY <1>1 DEF Create, TypeOK
<1> QED BY <1>1, <1>2, BookingTakesQuota DEF Create

LEMMA NextQuota == TypeOK /\ QuotaExact /\ [Next]_vars => QuotaExact'
<1> SUFFICES ASSUME TypeOK, QuotaExact, [Next]_vars PROVE QuotaExact'
  OBVIOUS
<1>1. ASSUME NEW j \in JobIds, Claim(j) PROVE QuotaExact'
  <2>1. jobs[j].status \in Live
    BY <1>1 DEF Claim, ClaimOutcome, TypeOK, Job, Statuses, Live
  <2> QED BY <1>1, <2>1, KeepsQuota DEF Claim, TypeOK, Live
<1>2. ASSUME NEW j \in JobIds, CancelUnpublished(j) PROVE QuotaExact'
  BY <1>2, ReleasesQuota DEF CancelUnpublished, TypeOK, Live, Terminal
<1>3. ASSUME NEW j \in JobIds, NEW a \in Callers(j), Renew(j, a) PROVE QuotaExact'
  BY <1>3, KeepsQuota DEF Renew, TypeOK
<1>4. ASSUME NEW j \in JobIds, NEW a \in Callers(j), Progress(j, a) PROVE QuotaExact'
  BY <1>4, KeepsQuota DEF Progress, TypeOK
<1>5. ASSUME NEW j \in JobIds, NEW a \in Callers(j), Complete(j, a) PROVE QuotaExact'
  BY <1>5, ReleasesQuota DEF Complete, Owns, TypeOK, Live, Terminal
<1>6. ASSUME NEW j \in JobIds, NEW a \in Callers(j), Retry(j, a) PROVE QuotaExact'
  BY <1>6, KeepsQuota DEF Retry, Owns, TypeOK, Live
<1>7. ASSUME NEW j \in JobIds, NEW a \in Callers(j), Fail(j, a) PROVE QuotaExact'
  BY <1>7, ReleasesQuota DEF Fail, Owns, TypeOK, Live, Terminal
<1>8. CASE Tick
  BY <1>8, KeepsQuota DEF Tick
<1>9. CASE UNCHANGED vars
  BY <1>9, KeepsQuota DEF vars
<1> QED
  BY <1>1, <1>2, <1>3, <1>4, <1>5, <1>6, <1>7, <1>8, <1>9, CreateTakesQuota DEF Next

LEMMA InitQuota == Init => QuotaExact
<1> SUFFICES ASSUME Init, NEW d \in Days
             PROVE  /\ quotas[d].active = Cardinality(LiveJobs(d))
                    /\ quotas[d].created = Cardinality(CreatedJobs(d))
                    /\ quotas[d].active <= MaxActive
                    /\ quotas[d].created <= MaxDaily
  BY DEF QuotaExact
<1>1. LiveJobs(d) = {} /\ CreatedJobs(d) = {}
  BY DEF Init, NoJob, NewJob, LiveJobs, CreatedJobs, Live
<1> QED BY <1>1, FS_EmptySet, QuotaAssumption DEF Init

\* On every day the active counter is the number of live jobs created that
\* day and the created counter the number of jobs created that day, and
\* neither exceeds its limit: no interleaving of method calls, by whatever
\* attempt, leaks a slot or frees one twice.
THEOREM QuotaCorrect == Spec => []QuotaExact
BY InitQuota, NextQuota, TypeCorrect, PTL DEF Spec

-----------------------------------------------------------------------------
(* Leases, dossiers, progress.                                             *)

LEMMA NextLease == TypeOK /\ LeaseCoversAttempt /\ [Next]_vars => LeaseCoversAttempt'
<1> SUFFICES ASSUME TypeOK, LeaseCoversAttempt, [Next]_vars PROVE LeaseCoversAttempt'
  OBVIOUS
<1> DEFINE Covered(job, t) ==
       /\ job.lease_expires_at # 0 <=> job.status = "running"
       /\ job.status = "running" =>
             /\ job.attempts # <<>>
             /\ job.lease_expires_at >= job.attempts[Len(job.attempts)].started_at + LeaseSeconds
             /\ job.lease_expires_at <= t + LeaseSeconds
<1>1. \A j \in JobIds : Covered(jobs[j], now)
  BY DEF LeaseCoversAttempt
<1>2. SUFFICES \A j \in JobIds : Covered(jobs'[j], now')
  BY DEF LeaseCoversAttempt
<1>3. now \in Nat /\ LeaseUntil(now) = now + LeaseSeconds /\ LeaseUntil(now) # 0
  BY LeaseAssumption, ClockAssumption DEF LeaseUntil, TypeOK, Times
<1>4. ASSUME now' = now, NEW j \in JobIds, Covered(jobs'[j], now),
             \A i \in JobIds \ {j} : jobs'[i] = jobs[i]
      PROVE  \A i \in JobIds : Covered(jobs'[i], now')
  BY <1>1, <1>4
<1>5. ASSUME NEW j \in JobIds, Create(j) PROVE \A i \in JobIds : Covered(jobs'[i], now')
  <2>1. Covered(jobs'[j], now)
    BY <1>5 DEF Create, NewJob, TypeOK
  <2> HIDE DEF Covered
  <2> QED BY <1>4, <1>5, <2>1 DEF Create, TypeOK
<1>6. ASSUME NEW j \in JobIds, Claim(j) PROVE \A i \in JobIds : Covered(jobs'[i], now')
  <2> DEFINE e == [attempt_id |-> jobs[j].attempt_id + 1, started_at |-> now]
             h == jobs[j].attempts
             r == Remember(h, e)
  <2>1. e \in Entry /\ h \in Seq(Entry)
    BY <1>6 DEF Claim, Entry, TypeOK, Job
  <2> HIDE DEF e, h
  <2>2. r \in Seq(Entry) /\ r[Len(r)] = e
        /\ Len(r) = IF Len(h) >= HistoryLimit THEN HistoryLimit ELSE Len(h) + 1
    BY <2>1, RememberProperties
  <2>3. r # <<>>
    <3>1. Len(h) \in Nat
      BY <2>1
    <3>2. Len(r) # 0
      BY <2>2, <3>1, HistoryAssumption
    <3> QED BY <3>2
  <2>4. jobs'[j].status = "running" /\ jobs'[j].attempts = r
        /\ jobs'[j].lease_expires_at = LeaseUntil(now)
    BY <1>6 DEF Claim, TypeOK, Job, e, h
  <2>5. e.started_at = now
    BY DEF e
  <2> HIDE DEF r
  <2>6. Covered(jobs'[j], now)
    BY <2>2, <2>3, <2>4, <2>5, <1>3, LeaseAssumption
  <2> HIDE DEF Covered
  <2> QED BY <1>4, <1>6, <2>6 DEF Claim, TypeOK
<1>7. ASSUME NEW j \in JobIds, CancelUnpublished(j)
      PROVE  \A i \in JobIds : Covered(jobs'[i], now')
  <2>1. Covered(jobs'[j], now)
    BY <1>1, <1>7 DEF CancelUnpublished, TypeOK, Job
  <2> HIDE DEF Covered
  <2> QED BY <1>4, <1>7, <2>1 DEF CancelUnpublished, TypeOK
<1>8. ASSUME NEW j \in JobIds, NEW a \in Callers(j), Renew(j, a)
      PROVE  \A i \in JobIds : Covered(jobs'[i], now')
  <2>1. /\ jobs[j].status = "running"
        /\ jobs'[j].status = "running"
        /\ jobs'[j].attempts = jobs[j].attempts
        /\ jobs'[j].lease_expires_at = LeaseUntil(now)
    BY <1>8 DEF Renew, Owns, TypeOK, Job
  <2> DEFINE start == jobs[j].attempts[Len(jobs[j].attempts)].started_at
  <2>2. start \in Nat
    <3>1. jobs[j].attempts \in Seq(Entry) /\ jobs[j].attempts # <<>>
      BY <1>1, <2>1 DEF TypeOK, Job, Entry
    <3>2. jobs[j].attempts[Len(jobs[j].attempts)] \in Entry
      BY <3>1
    <3> QED BY <3>2 DEF Entry, Times
  <2>3. jobs[j].lease_expires_at \in Nat
    BY LeaseAssumption, ClockAssumption DEF TypeOK, Job
  <2>4. jobs[j].attempts # <<>> /\ jobs[j].lease_expires_at >= start + LeaseSeconds
        /\ jobs[j].lease_expires_at <= now + LeaseSeconds
    BY <1>1, <2>1
  <2>5. jobs'[j].lease_expires_at >= start + LeaseSeconds
    BY <2>1, <2>2, <2>3, <2>4, <1>3, LeaseAssumption
  <2>6. Covered(jobs'[j], now)
    BY <2>1, <2>4, <2>5, <1>3, LeaseAssumption
  <2> HIDE DEF Covered
  <2> QED BY <1>4, <1>8, <2>6 DEF Renew, TypeOK
<1>9. ASSUME NEW j \in JobIds, NEW a \in Callers(j), Progress(j, a)
      PROVE  \A i \in JobIds : Covered(jobs'[i], now')
  <2>1. Covered(jobs'[j], now)
    BY <1>1, <1>9 DEF Progress, TypeOK, Job
  <2> HIDE DEF Covered
  <2> QED BY <1>4, <1>9, <2>1 DEF Progress, TypeOK
<1>10. ASSUME NEW j \in JobIds, NEW a \in Callers(j), Complete(j, a)
       PROVE  \A i \in JobIds : Covered(jobs'[i], now')
  <2>1. Covered(jobs'[j], now)
    BY <1>10 DEF Complete, TypeOK, Job
  <2> HIDE DEF Covered
  <2> QED BY <1>4, <1>10, <2>1 DEF Complete, TypeOK
<1>11. ASSUME NEW j \in JobIds, NEW a \in Callers(j), Retry(j, a)
       PROVE  \A i \in JobIds : Covered(jobs'[i], now')
  <2>1. Covered(jobs'[j], now)
    BY <1>11 DEF Retry, TypeOK, Job
  <2> HIDE DEF Covered
  <2> QED BY <1>4, <1>11, <2>1 DEF Retry, TypeOK
<1>12. ASSUME NEW j \in JobIds, NEW a \in Callers(j), Fail(j, a)
       PROVE  \A i \in JobIds : Covered(jobs'[i], now')
  <2>1. Covered(jobs'[j], now)
    BY <1>12 DEF Fail, TypeOK, Job
  <2> HIDE DEF Covered
  <2> QED BY <1>4, <1>12, <2>1 DEF Fail, TypeOK
<1>13. ASSUME Tick PROVE \A i \in JobIds : Covered(jobs'[i], now')
  <2>1. \A j \in JobIds : jobs[j].lease_expires_at \in Nat
    BY LeaseAssumption, ClockAssumption DEF TypeOK, Job
  <2>2. jobs' = jobs /\ now' = now + 1
    BY <1>13 DEF Tick
  <2> QED BY <1>1, <1>3, <2>1, <2>2, LeaseAssumption
<1>14. ASSUME UNCHANGED vars PROVE \A i \in JobIds : Covered(jobs'[i], now')
  BY <1>1, <1>14 DEF vars
<1> HIDE DEF Covered
<1> QED
  BY <1>5, <1>6, <1>7, <1>8, <1>9, <1>10, <1>11, <1>12, <1>13, <1>14 DEF Next

\* A lease is held exactly by running jobs and lasts at least LeaseSeconds
\* from the start of the attempt that holds it, whoever calls renew or claim.
THEOREM LeaseCorrect == Spec => []LeaseCoversAttempt
<1>1. Init => LeaseCoversAttempt
  BY DEF Init, NoJob, NewJob, LeaseCoversAttempt
<1> QED BY <1>1, NextLease, TypeCorrect, PTL DEF Spec

LEMMA NextDossier == TypeOK /\ DossierFromLastAttempt /\ [Next]_vars => DossierFromLastAttempt'
<1> SUFFICES ASSUME TypeOK, DossierFromLastAttempt, [Next]_vars PROVE DossierFromLastAttempt'
  OBVIOUS
<1> USE DEF DossierFromLastAttempt, TypeOK, Job
<1>1. ASSUME NEW j \in JobIds, Create(j) PROVE DossierFromLastAttempt'
  BY <1>1 DEF Create, NewJob
<1>2. ASSUME NEW j \in JobIds, Claim(j) PROVE DossierFromLastAttempt'
  BY <1>2 DEF Claim, ClaimOutcome
<1>3. ASSUME NEW j \in JobIds, CancelUnpublished(j) PROVE DossierFromLastAttempt'
  BY <1>3 DEF CancelUnpublished
<1>4. ASSUME NEW j \in JobIds, NEW a \in Callers(j), Renew(j, a) PROVE DossierFromLastAttempt'
  BY <1>4 DEF Renew
<1>5. ASSUME NEW j \in JobIds, NEW a \in Callers(j), Progress(j, a) PROVE DossierFromLastAttempt'
  BY <1>5 DEF Progress
<1>6. ASSUME NEW j \in JobIds, NEW a \in Callers(j), Complete(j, a) PROVE DossierFromLastAttempt'
  BY <1>6 DEF Complete, Owns, Callers
<1>7. ASSUME NEW j \in JobIds, NEW a \in Callers(j), Retry(j, a) PROVE DossierFromLastAttempt'
  BY <1>7 DEF Retry, Owns
<1>8. ASSUME NEW j \in JobIds, NEW a \in Callers(j), Fail(j, a) PROVE DossierFromLastAttempt'
  BY <1>8 DEF Fail, Owns
<1>9. CASE Tick
  BY <1>9 DEF Tick
<1>10. CASE UNCHANGED vars
  BY <1>10 DEF vars
<1> QED
  BY <1>1, <1>2, <1>3, <1>4, <1>5, <1>6, <1>7, <1>8, <1>9, <1>10 DEF Next

\* A dossier is stored exactly for complete jobs and is the one of the last
\* attempt handed out: a stale attempt never publishes its dossier.
THEOREM DossierCorrect == Spec => []DossierFromLastAttempt
<1>1. Init => DossierFromLastAttempt
  BY DEF Init, NoJob, NewJob, DossierFromLastAttempt
<1> QED BY <1>1, NextDossier, TypeCorrect, PTL DEF Spec

\* No step changes the record of a complete or failed job.
LEMMA TerminalStep ==
    ASSUME TypeOK, [Next]_vars, NEW i \in JobIds, jobs[i].status \in Terminal
    PROVE  jobs'[i] = jobs[i]
<1> USE DEF TypeOK, Terminal
<1>1. ASSUME NEW j \in JobIds, Create(j) PROVE jobs'[i] = jobs[i]
  BY <1>1 DEF Create
<1>2. ASSUME NEW j \in JobIds, Claim(j) PROVE jobs'[i] = jobs[i]
  BY <1>2 DEF Claim, ClaimOutcome
<1>3. ASSUME NEW j \in JobIds, CancelUnpublished(j) PROVE jobs'[i] = jobs[i]
  BY <1>3 DEF CancelUnpublished
<1>4. ASSUME NEW j \in JobIds, NEW a \in Callers(j),
             Renew(j, a) \/ Progress(j, a) \/ Complete(j, a) \/ Retry(j, a) \/ Fail(j, a)
      PROVE  jobs'[i] = jobs[i]
  BY <1>4 DEF Renew, Progress, Complete, Retry, Fail, Owns
<1>5. CASE Tick \/ UNCHANGED vars
  BY <1>5 DEF Tick, vars
<1> QED BY <1>1, <1>2, <1>3, <1>4, <1>5 DEF Next

\* No method changes a job that is complete or failed.
THEOREM TerminalCorrect == Spec => TerminalIsFinal
<1>1. TypeOK /\ [Next]_vars =>
        [\A j \in JobIds : jobs[j].status \in Terminal => jobs'[j] = jobs[j]]_vars
  BY TerminalStep
<1> QED BY <1>1, TypeCorrect, PTL DEF Spec, TerminalIsFinal

-----------------------------------------------------------------------------
(* The attempt history and progress.                                       *)

\* What the methods of an attempt leave alone.
LEMMA CallerFrame ==
    ASSUME TypeOK, NEW j \in JobIds, NEW a \in Callers(j),
           Renew(j, a) \/ Progress(j, a) \/ Complete(j, a) \/ Retry(j, a) \/ Fail(j, a)
    PROVE  \A i \in JobIds :
              /\ jobs'[i].attempts = jobs[i].attempts
              /\ jobs'[i].attempt_id = jobs[i].attempt_id
              /\ Progress(j, a) \/ jobs'[i].progress = jobs[i].progress
<1> USE DEF TypeOK, Job
<1>1. CASE Renew(j, a)
  BY <1>1 DEF Renew
<1>2. CASE Progress(j, a)
  BY <1>2 DEF Progress
<1>3. CASE Complete(j, a)
  BY <1>3 DEF Complete
<1>4. CASE Retry(j, a)
  BY <1>4 DEF Retry
<1>5. CASE Fail(j, a)
  BY <1>5 DEF Fail
<1> QED BY <1>1, <1>2, <1>3, <1>4, <1>5

\* The history h holds the newest attempts up to last, without a gap.
GaplessTail(h, last) ==
    /\ Len(h) <= HistoryLimit
    /\ Len(h) < HistoryLimit => Len(h) = last
    /\ \A i \in 1..Len(h) : h[i].attempt_id = last - (Len(h) - i)

LEMMA RememberKeepsTail ==
    ASSUME NEW h \in Seq(Entry), NEW last \in Nat, GaplessTail(h, last),
           NEW e \in Entry, e.attempt_id = last + 1
    PROVE  GaplessTail(Remember(h, e), last + 1)
<1> DEFINE r == Remember(h, e)
           L == Len(h)
<1>1. /\ Len(r) = IF L >= HistoryLimit THEN HistoryLimit ELSE L + 1
      /\ r[Len(r)] = e
      /\ \A i \in 1..(Len(r) - 1) : r[i] = h[L - Len(r) + 1 + i]
  BY RememberProperties
<1>2. L \in Nat
  OBVIOUS
<1>3. L <= HistoryLimit /\ (L < HistoryLimit => L = last)
      /\ \A i \in 1..L : h[i].attempt_id = last - (L - i)
  BY DEF GaplessTail
<1> HIDE DEF r, L
<1>4. Len(r) <= HistoryLimit /\ (Len(r) < HistoryLimit => Len(r) = last + 1)
  BY <1>1, <1>2, <1>3, HistoryAssumption
<1>5. Len(r) \in Nat /\ Len(r) <= L + 1
  BY <1>1, <1>2, HistoryAssumption
<1>6. ASSUME NEW i \in 1..Len(r) PROVE r[i].attempt_id = last + 1 - (Len(r) - i)
  <2>1. CASE i = Len(r)
    BY <2>1, <1>1, <1>5
  <2>2. CASE i # Len(r)
    <3> DEFINE m == L - Len(r) + 1 + i
    <3>1. i \in 1..(Len(r) - 1) /\ m \in 1..L
      BY <2>2, <1>2, <1>5
    <3>2. r[i] = h[m] /\ h[m].attempt_id = last - (L - m)
      BY <3>1, <1>1, <1>3
    <3>3. last - (L - m) = last + 1 - (Len(r) - i)
      BY <1>2, <1>5
    <3> QED BY <3>2, <3>3
  <2> QED BY <2>1, <2>2
<1>7. GaplessTail(r, last + 1)
  BY <1>4, <1>6 DEF GaplessTail
<1> QED BY <1>7 DEF r

LEMMA NextHistory == TypeOK /\ HistoryIsTail /\ [Next]_vars => HistoryIsTail'
<1> SUFFICES ASSUME TypeOK, HistoryIsTail, [Next]_vars PROVE HistoryIsTail'
  OBVIOUS
<1>1. \A j \in JobIds : GaplessTail(jobs[j].attempts, jobs[j].attempt_id)
  BY DEF HistoryIsTail, GaplessTail
<1>2. SUFFICES \A j \in JobIds : GaplessTail(jobs'[j].attempts, jobs'[j].attempt_id)
  BY DEF HistoryIsTail, GaplessTail
<1>3. ASSUME \A j \in JobIds : /\ jobs'[j].attempts = jobs[j].attempts
                               /\ jobs'[j].attempt_id = jobs[j].attempt_id
      PROVE  \A j \in JobIds : GaplessTail(jobs'[j].attempts, jobs'[j].attempt_id)
  BY <1>1, <1>3
<1>4. ASSUME NEW j \in JobIds, Create(j)
      PROVE  \A i \in JobIds : GaplessTail(jobs'[i].attempts, jobs'[i].attempt_id)
  <2>1. jobs'[j].attempts = <<>> /\ jobs'[j].attempt_id = 0
    BY <1>4 DEF Create, NewJob, TypeOK
  <2>2. GaplessTail(jobs'[j].attempts, jobs'[j].attempt_id)
    BY <2>1, HistoryAssumption DEF GaplessTail
  <2>3. \A i \in JobIds \ {j} : jobs'[i] = jobs[i]
    BY <1>4 DEF Create, TypeOK
  <2> QED BY <2>2, <2>3, <1>1
<1>5. ASSUME NEW j \in JobIds, Claim(j)
      PROVE  \A i \in JobIds : GaplessTail(jobs'[i].attempts, jobs'[i].attempt_id)
  <2> DEFINE last == jobs[j].attempt_id
             e == [attempt_id |-> last + 1, started_at |-> now]
             h == jobs[j].attempts
  <2>1. e \in Entry /\ h \in Seq(Entry) /\ last \in Nat /\ e.attempt_id = last + 1
    BY <1>5, ClaimsAssumption DEF Claim, Entry, TypeOK, Job, AttemptIds
  <2>2. GaplessTail(h, last)
    BY <1>1
  <2>3. jobs'[j].attempts = Remember(h, e) /\ jobs'[j].attempt_id = last + 1
    BY <1>5 DEF Claim, TypeOK, Job
  <2>4. \A i \in JobIds \ {j} : jobs'[i] = jobs[i]
    BY <1>5 DEF Claim, TypeOK
  <2> HIDE DEF last, e, h
  <2>5. GaplessTail(jobs'[j].attempts, jobs'[j].attempt_id)
    BY <2>1, <2>2, <2>3, RememberKeepsTail
  <2> QED BY <2>4, <2>5, <1>1
<1>6. ASSUME NEW j \in JobIds, CancelUnpublished(j)
      PROVE  \A i \in JobIds : GaplessTail(jobs'[i].attempts, jobs'[i].attempt_id)
  BY <1>3, <1>6 DEF CancelUnpublished, TypeOK, Job
<1>7. ASSUME NEW j \in JobIds, NEW a \in Callers(j),
             Renew(j, a) \/ Progress(j, a) \/ Complete(j, a) \/ Retry(j, a) \/ Fail(j, a)
      PROVE  \A i \in JobIds : GaplessTail(jobs'[i].attempts, jobs'[i].attempt_id)
  BY <1>3, <1>7, CallerFrame
<1>8. ASSUME Tick \/ UNCHANGED vars
      PROVE  \A i \in JobIds : GaplessTail(jobs'[i].attempts, jobs'[i].attempt_id)
  BY <1>3, <1>8 DEF Tick, vars
<1> QED
  BY <1>4, <1>5, <1>6, <1>7, <1>8 DEF Next

\* The history never grows past its limit and always holds the newest
\* attempts, consecutively, up to the one that runs.
THEOREM HistoryCorrect == Spec => []HistoryIsTail
<1>1. Init => HistoryIsTail
  BY HistoryAssumption DEF Init, NoJob, NewJob, HistoryIsTail
<1> QED BY <1>1, NextHistory, TypeCorrect, PTL DEF Spec

\* A job that does not exist has the initial record, and nobody reports
\* progress for an attempt that was not handed out.
Fresh ==
    \A j \in JobIds :
        /\ jobs[j].status = "missing" => jobs[j] = NoJob
        /\ jobs[j].progress <= jobs[j].attempt_id

LEMMA NextFresh == TypeOK /\ Fresh /\ [Next]_vars => Fresh'
<1> SUFFICES ASSUME TypeOK, Fresh, [Next]_vars PROVE Fresh'
  OBVIOUS
<1> USE ClaimsAssumption DEF TypeOK, Job, Fresh
<1>1. ASSUME NEW j \in JobIds, Create(j) PROVE Fresh'
  BY <1>1 DEF Create, NewJob
<1>2. ASSUME NEW j \in JobIds, Claim(j) PROVE Fresh'
  BY <1>2 DEF Claim
<1>3. ASSUME NEW j \in JobIds, CancelUnpublished(j) PROVE Fresh'
  BY <1>3 DEF CancelUnpublished
<1>4. ASSUME NEW j \in JobIds, NEW a \in Callers(j), Renew(j, a) PROVE Fresh'
  BY <1>4 DEF Renew, Owns
<1>5. ASSUME NEW j \in JobIds, NEW a \in Callers(j), Progress(j, a) PROVE Fresh'
  BY <1>5 DEF Progress, Owns
<1>6. ASSUME NEW j \in JobIds, NEW a \in Callers(j), Complete(j, a) PROVE Fresh'
  BY <1>6 DEF Complete, Owns
<1>7. ASSUME NEW j \in JobIds, NEW a \in Callers(j), Retry(j, a) PROVE Fresh'
  BY <1>7 DEF Retry, Owns
<1>8. ASSUME NEW j \in JobIds, NEW a \in Callers(j), Fail(j, a) PROVE Fresh'
  BY <1>8 DEF Fail, Owns
<1>9. CASE Tick
  BY <1>9 DEF Tick
<1>10. CASE UNCHANGED vars
  BY <1>10 DEF vars
<1> QED
  BY <1>1, <1>2, <1>3, <1>4, <1>5, <1>6, <1>7, <1>8, <1>9, <1>10 DEF Next

LEMMA FreshCorrect == Spec => []Fresh
<1>1. Init => Fresh
  BY DEF Init, NoJob, NewJob, Fresh
<1> QED BY <1>1, NextFresh, TypeCorrect, PTL DEF Spec

\* A late progress report of an overtaken attempt never replaces one of a
\* newer attempt.
THEOREM ProgressCorrect == Spec => ProgressNeverRegresses
<1>1. TypeOK /\ Fresh /\ [Next]_vars =>
        [\A j \in JobIds : jobs'[j].progress >= jobs[j].progress]_vars
  <2> SUFFICES ASSUME TypeOK, Fresh, Next, NEW i \in JobIds
               PROVE  jobs'[i].progress >= jobs[i].progress
    BY DEF vars
  <2>1. jobs[i].progress \in Nat /\ jobs[i].attempt_id \in Nat
    BY ClaimsAssumption DEF TypeOK, Job
  <2>2. jobs[i].progress <= jobs[i].attempt_id
    BY DEF Fresh
  <2>3. ASSUME NEW j \in JobIds, Create(j) PROVE jobs'[i].progress >= jobs[i].progress
    BY <2>3, <2>1 DEF Create, Fresh, NoJob, NewJob, TypeOK, Job
  <2>4. ASSUME NEW j \in JobIds, Claim(j) PROVE jobs'[i].progress = jobs[i].progress
    BY <2>4 DEF Claim, TypeOK, Job
  <2>5. ASSUME NEW j \in JobIds, CancelUnpublished(j)
        PROVE  jobs'[i].progress = jobs[i].progress
    BY <2>5 DEF CancelUnpublished, TypeOK, Job
  <2>6. ASSUME NEW j \in JobIds, NEW a \in Callers(j), Progress(j, a)
        PROVE  jobs'[i].progress >= jobs[i].progress
    BY <2>6, <2>1, <2>2 DEF Progress, Owns, TypeOK, Job
  <2>7. ASSUME NEW j \in JobIds, NEW a \in Callers(j), ~Progress(j, a),
               Renew(j, a) \/ Complete(j, a) \/ Retry(j, a) \/ Fail(j, a)
        PROVE  jobs'[i].progress = jobs[i].progress
    BY <2>7, CallerFrame
  <2>8. CASE Tick
    BY <2>8, <2>1 DEF Tick
  <2> QED BY <2>1, <2>3, <2>4, <2>5, <2>6, <2>7, <2>8 DEF Next
<1> QED BY <1>1, TypeCorrect, FreshCorrect, PTL DEF Spec, ProgressNeverRegresses

-----------------------------------------------------------------------------
(* All of it, as one inductive invariant for the modules built on JobStore. *)

StoreInv ==
    /\ TypeOK /\ QuotaExact /\ LeaseCoversAttempt
    /\ DossierFromLastAttempt /\ HistoryIsTail /\ Fresh

LEMMA StoreInvInit == Init => StoreInv
<1>1. Init => LeaseCoversAttempt /\ DossierFromLastAttempt /\ HistoryIsTail /\ Fresh
  BY HistoryAssumption
  DEF Init, NoJob, NewJob, LeaseCoversAttempt, DossierFromLastAttempt, HistoryIsTail, Fresh
<1> QED BY <1>1, InitType, InitQuota DEF StoreInv

LEMMA StoreInvStep == StoreInv /\ [Next]_vars => StoreInv'
BY NextType, NextQuota, NextLease, NextDossier, NextHistory, NextFresh DEF StoreInv
=============================================================================
