------------------------- MODULE JobStoreRefinement -------------------------
(***************************************************************************)
(* JobStore implements JobLifecycle: the proof that Spec => Lifecycle!Spec *)
(* for every value of the constants.  The step that needs an invariant is  *)
(* Create, whose counters admit a job only when the sets of JobLifecycle   *)
(* do (QuotaExact), and Complete, whose dossier is the current attempt's.  *)
(***************************************************************************)
EXTENDS JobStoreProofs

\* Day 0 is the day of time 0, and the clock never goes back a day.
LEMMA DayOrder ==
    /\ DayKey(0) = 0
    /\ \A t \in Nat : DayKey(t) \in Nat /\ DayKey(t + 1) >= DayKey(t)
BY ClockAssumption DEF DayKey

\* Later times are not on earlier days.
LEMMA DaysInOrder ==
    ASSUME NEW t \in Times, NEW u \in Times, t <= u
    PROVE  DayKey(t) <= DayKey(u)
BY ClockAssumption DEF DayKey, Times

\* The cardinality operator that JobLifecycle brings is the usual one.
LEMMA SameCardinality ==
    ASSUME NEW S
    PROVE  Lifecycle!Cardinality(S) = Cardinality(S)
BY DEF Cardinality, Lifecycle!Cardinality

\* The sets that the two modules count are the same.
LEMMA SameSets ==
    ASSUME NEW d
    PROVE  Lifecycle!OpenJobs(d) = LiveJobs(d) /\ Lifecycle!Submitted(d) = CreatedJobs(d)
BY DEF Lifecycle!OpenJobs, Lifecycle!Submitted, LiveJobs, CreatedJobs, Live, Lifecycle!Open

LEMMA InitRefines == Init => Lifecycle!Init
<1> SUFFICES ASSUME Init PROVE Lifecycle!Init
  OBVIOUS
<1>1. 0 \in Times
  BY ClockAssumption DEF Times
<1> QED
  BY <1>1, DayOrder, DaysOfTimes DEF Init, NoJob, NewJob, Lifecycle!Init, Today

\* The clock moves the abstract day, or nothing that the lifecycle shows.
LEMMA ClockRefines ==
    ASSUME TypeOK, Tick \/ UNCHANGED vars
    PROVE  [Lifecycle!Next]_(Lifecycle!vars)
<1> USE DEF TypeOK, Job
<1>1. CASE Tick
  <2>1. now + 1 \in Times /\ now' = now + 1 /\ jobs' = jobs /\ now \in Nat
    BY <1>1, ClockAssumption DEF Tick, Times
  <2>2. Today' \in Days /\ Today' >= Today /\ Today \in Nat /\ Today' \in Nat
    BY <2>1, DayOrder, DaysOfTimes DEF Today
  <2>3. CASE Today' = Today
    BY <2>1, <2>3 DEF Lifecycle!vars
  <2>4. CASE Today' # Today
    <3>1. Lifecycle!NewDay
      BY <2>1, <2>2, <2>4 DEF Lifecycle!NewDay
    <3> QED BY <3>1 DEF Lifecycle!Next
  <2> QED BY <2>3, <2>4
<1>2. CASE UNCHANGED vars
  BY <1>2 DEF vars, Today, Lifecycle!vars
<1> QED BY <1>1, <1>2

LEMMA NextRefines ==
    TypeOK /\ QuotaExact /\ Fresh /\ DossierFromLastAttempt /\ [Next]_vars
        => [Lifecycle!Next]_(Lifecycle!vars)
<1> SUFFICES ASSUME TypeOK, QuotaExact, Fresh, DossierFromLastAttempt, [Next]_vars
             PROVE  Lifecycle!Next \/ UNCHANGED Lifecycle!vars
  OBVIOUS
<1> USE DEF TypeOK, Job
<1>1. now' = now => Today' = Today
  BY DEF Today
<1>2. ASSUME NEW j \in JobIds, Create(j) PROVE Lifecycle!Next
  <2>1. jobs[j].status = "missing" /\ jobs[j] = NoJob
    BY <1>2 DEF Create, Fresh
  <2>2. jobs' = [jobs EXCEPT ![j] = NewJob("queued", Today)] /\ now' = now
    BY <1>2 DEF Create
  <2>3. PICK d \in Days : d = Today
    BY DaysOfTimes DEF Today
  <2>4. Cardinality(Lifecycle!OpenJobs(d)) < MaxActive
        /\ Cardinality(Lifecycle!Submitted(d)) < MaxDaily
    BY <1>2, <2>3, SameSets DEF Create, HasCapacity, QuotaExact
  <2>5. Lifecycle!Submit(j, d)
    <3>1. /\ Lifecycle!Cardinality(Lifecycle!OpenJobs(d)) < MaxActive
          /\ Lifecycle!Cardinality(Lifecycle!Submitted(d)) < MaxDaily
      BY <2>4, SameCardinality
    <3>2. \A i \in JobIds :
             /\ jobs'[i].status = IF i = j THEN "queued" ELSE jobs[i].status
             /\ jobs'[i].quota_day = IF i = j THEN d ELSE jobs[i].quota_day
             /\ jobs'[i].attempt_id = jobs[i].attempt_id
             /\ jobs'[i].dossier = jobs[i].dossier
      BY <2>1, <2>2, <2>3 DEF NewJob, NoJob
    <3>3. d <= Today
      BY <2>3, DayOrder, ClockAssumption DEF Today, Times
    <3> QED BY <1>1, <2>1, <2>2, <3>1, <3>2, <3>3 DEF Lifecycle!Submit
  <2> QED BY <2>5 DEF Lifecycle!Next
<1>3. ASSUME NEW j \in JobIds, Claim(j) PROVE Lifecycle!Next
  <2>1. Lifecycle!Start(j)
    <3>1. jobs[j].status \in Lifecycle!Open
      BY <1>3 DEF Claim, ClaimOutcome, Statuses, Lifecycle!Open
    <3> QED BY <1>1, <1>3, <3>1 DEF Claim, Lifecycle!Start
  <2> QED BY <2>1 DEF Lifecycle!Next
<1>4. ASSUME NEW j \in JobIds, CancelUnpublished(j) PROVE Lifecycle!Next
  <2>1. Lifecycle!GiveUp(j)
    BY <1>1, <1>4 DEF CancelUnpublished, Lifecycle!GiveUp, Lifecycle!Open
  <2> QED BY <2>1 DEF Lifecycle!Next
<1>5. ASSUME NEW j \in JobIds, NEW a \in Callers(j), Renew(j, a)
      PROVE  UNCHANGED Lifecycle!vars
  BY <1>1, <1>5 DEF Renew, Lifecycle!vars
<1>6. ASSUME NEW j \in JobIds, NEW a \in Callers(j), Progress(j, a)
      PROVE  UNCHANGED Lifecycle!vars
  BY <1>1, <1>6 DEF Progress, Lifecycle!vars
<1>7. ASSUME NEW j \in JobIds, NEW a \in Callers(j), Complete(j, a) PROVE Lifecycle!Next
  <2>1. Lifecycle!Finish(j)
    BY <1>1, <1>7 DEF Complete, Owns, Lifecycle!Finish
  <2> QED BY <2>1 DEF Lifecycle!Next
<1>8. ASSUME NEW j \in JobIds, NEW a \in Callers(j), Retry(j, a) PROVE Lifecycle!Next
  <2>1. Lifecycle!Requeue(j)
    BY <1>1, <1>8 DEF Retry, Owns, Lifecycle!Requeue
  <2> QED BY <2>1 DEF Lifecycle!Next
<1>9. ASSUME NEW j \in JobIds, NEW a \in Callers(j), Fail(j, a) PROVE Lifecycle!Next
  <2>1. Lifecycle!GiveUp(j)
    BY <1>1, <1>9 DEF Fail, Owns, Lifecycle!GiveUp, Lifecycle!Open
  <2> QED BY <2>1 DEF Lifecycle!Next
<1> QED
  BY <1>2, <1>3, <1>4, <1>5, <1>6, <1>7, <1>8, <1>9, ClockRefines DEF Next

\* The store implements the abstract lifecycle: leases, counters and the
\* clock add nothing a client could see beyond submitting, starting,
\* requeueing, finishing and failing jobs within the capacity of the day.
THEOREM RefinesLifecycle == Spec => ImplementsLifecycle
<1>1. Spec => Lifecycle!Spec
  BY InitRefines, NextRefines, TypeCorrect, QuotaCorrect, FreshCorrect, DossierCorrect, PTL
  DEF Spec, Lifecycle!Spec
<1> QED BY <1>1 DEF ImplementsLifecycle
=============================================================================
