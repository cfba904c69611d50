------------------------------ MODULE JobStore ------------------------------
(***************************************************************************)
(* The job store of jobs.py (InMemoryJobStore): one record per job, two    *)
(* quota counters per UTC day, a lease per running attempt.  Every method  *)
(* body runs under one lock, so one method call is one action.             *)
(*                                                                         *)
(* Data is abstracted to what the store's callers can tell apart:          *)
(*   - attempt ids (uuid4) are numbered per job in the order they are      *)
(*     generated, 0 stands for None;                                       *)
(*   - a dossier, or a progress report, is the attempt that wrote it;      *)
(*   - completed_at is whether the field is set;                           *)
(*   - times are ticks of an integer clock and 0 stands for "no lease"     *)
(*     (a lease is always set to now + LeaseSeconds > 0).                  *)
(*                                                                         *)
(* Callers are unconstrained here: any attempt ever handed out, however    *)
(* stale, may call any method at any time.  ClaimService adds the callers. *)
(***************************************************************************)
EXTENDS Naturals, Sequences, FiniteSets

CONSTANTS
    JobIds,        \* identities create() can generate
    LeaseSeconds,  \* length of a lease, in ticks
    MaxActive,     \* MAX_ACTIVE_JOBS
    MaxDaily,      \* MAX_JOBS_PER_DAY
    HistoryLimit,  \* attempts kept in a job's history (20 in the code)
    DaySeconds,    \* ticks of a UTC day
    MaxNow,        \* bound: the clock stops here
    MaxClaims      \* bound: attempt ids that can be generated for one job

ASSUME JobIdsAssumption == IsFiniteSet(JobIds)
ASSUME LeaseAssumption == LeaseSeconds \in Nat \ {0}
ASSUME QuotaAssumption == MaxActive \in Nat /\ MaxDaily \in Nat
ASSUME HistoryAssumption == HistoryLimit \in Nat \ {0, 1}
ASSUME ClockAssumption == DaySeconds \in Nat \ {0} /\ MaxNow \in Nat
ASSUME ClaimsAssumption == MaxClaims \in Nat

VARIABLES
    jobs,    \* jobs[j]: the record of j, NoJob before create()
    quotas,  \* quotas[d]: the counters of day d
    now      \* the clock utc_now() reads

vars == <<jobs, quotas, now>>

Times == 0..MaxNow
DayKey(t) == t \div DaySeconds
Days == {DayKey(t) : t \in Times}
Today == DayKey(now)

AttemptIds == 1..MaxClaims
Statuses == {"missing", "queued", "running", "complete", "failed"}
Live == {"queued", "running"}
Terminal == {"complete", "failed"}

Job == [status : Statuses,
        quota_day : Days,
        attempt_id : 0..MaxClaims,
        lease_expires_at : 0..(MaxNow + LeaseSeconds),
        attempts : Seq([attempt_id : AttemptIds, started_at : Times]),
        dossier : 0..MaxClaims,
        progress : 0..MaxClaims,
        completed_at : BOOLEAN]

NewJob(status, day) ==
    [status |-> status, quota_day |-> day, attempt_id |-> 0,
     lease_expires_at |-> 0, attempts |-> <<>>, dossier |-> 0, progress |-> 0,
     completed_at |-> FALSE]

NoJob == NewJob("missing", DayKey(0))

Init ==
    /\ jobs = [j \in JobIds |-> NoJob]
    /\ quotas = [d \in Days |-> [active |-> 0, created |-> 0]]
    /\ now = 0

-----------------------------------------------------------------------------
(* Guards and updates shared by the methods.                               *)

HasCapacity(d) ==
    /\ quotas[d].active < MaxActive
    /\ quotas[d].created < MaxDaily

\* Mutant: the status is compared but not the attempt.
OwnsAnyAttempt(j, a) == jobs[j].status = "running" /\ a = a

\* The compare of every compare-and-set: the caller's attempt still runs j.
Owns(j, a) == jobs[j].status = "running" /\ jobs[j].attempt_id = a

LeaseActive(j) == jobs[j].status = "running" /\ jobs[j].lease_expires_at > now

\* Mutant: a tick too long.
LeaseUntilNext(t) == t + LeaseSeconds + 1

LeaseUntil(t) == t + LeaseSeconds

DecrementActive(d) ==
    [quotas EXCEPT ![d].active = IF @ > 0 THEN @ - 1 ELSE 0]

\* Mutant: a failed job can be claimed again.
ClaimOutcomeReopens(j) ==
    CASE jobs[j].status = "missing"  -> "missing"
      [] jobs[j].status = "complete" -> "complete"
      [] LeaseActive(j)              -> "busy"
      [] OTHER                       -> "acquired"

\* Mutant: a running job is handed out although its lease is active.
ClaimOutcomeIgnoresLease(j) ==
    CASE jobs[j].status = "missing"  -> "missing"
      [] jobs[j].status = "complete" -> "complete"
      [] jobs[j].status = "failed"   -> "failed"
      [] OTHER                       -> "acquired"

\* What claim(j) answers; only "acquired" changes the job.
ClaimOutcome(j) ==
    CASE jobs[j].status = "missing"  -> "missing"
      [] jobs[j].status = "complete" -> "complete"
      [] jobs[j].status = "failed"   -> "failed"
      [] LeaseActive(j)              -> "busy"
      [] OTHER                       -> "acquired"

\* Mutant: the newest entries are dropped instead of the oldest.
RememberFirst(history, entry) ==
    LET k == HistoryLimit - 1
    IN  Append(IF Len(history) > k THEN SubSeq(history, 1, k) ELSE history, entry)

\* attempts[-19:] followed by the new entry.
Remember(history, entry) ==
    LET k == HistoryLimit - 1
        n == Len(history)
    IN  Append(IF n > k THEN SubSeq(history, n - k + 1, n) ELSE history, entry)

-----------------------------------------------------------------------------
(* The methods.                                                            *)

Create(j) ==
    /\ jobs[j].status = "missing"
    /\ HasCapacity(Today)
    /\ jobs' = [jobs EXCEPT ![j] = NewJob("queued", Today)]
    /\ quotas' = [quotas EXCEPT ![Today].active = @ + 1,
                                ![Today].created = @ + 1]
    /\ UNCHANGED now

Claim(j) ==
    LET a == jobs[j].attempt_id + 1
    IN  /\ ClaimOutcome(j) = "acquired"
        /\ a \in AttemptIds
        /\ jobs' = [jobs EXCEPT
              ![j].status = "running",
              ![j].attempt_id = a,
              ![j].lease_expires_at = LeaseUntil(now),
              ![j].attempts = Remember(@, [attempt_id |-> a, started_at |-> now])]
        /\ UNCHANGED <<quotas, now>>

Renew(j, a) ==
    /\ Owns(j, a)
    /\ jobs' = [jobs EXCEPT ![j].lease_expires_at = LeaseUntil(now)]
    /\ UNCHANGED <<quotas, now>>

Progress(j, a) ==
    /\ Owns(j, a)
    /\ jobs' = [jobs EXCEPT ![j].progress = a]
    /\ UNCHANGED <<quotas, now>>

Complete(j, a) ==
    /\ Owns(j, a)
    /\ jobs' = [jobs EXCEPT ![j].status = "complete",
                            ![j].dossier = a,
                            ![j].lease_expires_at = 0,
                            ![j].completed_at = TRUE]
    /\ quotas' = DecrementActive(jobs[j].quota_day)
    /\ UNCHANGED now

\* Mutant: the job leaves the running state with its lease still set.
RetryKeepsLease(j, a) ==
    /\ Owns(j, a)
    /\ jobs' = [jobs EXCEPT ![j].status = "queued"]
    /\ UNCHANGED <<quotas, now>>

Retry(j, a) ==
    /\ Owns(j, a)
    /\ jobs' = [jobs EXCEPT ![j].status = "queued",
                            ![j].lease_expires_at = 0]
    /\ UNCHANGED <<quotas, now>>

\* Mutant: the slot is given back to the day on which the job ends.
FailReleasesToday(j, a) ==
    /\ Owns(j, a)
    /\ jobs' = [jobs EXCEPT ![j].status = "failed",
                            ![j].lease_expires_at = 0]
    /\ quotas' = DecrementActive(Today)
    /\ UNCHANGED now

Fail(j, a) ==
    /\ Owns(j, a)
    /\ jobs' = [jobs EXCEPT ![j].status = "failed",
                            ![j].lease_expires_at = 0]
    /\ quotas' = DecrementActive(jobs[j].quota_day)
    /\ UNCHANGED now

\* Mutant: any job that exists can be cancelled, whatever its status.
CancelAny(j) ==
    /\ jobs[j].status # "missing"
    /\ jobs' = [jobs EXCEPT ![j].status = "failed"]
    /\ quotas' = DecrementActive(jobs[j].quota_day)
    /\ UNCHANGED now

CancelUnpublished(j) ==
    /\ jobs[j].status = "queued"
    /\ jobs' = [jobs EXCEPT ![j].status = "failed"]
    /\ quotas' = DecrementActive(jobs[j].quota_day)
    /\ UNCHANGED now

Tick ==
    /\ now < MaxNow
    /\ now' = now + 1
    /\ UNCHANGED <<jobs, quotas>>

-----------------------------------------------------------------------------
\* The attempts of j that were handed out and may still call the store.
Callers(j) == 1..jobs[j].attempt_id

Next ==
    \/ \E j \in JobIds : Create(j) \/ Claim(j) \/ CancelUnpublished(j)
    \/ \E j \in JobIds : \E a \in Callers(j) :
          \/ Renew(j, a)
          \/ Progress(j, a)
          \/ Complete(j, a)
          \/ Retry(j, a)
          \/ Fail(j, a)
    \/ Tick

Spec == Init /\ [][Next]_vars

-----------------------------------------------------------------------------
(* Properties.                                                             *)

LiveJobs(d) == {j \in JobIds : jobs[j].status \in Live /\ jobs[j].quota_day = d}
CreatedJobs(d) == {j \in JobIds : jobs[j].status # "missing" /\ jobs[j].quota_day = d}

\* Every record, counter and clock value has its type.
TypeOK ==
    /\ jobs \in [JobIds -> Job]
    /\ quotas \in [Days -> [active : Nat, created : Nat]]
    /\ now \in Times

\* The two counters of a day are exactly the jobs of that day which are live
\* and which were created, so no sequence of retries, late failures and
\* cancellations leaks a slot or frees one twice (jobs.py clamps at 0, which
\* would hide a double release), and both limits hold for every day.
QuotaExact ==
    \A d \in Days :
        /\ quotas[d].active = Cardinality(LiveJobs(d))
        /\ quotas[d].created = Cardinality(CreatedJobs(d))
        /\ quotas[d].active <= MaxActive
        /\ quotas[d].created <= MaxDaily

\* The dossier a client reads is the one of the last attempt that was handed
\* out, and a job has one exactly when it is complete: no older attempt can
\* have published its dossier after a newer one started.
DossierFromLastAttempt ==
    \A j \in JobIds :
        /\ jobs[j].dossier # 0 <=> jobs[j].status = "complete"
        /\ jobs[j].dossier # 0 => jobs[j].dossier = jobs[j].attempt_id

\* A lease is held exactly by running jobs, it covers at least LeaseSeconds
\* from the start of the attempt that holds it (no other attempt's renewal or
\* claim shortens it) and never reaches further than a renewal now would.
LeaseCoversAttempt ==
    \A j \in JobIds :
        LET job == jobs[j] IN
        /\ job.lease_expires_at # 0 <=> job.status = "running"
        /\ job.status = "running" =>
              /\ job.attempts # <<>>
              /\ job.lease_expires_at >= job.attempts[Len(job.attempts)].started_at + LeaseSeconds
              /\ job.lease_expires_at <= now + LeaseSeconds

\* The truncated history holds the newest attempts, in order and without a
\* gap, ends with the current one, and never exceeds HistoryLimit entries.
HistoryIsTail ==
    \A j \in JobIds :
        LET h == jobs[j].attempts
            n == Len(h)
        IN  /\ n <= HistoryLimit
            /\ n < HistoryLimit => n = jobs[j].attempt_id
            /\ \A i \in 1..n : h[i].attempt_id = jobs[j].attempt_id - (n - i)

\* Once a job is complete or failed no call by anybody changes its record
\* again: not a late renewal, a late failure, a cancellation or a new claim.
TerminalIsFinal ==
    [][\A j \in JobIds : jobs[j].status \in Terminal => jobs'[j] = jobs[j]]_vars

\* A progress report never replaces one of a newer attempt.
ProgressNeverRegresses ==
    [][\A j \in JobIds : jobs'[j].progress >= jobs[j].progress]_vars

\* The store implements the abstract job lifecycle: the counters admit a job
\* exactly when the sets of open and submitted jobs of the day would.
Lifecycle == INSTANCE JobLifecycle WITH
    phase <- [j \in JobIds |-> jobs[j].status],
    attempt <- [j \in JobIds |-> jobs[j].attempt_id],
    result <- [j \in JobIds |-> jobs[j].dossier],
    day <- [j \in JobIds |-> jobs[j].quota_day],
    today <- Today

ImplementsLifecycle == Lifecycle!Spec

\* README.md:305 says that the quota transaction permits only one active
\* research job.  The counters are per UTC day and a job keeps the day it was
\* created on, so a job that is still live after midnight does not count
\* against the jobs of the new day.
AtMostMaxActiveLive ==
    Cardinality({j \in JobIds : jobs[j].status \in Live}) <= MaxActive
=============================================================================
