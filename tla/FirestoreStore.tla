--------------------------- MODULE FirestoreStore ---------------------------
(***************************************************************************)
(* The production store of jobs.py (FirestoreJobStore): the same documents *)
(* and counters as JobStore, changed by transactions of several clients.   *)
(*                                                                         *)
(* A call reads its documents, decides, and commits its writes in separate *)
(* steps.  What it writes is computed from what it READ and from the clock *)
(* at that time (create reads the clock even before its transaction), so   *)
(* it may be out of date when it commits.  The Firestore service is        *)
(* external: a commit is refused if a document the transaction read has    *)
(* changed since; the client library then runs the function again, or      *)
(* gives up and raises.                                                    *)
(***************************************************************************)
EXTENDS JobStore

CONSTANT Clients

VARIABLE tx  \* tx[c]: the call client c is in

fvars == <<jobs, quotas, now, tx>>

CreateOp == "create"
FinishOps == {"complete", "fail"}
OwnerOps == {"renew", "progress", "complete", "retry", "fail"}
Ops == {CreateOp, "claim", "cancel"} \cup OwnerOps

\* The operations whose transaction also reads and writes a quota document.
QuotaOps == {CreateOp, "cancel"} \cup FinishOps

NoQuota == [active |-> 0, created |-> 0]

Idle == [phase |-> "idle"]

\* create() before its transaction reads, and any call about to commit.
Creating == [phase : {"called"}, job : JobIds, at : Times]
Reading == [phase : {"read"}, op : Ops, job : JobIds, attempt : 0..MaxClaims,
            at : Times, doc : Job, quota : [active : Nat, created : Nat]]

FInit == Init /\ tx = [c \in Clients |-> Idle]

-----------------------------------------------------------------------------
(* What the transaction functions do with the documents they read: t is    *)
(* the clock the function read.                                            *)

\* The day whose quota document the transaction touches.
QuotaDay(op, doc, t) == IF op = CreateOp THEN DayKey(t) ELSE doc.quota_day

\* claim() acquires a queued job, and a running one whose lease has run out.
Claimable(doc, t) ==
    \/ doc.status = "queued"
    \/ doc.status = "running" /\ doc.lease_expires_at <= t

\* The compare of every compare-and-set.
HeldBy(doc, a) == doc.status = "running" /\ doc.attempt_id = a

\* The function goes on to write; otherwise it returns without effect.
Applies(op, doc, quota, a, t) ==
    \/ /\ op = CreateOp
       /\ doc.status = "missing"
       /\ quota.active < MaxActive /\ quota.created < MaxDaily
    \/ op = "claim" /\ Claimable(doc, t) /\ doc.attempt_id < MaxClaims
    \/ op = "cancel" /\ doc.status = "queued"
    \/ op \in OwnerOps /\ HeldBy(doc, a)

\* Mutant: the lease of a finished job is left in its document.
FinishedKeepsLease(doc, status) ==
    [doc EXCEPT !.status = status, !.completed_at = TRUE]

\* _finish: shared by complete and fail.
Finished(doc, status) ==
    [doc EXCEPT !.status = status, !.lease_expires_at = 0, !.completed_at = TRUE]

DocAfter(op, doc, a, t) ==
    CASE op = CreateOp   -> NewJob("queued", DayKey(t))
      [] op = "claim"    ->
            [doc EXCEPT !.status = "running",
                        !.attempt_id = @ + 1,
                        !.lease_expires_at = LeaseUntil(t),
                        !.attempts = Remember(@, [attempt_id |-> doc.attempt_id + 1,
                                                  started_at |-> t])]
      [] op = "renew"    -> [doc EXCEPT !.lease_expires_at = LeaseUntil(t)]
      [] op = "progress" -> [doc EXCEPT !.progress = a]
      [] op = "retry"    -> [doc EXCEPT !.status = "queued", !.lease_expires_at = 0]
      [] op = "cancel"   -> [doc EXCEPT !.status = "failed"]
      [] op = "complete" -> [Finished(doc, "complete") EXCEPT !.dossier = a]
      [] op = "fail"     -> Finished(doc, "failed")

QuotaAfter(op, quota) ==
    IF op = CreateOp
    THEN [active |-> quota.active + 1, created |-> quota.created + 1]
    ELSE [quota EXCEPT !.active = IF @ > 0 THEN @ - 1 ELSE 0]

-----------------------------------------------------------------------------
(* Calls.                                                                  *)

\* The transaction of c reads the documents of op and the clock.  If it has
\* nothing to write it returns: False, a busy or terminal outcome, or
\* CapacityExceeded.
Read(c, op, j, a, t) ==
    LET doc == jobs[j]
        quota == IF op \in QuotaOps THEN quotas[QuotaDay(op, doc, t)] ELSE NoQuota
    IN  tx' = [tx EXCEPT ![c] =
            IF Applies(op, doc, quota, a, t)
            THEN [phase |-> "read", op |-> op, job |-> j, attempt |-> a,
                  at |-> t, doc |-> doc, quota |-> quota]
            ELSE Idle]

\* create() generates an identity and reads the clock before it reads.
CallCreate(c) ==
    /\ tx[c].phase = "idle"
    /\ \E j \in JobIds :
          /\ jobs[j].status = "missing"
          /\ \A b \in Clients : tx[b].phase # "idle" => tx[b].job # j
          /\ tx' = [tx EXCEPT ![c] = [phase |-> "called", job |-> j, at |-> now]]
    /\ UNCHANGED vars

ReadCreate(c) ==
    /\ tx[c].phase = "called"
    /\ Read(c, CreateOp, tx[c].job, 0, tx[c].at)
    /\ UNCHANGED vars

\* The other methods read the clock in the transaction; those of an attempt
\* can be called by any attempt that was ever handed out.
ReadOther(c) ==
    /\ tx[c].phase = "idle"
    /\ \E op \in Ops \ {CreateOp}, j \in JobIds, a \in 0..MaxClaims :
          /\ jobs[j].status # "missing"
          /\ IF op \in OwnerOps THEN a \in Callers(j) ELSE a = 0
          /\ Read(c, op, j, a, now)
    /\ UNCHANGED vars

\* Mutant: the quota document is read outside the transaction.
ReadsJobOnly(op) == IF op \in Ops THEN {"job"} ELSE {}

\* Mutant: the job document is read outside the transaction.
ReadsQuotaOnly(op) == IF op \in QuotaOps THEN {"quota"} ELSE {}

\* The documents a function reads with its transaction (create makes its job
\* document with transaction.create, which fails if there is one).
TransactionReads(op) == {"job"} \cup (IF op \in QuotaOps THEN {"quota"} ELSE {})

\* No document the transaction read has changed since.
Current(r) ==
    /\ "job" \in TransactionReads(r.op) => jobs[r.job] = r.doc
    /\ "quota" \in TransactionReads(r.op) =>
          quotas[QuotaDay(r.op, r.doc, r.at)] = r.quota

Commit(c) ==
    LET r == tx[c] IN
    /\ r.phase = "read"
    /\ Current(r)
    /\ jobs' = [jobs EXCEPT ![r.job] = DocAfter(r.op, r.doc, r.attempt, r.at)]
    /\ quotas' = IF r.op \in QuotaOps
                 THEN [quotas EXCEPT ![QuotaDay(r.op, r.doc, r.at)] = QuotaAfter(r.op, r.quota)]
                 ELSE quotas
    /\ tx' = [tx EXCEPT ![c] = Idle]
    /\ UNCHANGED now

\* The commit is refused: the call raises, or its function runs again, which
\* for create still books the day of the first reading.  The other methods
\* start over with ReadOther.
Refused(c) ==
    LET r == tx[c] IN
    /\ r.phase = "read"
    /\ ~Current(r)
    /\ \/ tx' = [tx EXCEPT ![c] = Idle]
       \/ /\ r.op = CreateOp
          /\ tx' = [tx EXCEPT ![c] = [phase |-> "called", job |-> r.job, at |-> r.at]]
    /\ UNCHANGED vars

FTick == Tick /\ UNCHANGED tx

FNext ==
    \/ \E c \in Clients :
          CallCreate(c) \/ ReadCreate(c) \/ ReadOther(c) \/ Commit(c) \/ Refused(c)
    \/ FTick

FSpec == FInit /\ [][FNext]_fvars

-----------------------------------------------------------------------------
(* Properties.  QuotaExact, DossierFromLastAttempt, LeaseCoversAttempt,    *)
(* TerminalIsFinal, ProgressNeverRegresses and ImplementsLifecycle are     *)
(* those of JobStore, here of the documents.                               *)

\* Documents, counters and calls have their types.
FTypeOK ==
    /\ TypeOK
    /\ \A c \in Clients : tx[c] = Idle \/ tx[c] \in Creating \/ tx[c] \in Reading

\* A running job is handed to a new attempt only when its lease has run out
\* at the moment of the commit, although the transaction looked at the lease
\* earlier: a renewal that commits in between is not overlooked.
LeaseNotStolen ==
    [][\A j \in JobIds :
         jobs[j].status = "running" /\ jobs'[j].attempt_id # jobs[j].attempt_id
            => jobs[j].lease_expires_at <= now]_fvars

\* The in-memory adapter when the clock shows that time.
Memory(clock) == INSTANCE JobStore WITH now <- clock

MemoryStep(op, j, a, t) ==
    CASE op = CreateOp   -> Memory(t)!Create(j)
      [] op = "claim"    -> Memory(t)!Claim(j)
      [] op = "cancel"   -> Memory(t)!CancelUnpublished(j)
      [] op = "renew"    -> Memory(t)!Renew(j, a)
      [] op = "progress" -> Memory(t)!Progress(j, a)
      [] op = "complete" -> Memory(t)!Complete(j, a)
      [] op = "retry"    -> Memory(t)!Retry(j, a)
      [] op = "fail"     -> Memory(t)!Fail(j, a)

\* A commit of one of ops has exactly the effect that the same call of the
\* in-memory adapter would have, made at the time the transaction read.
CommitsAsMemory(ops) ==
    \A c \in Clients : \A t \in Times :
        LET r == tx[c] IN
        (r.phase = "read" /\ r.op \in ops /\ r.at = t /\ tx'[c] # r
            /\ <<jobs, quotas>>' # <<jobs, quotas>>)
        => MemoryStep(r.op, r.job, r.attempt, t)

\* Except for fail(), a committed transaction equals a call of the in-memory
\* adapter, although transactions of several clients overlap.
SerializesAsMemory == [][CommitsAsMemory(Ops \ {"fail"})]_fvars

\* jobs.py:66 calls the in-memory store an adapter "with production-equivalent
\* semantics".  Its fail() leaves completed_at unset where the Firestore
\* adapter's sets it, and GET /claims shows the field.
FailsAsMemory == [][CommitsAsMemory({"fail"})]_fvars
=============================================================================
