---------------------------- MODULE ClaimService ----------------------------
(***************************************************************************)
(* The callers of the job store in the Pub/Sub deployment: the POST /claims*)
(* handler of web.py, the push subscription, and the POST /worker requests *)
(* of worker.py with their LeaseKeeper threads.                            *)
(*                                                                         *)
(*   api[j]      where the handler that created j stands                   *)
(*   msg[j]      the message of j in Pub/Sub: its state, the number of     *)
(*               deliveries, when the current one times out, and whether   *)
(*               one ever timed out                                        *)
(*   reqs[j][n]  the request that serves the n-th delivery                 *)
(*                                                                         *)
(* Every store method is one action (lock or transaction); everything      *)
(* between two store calls of a request interleaves with everybody else.   *)
(* What goes wrong is counted in faults: a crash, a store or publish call  *)
(* that raises although it took effect, a renewal in flight after its      *)
(* request ended, a duplicate delivery.  A runner that raises and a        *)
(* delivery that times out are normal operation and are not counted.       *)
(*                                                                         *)
(* Pub/Sub itself is external: at-least-once push delivery with an         *)
(* acknowledgement deadline, immediate redelivery after a failure, and a   *)
(* dead-letter topic after MaxDelivery deliveries.  An answer that comes   *)
(* after the deadline of its own delivery is not heard.                    *)
(***************************************************************************)
EXTENDS JobStore

CONSTANTS
    MaxDelivery,  \* MAX_DELIVERY_ATTEMPTS, and the subscription's limit
    AckDeadline,  \* the subscription's acknowledgement deadline, in ticks
    MaxFaults     \* bound: faults in one behaviour

ASSUME DeliveryAssumption == MaxDelivery \in Nat \ {0} /\ MaxDelivery <= MaxClaims
ASSUME DeadlineAssumption == AckDeadline \in Nat \ {0} /\ AckDeadline <= LeaseSeconds
ASSUME FaultsAssumption == MaxFaults \in Nat

VARIABLES api, msg, reqs, faults

env == <<api, msg, reqs, faults>>
serviceVars == <<vars, env>>

Deliveries == 1..MaxDelivery
Acks == {"ack_complete", "ack_completed", "ack_stale", "ack_missing"}
Working == {"claim", "run", "complete", "except"}
Answering == Acks \cup {"nack"}

Message == [state : {"none", "in_doubt", "ready", "out", "acked", "dead"},
            n : 0..MaxDelivery,
            deadline : 0..(MaxNow + AckDeadline),
            lapsed : BOOLEAN]

Request == [pc : {"none", "done"} \cup Working \cup Answering,
            attempt : 0..MaxClaims,
            deadline : 0..(MaxNow + AckDeadline),
            keeper : {"off", "on", "late"}]

NewRequest(pc, deadline) ==
    [pc |-> pc, attempt |-> 0, deadline |-> deadline, keeper |-> "off"]

ServiceInit ==
    /\ Init
    /\ api = [j \in JobIds |-> "idle"]
    /\ msg = [j \in JobIds |->
                [state |-> "none", n |-> 0, deadline |-> 0, lapsed |-> FALSE]]
    /\ reqs = [j \in JobIds |-> [n \in Deliveries |-> NewRequest("none", 0)]]
    /\ faults = 0

Fault == faults < MaxFaults /\ faults' = faults + 1
NoFault == UNCHANGED faults

-----------------------------------------------------------------------------
(* POST /claims                                                            *)

Api(j, from, to) == api[j] = from /\ api' = [api EXCEPT ![j] = to]

\* A request over the limits gets 429 and changes nothing.
ApiCreate(j) ==
    /\ Api(j, "idle", "publish")
    /\ Create(j)
    /\ UNCHANGED <<msg, reqs, faults>>

ApiPublish(j) ==
    /\ Api(j, "publish", "accepted")
    /\ msg' = [msg EXCEPT ![j].state = "ready"]
    /\ UNCHANGED <<vars, reqs, faults>>

\* Mutant: the failed publish is answered without cancelling the job.
ApiPublishRaisesUncancelled(j) ==
    /\ Api(j, "publish", "refused")
    /\ UNCHANGED msg
    /\ Fault
    /\ UNCHANGED <<vars, reqs>>

\* publish() raises: the message was not sent, or it is still in doubt
\* because result(timeout=30) gave up on it.
ApiPublishRaises(j) ==
    /\ Api(j, "publish", "cancel")
    /\ \/ UNCHANGED msg
       \/ msg' = [msg EXCEPT ![j].state = "in_doubt"]
    /\ Fault
    /\ UNCHANGED <<vars, reqs>>

ApiCancel(j) ==
    /\ Api(j, "cancel", "refused")
    /\ \/ CancelUnpublished(j)
       \/ jobs[j].status # "queued" /\ UNCHANGED vars
    /\ UNCHANGED <<msg, reqs, faults>>

\* The instance dies, or the store raises after it committed.
ApiCrash(j) ==
    /\ Api(j, "publish", "crashed") \/ Api(j, "cancel", "crashed")
    /\ Fault
    /\ UNCHANGED <<vars, msg, reqs>>

-----------------------------------------------------------------------------
(* The push subscription.                                                  *)

\* The request of the n-th delivery of j becomes r.
Put(j, n, r) == reqs' = [reqs EXCEPT ![j][n] = r]

\* A message in doubt turns out to be stored, or lost.
Land(j) ==
    /\ msg[j].state = "in_doubt"
    /\ \E s \in {"ready", "none"} : msg' = [msg EXCEPT ![j].state = s]
    /\ UNCHANGED <<vars, api, reqs, faults>>

Push(j) ==
    LET n == msg[j].n + 1
        deadline == now + AckDeadline
    IN  /\ msg[j].state = "ready"
        /\ msg' = [msg EXCEPT ![j] = [@ EXCEPT !.state = "out", !.n = n, !.deadline = deadline]]
        /\ Put(j, n, NewRequest("claim", deadline))
        /\ UNCHANGED <<vars, api, faults>>

\* The current delivery failed: redeliver, or dead-letter after the last one.
Returned(m) ==
    [m EXCEPT !.state = IF m.n >= MaxDelivery THEN "dead" ELSE "ready"]

Lapse(j) ==
    /\ msg[j].state = "out"
    /\ now >= msg[j].deadline
    /\ msg' = [msg EXCEPT ![j] = [Returned(@) EXCEPT !.lapsed = TRUE]]
    /\ UNCHANGED <<vars, api, reqs, faults>>

\* At-least-once: the message is delivered again before its deadline.
Duplicate(j) ==
    /\ msg[j].state = "out"
    /\ msg[j].n < MaxDelivery
    /\ msg' = [msg EXCEPT ![j].state = "ready"]
    /\ Fault
    /\ UNCHANGED <<vars, api, reqs>>

\* A 2xx within the deadline of its delivery removes the message.  Any other
\* answer to the current delivery returns it.  The rest is not heard.
AfterAnswer(m, r, n) ==
    CASE r.pc \in Acks /\ now < r.deadline /\ m.state \in {"ready", "out"} ->
            [m EXCEPT !.state = "acked"]
      [] r.pc = "nack" /\ n = m.n /\ m.state = "out" -> Returned(m)
      [] OTHER -> m

Answer(j, n) ==
    /\ reqs[j][n].pc \in Answering
    /\ msg' = [msg EXCEPT ![j] = AfterAnswer(@, reqs[j][n], n)]
    /\ Put(j, n, [reqs[j][n] EXCEPT !.pc = "done", !.deadline = 0])
    /\ UNCHANGED <<vars, api, faults>>

-----------------------------------------------------------------------------
(* POST /worker: ClaimWorker.process and the LeaseKeeper thread.           *)

At(j, n, pc) == reqs[j][n].pc = pc
Goto(j, n, pc) == Put(j, n, [reqs[j][n] EXCEPT !.pc = pc])
Attempt(j, n) == reqs[j][n].attempt

\* Mutant: a busy job is answered 2xx.
DeclinedAcksBusy == [missing |-> "ack_missing", complete |-> "ack_complete",
                     failed |-> "nack", busy |-> "ack_stale"]

\* The answer to a claim that was not acquired.
Declined == [missing |-> "ack_missing", complete |-> "ack_complete",
             failed |-> "nack", busy |-> "nack"]

WorkerClaim(j, n) ==
    /\ At(j, n, "claim")
    /\ \/ /\ Claim(j)
          /\ Put(j, n, [reqs[j][n] EXCEPT !.pc = "run",
                                          !.attempt = jobs'[j].attempt_id,
                                          !.keeper = "on"])
       \/ /\ ClaimOutcome(j) # "acquired"
          /\ Goto(j, n, Declined[ClaimOutcome(j)])
          /\ UNCHANGED vars
    /\ UNCHANGED <<api, msg, faults>>

\* claim() commits but raises: nobody knows the attempt that holds the lease.
WorkerClaimLost(j, n) ==
    /\ At(j, n, "claim")
    /\ Claim(j)
    /\ Goto(j, n, "nack")
    /\ Fault
    /\ UNCHANGED <<api, msg>>

WorkerProgress(j, n) ==
    /\ At(j, n, "run")
    /\ Progress(j, Attempt(j, n))
    /\ UNCHANGED env

\* The runner returns or raises and the keeper is stopped.  join(timeout=2)
\* may leave one renewal in flight.
RunnerEnds(j, n, pc) ==
    /\ At(j, n, "run")
    /\ \/ Put(j, n, [reqs[j][n] EXCEPT !.pc = pc, !.keeper = "off"]) /\ NoFault
       \/ Put(j, n, [reqs[j][n] EXCEPT !.pc = pc, !.keeper = "late"]) /\ Fault
    /\ UNCHANGED <<vars, api, msg>>

RunnerReturns(j, n) == RunnerEnds(j, n, "complete")
RunnerRaises(j, n) == RunnerEnds(j, n, "except")

WorkerComplete(j, n) ==
    /\ At(j, n, "complete")
    /\ \/ /\ Complete(j, Attempt(j, n))
          /\ Goto(j, n, "ack_completed")
       \/ /\ ~Owns(j, Attempt(j, n))
          /\ Goto(j, n, "ack_stale")
          /\ UNCHANGED vars
    /\ UNCHANGED <<api, msg, faults>>

\* complete() raises, before or after it committed.
WorkerCompleteRaises(j, n) ==
    /\ At(j, n, "complete")
    /\ Complete(j, Attempt(j, n)) \/ UNCHANGED vars
    /\ Goto(j, n, "except")
    /\ Fault
    /\ UNCHANGED <<api, msg>>

\* Mutant: the last delivery is treated as the one before it.
GiveUpOrRetryEarly(j, n) ==
    IF n + 1 >= MaxDelivery THEN Fail(j, Attempt(j, n)) ELSE Retry(j, Attempt(j, n))

\* Mutant: the last delivery puts the job back in the queue too.
AlwaysRetry(j, n) == n = n /\ Retry(j, Attempt(j, n))

GiveUpOrRetry(j, n) ==
    IF n >= MaxDelivery THEN Fail(j, Attempt(j, n)) ELSE Retry(j, Attempt(j, n))

WorkerExcept(j, n) ==
    /\ At(j, n, "except")
    /\ \/ GiveUpOrRetry(j, n)
       \/ ~Owns(j, Attempt(j, n)) /\ UNCHANGED vars
    /\ Goto(j, n, "nack")
    /\ UNCHANGED <<api, msg, faults>>

\* The instance dies, or the store raises before it committed, or the answer
\* is lost on its way: Pub/Sub sees a failed delivery.
WorkerCrash(j, n) ==
    /\ reqs[j][n].pc \in Working \cup Acks
    /\ Put(j, n, [reqs[j][n] EXCEPT !.pc = "nack", !.keeper = "off"])
    /\ Fault
    /\ UNCHANGED <<vars, api, msg>>

KeeperRenews(j, n) ==
    /\ reqs[j][n].keeper # "off"
    /\ Renew(j, Attempt(j, n))
    /\ Put(j, n, [reqs[j][n] EXCEPT !.keeper = IF @ = "on" THEN "on" ELSE "off"])
    /\ UNCHANGED <<api, msg, faults>>

-----------------------------------------------------------------------------
ApiStep(j) ==
    ApiCreate(j) \/ ApiPublish(j) \/ ApiPublishRaises(j) \/ ApiCancel(j) \/ ApiCrash(j)

PubSubStep(j) == Land(j) \/ Push(j) \/ Lapse(j) \/ Duplicate(j)

RunnerStep(j, n) == RunnerReturns(j, n) \/ RunnerRaises(j, n)

RequestStep(j, n) ==
    \/ WorkerClaim(j, n) \/ WorkerClaimLost(j, n) \/ WorkerProgress(j, n)
    \/ RunnerStep(j, n)
    \/ WorkerComplete(j, n) \/ WorkerCompleteRaises(j, n) \/ WorkerExcept(j, n)
    \/ WorkerCrash(j, n) \/ KeeperRenews(j, n) \/ Answer(j, n)

ServiceTick == Tick /\ UNCHANGED env

ServiceNext ==
    \/ \E j \in JobIds :
          \/ ApiStep(j)
          \/ PubSubStep(j)
          \/ \E n \in Deliveries : RequestStep(j, n)
    \/ ServiceTick

ServiceSpec == ServiceInit /\ [][ServiceNext]_serviceVars

(***************************************************************************)
(* Fairness: the subscription pushes a ready message, notices a deadline   *)
(* that has passed and settles a publish in doubt; a request runs on, and  *)
(* its runner ends, because Cloud Run stops it after its timeout; a handler*)
(* that created a job goes on.  Nothing is assumed of crashes, duplicates, *)
(* the keeper (a daemon thread that may starve) or new submissions.        *)
(***************************************************************************)
Fairness ==
    /\ \A j \in JobIds :
          /\ WF_serviceVars(ApiPublish(j) \/ ApiPublishRaises(j) \/ ApiCancel(j))
          /\ WF_serviceVars(Land(j)) /\ WF_serviceVars(Push(j)) /\ WF_serviceVars(Lapse(j))
          /\ \A n \in Deliveries :
                /\ WF_serviceVars(WorkerClaim(j, n)) /\ WF_serviceVars(RunnerStep(j, n))
                /\ WF_serviceVars(WorkerComplete(j, n)) /\ WF_serviceVars(WorkerExcept(j, n))
                /\ WF_serviceVars(Answer(j, n))
    /\ WF_serviceVars(ServiceTick)

FairServiceSpec == ServiceSpec /\ Fairness

-----------------------------------------------------------------------------
(* Properties.                                                             *)

\* A request of j is between its push and its answer.
Served(j) == \E n \in Deliveries : reqs[j][n].pc \in Working \cup Answering

\* Every variable of the service has its type.
ServiceTypeOK ==
    /\ TypeOK
    /\ api \in [JobIds -> {"idle", "publish", "cancel", "accepted", "refused", "crashed"}]
    /\ msg \in [JobIds -> Message]
    /\ reqs \in [JobIds -> [Deliveries -> Request]]
    /\ faults \in 0..MaxFaults

\* Pub/Sub forgets a message only when its job is complete.  worker.py also
\* answers 2xx for a stale attempt (ack_stale); that is harmless because a
\* lease lasts at least as long as an acknowledgement deadline, which
\* Settings.validate demands: by the time an attempt is stale, its answer is
\* no longer heard.
AckedMeansComplete ==
    \A j \in JobIds : msg[j].state = "acked" => jobs[j].status = "complete"

\* What a request is about to answer is true of the store: a completed
\* attempt is the one whose dossier is stored, and an attempt that is told
\* it is stale was overtaken by a newer one, so a computed dossier is thrown
\* away only for a newer attempt's.
AnswersAreTrue ==
    \A j \in JobIds : \A n \in Deliveries :
        LET r == reqs[j][n] IN
        /\ r.pc = "ack_completed" => jobs[j].dossier = r.attempt
        /\ r.pc = "ack_stale" => jobs[j].attempt_id > r.attempt
        /\ r.pc # "ack_missing"

\* A job whose submission was accepted (202) fails only in its last delivery:
\* no crash, duplicate, or error before that ends it.
AcceptedFailsOnlyOnLastDelivery ==
    \A j \in JobIds :
        api[j] = "accepted" /\ jobs[j].status = "failed" => msg[j].n = MaxDelivery

\* A submission answered 503 holds a quota slot only if its message reached a
\* worker all the same.
RefusedHoldsNoSlot ==
    \A j \in JobIds :
        api[j] = "refused" /\ jobs[j].status \in Live => msg[j].n > 0

\* A live job always has somebody who will still move it: its handler, its
\* message or a request.  The only two leaks are a handler that died and a
\* message that went to the dead-letter topic.
LiveJobIsDriven ==
    \A j \in JobIds :
        jobs[j].status \in Live =>
            \/ api[j] \in {"publish", "cancel"}
            \/ msg[j].state \in {"in_doubt", "ready", "out"}
            \/ Served(j)
            \/ api[j] = "crashed" \/ msg[j].state = "dead"

\* While the lease of an attempt runs, the job changes hands, is requeued or
\* ends only by a step of the very request that holds the attempt.
LiveOwnerKeepsJob ==
    [][\A j \in JobIds :
         LeaseActive(j) =>
             \/ /\ jobs'[j].status = "running"
                /\ jobs'[j].attempt_id = jobs[j].attempt_id
             \/ \E n \in Deliveries :
                   /\ reqs[j][n].attempt = jobs[j].attempt_id
                   /\ reqs'[j][n].pc # reqs[j][n].pc]_serviceVars

\* An accepted job always comes to an end that somebody can see: it is
\* complete or failed, or its message is on the dead-letter topic.
AcceptedEnds ==
    \A j \in JobIds :
        api[j] = "accepted" ~>
            (jobs[j].status \in Terminal \/ msg[j].state = "dead")

\* Without faults and without a delivery that outlasts its deadline, every
\* accepted job becomes complete or failed, however often its runner raises:
\* the slot is always given back.
AcceptedReleasesSlot ==
    \A j \in JobIds :
        api[j] = "accepted" ~>
            (jobs[j].status \in Terminal \/ msg[j].lapsed \/ faults > 0)

\* Where nothing went wrong but the runner, and no delivery outlasted its
\* deadline, the deliveries of a message come one after another, each with an
\* attempt of its own, and the last one fails the job before the message goes
\* to the dead-letter topic (worker.py:143): only then it is given up.
QuietDeadLetterFailed ==
    \A j \in JobIds :
        msg[j].state = "dead" /\ ~msg[j].lapsed /\ faults = 0 => jobs[j].status = "failed"

\* README.md:166: "The fifth failed delivery marks the job failed and
\* releases the public-demo quota while the message proceeds to the
\* dead-letter topic."  The last delivery marks the job failed only if it is
\* the one that runs the job; a delivery answered 409 because an earlier one
\* still runs counts as well.
DeadLetteredJobIsTerminal ==
    \A j \in JobIds :
        msg[j].state = "dead" /\ ~Served(j) => jobs[j].status \in Terminal
=============================================================================
