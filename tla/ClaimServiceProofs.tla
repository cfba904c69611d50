------------------------- MODULE ClaimServiceProofs -------------------------
(***************************************************************************)
(* Proofs about ClaimService, for every set of jobs and every value of the *)
(* limits, the deadlines, the clock and the number of faults.              *)
(***************************************************************************)
EXTENDS ClaimService, JobStoreProofs

-----------------------------------------------------------------------------
(* The service uses the store as the store expects.                        *)

\* The attempt that owns a job was handed out.
LEMMA OwnerIsCaller ==
    ASSUME StoreInv, NEW j \in JobIds, NEW a, Owns(j, a)
    PROVE  a \in Callers(j)
<1> DEFINE h == jobs[j].attempts
           n == Len(h)
<1>1. h \in Seq(Entry) /\ jobs[j].attempt_id \in Nat
  <2>1. jobs[j] \in Job
    BY DEF StoreInv, TypeOK
  <2> QED BY <2>1, ClaimsAssumption DEF Job, Entry
<1>2. h # <<>>
  BY DEF StoreInv, LeaseCoversAttempt, Owns
<1>3. n \in Nat /\ n \in 1..n /\ n - n = 0
  BY <1>1, <1>2, EmptySeq, LenProperties
<1>4. h[n] \in Entry /\ h[n].attempt_id = jobs[j].attempt_id - (n - n)
  BY <1>1, <1>3, ElementOfSeq DEF StoreInv, HistoryIsTail
<1>5. h[n].attempt_id \in AttemptIds
  BY <1>4 DEF Entry
<1> HIDE DEF h, n
<1>6. jobs[j].attempt_id \in AttemptIds
  BY <1>1, <1>3, <1>4, <1>5
<1> QED BY <1>1, <1>6, ClaimsAssumption DEF Callers, Owns, AttemptIds

\* Every step of the service is one call of the store, or none.
LEMMA ServiceStepIsStoreStep ==
    StoreInv /\ [ServiceNext]_serviceVars => [Next]_vars
<1> SUFFICES ASSUME StoreInv, ServiceNext PROVE [Next]_vars
  BY DEF serviceVars, vars
<1>1. ASSUME NEW j \in JobIds, ApiStep(j) PROVE [Next]_vars
  BY <1>1 DEF ApiStep, ApiCreate, ApiPublish, ApiPublishRaises, ApiCancel, ApiCrash, Next
<1>2. ASSUME NEW j \in JobIds, PubSubStep(j) PROVE [Next]_vars
  BY <1>2 DEF PubSubStep, Land, Push, Lapse, Duplicate
<1>3. ASSUME NEW j \in JobIds, NEW n \in Deliveries, RequestStep(j, n) PROVE [Next]_vars
  <2>1. ASSUME NEW a, \/ Renew(j, a) \/ Progress(j, a) \/ Complete(j, a)
                      \/ Retry(j, a) \/ Fail(j, a)
        PROVE  Next
    <3>1. Owns(j, a)
      BY <2>1 DEF Renew, Progress, Complete, Retry, Fail
    <3> QED BY <2>1, <3>1, OwnerIsCaller DEF Next
  <2>2. CASE WorkerClaim(j, n) \/ WorkerClaimLost(j, n)
    BY <2>2 DEF WorkerClaim, WorkerClaimLost, Next
  <2>3. CASE WorkerProgress(j, n) \/ WorkerComplete(j, n) \/ WorkerCompleteRaises(j, n)
    BY <2>1, <2>3 DEF WorkerProgress, WorkerComplete, WorkerCompleteRaises
  <2>4. CASE WorkerExcept(j, n) \/ KeeperRenews(j, n)
    BY <2>1, <2>4 DEF WorkerExcept, GiveUpOrRetry, KeeperRenews
  <2>5. CASE RunnerStep(j, n) \/ WorkerCrash(j, n) \/ Answer(j, n)
    BY <2>5 DEF RunnerStep, RunnerReturns, RunnerRaises, RunnerEnds, WorkerCrash, Answer
  <2> QED BY <1>3, <2>2, <2>3, <2>4, <2>5 DEF RequestStep
<1>4. CASE ServiceTick
  BY <1>4 DEF ServiceTick, Next
<1> QED BY <1>1, <1>2, <1>3, <1>4 DEF ServiceNext

-----------------------------------------------------------------------------
(* Handlers and messages.                                                  *)

\* Where the handler of j stands, what it has done to the job and the message.
HandlerInv(j) ==
    /\ api[j] = "idle" <=> jobs[j].status = "missing"
    /\ api[j] \in {"idle", "publish"} =>
          msg[j].state = "none" /\ jobs[j].status \in {"missing", "queued"}
    /\ api[j] = "accepted" => msg[j].state \notin {"none", "in_doubt"}

\* A message that was never pushed has no request; one that may be pushed has
\* deliveries left; only requests have claimed the job.
MessageInv(j) ==
    /\ msg[j].state \in {"none", "in_doubt"} => msg[j].n = 0
    /\ msg[j].state = "ready" => msg[j].n < MaxDelivery
    /\ jobs[j].attempt_id > 0 => msg[j].n > 0
    /\ \A n \in Deliveries :
          n > msg[j].n => reqs[j][n].pc = "none" /\ reqs[j][n].keeper = "off"

CallInv == \A j \in JobIds : HandlerInv(j) /\ MessageInv(j)

\* A call of the store by an attempt, and any call for j.
OwnerCall(j, a) == Renew(j, a) \/ Progress(j, a) \/ Complete(j, a) \/ Retry(j, a) \/ Fail(j, a)
StoreCall(j, a) == Create(j) \/ Claim(j) \/ CancelUnpublished(j) \/ OwnerCall(j, a)

\* What a call of the store does to the fields that these invariants read.
LEMMA JobEffects ==
    ASSUME StoreInv, NEW j \in JobIds
    PROVE  /\ Create(j) => jobs[j].status = "missing" /\ jobs'[j].status = "queued"
                           /\ jobs'[j].attempt_id = 0 /\ jobs[j].attempt_id = 0
           /\ Claim(j) => jobs[j].status \in Live /\ jobs'[j].status = "running"
                          /\ jobs'[j].attempt_id = jobs[j].attempt_id + 1
           /\ CancelUnpublished(j) => jobs[j].status = "queued" /\ jobs'[j].status = "failed"
                                      /\ jobs'[j].attempt_id = jobs[j].attempt_id
           /\ \A a : OwnerCall(j, a) =>
                 /\ jobs[j].status = "running" /\ jobs'[j].status # "missing"
                 /\ jobs'[j].attempt_id = jobs[j].attempt_id
           /\ \A a : StoreCall(j, a) => \A i \in JobIds : i # j => jobs'[i] = jobs[i]
<1> USE DEF StoreInv, TypeOK, Job
<1>1. jobs[j].status = "missing" => jobs[j].attempt_id = 0
  BY DEF Fresh, NoJob, NewJob
<1>2. Create(j) => jobs[j].status = "missing" /\ jobs'[j].status = "queued"
                   /\ jobs'[j].attempt_id = 0 /\ jobs[j].attempt_id = 0
  BY <1>1 DEF Create, NewJob
<1>3. Claim(j) => jobs[j].status \in Live /\ jobs'[j].status = "running"
                  /\ jobs'[j].attempt_id = jobs[j].attempt_id + 1
  BY DEF Claim, ClaimOutcome, Statuses, Live
<1>4. CancelUnpublished(j) => jobs[j].status = "queued" /\ jobs'[j].status = "failed"
                              /\ jobs'[j].attempt_id = jobs[j].attempt_id
  BY DEF CancelUnpublished
<1>5. ASSUME NEW a, OwnerCall(j, a)
      PROVE  /\ jobs[j].status = "running" /\ jobs'[j].status # "missing"
             /\ jobs'[j].attempt_id = jobs[j].attempt_id
  BY <1>5 DEF OwnerCall, Renew, Progress, Complete, Retry, Fail, Owns
<1>6. ASSUME NEW a, StoreCall(j, a), NEW i \in JobIds, i # j PROVE jobs'[i] = jobs[i]
  BY <1>6 DEF StoreCall, OwnerCall, Create, Claim, CancelUnpublished, Renew, Progress, Complete, Retry, Fail
<1> QED BY <1>2, <1>3, <1>4, <1>5, <1>6

-----------------------------------------------------------------------------
(* Type correctness.                                                       *)

EnvTypeOK ==
    /\ api \in [JobIds -> {"idle", "publish", "cancel", "accepted", "refused", "crashed"}]
    /\ msg \in [JobIds -> Message]
    /\ reqs \in [JobIds -> [Deliveries -> Request]]
    /\ faults \in 0..MaxFaults

LEMMA Deadlines ==
    ASSUME TypeOK
    PROVE  /\ now + AckDeadline \in 0..(MaxNow + AckDeadline)
           /\ 0 \in 0..(MaxNow + AckDeadline)
           /\ 0 \in 0..MaxDelivery
           /\ 0 \in 0..MaxClaims
           /\ \A pc : \A d \in 0..(MaxNow + AckDeadline) :
                 pc \in {"none", "claim"} => NewRequest(pc, d) \in Request
<1>1. now \in Nat /\ now <= MaxNow
  BY ClockAssumption DEF TypeOK, Times
<1>2. /\ now + AckDeadline \in 0..(MaxNow + AckDeadline)
      /\ 0 \in 0..(MaxNow + AckDeadline) /\ 0 \in 0..MaxDelivery /\ 0 \in 0..MaxClaims
  BY <1>1, ClockAssumption, DeadlineAssumption, DeliveryAssumption, ClaimsAssumption
<1> QED BY <1>2 DEF NewRequest, Request, Working

\* A message that may be pushed has deliveries left.
DeliveriesLeft == \A j \in JobIds : msg[j].state = "ready" => msg[j].n < MaxDelivery

LEMMA EnvTypeStep ==
    StoreInv /\ EnvTypeOK /\ DeliveriesLeft /\ [ServiceNext]_serviceVars => EnvTypeOK'
<1> SUFFICES ASSUME StoreInv, EnvTypeOK, DeliveriesLeft, [ServiceNext]_serviceVars
             PROVE  EnvTypeOK'
  OBVIOUS
<1> USE DEF EnvTypeOK
<1>0. MaxFaults \in Nat /\ MaxDelivery \in Nat \ {0}
  BY FaultsAssumption, DeliveryAssumption
<1>1. ASSUME NEW j \in JobIds, ApiStep(j) PROVE EnvTypeOK'
  <2> USE DEF Api, Fault
  <2>1. CASE ApiCreate(j)
    BY <2>1 DEF ApiCreate
  <2>2. CASE ApiPublish(j)
    BY <2>2 DEF ApiPublish, Message
  <2>3. CASE ApiPublishRaises(j)
    <3>1. msg[j] \in Message
      OBVIOUS
    <3>2. [msg[j] EXCEPT !.state = "in_doubt"] \in Message
      BY <3>1 DEF Message
    <3>3. msg' = msg \/ msg' = [msg EXCEPT ![j] = [msg[j] EXCEPT !.state = "in_doubt"]]
      BY <2>3 DEF ApiPublishRaises
    <3>4. msg' \in [JobIds -> Message]
      BY <3>2, <3>3
    <3>5. api' = [api EXCEPT ![j] = "cancel"] /\ UNCHANGED reqs
          /\ faults < MaxFaults /\ faults' = faults + 1
      BY <2>3 DEF ApiPublishRaises
    <3> QED BY <3>4, <3>5, <1>0
  <2>4. CASE ApiCancel(j)
    BY <2>4 DEF ApiCancel
  <2>5. CASE ApiCrash(j)
    BY <2>5, <1>0 DEF ApiCrash
  <2> QED BY <1>1, <2>1, <2>2, <2>3, <2>4, <2>5 DEF ApiStep
<1>2. ASSUME NEW j \in JobIds, PubSubStep(j) PROVE EnvTypeOK'
  <2>1. CASE Land(j)
    BY <2>1 DEF Land, Message
  <2>2. CASE Push(j)
    <3> DEFINE n == msg[j].n + 1
               d == now + AckDeadline
    <3>1. msg[j].state = "ready" /\ msg[j].n < MaxDelivery /\ msg[j].n \in Nat
      BY <2>2 DEF Push, DeliveriesLeft, Message
    <3>2. n \in Deliveries /\ n \in 0..MaxDelivery
      BY <3>1, <1>0 DEF Deliveries
    <3>3. d \in 0..(MaxNow + AckDeadline) /\ NewRequest("claim", d) \in Request
      BY Deadlines DEF StoreInv
    <3>4. /\ msg' = [msg EXCEPT ![j] = [@ EXCEPT !.state = "out", !.n = n, !.deadline = d]]
          /\ reqs' = [reqs EXCEPT ![j][n] = NewRequest("claim", d)]
          /\ UNCHANGED <<api, faults>>
      BY <2>2 DEF Push, Put
    <3> HIDE DEF n, d
    <3>5. [msg[j] EXCEPT !.state = "out", !.n = n, !.deadline = d] \in Message
      BY <3>2, <3>3 DEF Message
    <3> QED BY <3>2, <3>3, <3>4, <3>5
  <2>3. CASE Lapse(j)
    <3>1. msg[j] \in Message
      OBVIOUS
    <3>2. [Returned(msg[j]) EXCEPT !.lapsed = TRUE] \in Message
      BY <3>1 DEF Returned, Message
    <3> QED BY <2>3, <3>2 DEF Lapse
  <2>4. CASE Duplicate(j)
    BY <2>4, <1>0 DEF Duplicate, Fault, Message
  <2> QED BY <1>2, <2>1, <2>2, <2>3, <2>4 DEF PubSubStep
<1>3. ASSUME NEW j \in JobIds, NEW n \in Deliveries, RequestStep(j, n) PROVE EnvTypeOK'
  <2> DEFINE r == reqs[j][n]
  <2>0. r \in Request
    OBVIOUS
  <2>c. ASSUME NEW q \in Request, Put(j, n, q)
        PROVE  reqs' \in [JobIds -> [Deliveries -> Request]]
    BY <2>c DEF Put
  <2>d. \A q \in Request : Put(j, n, q) => reqs' \in [JobIds -> [Deliveries -> Request]]
    BY <2>c
  <2> HIDE DEF r
  <2>a. /\ \A pc \in Working \cup Answering \cup {"done"} : [r EXCEPT !.pc = pc] \in Request
        /\ \A pc \in Working : [r EXCEPT !.pc = pc, !.keeper = "off"] \in Request
        /\ \A pc \in Working : [r EXCEPT !.pc = pc, !.keeper = "late"] \in Request
    BY <2>0 DEF Request
  <2>b. /\ "nack" \in Answering /\ Acks \subseteq Answering
        /\ "run" \in Working /\ "complete" \in Working /\ "except" \in Working
        /\ "ack_completed" \in Answering /\ "ack_stale" \in Answering
    BY DEF Answering, Acks, Working
  <2>1. CASE WorkerClaim(j, n) \/ WorkerClaimLost(j, n)
    <3>1. jobs'[j].attempt_id \in 0..MaxClaims
      <4>1. StoreInv'
        BY <1>3, ServiceStepIsStoreStep, StoreInvStep DEF ServiceNext
      <4> QED BY <4>1 DEF StoreInv, TypeOK, Job
    <3>2. /\ [r EXCEPT !.pc = "run", !.attempt = jobs'[j].attempt_id, !.keeper = "on"] \in Request
          /\ [r EXCEPT !.pc = "nack"] \in Request
      BY <2>0, <2>a, <2>b, <3>1 DEF Request
    <3>3. ASSUME ClaimOutcome(j) # "acquired"
          PROVE  [r EXCEPT !.pc = Declined[ClaimOutcome(j)]] \in Request
      <4>1. ClaimOutcome(j) \in {"missing", "complete", "failed", "busy"}
        BY <3>3 DEF ClaimOutcome
      <4>2. Declined[ClaimOutcome(j)] \in Answering
        BY <4>1 DEF Declined, Answering, Acks
      <4> QED BY <2>a, <4>2
    <3> HIDE DEF Declined
    <3> QED BY <2>d, <2>1, <3>2, <3>3, <1>0 DEF WorkerClaim, WorkerClaimLost, Goto, Fault, r
  <2>2. CASE WorkerProgress(j, n)
    BY <2>2 DEF WorkerProgress, env
  <2>3. CASE RunnerStep(j, n)
    <3>1. PICK pc \in {"complete", "except"} : RunnerEnds(j, n, pc)
      BY <2>3 DEF RunnerStep, RunnerReturns, RunnerRaises
    <3>2. /\ \/ Put(j, n, [r EXCEPT !.pc = pc, !.keeper = "off"]) /\ faults' = faults
             \/ Put(j, n, [r EXCEPT !.pc = pc, !.keeper = "late"])
                /\ faults < MaxFaults /\ faults' = faults + 1
          /\ UNCHANGED <<api, msg>>
      BY <3>1 DEF RunnerEnds, Fault, NoFault, r
    <3>3. reqs' \in [JobIds -> [Deliveries -> Request]]
      BY <3>1, <3>2, <2>a, <2>b, <2>d
    <3> QED BY <3>2, <3>3, <1>0
  <2>e. ASSUME NEW pc \in Working \cup Answering, Goto(j, n, pc)
        PROVE  reqs' \in [JobIds -> [Deliveries -> Request]]
    BY <2>a, <2>d, <2>e DEF Goto, r
  <2>4. CASE WorkerComplete(j, n) \/ WorkerCompleteRaises(j, n)
    <3>1. /\ \/ Goto(j, n, "ack_completed") \/ Goto(j, n, "ack_stale") \/ Goto(j, n, "except")
          /\ UNCHANGED <<api, msg>>
          /\ faults' = faults \/ (faults < MaxFaults /\ faults' = faults + 1)
      BY <2>4 DEF WorkerComplete, WorkerCompleteRaises, Fault
    <3>2. reqs' \in [JobIds -> [Deliveries -> Request]]
      BY <3>1, <2>b, <2>e
    <3> QED BY <3>1, <3>2, <1>0
  <2>5. CASE WorkerExcept(j, n)
    <3>1. Goto(j, n, "nack") /\ UNCHANGED <<api, msg, faults>>
      BY <2>5 DEF WorkerExcept
    <3>2. reqs' \in [JobIds -> [Deliveries -> Request]]
      BY <3>1, <2>b, <2>e
    <3> QED BY <3>1, <3>2
  <2>6. CASE WorkerCrash(j, n)
    <3>1. [r EXCEPT !.pc = "nack", !.keeper = "off"] \in Request
      BY <2>0 DEF Request, Answering
    <3> QED BY <2>6, <2>d, <3>1, <1>0 DEF WorkerCrash, Fault, r
  <2>7. CASE KeeperRenews(j, n)
    <3>1. [r EXCEPT !.keeper = IF @ = "on" THEN "on" ELSE "off"] \in Request
      BY <2>0 DEF Request
    <3> QED BY <2>7, <2>d, <3>1 DEF KeeperRenews, r
  <2>8. CASE Answer(j, n)
    <3>1. AfterAnswer(msg[j], r, n) \in Message
      <4>1. msg[j] \in Message
        OBVIOUS
      <4> QED BY <4>1 DEF AfterAnswer, Returned, Message
    <3>2. [r EXCEPT !.pc = "done", !.deadline = 0] \in Request
      BY <2>0, Deadlines DEF Request, StoreInv
    <3>3. /\ msg' = [msg EXCEPT ![j] = AfterAnswer(msg[j], r, n)]
          /\ Put(j, n, [r EXCEPT !.pc = "done", !.deadline = 0])
          /\ UNCHANGED <<api, faults>>
      BY <2>8 DEF Answer, r
    <3> HIDE DEF Put
    <3> QED BY <2>d, <3>1, <3>2, <3>3
  <2> QED BY <1>3, <2>1, <2>2, <2>3, <2>4, <2>5, <2>6, <2>7, <2>8 DEF RequestStep
<1>4. CASE ServiceTick
  BY <1>4 DEF ServiceTick, env
<1>5. CASE UNCHANGED serviceVars
  BY <1>5 DEF serviceVars, env
<1> QED BY <1>1, <1>2, <1>3, <1>4, <1>5 DEF ServiceNext

-----------------------------------------------------------------------------
(* Frames: a step for one job leaves the others alone.                     *)

\* What belongs to job i is as it was.
Same(i) ==
    /\ jobs'[i] = jobs[i] /\ api'[i] = api[i]
    /\ msg'[i] = msg[i] /\ reqs'[i] = reqs[i]

LEMMA PutEffect ==
    ASSUME EnvTypeOK, NEW j \in JobIds, NEW n \in Deliveries, NEW r, Put(j, n, r)
    PROVE  /\ reqs'[j][n] = r
           /\ \A m \in Deliveries : m # n => reqs'[j][m] = reqs[j][m]
           /\ \A i \in JobIds : i # j => reqs'[i] = reqs[i]
BY DEF EnvTypeOK, Put

\* One call of an attempt of j, or of a claim, leaves the other jobs alone.
LEMMA CallFrame ==
    ASSUME StoreInv, NEW j \in JobIds, NEW a, StoreCall(j, a) \/ UNCHANGED vars,
           NEW i \in JobIds, i # j
    PROVE  jobs'[i] = jobs[i]
BY JobEffects DEF vars

LEMMA ApiFrame ==
    ASSUME StoreInv, EnvTypeOK, NEW j \in JobIds, ApiStep(j)
    PROVE  reqs' = reqs /\ \A i \in JobIds : i # j => Same(i)
<1>1. reqs' = reqs
  BY DEF ApiStep, ApiCreate, ApiPublish, ApiPublishRaises, ApiCancel, ApiCrash
<1>2. ASSUME NEW i \in JobIds, i # j PROVE Same(i)
  <2>1. StoreCall(j, 0) \/ UNCHANGED vars
    BY DEF ApiStep, ApiCreate, ApiPublish, ApiPublishRaises, ApiCancel, ApiCrash, StoreCall
  <2>2. jobs'[i] = jobs[i]
    BY <2>1, <1>2, CallFrame
  <2>3. api'[i] = api[i] /\ msg'[i] = msg[i]
    BY <1>2 DEF EnvTypeOK, ApiStep, Api, ApiCreate, ApiPublish, ApiPublishRaises, ApiCancel, ApiCrash
  <2> QED BY <1>1, <2>2, <2>3 DEF Same
<1> QED BY <1>1, <1>2

LEMMA PubSubFrame ==
    ASSUME EnvTypeOK, NEW j \in JobIds, CallInv, PubSubStep(j)
    PROVE  /\ UNCHANGED <<vars, api>>
           /\ \A i \in JobIds : i # j => Same(i)
           /\ \A n \in Deliveries : n # msg[j].n + 1 => reqs'[j][n] = reqs[j][n]
<1>1. UNCHANGED <<vars, api>>
  BY DEF PubSubStep, Land, Push, Lapse, Duplicate
<1>2. \A i \in JobIds : i # j => msg'[i] = msg[i]
  BY DEF EnvTypeOK, PubSubStep, Land, Push, Lapse, Duplicate
<1>3. /\ \A i \in JobIds : i # j => reqs'[i] = reqs[i]
      /\ \A n \in Deliveries : n # msg[j].n + 1 => reqs'[j][n] = reqs[j][n]
  <2>1. CASE Push(j)
    <3>1. msg[j].n + 1 \in Deliveries
      <4>1. msg[j].state = "ready" /\ msg[j].n < MaxDelivery /\ msg[j].n \in Nat
        BY <2>1, DeliveryAssumption DEF Push, CallInv, MessageInv, EnvTypeOK, Message
      <4> QED BY <4>1, DeliveryAssumption DEF Deliveries
    <3> QED BY <2>1, <3>1, PutEffect DEF Push
  <2>2. CASE Land(j) \/ Lapse(j) \/ Duplicate(j)
    BY <2>2 DEF Land, Lapse, Duplicate
  <2> QED BY <2>1, <2>2 DEF PubSubStep
<1> QED BY <1>1, <1>2, <1>3 DEF vars, Same

LEMMA RequestFrame ==
    ASSUME StoreInv, EnvTypeOK, NEW j \in JobIds, NEW n \in Deliveries, RequestStep(j, n)
    PROVE  /\ api' = api
           /\ \A i \in JobIds : i # j => Same(i)
           /\ \A m \in Deliveries : m # n => reqs'[j][m] = reqs[j][m]
           /\ Answer(j, n) \/ msg' = msg
<1>1. api' = api /\ (Answer(j, n) \/ msg' = msg)
  BY DEF RequestStep, WorkerClaim, WorkerClaimLost, WorkerProgress, RunnerStep, RunnerReturns,
         RunnerRaises, RunnerEnds, WorkerComplete, WorkerCompleteRaises, WorkerExcept,
         WorkerCrash, KeeperRenews, Answer, env
<1>2. UNCHANGED reqs \/ \E r : Put(j, n, r)
  BY DEF RequestStep, WorkerClaim, WorkerClaimLost, WorkerProgress, RunnerStep, RunnerReturns,
         RunnerRaises, RunnerEnds, WorkerComplete, WorkerCompleteRaises, WorkerExcept,
         WorkerCrash, KeeperRenews, Answer, env, Goto
<1>3. \A i \in JobIds : i # j => msg'[i] = msg[i]
  BY <1>1 DEF Answer, EnvTypeOK
<1>4. StoreCall(j, Attempt(j, n)) \/ UNCHANGED vars
  BY DEF RequestStep, WorkerClaim, WorkerClaimLost, WorkerProgress, RunnerStep, RunnerReturns,
         RunnerRaises, RunnerEnds, WorkerComplete, WorkerCompleteRaises, WorkerExcept, GiveUpOrRetry,
         WorkerCrash, KeeperRenews, Answer, StoreCall, OwnerCall
<1>5. \A i \in JobIds : i # j => jobs'[i] = jobs[i]
  BY <1>4, CallFrame
<1>6. /\ \A i \in JobIds : i # j => reqs'[i] = reqs[i]
      /\ \A m \in Deliveries : m # n => reqs'[j][m] = reqs[j][m]
  BY <1>2, PutEffect
<1> QED BY <1>1, <1>3, <1>5, <1>6 DEF Same

-----------------------------------------------------------------------------
(* Handlers and messages stay in step.                                     *)

\* What a request step is to the store, and that it is a request's.
LEMMA RequestCall ==
    ASSUME NEW j \in JobIds, NEW n \in Deliveries, RequestStep(j, n)
    PROVE  /\ ~(reqs[j][n].pc = "none" /\ reqs[j][n].keeper = "off")
           /\ UNCHANGED vars \/ Claim(j) \/ OwnerCall(j, Attempt(j, n))
<1>1. CASE WorkerClaim(j, n) \/ WorkerClaimLost(j, n)
  BY <1>1 DEF WorkerClaim, WorkerClaimLost, At
<1>2. CASE WorkerProgress(j, n) \/ WorkerComplete(j, n) \/ WorkerCompleteRaises(j, n)
  BY <1>2 DEF WorkerProgress, WorkerComplete, WorkerCompleteRaises, At, OwnerCall
<1>3. CASE WorkerExcept(j, n) \/ KeeperRenews(j, n)
  BY <1>3 DEF WorkerExcept, GiveUpOrRetry, KeeperRenews, At, OwnerCall
<1>4. CASE RunnerStep(j, n)
  BY <1>4 DEF RunnerStep, RunnerReturns, RunnerRaises, RunnerEnds, At
<1>5. CASE WorkerCrash(j, n) \/ Answer(j, n)
  BY <1>5 DEF WorkerCrash, Answer, Working, Answering, Acks
<1> QED BY <1>1, <1>2, <1>3, <1>4, <1>5 DEF RequestStep

LEMMA CallInvStep ==
    StoreInv /\ EnvTypeOK /\ CallInv /\ [ServiceNext]_serviceVars => CallInv'
<1> SUFFICES ASSUME StoreInv, EnvTypeOK, CallInv, [ServiceNext]_serviceVars
             PROVE  CallInv'
  OBVIOUS
<1>0. MaxDelivery \in Nat \ {0}
  BY DeliveryAssumption
<1>f. ASSUME NEW i \in JobIds, Same(i) PROVE (HandlerInv(i) /\ MessageInv(i))'
  BY <1>f DEF Same, CallInv, HandlerInv, MessageInv
<1>1. ASSUME NEW j \in JobIds, ApiStep(j) PROVE CallInv'
  <2> USE DEF Api, HandlerInv, MessageInv
  <2>1. HandlerInv(j) /\ MessageInv(j) /\ msg[j] \in Message
    BY DEF CallInv, EnvTypeOK
  <2>2. reqs' = reqs /\ \A i \in JobIds : i # j => Same(i)
    BY <1>1, ApiFrame
  <2>4. CASE ApiCreate(j)
    <3>1. api[j] = "idle" /\ api'[j] = "publish" /\ msg'[j] = msg[j] /\ Create(j)
      BY <2>4 DEF ApiCreate, EnvTypeOK
    <3>2. jobs'[j].status = "queued" /\ jobs'[j].attempt_id = 0
      BY <3>1, JobEffects
    <3>3. (HandlerInv(j) /\ MessageInv(j))'
      BY <2>1, <2>2, <3>1, <3>2
    <3> QED BY <2>2, <3>3, <1>f DEF CallInv
  <2>5. CASE ApiPublish(j)
    <3>1. /\ api[j] = "publish" /\ api'[j] = "accepted" /\ jobs'[j] = jobs[j]
          /\ msg'[j].state = "ready" /\ msg'[j].n = msg[j].n
      BY <2>5 DEF ApiPublish, EnvTypeOK, Message, vars
    <3>2. (HandlerInv(j) /\ MessageInv(j))'
      BY <2>1, <2>2, <3>1, <1>0
    <3> QED BY <2>2, <3>2, <1>f DEF CallInv
  <2>6. CASE ApiPublishRaises(j)
    <3>1. /\ api[j] = "publish" /\ api'[j] = "cancel" /\ jobs'[j] = jobs[j]
          /\ msg'[j].state \in {msg[j].state, "in_doubt"} /\ msg'[j].n = msg[j].n
      BY <2>6 DEF ApiPublishRaises, EnvTypeOK, Message, vars
    <3>2. (HandlerInv(j) /\ MessageInv(j))'
      BY <2>1, <2>2, <3>1
    <3> QED BY <2>2, <3>2, <1>f DEF CallInv
  <2>7. CASE ApiCancel(j)
    <3>1. /\ api[j] = "cancel" /\ api'[j] = "refused" /\ msg'[j] = msg[j]
          /\ CancelUnpublished(j) \/ UNCHANGED vars
      BY <2>7 DEF ApiCancel, EnvTypeOK
    <3>2. jobs'[j].status # "missing" /\ jobs'[j].attempt_id = jobs[j].attempt_id
      BY <2>1, <3>1, JobEffects DEF vars
    <3>3. (HandlerInv(j) /\ MessageInv(j))'
      BY <2>1, <2>2, <3>1, <3>2
    <3> QED BY <2>2, <3>3, <1>f DEF CallInv
  <2>8. CASE ApiCrash(j)
    <3>1. /\ api[j] \in {"publish", "cancel"} /\ api'[j] = "crashed"
          /\ jobs'[j] = jobs[j] /\ msg'[j] = msg[j]
      BY <2>8 DEF ApiCrash, EnvTypeOK, vars
    <3>2. (HandlerInv(j) /\ MessageInv(j))'
      BY <2>1, <2>2, <3>1
    <3> QED BY <2>2, <3>2, <1>f DEF CallInv
  <2> QED BY <1>1, <2>4, <2>5, <2>6, <2>7, <2>8 DEF ApiStep
<1>2. ASSUME NEW j \in JobIds, PubSubStep(j) PROVE CallInv'
  <2> USE DEF HandlerInv, MessageInv
  <2>1. HandlerInv(j) /\ MessageInv(j) /\ msg[j] \in Message
    BY DEF CallInv, EnvTypeOK
  <2>2. /\ api'[j] = api[j] /\ jobs'[j] = jobs[j]
        /\ \A i \in JobIds : i # j => Same(i)
        /\ \A n \in Deliveries : n # msg[j].n + 1 => reqs'[j][n] = reqs[j][n]
    BY <1>2, PubSubFrame DEF vars
  <2>3. CASE Push(j)
    <3>1. msg[j].state = "ready" /\ msg'[j].state = "out" /\ msg'[j].n = msg[j].n + 1
      BY <2>3 DEF Push, EnvTypeOK, Message
    <3>2. msg[j].n \in Nat /\ msg[j].n + 1 > 0
          /\ \A n \in Deliveries : n > msg[j].n + 1 => n > msg[j].n /\ n # msg[j].n + 1
      BY <2>1, <1>0 DEF Message, Deliveries
    <3>3. (HandlerInv(j) /\ MessageInv(j))'
      BY <2>1, <2>2, <3>1, <3>2
    <3> QED BY <2>2, <3>3, <1>f DEF CallInv
  <2>4. CASE Land(j) \/ Lapse(j) \/ Duplicate(j)
    <3>1. /\ reqs' = reqs /\ msg'[j].n = msg[j].n
          /\ \/ msg[j].state = "in_doubt" /\ msg'[j].state \in {"ready", "none"}
             \/ /\ msg[j].state = "out"
                /\ msg'[j].state = IF msg[j].n >= MaxDelivery THEN "dead" ELSE "ready"
             \/ msg[j].state = "out" /\ msg[j].n < MaxDelivery /\ msg'[j].state = "ready"
      <4>1. CASE Land(j) \/ Duplicate(j)
        BY <4>1, <2>1 DEF Land, Duplicate, EnvTypeOK, Message
      <4>2. CASE Lapse(j)
        <5>1. /\ reqs' = reqs /\ msg[j].state = "out"
              /\ msg'[j] = [Returned(msg[j]) EXCEPT !.lapsed = TRUE]
          BY <4>2 DEF Lapse, EnvTypeOK
        <5> QED BY <5>1, <2>1 DEF Returned, Message
      <4> QED BY <2>4, <4>1, <4>2
    <3>2. msg[j].n \in Nat
      BY <2>1, <1>0 DEF Message
    <3>3. (HandlerInv(j) /\ MessageInv(j))'
      BY <2>1, <2>2, <3>1, <3>2, <1>0
    <3> QED BY <2>2, <3>3, <1>f DEF CallInv
  <2> QED BY <1>2, <2>3, <2>4 DEF PubSubStep
<1>3. ASSUME NEW j \in JobIds, NEW n \in Deliveries, RequestStep(j, n) PROVE CallInv'
  <2> USE DEF HandlerInv, MessageInv
  <2>1. HandlerInv(j) /\ MessageInv(j) /\ msg[j] \in Message /\ n \in Nat \ {0}
    BY DEF CallInv, EnvTypeOK, Deliveries
  <2>2. /\ api'[j] = api[j]
        /\ \A i \in JobIds : i # j => Same(i)
        /\ \A m \in Deliveries : m # n => reqs'[j][m] = reqs[j][m]
        /\ Answer(j, n) \/ msg' = msg
    BY <1>3, RequestFrame
  <2>3. msg[j].n \in Nat /\ n <= msg[j].n /\ msg[j].n > 0 /\ msg[j].state \notin {"none", "in_doubt"}
    <3>1. msg[j].n \in Nat
      BY <2>1, <1>0 DEF Message
    <3>2. n <= msg[j].n
      BY <1>3, <2>1, <3>1, RequestCall
    <3> QED BY <2>1, <3>1, <3>2
  <2>4. /\ msg'[j].n = msg[j].n
        /\ msg'[j].state \notin {"none", "in_doubt"}
        /\ msg'[j].state = "ready" => msg[j].n < MaxDelivery
    <3>1. CASE Answer(j, n)
      <4>1. msg'[j] = AfterAnswer(msg[j], reqs[j][n], n)
        BY <3>1 DEF Answer, EnvTypeOK
      <4> QED BY <4>1, <2>1, <2>3, <1>0 DEF AfterAnswer, Returned, Message
    <3>2. CASE msg' = msg
      BY <3>2, <2>1, <2>3
    <3> QED BY <2>2, <3>1, <3>2
  <2>5. /\ jobs[j].status = "missing" <=> jobs'[j].status = "missing"
        /\ api[j] \notin {"idle", "publish"}
    <3>1. api[j] \notin {"idle", "publish"} /\ jobs[j].status # "missing"
      BY <2>1, <2>3
    <3>2. jobs'[j].status # "missing"
      BY <1>3, <3>1, RequestCall, JobEffects DEF vars
    <3> QED BY <3>1, <3>2
  <2>6. (HandlerInv(j) /\ MessageInv(j))'
    BY <2>1, <2>2, <2>3, <2>4, <2>5
  <2> QED BY <2>2, <2>6, <1>f DEF CallInv
<1>4. CASE ServiceTick \/ UNCHANGED serviceVars
  <2>1. \A i \in JobIds : Same(i)
    BY <1>4 DEF ServiceTick, Tick, env, serviceVars, vars, Same
  <2> QED BY <2>1, <1>f DEF CallInv
<1> QED BY <1>1, <1>2, <1>3, <1>4 DEF ServiceNext

\* The invariant of the calls and the store, so far.
BaseInv == StoreInv /\ EnvTypeOK /\ CallInv

LEMMA BaseInit == ServiceInit => BaseInv
<1> SUFFICES ASSUME ServiceInit PROVE BaseInv
  OBVIOUS
<1>1. StoreInv
  BY StoreInvInit DEF ServiceInit
<1>2. EnvTypeOK
  <2>1. NewRequest("none", 0) \in Request
    BY <1>1, Deadlines DEF StoreInv
  <2>2. [state |-> "none", n |-> 0, deadline |-> 0, lapsed |-> FALSE] \in Message
    BY <1>1, Deadlines DEF StoreInv, Message
  <2> QED BY <2>1, <2>2, FaultsAssumption DEF EnvTypeOK, ServiceInit
<1>3. CallInv
  BY DeliveryAssumption
  DEF CallInv, HandlerInv, MessageInv, ServiceInit, Init, NoJob, NewJob, NewRequest
<1> QED BY <1>1, <1>2, <1>3 DEF BaseInv

LEMMA BaseStep == BaseInv /\ [ServiceNext]_serviceVars => BaseInv' /\ [Next]_vars
<1>1. CallInv => DeliveriesLeft
  BY DEF CallInv, MessageInv, DeliveriesLeft
<1> QED BY <1>1, ServiceStepIsStoreStep, StoreInvStep, EnvTypeStep, CallInvStep DEF BaseInv

\* The service is a store: whatever is true of every behaviour of JobStore is
\* true of the store that the API, Pub/Sub, the workers and the lease keepers
\* share, with all their crashes, duplicates and late calls.
THEOREM ServiceImplementsStore == ServiceSpec => Spec
<1>1. ServiceInit => Init
  BY DEF ServiceInit
<1> QED BY <1>1, BaseInit, BaseStep, PTL DEF ServiceSpec, Spec

\* Every variable of the service has its type, for every number of deliveries.
THEOREM ServiceTypeCorrect == ServiceSpec => []ServiceTypeOK
<1>1. BaseInv => ServiceTypeOK
  BY DEF BaseInv, StoreInv, EnvTypeOK, ServiceTypeOK
<1> QED BY <1>1, BaseInit, BaseStep, PTL DEF ServiceSpec

-----------------------------------------------------------------------------
(* What happens to an attempt after it was handed out.                     *)

\* A newer attempt was handed out, after the lease of this one and with it
\* the acknowledgement deadline of its delivery had passed.
Overtaken(j, r) == jobs[j].attempt_id > r.attempt /\ now >= r.deadline

\* A request that has an attempt got it from a claim; as long as it runs or
\* is about to complete, it owns a lease that outlasts its delivery, or it
\* was overtaken; and what it is about to answer is true.
RequestInv(j, r) ==
    /\ r.attempt <= jobs[j].attempt_id
    /\ r.deadline <= now + AckDeadline
    /\ r.pc \in {"run", "complete", "except"} => r.attempt > 0
    /\ r.pc \in {"run", "complete"} =>
          \/ Owns(j, r.attempt) /\ r.deadline <= jobs[j].lease_expires_at
          \/ Overtaken(j, r)
    /\ r.pc = "ack_completed" => jobs[j].status = "complete" /\ jobs[j].dossier = r.attempt
    /\ r.pc = "ack_complete" => jobs[j].status = "complete"
    /\ r.pc = "ack_stale" => Overtaken(j, r)
    /\ r.pc # "ack_missing"

\* No two requests have the same attempt.
Distinct(j) ==
    \A m, n \in Deliveries :
        reqs[j][m].attempt # 0 /\ reqs[j][m].attempt = reqs[j][n].attempt => m = n

AttemptInv ==
    \A j \in JobIds :
        /\ Distinct(j)
        /\ msg[j].state = "acked" => jobs[j].status = "complete"
        /\ \A n \in Deliveries : RequestInv(j, reqs[j][n])

\* What the claims and the calls of other attempts do to a request r of j.
LEMMA RequestKept ==
    ASSUME BaseInv, NEW j \in JobIds, NEW r \in Request, RequestInv(j, r),
           NEW a \in Nat, a # r.attempt \/ r.attempt = 0,
           UNCHANGED vars \/ Tick \/ StoreCall(j, a)
    PROVE  RequestInv(j, r)'
<1> USE DEF RequestInv, Overtaken
<1>1. /\ now \in Nat /\ jobs[j] \in Job /\ jobs[j].lease_expires_at \in Nat
      /\ jobs[j].attempt_id \in Nat
      /\ r.attempt \in Nat /\ r.deadline \in Nat
      /\ AckDeadline \in Nat /\ LeaseSeconds \in Nat
  <2>1. now \in Times /\ jobs[j] \in Job
    BY DEF BaseInv, StoreInv, TypeOK
  <2> QED BY <2>1, ClockAssumption, LeaseAssumption, DeadlineAssumption, ClaimsAssumption
          DEF Times, Job, Request
<1>2. CASE UNCHANGED vars \/ Tick
  BY <1>1, <1>2 DEF vars, Tick, Owns
<1>3. CASE Create(j)
  <2>1. jobs[j].status = "missing" /\ jobs[j].attempt_id = 0 /\ jobs'[j].attempt_id = 0 /\ now' = now
    BY <1>3, JobEffects DEF BaseInv, Create
  <2> QED BY <1>1, <2>1 DEF Owns
<1>4. CASE CancelUnpublished(j)
  <2>1. jobs[j].status = "queued" /\ jobs'[j].attempt_id = jobs[j].attempt_id /\ now' = now
    BY <1>4, JobEffects DEF BaseInv, CancelUnpublished
  <2> QED BY <1>1, <2>1 DEF Owns
<1>5. CASE Claim(j)
  <2>1. /\ jobs[j].status \in Live /\ jobs'[j].attempt_id = jobs[j].attempt_id + 1 /\ now' = now
        /\ jobs[j].status = "running" => jobs[j].lease_expires_at <= now
    <3>1. ~LeaseActive(j)
      BY <1>5 DEF Claim, ClaimOutcome, LeaseActive
    <3>2. jobs[j].status = "running" => jobs[j].lease_expires_at <= now
      BY <1>1, <3>1 DEF LeaseActive
    <3>3. jobs[j].status \in Live /\ jobs'[j].attempt_id = jobs[j].attempt_id + 1
      BY <1>5, JobEffects DEF BaseInv
    <3> QED BY <1>5, <3>2, <3>3 DEF Claim
  <2> QED BY <1>1, <2>1 DEF Owns, Live
<1>6. CASE OwnerCall(j, a)
  <2>1. /\ jobs[j].status = "running" /\ jobs[j].attempt_id = a
        /\ jobs'[j].attempt_id = jobs[j].attempt_id /\ now' = now
    BY <1>6, JobEffects DEF BaseInv, OwnerCall, Renew, Progress, Complete, Retry, Fail, Owns
  <2> QED BY <1>1, <2>1 DEF Owns
<1> QED BY <1>2, <1>3, <1>4, <1>5, <1>6 DEF StoreCall

\* A request's own calls before it completes: a renewal or a progress report.
LEMMA RequestRenews ==
    ASSUME BaseInv, NEW j \in JobIds, NEW r \in Request, RequestInv(j, r),
           Renew(j, r.attempt) \/ Progress(j, r.attempt)
    PROVE  RequestInv(j, r)'
<1>1. /\ now \in Nat /\ jobs[j] \in Job /\ jobs[j].lease_expires_at \in Nat
      /\ jobs[j].lease_expires_at <= now + LeaseSeconds
      /\ r.attempt \in Nat /\ r.deadline \in Nat /\ LeaseSeconds \in Nat
  <2>1. now \in Times /\ jobs[j] \in Job /\ jobs[j].status = "running"
    BY DEF BaseInv, StoreInv, TypeOK, Renew, Progress, Owns
  <2> QED BY <2>1, ClockAssumption, LeaseAssumption DEF Times, Job, Request, BaseInv, StoreInv, LeaseCoversAttempt
<1>2. /\ now' = now /\ jobs[j].status = "running"
      /\ jobs'[j].status = "running" /\ jobs'[j].attempt_id = jobs[j].attempt_id
      /\ jobs'[j].dossier = jobs[j].dossier
      /\ jobs'[j].lease_expires_at \in {jobs[j].lease_expires_at, now + LeaseSeconds}
  BY <1>1 DEF BaseInv, StoreInv, TypeOK, Job, Renew, Progress, Owns, LeaseUntil
<1> QED BY <1>1, <1>2 DEF RequestInv, Overtaken, Owns

LEMMA CallKeepsClock ==
    ASSUME NEW j \in JobIds, NEW a, StoreCall(j, a) \/ UNCHANGED vars
    PROVE  now' = now
BY DEF StoreCall, OwnerCall, Create, Claim, CancelUnpublished, Renew, Progress, Complete, Retry,
       Fail, vars

\* A complete job stays complete.
LEMMA CallKeepsComplete ==
    ASSUME BaseInv, NEW j \in JobIds, NEW a, StoreCall(j, a) \/ UNCHANGED vars,
           jobs[j].status = "complete"
    PROVE  jobs'[j].status = "complete"
<1>1. CASE UNCHANGED vars
  BY <1>1 DEF vars
<1>2. CASE StoreCall(j, a)
  BY <1>2, JobEffects DEF StoreCall, BaseInv, Live
<1> QED BY <1>1, <1>2

\* What belongs to job i keeps its invariant when nothing of i changes.
LEMMA AttemptFrame ==
    ASSUME AttemptInv, NEW i \in JobIds, Same(i), now' = now
    PROVE  /\ Distinct(i)'
           /\ (msg[i].state = "acked" => jobs[i].status = "complete")'
           /\ \A n \in Deliveries : RequestInv(i, reqs[i][n])'
<1>1. Distinct(i)'
  BY DEF AttemptInv, Distinct, Same
<1>2. \A n \in Deliveries : RequestInv(i, reqs[i][n])'
  BY DEF AttemptInv, RequestInv, Overtaken, Owns, Same
<1> QED BY <1>1, <1>2 DEF AttemptInv, Same

\* The request that makes a step keeps its invariant.
LEMMA RequestMoves ==
    ASSUME BaseInv, AttemptInv, NEW j \in JobIds, NEW n \in Deliveries, RequestStep(j, n)
    PROVE  RequestInv(j, reqs[j][n])' 
<1>1. PICK r \in Request : r = reqs[j][n] /\ RequestInv(j, r)
  BY DEF BaseInv, EnvTypeOK, AttemptInv
<1>2. \A q : Put(j, n, q) => reqs'[j][n] = q
  BY PutEffect DEF BaseInv
<1>3. /\ now \in Nat /\ jobs[j] \in Job /\ jobs[j].attempt_id \in Nat
      /\ r.attempt \in Nat /\ r.deadline \in Nat
      /\ AckDeadline \in Nat \ {0} /\ LeaseSeconds \in Nat /\ AckDeadline <= LeaseSeconds
  <2>1. now \in Times /\ jobs[j] \in Job
    BY DEF BaseInv, StoreInv, TypeOK
  <2> QED BY <1>1, <2>1, ClockAssumption, LeaseAssumption, DeadlineAssumption, ClaimsAssumption
          DEF Times, Job, Request
<1>4. CASE WorkerClaim(j, n) /\ Claim(j)
  <2>1. /\ reqs'[j][n] = [r EXCEPT !.pc = "run", !.attempt = jobs'[j].attempt_id, !.keeper = "on"]
        /\ Claim(j)
    BY <1>1, <1>2, <1>4 DEF WorkerClaim, Claim, ClaimOutcome, Goto
  <2>2. /\ jobs'[j].attempt_id = jobs[j].attempt_id + 1 /\ jobs'[j].status = "running"
        /\ jobs'[j].lease_expires_at = now + LeaseSeconds /\ now' = now
    <3>1. jobs'[j].lease_expires_at = now + LeaseSeconds /\ now' = now
      BY <2>1, <1>3 DEF Claim, LeaseUntil, BaseInv, StoreInv, TypeOK, Job
    <3> QED BY <2>1, <3>1, JobEffects DEF BaseInv
  <2>3. /\ reqs'[j][n].pc = "run" /\ reqs'[j][n].attempt = jobs'[j].attempt_id
        /\ reqs'[j][n].deadline = r.deadline
    BY <2>1, <1>1 DEF Request
  <2>4. r.deadline <= now + AckDeadline
    BY <1>1 DEF RequestInv
  <2> QED BY <1>3, <2>2, <2>3, <2>4 DEF RequestInv, Owns
<1> DEFINE Answered(pc) == pc \notin {"run", "complete", "except"} \cup Acks
<1>5. ASSUME NEW q, reqs'[j][n] = q, q.pc = "except" \/ Answered(q.pc),
             q.attempt = r.attempt, q.deadline \in {0, r.deadline},
             q.pc = "except" => r.attempt > 0,
             NEW a, StoreCall(j, a) \/ UNCHANGED vars
      PROVE  RequestInv(j, reqs[j][n])'
  <2>1. now' = now /\ jobs'[j].attempt_id >= jobs[j].attempt_id
    <3>1. jobs'[j].attempt_id >= jobs[j].attempt_id
      BY <1>3, <1>5, JobEffects DEF BaseInv, StoreCall, vars
    <3> QED BY <3>1, <1>5, CallKeepsClock
  <2>2. r.attempt <= jobs'[j].attempt_id /\ q.deadline <= now + AckDeadline
    <3>1. jobs'[j].attempt_id \in Nat
      <4>1. BaseInv'
        BY BaseStep DEF ServiceNext
      <4> QED BY <4>1, ClaimsAssumption DEF BaseInv, StoreInv, TypeOK, Job
    <3> QED BY <1>1, <1>3, <1>5, <2>1, <3>1 DEF RequestInv
  <2> QED BY <1>5, <2>1, <2>2 DEF RequestInv, Acks
<1>6. \A pc : Goto(j, n, pc) => reqs'[j][n] = [r EXCEPT !.pc = pc]
  BY <1>1, <1>2 DEF Goto
<1>7. \A pc : [r EXCEPT !.pc = pc].pc = pc /\ [r EXCEPT !.pc = pc].attempt = r.attempt
              /\ [r EXCEPT !.pc = pc].deadline = r.deadline
  BY <1>1 DEF Request
<1>nack. ASSUME reqs'[j][n] = [r EXCEPT !.pc = "nack"], NEW a, StoreCall(j, a) \/ UNCHANGED vars
         PROVE  RequestInv(j, reqs[j][n])'
  <2> DEFINE q == [r EXCEPT !.pc = "nack"]
  <2>1. /\ reqs'[j][n] = q /\ q.pc = "nack" /\ q.attempt = r.attempt
        /\ q.deadline = r.deadline
    BY <1>7, <1>nack
  <2> HIDE DEF q
  <2>2. q.pc # "except" /\ Answered(q.pc) /\ q.deadline \in {0, r.deadline}
    BY <2>1 DEF Acks
  <2> HIDE DEF Answered
  <2> QED BY <1>5, <1>nack, <2>1, <2>2
<1>8. CASE WorkerClaim(j, n) /\ ~Claim(j)
  <2>1. /\ ClaimOutcome(j) # "acquired" /\ UNCHANGED vars
        /\ reqs'[j][n] = [r EXCEPT !.pc = Declined[ClaimOutcome(j)]]
    BY <1>8, <1>6 DEF WorkerClaim
  <2>2. jobs[j].status # "missing"
    <3>1. msg[j].n > 0
      <4>1. MessageInv(j) /\ reqs[j][n].pc = "claim"
        BY <1>8 DEF BaseInv, CallInv, WorkerClaim, At
      <4>2. msg[j].n \in Nat /\ n \in Nat \ {0}
        <5>1. msg[j] \in Message
          BY DEF BaseInv, EnvTypeOK
        <5> QED BY <5>1, DeliveryAssumption DEF Message, Deliveries
      <4>3. ~(n > msg[j].n)
        BY <4>1 DEF MessageInv
      <4> QED BY <4>2, <4>3
    <3> QED BY <3>1 DEF BaseInv, CallInv, HandlerInv, MessageInv
  <2>3. \/ ClaimOutcome(j) = "complete" /\ jobs[j].status = "complete"
        \/ ClaimOutcome(j) \in {"failed", "busy"}
    BY <2>1, <2>2 DEF ClaimOutcome
  <2>4. CASE ClaimOutcome(j) = "complete" /\ jobs[j].status = "complete"
    <3>1. reqs'[j][n] = [r EXCEPT !.pc = "ack_complete"]
      BY <2>1, <2>4 DEF Declined
    <3>2. jobs'[j] = jobs[j] /\ now' = now
      BY <2>1 DEF vars
    <3> QED BY <1>1, <1>7, <2>4, <3>1, <3>2 DEF RequestInv
  <2>5. CASE ClaimOutcome(j) \in {"failed", "busy"}
    <3>1. reqs'[j][n] = [r EXCEPT !.pc = "nack"]
      BY <2>1, <2>5 DEF Declined
    <3> QED BY <1>nack, <2>1, <3>1
  <2> QED BY <2>3, <2>4, <2>5
<1>9. CASE WorkerClaimLost(j, n) \/ WorkerExcept(j, n)
  <2>1. reqs'[j][n] = [r EXCEPT !.pc = "nack"]
    BY <1>6, <1>9 DEF WorkerClaimLost, WorkerExcept
  <2>2. StoreCall(j, Attempt(j, n)) \/ UNCHANGED vars
    BY <1>9 DEF WorkerClaimLost, WorkerExcept, GiveUpOrRetry, StoreCall, OwnerCall
  <2> QED BY <1>nack, <2>1, <2>2
<1>10. CASE WorkerProgress(j, n)
  BY <1>1, <1>10, RequestRenews DEF WorkerProgress, Attempt, env
<1>11. CASE RunnerStep(j, n)
  <2>1. /\ r.pc = "run" /\ UNCHANGED vars
        /\ reqs'[j][n].pc \in {"complete", "except"}
        /\ reqs'[j][n].attempt = r.attempt /\ reqs'[j][n].deadline = r.deadline
    <3>1. PICK pc \in {"complete", "except"} : RunnerEnds(j, n, pc)
      BY <1>11 DEF RunnerStep, RunnerReturns, RunnerRaises
    <3>2. \/ reqs'[j][n] = [r EXCEPT !.pc = pc, !.keeper = "off"]
          \/ reqs'[j][n] = [r EXCEPT !.pc = pc, !.keeper = "late"]
      BY <1>1, <1>2, <3>1 DEF RunnerEnds
    <3>3. reqs'[j][n].pc = pc /\ reqs'[j][n].attempt = r.attempt /\ reqs'[j][n].deadline = r.deadline
      BY <1>1, <3>2 DEF Request
    <3> QED BY <1>1, <3>1, <3>3 DEF RunnerEnds, At
  <2>2. jobs'[j] = jobs[j] /\ now' = now
    BY <2>1 DEF vars
  <2> QED BY <1>1, <2>1, <2>2 DEF RequestInv, Overtaken, Owns
<1>12. CASE WorkerComplete(j, n)
  <2>1. r.pc = "complete"
    BY <1>1, <1>12 DEF WorkerComplete, At
  <2>2. CASE Complete(j, r.attempt) /\ reqs'[j][n] = [r EXCEPT !.pc = "ack_completed"]
    <3>1. /\ jobs'[j].status = "complete" /\ jobs'[j].dossier = r.attempt /\ now' = now
          /\ jobs'[j].attempt_id = jobs[j].attempt_id
      BY <2>2 DEF Complete, BaseInv, StoreInv, TypeOK, Job
    <3> QED BY <1>1, <1>7, <2>2, <3>1 DEF RequestInv
  <2>3. CASE /\ ~Owns(j, r.attempt) /\ UNCHANGED vars
             /\ reqs'[j][n] = [r EXCEPT !.pc = "ack_stale"]
    <3>1. jobs'[j] = jobs[j] /\ now' = now
      BY <2>3 DEF vars
    <3>2. Overtaken(j, r)
      BY <1>1, <2>1, <2>3 DEF RequestInv
    <3> QED BY <1>1, <1>7, <2>3, <3>1, <3>2 DEF RequestInv, Overtaken
  <2> QED BY <1>1, <1>6, <1>12, <2>2, <2>3 DEF WorkerComplete, Attempt
<1>13. CASE WorkerCompleteRaises(j, n)
  <2>1. /\ r.pc = "complete" /\ reqs'[j][n] = [r EXCEPT !.pc = "except"]
        /\ StoreCall(j, r.attempt) \/ UNCHANGED vars
    BY <1>1, <1>6, <1>13 DEF WorkerCompleteRaises, At, Attempt, StoreCall, OwnerCall
  <2>2. r.attempt > 0
    BY <1>1, <2>1 DEF RequestInv
  <2> QED BY <1>5, <1>7, <2>1, <2>2
<1>14. CASE WorkerCrash(j, n)
  <2>1. UNCHANGED vars /\ reqs'[j][n] = [r EXCEPT !.pc = "nack", !.keeper = "off"]
    BY <1>1, <1>2, <1>14 DEF WorkerCrash
  <2>2. /\ reqs'[j][n].pc = "nack" /\ reqs'[j][n].attempt = r.attempt
        /\ reqs'[j][n].deadline = r.deadline
    BY <1>1, <2>1 DEF Request
  <2> QED BY <1>5, <2>1, <2>2 DEF Acks
<1>15. CASE KeeperRenews(j, n)
  <2>1. /\ reqs'[j][n] = [r EXCEPT !.keeper = IF @ = "on" THEN "on" ELSE "off"]
        /\ Renew(j, r.attempt)
    BY <1>1, <1>2, <1>15 DEF KeeperRenews, Attempt
  <2>2. /\ reqs'[j][n].pc = r.pc /\ reqs'[j][n].attempt = r.attempt
        /\ reqs'[j][n].deadline = r.deadline
    BY <1>1, <2>1 DEF Request
  <2>3. RequestInv(j, r)'
    BY <1>1, <2>1, RequestRenews
  <2> QED BY <2>2, <2>3 DEF RequestInv, Overtaken, Owns
<1>16. CASE Answer(j, n)
  <2>1. UNCHANGED vars /\ reqs'[j][n] = [r EXCEPT !.pc = "done", !.deadline = 0]
    BY <1>1, <1>2, <1>16 DEF Answer
  <2>2. /\ reqs'[j][n].pc = "done" /\ reqs'[j][n].attempt = r.attempt /\ reqs'[j][n].deadline = 0
    BY <1>1, <2>1 DEF Request
  <2> QED BY <1>5, <2>1, <2>2 DEF Acks
<1> QED BY <1>4, <1>8, <1>9, <1>10, <1>11, <1>12, <1>13, <1>14, <1>15, <1>16 DEF RequestStep

LEMMA AttemptStep == BaseInv /\ AttemptInv /\ [ServiceNext]_serviceVars => AttemptInv'
<1> SUFFICES ASSUME BaseInv, AttemptInv, [ServiceNext]_serviceVars PROVE AttemptInv'
  OBVIOUS
<1> DEFINE Good(i) == /\ Distinct(i)
                      /\ msg[i].state = "acked" => jobs[i].status = "complete"
                      /\ \A n \in Deliveries : RequestInv(i, reqs[i][n])
<1>0. AttemptInv <=> \A i \in JobIds : Good(i)
  BY DEF AttemptInv
<1>f. ASSUME NEW i \in JobIds, Same(i), now' = now PROVE Good(i)'
  BY <1>f, AttemptFrame
<1>k. \A i \in JobIds : \A n \in Deliveries : reqs[i][n] \in Request /\ reqs[i][n].attempt \in Nat
  <2>1. \A i \in JobIds : \A n \in Deliveries : reqs[i][n] \in Request
    BY DEF BaseInv, EnvTypeOK
  <2> QED BY <2>1, ClaimsAssumption DEF Request
<1>1. ASSUME NEW j \in JobIds, ApiStep(j) PROVE AttemptInv'
  <2>1. reqs' = reqs /\ \A i \in JobIds : i # j => Same(i)
    BY <1>1, ApiFrame DEF BaseInv
  <2>2. StoreCall(j, 0) \/ UNCHANGED vars
    BY <1>1 DEF ApiStep, ApiCreate, ApiPublish, ApiPublishRaises, ApiCancel, ApiCrash, StoreCall
  <2>3. now' = now
    BY <2>2, CallKeepsClock
  <2>4. msg'[j].state = "acked" => msg[j].state = "acked"
    BY <1>1 DEF BaseInv, EnvTypeOK, Message, ApiStep, ApiCreate, ApiPublish, ApiPublishRaises,
                ApiCancel, ApiCrash
  <2>5. msg'[j].state = "acked" => jobs'[j].status = "complete"
    BY <2>2, <2>4, CallKeepsComplete DEF AttemptInv
  <2>6. UNCHANGED vars \/ Create(j) \/ CancelUnpublished(j)
    BY <1>1 DEF ApiStep, ApiCreate, ApiPublish, ApiPublishRaises, ApiCancel, ApiCrash
  <2>7. ASSUME NEW n \in Deliveries PROVE RequestInv(j, reqs[j][n])'
    <3>1. PICK r \in Request : r = reqs[j][n] /\ RequestInv(j, r) /\ r.attempt \in Nat
      BY <1>k DEF AttemptInv
    <3>2. PICK a \in Nat : a # r.attempt
      BY <3>1
    <3>3. StoreCall(j, a) \/ UNCHANGED vars
      BY <2>6 DEF StoreCall
    <3>4. RequestInv(j, r)'
      BY <3>1, <3>2, <3>3, RequestKept
    <3> QED BY <2>1, <3>1, <3>4
  <2>8. Distinct(j)'
    BY <2>1 DEF AttemptInv, Distinct
  <2>9. Good(j)'
    BY <2>5, <2>7, <2>8
  <2> QED BY <1>0, <1>f, <2>1, <2>3, <2>9 DEF AttemptInv
<1>2. ASSUME NEW j \in JobIds, PubSubStep(j) PROVE AttemptInv'
  <2>1. /\ UNCHANGED <<vars, api>>
        /\ \A i \in JobIds : i # j => Same(i)
        /\ \A n \in Deliveries : n # msg[j].n + 1 => reqs'[j][n] = reqs[j][n]
    BY <1>2, PubSubFrame DEF BaseInv
  <2>2. now' = now /\ jobs' = jobs
    BY <2>1 DEF vars
  <2>3. msg'[j].state # "acked"
    <3>1. msg \in [JobIds -> Message] /\ msg[j] \in Message
      BY DEF BaseInv, EnvTypeOK
    <3>2. CASE Land(j) \/ Duplicate(j)
      BY <3>1, <3>2 DEF Land, Duplicate, Message
    <3>3. CASE Push(j)
      BY <3>1, <3>3 DEF Push, Message
    <3>4. CASE Lapse(j)
      BY <3>1, <3>4 DEF Lapse, Returned, Message
    <3> QED BY <1>2, <3>2, <3>3, <3>4 DEF PubSubStep
  <2>4. ASSUME NEW n \in Deliveries, reqs'[j][n] # reqs[j][n]
        PROVE  reqs'[j][n] = NewRequest("claim", now + AckDeadline)
    <3>1. n = msg[j].n + 1 /\ Push(j)
      BY <1>2, <2>1, <2>4 DEF PubSubStep, Land, Lapse, Duplicate
    <3> QED BY <3>1, PutEffect DEF Push, BaseInv
  <2>5. ASSUME NEW n \in Deliveries PROVE RequestInv(j, reqs[j][n])'
    <3>1. CASE reqs'[j][n] = reqs[j][n]
      BY <3>1, <2>2 DEF AttemptInv, RequestInv, Overtaken, Owns
    <3>2. CASE reqs'[j][n] = NewRequest("claim", now + AckDeadline)
      <4>1. jobs[j].attempt_id \in Nat /\ now + AckDeadline \in Nat
        <5>1. jobs[j] \in Job /\ now \in Times
          BY DEF BaseInv, StoreInv, TypeOK
        <5> QED BY <5>1, ClaimsAssumption, ClockAssumption, DeadlineAssumption DEF Job, Times
      <4> QED BY <3>2, <4>1, <2>2 DEF RequestInv, NewRequest
    <3> QED BY <3>1, <3>2, <2>4
  <2>6. Distinct(j)'
    <3>1. \A n \in Deliveries : reqs'[j][n].attempt \in {0, reqs[j][n].attempt}
      BY <2>4 DEF NewRequest
    <3> QED BY <3>1 DEF AttemptInv, Distinct
  <2>7. Good(j)'
    BY <2>3, <2>5, <2>6
  <2> QED BY <1>0, <1>f, <2>1, <2>2, <2>7 DEF AttemptInv
<1>3. ASSUME NEW j \in JobIds, NEW n \in Deliveries, RequestStep(j, n) PROVE AttemptInv'
  <2>1. /\ \A i \in JobIds : i # j => Same(i)
        /\ \A m \in Deliveries : m # n => reqs'[j][m] = reqs[j][m]
        /\ Answer(j, n) \/ msg' = msg
    BY <1>3, RequestFrame DEF BaseInv
  <2>2. StoreCall(j, Attempt(j, n)) \/ UNCHANGED vars
    BY <1>3, RequestCall DEF StoreCall
  <2>3. now' = now
    BY <2>2, CallKeepsClock
  <2>4. ASSUME NEW m \in Deliveries PROVE RequestInv(j, reqs[j][m])'
    <3>1. CASE m = n
      BY <1>3, <3>1, RequestMoves
    <3>2. CASE m # n
      <4>1. PICK r \in Request : r = reqs[j][m] /\ RequestInv(j, r)
        BY <1>k DEF AttemptInv
      <4>2. Attempt(j, n) # r.attempt \/ r.attempt = 0
        BY <3>2, <4>1 DEF AttemptInv, Distinct, Attempt
      <4>3. Attempt(j, n) \in Nat
        BY <1>k DEF Attempt
      <4>4. RequestInv(j, r)'
        BY <2>2, <4>1, <4>2, <4>3, RequestKept
      <4> QED BY <2>1, <3>2, <4>1, <4>4
    <3> QED BY <3>1, <3>2
  <2>5. Distinct(j)'
    <3>1. CASE reqs'[j][n].attempt = reqs[j][n].attempt
      BY <2>1, <3>1 DEF AttemptInv, Distinct
    <3>2. CASE /\ reqs'[j][n].attempt > jobs[j].attempt_id
      <4>1. \A m \in Deliveries : reqs[j][m].attempt <= jobs[j].attempt_id
        BY DEF AttemptInv, RequestInv
      <4>2. jobs[j].attempt_id \in Nat /\ reqs'[j][n].attempt \in Nat
        <5>1. jobs[j] \in Job /\ BaseInv'
          BY BaseStep DEF BaseInv, StoreInv, TypeOK
        <5>2. reqs'[j][n] \in Request
          BY <5>1 DEF BaseInv, EnvTypeOK
        <5> QED BY <5>1, <5>2, ClaimsAssumption DEF Job, Request
      <4>3. \A m \in Deliveries : m # n => reqs'[j][m].attempt # reqs'[j][n].attempt
        BY <1>k, <2>1, <3>2, <4>1, <4>2
      <4> QED BY <2>1, <4>3 DEF AttemptInv, Distinct
    <3>3. \/ reqs'[j][n].attempt = reqs[j][n].attempt
          \/ reqs'[j][n].attempt > jobs[j].attempt_id
      <4>1. reqs[j][n] \in Request
        BY <1>k
      <4>2. \A q : Put(j, n, q) => reqs'[j][n] = q
        BY PutEffect DEF BaseInv
      <4>3. CASE WorkerClaim(j, n) /\ Claim(j)
        <5>1. reqs'[j][n] = [reqs[j][n] EXCEPT !.pc = "run", !.attempt = jobs'[j].attempt_id,
                                               !.keeper = "on"]
          BY <4>2, <4>3 DEF WorkerClaim, Claim, ClaimOutcome, Goto
        <5>2. jobs'[j].attempt_id = jobs[j].attempt_id + 1 /\ jobs[j] \in Job
          BY <4>3, JobEffects DEF BaseInv, StoreInv, TypeOK
        <5> QED BY <4>1, <5>1, <5>2, ClaimsAssumption DEF Request, Job
      <4>4. CASE WorkerClaim(j, n) /\ ~Claim(j)
        BY <4>1, <4>2, <4>4 DEF WorkerClaim, Goto, Request
      <4>5. CASE RunnerStep(j, n)
        BY <4>1, <4>2, <4>5 DEF RunnerStep, RunnerReturns, RunnerRaises, RunnerEnds, Request
      <4>6. CASE WorkerClaimLost(j, n) \/ WorkerComplete(j, n) \/ WorkerCompleteRaises(j, n)
                 \/ WorkerExcept(j, n)
        BY <4>1, <4>2, <4>6
        DEF WorkerClaimLost, WorkerComplete, WorkerCompleteRaises, WorkerExcept, Goto, Request
      <4>7. CASE WorkerProgress(j, n)
        BY <4>7 DEF WorkerProgress, env
      <4>8. CASE WorkerCrash(j, n) \/ KeeperRenews(j, n) \/ Answer(j, n)
        BY <4>1, <4>2, <4>8 DEF WorkerCrash, KeeperRenews, Answer, Request
      <4> QED BY <1>3, <4>3, <4>4, <4>5, <4>6, <4>7, <4>8 DEF RequestStep
    <3> QED BY <3>1, <3>2, <3>3
  <2>6. msg'[j].state = "acked" => jobs'[j].status = "complete"
    <3>1. msg'[j].state = "acked" => jobs[j].status = "complete"
      <4>1. CASE Answer(j, n) /\ msg[j].state # "acked"
        <5>1. PICK r \in Request : r = reqs[j][n] /\ RequestInv(j, r)
          BY <1>k DEF AttemptInv
        <5>2. msg'[j] = AfterAnswer(msg[j], r, n)
          BY <4>1, <5>1 DEF Answer, BaseInv, EnvTypeOK
        <5>3. msg'[j].state = "acked" => r.pc \in Acks /\ now < r.deadline
          BY <4>1, <5>2 DEF AfterAnswer, Returned, BaseInv, EnvTypeOK, Message
        <5>4. now \in Nat /\ r.deadline \in Nat
          BY <5>1, ClockAssumption, DeadlineAssumption
          DEF BaseInv, StoreInv, TypeOK, Times, Request
        <5>5. r.pc \in Acks /\ now < r.deadline => jobs[j].status = "complete"
          BY <5>1, <5>4 DEF RequestInv, Overtaken, Acks
        <5> QED BY <5>3, <5>5
      <4>2. CASE msg' = msg \/ msg[j].state = "acked"
        BY <4>2 DEF AttemptInv
      <4> QED BY <2>1, <4>1, <4>2
    <3> QED BY <2>2, <3>1, CallKeepsComplete
  <2>7. Good(j)'
    BY <2>4, <2>5, <2>6
  <2> QED BY <1>0, <1>f, <2>1, <2>3, <2>7 DEF AttemptInv
<1>4. CASE ServiceTick \/ UNCHANGED serviceVars
  <2>1. /\ jobs' = jobs /\ msg' = msg /\ reqs' = reqs
        /\ UNCHANGED vars \/ Tick
    BY <1>4 DEF ServiceTick, Tick, env, serviceVars, vars
  <2>2. ASSUME NEW j \in JobIds, NEW n \in Deliveries PROVE RequestInv(j, reqs[j][n])'
    <3>1. PICK r \in Request : r = reqs[j][n] /\ RequestInv(j, r) /\ r.attempt \in Nat
      BY <1>k DEF AttemptInv
    <3>2. PICK a \in Nat : a # r.attempt
      BY <3>1
    <3>3. RequestInv(j, r)'
      BY <2>1, <3>1, <3>2, RequestKept
    <3> QED BY <2>1, <3>1, <3>3
  <2>3. \A j \in JobIds : Distinct(j)' /\ (msg'[j].state = "acked" => jobs'[j].status = "complete")
    BY <2>1 DEF AttemptInv, Distinct
  <2> QED BY <2>2, <2>3 DEF AttemptInv
<1> QED BY <1>1, <1>2, <1>3, <1>4 DEF ServiceNext

LEMMA AttemptInit == ServiceInit => AttemptInv
<1> SUFFICES ASSUME ServiceInit PROVE AttemptInv
  OBVIOUS
<1>1. \A j \in JobIds : \A n \in Deliveries : reqs[j][n] = NewRequest("none", 0)
  BY DEF ServiceInit
<1>2. AckDeadline \in Nat /\ now = 0 /\ \A j \in JobIds : jobs[j].attempt_id = 0
  BY DeadlineAssumption DEF ServiceInit, Init, NoJob, NewJob
<1>3. \A j \in JobIds : msg[j].state = "none"
  BY DEF ServiceInit
<1> QED BY <1>1, <1>2, <1>3 DEF AttemptInv, Distinct, RequestInv, NewRequest

LEMMA AttemptCorrect == ServiceSpec => [](BaseInv /\ AttemptInv)
BY BaseInit, BaseStep, AttemptInit, AttemptStep, PTL DEF ServiceSpec

\* Pub/Sub forgets a message only when its job is complete.
THEOREM AckedCorrect == ServiceSpec => []AckedMeansComplete
<1>1. AttemptInv => AckedMeansComplete
  BY DEF AttemptInv, AckedMeansComplete
<1> QED BY <1>1, AttemptCorrect, PTL

\* No request ever answers something that is not true of the store.
THEOREM AnswersCorrect == ServiceSpec => []AnswersAreTrue
<1>1. AttemptInv => AnswersAreTrue
  BY DEF AttemptInv, RequestInv, Overtaken, AnswersAreTrue
<1> QED BY <1>1, AttemptCorrect, PTL

-----------------------------------------------------------------------------
(* What a submission was told.                                             *)

\* A running job was claimed.
LEMMA RunningWasClaimed ==
    ASSUME BaseInv, NEW j \in JobIds, jobs[j].status = "running"
    PROVE  jobs[j].attempt_id > 0
<1>1. jobs[j].attempt_id \in Callers(j)
  BY OwnerIsCaller DEF BaseInv, Owns
<1> QED BY <1>1, ClaimsAssumption DEF Callers, BaseInv, StoreInv, TypeOK, Job

\* A call fails a job only in its last delivery, or because it was cancelled.
LEMMA WhoFails ==
    ASSUME BaseInv, NEW j \in JobIds, NEW n \in Deliveries, RequestStep(j, n),
           jobs[j].status # "failed", jobs'[j].status = "failed"
    PROVE  msg'[j].n = MaxDelivery
<1>1. jobs[j] \in Job
  BY DEF BaseInv, StoreInv, TypeOK
<1>2. CASE WorkerExcept(j, n)
  <2>1. Fail(j, Attempt(j, n)) /\ n >= MaxDelivery
    BY <1>1, <1>2 DEF WorkerExcept, GiveUpOrRetry, Retry, Owns, BaseInv, StoreInv, TypeOK, Job, vars
  <2>2. msg'[j].n = msg[j].n /\ msg[j].n \in 0..MaxDelivery
    BY <1>2 DEF WorkerExcept, BaseInv, EnvTypeOK, Message
  <2>3. ~(n > msg[j].n)
    BY <1>2 DEF BaseInv, CallInv, MessageInv, WorkerExcept, At
  <2> QED BY <2>1, <2>2, <2>3, DeliveryAssumption DEF Deliveries
<1>3. CASE ~WorkerExcept(j, n)
  <2>1. jobs'[j].status \in {jobs[j].status, "running", "complete"}
    BY <1>1, <1>3
    DEF RequestStep, WorkerClaim, WorkerClaimLost, WorkerProgress, RunnerStep, RunnerReturns,
        RunnerRaises, RunnerEnds, WorkerComplete, WorkerCompleteRaises, WorkerCrash, KeeperRenews,
        Answer, vars, Claim, Renew, Progress, Complete, Owns, BaseInv, StoreInv, TypeOK, Job
  <2> QED BY <2>1
<1> QED BY <1>2, <1>3

\* An accepted job is failed by nothing but its last delivery.
THEOREM AcceptedFailsCorrect == ServiceSpec => []AcceptedFailsOnlyOnLastDelivery
<1>1. ServiceInit => AcceptedFailsOnlyOnLastDelivery
  BY DEF ServiceInit, AcceptedFailsOnlyOnLastDelivery
<1>2. BaseInv /\ AcceptedFailsOnlyOnLastDelivery /\ [ServiceNext]_serviceVars
        => AcceptedFailsOnlyOnLastDelivery'
  <2> SUFFICES ASSUME BaseInv, AcceptedFailsOnlyOnLastDelivery, [ServiceNext]_serviceVars,
                      NEW i \in JobIds, api'[i] = "accepted", jobs'[i].status = "failed"
               PROVE  msg'[i].n = MaxDelivery
    BY DEF AcceptedFailsOnlyOnLastDelivery
  <2>0. Same(i) => msg'[i].n = MaxDelivery
    BY DEF Same, AcceptedFailsOnlyOnLastDelivery
  <2>1. ASSUME ApiStep(i) PROVE msg'[i].n = MaxDelivery
    <3>1. ApiPublish(i)
      BY <2>1 DEF ApiStep, ApiCreate, ApiPublishRaises, ApiCancel, ApiCrash, Api, BaseInv, EnvTypeOK
    <3>2. api[i] = "publish" /\ jobs'[i].status = jobs[i].status
      BY <3>1 DEF ApiPublish, Api, vars
    <3> QED BY <3>2 DEF BaseInv, CallInv, HandlerInv
  <2>2. ASSUME PubSubStep(i) PROVE msg'[i].n = MaxDelivery
    <3>1. api[i] = "accepted" /\ jobs[i].status = "failed"
      BY <2>2, PubSubFrame DEF vars, BaseInv
    <3>2. msg[i].n = MaxDelivery
      BY <3>1 DEF AcceptedFailsOnlyOnLastDelivery
    <3>3. ~Push(i)
      BY <3>2, DeliveryAssumption DEF Push, BaseInv, CallInv, MessageInv
    <3> QED BY <2>2, <3>2, <3>3
            DEF PubSubStep, Land, Lapse, Duplicate, Returned, BaseInv, EnvTypeOK, Message
  <2>3. ASSUME NEW n \in Deliveries, RequestStep(i, n) PROVE msg'[i].n = MaxDelivery
    <3>1. CASE jobs[i].status = "failed"
      <4>1. msg[i].n = MaxDelivery
        BY <2>3, <3>1, RequestFrame DEF AcceptedFailsOnlyOnLastDelivery, BaseInv
      <4>2. CASE msg' = msg
        BY <4>1, <4>2
      <4>3. CASE Answer(i, n)
        BY <4>1, <4>3 DEF Answer, AfterAnswer, Returned, BaseInv, EnvTypeOK, Message
      <4> QED BY <2>3, <4>2, <4>3, RequestFrame DEF BaseInv
    <3> QED BY <2>3, <3>1, WhoFails
  <2>4. ASSUME NEW j \in JobIds, j # i,
               \/ ApiStep(j) \/ PubSubStep(j) \/ \E n \in Deliveries : RequestStep(j, n)
        PROVE  Same(i)
    BY <2>4, ApiFrame, PubSubFrame, RequestFrame DEF BaseInv
  <2>5. CASE ServiceTick \/ UNCHANGED serviceVars
    BY <2>0, <2>5 DEF ServiceTick, Tick, env, serviceVars, vars, Same
  <2> QED BY <2>0, <2>1, <2>2, <2>3, <2>4, <2>5 DEF ServiceNext
<1> QED BY <1>1, <1>2, BaseInit, BaseStep, PTL DEF ServiceSpec

\* A refused submission holds a slot only if its message reached a worker.
THEOREM RefusedCorrect == ServiceSpec => []RefusedHoldsNoSlot
<1>1. ServiceInit => RefusedHoldsNoSlot
  BY DEF ServiceInit, RefusedHoldsNoSlot
<1>2. BaseInv /\ RefusedHoldsNoSlot /\ [ServiceNext]_serviceVars => RefusedHoldsNoSlot'
  <2> SUFFICES ASSUME BaseInv, RefusedHoldsNoSlot, [ServiceNext]_serviceVars,
                      NEW i \in JobIds, api'[i] = "refused", jobs'[i].status \in Live
               PROVE  msg'[i].n > 0
    BY DEF RefusedHoldsNoSlot
  <2>0. Same(i) => msg'[i].n > 0
    BY DEF Same, RefusedHoldsNoSlot
  <2>n. MessageInv(i) /\ msg[i] \in Message /\ jobs[i] \in Job
    BY DEF BaseInv, CallInv, EnvTypeOK, StoreInv, TypeOK
  <2>1. ASSUME ApiStep(i) PROVE msg'[i].n > 0
    <3>1. ApiCancel(i)
      BY <2>1 DEF ApiStep, ApiCreate, ApiPublish, ApiPublishRaises, ApiCrash, Api, BaseInv, EnvTypeOK
    <3>2. msg' = msg /\ jobs[i].status = "running"
      BY <2>n, <3>1, JobEffects DEF ApiCancel, vars, Live, BaseInv
    <3>3. jobs[i].attempt_id > 0
      BY <3>2, RunningWasClaimed
    <3> QED BY <2>n, <3>2, <3>3 DEF MessageInv
  <2>2. ASSUME PubSubStep(i) PROVE msg'[i].n > 0
    <3>1. msg[i].n > 0
      BY <2>2, PubSubFrame DEF RefusedHoldsNoSlot, vars, BaseInv
    <3>2. msg[i].n \in Nat
      BY <2>n, DeliveryAssumption DEF Message
    <3>3. msg'[i].n \in {msg[i].n, msg[i].n + 1}
      <4>1. CASE Push(i)
        BY <4>1 DEF Push, BaseInv, EnvTypeOK, Message
      <4>2. CASE Land(i) \/ Duplicate(i)
        BY <4>2, <2>n DEF Land, Duplicate, BaseInv, EnvTypeOK, Message
      <4>3. CASE Lapse(i)
        BY <4>3, <2>n DEF Lapse, Returned, BaseInv, EnvTypeOK, Message
      <4> QED BY <2>2, <4>1, <4>2, <4>3 DEF PubSubStep
    <3> QED BY <3>1, <3>2, <3>3
  <2>3. ASSUME NEW n \in Deliveries, RequestStep(i, n) PROVE msg'[i].n > 0
    <3>1. ~(n > msg[i].n)
      BY <2>n, <2>3, RequestCall DEF MessageInv
    <3>2. msg[i].n > 0
      BY <2>n, <3>1, DeliveryAssumption DEF Deliveries, Message
    <3>3. CASE msg' = msg
      BY <3>2, <3>3
    <3>4. CASE Answer(i, n)
      <4>1. msg'[i] = AfterAnswer(msg[i], reqs[i][n], n)
        BY <3>4 DEF Answer, BaseInv, EnvTypeOK
      <4> QED BY <2>n, <3>2, <4>1 DEF AfterAnswer, Returned, Message
    <3> QED BY <2>3, <3>3, <3>4, RequestFrame DEF BaseInv
  <2>4. ASSUME NEW j \in JobIds, j # i,
               \/ ApiStep(j) \/ PubSubStep(j) \/ \E n \in Deliveries : RequestStep(j, n)
        PROVE  Same(i)
    BY <2>4, ApiFrame, PubSubFrame, RequestFrame DEF BaseInv
  <2>5. CASE ServiceTick \/ UNCHANGED serviceVars
    BY <2>0, <2>5 DEF ServiceTick, Tick, env, serviceVars, vars, Same
  <2> QED BY <2>0, <2>1, <2>2, <2>3, <2>4, <2>5 DEF ServiceNext
<1> QED BY <1>1, <1>2, BaseInit, BaseStep, PTL DEF ServiceSpec

\* Whatever happens, a live job has somebody who will still move it, or its
\* handler died, or its message is on the dead-letter topic.
THEOREM DrivenCorrect == ServiceSpec => []LiveJobIsDriven
<1>1. BaseInv /\ AttemptInv /\ RefusedHoldsNoSlot => LiveJobIsDriven
  <2> SUFFICES ASSUME BaseInv, AttemptInv, RefusedHoldsNoSlot, NEW j \in JobIds,
                      jobs[j].status \in Live,
                      api[j] \notin {"publish", "cancel", "crashed"}
               PROVE  msg[j].state \in {"in_doubt", "ready", "out", "dead"}
    BY DEF LiveJobIsDriven
  <2>1. HandlerInv(j) /\ MessageInv(j) /\ msg[j] \in Message
        /\ (msg[j].state = "acked" => jobs[j].status = "complete")
        /\ api[j] \in {"idle", "publish", "cancel", "accepted", "refused", "crashed"}
    BY DEF BaseInv, CallInv, EnvTypeOK, AttemptInv
  <2>2. api[j] \in {"accepted", "refused"} /\ msg[j].state # "acked"
    BY <2>1 DEF HandlerInv, Live
  <2>3. msg[j].state # "none"
    <3>1. CASE api[j] = "accepted"
      BY <2>1, <3>1 DEF HandlerInv
    <3>2. CASE api[j] = "refused"
      <4>1. msg[j].n > 0
        BY <3>2 DEF RefusedHoldsNoSlot
      <4> QED BY <2>1, <4>1 DEF MessageInv
    <3> QED BY <2>2, <3>1, <3>2
  <2> QED BY <2>1, <2>2, <2>3 DEF Message
<1> QED BY <1>1, AttemptCorrect, RefusedCorrect, PTL

\* While a lease runs, only the request that holds it moves the job.
THEOREM OwnerKeepsCorrect == ServiceSpec => LiveOwnerKeepsJob
<1>1. BaseInv /\ [ServiceNext]_serviceVars =>
        [\A j \in JobIds :
           LeaseActive(j) =>
               \/ /\ jobs'[j].status = "running"
                  /\ jobs'[j].attempt_id = jobs[j].attempt_id
               \/ \E n \in Deliveries :
                     /\ reqs[j][n].attempt = jobs[j].attempt_id
                     /\ reqs'[j][n].pc # reqs[j][n].pc]_serviceVars
  <2> SUFFICES ASSUME BaseInv, ServiceNext, NEW i \in JobIds, LeaseActive(i),
                      ~ (jobs'[i].status = "running" /\ jobs'[i].attempt_id = jobs[i].attempt_id)
               PROVE  \E n \in Deliveries :
                         /\ reqs[i][n].attempt = jobs[i].attempt_id
                         /\ reqs'[i][n].pc # reqs[i][n].pc
    OBVIOUS
  <2>0. jobs[i].status = "running" /\ ~Claim(i) /\ ~Same(i) /\ jobs'[i] # jobs[i]
    BY DEF LeaseActive, Claim, ClaimOutcome, Same
  <2>1. ~ApiStep(i)
    BY <2>0, JobEffects
    DEF ApiStep, ApiCreate, ApiPublish, ApiPublishRaises, ApiCancel, ApiCrash, vars, BaseInv
  <2>2. ~PubSubStep(i)
    BY <2>0 DEF PubSubStep, Land, Push, Lapse, Duplicate, vars
  <2>3. \A j \in JobIds : j # i =>
           ~ (ApiStep(j) \/ PubSubStep(j) \/ \E n \in Deliveries : RequestStep(j, n))
    BY <2>0, ApiFrame, PubSubFrame, RequestFrame DEF BaseInv
  <2>4. PICK n \in Deliveries : RequestStep(i, n)
    BY <2>0, <2>1, <2>2, <2>3 DEF ServiceNext, ServiceTick, Tick
  <2>5. OwnerCall(i, Attempt(i, n)) /\ Attempt(i, n) = jobs[i].attempt_id
    <3>1. OwnerCall(i, Attempt(i, n))
      BY <2>0, <2>4, RequestCall DEF vars
    <3> QED BY <3>1 DEF OwnerCall, Renew, Progress, Complete, Retry, Fail, Owns
  <2>6. \A a : ~ (Renew(i, a) \/ Progress(i, a))
    <3>1. jobs[i] \in Job
      BY DEF BaseInv, StoreInv, TypeOK
    <3> QED BY <2>0, <3>1 DEF Renew, Progress, BaseInv, StoreInv, TypeOK, Job
  <2>7. WorkerComplete(i, n) \/ WorkerCompleteRaises(i, n) \/ WorkerExcept(i, n)
    BY <2>0, <2>4, <2>6
    DEF RequestStep, WorkerClaim, WorkerClaimLost, WorkerProgress, RunnerStep, RunnerReturns,
        RunnerRaises, RunnerEnds, WorkerCrash, KeeperRenews, Answer, vars
  <2>8. \E pc : pc # reqs[i][n].pc /\ reqs'[i][n] = [reqs[i][n] EXCEPT !.pc = pc]
    <3>1. \A q : Put(i, n, q) => reqs'[i][n] = q
      BY PutEffect DEF BaseInv
    <3> QED BY <2>7, <3>1 DEF WorkerComplete, WorkerCompleteRaises, WorkerExcept, Goto, At
  <2>9. reqs'[i][n].pc # reqs[i][n].pc
    BY <2>8 DEF BaseInv, EnvTypeOK, Request
  <2> QED BY <2>5, <2>9 DEF Attempt
<1> QED BY <1>1, BaseInit, BaseStep, PTL DEF ServiceSpec, LiveOwnerKeepsJob

-----------------------------------------------------------------------------
(* Deliveries that nothing disturbs.                                       *)

Idle(r) == r.pc \in {"none", "done"} /\ r.keeper = "off"

\* The request of the current delivery: the job waits for it, it owns the job,
\* or it has put the job back or, at the last delivery, failed it.
CurrentInv(j, n) ==
    LET r == reqs[j][n] IN
    /\ r.pc # "run" => r.keeper = "off"
    /\ r.pc = "claim" => jobs[j].status = "queued"
    /\ r.pc \in {"run", "complete", "except"} => Owns(j, r.attempt)
    /\ r.pc = "nack" => jobs[j].status = IF n >= MaxDelivery THEN "failed" ELSE "queued"

\* One delivery after another: no request but the current one is at work, and
\* none while the message waits or after it was given up.
Undisturbed(j) ==
    /\ api[j] \in {"idle", "publish", "accepted"}
    /\ msg[j].state # "in_doubt"
    /\ \A n \in Deliveries : n # msg[j].n => Idle(reqs[j][n])
    /\ msg[j].state # "out" => \A n \in Deliveries : Idle(reqs[j][n])
    /\ msg[j].state = "ready" => jobs[j].status = "queued"
    /\ msg[j].state = "out" => msg[j].n \in Deliveries /\ CurrentInv(j, msg[j].n)
    /\ msg[j].state = "dead" => jobs[j].status = "failed"

QuietInv == \A j \in JobIds : faults = 0 /\ ~msg[j].lapsed => Undisturbed(j)

\* Faults are never forgotten.
LEMMA QuietBefore ==
    ASSUME BaseInv, [ServiceNext]_serviceVars, faults' = 0
    PROVE  faults = 0 /\ ~Fault
<1>1. faults \in Nat
  BY FaultsAssumption DEF BaseInv, EnvTypeOK
<1>2. faults' \in {faults, faults + 1}
  <2>1. ASSUME NEW j \in JobIds, ApiStep(j) \/ PubSubStep(j)
        PROVE  faults' \in {faults, faults + 1}
    BY <2>1 DEF ApiStep, ApiCreate, ApiPublish, ApiPublishRaises, ApiCancel, ApiCrash,
                PubSubStep, Land, Push, Lapse, Duplicate, Fault
  <2>2. ASSUME NEW j \in JobIds, NEW n \in Deliveries, RequestStep(j, n)
        PROVE  faults' \in {faults, faults + 1}
    BY <2>2 DEF RequestStep, WorkerClaim, WorkerClaimLost, WorkerProgress, RunnerStep, RunnerReturns,
                RunnerRaises, RunnerEnds, WorkerComplete, WorkerCompleteRaises, WorkerExcept,
                WorkerCrash, KeeperRenews, Answer, Fault, NoFault, env
  <2> QED BY <2>1, <2>2 DEF ServiceNext, ServiceTick, serviceVars, env
<1> QED BY <1>1, <1>2 DEF Fault

\* A submission is taken up and its message sent.
LEMMA QuietApi ==
    ASSUME BaseInv, NEW i \in JobIds, ApiStep(i), ~Fault, Undisturbed(i)
    PROVE  Undisturbed(i)'
<1>1. /\ HandlerInv(i) /\ MessageInv(i) /\ msg[i] \in Message
      /\ api[i] \in {"idle", "publish", "accepted"}
  BY DEF BaseInv, CallInv, EnvTypeOK, Undisturbed
<1>2. reqs' = reqs
  BY ApiFrame DEF BaseInv
<1>3. msg[i].state = "none" /\ msg[i].n = 0
  BY <1>1 DEF HandlerInv, MessageInv, ApiStep, ApiCreate, ApiPublish, ApiPublishRaises, ApiCancel,
              ApiCrash, Api
<1>4. \A n \in Deliveries : Idle(reqs[i][n])
  BY <1>3 DEF Undisturbed
<1>5. CASE ApiCreate(i)
  <2>1. api'[i] = "publish" /\ msg' = msg
    BY <1>5 DEF ApiCreate, Api, BaseInv, EnvTypeOK
  <2> QED BY <1>2, <1>3, <1>4, <2>1 DEF Undisturbed, Idle
<1>6. CASE ApiPublish(i)
  <2>1. /\ api'[i] = "accepted" /\ msg'[i].state = "ready"
        /\ jobs' = jobs /\ api[i] = "publish"
    BY <1>1, <1>6 DEF ApiPublish, Api, BaseInv, EnvTypeOK, Message, vars
  <2>2. jobs'[i].status = "queued"
    BY <1>1, <2>1 DEF HandlerInv
  <2> QED BY <1>2, <1>4, <2>1, <2>2 DEF Undisturbed, Idle
<1>7. ~ (ApiPublishRaises(i) \/ ApiCancel(i) \/ ApiCrash(i))
  BY <1>1 DEF ApiPublishRaises, ApiCancel, ApiCrash, Api
<1> QED BY <1>5, <1>6, <1>7 DEF ApiStep

\* A message that waits is pushed once, to a job that waits.
LEMMA QuietPubSub ==
    ASSUME BaseInv, NEW i \in JobIds, PubSubStep(i), ~Fault, Undisturbed(i), ~msg'[i].lapsed
    PROVE  Undisturbed(i)'
<1>1. msg \in [JobIds -> Message] /\ msg[i] \in Message /\ MessageInv(i)
  BY DEF BaseInv, CallInv, EnvTypeOK
<1>2. Push(i)
  <2>1. ~Land(i) /\ ~Duplicate(i)
    BY DEF Land, Duplicate, Undisturbed
  <2>2. ~Lapse(i)
    <3>1. Returned(msg[i]) \in Message
      BY <1>1 DEF Returned, Message
    <3>2. [Returned(msg[i]) EXCEPT !.lapsed = TRUE].lapsed
      BY <3>1 DEF Message
    <3> QED BY <1>1, <3>2 DEF Lapse
  <2> QED BY <2>1, <2>2 DEF PubSubStep
<1>3. PICK n \in Deliveries : n = msg[i].n + 1
  <2>1. msg[i].n < MaxDelivery /\ msg[i].n \in Nat
    BY <1>1, <1>2, DeliveryAssumption DEF Push, MessageInv, Message
  <2> QED BY <2>1, DeliveryAssumption DEF Deliveries
<1>4. msg'[i].state = "out" /\ msg'[i].n = n /\ api' = api /\ jobs' = jobs
  BY <1>1, <1>2, <1>3 DEF Push, Message, vars
<1>5. reqs'[i][n].pc = "claim" /\ reqs'[i][n].keeper = "off"
  BY <1>2, <1>3, PutEffect DEF Push, BaseInv, NewRequest
<1>6. \A m \in Deliveries : m # n => reqs'[i][m] = reqs[i][m]
  BY <1>3, PubSubFrame DEF BaseInv
<1>7. jobs[i].status = "queued" /\ \A m \in Deliveries : Idle(reqs[i][m])
  BY <1>2 DEF Push, Undisturbed
<1>8. CurrentInv(i, n)'
  BY <1>4, <1>5, <1>7 DEF CurrentInv
<1>9. \A m \in Deliveries : m # n => Idle(reqs[i][m])'
  BY <1>6, <1>7 DEF Idle
<1> QED BY <1>3, <1>4, <1>8, <1>9 DEF Undisturbed

\* Where only the current request can move, it keeps what it owns until it
\* completes the job or hands it back.
LEMMA QuietCurrent ==
    ASSUME BaseInv, NEW i \in JobIds, NEW n \in Deliveries, RequestStep(i, n), ~Answer(i, n), ~Fault,
           CurrentInv(i, n)
    PROVE  CurrentInv(i, n)'
<1>1. PICK r \in Request : r = reqs[i][n]
  BY DEF BaseInv, EnvTypeOK
<1>j. jobs[i] \in Job /\ jobs \in [JobIds -> Job]
  BY DEF BaseInv, StoreInv, TypeOK
<1>p. \A q : Put(i, n, q) => reqs'[i][n] = q
  BY PutEffect DEF BaseInv
<1>2. CASE WorkerClaim(i, n)
  <2>1. jobs[i].status = "queued"
    BY <1>2 DEF WorkerClaim, At, CurrentInv
  <2>2. ClaimOutcome(i) = "acquired"
    BY <2>1 DEF ClaimOutcome, LeaseActive
  <2>3. Claim(i) /\ Put(i, n, [r EXCEPT !.pc = "run", !.attempt = jobs'[i].attempt_id, !.keeper = "on"])
    BY <1>1, <1>2, <2>2 DEF WorkerClaim
  <2>4. reqs'[i][n].pc = "run" /\ reqs'[i][n].attempt = jobs'[i].attempt_id
    BY <1>1, <1>p, <2>3 DEF Request
  <2>5. jobs'[i].status = "running"
    BY <2>3, JobEffects DEF BaseInv
  <2> QED BY <2>4, <2>5 DEF CurrentInv, Owns
<1>3. CASE WorkerProgress(i, n)
  <2>1. r.pc = "run" /\ Progress(i, r.attempt) /\ reqs' = reqs
    BY <1>1, <1>3 DEF WorkerProgress, At, Attempt, env
  <2>2. Owns(i, r.attempt)'
    BY <1>j, <2>1 DEF Progress, Owns, Job
  <2> QED BY <1>1, <2>1, <2>2 DEF CurrentInv
<1>4. CASE RunnerStep(i, n)
  <2>1. PICK pc \in {"complete", "except"} : RunnerEnds(i, n, pc)
    BY <1>4 DEF RunnerStep, RunnerReturns, RunnerRaises
  <2>2. r.pc = "run" /\ jobs' = jobs /\ reqs'[i][n] = [r EXCEPT !.pc = pc, !.keeper = "off"]
    BY <1>1, <1>p, <2>1 DEF RunnerEnds, At, vars
  <2>3. /\ reqs'[i][n].pc = pc /\ reqs'[i][n].keeper = "off" /\ reqs'[i][n].attempt = r.attempt
    BY <1>1, <2>2 DEF Request
  <2>4. Owns(i, r.attempt)'
    BY <1>1, <2>2 DEF CurrentInv, Owns
  <2> QED BY <2>3, <2>4 DEF CurrentInv
<1>5. CASE WorkerComplete(i, n)
  <2>1. r.pc = "complete" /\ Goto(i, n, "ack_completed")
    BY <1>1, <1>5 DEF WorkerComplete, At, Attempt, CurrentInv
  <2>2. reqs'[i][n].pc = "ack_completed" /\ reqs'[i][n].keeper = r.keeper
    BY <1>1, <1>p, <2>1 DEF Goto, Request
  <2> QED BY <1>1, <2>1, <2>2 DEF CurrentInv
<1>6. CASE WorkerExcept(i, n)
  <2>1. r.pc = "except" /\ GiveUpOrRetry(i, n) /\ Goto(i, n, "nack")
    BY <1>1, <1>6 DEF WorkerExcept, At, Attempt, CurrentInv
  <2>2. reqs'[i][n].pc = "nack" /\ reqs'[i][n].keeper = r.keeper
    BY <1>1, <1>p, <2>1 DEF Goto, Request
  <2>3. jobs'[i].status = IF n >= MaxDelivery THEN "failed" ELSE "queued"
    BY <1>j, <2>1 DEF GiveUpOrRetry, Fail, Retry, Job
  <2> QED BY <1>1, <2>1, <2>2, <2>3 DEF CurrentInv
<1>7. CASE KeeperRenews(i, n)
  <2>1. r.pc = "run" /\ Renew(i, r.attempt)
    BY <1>1, <1>7 DEF KeeperRenews, Attempt, CurrentInv
  <2>2. reqs'[i][n].pc = "run" /\ reqs'[i][n].attempt = r.attempt
    BY <1>1, <1>7, <1>p, <2>1 DEF KeeperRenews, Request
  <2>3. Owns(i, r.attempt)'
    BY <1>j, <2>1 DEF Renew, Owns, Job
  <2> QED BY <2>2, <2>3 DEF CurrentInv
<1>8. ~ (WorkerClaimLost(i, n) \/ WorkerCompleteRaises(i, n) \/ WorkerCrash(i, n))
  BY DEF WorkerClaimLost, WorkerCompleteRaises, WorkerCrash
<1> QED BY <1>2, <1>3, <1>4, <1>5, <1>6, <1>7, <1>8 DEF RequestStep

\* The answer to the current delivery ends it: the message is forgotten,
\* returned to the queue with its job, or given up with its job failed.
LEMMA QuietAnswer ==
    ASSUME BaseInv, NEW i \in JobIds, NEW n \in Deliveries, Answer(i, n), Undisturbed(i),
           msg[i].state = "out", msg[i].n = n
    PROVE  Undisturbed(i)'
<1>1. PICK r \in Request : r = reqs[i][n]
  BY DEF BaseInv, EnvTypeOK
<1>m. msg[i] \in Message /\ CurrentInv(i, n)
  BY DEF BaseInv, EnvTypeOK, Undisturbed
<1>2. /\ r.pc \in Answering /\ msg'[i] = AfterAnswer(msg[i], r, n)
      /\ jobs' = jobs /\ api' = api
  BY <1>1 DEF Answer, vars, BaseInv, EnvTypeOK
<1>3. r.pc # "run" /\ r.keeper = "off"
  BY <1>1, <1>m, <1>2 DEF Answering, Acks, CurrentInv
<1>4. reqs'[i][n].pc = "done" /\ reqs'[i][n].keeper = "off"
  <2>1. reqs'[i][n] = [r EXCEPT !.pc = "done", !.deadline = 0]
    BY <1>1, PutEffect DEF Answer, BaseInv
  <2> QED BY <1>3, <2>1 DEF Request
<1>5. \A m \in Deliveries : Idle(reqs[i][m])'
  <2>1. \A m \in Deliveries : m # n => reqs'[i][m] = reqs[i][m] /\ Idle(reqs[i][m])
    BY PutEffect DEF Answer, BaseInv, Undisturbed
  <2> QED BY <1>4, <2>1 DEF Idle
<1>6. CurrentInv(i, n)'
  BY <1>4 DEF CurrentInv
<1>7. \/ msg'[i].state \in {"out", "acked"} /\ msg'[i].n = n
      \/ r.pc = "nack" /\ msg'[i] = Returned(msg[i])
  <2>1. CASE r.pc \in Acks /\ now < r.deadline
    <3>1. msg'[i] = [msg[i] EXCEPT !.state = "acked"]
      BY <1>2, <2>1 DEF AfterAnswer, Acks
    <3> QED BY <1>m, <3>1 DEF Message
  <2>2. CASE r.pc = "nack"
    BY <1>2, <2>2 DEF AfterAnswer, Acks
  <2>3. CASE r.pc \in Acks /\ ~(now < r.deadline)
    BY <1>2, <2>3 DEF AfterAnswer, Acks
  <2> QED BY <1>2, <2>1, <2>2, <2>3 DEF Answering
<1>8. CASE msg'[i].state \in {"out", "acked"} /\ msg'[i].n = n
  BY <1>2, <1>5, <1>6, <1>8 DEF Undisturbed
<1>9. CASE r.pc = "nack" /\ msg'[i] = Returned(msg[i])
  <2>1. jobs'[i].status = IF n >= MaxDelivery THEN "failed" ELSE "queued"
    BY <1>1, <1>m, <1>2, <1>9 DEF CurrentInv
  <2>2. msg'[i].state = IF n >= MaxDelivery THEN "dead" ELSE "ready"
    BY <1>m, <1>9 DEF Returned, Message
  <2> QED BY <1>2, <1>5, <2>1, <2>2 DEF Undisturbed
<1> QED BY <1>7, <1>8, <1>9

LEMMA QuietRequest ==
    ASSUME BaseInv, NEW i \in JobIds, NEW n \in Deliveries, RequestStep(i, n), ~Fault, Undisturbed(i)
    PROVE  Undisturbed(i)'
<1>1. ~Idle(reqs[i][n])
  BY DEF Idle, RequestStep, WorkerClaim, WorkerClaimLost, WorkerProgress, RunnerStep,
         RunnerReturns, RunnerRaises, RunnerEnds, WorkerComplete, WorkerCompleteRaises, WorkerExcept,
         WorkerCrash, KeeperRenews, Answer, At, Working, Answering, Acks
<1>2. msg[i].state = "out" /\ msg[i].n = n /\ CurrentInv(i, n)
  BY <1>1 DEF Undisturbed
<1>3. CASE Answer(i, n)
  BY <1>2, <1>3, QuietAnswer
<1>4. CASE ~Answer(i, n)
  <2>1. /\ api' = api /\ msg' = msg
        /\ \A m \in Deliveries : m # n => reqs'[i][m] = reqs[i][m]
    BY <1>4, RequestFrame DEF BaseInv
  <2>2. CurrentInv(i, n)'
    BY <1>2, <1>4, QuietCurrent
  <2>3. \A m \in Deliveries : m # n => Idle(reqs[i][m])'
    BY <1>2, <2>1 DEF Undisturbed, Idle
  <2> QED BY <1>2, <2>1, <2>2, <2>3 DEF Undisturbed
<1> QED BY <1>3, <1>4

LEMMA QuietStep == BaseInv /\ QuietInv /\ [ServiceNext]_serviceVars => QuietInv'
<1> SUFFICES ASSUME BaseInv, QuietInv, [ServiceNext]_serviceVars,
                    NEW i \in JobIds, faults' = 0, ~msg'[i].lapsed
             PROVE  Undisturbed(i)'
  BY DEF QuietInv
<1>1. faults = 0 /\ ~Fault
  BY QuietBefore
<1>2. msg[i].lapsed => msg'[i].lapsed
  <2>1. msg \in [JobIds -> Message]
    BY DEF BaseInv, EnvTypeOK
  <2>2. ASSUME ApiStep(i) PROVE msg'[i].lapsed = msg[i].lapsed
    BY <2>1, <2>2 DEF ApiStep, ApiCreate, ApiPublish, ApiPublishRaises, ApiCancel, ApiCrash, Message
  <2>3. ASSUME PubSubStep(i) PROVE msg[i].lapsed => msg'[i].lapsed
    BY <2>1, <2>3 DEF PubSubStep, Land, Push, Lapse, Duplicate, Returned, Message
  <2>4. ASSUME NEW n \in Deliveries, RequestStep(i, n) PROVE msg'[i].lapsed = msg[i].lapsed
    <3>1. CASE Answer(i, n)
      BY <2>1, <3>1 DEF Answer, AfterAnswer, Returned, Message
    <3> QED BY <2>4, <3>1, RequestFrame DEF BaseInv
  <2>5. ASSUME NEW j \in JobIds, j # i,
               \/ ApiStep(j) \/ PubSubStep(j) \/ \E n \in Deliveries : RequestStep(j, n)
        PROVE  Same(i)
    BY <2>5, ApiFrame, PubSubFrame, RequestFrame DEF BaseInv
  <2>6. CASE ServiceTick \/ UNCHANGED serviceVars
    BY <2>6 DEF ServiceTick, env, serviceVars
  <2> QED BY <2>2, <2>3, <2>4, <2>5, <2>6 DEF ServiceNext, Same
<1>3. Undisturbed(i)
  BY <1>1, <1>2 DEF QuietInv
<1>4. Same(i) => Undisturbed(i)'
  BY <1>3 DEF Same, Undisturbed, Idle, CurrentInv, Owns
<1>5. ApiStep(i) => Undisturbed(i)'
  BY <1>1, <1>3, QuietApi
<1>6. PubSubStep(i) => Undisturbed(i)'
  BY <1>1, <1>3, QuietPubSub
<1>7. \A n \in Deliveries : RequestStep(i, n) => Undisturbed(i)'
  BY <1>1, <1>3, QuietRequest
<1>8. ASSUME NEW j \in JobIds, j # i,
             \/ ApiStep(j) \/ PubSubStep(j) \/ \E n \in Deliveries : RequestStep(j, n)
      PROVE  Same(i)
  BY <1>8, ApiFrame, PubSubFrame, RequestFrame DEF BaseInv
<1>9. CASE ServiceTick \/ UNCHANGED serviceVars
  BY <1>4, <1>9 DEF ServiceTick, Tick, env, serviceVars, vars, Same
<1> QED BY <1>4, <1>5, <1>6, <1>7, <1>8, <1>9 DEF ServiceNext

\* A message whose deliveries nothing disturbed but runners that raise is
\* given up only with its job failed, and so with its slot given back.
THEOREM QuietDeadLetterCorrect == ServiceSpec => []QuietDeadLetterFailed
<1>1. ServiceInit => QuietInv
  BY DEF ServiceInit, QuietInv, Undisturbed, Idle, NewRequest
<1>2. QuietInv => QuietDeadLetterFailed
  BY DEF QuietInv, Undisturbed, QuietDeadLetterFailed
<1> QED BY <1>1, <1>2, BaseInit, BaseStep, QuietStep, PTL DEF ServiceSpec
=============================================================================
