--------------------------- MODULE ClaimPageProofs ---------------------------
(***************************************************************************)
(* Proofs about ClaimPage: both deployments use the store as it expects,   *)
(* the Pub/Sub deployment seen from its pages is ClaimService, the thread  *)
(* of an inline job never leaves it behind, and the page shows the truth.  *)
(***************************************************************************)
EXTENDS ClaimPage, ClaimServiceProofs

PageValues == {"form", "posting", "polling", "shown", "error", "lost"}

-----------------------------------------------------------------------------
(* Steps of either deployment.                                             *)

\* A step of the thread of an inline job: one of a request of ClaimService.
ThreadStep(j, n) ==
    \/ WorkerClaim(j, n) \/ WorkerProgress(j, n) \/ RunnerStep(j, n)
    \/ WorkerComplete(j, n) \/ WorkerExcept(j, n)
    \/ KeeperRenews(j, n) \/ Answer(j, n)

\* What an inline deployment does besides its clock and its pages.
InlineServiceStep ==
    \E j \in JobIds :
        \/ ApiCreate(j) \/ InlineAccept(j) \/ InlineStartRaises(j)
        \/ \E n \in Deliveries : ThreadStep(j, n)

LEMMA ThreadStepIsRequestStep ==
    ASSUME NEW j \in JobIds, NEW n \in Deliveries, ThreadStep(j, n)
    PROVE  RequestStep(j, n)
BY DEF ThreadStep, RequestStep

\* The deployment never changes, and each step is one of its service's.
LEMMA PageStepKinds ==
    ASSUME [PageNext]_pageVars, inline \in BOOLEAN
    PROVE  /\ inline' = inline
           /\ ~inline => [ServiceNext]_serviceVars
           /\ inline => InlineServiceStep \/ ServiceTick \/ UNCHANGED serviceVars
<1>1. CASE UNCHANGED pageVars
  BY <1>1 DEF pageVars
<1>2. CASE Deployed(ServiceTick)
  BY <1>2 DEF Deployed, ServiceNext
<1>3. ASSUME NEW j \in JobIds, PageSubmit(j)
      PROVE  inline' = inline /\ ServiceNext /\ InlineServiceStep
  BY <1>3 DEF PageSubmit, ServiceNext, ApiStep, InlineServiceStep
<1>4. ASSUME NEW j \in JobIds, PageAnswered(j) \/ PageReads(j) \/ PageLoses(j)
      PROVE  inline' = inline /\ UNCHANGED serviceVars
  BY <1>4 DEF PageAnswered, PageReads, PageLoses
<1>5. ASSUME NEW j \in JobIds, Deployed(inline /\ InlineStep(j))
      PROVE  inline' = inline /\ inline /\ InlineServiceStep
  BY <1>5 DEF Deployed, InlineStep, InlineServiceStep, ThreadStep
<1>6. ASSUME NEW j \in JobIds, Deployed(~inline /\ PubSubDeploymentStep(j))
      PROVE  inline' = inline /\ ~inline /\ ServiceNext
  BY <1>6 DEF Deployed, PubSubDeploymentStep, ServiceNext, ApiStep
<1> QED BY <1>1, <1>2, <1>3, <1>4, <1>5, <1>6 DEF PageNext

\* What starts or fails to start a thread does not touch the store.
LEMMA StartKeepsStore ==
    ASSUME NEW j \in JobIds, InlineAccept(j) \/ InlineStartRaises(j)
    PROVE  UNCHANGED vars /\ msg' = msg
BY DEF InlineAccept, InlineStartRaises

LEMMA PageStepIsStoreStep ==
    StoreInv /\ inline \in BOOLEAN /\ [PageNext]_pageVars => [Next]_vars
<1> SUFFICES ASSUME StoreInv, inline \in BOOLEAN, [PageNext]_pageVars PROVE [Next]_vars
  OBVIOUS
<1>1. CASE [ServiceNext]_serviceVars
  BY <1>1, ServiceStepIsStoreStep
<1>2. CASE InlineServiceStep
  <2>1. ASSUME NEW j \in JobIds, InlineAccept(j) \/ InlineStartRaises(j) PROVE [Next]_vars
    BY <2>1, StartKeepsStore
  <2>2. ASSUME NEW j \in JobIds, NEW n \in Deliveries, ThreadStep(j, n) PROVE ServiceNext
    BY <2>2, ThreadStepIsRequestStep DEF ServiceNext
  <2>3. ASSUME NEW j \in JobIds, ApiCreate(j) PROVE ServiceNext
    BY <2>3 DEF ServiceNext, ApiStep
  <2> QED BY <1>2, <2>1, <2>2, <2>3, ServiceStepIsStoreStep DEF InlineServiceStep
<1>3. CASE ServiceTick \/ UNCHANGED serviceVars
  BY <1>3, ServiceStepIsStoreStep DEF ServiceNext
<1> QED BY <1>1, <1>2, <1>3, PageStepKinds

LEMMA StoreUnderPage == PageSpec => [](StoreInv /\ inline \in BOOLEAN)
<1>1. PageInit => StoreInv /\ inline \in BOOLEAN
  BY StoreInvInit DEF PageInit, ServiceInit
<1>2. StoreInv /\ inline \in BOOLEAN /\ [PageNext]_pageVars
        => StoreInv' /\ (inline \in BOOLEAN)'
  BY PageStepIsStoreStep, PageStepKinds, StoreInvStep
<1> QED BY <1>1, <1>2, PTL DEF PageSpec

\* In either deployment the store is used as its specification expects, so
\* everything that is true of every behaviour of JobStore holds under a page.
THEOREM PageImplementsStore == PageSpec => Spec
<1>1. PageInit => Init
  BY DEF PageInit, ServiceInit
<1> QED BY <1>1, PageStepIsStoreStep, StoreUnderPage, PTL DEF PageSpec, Spec

\* Deployed with Pub/Sub, the service under its pages is ClaimService, so all
\* of its theorems hold however the pages submit, read and lose answers.
THEOREM PageImplementsService == PageSpec /\ ~inline => ServiceSpec
<1>1. PageInit => ServiceInit
  BY DEF PageInit
<1>2. inline \in BOOLEAN /\ ~inline /\ [PageNext]_pageVars => ~inline' /\ [ServiceNext]_serviceVars
  BY PageStepKinds
<1> QED BY <1>1, <1>2, StoreUnderPage, PTL DEF PageSpec, ServiceSpec

-----------------------------------------------------------------------------
(* The thread of an inline job.                                            *)

\* Its request, and the others: nothing is ever delivered.
ThreadOf(j) == reqs[j][InlineDelivery]
OnlyThread(j) ==
    /\ msg[j].state = "none"
    /\ \A n \in Deliveries :
          n # InlineDelivery => reqs[j][n].pc = "none" /\ reqs[j][n].keeper = "off"

\* Before the thread starts, or for ever when it could not be started.
NotStarted(j) ==
    /\ api[j] \in {"idle", "publish", "crashed"}
    /\ ThreadOf(j).pc = "none" /\ ThreadOf(j).keeper = "off"
    /\ api[j] = "publish" => jobs[j].status = "queued"

\* The thread is about to claim a job that waits for it.
Waiting(j) ==
    /\ ThreadOf(j).pc = "claim" /\ ThreadOf(j).keeper = "off"
    /\ jobs[j].status = "queued"

\* The thread owns the job that it runs.
Running(j) ==
    /\ ThreadOf(j).pc \in {"run", "complete", "except"}
    /\ Owns(j, ThreadOf(j).attempt)

Started(j) ==
    /\ api[j] = "accepted"
    /\ Waiting(j) \/ Running(j) \/ jobs[j].status \in Terminal

InlineInv(j) == OnlyThread(j) /\ (NotStarted(j) \/ Started(j))
ThreadInv == inline => \A j \in JobIds : InlineInv(j)

\* The typed state of either deployment, with what its kind guarantees.
PageBase ==
    /\ StoreInv /\ EnvTypeOK /\ inline \in BOOLEAN
    /\ page \in [JobIds -> PageValues]
    /\ ThreadInv
    /\ ~inline => CallInv

LEMMA ThreadIsLast == InlineDelivery \in Deliveries /\ InlineDelivery >= MaxDelivery
BY DeliveryAssumption DEF InlineDelivery, Deliveries

\* What belongs to a job that does not change keeps its invariant.
LEMMA InlineFrame ==
    ASSUME NEW i \in JobIds, InlineInv(i), Same(i)
    PROVE  InlineInv(i)'
BY DEF InlineInv, OnlyThread, NotStarted, Started, Waiting, Running, ThreadOf, Owns, Same,
       InlineDelivery

\* A step of the thread that owns its job: it goes on owning it or ends it.
LEMMA RunningGoesOn ==
    ASSUME StoreInv, EnvTypeOK, NEW j \in JobIds, Running(j), ThreadStep(j, InlineDelivery)
    PROVE  Running(j)' \/ jobs'[j].status \in Terminal
<1> DEFINE n == InlineDelivery
           r == reqs[j][n]
<1>0. /\ n \in Deliveries /\ n >= MaxDelivery /\ r \in Request /\ Attempt(j, n) = r.attempt
      /\ r.pc \in {"run", "complete", "except"} /\ Owns(j, r.attempt)
  BY ThreadIsLast DEF EnvTypeOK, Running, ThreadOf, Attempt
<1>1. jobs[j] \in Job /\ jobs[j].status = "running"
  BY <1>0 DEF StoreInv, TypeOK, Owns
<1>2. Running(j)' <=> reqs'[j][n].pc \in {"run", "complete", "except"}
                      /\ jobs'[j].status = "running" /\ jobs'[j].attempt_id = reqs'[j][n].attempt
  BY DEF Running, ThreadOf, Owns, InlineDelivery
<1>3. \A q : Put(j, n, q) => reqs'[j][n] = q
  BY <1>0, PutEffect
<1> HIDE DEF n
<1>4. CASE WorkerClaim(j, n) \/ Answer(j, n)
  BY <1>0, <1>4 DEF WorkerClaim, Answer, At, Answering, Acks
<1>5. CASE WorkerProgress(j, n)
  <2>1. reqs' = reqs /\ Progress(j, r.attempt)
    BY <1>0, <1>5 DEF WorkerProgress, env
  <2>2. jobs'[j].status = "running" /\ jobs'[j].attempt_id = jobs[j].attempt_id
    BY <1>1, <2>1 DEF Progress, StoreInv, TypeOK, Job
  <2> QED BY <1>0, <1>2, <2>1, <2>2 DEF Owns
<1>6. CASE RunnerStep(j, n)
  <2>1. PICK pc \in {"complete", "except"}, k \in {"off", "late"} :
           Put(j, n, [r EXCEPT !.pc = pc, !.keeper = k]) /\ jobs' = jobs
    BY <1>6 DEF RunnerStep, RunnerReturns, RunnerRaises, RunnerEnds, vars
  <2>2. reqs'[j][n] = [r EXCEPT !.pc = pc, !.keeper = k]
    BY <1>3, <2>1
  <2>3. reqs'[j][n].pc = pc /\ reqs'[j][n].attempt = r.attempt
    BY <1>0, <2>2 DEF Request
  <2> QED BY <1>0, <1>2, <2>1, <2>3 DEF Owns
<1>7. CASE WorkerComplete(j, n)
  <2>1. Complete(j, r.attempt)
    BY <1>0, <1>7 DEF WorkerComplete
  <2> QED BY <1>1, <2>1 DEF Complete, Terminal, StoreInv, TypeOK, Job
<1>8. CASE WorkerExcept(j, n)
  <2>1. Fail(j, r.attempt)
    BY <1>0, <1>8 DEF WorkerExcept, GiveUpOrRetry
  <2> QED BY <1>1, <2>1 DEF Fail, Terminal, StoreInv, TypeOK, Job
<1>9. CASE KeeperRenews(j, n)
  <2>1. PICK k : Put(j, n, [r EXCEPT !.keeper = k]) /\ Renew(j, r.attempt)
    BY <1>0, <1>9 DEF KeeperRenews
  <2>2. reqs'[j][n] = [r EXCEPT !.keeper = k]
    BY <1>3, <2>1
  <2>3. reqs'[j][n].pc = r.pc /\ reqs'[j][n].attempt = r.attempt
    BY <1>0, <2>2 DEF Request
  <2>4. jobs'[j].status = "running" /\ jobs'[j].attempt_id = jobs[j].attempt_id
    BY <1>1, <2>1 DEF Renew, StoreInv, TypeOK, Job
  <2> QED BY <1>0, <1>2, <2>3, <2>4 DEF Owns
<1> QED BY <1>4, <1>5, <1>6, <1>7, <1>8, <1>9 DEF ThreadStep, n

\* The first step of the thread is a claim, and the claim is acquired.
LEMMA WaitingClaims ==
    ASSUME StoreInv, EnvTypeOK, NEW j \in JobIds, Waiting(j), ThreadStep(j, InlineDelivery)
    PROVE  Running(j)'
<1> DEFINE n == InlineDelivery
           r == reqs[j][n]
<1>0. /\ n \in Deliveries /\ r \in Request /\ r.pc = "claim" /\ r.keeper = "off"
      /\ jobs[j].status = "queued"
  BY ThreadIsLast DEF EnvTypeOK, Waiting, ThreadOf
<1>1. \A q : Put(j, n, q) => reqs'[j][n] = q
  BY <1>0, PutEffect
<1> HIDE DEF n
<1>2. WorkerClaim(j, n)
  BY <1>0 DEF ThreadStep, WorkerProgress, RunnerStep, RunnerReturns, RunnerRaises, RunnerEnds,
              WorkerComplete, WorkerExcept, KeeperRenews, Answer, At, Answering, Acks, n
<1>3. ClaimOutcome(j) = "acquired"
  BY <1>0 DEF ClaimOutcome, LeaseActive
<1>4. Claim(j) /\ Put(j, n, [r EXCEPT !.pc = "run", !.attempt = jobs'[j].attempt_id,
                                      !.keeper = "on"])
  BY <1>2, <1>3 DEF WorkerClaim
<1>5. jobs'[j].status = "running"
  BY <1>4, JobEffects
<1>6. reqs'[j][n] = [r EXCEPT !.pc = "run", !.attempt = jobs'[j].attempt_id, !.keeper = "on"]
  BY <1>1, <1>4
<1>7. reqs'[j][n].pc = "run" /\ reqs'[j][n].attempt = jobs'[j].attempt_id
  BY <1>0, <1>6 DEF Request
<1> QED BY <1>5, <1>7 DEF Running, ThreadOf, Owns, n, InlineDelivery

\* The other requests of an inline job do nothing.
LEMMA OnlyThreadSteps ==
    ASSUME NEW j \in JobIds, NEW n \in Deliveries, OnlyThread(j), ThreadStep(j, n)
    PROVE  n = InlineDelivery
BY RequestCall, ThreadStepIsRequestStep DEF OnlyThread

LEMMA InlineInvStep ==
    ASSUME StoreInv, EnvTypeOK, [Next]_vars, NEW j \in JobIds, InlineInv(j),
           \/ ApiCreate(j) \/ InlineAccept(j) \/ InlineStartRaises(j)
           \/ \E n \in Deliveries : ThreadStep(j, n)
    PROVE  InlineInv(j)'
<1>1. jobs[j].status \in Terminal => jobs'[j].status \in Terminal
  BY TerminalStep DEF StoreInv
<1>2. CASE ApiCreate(j)
  <2>1. api[j] = "idle" /\ api'[j] = "publish" /\ msg' = msg /\ reqs' = reqs
    BY <1>2 DEF ApiCreate, Api, EnvTypeOK
  <2>2. jobs'[j].status = "queued"
    BY <1>2, JobEffects DEF ApiCreate
  <2> QED BY <2>1, <2>2 DEF InlineInv, OnlyThread, NotStarted, Started, ThreadOf, InlineDelivery
<1>3. CASE InlineAccept(j)
  <2>1. /\ api[j] = "publish" /\ api'[j] = "accepted" /\ msg' = msg /\ jobs' = jobs
        /\ Put(j, InlineDelivery, NewRequest("claim", 0))
    BY <1>3 DEF InlineAccept, Api, EnvTypeOK, vars
  <2>2. /\ reqs'[j][InlineDelivery] = NewRequest("claim", 0)
        /\ \A n \in Deliveries : n # InlineDelivery => reqs'[j][n] = reqs[j][n]
    BY <2>1, PutEffect, ThreadIsLast
  <2>3. jobs[j].status = "queued"
    BY <2>1 DEF InlineInv, NotStarted, Started
  <2>4. Waiting(j)'
    BY <2>1, <2>2, <2>3 DEF Waiting, ThreadOf, NewRequest, InlineDelivery
  <2>5. OnlyThread(j)'
    BY <2>1, <2>2 DEF InlineInv, OnlyThread, InlineDelivery
  <2> QED BY <2>1, <2>4, <2>5 DEF InlineInv, Started
<1>4. CASE InlineStartRaises(j)
  <2>1. api[j] = "publish" /\ api'[j] = "crashed" /\ msg' = msg /\ reqs' = reqs
    BY <1>4 DEF InlineStartRaises, Api, EnvTypeOK
  <2> QED BY <2>1 DEF InlineInv, OnlyThread, NotStarted, Started, ThreadOf, InlineDelivery
<1>5. ASSUME NEW n \in Deliveries, ThreadStep(j, n) PROVE InlineInv(j)'
  <2>1. n = InlineDelivery /\ RequestStep(j, n)
    BY <1>5, OnlyThreadSteps, ThreadStepIsRequestStep DEF InlineInv
  <2>2. /\ api' = api
        /\ \A m \in Deliveries : m # n => reqs'[j][m] = reqs[j][m]
        /\ Answer(j, n) \/ msg' = msg
    BY <2>1, RequestFrame
  <2>3. Started(j)
    <3>1. ~NotStarted(j)
      BY <2>1, RequestCall DEF NotStarted, ThreadOf
    <3> QED BY <3>1 DEF InlineInv
  <2>4. msg'[j].state = "none"
    <3>1. msg[j].state = "none" /\ msg[j] \in Message
      BY DEF InlineInv, OnlyThread, EnvTypeOK
    <3>2. CASE Answer(j, n)
      <4>1. msg'[j] = AfterAnswer(msg[j], reqs[j][n], n)
        BY <3>2 DEF Answer, EnvTypeOK
      <4> QED BY <3>1, <4>1 DEF AfterAnswer
    <3> QED BY <2>2, <3>1, <3>2
  <2>5. OnlyThread(j)'
    BY <2>1, <2>2, <2>4 DEF InlineInv, OnlyThread, InlineDelivery
  <2>6. Running(j)' \/ jobs'[j].status \in Terminal
    BY <1>1, <1>5, <2>1, <2>3, RunningGoesOn, WaitingClaims DEF Started
  <2>7. Started(j)'
    BY <2>2, <2>3, <2>6 DEF Started
  <2> QED BY <2>5, <2>7 DEF InlineInv
<1> QED BY <1>2, <1>3, <1>4, <1>5

\* A step of the inline deployment for one job leaves the others alone.
LEMMA InlineStepFrame ==
    ASSUME StoreInv, EnvTypeOK, NEW j \in JobIds,
           \/ ApiCreate(j) \/ InlineAccept(j) \/ InlineStartRaises(j)
           \/ \E n \in Deliveries : ThreadStep(j, n),
           NEW i \in JobIds, i # j
    PROVE  Same(i)
<1>1. CASE ApiCreate(j)
  BY <1>1, ApiFrame DEF ApiStep
<1>2. CASE InlineAccept(j)
  <2>1. jobs' = jobs /\ msg' = msg /\ api'[i] = api[i]
    BY <1>2 DEF InlineAccept, Api, EnvTypeOK, vars
  <2>2. reqs'[i] = reqs[i]
    BY <1>2, PutEffect, ThreadIsLast DEF InlineAccept
  <2> QED BY <2>1, <2>2 DEF Same
<1>3. CASE InlineStartRaises(j)
  BY <1>3 DEF InlineStartRaises, Api, EnvTypeOK, vars, Same
<1>4. ASSUME NEW n \in Deliveries, ThreadStep(j, n) PROVE Same(i)
  BY <1>4, ThreadStepIsRequestStep, RequestFrame
<1> QED BY <1>1, <1>2, <1>3, <1>4

-----------------------------------------------------------------------------
(* The invariant of either deployment.                                     *)

LEMMA StartTyped ==
    ASSUME StoreInv, EnvTypeOK, NEW j \in JobIds, InlineAccept(j) \/ InlineStartRaises(j)
    PROVE  EnvTypeOK'
<1>1. CASE InlineAccept(j)
  <2>1. NewRequest("claim", 0) \in Request
    BY Deadlines DEF StoreInv
  <2>2. reqs' \in [JobIds -> [Deliveries -> Request]]
    BY <1>1, <2>1, ThreadIsLast DEF InlineAccept, Put, EnvTypeOK
  <2> QED BY <1>1, <2>2 DEF InlineAccept, Api, EnvTypeOK
<1>2. CASE InlineStartRaises(j)
  BY <1>2, FaultsAssumption DEF InlineStartRaises, Api, Fault, EnvTypeOK
<1> QED BY <1>1, <1>2

LEMMA PageBaseStep == PageBase /\ [PageNext]_pageVars => PageBase'
<1> SUFFICES ASSUME PageBase, [PageNext]_pageVars PROVE PageBase'
  OBVIOUS
<1>1. inline' = inline /\ inline \in BOOLEAN /\ [Next]_vars /\ StoreInv'
  BY PageStepKinds, PageStepIsStoreStep, StoreInvStep DEF PageBase
<1>2. page' \in [JobIds -> PageValues]
  BY DEF PageBase, PageValues, PageNext, pageVars, Deployed, Page,
         PageSubmit, PageAnswered, PageReads, PageLoses
<1>3. CASE ~inline
  <2>1. [ServiceNext]_serviceVars /\ CallInv /\ StoreInv /\ EnvTypeOK
    BY <1>3, PageStepKinds DEF PageBase
  <2>2. BaseInv'
    BY <2>1, BaseStep DEF BaseInv
  <2> QED BY <1>1, <1>2, <1>3, <2>2 DEF BaseInv, PageBase, ThreadInv
<1>4. CASE inline
  <2>1. /\ StoreInv /\ EnvTypeOK /\ DeliveriesLeft
        /\ \A i \in JobIds : InlineInv(i)
    BY <1>4 DEF PageBase, ThreadInv, InlineInv, OnlyThread, DeliveriesLeft
  <2>2. ASSUME NEW j \in JobIds,
               \/ ApiCreate(j) \/ InlineAccept(j) \/ InlineStartRaises(j)
               \/ \E n \in Deliveries : ThreadStep(j, n)
        PROVE  EnvTypeOK' /\ \A i \in JobIds : InlineInv(i)'
    <3>1. EnvTypeOK'
      <4>1. CASE InlineAccept(j) \/ InlineStartRaises(j)
        BY <2>1, <4>1, StartTyped
      <4>2. CASE ApiCreate(j) \/ \E n \in Deliveries : ThreadStep(j, n)
        <5>1. ServiceNext
          BY <4>2, ThreadStepIsRequestStep DEF ServiceNext, ApiStep
        <5> QED BY <2>1, <5>1, EnvTypeStep
      <4> QED BY <2>2, <4>1, <4>2
    <3>2. InlineInv(j)'
      BY <1>1, <2>1, <2>2, InlineInvStep
    <3>3. ASSUME NEW i \in JobIds, i # j PROVE InlineInv(i)'
      BY <2>1, <2>2, <3>3, InlineStepFrame, InlineFrame
    <3> QED BY <3>1, <3>2, <3>3
  <2>3. ASSUME ServiceTick \/ UNCHANGED serviceVars
        PROVE  EnvTypeOK' /\ \A i \in JobIds : InlineInv(i)'
    <3>1. EnvTypeOK'
      BY <2>1, <2>3, EnvTypeStep DEF ServiceNext
    <3>2. \A i \in JobIds : Same(i)
      BY <2>3 DEF ServiceTick, Tick, env, serviceVars, vars, Same
    <3> QED BY <2>1, <3>1, <3>2, InlineFrame
  <2>4. EnvTypeOK' /\ \A i \in JobIds : InlineInv(i)'
    BY <1>1, <1>4, <2>2, <2>3, PageStepKinds DEF InlineServiceStep
  <2> QED BY <1>1, <1>2, <1>4, <2>4 DEF PageBase, ThreadInv
<1> QED BY <1>1, <1>3, <1>4

LEMMA PageBaseCorrect == PageSpec => []PageBase
<1>1. PageInit => PageBase
  <2> SUFFICES ASSUME PageInit PROVE PageBase
    OBVIOUS
  <2>1. BaseInv /\ inline \in BOOLEAN /\ page \in [JobIds -> PageValues]
    BY BaseInit DEF PageInit, PageValues
  <2>2. \A j \in JobIds : InlineInv(j)
    BY ThreadIsLast DEF PageInit, ServiceInit, InlineInv, OnlyThread, NotStarted, ThreadOf, NewRequest
  <2> QED BY <2>1, <2>2 DEF PageBase, BaseInv, ThreadInv
<1> QED BY <1>1, PageBaseStep, PTL DEF PageSpec

\* Every variable of service, deployment and pages keeps its type.
THEOREM PageTypeCorrect == PageSpec => []PageTypeOK
<1>1. PageBase => PageTypeOK
  BY DEF PageBase, StoreInv, EnvTypeOK, ServiceTypeOK, PageTypeOK, PageValues
<1> QED BY <1>1, PageBaseCorrect, PTL

\* An accepted inline job is never left behind by its thread: while it is
\* live, the thread waits to claim it or owns it.
THEOREM InlineServedCorrect == PageSpec => []InlineJobIsServed
<1>1. PageBase => InlineJobIsServed
  <2> SUFFICES ASSUME PageBase, inline, NEW j \in JobIds, api[j] = "accepted",
                      jobs[j].status \in Live
               PROVE  \E n \in Deliveries : reqs[j][n].pc \in Working
    BY DEF InlineJobIsServed
  <2>1. Waiting(j) \/ Running(j)
    BY DEF PageBase, ThreadInv, InlineInv, NotStarted, Started, Live, Terminal
  <2>2. reqs[j][InlineDelivery].pc \in Working
    BY <2>1 DEF Waiting, Running, ThreadOf, Working
  <2> QED BY <2>2, ThreadIsLast
<1> QED BY <1>1, PageBaseCorrect, PTL

-----------------------------------------------------------------------------
(* What the pages show.                                                    *)

\* A submission that was turned down or broke off stays so.
LEMMA TurnedDownStays ==
    ASSUME EnvTypeOK, inline \in BOOLEAN, [PageNext]_pageVars, NEW j \in JobIds,
           api[j] \in {"refused", "crashed"}
    PROVE  api'[j] = api[j]
<1>1. ASSUME NEW i \in JobIds, ApiStep(i) \/ InlineAccept(i) \/ InlineStartRaises(i)
      PROVE  api'[j] = api[j]
  BY <1>1 DEF EnvTypeOK, ApiStep, Api, ApiCreate, ApiPublish, ApiPublishRaises, ApiCancel,
              ApiCrash, InlineAccept, InlineStartRaises
<1>2. ASSUME NEW i \in JobIds, PubSubStep(i) PROVE api'[j] = api[j]
  BY <1>2 DEF PubSubStep, Land, Push, Lapse, Duplicate
<1>3. ASSUME NEW i \in JobIds, NEW n \in Deliveries, RequestStep(i, n) PROVE api'[j] = api[j]
  BY <1>3 DEF RequestStep, WorkerClaim, WorkerClaimLost, WorkerProgress, RunnerStep, RunnerReturns,
         RunnerRaises, RunnerEnds, WorkerComplete, WorkerCompleteRaises, WorkerExcept,
         WorkerCrash, KeeperRenews, Answer, env
<1>4. CASE ServiceTick \/ UNCHANGED serviceVars
  BY <1>4 DEF ServiceTick, env, serviceVars
<1>5. CASE InlineServiceStep
  BY <1>1, <1>3, <1>5, ThreadStepIsRequestStep DEF InlineServiceStep, ApiStep
<1>6. CASE ServiceNext
  BY <1>1, <1>2, <1>3, <1>4, <1>6 DEF ServiceNext
<1> QED BY <1>4, <1>5, <1>6, PageStepKinds

\* A page that shows a dossier or an error goes on being right: whatever
\* attempts, retries and late calls do, what it was shown is not undone.
THEOREM PageTruthCorrect == PageSpec => []PageTellsTruth
<1>1. PageInit => PageTellsTruth
  BY DEF PageInit, PageTellsTruth
<1>2. PageBase /\ PageTellsTruth /\ [PageNext]_pageVars => PageTellsTruth'
  <2> SUFFICES ASSUME PageBase, PageTellsTruth, [PageNext]_pageVars, NEW j \in JobIds
               PROVE  /\ page'[j] = "shown" => jobs'[j].status = "complete"
                      /\ page'[j] = "error" =>
                            jobs'[j].status = "failed" \/ api'[j] \in {"refused", "crashed"}
    BY DEF PageTellsTruth
  <2>1. jobs[j].status \in Terminal => jobs'[j] = jobs[j]
    BY PageStepIsStoreStep, TerminalStep DEF PageBase, StoreInv
  <2>2. api[j] \in {"refused", "crashed"} => api'[j] = api[j]
    BY TurnedDownStays DEF PageBase
  <2>3. \/ page'[j] = page[j]
        \/ page'[j] \in {"posting", "polling", "lost"}
        \/ page'[j] = "shown" /\ jobs[j].status = "complete"
        \/ page'[j] = "error" /\ (jobs[j].status = "failed" \/ api[j] \in {"refused", "crashed"})
    <3>1. page \in [JobIds -> PageValues]
      BY DEF PageBase
    <3>2. ASSUME NEW i \in JobIds, NEW to, page' = [page EXCEPT ![i] = to]
          PROVE  page'[j] = page[j] \/ (i = j /\ page'[j] = to)
      BY <3>1, <3>2
    <3>3. ASSUME NEW i \in JobIds, PageSubmit(i) PROVE page'[j] \in {page[j], "posting"}
      BY <3>2, <3>3 DEF PageSubmit, Page
    <3>4. ASSUME NEW i \in JobIds, PageLoses(i) PROVE page'[j] \in {page[j], "lost"}
      BY <3>2, <3>4 DEF PageLoses, Page
    <3>5. ASSUME NEW i \in JobIds, PageAnswered(i)
          PROVE  \/ page'[j] \in {page[j], "polling"}
                 \/ page'[j] = "error" /\ api[j] \in {"refused", "crashed"}
      BY <3>2, <3>5 DEF PageAnswered, Page
    <3>6. ASSUME NEW i \in JobIds, PageReads(i)
          PROVE  \/ page'[j] = page[j]
                 \/ page'[j] = "shown" /\ jobs[j].status = "complete"
                 \/ page'[j] = "error" /\ jobs[j].status = "failed"
      BY <3>2, <3>6 DEF PageReads, Page
    <3>7. CASE UNCHANGED pageVars
      BY <3>7 DEF pageVars
    <3> QED BY <3>3, <3>4, <3>5, <3>6, <3>7 DEF PageNext, Deployed
  <2> QED BY <2>1, <2>2, <2>3 DEF PageTellsTruth, Terminal
<1> QED BY <1>1, <1>2, PageBaseCorrect, PTL DEF PageSpec
=============================================================================
