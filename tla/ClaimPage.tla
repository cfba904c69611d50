------------------------------ MODULE ClaimPage ------------------------------
(***************************************************************************)
(* Both ways to run the service, seen from the page that submitted the     *)
(* claim.  Deployed with Pub/Sub it is ClaimService.  Deployed with        *)
(* LOCAL_INLINE_WORKER, the demo default of cloudbuild.yaml, the publisher *)
(* only records the message, and POST /claims starts a thread that serves  *)
(* the job once, as if by its last delivery; every instance then has a     *)
(* store of its own, which its end takes away.                             *)
(*                                                                         *)
(*   inline    settings.local_inline_worker, with the in-memory store      *)
(*   page[j]   what app.js does about j: it posts the claim, then reads    *)
(*             GET /claims/<j> every 1800 ms until it shows a dossier or   *)
(*             an error; "lost" is the error of an answer that did not     *)
(*             come or was not about the job                               *)
(*                                                                         *)
(* A read that finds a live job only writes a status line and is no step.  *)
(* In-memory calls do not fail, and nothing of an instance outlives it, so *)
(* the only faults of an inline job are that its thread cannot be started  *)
(* and that a renewal is in flight when its runner has ended.  That the    *)
(* instance ends, or that the other one answers, is for the page a 404,    *)
(* one more way to be lost; what becomes of the job is then unobserved.    *)
(***************************************************************************)
EXTENDS ClaimService

VARIABLES inline, page

pageVars == <<serviceVars, inline, page>>

PageInit ==
    /\ ServiceInit
    /\ inline \in BOOLEAN
    /\ page = [j \in JobIds |-> "form"]

Page(j, from, to) == page[j] = from /\ page' = [page EXCEPT ![j] = to]

-----------------------------------------------------------------------------
(* The inline worker.                                                      *)

\* Mutant: the thread serves the job as a first delivery.
InlineDeliveryFirst == 1

\* _run_inline_worker(worker, job_id, settings.max_delivery_attempts)
InlineDelivery == MaxDelivery

\* publish() appends to a list that nobody reads; the thread is started.
InlineAccept(j) ==
    /\ Api(j, "publish", "accepted")
    /\ Put(j, InlineDelivery, NewRequest("claim", 0))
    /\ UNCHANGED <<vars, msg, faults>>

\* Thread.start() raises, outside the try of create_claim.
InlineStartRaises(j) ==
    /\ Api(j, "publish", "crashed")
    /\ Fault
    /\ UNCHANGED <<vars, msg, reqs>>

\* What process() answers or raises is dropped: Answer finds no message.
InlineStep(j) ==
    \/ InlineAccept(j) \/ InlineStartRaises(j)
    \/ \E n \in Deliveries :
          \/ WorkerClaim(j, n) \/ WorkerProgress(j, n) \/ RunnerStep(j, n)
          \/ WorkerComplete(j, n) \/ WorkerExcept(j, n)
          \/ KeeperRenews(j, n) \/ Answer(j, n)

PubSubDeploymentStep(j) ==
    \/ ApiPublish(j) \/ ApiPublishRaises(j) \/ ApiCancel(j) \/ ApiCrash(j)
    \/ PubSubStep(j)
    \/ \E n \in Deliveries : RequestStep(j, n)

-----------------------------------------------------------------------------
(* The page.                                                               *)

PageSubmit(j) ==
    /\ Page(j, "form", "posting")
    /\ ApiCreate(j)
    /\ UNCHANGED inline

\* 202 with a status URL, 503, or no answer.
PageAnswered(j) ==
    /\ \/ api[j] = "accepted" /\ Page(j, "posting", "polling")
       \/ api[j] \in {"refused", "crashed"} /\ Page(j, "posting", "error")
    /\ UNCHANGED <<serviceVars, inline>>

\* Mutant: whatever is not complete is taken for a failure.
PageReadsAnyOther(j) ==
    /\ \/ jobs[j].status = "complete" /\ Page(j, "polling", "shown")
       \/ jobs[j].status # "complete" /\ Page(j, "polling", "error")
    /\ UNCHANGED <<serviceVars, inline>>

\* A read finds the job ended.
PageReads(j) ==
    /\ \/ jobs[j].status = "complete" /\ Page(j, "polling", "shown")
       \/ jobs[j].status = "failed" /\ Page(j, "polling", "error")
    /\ UNCHANGED <<serviceVars, inline>>

\* No answer to the submission, or one that is no JSON; poll() gives up after
\* one answer that is not 2xx, or none.
PageLoses(j) ==
    /\ Page(j, "posting", "lost") \/ Page(j, "polling", "lost")
    /\ UNCHANGED <<serviceVars, inline>>

-----------------------------------------------------------------------------
\* A step of the service, in either deployment.
Deployed(step) == step /\ UNCHANGED <<inline, page>>

PageNext ==
    \/ \E j \in JobIds :
          \/ PageSubmit(j)
          \/ PageAnswered(j) \/ PageReads(j) \/ PageLoses(j)
          \/ Deployed(inline /\ InlineStep(j))
          \/ Deployed(~inline /\ PubSubDeploymentStep(j))
    \/ Deployed(ServiceTick)

(***************************************************************************)
(* Fairness of ClaimService, of the thread that was started, and of a page *)
(* that stays open: it reads on until it stops by itself.                  *)
(***************************************************************************)
PageFairness ==
    /\ \A j \in JobIds :
          /\ WF_pageVars(PageAnswered(j)) /\ WF_pageVars(PageReads(j))
          /\ WF_pageVars(Deployed(inline /\ (InlineAccept(j) \/ InlineStartRaises(j))))
          /\ WF_pageVars(Deployed(~inline /\ (ApiPublish(j) \/ ApiPublishRaises(j))))
          /\ WF_pageVars(Deployed(ApiCancel(j))) /\ WF_pageVars(Deployed(Land(j)))
          /\ WF_pageVars(Deployed(Push(j))) /\ WF_pageVars(Deployed(Lapse(j)))
          /\ \A n \in Deliveries :
                /\ WF_pageVars(Deployed(WorkerClaim(j, n)))
                /\ WF_pageVars(Deployed(RunnerStep(j, n)))
                /\ WF_pageVars(Deployed(WorkerComplete(j, n)))
                /\ WF_pageVars(Deployed(WorkerExcept(j, n)))
                /\ WF_pageVars(Deployed(Answer(j, n)))
    /\ WF_pageVars(Deployed(ServiceTick))

PageSpec == PageInit /\ [][PageNext]_pageVars /\ PageFairness

-----------------------------------------------------------------------------
(* Properties.                                                             *)

\* Every variable of the service, the deployment and the page has its type.
PageTypeOK ==
    /\ ServiceTypeOK
    /\ inline \in BOOLEAN
    /\ page \in [JobIds -> {"form", "posting", "polling", "shown", "error", "lost"}]

\* An accepted inline job that is live has its thread at work on it: the
\* thread never ends, returns or is overtaken before its job is complete or
\* failed, although nobody would deliver the job again ("without leaving demo
\* capacity stuck after failures", web.py:37).
InlineJobIsServed ==
    \A j \in JobIds :
        inline /\ api[j] = "accepted" /\ jobs[j].status \in Live =>
            \E n \in Deliveries : reqs[j][n].pc \in Working

\* What the page shows stays true: a dossier only of a job that is complete,
\* an error only of a job that failed or of a submission that was turned
\* down, whatever late calls reach the store after the page stopped reading.
PageTellsTruth ==
    \A j \in JobIds :
        /\ page[j] = "shown" => jobs[j].status = "complete"
        /\ page[j] = "error" => jobs[j].status = "failed" \/ api[j] \in {"refused", "crashed"}

\* A page that submitted a claim does not wait for ever: it comes to show a
\* dossier or an error, unless a message on the dead-letter topic leaves its
\* job live.  With an inline worker, whose job nobody delivers again, this
\* rests on the one attempt counting as the last: "without leaving demo
\* capacity stuck after failures" (web.py:37).
PageLearns ==
    \A j \in JobIds :
        page[j] = "posting" ~>
            \/ page[j] \in {"shown", "error", "lost"}
            \/ msg[j].state = "dead" /\ jobs[j].status \in Live
=============================================================================
