---------------------------- MODULE JobLifecycle ----------------------------
(***************************************************************************)
(* What a job store promises, without leases, clocks or counters.          *)
(*                                                                         *)
(* A job is submitted on some UTC day, is started by numbered attempts,    *)
(* may be sent back to the queue, and ends exactly once: finished with the *)
(* dossier of the attempt that was current, or failed.  Capacity is stated *)
(* over SETS of jobs: how many jobs of a day are still open, and how many  *)
(* were submitted that day.  The stores keep two integers per day instead, *)
(* and have to keep them equal to these cardinalities.                     *)
(***************************************************************************)
EXTENDS Naturals, FiniteSets

CONSTANTS
    JobIds,     \* identities a job can be given
    Days,       \* the UTC days of the run
    MaxActive,  \* open jobs of one day, at most
    MaxDaily    \* jobs submitted on one day, at most

VARIABLES
    phase,      \* phase[j]: missing, queued, running, complete or failed
    attempt,    \* attempt[j]: the newest attempt, 0 before the first
    result,     \* result[j]: the attempt whose dossier is the answer, 0 if none
    day,        \* day[j]: the day the job was submitted
    today       \* the current UTC day

vars == <<phase, attempt, result, day, today>>

Terminal == {"complete", "failed"}
Open == {"queued", "running"}

OpenJobs(d) == {j \in JobIds : phase[j] \in Open /\ day[j] = d}
Submitted(d) == {j \in JobIds : phase[j] # "missing" /\ day[j] = d}

Init ==
    /\ phase = [j \in JobIds |-> "missing"]
    /\ attempt = [j \in JobIds |-> 0]
    /\ result = [j \in JobIds |-> 0]
    /\ day = [j \in JobIds |-> 0]
    /\ today \in Days

\* A job is booked on a day that has begun: the Firestore adapter reads the
\* clock before its transaction and may commit after midnight.
Submit(j, d) ==
    /\ phase[j] = "missing"
    /\ d <= today
    /\ Cardinality(OpenJobs(d)) < MaxActive
    /\ Cardinality(Submitted(d)) < MaxDaily
    /\ phase' = [phase EXCEPT ![j] = "queued"]
    /\ day' = [day EXCEPT ![j] = d]
    /\ UNCHANGED <<attempt, result, today>>

Start(j) ==
    /\ phase[j] \in Open
    /\ phase' = [phase EXCEPT ![j] = "running"]
    /\ attempt' = [attempt EXCEPT ![j] = @ + 1]
    /\ UNCHANGED <<result, day, today>>

Requeue(j) ==
    /\ phase[j] = "running"
    /\ phase' = [phase EXCEPT ![j] = "queued"]
    /\ UNCHANGED <<attempt, result, day, today>>

Finish(j) ==
    /\ phase[j] = "running"
    /\ phase' = [phase EXCEPT ![j] = "complete"]
    /\ result' = [result EXCEPT ![j] = attempt[j]]
    /\ UNCHANGED <<attempt, day, today>>

GiveUp(j) ==
    /\ phase[j] \in Open
    /\ phase' = [phase EXCEPT ![j] = "failed"]
    /\ UNCHANGED <<attempt, result, day, today>>

NewDay ==
    /\ today' \in Days
    /\ today' > today
    /\ UNCHANGED <<phase, attempt, result, day>>

Next ==
    \/ \E j \in JobIds :
          \/ \E d \in Days : Submit(j, d)
          \/ Start(j) \/ Requeue(j) \/ Finish(j) \/ GiveUp(j)
    \/ NewDay

Spec == Init /\ [][Next]_vars
=============================================================================
