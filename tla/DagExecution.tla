---------------------------- MODULE DagExecution ----------------------------
(***************************************************************************)
(* What a run of a job graph promises, whatever the goroutines, the mutex  *)
(* and the semaphore that carry it out: a job starts when and only when    *)
(* all of its needs are satisfied, it ends once, a job that is never       *)
(* started because of a failure says so, and the run returns when nothing  *)
(* runs and nothing could, with a verdict that tells whether any job       *)
(* failed.  Module Scheduler implements this specification.                *)
(***************************************************************************)
CONSTANT Jobs

VARIABLES
  active,   \* the jobs of this run
  needs,    \* for each job, the jobs of this run that it needs
  status,   \* what has become of each job
  verdict   \* what the run returned, "none" until it does

vars == <<active, needs, status, verdict>>

(* A "tolerated" job failed but was allowed to; a "blocked" job was not    *)
(* started because one of its needs failed or was itself blocked.          *)
Satisfied == {"succeeded", "tolerated", "skipped"}
Bad == {"failed", "blocked"}
Ended == Satisfied \cup {"failed"}
Statuses == Ended \cup {"waiting", "running", "blocked"}

TypeOK ==
  /\ active \subseteq Jobs
  /\ needs \in [Jobs -> SUBSET Jobs]
  /\ status \in [Jobs -> Statuses]
  /\ verdict \in {"none", "passed", "failed"}

Waiting == {j \in active : status[j] = "waiting"}

Startable == {j \in Waiting : \A n \in needs[j] : status[n] \in Satisfied}

Init ==
  /\ active \in SUBSET Jobs
  /\ needs \in [Jobs -> SUBSET Jobs]
  /\ status = [j \in Jobs |-> "waiting"]
  /\ verdict = "none"

(* Every job that can start does, and some of those that no longer can are *)
(* marked; each of these needs a job that failed or is marked with it.     *)
Advance ==
  /\ verdict = "none"
  /\ \E B \in SUBSET (Waiting \ Startable) :
       /\ B \cup Startable # {}
       /\ \A j \in B : \E n \in needs[j] : status[n] \in Bad \/ n \in B
       /\ status' = [j \in Jobs |-> CASE j \in Startable -> "running"
                                      [] j \in B         -> "blocked"
                                      [] OTHER           -> status[j]]
  /\ UNCHANGED <<active, needs, verdict>>

End(j, how) ==
  /\ status[j] = "running"
  /\ status' = [status EXCEPT ![j] = how]
  /\ UNCHANGED <<active, needs, verdict>>

EndSomehow(j) == \E how \in Ended : End(j, how)

Return ==
  /\ verdict = "none"
  /\ \A j \in Jobs : status[j] # "running"
  /\ Startable = {}
  /\ verdict' = IF \E j \in Jobs : status[j] \in Bad THEN "failed" ELSE "passed"
  /\ UNCHANGED <<active, needs, status>>

Next ==
  \/ Advance
  \/ \E j \in Jobs : EndSomehow(j)
  \/ Return

(* What can start does, what runs ends, and the run returns.               *)
Fairness ==
  /\ WF_vars(Advance /\ Startable # {})
  /\ \A j \in Jobs : WF_vars(EndSomehow(j))
  /\ WF_vars(Return)

Spec == Init /\ [][Next]_vars
FairSpec == Spec /\ Fairness

=============================================================================
