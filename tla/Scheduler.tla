------------------------------ MODULE Scheduler ------------------------------
(***************************************************************************)
(* The job scheduler of internal/scheduler/scheduler.go: Run, launch,      *)
(* depsState, runJob and finishFailed.                                     *)
(*                                                                         *)
(* Run calls launch once and waits for the WaitGroup.  launch scans the    *)
(* jobs in definition order under s.mu; a job whose needs are satisfied    *)
(* gets a goroutine, a job one of whose needs failed is marked on the      *)
(* spot.  Every job goroutine takes a slot of the semaphore, walks through *)
(* the stages of runJob, publishes its outcome in one critical section of  *)
(* s.mu and, some time after it has released the mutex, emits its event    *)
(* and calls launch itself.  Everything between two critical sections is a *)
(* point where the other goroutines interleave.                            *)
(*                                                                         *)
(* What the steps of a job do is internal/scheduler's runSteps; here it is *)
(* an arbitrary success or failure.  A Go map[string]bool is the set of    *)
(* its true keys.                                                          *)
(***************************************************************************)
EXTENDS Integers, Sequences, FiniteSets

CONSTANTS
  Jobs,      \* the job ids that a plan may mention
  Plans,     \* the plans, with the options of Run, that a run may be given
  MaxPar     \* opts.MaxPar, the capacity of the semaphore

(* What a job's `if` may say: nothing; success() or failure(); that the    *)
(* result of a job is a given one; that a job has published an output; or  *)
(* something that does not parse.                                          *)
ConditionKinds == {"none", "success", "failure", "result", "output", "invalid"}

JobResults == {"success", "failure", "skipped"}

(* "" is a key that the map does not hold.                                 *)
Results == JobResults \cup {""}

Conditions == [kind : ConditionKinds, job : Jobs, is : JobResults]

(* A plan and the options it is run with:                                  *)
(*   jobs       the ids in dag.Nodes                                       *)
(*   pos        the position of an id in dag.Nodes (definition order)      *)
(*   needs      JobPlan.Needs, in the order written                        *)
(*   only       opts.Only (every job when it is nil)                       *)
(*   tolerant   the jobs with ContinueOnError                              *)
(*   resumable  the jobs that declare Outputs, when opts.Resume is set and *)
(*              the store is open: those that get a fingerprint            *)
(*   sidecars   the jobs with Services or an egress proxy to start         *)
(*   secrets    the jobs that require secrets                              *)
(*   writers    the jobs whose steps may write to $SHIP_OUTPUT             *)
(*   cond       JobPlan.If                                                 *)
PlanType ==
  [jobs : SUBSET Jobs, pos : [Jobs -> Nat], needs : [Jobs -> Seq(Jobs)],
   only : SUBSET Jobs, tolerant : SUBSET Jobs, resumable : SUBSET Jobs,
   sidecars : SUBSET Jobs, secrets : SUBSET Jobs, writers : SUBSET Jobs,
   cond : [Jobs -> Conditions]]

ASSUME JobsAssumption == IsFiniteSet(Jobs)
ASSUME PlansAssumption == Plans \subseteq PlanType
ASSUME MaxParAssumption == MaxPar \in Nat \ {0}

VARIABLES
  plan,        \* the plan and options Run was called with; never changes
  main,        \* where Run is; at the end, the Result it returned
  pc,          \* where the goroutine of each job is
  done,        \* s.done
  failed,      \* s.failed
  inFlight,    \* s.inFlight
  results,     \* s.results
  outputs,     \* the keys of s.jobOut
  fps,         \* the keys of s.fps
  resumed,     \* s.skipped: the jobs restored from a previous run
  anyFail,     \* s.anyFail
  canceled,    \* whether the run's context is canceled
  interrupted, \* whether the caller's context is canceled (SIGINT, ship_cancel)
  sem,         \* how many slots of s.sem are taken
  wg,          \* the counter of s.wg
  recorded,    \* the jobs that MarkJobDone has written to the store
  events       \* what the observer was told of each job, in order

outcomeVars == <<done, failed, results, outputs, fps, resumed, anyFail, canceled>>
vars == <<plan, main, pc, inFlight, interrupted, sem, wg, recorded, events, outcomeVars>>

(* The places of a job goroutine.  "idle" is before `go s.runJob`, "gone"  *)
(* is after its deferred calls.                                            *)
Setup == {"resume", "sidecars", "cond", "secrets", "begin"}
Working == Setup \cup {"steps", "record", "notify", "launch"}
Holding == Working \cup {"exit"}           \* it has a slot of the semaphore
Started == Holding \cup {"slot"}           \* it is counted in s.wg
Places == Started \cup {"idle", "gone"}

MainPlaces == {"launch", "wait", "passed", "failed"}
Returned == main \in {"passed", "failed"}

EventKinds == {"started", "ok", "resumed", "failed", "skipped"}

Live == {j \in Jobs : pc[j] \in Started}

------------------------------------------------------------------------------
(* The graph                                                               *)

(* included: the job is one that this run may execute.                     *)
Included(j) == j \in plan.only

(* The needs of a job that the run looks at.                               *)
IncludedNeeds(j) == {plan.needs[j][i] : i \in DOMAIN plan.needs[j]} \cap plan.only

(* Slip: depsState forgets to wait for a need that is not done.            *)
ReadyUnlessFailed(j) == \A n \in IncludedNeeds(j) : n \notin failed

(* depsState, first result: every need is done and none has failed.        *)
Ready(j) == \A n \in IncludedNeeds(j) : n \in done /\ n \notin failed

(* Slip: the scan looks at the state it started from, not at what it has   *)
(* marked since.                                                           *)
BlockedBySnapshot(j, marked) ==
  \E n \in IncludedNeeds(j) : n \in done \cap failed

(* depsState, second result, when the jobs of `marked` have been marked in *)
(* the same scan: the needs are taken in the order written, and the first  *)
(* that is not done, or is done and failed, decides.                       *)
Blocked(j, marked) ==
  LET need == plan.needs[j]
      Done(n) == n \in done \cup marked
      Failed(n) == n \in failed \cup marked
  IN  \E i \in DOMAIN need :
        /\ Included(need[i]) /\ Done(need[i]) /\ Failed(need[i])
        /\ \A k \in 1..(i-1) : Included(need[k]) => Done(need[k]) /\ ~Failed(need[k])

(* The jobs that a scan looks at.                                          *)
Unclaimed == {j \in plan.jobs : j \notin done /\ j \notin inFlight /\ Included(j)}

(* The jobs of B that the scan has reached before j.                       *)
Before(B, j) == {k \in B : plan.pos[k] < plan.pos[j]}

(* launch: one pass over dag.Nodes with s.mu held.  B is the set of jobs   *)
(* found blocked; whether a job is in B depends on those of B that come    *)
(* before it in the pass, never on those after it.  at is pc with the      *)
(* caller already past the call.                                           *)
Launch(at) ==
  \E B \in SUBSET Unclaimed :
    /\ \A j \in Unclaimed : j \in B <=> Blocked(j, Before(B, j))
    /\ LET S == {j \in Unclaimed \ B : Ready(j)}
       IN  /\ done' = done \cup B
           /\ failed' = failed \cup B
           /\ anyFail' = (anyFail \/ B # {})
           /\ events' = [j \in Jobs |-> IF j \in B THEN Append(events[j], "skipped")
                                                   ELSE events[j]]
           /\ inFlight' = inFlight \cup S
           /\ wg' = wg + Cardinality(S)
           /\ pc' = [j \in Jobs |-> IF j \in S THEN "slot" ELSE at[j]]
    /\ UNCHANGED <<plan, interrupted, sem, recorded, results, outputs, fps, resumed, canceled>>

------------------------------------------------------------------------------
(* The goroutine of a job                                                  *)

Goto(j, from, to) == pc[j] = from /\ pc' = [pc EXCEPT ![j] = to]

(* The stage runJob comes to next; a stage the job has nothing to do in is *)
(* passed over.                                                            *)
AfterCond(j) == IF j \in plan.secrets THEN "secrets" ELSE "begin"
AfterSidecars(j) == IF plan.cond[j].kind # "none" THEN "cond" ELSE AfterCond(j)
AfterResume(j) == IF j \in plan.sidecars THEN "sidecars" ELSE AfterSidecars(j)
AfterSlot(j) == IF j \in plan.resumable THEN "resume" ELSE AfterResume(j)

(* Slip: the job does not wait for a free slot.                            *)
TakeSlotAnyway(j) ==
  /\ Goto(j, "slot", AfterSlot(j))
  /\ sem' = sem + 1
  /\ UNCHANGED <<plan, main, inFlight, interrupted, wg, recorded, events, outcomeVars>>

(* s.sem <- struct{}{}                                                     *)
TakeSlot(j) ==
  /\ Goto(j, "slot", AfterSlot(j))
  /\ sem < MaxPar
  /\ sem' = sem + 1
  /\ UNCHANGED <<plan, main, inFlight, interrupted, wg, recorded, events, outcomeVars>>

(* Slip: the resumed job is not marked done.                               *)
ResumeWithoutDone(j) ==
  /\ Goto(j, "resume", "notify")
  /\ fps' = fps \cup {j}
  /\ resumed' = resumed \cup {j}
  /\ UNCHANGED <<plan, main, inFlight, interrupted, sem, wg, recorded, events,
                 done, failed, results, outputs, anyFail, canceled>>

(* The fingerprint of the job is that of an earlier success: its outputs   *)
(* are restored and the job is done, with no entry in s.results or         *)
(* s.jobOut.                                                               *)
ResumeHit(j) ==
  /\ Goto(j, "resume", "notify")
  /\ fps' = fps \cup {j}
  /\ done' = done \cup {j}
  /\ resumed' = resumed \cup {j}
  /\ UNCHANGED <<plan, main, inFlight, interrupted, sem, wg, recorded, events,
                 failed, results, outputs, anyFail, canceled>>

ResumeMiss(j) ==
  /\ Goto(j, "resume", AfterResume(j))
  /\ UNCHANGED <<plan, main, inFlight, interrupted, sem, wg, recorded, events, outcomeVars>>

(* Slip: the failure does not cancel the run.                              *)
FinishFailedQuietly(j) ==
  /\ pc' = [pc EXCEPT ![j] = "notify"]
  /\ done' = done \cup {j}
  /\ failed' = failed \cup {j}
  /\ results' = [results EXCEPT ![j] = "failure"]
  /\ anyFail' = TRUE
  /\ UNCHANGED <<plan, main, inFlight, interrupted, sem, wg, recorded, events,
                 outputs, fps, resumed, canceled>>

(* The critical section of finishFailed.                                   *)
FinishFailed(j) ==
  /\ pc' = [pc EXCEPT ![j] = "notify"]
  /\ done' = done \cup {j}
  /\ failed' = failed \cup {j}
  /\ results' = [results EXCEPT ![j] = "failure"]
  /\ anyFail' = TRUE
  /\ canceled' = TRUE
  /\ UNCHANGED <<plan, main, inFlight, interrupted, sem, wg, recorded, events,
                 outputs, fps, resumed>>

(* Sidecar services and the egress proxy start ...                         *)
SidecarsUp(j) ==
  /\ Goto(j, "sidecars", AfterSidecars(j))
  /\ UNCHANGED <<plan, main, inFlight, interrupted, sem, wg, recorded, events, outcomeVars>>

(* ... or one of them does not.                                            *)
SidecarsFail(j) == pc[j] = "sidecars" /\ FinishFailed(j)

(* evalIf: the value of a well-formed condition, on a snapshot of the      *)
(* scheduler's state.                                                      *)
Holds(c) ==
  \/ c.kind = "success" /\ ~anyFail
  \/ c.kind = "failure" /\ anyFail
  \/ c.kind = "result" /\ results[c.job] = c.is
  \/ c.kind = "output" /\ c.job \in outputs

CondTrue(j) ==
  /\ Goto(j, "cond", AfterCond(j))
  /\ Holds(plan.cond[j])
  /\ UNCHANGED <<plan, main, inFlight, interrupted, sem, wg, recorded, events, outcomeVars>>

(* Slip: the skipped job returns without calling launch.                   *)
SkipWithoutLaunch(j) ==
  /\ Goto(j, "cond", "exit")
  /\ plan.cond[j].kind # "invalid" /\ ~Holds(plan.cond[j])
  /\ done' = done \cup {j}
  /\ results' = [results EXCEPT ![j] = "skipped"]
  /\ UNCHANGED <<plan, main, inFlight, interrupted, sem, wg, recorded, events,
                 failed, outputs, fps, resumed, anyFail, canceled>>

(* A job that is skipped counts as satisfied: done and not failed.  evalIf *)
(* has released s.mu when runJob takes it again, but no other goroutine    *)
(* writes this job's entries.                                              *)
CondFalse(j) ==
  /\ Goto(j, "cond", "notify")
  /\ plan.cond[j].kind # "invalid"
  /\ ~Holds(plan.cond[j])
  /\ done' = done \cup {j}
  /\ results' = [results EXCEPT ![j] = "skipped"]
  /\ UNCHANGED <<plan, main, inFlight, interrupted, sem, wg, recorded, events,
                 failed, outputs, fps, resumed, anyFail, canceled>>

CondInvalid(j) ==
  /\ pc[j] = "cond"
  /\ plan.cond[j].kind = "invalid"
  /\ FinishFailed(j)

SecretsFound(j) ==
  /\ Goto(j, "secrets", "begin")
  /\ UNCHANGED <<plan, main, inFlight, interrupted, sem, wg, recorded, events, outcomeVars>>

SecretMissing(j) == pc[j] = "secrets" /\ FinishFailed(j)

(* The environment of the steps is put together (UpstreamFrozen says that  *)
(* what it reads is settled) and JobStarted is emitted.                    *)
BeginSteps(j) ==
  /\ Goto(j, "begin", "steps")
  /\ events' = [events EXCEPT ![j] = Append(@, "started")]
  /\ UNCHANGED <<plan, main, inFlight, interrupted, sem, wg, recorded, outcomeVars>>

(* runSteps returns and the critical section that follows it publishes the *)
(* outcome.  ok is ~jobFailed; captured, whether $SHIP_OUTPUT had a value. *)
(* A failure is fatal unless the job is marked ContinueOnError.  A         *)
(* resumable job has no fingerprint when its inputs could not be hashed.   *)
FinishSteps(j, ok, captured) ==
  LET fatal == ~ok /\ j \notin plan.tolerant
  IN  /\ Goto(j, "steps", IF ok THEN "record" ELSE "notify")
      /\ done' = done \cup {j}
      /\ fps' \in IF j \in plan.resumable THEN {fps, fps \cup {j}} ELSE {fps}
      /\ outputs' = IF captured THEN outputs \cup {j} ELSE outputs
      /\ results' = [results EXCEPT ![j] = IF ok THEN "success" ELSE "failure"]
      /\ failed' = IF fatal THEN failed \cup {j} ELSE failed
      /\ anyFail' = (anyFail \/ fatal)
      /\ canceled' = (canceled \/ fatal)
      /\ UNCHANGED <<plan, main, inFlight, interrupted, sem, wg, recorded, events, resumed>>

(* Whether $SHIP_OUTPUT may hold something when the steps are over.        *)
Captures(j) == IF j \in plan.writers THEN BOOLEAN ELSE {FALSE}

(* Slip: an error of MarkJobDone, no longer ignored, fails the job.        *)
RecordOrFail(j) ==
  /\ Goto(j, "record", "notify")
  /\ \/ /\ recorded' = IF j \in fps THEN recorded \cup {j} ELSE recorded
        /\ UNCHANGED <<failed, anyFail, canceled>>
     \/ /\ j \in fps
        /\ failed' = failed \cup {j} /\ anyFail' = TRUE /\ canceled' = TRUE
        /\ UNCHANGED recorded
  /\ UNCHANGED <<plan, main, inFlight, interrupted, sem, wg, events,
                 done, results, outputs, fps, resumed>>

(* MarkJobDone for a job with a fingerprint, whose error is ignored; then  *)
(* cleanAfter.  s.mu is not held: dependents may be running already.       *)
Record(j) ==
  /\ Goto(j, "record", "notify")
  /\ recorded' \in IF j \in fps THEN {recorded, recorded \cup {j}} ELSE {recorded}
  /\ UNCHANGED <<plan, main, inFlight, interrupted, sem, wg, events, outcomeVars>>

(* Slip: the event reports jobFatal where it should report jobFailed.      *)
FinalEventOfFatal(j) ==
  CASE j \in resumed            -> "resumed"
    [] results[j] = "skipped"   -> "skipped"
    [] j \in failed             -> "failed"
    [] OTHER                    -> "ok"

(* The event that ends a job whose goroutine ran.                          *)
FinalEvent(j) ==
  CASE j \in resumed            -> "resumed"
    [] results[j] = "skipped"   -> "skipped"
    [] results[j] = "failure"   -> "failed"
    [] OTHER                    -> "ok"

Notify(j) ==
  /\ Goto(j, "notify", "launch")
  /\ events' = [events EXCEPT ![j] = Append(@, FinalEvent(j))]
  /\ UNCHANGED <<plan, main, inFlight, interrupted, sem, wg, recorded, outcomeVars>>

(* The call of launch that ends every path of runJob.                      *)
LaunchNext(j) ==
  /\ pc[j] = "launch"
  /\ Launch([pc EXCEPT ![j] = "exit"])
  /\ UNCHANGED main

(* Slip: the slot is not given back.                                       *)
ExitWithSlot(j) ==
  /\ Goto(j, "exit", "gone")
  /\ wg' = wg - 1
  /\ UNCHANGED <<plan, main, inFlight, interrupted, sem, recorded, events, outcomeVars>>

(* The deferred calls: the slot is given back, then wg.Done.               *)
Exit(j) ==
  /\ Goto(j, "exit", "gone")
  /\ sem' = sem - 1
  /\ wg' = wg - 1
  /\ UNCHANGED <<plan, main, inFlight, interrupted, recorded, events, outcomeVars>>

RunJob(j) ==
  \/ TakeSlot(j)
  \/ ResumeHit(j) \/ ResumeMiss(j)
  \/ SidecarsUp(j) \/ SidecarsFail(j)
  \/ CondTrue(j) \/ CondFalse(j) \/ CondInvalid(j)
  \/ SecretsFound(j) \/ SecretMissing(j)
  \/ BeginSteps(j)
  \/ \E ok \in BOOLEAN, captured \in Captures(j) : FinishSteps(j, ok, captured)
  \/ Record(j)
  \/ Notify(j)
  \/ LaunchNext(j)
  \/ Exit(j)

------------------------------------------------------------------------------
(* Run                                                                     *)

Init ==
  /\ plan \in Plans
  /\ main = "launch"
  /\ pc = [j \in Jobs |-> "idle"]
  /\ done = {} /\ failed = {} /\ inFlight = {}
  /\ results = [j \in Jobs |-> ""]
  /\ outputs = {} /\ fps = {} /\ resumed = {} /\ recorded = {}
  /\ anyFail = FALSE /\ canceled = FALSE /\ interrupted = FALSE
  /\ sem = 0 /\ wg = 0
  /\ events = [j \in Jobs |-> <<>>]

LaunchFirst ==
  /\ main = "launch"
  /\ main' = "wait"
  /\ Launch(pc)

(* Slip: the verdict is read from s.results, where a tolerated failure is  *)
(* a failure.                                                              *)
ReturnByResults ==
  /\ main = "wait"
  /\ wg = 0
  /\ main' = IF \E j \in Jobs : results[j] = "failure" THEN "failed" ELSE "passed"
  /\ UNCHANGED <<plan, pc, inFlight, interrupted, sem, wg, recorded, events, outcomeVars>>

(* s.wg.Wait() returns, and Run with it.                                   *)
Return ==
  /\ main = "wait"
  /\ wg = 0
  /\ main' = IF anyFail THEN "failed" ELSE "passed"
  /\ UNCHANGED <<plan, pc, inFlight, interrupted, sem, wg, recorded, events, outcomeVars>>

(* The caller's context is canceled.  It stops no goroutine: it only makes *)
(* steps fail, which they may do anyway.                                   *)
Interrupt ==
  /\ ~Returned /\ ~interrupted
  /\ interrupted' = TRUE
  /\ canceled' = TRUE
  /\ UNCHANGED <<plan, main, pc, inFlight, sem, wg, recorded, events,
                 done, failed, results, outputs, fps, resumed, anyFail>>

(* The run is over.                                                        *)
Over == Returned /\ UNCHANGED vars

Next ==
  \/ LaunchFirst
  \/ \E j \in Jobs : RunJob(j)
  \/ Return
  \/ Interrupt
  \/ Over

(* The Go scheduler runs every goroutine that can run, and a step of a job *)
(* is assumed to come to an end.  Nothing makes a user interrupt a run.    *)
Fairness ==
  /\ WF_vars(LaunchFirst)
  /\ WF_vars(Return)
  /\ \A j \in Jobs : WF_vars(RunJob(j))

Spec == Init /\ [][Next]_vars
FairSpec == Spec /\ Fairness

------------------------------------------------------------------------------
(* Properties                                                              *)

TypeOK ==
  /\ plan \in Plans
  /\ main \in MainPlaces
  /\ pc \in [Jobs -> Places]
  /\ done \subseteq Jobs /\ failed \subseteq done /\ inFlight \subseteq Jobs
  /\ results \in [Jobs -> Results]
  /\ outputs \subseteq done /\ fps \subseteq done
  /\ resumed \subseteq done /\ recorded \subseteq done
  /\ anyFail \in BOOLEAN /\ canceled \in BOOLEAN /\ interrupted \in BOOLEAN
  /\ sem \in Int /\ wg \in Int
  /\ events \in [Jobs -> Seq(EventKinds)]

(* A job is started only when every included need is done and has not      *)
(* failed, and that stays so for as long as the job is around: no other    *)
(* goroutine un-finishes or fails an upstream job under a running one.     *)
NeedsSatisfied ==
  \A j \in inFlight : \A n \in IncludedNeeds(j) : n \in done /\ n \notin failed

(* No wakeup is lost between a goroutine that publishes its outcome and    *)
(* the launch it calls after unlocking: while a job could start, launch is *)
(* still to be called by someone.                                          *)
NoLostWakeup ==
  \A j \in Unclaimed :
    Ready(j) => main = "launch" \/ \E k \in Jobs : pc[k] \in Working

(* The semaphore and the WaitGroup count what they stand for on every path *)
(* through runJob, early returns included: no slot leaks, at most MaxPar   *)
(* jobs execute, and Run waits for every goroutine it has started.         *)
SlotsAccounted ==
  /\ sem = Cardinality({j \in Jobs : pc[j] \in Holding})
  /\ wg = Cardinality(Live)
  /\ sem <= MaxPar

(* Fail-fast and the verdict rest on the same facts: some job failed       *)
(* exactly if anyFail says so; a failure has canceled the run's context;   *)
(* and nothing but a failure or the caller cancels it, so a failure that   *)
(* ContinueOnError tolerates disturbs no sibling.                          *)
FailFast ==
  /\ anyFail <=> failed # {}
  /\ canceled <=> anyFail \/ interrupted

(* What the `if` of a job can read of its needs is there when the job gets *)
(* to read it: every included need has a result, unless it was resumed.    *)
ResultsVisible ==
  \A j \in Jobs : pc[j] \in Holding =>
    \A n \in IncludedNeeds(j) : results[n] # "" \/ n \in resumed

(* The observer (terminal UI, notifier, MCP status) gets at most one final *)
(* event of a job, and when Run returns it has one for every job that is   *)
(* done, in accord with the outcome the scheduler settled on.              *)
FinalEvents == EventKinds \ {"started"}
ObserverAgrees ==
  /\ \A j \in Jobs : \A i \in DOMAIN events[j] :
       events[j][i] \in FinalEvents => i = Len(events[j])
  /\ Returned => \A j \in Jobs :
       /\ j \in done <=> events[j] # <<>> /\ events[j][Len(events[j])] \in FinalEvents
       /\ j \in done => LET last == events[j][Len(events[j])] IN
            /\ last = "failed" <=> results[j] = "failure"
            /\ last = "ok" <=> results[j] = "success"
            /\ last = "ok" => events[j][1] = "started"

(* In a plan whose jobs are defined after their needs, no job is left over *)
(* when Run returns: each has run, was resumed, or was marked as skipped.  *)
DefinedAfterNeeds ==
  \A j \in plan.jobs : \A n \in IncludedNeeds(j) :
    n \in plan.jobs /\ plan.pos[n] < plan.pos[j]

AllSettled ==
  Returned /\ DefinedAfterNeeds => plan.jobs \cap plan.only \subseteq done

(* The outcome of a job is published once, in one piece: no later step     *)
(* changes any part of it.                                                 *)
OutcomesFinal ==
  [][/\ inFlight \subseteq inFlight'
     /\ \A j \in done :
          /\ j \in done'
          /\ results'[j] = results[j]
          /\ j \in failed' <=> j \in failed
          /\ j \in outputs' <=> j \in outputs
          /\ j \in fps' <=> j \in fps
          /\ j \in resumed' <=> j \in resumed]_vars

(* Everything a job may read of its needs, at whatever stage (their        *)
(* fingerprints, results and outputs), is settled before the job starts,   *)
(* so reading it piecemeal in several critical sections is safe.           *)
UpstreamFrozen ==
  [][\A j \in Live : \A n \in IncludedNeeds(j) :
       /\ results'[n] = results[n]
       /\ n \in outputs' <=> n \in outputs
       /\ n \in fps' <=> n \in fps]_vars

(* What the documents promise and the code does not do.  SPEC 6.1: jobs    *)
(* whose dependency failed are marked skipped; launch makes one pass, so a *)
(* job that is defined before its blocked dependency is left as it is.     *)
BlockedAreSkipped ==
  Returned => \A j \in plan.jobs \cap plan.only :
    (\E n \in IncludedNeeds(j) : n \in failed) => j \in done

(* The comment on s.results: a job has "success", "failure" or "skipped";  *)
(* a resumed job never gets one, so `needs.<job>.result` reads as empty.   *)
ResultsRecorded ==
  \A j \in Jobs : pc[j] \in Holding =>
    \A n \in IncludedNeeds(j) : results[n] \in JobResults

(* SPEC 6.6: a failing job marked ContinueOnError does not fail the run;   *)
(* finishFailed does not look at the mark.                                 *)
TolerantNeverFatal == plan.tolerant \cap inFlight \cap failed = {}

(* Every run comes to its end: no deadlock on the semaphore or the         *)
(* WaitGroup, no goroutine that waits for one not yet started.             *)
Termination == <>Returned

------------------------------------------------------------------------------
(* What a run promises, in terms of this module's state.                   *)

Status(j) ==
  CASE j \notin done /\ j \notin inFlight -> "waiting"
    [] j \notin done /\ j \in inFlight    -> "running"
    [] j \in failed /\ j \in inFlight     -> "failed"
    [] j \in failed /\ j \notin inFlight  -> "blocked"
    [] j \in done \ failed /\ results[j] = "skipped" -> "skipped"
    [] j \in done \ failed /\ results[j] = "failure" -> "tolerated"
    [] OTHER -> "succeeded"

Abstract == INSTANCE DagExecution WITH
  active  <- plan.jobs \cap plan.only,
  needs   <- [j \in Jobs |-> IncludedNeeds(j)],
  status  <- [j \in Jobs |-> Status(j)],
  verdict <- IF Returned THEN main ELSE "none"

(* The scheduler implements the abstract execution of a job graph.         *)
ImplementsDagExecution == Abstract!FairSpec

==============================================================================
