------------------------------ MODULE JobSteps ------------------------------
(***************************************************************************)
(* The steps of one job: runSteps, runJobStep, execStep and runStep of     *)
(* internal/scheduler/scheduler.go, from the call of runSteps in runJob to *)
(* its return.                                                             *)
(*                                                                         *)
(* Without step needs the steps run one after the other in the goroutine   *)
(* of the job, called Job here; with needs, every step has a goroutine of  *)
(* its own, and the goroutine that ends a step calls launch for the next.  *)
(* A step that fails runs its onFailure handlers, which are steps that may *)
(* fail and have handlers themselves: each goroutine has a stack of lists  *)
(* of steps.  Meanwhile the job's deadline may pass, and the run may be    *)
(* canceled by the failure of another job or by the user.                  *)
(***************************************************************************)
EXTENDS Naturals, Sequences, FiniteSets, Functions

CONSTANTS
  Steps,     \* the ids of steps, handlers included
  Job,       \* the goroutine of the job
  None,      \* no step
  Plans,     \* the jobs that may be run
  MaxRetries \* bound on StepPlan.Retries

ConditionKinds == {"none", "success", "failure", "output", "invalid"}

(* What runSteps depends on:                                               *)
(*   order      job.Steps                                                  *)
(*   needs      StepPlan.Needs, in the order written                       *)
(*   handlers   StepPlan.OnFailure                                         *)
(*   tolerant   the steps with ContinueOnError                             *)
(*   retries    StepPlan.Retries                                           *)
(*   patient    the steps with a RetryBackoffSec                           *)
(*   timed      the steps with a TimeoutSec                                *)
(*   cached     the steps with a Cache, when the store is open             *)
(*   writers    the steps that may write to $SHIP_OUTPUT                   *)
(*   cond       StepPlan.If ("output": that outputs.self has a value)      *)
(*   deadline   whether the job has a TimeoutSec                           *)
(*   container  whether the job runs in a container                        *)
PlanType ==
  [order : Seq(Steps), needs : [Steps -> Seq(Steps)], handlers : [Steps -> Seq(Steps)],
   tolerant : SUBSET Steps, retries : [Steps -> 0..MaxRetries], patient : SUBSET Steps,
   timed : SUBSET Steps, cached : SUBSET Steps, writers : SUBSET Steps,
   cond : [Steps -> ConditionKinds], deadline : BOOLEAN, container : BOOLEAN]

ASSUME StepsAssumption == IsFiniteSet(Steps) /\ Job \notin Steps /\ None \notin Steps
ASSUME PlansAssumption == MaxRetries \in Nat /\ Plans \subseteq PlanType

(* A StepPlan is a value in one list, that of the job or that of the step  *)
(* it is a handler of: the steps of a job are a forest.  (That the steps   *)
(* of a DAG have different names, by which runStepsDAG knows them, is not  *)
(* checked by the validator; here they do.)                                *)
ASSUME NestingAssumption ==
  \A p \in Plans :
    /\ IsInjective(p.order)
    /\ \A s \in Steps : IsInjective(p.handlers[s])
    /\ \A s \in Steps : Range(p.handlers[s]) \cap Range(p.order) = {}
    /\ \A s, t \in Steps : s # t => Range(p.handlers[s]) \cap Range(p.handlers[t]) = {}

VARIABLES
  plan,      \* the job; never changes
  main,      \* where runSteps is; at the end, what it has returned
  stack,     \* for each goroutine, the lists of steps it is in, innermost last
  outcome,   \* what runJobStep returned for a step, "" until it does
  claimed,   \* runStepsDAG's claimed ...
  finished,  \* ... finished
  failed,    \* ... and failed
  jobFailed, \* what runSteps is going to return
  relaunch,  \* the goroutines that have ended their step and are to call launch
  file,      \* the last step that wrote to $SHIP_OUTPUT
  captured,  \* the step whose value is in sc.captured
  stored,    \* the steps whose results the cache store has
  jobFail,   \* s.jobFail: the step it names, and the kind of failure
  ran,       \* how often the command of a step was run ...
  late,      \* ... and how often it ended after the job's context had
  shown,     \* the last event of a step
  cut,       \* the steps whose last attempt was ended by a deadline
  jobErr,    \* the error of the job's context, "" while it has none
  anyFail    \* s.anyFail, set by other jobs

dagVars == <<claimed, finished, failed, relaunch>>
dataVars == <<file, captured, stored>>
reportVars == <<jobFail, ran, late, shown, cut>>
contextVars == <<jobErr, anyFail>>
vars == <<plan, main, stack, outcome, jobFailed, dagVars, dataVars, reportVars, contextVars>>

Goroutines == Steps \cup {Job}
TopLevel == Range(plan.order)
Over == main \in {"passed", "failed"}

(* hasDeps of runSteps: some step has needs.                               *)
HasNeeds == \E s \in TopLevel : plan.needs[s] # <<>>

------------------------------------------------------------------------------
(* A goroutine is in a list of steps, at a place in the treatment of the   *)
(* first one: at the head of the loop ("next"), before its condition       *)
(* ("if"), before the cache is looked at ("start"), while the command runs *)
(* ("run"), after it ("judge"), in the delay before a retry ("backoff"),   *)
(* in captureOutputs ("parse", "merge") and after execStep ("after"), or   *)
(* back from the handlers ("return").  err is the error of the last        *)
(* attempt; seen, what captureOutputs has read.                            *)
PlaceNames ==
  {"next", "if", "start", "run", "judge", "backoff", "parse", "merge", "after", "return"}
ErrorNames == {"ok", "exit", "deadline", "canceled"}

Enter(steps, place) == [todo |-> steps, at |-> place, tries |-> 0, err |-> "ok", seen |-> None]

Top(g) == stack[g][Len(stack[g])]
At(g, place) == stack[g] # <<>> /\ Top(g).at = place
InHand(g) == Head(Top(g).todo)
With(g, frame) == [stack EXCEPT ![g][Len(stack[g])] = frame]
Goto(g, place) == stack' = With(g, [Top(g) EXCEPT !.at = place])

(* runStepsSequential returns: to runSteps, or to the runJobStep whose     *)
(* handlers these were, which does not look at the result.                 *)
ListReturns(g, bad) ==
  IF Len(stack[g]) = 1
  THEN stack' = [stack EXCEPT ![g] = <<>>] /\ jobFailed' = bad
  ELSE stack' = [stack EXCEPT ![g] = SubSeq(@, 1, Len(@) - 1)] /\ UNCHANGED jobFailed

(* The goroutine of a step of the DAG: the critical section after          *)
(* runJobStep has returned.                                                *)
GoroutineEnds(g, result) ==
  /\ stack' = [stack EXCEPT ![g] = <<>>]
  /\ finished' = finished \cup {g}
  /\ failed' = IF result = "failed" THEN failed \cup {g} ELSE failed
  /\ jobFailed' = (jobFailed \/ result = "failed")
  /\ relaunch' = relaunch \cup {g}
  /\ UNCHANGED claimed

(* runJobStep returns: "failed" is (stepFailed, true), "tolerated" is      *)
(* (stepFailed, false).                                                    *)
StepReturns(g, result) ==
  /\ outcome' = [outcome EXCEPT ![InHand(g)] = result]
  /\ IF g # Job /\ Len(stack[g]) = 1
     THEN GoroutineEnds(g, result)
     ELSE /\ IF result = "failed"
             THEN ListReturns(g, TRUE)
             ELSE stack' = With(g, Enter(Tail(Top(g).todo), "next")) /\ UNCHANGED jobFailed
          /\ UNCHANGED dagVars

------------------------------------------------------------------------------
(* runStepsSequential                                                      *)

StartSequential ==
  /\ main = "start" /\ ~HasNeeds
  /\ main' = "wait"
  /\ stack' = [stack EXCEPT ![Job] = <<Enter(plan.order, "next")>>]
  /\ UNCHANGED <<plan, outcome, jobFailed, dagVars, dataVars, reportVars, contextVars>>

NextStep(g) ==
  /\ At(g, "next")
  /\ IF Top(g).todo = <<>> THEN ListReturns(g, FALSE) ELSE Goto(g, "if") /\ UNCHANGED jobFailed
  /\ UNCHANGED <<plan, main, outcome, dagVars, dataVars, reportVars, contextVars>>

------------------------------------------------------------------------------
(* runStepsDAG                                                             *)

(* Slip: one need that has ended well is enough.                           *)
ReadyOnFirst(s) == plan.needs[s] = <<>> \/ \E i \in DOMAIN plan.needs[s] :
  plan.needs[s][i] \in finished /\ plan.needs[s][i] \notin failed

(* depsOK, when the steps of `marked` have been marked in the same scan.   *)
Ready(s) == \A i \in DOMAIN plan.needs[s] :
  plan.needs[s][i] \in finished /\ plan.needs[s][i] \notin failed
Blocked(s, marked) ==
  LET need == plan.needs[s]
  IN  \E i \in DOMAIN need :
        /\ need[i] \in failed \cup marked
        /\ \A k \in 1..(i-1) : need[k] \in finished \ failed /\ need[k] \notin marked

(* The place of a step in job.Steps.                                       *)
Position(s) == CHOOSE i \in DOMAIN plan.order :
  plan.order[i] = s /\ \A k \in 1..(i-1) : plan.order[k] # s

(* launch: one pass over the steps under mu.                               *)
Launch ==
  \E B \in SUBSET (TopLevel \ claimed) :
    /\ \A s \in TopLevel \ claimed :
         s \in B <=> Blocked(s, {r \in B : Position(r) < Position(s)})
    /\ LET S == {s \in TopLevel \ (claimed \cup B) : Ready(s)}
       IN  /\ claimed' = claimed \cup B \cup S
           /\ stack' = [g \in Goroutines |-> IF g \in S THEN <<Enter(<<g>>, "if")>> ELSE stack[g]]
    /\ finished' = finished \cup B
    /\ failed' = failed \cup B
    /\ jobFailed' = (jobFailed \/ B # {})

StartDAG ==
  /\ main = "start" /\ HasNeeds
  /\ main' = "wait"
  /\ Launch
  /\ UNCHANGED <<plan, outcome, relaunch, dataVars, reportVars, contextVars>>

Relaunch(g) ==
  /\ g \in relaunch
  /\ relaunch' = relaunch \ {g}
  /\ Launch
  /\ UNCHANGED <<plan, main, outcome, dataVars, reportVars, contextVars>>

(* runSteps returns: the list is done with, or wg.Wait() returns, because  *)
(* every goroutine is past its call of launch.                             *)
Return ==
  /\ main = "wait"
  /\ relaunch = {} /\ \A g \in Goroutines : stack[g] = <<>>
  /\ main' = IF jobFailed THEN "failed" ELSE "passed"
  /\ UNCHANGED <<plan, stack, outcome, jobFailed, dagVars, dataVars, reportVars, contextVars>>

------------------------------------------------------------------------------
(* runJobStep: the condition                                               *)

(* evalIf for a step.  success() and failure() are about the other jobs.   *)
Holds(c) ==
  \/ c = "none"
  \/ c = "success" /\ ~anyFail
  \/ c = "failure" /\ anyFail
  \/ c = "output" /\ captured # None

IfTrue(g) ==
  /\ At(g, "if") /\ Holds(plan.cond[InHand(g)])
  /\ Goto(g, "start")
  /\ UNCHANGED <<plan, main, outcome, jobFailed, dagVars, dataVars, reportVars, contextVars>>

(* A false condition skips the step, one that does not parse fails it.     *)
IfFalse(g) ==
  LET condition == plan.cond[InHand(g)]
  IN  /\ At(g, "if") /\ ~Holds(condition)
      /\ StepReturns(g, IF condition = "invalid" THEN "failed" ELSE "skipped")
      /\ UNCHANGED <<plan, main, dataVars, reportVars, contextVars>>

------------------------------------------------------------------------------
(* execStep and runStep: the cache and the attempts                        *)

(* The result of the step is in the store: it is restored, whatever        *)
(* becomes of that, and the command is not run.                            *)
CacheHit(g) ==
  /\ At(g, "start") /\ InHand(g) \in plan.cached \cap stored
  /\ shown' = [shown EXCEPT ![InHand(g)] = "cached"]
  /\ Goto(g, "parse")
  /\ UNCHANGED <<plan, main, outcome, jobFailed, dagVars, dataVars, jobFail, ran, late, cut, contextVars>>

(* It is not, or the step has no cache, or its inputs cannot be hashed.    *)
FirstAttempt(g) ==
  /\ At(g, "start")
  /\ shown' = [shown EXCEPT ![InHand(g)] = "started"]
  /\ stack' = With(g, [Top(g) EXCEPT !.at = "run", !.tries = 1])
  /\ UNCHANGED <<plan, main, outcome, jobFailed, dagVars, dataVars, jobFail, ran, late, cut, contextVars>>

(* The command appends a value to the file of $SHIP_OUTPUT, which all the  *)
(* steps of the job share.                                                 *)
Write(g) ==
  /\ At(g, "run") /\ InHand(g) \in plan.writers
  /\ file' = InHand(g)
  /\ UNCHANGED <<plan, main, stack, outcome, jobFailed, dagVars, captured, stored, reportVars, contextVars>>

(* run.Run returns with an error, or "ok"; cause is what ended the command.*)
AttemptEnds(g, cause, err) ==
  /\ At(g, "run")
  /\ stack' = With(g, [Top(g) EXCEPT !.at = "judge", !.err = err])
  /\ ran' = [ran EXCEPT ![InHand(g)] = @ + 1]
  /\ late' = IF jobErr = "" THEN late ELSE [late EXCEPT ![InHand(g)] = @ + 1]
  /\ cut' = IF cause = "deadline" THEN cut \cup {InHand(g)} ELSE cut \ {InHand(g)}
  /\ UNCHANGED <<plan, main, outcome, jobFailed, dagVars, dataVars, jobFail, shown, contextVars>>

(* The command ends by itself; it may do so after the context has ended.   *)
Exits(g) == \E err \in {"ok", "exit"} : AttemptEnds(g, "exit", err)

(* Slip: handlers get a context of their own, so that they can run after   *)
(* the context of the job has ended.                                       *)
KilledUnlessHandler(g) ==
  LET ends == IF Len(stack[g]) > 1 THEN {} ELSE {jobErr} \ {""}
  IN  /\ At(g, "run")
      /\ \E cause \in (IF InHand(g) \in plan.timed THEN {"deadline"} ELSE {}) \cup ends :
           \E err \in IF plan.container THEN {cause, "exit"} ELSE {cause} :
             AttemptEnds(g, cause, err)

(* Slip: the step's timer is started without one for the job.              *)
KilledByOwnTimer(g) ==
  /\ At(g, "run")
  /\ \E cause \in IF InHand(g) \in plan.timed THEN {"deadline"} ELSE {jobErr} \ {"", "deadline"} :
       \E err \in IF plan.container THEN {cause, "exit"} ELSE {cause} :
         AttemptEnds(g, cause, err)

(* The context of the attempt has ended, by the step's own timer or with   *)
(* the context of the job, and the command is killed.  The native runner   *)
(* returns the error of the context, the container runner that of the      *)
(* client it has killed (unless that had just ended well).                 *)
Killed(g) ==
  /\ At(g, "run")
  /\ \E cause \in (IF InHand(g) \in plan.timed THEN {"deadline"} ELSE {}) \cup ({jobErr} \ {""}) :
       \E err \in IF plan.container THEN {cause, "exit"} ELSE {cause} :
         AttemptEnds(g, cause, err)

(* Save, whose error is ignored.                                           *)
Succeeds(g) ==
  /\ At(g, "judge") /\ Top(g).err = "ok"
  /\ stored' \in IF InHand(g) \in plan.cached THEN {stored, stored \cup {InHand(g)}} ELSE {stored}
  /\ shown' = [shown EXCEPT ![InHand(g)] = "ok"]
  /\ Goto(g, "parse")
  /\ UNCHANGED <<plan, main, outcome, jobFailed, dagVars, file, captured, jobFail, ran, late, cut, contextVars>>

(* Slip: attempts are made until one succeeds or all are used up.          *)
RetryAnyway(g) ==
  /\ At(g, "judge") /\ Top(g).err # "ok"
  /\ Top(g).tries <= plan.retries[InHand(g)]
  /\ stack' = With(g, [Top(g) EXCEPT !.at = IF InHand(g) \in plan.patient THEN "backoff" ELSE "run",
                                     !.tries = @ + 1])
  /\ UNCHANGED <<plan, main, outcome, jobFailed, dagVars, dataVars, reportVars, contextVars>>

Retry(g) ==
  /\ At(g, "judge") /\ Top(g).err # "ok"
  /\ Top(g).tries <= plan.retries[InHand(g)] /\ jobErr = ""
  /\ stack' = With(g, [Top(g) EXCEPT !.at = IF InHand(g) \in plan.patient THEN "backoff" ELSE "run",
                                     !.tries = @ + 1])
  /\ UNCHANGED <<plan, main, outcome, jobFailed, dagVars, dataVars, reportVars, contextVars>>

BackoffOver(g) ==
  /\ At(g, "backoff")
  /\ Goto(g, "run")
  /\ UNCHANGED <<plan, main, outcome, jobFailed, dagVars, dataVars, reportVars, contextVars>>

(* Slip: a failure is a timeout if the job has run out of time.            *)
KindByContext(err) == IF jobErr = "deadline" THEN {"timeout"} ELSE {"exit", "egress"}

(* classifyFailure; that a failure is one of egress is read off the output.*)
Kinds(err) ==
  IF jobErr = "deadline" \/ err = "deadline" THEN {"timeout"} ELSE {"exit", "egress"}

(* The attempts are used up, or the context of the job has ended: the step *)
(* has failed, and emitStepFailure says so.                                *)
GiveUp(g) ==
  /\ \/ At(g, "judge") /\ Top(g).err # "ok"
        /\ (Top(g).tries > plan.retries[InHand(g)] \/ jobErr # "")
     \/ At(g, "backoff") /\ jobErr # ""
  /\ \E kind \in Kinds(Top(g).err) :
       /\ jobFail' = [step |-> InHand(g), kind |-> kind]
       /\ shown' = [shown EXCEPT ![InHand(g)] = kind]
  /\ Goto(g, "parse")
  /\ UNCHANGED <<plan, main, outcome, jobFailed, dagVars, dataVars, ran, late, cut, contextVars>>

------------------------------------------------------------------------------
(* runJobStep: outputs and handlers                                        *)

(* captureOutputs reads the file ...                                       *)
Parse(g) ==
  /\ At(g, "parse")
  /\ stack' = With(g, [Top(g) EXCEPT !.at = "merge", !.seen = file])
  /\ UNCHANGED <<plan, main, outcome, jobFailed, dagVars, dataVars, reportVars, contextVars>>

(* Slip: the outputs of a step that failed are not taken.                  *)
MergeOnSuccess(g) ==
  /\ At(g, "merge")
  /\ captured' = IF Top(g).seen # None /\ Top(g).err = "ok" THEN Top(g).seen ELSE captured
  /\ Goto(g, "after")
  /\ UNCHANGED <<plan, main, outcome, jobFailed, dagVars, file, stored, reportVars, contextVars>>

(* ... and then, under capMu, merges what it has read.                     *)
Merge(g) ==
  /\ At(g, "merge")
  /\ captured' = IF Top(g).seen # None THEN Top(g).seen ELSE captured
  /\ Goto(g, "after")
  /\ UNCHANGED <<plan, main, outcome, jobFailed, dagVars, file, stored, reportVars, contextVars>>

ReturnOK(g) ==
  /\ At(g, "after") /\ Top(g).err = "ok"
  /\ StepReturns(g, "ok")
  /\ UNCHANGED <<plan, main, dataVars, reportVars, contextVars>>

RunHandlers(g) ==
  /\ At(g, "after") /\ Top(g).err # "ok"
  /\ plan.handlers[InHand(g)] # <<>>
  /\ stack' = [stack EXCEPT ![g] =
       Append(With(g, [Top(g) EXCEPT !.at = "return"])[g], Enter(plan.handlers[InHand(g)], "next"))]
  /\ UNCHANGED <<plan, main, outcome, jobFailed, dagVars, dataVars, reportVars, contextVars>>

(* Slip: handlers that succeed make up for the failure.                    *)
ReturnRecovered(g) ==
  /\ \/ At(g, "return")
     \/ At(g, "after") /\ Top(g).err # "ok" /\ plan.handlers[InHand(g)] = <<>>
  /\ StepReturns(g, IF InHand(g) \in plan.tolerant THEN "tolerated"
                    ELSE IF At(g, "return") THEN "ok" ELSE "failed")
  /\ UNCHANGED <<plan, main, dataVars, reportVars, contextVars>>

(* ContinueOnError decides what a failure means for the job; the handlers  *)
(* do not.                                                                 *)
ReturnFailed(g) ==
  /\ \/ At(g, "return")
     \/ At(g, "after") /\ Top(g).err # "ok" /\ plan.handlers[InHand(g)] = <<>>
  /\ StepReturns(g, IF InHand(g) \in plan.tolerant THEN "tolerated" ELSE "failed")
  /\ UNCHANGED <<plan, main, dataVars, reportVars, contextVars>>

------------------------------------------------------------------------------
(* The contexts                                                            *)

(* Another job fails, and with it the run; or the user cancels the run.    *)
SiblingFails ==
  /\ ~Over /\ ~anyFail
  /\ anyFail' = TRUE
  /\ jobErr' = IF jobErr = "" THEN "canceled" ELSE jobErr
  /\ UNCHANGED <<plan, main, stack, outcome, jobFailed, dagVars, dataVars, reportVars>>

Interrupt ==
  /\ ~Over /\ jobErr = ""
  /\ jobErr' = "canceled"
  /\ UNCHANGED <<plan, main, stack, outcome, jobFailed, dagVars, dataVars, reportVars, anyFail>>

(* The TimeoutSec of the job is over.                                      *)
Expire ==
  /\ ~Over /\ plan.deadline /\ jobErr = ""
  /\ jobErr' = "deadline"
  /\ UNCHANGED <<plan, main, stack, outcome, jobFailed, dagVars, dataVars, reportVars, anyFail>>

------------------------------------------------------------------------------
Init ==
  /\ plan \in Plans
  /\ main = "start"
  /\ stack = [g \in Goroutines |-> <<>>]
  /\ outcome = [s \in Steps |-> ""]
  /\ claimed = {} /\ finished = {} /\ failed = {} /\ relaunch = {} /\ jobFailed = FALSE
  /\ file = None /\ captured = None
  /\ stored \in SUBSET plan.cached
  /\ jobFail = [step |-> None, kind |-> "none"]
  /\ ran = [s \in Steps |-> 0] /\ late = [s \in Steps |-> 0]
  /\ shown = [s \in Steps |-> "none"]
  /\ cut = {}
  /\ jobErr = "" /\ anyFail = FALSE

(* What a goroutine does without the command it has started.               *)
Advance(g) ==
  \/ NextStep(g) \/ IfTrue(g) \/ IfFalse(g)
  \/ CacheHit(g) \/ FirstAttempt(g)
  \/ Killed(g)
  \/ Succeeds(g) \/ Retry(g) \/ BackoffOver(g) \/ GiveUp(g)
  \/ Parse(g) \/ Merge(g)
  \/ ReturnOK(g) \/ RunHandlers(g) \/ ReturnFailed(g)
  \/ Relaunch(g)

Begin == StartSequential \/ StartDAG

Next ==
  \/ Begin \/ Return
  \/ \E g \in Goroutines : Advance(g) \/ Write(g) \/ Exits(g)
  \/ SiblingFails \/ Interrupt \/ Expire
  \/ Over /\ UNCHANGED vars

(* Every goroutine runs, timers fire, and a command that is killed dies.   *)
(* Nothing makes a command end by itself.                                  *)
Fairness ==
  /\ WF_vars(Begin) /\ WF_vars(Return) /\ WF_vars(Expire)
  /\ \A g \in Goroutines : WF_vars(Advance(g))

Spec == Init /\ [][Next]_vars
FairSpec == Spec /\ Fairness

------------------------------------------------------------------------------
(* Properties                                                              *)

Results == {"", "ok", "skipped", "tolerated", "failed"}
FailKinds == {"exit", "timeout", "egress"}

Frames ==
  [todo : Seq(Steps), at : PlaceNames, tries : 0..(MaxRetries + 1), err : ErrorNames,
   seen : Steps \cup {None}]

TypeOK ==
  /\ plan \in Plans
  /\ main \in {"start", "wait", "passed", "failed"}
  /\ \A g \in Goroutines : \A i \in DOMAIN stack[g] :
       /\ stack[g][i] \in Frames
       /\ stack[g][i].at = "next" \/ stack[g][i].todo # <<>>
       /\ i < Len(stack[g]) => stack[g][i].at = "return"
  /\ outcome \in [Steps -> Results]
  /\ claimed \subseteq Steps /\ finished \subseteq claimed /\ failed \subseteq finished
  /\ relaunch \subseteq finished /\ jobFailed \in BOOLEAN
  /\ file \in Steps \cup {None} /\ captured \in Steps \cup {None}
  /\ stored \subseteq plan.cached /\ cut \subseteq Steps
  /\ jobFail \in [step : Steps \cup {None}, kind : FailKinds \cup {"none"}]
  /\ ran \in [Steps -> 0..(MaxRetries + 1)] /\ late \in [Steps -> 0..(MaxRetries + 1)]
  /\ shown \in [Steps -> FailKinds \cup {"none", "started", "ok", "cached"}]
  /\ jobErr \in {"", "deadline", "canceled"} /\ anyFail \in BOOLEAN

(* Retries stop early when the run is canceled or the job's time is over:  *)
(* from then on a step makes at most the one attempt that is under way, or *)
(* that its back-off lets through.                                         *)
RetriesStop == \A s \in Steps : late[s] <= 1

(* When a step has returned, what it wrote to $SHIP_OUTPUT is among the    *)
(* outputs of the job, also if it failed or was killed; steps in parallel  *)
(* may replace each other's values, but never lose them all.               *)
OutputsCaptured ==
  \A s \in Steps : outcome[s] # "" /\ file = s =>
    captured # None /\ (~HasNeeds => captured = s)

(* The handlers of a step run only when it has failed, and leave its       *)
(* failure what it was: a step counts as successful exactly if its command *)
(* was, or if it was restored.                                             *)
HandlersChangeNothing ==
  \A s \in Steps :
    /\ outcome[s] # "" => (outcome[s] = "ok" <=> shown[s] \in {"ok", "cached"})
    /\ \A i \in DOMAIN plan.handlers[s] :
         shown[plan.handlers[s][i]] # "none" => shown[s] \in FailKinds

(* A step that was ended by a deadline, its own or the job's, is reported  *)
(* as timed out, and no other is unless the job has run out of time.       *)
TimeoutsNamed ==
  \A s \in Steps : shown[s] \in FailKinds =>
    /\ s \in cut => shown[s] = "timeout"
    /\ shown[s] = "timeout" => s \in cut \/ jobErr = "deadline"

(* A job whose context has ended comes to its end, whatever its commands   *)
(* do: attempts, delays, handlers and the steps still to come are all cut  *)
(* short.                                                                  *)
Drains == jobErr # "" ~> Over

(* A TimeoutSec on the job, or on each of its steps, bounds it, even if no *)
(* command ever ends.                                                      *)
TimeoutsBound == plan.deadline \/ plan.timed = Steps => <>Over

(* SPEC 6.7: handler outcomes do not change the original step's failure.   *)
(* What is reported as the cause of the job's failure is the last failure  *)
(* of all, which may be that of a handler.                                 *)
HandlersKeepCause == main = "failed" => jobFail.step \in TopLevel \cup {None}

------------------------------------------------------------------------------
(* The steps of a job are a graph that is executed as a graph of jobs is.  *)
(* Without needs, each step needs the one before it.                       *)

Preceding(s) == {plan.order[i] : i \in {k \in DOMAIN plan.order :
                                          k < Len(plan.order) /\ plan.order[k+1] = s}}

Running(s) ==
  IF HasNeeds THEN s \in claimed
  ELSE /\ stack[Job] # <<>>
       /\ stack[Job][1].at # "next" /\ Head(stack[Job][1].todo) = s

Status(s) ==
  IF s \notin TopLevel THEN "waiting"
  ELSE CASE outcome[s] = "ok"                 -> "succeeded"
         [] outcome[s] \notin {"ok", ""}      -> outcome[s]
         [] outcome[s] = "" /\ s \in failed   -> "blocked"
         [] outcome[s] = "" /\ s \notin failed /\ Running(s) -> "running"
         [] OTHER                             -> "waiting"

Abstract == INSTANCE DagExecution WITH
  Jobs    <- Steps,
  active  <- TopLevel,
  needs   <- [s \in Steps |-> IF HasNeeds
                              THEN {plan.needs[s][i] : i \in DOMAIN plan.needs[s]}
                              ELSE Preceding(s)],
  status  <- [s \in Steps |-> Status(s)],
  verdict <- IF Over THEN main ELSE "none"

(* runSteps implements the abstract execution of the graph of the steps.   *)
ImplementsDagExecution == Abstract!Spec

=============================================================================
