------------------------------- MODULE McpRuns -------------------------------
(***************************************************************************)
(* A background run of the MCP server, internal/mcp/run.go, on top of the  *)
(* scheduler that executes it: what ship_status, ship_cancel and ship_logs *)
(* see of it.                                                              *)
(*                                                                         *)
(* The scheduler calls `observe` from every place that emits an event, and *)
(* the goroutine of Start sets the state of the run when runFn returns.    *)
(* The server answers requests meanwhile; they read under r.mu, and only   *)
(* ship_cancel changes anything.                                           *)
(***************************************************************************)
EXTENDS Scheduler

CONSTANTS
  Listings,  \* the jobs that Start may have been given for a file that has
             \* changed before it is loaded again to be run
  LogName    \* sanitizeLogName: the name of the log file of each job

(* defaultRunFn neither resumes nor selects jobs.                          *)
ASSUME McpPlansAssumption == \A p \in Plans : p.resumable = {} /\ p.only = Jobs
ASSUME ListingsAssumption == Listings \subseteq SUBSET Jobs
ASSUME LogNameAssumption == DOMAIN LogName = Jobs

VARIABLES
  known,   \* the keys of r.jobs
  view,    \* the status of each
  state,   \* r.state
  logged,  \* the jobs that have created their log file
  logs     \* the jobs whose output each log file holds; {} is no file

mcpVars == <<known, view, state, logged, logs>>
allVars == <<vars, mcpVars>>

States == {"running", "passed", "failed", "canceled"}
Statuses == {"pending", "running", "done", "failed", "skipped"}

(* The output of a job in an earlier session of the server, which had a    *)
(* run with the same id, and thus the same directory.                      *)
Earlier == "earlier"

LogFiles == {LogName[j] : j \in Jobs}

------------------------------------------------------------------------------
(* The status of a job after an event.                                     *)

StatusAfter(event) ==
  CASE event = "started"          -> "running"
    [] event \in {"ok", "resumed"} -> "done"
    [] event \in {"failed", "skipped"} -> event

Told == {j \in Jobs : events'[j] # events[j]}

(* observe, for the events that this step emits: one of a job at most.     *)
Observe ==
  /\ known' = known \cup Told
  /\ view' = [j \in Jobs |-> IF j \in Told THEN StatusAfter(events'[j][Len(events'[j])])
                                           ELSE view[j]]

(* What the log file of a job holds once the job has opened it.  (Slip: it *)
(* is not truncated.)                                                      *)
Appended(j) == logs[LogName[j]] \cup {j}
Created(j) == {j}

(* jobLogFile, whose failure is ignored, when the steps begin; the output  *)
(* of the job is in the file when they end, whoever opened it since.       *)
Persist ==
  LET Begins(j) == pc[j] = "begin" /\ pc'[j] = "steps"
      Ends(j) == pc[j] = "steps" /\ pc'[j] # "steps"
  IN  \/ \E j \in Jobs : /\ Begins(j)
                         /\ logs' = [logs EXCEPT ![LogName[j]] = Created(j)]
                         /\ logged' = logged \cup {j}
      \/ \E j \in logged : /\ Ends(j)
                           /\ logs' = [logs EXCEPT ![LogName[j]] = @ \cup {j}]
                           /\ UNCHANGED logged
      \/ (\A j \in logged : ~Ends(j)) /\ UNCHANGED <<logs, logged>>

McpInit ==
  /\ Init
  /\ known \in {plan.jobs} \cup Listings
  /\ view = [j \in Jobs |-> "pending"]
  /\ state = "running"
  /\ logged = {}
  /\ logs \in [LogFiles -> {{}, {Earlier}}]

(* The file cannot be loaded when it is to be run.                         *)
LoadFails ==
  /\ main = "launch" /\ state = "running"
  /\ state' = IF interrupted THEN "canceled" ELSE "failed"
  /\ UNCHANGED <<vars, known, view, logged, logs>>

(* The scheduler goes on, in main or in a job.                             *)
RunMain == state = "running" /\ (LaunchFirst \/ Return) /\ Observe /\ Persist /\ UNCHANGED state
RunOne(j) == RunJob(j) /\ Observe /\ Persist /\ UNCHANGED state

(* Cancel, as often as one likes, also when the scheduler has returned or  *)
(* the run is over.                                                        *)
Cancel ==
  /\ \/ Interrupt
     \/ /\ Returned /\ ~interrupted /\ interrupted' = TRUE
        /\ UNCHANGED <<plan, main, pc, inFlight, sem, wg, recorded, events, outcomeVars>>
  /\ UNCHANGED mcpVars

(* runFn has returned.  (Slip: Start does not wait for it once canceled.)  *)
ReturnedOrCanceled == main \in {"passed", "failed"} \/ interrupted
RunFnReturned == main \in {"passed", "failed"}

(* The state of the run at its end.  (Slips: it is taken from the result   *)
(* alone; it looks at the context that the scheduler itself cancels.)      *)
VerdictOfResult == IF main = "failed" THEN "failed" ELSE "passed"
VerdictOfInner ==
  CASE canceled -> "canceled"
    [] ~canceled -> IF main = "failed" THEN "failed" ELSE "passed"
Verdict ==
  CASE interrupted -> "canceled"
    [] ~interrupted -> IF main = "failed" THEN "failed" ELSE "passed"

Settle ==
  /\ state = "running" /\ RunFnReturned
  /\ state' = Verdict
  /\ UNCHANGED <<vars, known, view, logged, logs>>

Idle == state # "running" /\ UNCHANGED allVars

McpNext == LoadFails \/ RunMain \/ (\E j \in Jobs : RunOne(j)) \/ Cancel \/ Settle \/ Idle

(* As in Scheduler; the goroutine of Start goes on when runFn has returned.*)
McpFairness ==
  /\ WF_allVars(RunMain) /\ WF_allVars(Settle)
  /\ \A j \in Jobs : WF_allVars(RunOne(j))

McpSpec == McpInit /\ [][McpNext]_allVars /\ McpFairness

------------------------------------------------------------------------------
(* Properties                                                              *)

McpTypeOK ==
  /\ TypeOK
  /\ known \subseteq Jobs /\ view \in [Jobs -> Statuses] /\ state \in States
  /\ logged \subseteq Jobs /\ logs \in [LogFiles -> SUBSET (Jobs \cup {Earlier})]

(* Whatever moment ship_status hits, what it says of a job is so: a job    *)
(* that it calls done has succeeded, one that it calls failed has failed,  *)
(* one that it calls skipped did not run, and one that it calls running    *)
(* has begun.                                                              *)
ViewTruthful == \A j \in Jobs :
  CASE view[j] = "done"    -> results[j] = "success"
    [] view[j] = "failed"  -> results[j] = "failure"
    [] view[j] = "skipped" -> results[j] = "skipped" \/ (j \in failed /\ j \notin inFlight)
    [] view[j] = "running" -> j \in inFlight
    [] OTHER               -> TRUE

(* When a run is reported as over, no job is left as running, and every    *)
(* job that is done is listed, with its outcome, also when the file was    *)
(* changed behind the server's back.                                       *)
ViewComplete == state # "running" =>
  /\ \A j \in Jobs : view[j] # "running"
  /\ done = {j \in known : view[j] # "pending"}

(* A run is reported as canceled only if somebody asked for it, as failed  *)
(* only if something fatal happened, and as passed only if nothing did.    *)
VerdictHonest ==
  CASE state = "canceled" -> interrupted
    [] state = "failed"   -> anyFail \/ main = "launch"
    [] state = "passed"   -> \A j \in Jobs : view[j] = "failed" => j \in plan.tolerant
    [] OTHER              -> TRUE

(* What ship_status answers is true, complete and honest at every moment,  *)
(* while observer, scheduler, verdict and cancellation interleave.         *)
StatusHonest == ViewTruthful /\ ViewComplete /\ VerdictHonest

(* As long as no two jobs of the plan share a name for their logs, what    *)
(* ship_logs returns of a job that has begun is the job's, not that of an  *)
(* earlier session.                                                        *)
LogsOwn == \A j \in logged :
  (\A k \in plan.jobs \ {j} : LogName[k] # LogName[j]) => logs[LogName[j]] = {j}

(* Nothing is reported or written any more when a run is reported as over. *)
OverIsOver ==
  [][state # "running" => UNCHANGED <<state, known, view, logs>>]_allVars

(* A cancellation of a run that is not over ends it, and as canceled, also *)
(* when the scheduler had just returned.                                   *)
CancelEnds == interrupted /\ state = "running" ~> state = "canceled"

(* What the documents promise and the code does not do.  SPEC 1.1 and 5.2: *)
(* dependencies and cycles are validated before any step executes.         *)
(* ship_run loads a plan and runs it without: jobs in a cycle never start, *)
(* and the run passes.                                                     *)
PassedIsComplete == state = "passed" => plan.jobs \subseteq done

==============================================================================
