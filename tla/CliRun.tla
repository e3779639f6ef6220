------------------------------- MODULE CliRun -------------------------------
(***************************************************************************)
(* A run from the command line: RunFile and runCompiled (flow/file.go,     *)
(* flow/main.go) with the observers chained in between, the dashboard      *)
(* (internal/tui/tui.go) and the notifier (internal/notify/notify.go).     *)
(*                                                                         *)
(* The scheduler is represented by what it promises, DagExecution, which   *)
(* module Scheduler implements; what the observer is told of a job comes   *)
(* some time after the fact (Scheduler's ObserverAgrees).                  *)
(***************************************************************************)
EXTENDS Planning

CONSTANTS
  Jobs,    \* the ids that can occur
  Cases,   \* the invocations that are looked at: a plan file, flags, a tree
  Probes,  \* contexts in which EvalAgrees tries every condition
  None     \* no file list

(* What the condition of a job reads of a resumed one is looked at in      *)
(* module Scheduler.                                                       *)
ASSUME ResumeAssumption ==
  \A c \in Cases : c.opts.resume => \A i \in DOMAIN c.jobs : c.jobs[i].cond = <<>>

(* A case is well formed; and Jobs has the ids of whatever is run.         *)
IsSequence(q) == q \in Seq(ToSet(q))
ASSUME CasesAssumption ==
  \A c \in Cases :
    /\ IsSequence(c.jobs)
    /\ \A j \in ToSet(c.jobs) :
         /\ {"id", "env", "needs", "inputs", "steps", "cond"} \subseteq DOMAIN j
         /\ IsSequence(j.needs) /\ IsSequence(j.cond)
         /\ IsSequence(j.steps) /\ \A t \in ToSet(j.steps) : IsSequence(t.needs)
         /\ IsSequence(j.dims) /\ \A values \in ToSet(j.dims) : IsSequence(values)
         /\ \A g \in j.inputs : IsSequence(g.prefix) /\ IsSequence(g.suffix)
    /\ IsSequence(c.dir) /\ \A f \in c.tree : IsSequence(f)
    /\ c.opts.compile \/ c.opts.graph \/ Ids(ExpandMatrix(c.jobs)) \subseteq Jobs

E == INSTANCE Expressions

VARIABLES
  case,         \* the invocation; never changes
  pc,           \* where runCompiled is
  plan,         \* its jobs, expanded
  active, needs, status, verdict,  \* the run, as in DagExecution
  told,         \* what the observer was told last of each job
  shown,        \* the dashboard: the status of each job that it lists
  digest,       \* `failures`
  flight,       \* notifications being sent by goroutines of their own
  delivered,    \* those that every sink took,
  refused,      \* and those that one did not: an error that is dropped
  interrupted,  \* ctx is canceled
  exit          \* what the process has returned

D == INSTANCE DagExecution

runVars == <<active, needs, status, verdict>>
reportVars == <<told, shown, digest, flight, delivered, refused>>
vars == <<case, pc, plan, runVars, reportVars, interrupted, exit>>

opts == case.opts
Exit(code) == pc' = "exit" /\ exit' = code
Goto(place) == pc' = place /\ UNCHANGED exit

JobOf(id) == plan[CHOOSE i \in DOMAIN plan : plan[i].id = id]

------------------------------------------------------------------------------
(* Before the run                                                          *)

(* planfile.Load; or the file cannot be read or decoded.                   *)
Load ==
  /\ pc = "load"
  /\ \/ plan' = ExpandMatrix(case.jobs) /\ Goto("validate")
     \/ UNCHANGED plan /\ Exit(1)
  /\ UNCHANGED <<case, runVars, reportVars, interrupted>>

ValidatePlan ==
  /\ pc = "validate"
  /\ IF Validate(plan) = {} THEN Goto("mode") ELSE Exit(1)
  /\ UNCHANGED <<case, plan, runVars, reportVars, interrupted>>

(* --compile, which may fail to write, and --graph.                        *)
Mode ==
  /\ pc = "mode"
  /\ CASE opts.compile -> Exit(0) \/ Exit(1)
       [] ~opts.compile /\ opts.graph -> Exit(0)
       [] OTHER -> Goto("select")
  /\ UNCHANGED <<case, plan, runVars, reportVars, interrupted>>

(* changed.Files: the changes since the base, or, if git cannot tell,      *)
(* those that are not committed; named from the top of the repository on,  *)
(* of which the working directory is case.dir.                             *)
ChangedFiles == IF case.committed # None THEN case.committed ELSE case.uncommitted

Only(ids) ==
  /\ active' = ids
  /\ needs' = [id \in Jobs |-> IF id \in ids THEN ToSet(Needs(plan, id)) \cap ids ELSE {}]
  /\ UNCHANGED <<status, verdict>>

(* --job, --changed, or everything.                                        *)
Select ==
  /\ pc = "select"
  /\ \/ /\ opts.job # {}
        /\ IF opts.job \subseteq Ids(plan)
             THEN Only(UNION {Subgraph(plan, id) : id \in opts.job}) /\ Goto("start")
             ELSE Exit(1) /\ UNCHANGED runVars
     \/ /\ opts.job = {} /\ opts.changed
        /\ CASE ChangedFiles = None -> Exit(1) /\ UNCHANGED runVars
             [] ChangedFiles = {}   -> Exit(0) /\ UNCHANGED runVars
             [] OTHER -> Only(AffectedJobs(plan, ChangedFiles, case.longer)) /\ Goto("start")
     \/ /\ opts.job = {} /\ ~opts.changed
        /\ Only(Ids(plan)) /\ Goto("start")
  /\ UNCHANGED <<case, plan, reportVars, interrupted>>

(* From NotifyContext to the observers; the preheats leave no trace.  Send *)
(* starts a goroutine for the message.                                     *)
Start ==
  /\ pc = "start" /\ Goto("run")
  /\ shown' = IF opts.tui THEN [id \in ToSet(TopoOrder(plan)) \cap active |-> "pending"] ELSE shown
  /\ flight' = IF "start" \in opts.notify THEN {<<"started", "">>} ELSE {}
  /\ UNCHANGED <<case, plan, runVars, told, digest, delivered, refused, interrupted>>

------------------------------------------------------------------------------
(* The run                                                                 *)

(* The chain of observers: dashboard, notifier, digest.                    *)
Show(id, what) == IF ~opts.tui THEN shown
                  ELSE [x \in (DOMAIN shown) \cup {id} |-> IF x = id THEN what ELSE shown[x]]

Observe(id, what) ==
  /\ told' = [told EXCEPT ![id] = what]
  /\ shown' = Show(id, what)
  /\ flight' = IF "job" \in opts.notify /\ what = "failed" THEN flight \cup {<<"job failed", id>>} ELSE flight
  /\ digest' = IF what = "failed" THEN Append(digest, id) ELSE digest

TellNothing == UNCHANGED <<told, shown, digest, flight>>

Result(s) == CASE s = "succeeded" -> "success" [] s = "skipped" -> "skipped" [] OTHER -> "failure"

(* evalIf: needs.<job>.result cannot name an expansion, whose id is not an *)
(* identifier.                                                             *)
Context ==
  LET Path(id) == <<"needs", id.name, "result">>
      over == {id \in active : id.suffix = <<>> /\ status[id] \in D!Ended}
      anyFail == \E id \in active : status[id] \in D!Bad
  IN  [success |-> ~anyFail, failure |-> anyFail,
       paths |-> [p \in {Path(id) : id \in over} |->
                    Result(status[CHOOSE id \in over : Path(id) = p])]]

Condition(id) == E!Eval(JobOf(id).cond, Context)
Holds(id) == JobOf(id).cond = <<>> \/ (Condition(id).ok /\ E!Truthy(Condition(id).v))
Refuses(id) == JobOf(id).cond # <<>> /\ Condition(id).ok /\ ~E!Truthy(Condition(id).v)

Running(id) == pc = "run" /\ verdict = "none" /\ status[id] = "running"

(* Jobs are started; those that are marked as blocked are told of as       *)
(* skipped in the same critical section, which tells of one at a time.     *)
Launch ==
  /\ pc = "run" /\ D!Advance
  /\ LET marked == {id \in active : status'[id] = "blocked" /\ status[id] # "blocked"}
     IN  /\ told' = [id \in Jobs |-> IF id \in marked THEN "skipped" ELSE told[id]]
         /\ shown' = IF opts.tui THEN [id \in (DOMAIN shown) \cup marked |->
                                         IF id \in marked THEN "skipped" ELSE shown[id]]
                                 ELSE shown
  /\ UNCHANGED <<case, pc, plan, digest, flight, delivered, refused, interrupted, exit>>

(* runJob before its steps: the job is resumed or skipped, cannot be set   *)
(* up (whatever ContinueOnError says), or its steps begin.                 *)
Settle(id) ==
  /\ Running(id) /\ told[id] = "nothing"
  /\ \/ opts.resume /\ D!End(id, "succeeded") /\ TellNothing
     \/ Refuses(id) /\ D!End(id, "skipped") /\ TellNothing
     \/ D!End(id, "failed") /\ TellNothing
     \/ Holds(id) /\ Observe(id, "running") /\ UNCHANGED runVars
  /\ UNCHANGED <<case, pc, plan, delivered, refused, interrupted, exit>>

Finish(id) ==
  /\ Running(id) /\ told[id] = "running"
  /\ \/ D!End(id, "succeeded")
     \/ D!End(id, IF JobOf(id).tolerant THEN "tolerated" ELSE "failed")
  /\ UNCHANGED <<case, pc, plan, reportVars, interrupted, exit>>

Final(s) == CASE s = "succeeded" -> "ok" [] s = "skipped" -> "skipped" [] OTHER -> "failed"

Tell(id) ==
  /\ pc = "run" /\ status[id] \in D!Ended /\ told[id] \in {"nothing", "running"}
  /\ Observe(id, Final(status[id]))
  /\ UNCHANGED <<case, pc, plan, runVars, delivered, refused, interrupted, exit>>

(* scheduler.Run returns when every goroutine has told of its job.         *)
Return ==
  /\ pc = "run"
  /\ \A id \in active : status[id] \in D!Ended => told[id] \notin {"nothing", "running"}
  /\ D!Return /\ Goto("notify")
  /\ UNCHANGED <<case, plan, reportVars, interrupted>>

------------------------------------------------------------------------------
(* After the run                                                           *)

(* What the sinks answer: all of them take it, or one does not and its     *)
(* error is dropped: a program that is missing or fails, no answer in      *)
(* time, a bad status, a context that is canceled.                         *)
Received(m) == delivered' = delivered \cup {m} /\ UNCHANGED refused
Dropped(m) == refused' = refused \cup {m} /\ UNCHANGED delivered

(* A goroutine of Send, which may have begun before a signal.              *)
Deliver(m) ==
  /\ m \in flight /\ pc # "exit"
  /\ flight' = flight \ {m} /\ (Received(m) \/ Dropped(m))
  /\ UNCHANGED <<case, pc, plan, runVars, told, shown, digest, interrupted, exit>>

(* SendSync, with the context of the run.  (Slip: in the background, as    *)
(* the others.)                                                            *)
NotifyAsync ==
  /\ pc = "notify" /\ Goto("report")
  /\ flight' = IF opts.notify = {} THEN flight ELSE flight \cup {<<"final", verdict>>}
  /\ UNCHANGED <<case, plan, runVars, told, shown, digest, delivered, refused, interrupted>>
Notify ==
  /\ pc = "notify" /\ Goto("report")
  /\ \/ opts.notify = {} /\ UNCHANGED <<delivered, refused>>
     \/ opts.notify # {} /\ ~interrupted /\ Received(<<"final", verdict>>)
     \/ opts.notify # {} /\ Dropped(<<"final", verdict>>)
  /\ UNCHANGED <<case, plan, runVars, told, shown, digest, flight, interrupted>>

Report ==
  /\ pc = "report" /\ Exit(IF verdict = "failed" THEN 1 ELSE 0)
  /\ UNCHANGED <<case, plan, runVars, reportVars, interrupted>>

(* SIGINT or SIGTERM: it ends the process, or, from NotifyContext on,      *)
(* cancels ctx; a second one does nothing.                                 *)
Interrupt ==
  /\ case.signals /\ pc # "exit"
  /\ IF pc \in {"run", "notify", "report"}
       THEN ~interrupted /\ interrupted' = TRUE /\ UNCHANGED <<pc, exit>>
       ELSE Exit(130) /\ UNCHANGED interrupted
  /\ UNCHANGED <<case, plan, runVars, reportVars>>

Init ==
  /\ case \in Cases
  /\ pc = "load" /\ plan = <<>> /\ exit = -1
  /\ active = {} /\ needs = [id \in Jobs |-> {}]
  /\ status = [id \in Jobs |-> "waiting"] /\ verdict = "none"
  /\ told = [id \in Jobs |-> "nothing"] /\ shown = [id \in {} |-> ""]
  /\ digest = <<>> /\ flight = {} /\ delivered = {} /\ refused = {}
  /\ interrupted = FALSE

Over == pc = "exit" /\ UNCHANGED vars

Next ==
  \/ Load \/ ValidatePlan \/ Mode \/ Select \/ Start
  \/ Launch \/ Return \/ \E id \in active : Settle(id) \/ Finish(id) \/ Tell(id)
  \/ Notify \/ Report \/ (\E m \in flight : Deliver(m)) \/ Interrupt \/ Over

Spec == Init /\ [][Next]_vars

------------------------------------------------------------------------------
(* Properties                                                              *)

(* The validator rejects a plan exactly if it must, the cycle it prints is *)
(* one, and the graph of a plan that it accepts can be executed: the order *)
(* of TopoOrder respects all the needs, and a need on a matrix job has     *)
(* become one on each of its expansions, of which there are some.          *)
AcceptedRuns ==
  /\ pc = "validate" => /\ (Validate(plan) = {}) = Sound(plan)
                        /\ CyclesAreReal(plan)
  /\ pc = "mode" => Ordered(plan) /\ NeedsCarriedOver(case.jobs)

(* What is left out by --changed would be found in the cache: no changed   *)
(* file is one of the inputs of such a job, nor of one that it builds on,  *)
(* if the glob that has it is written as git writes names: from the top of *)
(* the repository on and clean, or without a directory.  With --job,       *)
(* whatever the job builds on is run.                                      *)
AsGitNames(g) ==
  /\ \/ Cleaned(case.dir, g.prefix) = g.prefix
     \/ g.deep /\ g.prefix = <<>>
     \/ ~g.deep /\ Len(g.prefix) = 1 /\ Cleaned(case.dir, g.prefix) = case.dir \o g.prefix
  /\ g.suffix # <<>> => g.suffix[1] # Empty

Consumes(j, f) ==
  \E g \in j.inputs : AsGitNames(g) /\ f \in ExpandGlob(case.tree, case.dir, g, case.pruned)

SelectionCovers ==
  pc = "start" =>
    /\ opts.changed /\ opts.job = {} =>
         /\ \A j \in ToSet(plan) : (j.inputs = {} \/ \E f \in ChangedFiles : Consumes(j, f)) => j.id \in active
         /\ \A j \in ToSet(plan) : ToSet(j.needs) \cap active # {} => j.id \in active
    /\ opts.job # {} => /\ opts.job \subseteq active
                        /\ \A j \in ToSet(plan) : j.id \in active => ToSet(j.needs) \subseteq active

(* The parser of conditions computes what the grammar says.                *)
EvalAgrees ==
  pc = "load" => \A j \in ToSet(case.jobs), ctx \in Probes : j.cond # <<>> => E!Agrees(j.cond, ctx)

(* At the end of a run, whichever way it went:                             *)
(*   - the exit code is 0 if all the selected jobs have succeeded, were    *)
(*     skipped by their condition or tolerated, and else 1;                *)
(*   - the digest names each job that failed, once, and if the exit code   *)
(*     is 1 there is one;                                                  *)
(*   - the dashboard lists each selected job, and with its outcome;        *)
(*   - whoever wants to be notified has been asked to take the outcome     *)
(*     before the process ends, and may have refused; the exit code is     *)
(*     what it is all the same.                                            *)
ExitHonest == (exit = 0) = (\A id \in active : status[id] \in D!Satisfied)

DigestComplete ==
  /\ ToSet(digest) = {id \in active : status[id] \in {"failed", "tolerated"}}
  /\ Len(digest) = Cardinality(ToSet(digest))
  /\ exit = 1 => digest # <<>>

Mark(s) == CASE s \in D!Ended -> Final(s) [] s = "blocked" -> "skipped" [] OTHER -> "pending"

DashboardAgrees == opts.tui => DOMAIN shown = active /\ \A id \in active : shown[id] = Mark(status[id])

FinalAttempted == opts.notify # {} => <<"final", verdict>> \in delivered \cup refused

OutcomeReported == pc = "exit" /\ verdict # "none" => ExitHonest /\ DigestComplete /\ DashboardAgrees /\ FinalAttempted

=============================================================================
