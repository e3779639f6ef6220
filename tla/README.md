# Ship Happens: a verification development

Ship Happens runs a pipeline: a plan of jobs with needs, each job a list of
steps, executed by goroutines on one machine, with caching, resuming of earlier
successes, conditions, outputs, sidecar services, retries and timeouts. This
directory holds TLA+ modules translated from the Go source, the TLC
configurations that check them, and the TLAPS proofs about them.

File names below are relative to `src/`.

## The system

| Part | Source | State | Operations | Interacts with |
|---|---|---|---|---|
| Job scheduler | `internal/scheduler/scheduler.go` | under `s.mu`: `done`, `failed`, `inFlight`, `results`, `jobOut`, `fps`, `skipped`, `anyFail`; `sem`, `wg`, the run's context | `Run`, `launch`, `runJob`, `finishFailed`, `evalIf` | every other part; observers by callback |
| Step execution | `internal/scheduler/scheduler.go` 750-1055 | per job `captured`, the output file; per DAG `claimed`, `finished`, `failed` | `runSteps*`, `runJobStep`, `execStep`, `runStep` | runners, cache, observer |
| Cache store | `internal/cache/store.go`, `hash.go` | `index.json` and `objects/` on disk, an unlocked copy of the index in memory | `Open`, `Has`, `Save`, `Restore`, `flush` | all jobs of a run, all runs of a user, `Prune` |
| Resume | `internal/cache/fingerprint.go` | objects named `job:<fingerprint>` | `JobFingerprint`, `MarkJobDone`, `JobDone`, `RestoreJob` | scheduler, store, working tree |
| Garbage collection | `internal/cache/gc.go` | objects and index | `Prune`, `PruneAll`, `Stat` | the store of a run in progress |
| MCP runs | `internal/mcp/run.go` | `Manager.runs`, per run state and jobs | `Start`, `observe`, `Cancel`, `snapshot`, `JobLog` | scheduler (observer, context), server loop |
| Services | `internal/runner/services.go` | containers and a network in the engine | `StartServices`, `waitHealthy`, `Stop` | `runJob` and its deferred calls |
| Native runner, console log | `internal/runner/native.go`, `internal/logs/stream.go` | a process group, a pipe and its reader | `Run`, `MaskedPrefixed` | step execution |
| Egress proxy | `internal/egress/egress.go`, `internal/runner/egress_proxy.go` | listener, list of blocked hosts | `Matcher`, `Serve`, `Blocked` | `runJob` |
| Pure algorithms | `internal/graph`, `internal/validator`, `internal/compiler`, `internal/expr`, `internal/changed` | none | graph queries, cycle search, matrix expansion, conditions, affected jobs | the command line, scheduler |
| Command line | `flow/main.go`, `internal/tui`, `internal/notify` | what the observer was told | `runCompiled`, digest, hooks, exit code | scheduler |

What makes this system hard, and what makes each part correct:

* **Job scheduler.** There is no central loop: a job goroutine publishes its
  outcome in one critical section and calls `launch` in a later one. Between the
  two every other goroutine may run. Correct means: a job starts only on
  satisfied needs; no job that could start is forgotten; slots and the
  WaitGroup balance on each of the seven ways out of `runJob`; a failure cancels
  the run exactly when it is fatal; what a job reads of its needs is complete and
  stable; observers hear of each job once; the run ends.
* **Step execution.** Retries, back-off, step and job deadlines and cancellation
  race; parallel steps share the outputs and the verdict; failure handlers run
  under the context that may be the cause of the failure.
* **Cache, resume, garbage collection.** Files are rewritten in place, by several
  goroutines and processes, without locks; a crash may fall between two writes.
  Correct means that what is restored is what was saved under the same key.
* **MCP runs.** Events, cancellation and the end of a run race; ids and log
  directories are reused by the next server process.
* **Services, runners.** Teardown on every path, also under a canceled context;
  a reader that stops reading blocks the writer.

`PROJECT.json` lists every component and, under `hazards`, each of these
dangers at the line where it bites.

## Plan

Modules, in the order in which they were written. All nine are here.

1. `DagExecution` (what a run promises), `Scheduler` (how it does it),
   `MCScheduler`.
2. `JobSteps`, `MCJobSteps`: sequential and DAG steps, attempts, deadlines,
   cancellation, handlers, outputs. Abstract view: `DagExecution` again, with
   steps for jobs. The scheduler sees of it the result of `runSteps` and whether
   anything was captured.
3. `CacheStore`, `MCCacheStore`: several processes on one
   disk, object and index writes as separate steps, crashes, `Prune`.
4. `Resume`, `MCResume`: several runs in one working tree while sources and jobs
   are edited; fingerprints, archives and `cleanAfter` against running dependents.
5. `McpRuns`, `MCMcpRuns`: a background run on top of the scheduler: what the
   server reports of it, cancellation, log files left by an earlier server.
6. `Services`, `MCServices`: start, health, failure,
   cancellation, teardown, names.
7. `LogPipe`, `MCLogPipe`: process, pipe, copier, console reader, log file, tail,
   `cmd.Wait`, cancellation.
8. `Planning`, `Expressions`: matrix expansion, validation and cycle search, the
   graph, the selection of jobs from changed files, and conditions, each against
   a reference definition.
9. `CliRun`, `MCCliRun`: an invocation from the plan file to the exit code, on
   top of 8 and of `DagExecution`; dashboard, notifications, digest, signals.

```
 DagExecution <-- refined by -- Scheduler <-- extended by -- McpRuns
      ^  ^                         ^
      |  '-- refined by -- JobSteps (steps for jobs)
      |
 CliRun -- extends --> Planning        -- instance --> Expressions
 Resume, CacheStore, Services, LogPipe: each a part of runJob, on its own
```

Eight of the modules have theorems about them, in modules of their own that
extend them: `SchedulerProofs`, `JobStepsProofs`, `CacheStoreProofs`,
`ResumeProofs`, `McpRunsProofs` (which extends `SchedulerProofs` too),
`ServicesProofs`, `LogPipeProofs` and `CliRunProofs`. No module uses a RECURSIVE
operator, so each of them can be reasoned about.

## Scheduler

`Scheduler.tla` has one variable for each map of the `scheduler` struct (a
`map[string]bool` is the set of its true keys), the semaphore and the WaitGroup
as counters, the run's context as two booleans (`canceled`, and `interrupted`
for the caller's context), a place per goroutine (`pc`), the place of `Run`
(`main`), the jobs written to the store (`recorded`) and the events each
observer got (`events`). `plan` is the plan and the options of the run; it is
chosen at the start among `Plans` and never changes.

| Code | Action |
|---|---|
| `launch`, `depsState` (216-256) | `Launch`: the whole pass over `dag.Nodes`, including the jobs it marks as blocked on the way and the goroutines it starts; `Blocked` looks at needs in the order written, as the code does |
| `s.sem <- struct{}{}` (386) | `TakeSlot` |
| resume (394-408) | `ResumeHit`, `ResumeMiss` |
| services and egress proxy (413-443) | `SidecarsUp`, `SidecarsFail` |
| `if` (448-465) | `CondTrue`, `CondFalse`, `CondInvalid`; `Holds` is `evalIf` |
| missing secrets (469-473) | `SecretsFound`, `SecretMissing` |
| environment, `JobStarted` (474-538) | `BeginSteps` |
| steps and the critical section after them (539-563) | `FinishSteps` |
| `MarkJobDone`, `cleanAfter` (567-574) | `Record` |
| `JobFinished` or `JobSkipped` (461, 576-584, 599-604, 404) | `Notify` |
| `s.launch(ctx)` at every way out | `LaunchNext` |
| deferred calls (385-387) | `Exit` |
| `finishFailed` (591-606) | `FinishFailed`, then `Notify`, `LaunchNext`, `Exit` |
| `Run` (198-201) | `LaunchFirst`, `Return` |
| a signal or `ship_cancel` | `Interrupt` |

Each critical section of `s.mu` is one action, and so is each stretch between
two of them in which something other goroutines can see is done. Reads made
under the mutex for the job alone (`evalIf`'s snapshot, fingerprints, upstream
outputs) are part of the stage they belong to; `UpstreamFrozen` is the reason
why this is no loss.

What is abstracted: the outcome of services, secrets, `MarkJobDone` and the
steps is any of those the code allows; cancellation only makes steps fail,
which they may do anyway; a condition is one of the kinds of thing an expression
can depend on (the run's failure state, a result, an output) or does not parse.

### Properties

Invariants: `TypeOK`; `NeedsSatisfied`; `NoLostWakeup`; `SlotsAccounted`;
`FailFast`; `ObserverAgrees`; `AllSettled`; and, proved only, `ResultsVisible`. Action properties: `OutcomesFinal`, `UpstreamFrozen`. Liveness:
`Termination`. Refinement: `ImplementsDagExecution`. Each is stated in words in
the module, above its definition.

`DagExecution` is the abstract specification: jobs wait, run, end in one of five
ways or are marked as blocked; the run returns when nothing runs and nothing
could. The refinement mapping (`Status`) reads the status of a job from `done`,
`failed`, `inFlight` and `results`, and shows that goroutines, slots, places,
events and the window between an outcome and the `launch` that follows it are
invisible from outside.

### Runs

| Run | Instance | Shows |
|---|---|---|
| `scheduler` (`MCScheduler.cfg`) | 258 plans, two slots | all of the above properties |
| `scheduler_tolerant` | a tolerant job whose set-up fails | `TolerantNeverFatal` fails: `finishFailed` ignores `ContinueOnError` |

The plans of `scheduler`: every graph of three jobs, cyclic ones and every order
of the needs included, with one job tolerant or none (250); and eight plans made
for a purpose: a join of two roots with a tail (a failure while a sibling runs),
the same in reverse definition order, resumable jobs with outputs that
conditions read, every failure of the set-up stages, a job that waits for
`failure()`, a selection of jobs, a plan that no validator would accept, and four
jobs of different kinds on two slots. Three jobs are enough for a need that
fails, a dependent, and a third party that interleaves; four with two slots make
goroutines wait for a slot. No counter needs a bound: every job runs once.

Deadlock is checked. `Over` stands for the process after `Run` has returned.

### Fairness

Weak fairness of `LaunchFirst`, `Return` and every goroutine's `RunJob`: the Go
runtime runs every runnable goroutine, a mutex is handed on, and a semaphore
channel with a free slot accepts some sender (`TakeSlot` stays enabled for one of
the waiting goroutines until it is taken, and no goroutine takes a slot twice).
A job's set-up and steps are assumed to come to an end, which is up to the
user's commands and their timeouts. Nothing is assumed of `Interrupt`.

## Job steps

`JobSteps.tla` models one job from the call of `runSteps` to its return. The
goroutine of the job (`Job`) runs the steps in order; if any step has needs,
each step is a goroutine of its own. A goroutine has a `stack` of lists of
steps: below, what `runSteps` gave it, above, the handlers of the step it is in.
A frame of the stack holds the place in the treatment of the first step of the
list, the number of attempts, the error of the last one and what
`captureOutputs` has read. The commands are the environment: they end, with 0
or not, or they never end; they write to `$SHIP_OUTPUT`, or not.

| Code | Action |
|---|---|
| `runSteps`, `runStepsSequential` (766-792) | `StartSequential`, `NextStep`; `ListReturns` on a fatal step |
| `launch`, `depsOK` (803-852) | `Launch`, in `StartDAG` and `Relaunch` |
| the critical section after `runJobStep` (841-847) | `GoroutineEnds` |
| `wg.Wait`, return (853-855) | `Return` |
| `If` (872-881) | `IfTrue`, `IfFalse` |
| cache (940-950, 956-961) | `CacheHit`, and `Succeeds` for `Save`, whose error is ignored |
| `run.Run` (1021-1034, `runner/native.go`) | `FirstAttempt`, `Write`, `Exits`, `Killed` |
| retry, back-off (1036-1053) | `Retry`, `BackoffOver` |
| `emitStepFailure`, `classifyFailure` (979-1015) | `GiveUp`, `Kinds` |
| `captureOutputs` (911-921) | `Parse`, then `Merge` under `capMu` |
| `onFailure`, continue-on-error (892-908) | `ReturnOK`, `RunHandlers`, `ReturnFailed` |
| contexts (194-196, 519-525, 561) | `Interrupt`, `Expire`, `SiblingFails` |

The steps of a job, handlers included, are a forest (`NestingAssumption`): in the
plan each `StepPlan` is a value in one list. In the refinement, a handler has no
status of its own: what is seen of a step is what `runJobStep` returns for it
(`Status`).

The data are abstracted to who wrote last: `file` and `captured` name a step.
`ran`, `late`, `shown` and `cut` record what happened, for the properties:
attempts, attempts that ended after the job's context had, the last event of the
step, and whether its last attempt was ended by a deadline.

| Run | Instance | Shows |
|---|---|---|
| `job_steps` (`MCJobSteps.cfg`) | six jobs | invariants `OutputsCaptured`, `HandlersChangeNothing`, `TimeoutsNamed`, `RetriesStop`; liveness `Drains`, `TimeoutsBound`; refinement `ImplementsDagExecution` |

The jobs: retries with and without a delay under two deadlines; handlers that
fail and have a handler; conditions of every kind with a cache; a diamond whose
branches write outputs in parallel; a chain defined backwards with a timeout on
every step; a cycle that no validator would accept. `MaxRetries` is 2: one
retry that is made and one that a cancellation prevents. Two steps in parallel
are enough for every race on the maps, which are touched in one critical section
per goroutine; three make a dependent.

A job context that has ended is not enough to fail the job: a step with
continue-on-error that is killed by the job's deadline is tolerated, and if it
is the last one, `runSteps` returns success.

Fairness: every goroutine goes on, timers fire, and a command that is killed
dies (`Killed` is part of `Advance`). `Exits` is not fair: nothing makes a
command end. So `Drains` and `TimeoutsBound` say that cancellation and deadlines
alone end the job, as is assumed in the liveness of `Scheduler`. `Interrupt` and
`SiblingFails` are not fair either.

## Cache store

`CacheStore.tla` models one store on disk and everything that touches it. A
*run* is a process; its *workers* are the job goroutines, each concerned with
one key, of a step or of a job (`MarkJobDone`, `JobDone` and `RestoreJob` are
`Save`, `Has` and `Restore` under a key of their own). The *pruner* is `ship
cache prune`. Each call of the file system is a step of its own, and any process
may die between two of them.

| Code | Action |
|---|---|
| `Open` (`store.go` 19-33) | `Open`: the copy of the index is what parses |
| `execStep`, resume (`scheduler.go` 394-400, 940-961) | `Lookup` (`Has`), `Command` |
| `Restore` (72-108) | `OpenObject`, `RestorePart`, `RestoreEnds` |
| `Save`, `addFile` (46-69, 110-130) | `Create`, `WritePart`, `SaveFails`, `Register` |
| `flush` (132-137) | `Marshal`, `Truncate`, `Flush` |
| `listObjects`, `Prune`, `dropIndexRefs` (`gc.go`) | `List`, `Remove`, `PruneEnds`, `DropIndexRefs` |
| end of a process, normal or not | `Exit`, `Crash` |

An object is a file with *parts*; as a file that is open survives its name, the
files that had one name are numbered (`dir` has the number of the one that the
name denotes, 0 if it denotes none). A writer keeps its offset when another
truncates the file, so `data` is a set of parts and may have a gap, at which a
reader stops. The index is a set of keys, `Empty` after the truncation, or
`Garbage` when two texts of different length lie over each other. The unlocked
map of the store is a data race: two entries made at a time may become one, or
the runtime kills the process, which is a `Crash`. Not modelled: a disk that is
full, an object that may not be removed, a listing during which objects change,
and equal modification times.

`recent` has the keys with objects by modification time, oldest first; creating or
writing an object moves its key to the end (`Touched`), and `Prune` lists them in
this order. `completed`,
`disturbed` and `sequential` are history, for the properties.

| Run | Instance | Shows |
|---|---|---|
| `cache_store` (`MCCacheStore.cfg`) | two keys, two workers in one process or in two, the pruner, objects of two parts, a limit of three | `EntriesCompleted`, `HitsIntact`, `IndexMatchesObjects`, `PruneIsExact` |
| `cache_hits` | the same | `HitsRestore` fails: an object vanishes between `Has` and `Restore`, the step counts as cached |

`MaxOpens` is 3: a store is filled, pruned or damaged, and used again. Two
workers are enough for two writers, or a writer and a reader, of one file; a
third process, the pruner, takes its name away at the same time. Two parts are
the least that can be half written or half read, and leave a gap. The limit of 3
admits one whole object of two and part of another. Keys, workers and runs are
symmetric. The run has no liveness: no operation of the store waits for another.

What these properties say of the code: overlapping runs lose each other's
entries (a later run repeats the work), and after a crash an entry may name an
object that was cut short; `HitsIntact` lists every way to that. A failed `Save`
over an object that an entry names leaves the entry.

## MCP runs

`McpRuns.tla` extends `Scheduler` with one run of the MCP server: the goroutine
that `Start` launches calls the scheduler, every event goes to `observe`, and
requests are answered in between.

| Code (`internal/mcp/run.go`) | Here |
|---|---|
| `Run.jobs`: keys, statuses | `known`, `view` |
| `Run.state` | `state` |
| log files under `LogDir` | `logs`, whose output each holds; `logged`, who has opened its own |
| `Start` (172-192) | `McpInit` |
| `planfile.Load` in `defaultRunFn` fails (154-157) | `LoadFails` |
| `scheduler.Run` with `observe` (158, 212-241) | `RunMain`, `RunOne`: a step of the scheduler, with `Observe` for its events |
| `jobLogFile` (`scheduler.go` 507-514) | `Persist` |
| end of the goroutine (195-207) | `Settle`, `Verdict` |
| `Cancel` (281-290) | `Cancel` |
| `snapshot`, `JobLog` | no action: they read; invariants speak of what they may read at any moment |

`Listings` are what `Start` may have been given for a file that is edited before
it is loaded again; `LogName` maps two jobs to one file, as `sanitizeLogName`
does for `test/x` and `test_x`. A log file may be there at the start: ids begin
at `run-1` again in every server process, and so do the directories. Not
modelled: the details of a failure that `recordFailure` copies, two servers that
run at the same time on one directory, and the moments inside one pass of
`launch` between two skip events.

| Run | Instance | Shows |
|---|---|---|
| `mcp_runs` (`MCMcpRuns.cfg`) | four plans, four jobs, two of them with one log file, files left over or not | `StatusHonest`, `LogsOwn`, `OverIsOver`, `CancelEnds` |
| `mcp_unvalidated` | a plan with a cycle | `PassedIsComplete` fails: `ship_run` never calls the validator, the jobs of the cycle never start and the run is reported as passed |

The plans are the join, the failing set-ups, the race of `failure()` and the
unvalidated one of `MCScheduler`: every event kind but `resumed` (the server
never resumes), a failure beside a running sibling, and a run that ends with
jobs left over. One run is enough: runs share only the counter that numbers them.

`StatusHonest` has three parts: `ViewTruthful` (a status that is reported was
true of the job when it was told), `ViewComplete` (when the run is over, no job
that ran is missing or shown as running) and `VerdictHonest` (the state of the
run is the verdict of the scheduler, or says that it was canceled or not loaded).

Fairness is that of the scheduler, and that the goroutine of `Start` goes on
when the scheduler has returned. Nobody has to cancel.

## Services

`Services.tla` models what a job with sidecar services asks of the container
engine, and what several such jobs, of one run or of several, do to each other
there. A *user* is the goroutine of such a job.

| Code (`internal/runner/services.go`) | Here |
|---|---|
| `network rm`, ignored (34) | `RemoveStale` |
| `network create` (35-37) | `Create`, then `Created` or `CreateFails`; no `Stop` but the one of `runJob` |
| loop over the services (39-54) | `Run`, then `Running`, `RunFails` or `RunOrphans` |
| `waitHealthy` (81-104) | `Probed`, `ProbeFails`, `ProbeHangs`, `ProbeKilled`, `Expire` |
| `Stop(ctx)` (52, 58), then `Stop(context.Background())` in `runJob` (418, 423) | places `stop` and `down` of `StopOne`, `StopNetwork` |
| the job itself | place `up`, `JobEnds` |
| `exec.CommandContext` (`exec.go`) | a command is not begun when the context is canceled; a client that is killed may have been heard or not |
| the engine | `networks`, `owner`: unique names, no removal of a network in use, `--rm` |

A container is named by its network and its service, so its name says which
network it is on. A removal is one step: a client killed before or after it is
heard is the same as a cancellation after or before the step. The engine carries
out what it is asked to remove. `Kill` is the death of the process when its
last command to the engine has had its effect or not. `started`, `answered`,
`died`, `orphans` and `tainted` are history.

The run `services` (`MCServices.cfg`) has two users, each with two services in
opposite orders, one of which has a health command; their networks have the same
name or not; each belongs to a run of its own, so that either is canceled or
killed alone (two jobs of one run are the case where both are). The two
containers of the first network may end by themselves. Two users are enough for
every conflict over a name; two services are the least for a start that fails
half-way. It shows `UpIntact`, `OnlyOrphansLeft`,
`NetworkRemoved` and `CancelEnds`.

The last disjunct of `UpIntact` is a real one: with names in common, the second
`Stop` of a job whose start failed removes the container that another job has
started under that name since the first. And `CancelEnds` needs the
cancellation: a health command that hangs is not ended by the deadline.

Fairness: goroutines go on, commands to the engine end, the steps of a job end.
`ProbeHangs` and `Expire` are not fair; nothing makes a health command return.

## Resume

`Resume.tla` models runs with `--resume`, one after the other, in one working
tree: the resume path of `runJob`, `fingerprint`, `cleanAfter`, the four
functions of `internal/cache/fingerprint.go`, and `launch` reduced to needs. A
file has a *value*, which says how it came about (which job, under which
definition, from which values it had read, and whether the command ended well),
and a *stamp* for size and mtime, another one after every write. So a file is
right if and only if its value is, and there is no need for contents.

The definition of a job has two parts, as `scheduler.go` 334-379 divides it: what
is `hashed` into its fingerprint (the commands of its steps, the image, variables
and environment of the job, secrets) and the `other` part (environment, shell and
directory of a step, handlers, conditions, tolerance, toolchain, sidecars, network,
overlay, engine, mounts). A command depends on both. It reads files and, from the
jobs in `hears`, values that they passed by `$SHIP_OUTPUT` (`jobOut`). An edit
changes one of the parts or takes that back; the lists of a plan (needs, inputs,
outputs, what is cleaned) are not edited.

| Code | Here |
|---|---|
| `fingerprint`, `JobDone` (`scheduler.go` 393-396, `fingerprint.go` 24-61) | `Check`, `Fingerprint`: hashed part of the own definition, stamps of declared inputs, fingerprints of those needs that have one |
| `RestoreJob` (397, `store.go` 72-108) | `Restore`: rewrites every file, with new stamps |
| publication of a resumed job (398-405) | `PublishResumed`, which leaves `jobOut` as it is |
| `injectUpstreamOutputs` (489, 682-692), steps | `Begin` (what the command reads), then `Succeed` or `Fail` |
| critical section (541-563) | `Publish` |
| `MarkJobDone`, `cleanAfter` (567-574, 741-748) | `Mark`, `CleanAfter`: dependents may run in between |
| `launch` | `LaunchNext` |
| the user | `NewRun`, also when a run was killed, with a change to a job or taking one back; `EditSource`, at any time |

`kept` and `used` are history: the jobs recorded since the last edit, and the
definitions that runs were started with. The run `resume` (`MCResume.cfg`) has
five plans over a library, an application and a check: with fingerprints all the
way, with a library whose failure is tolerated, with a library that declares no
outputs, with a check that knows of the library by the application's fingerprint
only, and with an application that reads a value which the library passes. `MaxRuns` is 3 and `MaxEdits` 2: a change, its
revocation (the old fingerprint recurs, and its archive is taken out again over
newer files), and a run after each. It shows

* `IncrementalIsClean`: what a run that ended well leaves is what a run from
  scratch would leave. It needs `Covered`, that everything a job builds on shows
  in its fingerprint: a need without declared outputs, or one that is tolerated
  when it fails (and publishes its fingerprint all the same), does not;
  `Tracked`, that it reads only sources it declares and files of jobs that its
  fingerprint knows, directly or through others, and no values, which are lost
  when the job that passes them is resumed; and `Told`, that two definitions it
  was run with which are hashed alike are the same (together, of a job and all
  below it, and with `Private`, `Hermetic`). Without `Told`, or with values in
  `Tracked`, TLC finds stale files: both are divergences, listed below;
* `ArchivesExact`: an archive holds all declared files of one execution, although
  it is made after dependents may have started; it needs `Private`, that no other
  job writes those files;
* `RecordedNotRepeated`: what was recorded is not executed again before the next
  edit, if the declared inputs are sources.

Slots, conditions and sidecars are those of `Scheduler`, and damage to the store
is that of `CacheStore`. There is safety only: termination is that of `Scheduler`.

## Output of a step

`LogPipe.tla` models the way of a step's output from the process to the console,
the log file and the tail that a failure reports. The output is a sequence of
pieces, each of a step, with or without a newline at its end.

| Code | Here |
|---|---|
| the command | `Write`, `Exit`; `SIGPIPE` when the copier is gone |
| the copying goroutine of `os/exec` | `Read` (with `tailWriter.Write`), `ToConsole`, `ToFile`, `EndOfFile` |
| `tailWriter` (`tail.go`) | `Tee`, `Push`, `Tail_` |
| `MaskedPrefixed` (`stream.go` 58-77) | `Scan`, `PrintLine`, `TooLong` |
| `NativeRunner.Run` (`native.go` 19-59) | `StartCmd`, `WaitDone`, `KillGroup`, `Reap` |
| the context of the step | `Cancel` |

| Run | Instance | Shows |
|---|---|---|
| `log_pipe` (`MCLogPipe.cfg`) | two steps in parallel, one with a child in the background, five scripts, a disk that may be full | `OutputComplete`, `TailHonest`; liveness `CanceledReturns` |
| `log_pipe_long_line` | a line longer than the buffer of the Scanner | `CanceledReturns` fails |

`FdSize` 1 makes a writer block at once; `MaxLine` 3 is reached exactly by one of
the scripts of the passing run, and passed by the other run; `MaxTail` 2 is less
than the lines of one script. Two steps are the least that can mix their lines.
How bytes are grouped into pieces, and the masking of secrets, are left out; on
the console, a line may therefore hold pieces of two steps, as it may in the code.

Fairness: the console reader, the copiers and `Run` go on, the copiers strongly
because they take turns at a lock. Nothing is assumed of commands: `Write` and
`Exit` may never happen. So a step whose command leaves a child in the background
with its output open returns only when it is canceled, which `CanceledReturns`
does not exclude.

## Before the run

`Planning.tla` holds the pure algorithms on a plan, as operators: `ExpandMatrix`
(`compiler/matrix.go`, and `ToPlan` of the builder DSL, which does the same),
`Validate` with `FindCycle` and its `Dfs` (`internal/validator`), `Subgraph`, `Affected` and
`TopoOrder` (`internal/graph/dag.go`), `MatchGlob` and `AffectedJobs`
(`internal/changed/git.go`), `ExpandGlob` (`internal/cache/hash.go`). Suffixes
are sequences of what dashes separate, so that `x-y` of one dimension and `x`, `y`
of two give the same id, as in the code; names of files have a stem and an
extension, and a path is a sequence of names, which is enough for `filepath.Match`
with a star in place of a stem or an extension, and for prefixes that end inside
of a name. Paths of files begin at the top of the repository, as git prints them;
a glob holds the segments that the plan has, `.`, `..` and empty ones between two
slashes included. `ExpandGlob` joins them with the working directory and so cleans
them (`Cleaned`), and drops all slashes after `**`; `MatchGlob` compares them as
they are with the name that git prints. The reference definitions are not algorithms: a graph has no cycle if
every set of nodes has one that needs none of the set (`Grounded`), an order is
right if each job comes once and after its needs (`Ordered`).

`Expressions.tla` holds the recursive-descent parser of `internal/expr`, which
computes while it parses, on tokens (`Parser`; the functions that call each other
are functions of the position, and calls nest at most as deep as there are
tokens). Beside it is the grammar of the header comment: the phrases that can be
formed of the tokens, each with its level, where it starts and ends and what it
denotes (`Phrases`), bottom up and in as many rounds as there are tokens. It has no
loops, no lookahead and no order. `Agrees` says that the parser accepts what the
grammar derives, no more and no less, and with the value of the derivation. Values
are represented by what `toStr` makes of them; numbers that are not written as
`toStr` writes them are not looked at.

Both are functions and folds, checked in the run `cli_run` below.

## Command line run

`CliRun.tla` models one invocation, `RunFile` and `runCompiled`, from the plan
file to the exit code. The scheduler is represented by `DagExecution`; what it
tells the observers comes some time after the fact (`ObserverAgrees`).

| Code (`flow/main.go` unless noted) | Action |
|---|---|
| `planfile.Load`, `validator.Validate` (`flow/file.go` 12-27) | `Load` (with `ExpandMatrix`), `ValidatePlan` |
| `--compile`, `--graph` (181-195) | `Mode` |
| `--job`, `--changed` (197-222) | `Select` |
| observers and the first notification (224-294) | `Start` |
| `launch`, `runJob` | `Launch`, `Settle` (resumed, skipped, not set up, or its steps begin), `Finish`, `Tell` |
| the chain of observers: dashboard, notifier, digest (253-294, `tui.go` 68-94) | `Observe` |
| goroutines of `Send` (`notify.go` 93-103) | `Deliver`: all sinks take the message (`delivered`), or one does not and its error is dropped (`refused`) |
| return, `SendSync`, digest, exit code (296-332) | `Return`, `Notify`, `Report` |
| `SIGINT`, `SIGTERM` | `Interrupt` |

The run `cli_run` (`MCCliRun.cfg`) goes through some thirteen thousand
invocations:

* every graph of three jobs with needs from ten lists (needs written twice and
  unknown jobs among them), doubled ids, step graphs, matrices with empty
  dimensions and with values that have a dash in them: `AcceptedRuns` says that
  the validator rejects exactly what could not be executed, that the cycle it
  prints is one, and that `TopoOrder` respects the needs;
* a pipeline of three jobs, in the top directory and in one below, with pairs of
  clean and unclean globs and every set of changed files: `SelectionCovers` says
  that no changed file is an input of a job left out by `--changed`, nor of one
  that it builds on, if the glob that has it is written as git writes names
  (`AsGitNames`): clean, and in the top directory or without a directory of its
  own, as `**/*.go` and `*.md` are. For the others it is wrong, see below;
* every condition of up to four tokens, and longer ones in which precedence
  matters: `EvalAgrees`;
* runs with a dashboard, notifications, conditions, resumed and tolerated jobs,
  with a signal at every moment: `OutcomeReported` says that the exit code, the
  digest and the dashboard agree with what has happened, and that the sinks have
  been asked to take the outcome before the process ends. They may refuse, as they
  do after a signal, and the exit code does not tell (`notify.go` 1-3: best-effort).

Not modelled: the preheats, which leave no trace in the run; the text that is
printed; names of files that git prints in quotes; symbolic links; globs that leave
the repository and come back by its name. There is safety only: that the run ends is a matter of `Scheduler`.

## Known divergences

Where the code does not do what a document, a comment or a test of the
repository says. The first four have a run that shows them, `findings` in
`PROJECT.json` has the lines.

| What | Where | Shown by |
|---|---|---|
| a tolerant job whose set-up fails fails the run | `scheduler.go` 591-606 | run `scheduler_tolerant` |
| a step is reported as cached although its object is gone when it is restored | `scheduler.go` 940-950 | run `cache_hits` |
| a run started through MCP is not validated: a cyclic plan passes | `mcp/run.go` 154 | run `mcp_unvalidated` |
| a line of more than 1 MiB blocks the step for ever, killed or not | `logs/stream.go` 66 | run `log_pipe_long_line` |
| one pass of `launch` marks only those jobs as blocked that are defined after their need | `scheduler.go` 216-256, `SPEC.md` 301 | `BlockedAreSkipped` with `Plans <- BackwardsOnly` |
| a resumed job has no result for conditions to read | `scheduler.go` 394-405, `SPEC.md` 404 | `ResultsRecorded` with `Plans <- DataFlowOnly` |
| the failure of a handler replaces the cause that is reported | `scheduler.go` 996, `SPEC.md` 421 | `HandlersKeepCause` with `Plans <- HandledOnly` |
| a step killed by its timeout in a container is reported as an exit | `scheduler.go` 1006, `exec.go` 54 | `TimeoutsNamed` with `Plans <- Contained` |
| restoring rewrites mtimes, so a job that declares a restored file as an input runs again | `fingerprint.go` 76-79, `SPEC.md` 505 | `RerunSkipsRecorded` with `Plans <- DerivedInput` |
| an edit to what is not hashed of a job (the `other` part above) leaves its fingerprint, and `--resume` brings back its old files | `scheduler.go` 334-379, `fingerprint.go` 13, `SPEC.md` 597 (the last four of the list) | `IncrementalIsClean` without `Told` |
| a job that is executed again gets no value of a need that was resumed | `scheduler.go` 394-407, 682-692 | `IncrementalIsClean` without `hears` in `Tracked` |
| `--changed` leaves out a job whose input has changed: git names files from the top of the repository, globs are relative to the working directory; and `./src/**`, `src//**`, `src/**//*.go` and `../*.md` are cleaned when inputs are hashed, but not when changes are matched | `git.go` 16, 86-106, `hash.go` 108, 169-174, `SPEC.md` 515 | `SelectionCovers` without `AsGitNames` |
| a disk that is full fails a step through its log | `logs_persist.go` 10 | `LogsNeverFail` in `MCLogPipe.cfg` |

Each of the six of these whose property is named with constants or a configuration
becomes a counterexample when the property is added to the configuration of its
module as an invariant, with the constants as given; each of the three named with
"without" does when that condition is struck out of the property.

Seen while reading, without a property: the console pipe is never closed, though
`SPEC.md` 594 has it so; a matrix with an empty dimension makes its job vanish,
and jobs that need it are rejected for an unknown job; if a matrix job and, after
it, a plain job have one id, needs on that id become needs on the plain job only,
and the validator, which looks after the expansion, sees no doubled id
(`matrix.go` 28; `NeedsCarriedOver` is about names that one job has); of two steps with one id
in a step graph the second never runs, and nothing rejects them; `true.x` is an
error of the evaluator although the grammar admits it; `needs.<job>.result`
cannot name an expansion of a matrix; `--changed` looks at uncommitted changes
only if the committed ones cannot be had, and does not add what the affected jobs
need (`SPEC.md` 598); notifications are best-effort (`SPEC.md` 537): those of single
jobs may be lost at exit, the final one fails after a signal, and no error of a
sink is shown (`notify.go` 107-114); the outputs that a job declares are not in its
fingerprint, so one that is added is missing from the archive that is taken out; a second signal is swallowed; the ticker of the
dashboard may paint once after `Stop` (`tui.go` 125-134); the digest has a case
for failed dependencies that nothing reaches, and lists tolerated failures.

## Proofs

Eight modules hold the theorems, each about the module that it extends, for
every value of the constants that the named `ASSUME`s of that module admit: any
number of jobs, steps, processes, users and runs, any plans of the type that
`PlanType` gives. `about` in `PROJECT.json` says in a sentence what each
theorem establishes. Invariants are proved the usual way: an inductive
invariant, which TLC has checked on the run of the module first, one lemma for
each action or kind of action that keeps it, and a theorem that combines them.

No theorem takes a property on trust. Most assumptions only give the constants their
types. Those that do more have a reason in the code: `NestingAssumption` of
`JobSteps` (a step is a value in one list), `AcyclicAssumption` of `Resume` (the
validator rejects cycles), `McpPlansAssumption` of `McpRuns` (the server never
resumes and runs all jobs), and `ResumeAssumption` of `CliRun` (what conditions
read of a resumed job is a matter of `Scheduler`).

### `SchedulerProofs`

`RunJobCases` shows that a step of a job goroutine does one of three things: it
*moves* and leaves the shared state alone, it *settles* its job by adding it to
`done`, or it is a call of `launch` (`LaunchScans` names the two sets that such a
scan finds). `StepCases` extends this to every step of the specification. The
inductive invariant `IInv` is `TypeOK`, `NeedsSatisfied` and `PlacesCoherent`:
the place of a goroutine says whether its job was started and whether it is
done, and a job that is done without having been started has failed.
`PlacesCoherent` is needed because nothing in `NeedsSatisfied` alone prevents a
goroutine from settling a job twice, or a job that is done from failing
afterwards under its dependents. Plans may be cyclic and unvalidated.

| Theorem | Property | Beyond `IInv` |
|---|---|---|
| `TypeCorrect` | `TypeOK` | |
| `NeedsAreSatisfied` | `NeedsSatisfied` | |
| `OutcomesAreFinal` | `OutcomesFinal` | a job is settled only while it is not done |
| `UpstreamIsFrozen` | `UpstreamFrozen` | needs of a running job are done, hence final |
| `NoWakeupIsLost` | `NoLostWakeup` | a scan leaves nothing startable behind; whoever settles a job is still to call `launch` |
| `ResultsAreVisible` | `ResultsVisible` (no run) | `OutcomesPublished`, inductive with `IInv` |
| `FailsFast` | `FailFast` | a scan marks a job only after some job has failed, by taking the first marked job in definition order |
| `SlotsAreAccounted` | `SlotsAccounted` | cardinalities of the sets of goroutines that hold a slot or are alive |
| `TheObserverAgrees` | `ObserverAgrees` | `EventsFollow`: the events of a job, by the place of its goroutine; `Quiet`: nobody is alive when `Run` has returned |
| `AllAreSettled` | `AllSettled` | `NoneLeftBehind`: in a plan in dependency order, one scan marks all that it blocks, so a job that is left over has a goroutine that is still to call `launch` |
| `RefinesDagExecution` | the safety part of `ImplementsDagExecution` | `IInv`, `NoLostWakeup`, `Quiet`: a move is a stutter, settling is `EndSomehow`, a scan is one `Advance`, the end of the main goroutine is `Return` |

### `JobStepsProofs`

At any time a step is in one list of one goroutine at most (`Apart`): that is
what `NestingAssumption` is for, and why what is known of a step in hand, or of
one that nobody has come to yet, survives what other goroutines do. `FrameFacts`
says what is known of the steps of a list, by the place its goroutine is at;
`StepFacts` what is known of any step. With the types of the state and the shape
of the stacks they are the inductive invariant `IInv`.

| Theorem | Property | Beyond `IInv` |
|---|---|---|
| `Typing` | `TypeOK` (no run) | |
| `RetriesAreCutShort` | `RetriesStop` | |
| `HandlersAreHarmless` | `HandlersChangeNothing` | |
| `TimeoutsHaveACause` | the same as below, step by step and in every plan (no run) | |
| `TimeoutsAreNamed` | `TimeoutsNamed` | unless a timed step runs in a container, the divergence named above |
| `OutputsAreCaptured` | `OutputsCaptured` | `OutputInv`: whoever wrote last is still to parse the file, or what he wrote is merged |
| `StepsRefineDagExecution` | `ImplementsDagExecution` | `RunInv`, below |

The refinement. Of a goroutine, the abstract run sees its outermost list and
whether its first step is under way (`Outer`); what goes on in handlers it does
not see. `RunInv` says how that and the verdicts hang together: for a graph
(`GraphInv`), which steps are claimed, finished and failed, and that a step is
ready only while somebody is to call `launch`; for a list (`ListInv`), that some
first n steps have ended well and the list in hand is the rest (`Progress`).
Every step then is the beginning of the run, its return, a call of `launch`, or a
step of one goroutine that is invisible (`Inside`), begins a step (`TakesUp`) or
ends one. (As the module states no fairness for its abstract
specification, this theorem is all of the property.)

### `CacheStoreProofs`

Any keys, any finite set of workers, every way in which they belong to
processes, objects of any length.

| Theorem | Property | Argument |
|---|---|---|
| `HitsAreIntact` | `HitsIntact` | `ObjectsSound`, `ReadersSound` |
| `EntriesAreCompleted` | `EntriesCompleted` | inductive with the types of the index and its copies |
| `TheIndexMatches` | `IndexMatchesObjects` | `SequentialInv` |
| `PrunesAreExact` | `PruneIsExact` | `RecentInv`, `PruneInv`, and what sums are |

`HitsIntact` speaks of workers at a hit only. It becomes inductive with
`ObjectsSound`: an object whose key is not disturbed is whole, or a worker is
writing it and all that it has written is there (the one that last truncated the
file, whoever else writes to it); and with `ReadersSound`: a reader whose key is
not disturbed found the object, and its file is whole. `PlacesCoherent` says which
workers have a file open. `FileIsFree` is the counting argument behind the
numbers of files: fewer files of a name are open than there are workers.

`SequentialInv` says, of a store that is used by one process at a time and one
actor of it, how the index, the process' copy of it and the whole objects differ
while the actor is busy (`Agrees`): the index is the copy but during a flush; the
copy names the whole objects, less the key that is being written, or more by the
keys that `Prune` has removed. The delicate step is `Create`: only an object that
the index does not name is ever truncated, so a save that fails takes nothing
away that an entry promises.

`PruneInv` says that the pruner has removed the first `at` of its list, that
`left` is the sum of the sizes of the rest, and that it was above the limit
before the last removal for size. `RecentInv` (the list by recency names exactly
the keys with objects, each once) is behind the first of these. The sums of the
community modules are folds, that is, recursions over sets; their solution is
shown to exist, to be unique and to be what a sum should be by looking at a
least set at which it is not (`LeastSet`, `SumsExist`, `SumsAgree`, `SumsTake`,
`FoldIsSum`).

### `McpRunsProofs`

Extends `SchedulerProofs`: a step of the server's run is a step of the
scheduler, or a cancellation that comes when the scheduler has returned
(`CanceledLate`). What is left is `ServerInv`: the status of a job is what its
last event says (`ViewFollows`), what is reported of the run is what the
scheduler returned (`VerdictFollows`), nothing runs before the plan is loaded.

| Theorem | Property | Argument |
|---|---|---|
| `StatusIsHonest` | `StatusHonest` | `ServerInv`, and `EventsFollow` of the scheduler |
| `OverMeansOver` | `OverIsOver` | when the run is over, the scheduler is, and its goroutines are |
| `LogsAreOwn` | `LogsOwn` | only a job that shares the name can write to the file after the job has opened it |

### `ResumeProofs`

| Theorem | Property | Argument |
|---|---|---|
| `ArchivesAreExact` | `ArchivesExact` | `ArchiveInv` |
| `RecordedIsNotRepeated` | `RecordedNotRepeated` | `RepeatInv` |
| `IncrementalBuildsAreClean` | `IncrementalIsClean` | `CleanInv` |

`ArchiveInv`: the fingerprint of a goroutine names its job and definition, and
the files of a private job are those of its last execution from when it has ended
until it is archived. `RepeatInv` adds `Remembered`: until the next edit,
there is one fingerprint for each job fed by sources that every run will take of
it, and those of the recorded jobs are in the store.

`IncrementalIsClean` relates the tree to a run from scratch that never happened.
Its invariant therefore speaks of what the fingerprints that were ever taken
*should* stand for. `CleanInv` says that there are V, W and B such that
`AllRight`: V gives for each fingerprint the value that its job should have
written, a function of the fingerprint alone (sources by their stamps, files of
others by the values of the fingerprints in it); W gives the fingerprints below
it; B has those that are outdated: a source that one of them lists, itself or by
a fingerprint in it, has got a newer stamp since (a job may read a source after
an edit that came after its fingerprint). Archives whose fingerprints are not
outdated are right, and so are the files of the jobs that ended well under one;
an outdated fingerprint is never taken again, because stamps only grow. At the end of a run without an edit, the value of each job's
fingerprint is that of `CleanBuild`, by induction along the needs (`LeastJob`,
`LeastUpstream`: a set of jobs that is not empty has one that needs none of it).

V depends on a fingerprint alone, which has only the hashed part of a definition.
`Told` allows it: of a job for which it holds, the hashed part of a definition that
was ever used determines the whole (`Meant`). The definitions used only grow, so a
job that is `Hermetic` after a run was so before (`HermeticBefore`).

Two of the other hypotheses are easily overlooked, and real: that what a job reads of
other jobs is from jobs that its fingerprint knows (`Known`), and that no job
cleans it away. If a job in the middle declares no outputs, it hides a library that
was rebuilt from the job after it, which then is resumed. The plan `Through` of
`MCResume` is the case in which the fingerprint in the middle tells.

### `LogPipeProofs`

Any parallel steps, any scripts, any sizes of pipe, line and tail.

| Theorem | Property | Argument |
|---|---|---|
| `OutputIsComplete` | `OutputComplete` | `PipeInv`, `OutputInv` |
| `TailsAreHonest` | `TailHonest` | `PipeInv`, `TailInv` |

`PipeInv`: the kernel's pipe has the last pieces that were written and the copier
the one before; so each sink has the first n pieces, for an n that the place of
the copier tells. `TailInv`: the window is the last lines of those. The first part
of the module says what the recursions behind `Lines` and `FlattenSeq` give when
one more element is appended, by looking at the least index at which they do not.

### `CliRunProofs`

| Theorem | Property | Argument |
|---|---|---|
| `SelectionIsCovered` | `SelectionCovers` | what `Reachable` returns is closed under needs, by cardinality; `CountedMatches`: what counts for a glob that is written as git writes names matches it |
| `RunsAreAccepted` | `AcceptedRuns` | `PlanInv`; `ValidateFacts`, `JobCycleFacts`, `OrderedIfGrounded`, `CarriedOver`, below |
| `ConditionsAgree` | `EvalAgrees` | `PlanInv` (conditions are sequences); `ParserAgrees`, below |
| `OutcomeIsReported` | `OutcomeReported` | `PlanInv`, `GraphInv` (the jobs that were selected have no cycle), `RunInv` |

Most of the module is about what the recursions of `Planning` and `Expressions`
compute, for plans of any size and conditions of any length. Each is restated with its body as an operator, so that the provers
can look at one turn of it at a time, and an invariant of the turns is proved by
the least one that breaks it (`InductionTo`).

* The search for a cycle (`FindCycleFacts`). What is black is settled: its edges
  lead to black nodes only, and it is in no cycle. The stack is a path whose nodes
  are the gray ones. So an edge to a gray node closes a cycle, and what is printed
  is one (`BackEdge`); and if no cycle is found, every node is black in the end and
  the graph is `Grounded`. `Dfs` calls itself through `visit`; a call is right if
  the calls below it are right for one white node less (`DfsFacts`), so that a depth
  of as many calls as there are nodes is enough (`CallingFacts`).
* The order of Kahn's algorithm (`SortedFacts`). Between two turns the count of a
  job is the number of positions in its needs that are not in the order yet, each
  job is in the order or the queue exactly once when that is 0, and what is in the
  order comes after its needs. Jobs that never got into the order would need each
  other, which a `Grounded` plan excludes. Needs that are written twice are counted
  and released twice (`DependentsCount`); the mutant `TopoOrderOfSets` breaks this.
* `Validate(jobs) = {}` exactly if `Sound(jobs)` (`ValidateFacts`), by a lemma for
  each of the diagnostics.
* Matrix expansion: the ids that a job has afterwards are those of its
  combinations, and a need on it is resolved to each of them (`ExpansionsAre`,
  `ResolveFacts`, `CarriedOver`).
* The parser of conditions (`ParserAgrees`). A phrase is longer than those it is
  made of (`PartsShorter`), so that the rounds of `Phrases` give the least set
  closed under forming phrases (`PhrasesFacts`). Whatever a function of the parser
  returns is a phrase of its level (`PrimaryMakes`, `UnaryMakes`, `ChainMakes`).
  Conversely, calls that nest d deep find each phrase of up to d tokens that the
  next token does not make longer (`PrimaryFinds`, `UnaryFinds`, `ChainFinds`): a chain of
  operators of one level is found from the left, turn by turn, since the phrase to
  the left of its last operator is of the same level. The mutant `FlatLevels`, in
  which && binds no tighter than ||, breaks this.

`CasesAssumption` of `CliRun` asks no more of the raw plan than that its fields are
sequences and sets: the theorems are about plans with cycles, doubled ids and
unknown needs as well.

### `ServicesProofs`

Any users, runs, names and services. The invariant says that whoever has a
container knows it (`Accounted`: it is in `ids` before `Stop` and in `left`
during it), that a container is on its owner's network (`Attached`), and that a
network that nobody left behind has a user who is to remove it (`Held`). `Held`
is the delicate part: the last command of a user may fail because of a container
of another, who is then still active by `Accounted`. `StepCases` groups the
steps by their effect, and one lemma for each group shows that `IInv` is kept.

| Theorem | Property | Argument |
|---|---|---|
| `ServicesStayUp` | `UpIntact` | `Kept`, the same from the start of the first service, and `Attached` |
| `NothingElseLeft` | `OnlyOrphansLeft` | `Accounted` |
| `NetworksAreRemoved` | `NetworkRemoved` | `Held` |

### Only model-checked

Every invariant and every action property without fairness that a passing run
checks is stated by a theorem. What is left to TLC is:

* Liveness: `Termination` (and with it the fairness in `ImplementsDagExecution` of
  the scheduler), `Drains`, `TimeoutsBound`, `CancelEnds` of `Services` and of
  `McpRuns`, `CanceledReturns`. They need fairness and ENABLED, which are out
  of the prover's reach.

## Not modelled

* Argument building for container engines and the overlay runner
  (`internal/runner`, apart from `native.go`, `services.go` and `exec.go`): strings
  for other programs. What such a command does to the state of a run is the
  result of a step.
* The egress proxy: a connection is allowed or refused by a list that never
  changes. The hosts that were blocked are appended to a slice by goroutines of
  the HTTP server and read by the job's when a step has failed, without a lock;
  what is read decides the wording of a cause and nothing else.
* MCP transport and authoring: requests are answered one at a time by one
  goroutine; the authoring tools are functions of their arguments. What requests
  share with a run is in `McpRuns`.
* Secrets and masking, toolchains, the security policy: text, and data copied
  from the plan into the environment or the arguments of a command. Whether a
  secret is present is in `Scheduler`.
* The lexer of conditions, the Pkl evaluator, the builder DSL apart from its
  matrix, and everything that is laid out for a terminal.

`PROJECT.json` gives the status of every component.
