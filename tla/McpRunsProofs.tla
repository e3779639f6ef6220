---------------------------- MODULE McpRunsProofs ----------------------------
(***************************************************************************)
(* Proofs about module McpRuns, for every set of plans and of listings and *)
(* every way in which jobs may share the names of their logs.              *)
(*                                                                         *)
(* A run of the server is a run of the scheduler whose caller may cancel   *)
(* it once more when it has returned.  So what SchedulerProofs shows of a  *)
(* step of the scheduler holds here, and the rest is about what the server *)
(* makes of the events: the status of a job is that of the last event that *)
(* the observer was told of it.                                            *)
(***************************************************************************)
EXTENDS McpRuns, SchedulerProofs

(* What is known of the scheduler.  Whether a run was interrupted takes no *)
(* part in it.                                                             *)
SchedulerInv ==
  /\ IInv /\ OutcomesPublished /\ EventsFollow
  /\ SlotsAccounted /\ Quiet

(* Nothing has happened before launch.                                     *)
BeforeLaunch ==
  main = "launch" => inFlight = {} /\ done = {} /\ \A j \in Jobs : events[j] = <<>>

(* No job of these plans is resumed, and a failure that is not tolerated   *)
(* is one of the run.                                                      *)
OutcomesPlain ==
  /\ resumed = {} /\ \A j \in Jobs : pc[j] # "resume"
  /\ failed # {} => anyFail
  /\ \A j \in Jobs : results[j] = "failure" => j \in failed \/ j \in plan.tolerant

(* The late cancellation of a run whose scheduler has returned.            *)
CanceledLate ==
  /\ Returned /\ interrupted' = TRUE
  /\ UNCHANGED <<plan, main, pc, inFlight, sem, wg, recorded, events, outcomeVars>>

LEMMA SchedulerSteps ==
  ASSUME McpNext
  PROVE  [Next]_vars \/ CanceledLate
BY DEF McpNext, LoadFails, RunMain, RunOne, Cancel, Settle, Idle, allVars, Next, CanceledLate

LEMMA InitSchedulerInv == Init => SchedulerInv
<1>1. Init => OutcomesPublished /\ EventsFollow /\ Quiet
  BY DEF Init, OutcomesPublished, EventsFollow, HasTold, Setup, Quiet, Returned
<1>. QED  BY <1>1, InitIInv, InitSlots DEF SchedulerInv

LEMMA StepsKeepSchedulerInv == SchedulerInv /\ [McpNext]_allVars => SchedulerInv'
<1>1. SchedulerInv /\ [Next]_vars => SchedulerInv'
  BY NextIInv, StepsPublish, StepsTell, StepsKeepSlots, StepsKeepQuiet DEF SchedulerInv
<1>2. SchedulerInv /\ CanceledLate => SchedulerInv'
  <2>. SUFFICES ASSUME SchedulerInv, CanceledLate PROVE SchedulerInv'
    OBVIOUS
  <2>. USE DEF SchedulerInv, CanceledLate, outcomeVars
  <2>1. IInv'
    BY DEF IInv, TypeOK, PlacesCoherent, NeedsSatisfied, IncludedNeeds
  <2>2. OutcomesPublished' /\ EventsFollow'
    BY DEF OutcomesPublished, EventsFollow, HasTold
  <2>3. SlotsAccounted' /\ Quiet'
    BY DEF SlotsAccounted, Quiet, Live, Returned
  <2>. QED  BY <2>1, <2>2, <2>3
<1>3. [McpNext]_allVars => [Next]_vars \/ CanceledLate
  BY SchedulerSteps DEF allVars
<1>. QED  BY <1>1, <1>2, <1>3

LEMMA StepsKeepBeforeLaunch ==
  SchedulerInv /\ BeforeLaunch /\ [McpNext]_allVars => BeforeLaunch'
<1>. SUFFICES ASSUME SchedulerInv, BeforeLaunch, [McpNext]_allVars, main' = "launch"
              PROVE  inFlight' = {} /\ done' = {} /\ \A j \in Jobs : events'[j] = <<>>
  BY DEF BeforeLaunch
<1>1. CASE LaunchFirst \/ Return
  BY <1>1 DEF LaunchFirst, Return
<1>2. ASSUME NEW j \in Jobs, RunJob(j) PROVE FALSE
  <2>1. j \in Live /\ main = "launch"
    BY <1>2, RunJobIsLive
  <2>2. j \in inFlight
    BY <2>1 DEF Live, Started, Holding, Working, Setup, SchedulerInv, IInv, PlacesCoherent
  <2>. QED  BY <2>1, <2>2 DEF BeforeLaunch
<1>3. CASE Interrupt \/ UNCHANGED vars \/ CanceledLate
  BY <1>3 DEF Interrupt, vars, outcomeVars, CanceledLate, BeforeLaunch
<1>. QED  BY <1>1, <1>2, <1>3, SchedulerSteps DEF allVars, Next, Over

LEMMA StepsKeepOutcomesPlain ==
  SchedulerInv /\ OutcomesPlain /\ [McpNext]_allVars => OutcomesPlain'
<1>. SUFFICES ASSUME SchedulerInv, OutcomesPlain, [McpNext]_allVars
              PROVE  OutcomesPlain'
  OBVIOUS
<1>0. /\ plan.resumable = {} /\ results \in [Jobs -> Results] /\ pc \in [Jobs -> Places]
      /\ anyFail \in BOOLEAN
  BY McpPlansAssumption DEF SchedulerInv, IInv, TypeOK
<1>. USE DEF OutcomesPlain, outcomeVars
<1>1. ASSUME NEW at, NEW B, NEW S, Scan(B, S, at), \A j \in Jobs : at[j] # "resume"
      PROVE  OutcomesPlain'
  BY <1>1 DEF Scan
<1>2. CASE LaunchFirst
  BY <1>1, <1>2, LaunchScans DEF LaunchFirst
<1>3. ASSUME NEW j \in Jobs, RunJob(j) PROVE OutcomesPlain'
  <2>1. CASE LaunchNext(j)
    <3>1. \A k \in Jobs : [pc EXCEPT ![j] = "exit"][k] # "resume"
      BY <1>0
    <3>. QED  BY <1>1, <2>1, <3>1, LaunchScans DEF LaunchNext
  <2>2. CASE TakeSlot(j) \/ SidecarsUp(j) \/ CondTrue(j) \/ SecretsFound(j)
    <3>1. \E p \in Places \ {"resume"} : pc' = [pc EXCEPT ![j] = p]
      BY <1>0, <2>2 DEF TakeSlot, SidecarsUp, CondTrue, SecretsFound, Goto, AfterSlot, AfterResume,
            AfterSidecars, AfterCond, Places, Started, Holding, Working, Setup
    <3>2. UNCHANGED <<plan, outcomeVars>>
      BY <2>2 DEF TakeSlot, SidecarsUp, CondTrue, SecretsFound
    <3>. QED  BY <1>0, <3>1, <3>2
  <2>3. CASE ResumeHit(j) \/ ResumeMiss(j)
    BY <2>3 DEF ResumeHit, ResumeMiss, Goto
  <2>4. CASE SidecarsFail(j) \/ CondInvalid(j) \/ SecretMissing(j)
    <3>1. FinishFailed(j)
      BY <2>4 DEF SidecarsFail, CondInvalid, SecretMissing
    <3>. QED  BY <1>0, <3>1 DEF FinishFailed
  <2>5. CASE CondFalse(j)
    BY <1>0, <2>5 DEF CondFalse, Goto
  <2>6. CASE \E ok \in BOOLEAN, captured \in Captures(j) : FinishSteps(j, ok, captured)
    <3>. PICK ok \in BOOLEAN, captured \in Captures(j) : FinishSteps(j, ok, captured)
      BY <2>6
    <3>1. /\ UNCHANGED <<plan, resumed>>
          /\ pc' = [pc EXCEPT ![j] = IF ok THEN "record" ELSE "notify"]
          /\ results' = [results EXCEPT ![j] = IF ok THEN "success" ELSE "failure"]
          /\ failed' = IF ~ok /\ j \notin plan.tolerant THEN failed \cup {j} ELSE failed
          /\ anyFail' = (anyFail \/ (~ok /\ j \notin plan.tolerant))
      BY DEF FinishSteps, Goto
    <3>. QED  BY <1>0, <3>1
  <2>7. CASE BeginSteps(j) \/ Record(j) \/ Notify(j) \/ Exit(j)
    BY <1>0, <2>7 DEF BeginSteps, Record, Notify, Exit, Goto
  <2>. QED  BY <1>3, <2>1, <2>2, <2>3, <2>4, <2>5, <2>6, <2>7 DEF RunJob
<1>4. CASE Return \/ Interrupt \/ UNCHANGED vars \/ CanceledLate
  BY <1>4 DEF Return, Interrupt, vars, CanceledLate
<1>. QED  BY <1>2, <1>3, <1>4, SchedulerSteps DEF allVars, Next, Over

------------------------------------------------------------------------------
(* The server                                                              *)

(* The status of a job is that of the last event told of it, and every job *)
(* with an event is listed.                                                *)
ViewFollows == \A j \in Jobs :
  /\ events[j] = <<>> => view[j] = "pending"
  /\ events[j] # <<>> => j \in known /\ view[j] = StatusAfter(events[j][Len(events[j])])

(* A run is over only if the scheduler has returned or never began, and    *)
(* its verdict is the one of the scheduler, unless it was canceled.        *)
VerdictFollows ==
  /\ Returned => (main = "failed" <=> anyFail)
  /\ state # "running" => main = "launch" \/ Returned
  /\ state = "canceled" => interrupted
  /\ state = "failed" => main \in {"launch", "failed"}
  /\ state = "passed" => main = "passed"

ServerInv ==
  /\ McpTypeOK
  /\ SchedulerInv /\ BeforeLaunch /\ OutcomesPlain
  /\ ViewFollows /\ VerdictFollows

(* The observer only gets more events.                                     *)
LEMMA EventsGrow ==
  ASSUME IInv, [Next]_vars, NEW k \in Jobs
  PROVE  events'[k] = events[k] \/ events'[k] # <<>>
<1>0. \A x : Append(events[k], x) # <<>>
  <2>. SUFFICES ASSUME NEW x, Append(events[k], x) = <<>> PROVE FALSE
    OBVIOUS
  <2>1. events[k] \in Seq(EventKinds \cup {x})
    BY DEF IInv, TypeOK
  <2>2. Len(events[k]) \in Nat /\ Len(Append(events[k], x)) = Len(events[k]) + 1
    BY <2>1, AppendProperties
  <2>. QED  BY <2>2
<1>. USE <1>0 DEF IInv, TypeOK
<1>1. ASSUME NEW at, NEW B, NEW S, Scan(B, S, at)
      PROVE  events'[k] = events[k] \/ events'[k] # <<>>
  BY <1>1 DEF Scan
<1>2. CASE LaunchFirst
  BY <1>1, <1>2, LaunchScans DEF LaunchFirst
<1>3. ASSUME NEW j \in Jobs, RunJob(j)
      PROVE  events'[k] = events[k] \/ events'[k] # <<>>
  <2>1. CASE LaunchNext(j)
    BY <1>1, <2>1, LaunchScans DEF LaunchNext
  <2>2. CASE BeginSteps(j) \/ Notify(j)
    BY <2>2 DEF BeginSteps, Notify
  <2>3. CASE UNCHANGED events
    BY <2>3
  <2>. QED
    BY <1>3, <2>1, <2>2, <2>3
       DEF RunJob, TakeSlot, ResumeHit, ResumeMiss, SidecarsUp, SidecarsFail, CondTrue, CondFalse,
           CondInvalid, SecretsFound, SecretMissing, FinishSteps, FinishFailed, Record, Exit
<1>4. CASE Return \/ Interrupt \/ UNCHANGED vars
  BY <1>4 DEF Return, Interrupt, vars
<1>. QED  BY <1>2, <1>3, <1>4 DEF Next, Over

LEMMA StatusesOfEvents == \A e \in EventKinds : StatusAfter(e) \in Statuses
BY DEF EventKinds, StatusAfter, Statuses

(* The last event of a job that has any.                                   *)
LEMMA LastIsEvent ==
  ASSUME NEW s \in Seq(EventKinds), s # <<>>
  PROVE  s[Len(s)] \in EventKinds
OBVIOUS

(* What `observe` makes of the events of a step.                           *)
LEMMA ObservesEvents ==
  ASSUME ServerInv, IInv', [Next]_vars, Observe
  PROVE  ViewFollows' /\ known' \subseteq Jobs /\ view' \in [Jobs -> Statuses]
<1>0. /\ events \in [Jobs -> Seq(EventKinds)] /\ events' \in [Jobs -> Seq(EventKinds)]
      /\ known \subseteq Jobs /\ view \in [Jobs -> Statuses]
  BY DEF ServerInv, McpTypeOK, TypeOK, IInv
<1>1. /\ known' = known \cup Told
      /\ view' = [j \in Jobs |-> IF j \in Told THEN StatusAfter(events'[j][Len(events'[j])])
                                                ELSE view[j]]
  BY DEF Observe
<1>2. \A j \in Jobs : j \in Told <=> events'[j] # events[j]
  BY DEF Told
<1>3. \A j \in Jobs : events'[j] = events[j] \/ events'[j] # <<>>
  BY EventsGrow DEF ServerInv, SchedulerInv
<1>4. \A j \in Told : StatusAfter(events'[j][Len(events'[j])]) \in Statuses
  <2>. SUFFICES ASSUME NEW j \in Told
                PROVE  StatusAfter(events'[j][Len(events'[j])]) \in Statuses
    OBVIOUS
  <2>1. j \in Jobs /\ events'[j] # <<>> /\ events'[j] \in Seq(EventKinds)
    BY <1>0, <1>2, <1>3 DEF Told
  <2>. QED  BY <2>1, LastIsEvent, StatusesOfEvents
<1>5. ViewFollows'
  <2>. SUFFICES ASSUME NEW j \in Jobs
                PROVE  /\ events'[j] = <<>> => view'[j] = "pending"
                       /\ events'[j] # <<>> =>
                            j \in known' /\ view'[j] = StatusAfter(events'[j][Len(events'[j])])
    BY DEF ViewFollows, StatusAfter
  <2>1. CASE j \in Told
    BY <1>1, <1>2, <1>3, <2>1
  <2>2. CASE j \notin Told
    BY <1>1, <1>2, <2>2 DEF ServerInv, ViewFollows
  <2>. QED  BY <2>1, <2>2
<1>. QED  BY <1>0, <1>1, <1>4, <1>5 DEF Told

LEMMA PersistTypes ==
  ASSUME McpTypeOK, Persist
  PROVE  logged' \subseteq Jobs /\ logs' \in [LogFiles -> SUBSET (Jobs \cup {Earlier})]
<1>1. \A j \in Jobs : LogName[j] \in LogFiles
  BY DEF LogFiles
<1>2. \A f \in LogFiles : logs[f] \in SUBSET (Jobs \cup {Earlier})
  BY DEF McpTypeOK
<1>. QED  BY <1>1, <1>2 DEF McpTypeOK, Persist, Created

(* The scheduler goes on only under a run that is not over.                *)
LEMMA NobodyGoesOn ==
  ASSUME ServerInv, state # "running", NEW j \in Jobs, RunJob(j)
  PROVE  FALSE
<1>1. j \in Live
  BY RunJobIsLive
<1>2. j \in inFlight
  BY <1>1 DEF Live, Started, Holding, Working, Setup, ServerInv, SchedulerInv, IInv, PlacesCoherent
<1>. QED
  BY <1>1, <1>2 DEF ServerInv, VerdictFollows, BeforeLaunch, SchedulerInv, Quiet, Returned

LEMMA InitServerInv == McpInit => ServerInv
<1>. SUFFICES ASSUME McpInit PROVE ServerInv
  OBVIOUS
<1>1. Init
  BY DEF McpInit
<1>2. SchedulerInv
  BY <1>1, InitSchedulerInv
<1>3. BeforeLaunch /\ OutcomesPlain
  BY <1>1 DEF Init, BeforeLaunch, OutcomesPlain
<1>4. known \subseteq Jobs
  <2>1. plan.jobs \subseteq Jobs
    BY <1>2, PlanTyped DEF SchedulerInv, IInv, PlanType
  <2>. QED  BY <2>1, ListingsAssumption DEF McpInit
<1>5. McpTypeOK
  BY <1>2, <1>4 DEF McpInit, McpTypeOK, SchedulerInv, IInv, Statuses, States
<1>6. ViewFollows /\ VerdictFollows
  BY DEF McpInit, Init, ViewFollows, VerdictFollows, Returned
<1>. QED  BY <1>2, <1>3, <1>5, <1>6 DEF ServerInv

LEMMA NextServerInv == ServerInv /\ [McpNext]_allVars => ServerInv'
<1>. SUFFICES ASSUME ServerInv, [McpNext]_allVars PROVE ServerInv'
  OBVIOUS
<1>1. SchedulerInv' /\ BeforeLaunch' /\ OutcomesPlain'
  BY StepsKeepSchedulerInv, StepsKeepBeforeLaunch, StepsKeepOutcomesPlain DEF ServerInv
<1>2. TypeOK' /\ IInv'
  BY <1>1 DEF SchedulerInv, IInv
<1>3. CASE LoadFails
  <2>1. UNCHANGED <<vars, known, view, logged, logs>> /\ state' \in States
        /\ main = "launch" /\ (state' = IF interrupted THEN "canceled" ELSE "failed")
    BY <1>3 DEF LoadFails, States
  <2>2. McpTypeOK'
    BY <1>2, <2>1 DEF ServerInv, McpTypeOK
  <2>3. ViewFollows'
    BY <2>1 DEF ServerInv, ViewFollows, StatusAfter, vars
  <2>4. VerdictFollows'
    BY <2>1 DEF VerdictFollows, Returned, vars
  <2>. QED  BY <1>1, <2>2, <2>3, <2>4 DEF ServerInv
<1>4. CASE RunMain
  <2>1. Observe /\ Persist /\ UNCHANGED state /\ state = "running" /\ [Next]_vars
        /\ (LaunchFirst \/ Return)
    BY <1>4 DEF RunMain, Next
  <2>2. McpTypeOK' /\ ViewFollows'
    BY <1>2, <2>1, ObservesEvents, PersistTypes DEF ServerInv, McpTypeOK
  <2>3. VerdictFollows'
    BY <2>1 DEF LaunchFirst, Return, VerdictFollows, Returned, outcomeVars
  <2>. QED  BY <1>1, <2>2, <2>3 DEF ServerInv
<1>5. ASSUME NEW j \in Jobs, RunOne(j) PROVE ServerInv'
  <2>1. Observe /\ Persist /\ UNCHANGED state /\ RunJob(j) /\ [Next]_vars
    BY <1>5 DEF RunOne, Next
  <2>2. McpTypeOK' /\ ViewFollows'
    BY <1>2, <2>1, ObservesEvents, PersistTypes DEF ServerInv, McpTypeOK
  <2>3. state = "running" /\ UNCHANGED main /\ j \in Live
    BY <2>1, NobodyGoesOn, RunJobIsLive
  <2>4. ~Returned
    BY <2>3 DEF ServerInv, SchedulerInv, Quiet
  <2>5. VerdictFollows'
    BY <2>1, <2>3, <2>4 DEF VerdictFollows, Returned
  <2>. QED  BY <1>1, <2>2, <2>5 DEF ServerInv
<1>6. CASE Cancel
  <2>1. UNCHANGED <<main, anyFail, events, known, view, state, logged, logs>> /\ interrupted'
    BY <1>6 DEF Cancel, Interrupt, mcpVars, outcomeVars
  <2>2. McpTypeOK'
    BY <1>2, <2>1 DEF ServerInv, McpTypeOK
  <2>3. ViewFollows' /\ VerdictFollows'
    BY <2>1 DEF ServerInv, ViewFollows, StatusAfter, VerdictFollows, Returned
  <2>. QED  BY <1>1, <2>2, <2>3 DEF ServerInv
<1>7. CASE Settle
  <2>1. UNCHANGED <<vars, known, view, logged, logs>> /\ state' \in States
        /\ main \in {"passed", "failed"} /\ state' = Verdict
    BY <1>7 DEF Settle, RunFnReturned, Verdict, States
  <2>2. McpTypeOK'
    BY <1>2, <2>1 DEF ServerInv, McpTypeOK
  <2>3. ViewFollows'
    BY <2>1 DEF ServerInv, ViewFollows, StatusAfter, vars
  <2>4. VerdictFollows'
    BY <2>1 DEF ServerInv, VerdictFollows, Returned, Verdict, vars, outcomeVars
  <2>. QED  BY <1>1, <2>2, <2>3, <2>4 DEF ServerInv
<1>8. CASE UNCHANGED allVars
  <2>1. McpTypeOK'
    BY <1>2, <1>8 DEF ServerInv, McpTypeOK, allVars, mcpVars
  <2>2. ViewFollows' /\ VerdictFollows'
    BY <1>8 DEF ServerInv, ViewFollows, StatusAfter, VerdictFollows, Returned, allVars, mcpVars, vars,
                outcomeVars
  <2>. QED  BY <1>1, <2>1, <2>2 DEF ServerInv
<1>. QED  BY <1>3, <1>4, <1>5, <1>6, <1>7, <1>8 DEF McpNext, Idle

LEMMA ServerInvariant == McpSpec => []ServerInv
BY InitServerInv, NextServerInv, PTL DEF McpSpec

------------------------------------------------------------------------------
(* The theorems                                                            *)

(* What ship_status says of a job that has a status is so.                 *)
LEMMA ViewsAreTrue == ServerInv => ViewTruthful
<1>. SUFFICES ASSUME ServerInv, NEW j \in Jobs
              PROVE  /\ view[j] = "done" => results[j] = "success"
                     /\ view[j] = "failed" => results[j] = "failure"
                     /\ view[j] = "skipped" =>
                          results[j] = "skipped" \/ (j \in failed /\ j \notin inFlight)
                     /\ view[j] = "running" => j \in inFlight
  BY DEF ViewTruthful
<1>. USE DEF ServerInv, SchedulerInv
<1>0. /\ HasTold(j) /\ resumed = {} /\ results[j] \in Results /\ pc[j] \in Places
      /\ events[j] = <<>> => view[j] = "pending"
      /\ events[j] # <<>> => view[j] = StatusAfter(events[j][Len(events[j])])
      /\ pc[j] = "idle" <=> j \notin inFlight
  BY DEF EventsFollow, OutcomesPlain, ViewFollows, IInv, TypeOK, PlacesCoherent
<1>1. CASE pc[j] \in {"idle", "slot"} \cup Setup
  <2>1. CASE j \in done
    <3>1. events[j] = <<"skipped">>
      BY <1>0, <1>1, <2>1 DEF HasTold
    <3>2. view[j] = "skipped"
      BY <1>0, <3>1, OneEvent DEF StatusAfter
    <3>3. j \notin inFlight
      BY <1>1, <2>1 DEF IInv, PlacesCoherent, Settled, Setup
    <3>. QED  BY <2>1, <3>2, <3>3 DEF IInv, PlacesCoherent
  <2>2. CASE j \notin done
    BY <1>0, <1>1, <2>2 DEF HasTold
  <2>. QED  BY <2>1, <2>2
<1>2. ASSUME pc[j] \notin {"idle", "slot"} \cup Setup, events[j] = <<"started">>
      PROVE  view[j] = "running" /\ j \in inFlight
  BY <1>0, <1>2, OneEvent DEF StatusAfter
<1>3. CASE pc[j] \in {"steps", "record"}
  BY <1>2, <1>3, <1>0 DEF HasTold, Setup
<1>4. CASE pc[j] = "notify"
  BY <1>2, <1>4, <1>0 DEF HasTold, Setup
<1>5. CASE pc[j] \in {"launch", "exit", "gone"}
  <2>1. PICK last \in FinalEvents :
          /\ events[j] = <<"started", last>> \/ (events[j] = <<last>> /\ last # "ok")
          /\ last = "failed" <=> results[j] = "failure"
          /\ last = "ok" <=> results[j] = "success"
          /\ last = "resumed" => j \in resumed
    BY <1>0, <1>5 DEF HasTold
  <2>2. events[j] # <<>> /\ events[j][Len(events[j])] = last
    <3>1. events[j] = <<"started", last>> \/ events[j] = <<last>>
      BY <2>1
    <3>2. CASE events[j] = <<last>>
      BY <3>2, OneEvent
    <3>3. CASE events[j] = <<"started", last>>
      BY <3>3, TwoEvents
    <3>. QED  BY <3>1, <3>2, <3>3
  <2>3. view[j] = StatusAfter(last)
    BY <1>0, <2>2
  <2>4. last \in {"ok", "failed", "skipped"}
    BY <1>0, <2>1 DEF FinalEvents, EventKinds
  <2>5. results[j] # ""
    BY <1>0, <1>5 DEF OutcomesPublished, IInv, PlacesCoherent, Settled
  <2>. QED  BY <1>0, <2>1, <2>3, <2>4, <2>5 DEF StatusAfter, Results, JobResults
<1>. QED  BY <1>0, <1>1, <1>3, <1>4, <1>5 DEF Places, Started, Holding, Working

(* A run that is over has a final status for each of its jobs that is done *)
(* and none for the others.                                                *)
LEMMA ViewsAreComplete == ServerInv => ViewComplete
<1>. SUFFICES ASSUME ServerInv, state # "running"
              PROVE  /\ \A j \in Jobs : view[j] # "running"
                     /\ done = {j \in known : view[j] # "pending"}
  BY DEF ViewComplete
<1>. USE DEF ServerInv, SchedulerInv
<1>0. done \subseteq Jobs /\ known \subseteq Jobs
  BY DEF McpTypeOK, IInv, TypeOK
<1>1. ASSUME NEW j \in Jobs
      PROVE  /\ view[j] # "running" /\ j \in done <=> view[j] # "pending"
             /\ view[j] # "pending" => j \in known
  <2>0. /\ HasTold(j) /\ pc[j] \in Places
        /\ events[j] = <<>> => view[j] = "pending"
        /\ events[j] # <<>> => j \in known /\ view[j] = StatusAfter(events[j][Len(events[j])])
    BY <1>1 DEF EventsFollow, ViewFollows, IInv, TypeOK
  <2>1. CASE main = "launch"
    BY <1>0, <1>1, <2>0, <2>1 DEF BeforeLaunch
  <2>2. CASE main # "launch" /\ pc[j] = "idle"
    <3>1. CASE j \in done
      <4>1. events[j] = <<"skipped">>
        BY <2>0, <2>2, <3>1 DEF HasTold
      <4>. QED  BY <2>0, <3>1, <4>1, OneEvent DEF StatusAfter
    <3>2. CASE j \notin done
      BY <2>0, <2>2, <3>2 DEF HasTold
    <3>. QED  BY <3>1, <3>2
  <2>3. CASE main # "launch" /\ pc[j] # "idle"
    <3>1. Returned
      BY <2>3 DEF VerdictFollows
    <3>2. pc[j] = "gone" /\ j \in done
      BY <1>1, <2>0, <2>3, <3>1 DEF Quiet, Live, Places, IInv, PlacesCoherent, Settled
    <3>3. PICK last \in FinalEvents : events[j] = <<"started", last>> \/ events[j] = <<last>>
      BY <2>0, <3>2 DEF HasTold
    <3>4. events[j] # <<>> /\ events[j][Len(events[j])] = last
      BY <3>3, OneEvent, TwoEvents
    <3>5. view[j] = StatusAfter(last) /\ j \in known
      BY <2>0, <3>4
    <3>6. last \in {"ok", "resumed", "failed", "skipped"}
      BY DEF FinalEvents, EventKinds
    <3>. QED  BY <3>2, <3>5, <3>6 DEF StatusAfter
  <2>. QED  BY <2>1, <2>2, <2>3
<1>. QED  BY <1>0, <1>1

(* Whatever moment ship_status hits, also between the end of the scheduler *)
(* and that of the run, and whoever cancels it: what it says of each job   *)
(* is so, nothing is missing when the run is over, and its verdict is one  *)
(* that the scheduler, or the user, has given.                             *)
THEOREM StatusIsHonest == McpSpec => []StatusHonest
<1>1. ServerInv => VerdictHonest
  <2>. SUFFICES ASSUME ServerInv PROVE VerdictHonest
    OBVIOUS
  <2>1. state = "passed" => \A j \in Jobs : view[j] = "failed" => j \in plan.tolerant
    <3>. SUFFICES ASSUME state = "passed", NEW j \in Jobs, view[j] = "failed"
                  PROVE  j \in plan.tolerant
      OBVIOUS
    <3>1. ~anyFail
      BY DEF ServerInv, VerdictFollows, Returned
    <3>2. results[j] = "failure"
      BY ViewsAreTrue DEF ViewTruthful
    <3>. QED  BY <3>1, <3>2 DEF ServerInv, OutcomesPlain
  <2>2. state = "canceled" => interrupted
    BY DEF ServerInv, VerdictFollows
  <2>3. state = "failed" => anyFail \/ main = "launch"
    BY DEF ServerInv, VerdictFollows, Returned
  <2>. QED  BY <2>1, <2>2, <2>3 DEF VerdictHonest
<1>2. ServerInv => StatusHonest
  BY <1>1, ViewsAreTrue, ViewsAreComplete DEF StatusHonest
<1>. QED  BY <1>2, ServerInvariant, PTL

(* When a run is reported as over, it is: nothing is reported or written   *)
(* any more.                                                               *)
THEOREM OverMeansOver == McpSpec => OverIsOver
<1>1. ServerInv /\ [McpNext]_allVars =>
        [state # "running" => UNCHANGED <<state, known, view, logs>>]_allVars
  <2>. SUFFICES ASSUME ServerInv, McpNext, state # "running"
                PROVE  UNCHANGED <<state, known, view, logs>>
    OBVIOUS
  <2>1. \A j \in Jobs : ~RunOne(j)
    BY NobodyGoesOn DEF RunOne
  <2>. QED  BY <2>1 DEF McpNext, LoadFails, RunMain, Cancel, mcpVars, Settle, Idle, allVars
<1>. QED  BY <1>1, ServerInvariant, PTL DEF McpSpec, OverIsOver

(* A log file is truncated when its job begins, and only a job with the    *)
(* same name for its log writes to it: ship_logs returns the output of the *)
(* job, not that of an earlier session.                                    *)
THEOREM LogsAreOwn == McpSpec => []LogsOwn
<1>. DEFINE Own == logged \subseteq plan.jobs /\ LogsOwn
<1>1. McpInit => Own
  BY DEF McpInit, LogsOwn
<1>2. ServerInv /\ Own /\ [McpNext]_allVars => Own'
  <2>. SUFFICES ASSUME ServerInv, Own, [McpNext]_allVars PROVE Own'
    OBVIOUS
  <2>0. /\ logs \in [LogFiles -> SUBSET (Jobs \cup {Earlier})] /\ plan.jobs \subseteq Jobs
        /\ \A j \in Jobs : LogName[j] \in LogFiles
    BY PlanTyped DEF ServerInv, McpTypeOK, SchedulerInv, IInv, PlanType, LogFiles
  <2>1. CASE UNCHANGED <<plan, logged, logs>>
    BY <2>1 DEF LogsOwn
  <2>2. ASSUME Persist, plan' = plan PROVE Own'
    <3>1. ASSUME NEW j \in Jobs, pc[j] = "begin",
                 logs' = [logs EXCEPT ![LogName[j]] = Created(j)], logged' = logged \cup {j}
          PROVE  Own'
      <4>1. j \in plan.jobs
        BY <3>1 DEF ServerInv, SchedulerInv, IInv, PlacesCoherent
      <4>2. ASSUME NEW k \in logged', \A i \in plan.jobs \ {k} : LogName[i] # LogName[k]
            PROVE  logs'[LogName[k]] = {k}
        BY <2>0, <3>1, <4>1, <4>2 DEF LogsOwn, Created
      <4>. QED  BY <2>2, <3>1, <4>1, <4>2 DEF LogsOwn
    <3>2. ASSUME NEW j \in logged, logs' = [logs EXCEPT ![LogName[j]] = @ \cup {j}],
                 UNCHANGED logged
          PROVE  Own'
      <4>1. ASSUME NEW k \in logged', \A i \in plan.jobs \ {k} : LogName[i] # LogName[k]
            PROVE  logs'[LogName[k]] = {k}
        BY <2>0, <3>2, <4>1 DEF LogsOwn
      <4>. QED  BY <2>2, <3>2, <4>1 DEF LogsOwn
    <3>. QED  BY <2>1, <2>2, <3>1, <3>2 DEF Persist
  <2>3. CASE RunMain
    BY <2>2, <2>3 DEF RunMain, LaunchFirst, Launch, Return
  <2>4. ASSUME NEW j \in Jobs, RunOne(j) PROVE Own'
    <3>1. plan' = plan
      BY <2>4 DEF RunOne, RunJob, TakeSlot, ResumeHit, ResumeMiss, SidecarsUp, SidecarsFail,
            CondTrue, CondFalse, CondInvalid, SecretsFound, SecretMissing, BeginSteps, FinishSteps,
            FinishFailed, Record, Notify, LaunchNext, Launch, Exit
    <3>. QED  BY <2>2, <2>4, <3>1 DEF RunOne
  <2>5. CASE LoadFails \/ Cancel \/ Settle \/ UNCHANGED allVars
    BY <2>1, <2>5 DEF LoadFails, Cancel, Interrupt, Settle, allVars, vars, mcpVars
  <2>. QED  BY <2>3, <2>4, <2>5 DEF McpNext, Idle
<1>3. Own => LogsOwn
  OBVIOUS
<1>. QED  BY <1>1, <1>2, <1>3, ServerInvariant, PTL DEF McpSpec

==============================================================================
