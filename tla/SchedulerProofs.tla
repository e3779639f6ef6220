--------------------------- MODULE SchedulerProofs ---------------------------
(***************************************************************************)
(* Proofs about module Scheduler, for every set of plans and every         *)
(* capacity of the semaphore.                                              *)
(*                                                                         *)
(* The argument rests on one observation: a step of a job goroutine either *)
(* moves it to another place and leaves the shared state alone, or settles *)
(* the job, once, by adding it to `done`, or is a call of launch.  The     *)
(* lemma RunJobCases says so; everything after it has one case for each.   *)
(***************************************************************************)
EXTENDS Scheduler, FiniteSetTheorems, SequenceTheorems, WellFoundedInduction, TLAPS

(* The places of a goroutine before and after it has settled its job.      *)
Unsettled == Setup \cup {"slot", "steps"}
Settled == {"record", "notify", "launch", "exit", "gone"}

Moves(j) ==
  /\ \E p \in Places \ {"idle"} :
       /\ pc' = [pc EXCEPT ![j] = p]
       /\ p \in Settled <=> pc[j] \in Settled
       /\ pc[j] \in Working => p \in Working
  /\ pc[j] \in Started
  /\ UNCHANGED <<plan, main, inFlight, interrupted, outcomeVars>>

Settles(j) ==
  /\ pc[j] \in Unsettled
  /\ \E p \in {"record", "notify"} : pc' = [pc EXCEPT ![j] = p]
  /\ done' = done \cup {j}
  /\ failed' \in {failed, failed \cup {j}}
  /\ \E r \in Results :
       /\ results' = [results EXCEPT ![j] = r]
       /\ r # "" \/ j \in resumed'
  /\ outputs' \in {outputs, outputs \cup {j}}
  /\ fps' \in {fps, fps \cup {j}}
  /\ resumed' \in {resumed, resumed \cup {j}}
  /\ anyFail' = (anyFail \/ j \in failed')
  /\ canceled' = (canceled \/ j \in failed')
  /\ UNCHANGED <<plan, main, inFlight, interrupted>>

(* The inductive invariant: what the place of a goroutine says of its job. *)
PlacesCoherent ==
  /\ inFlight \subseteq plan.jobs \cap plan.only
  /\ \A j \in Jobs : pc[j] = "idle" <=> j \notin inFlight
  /\ \A j \in inFlight : j \in done <=> pc[j] \in Settled
  /\ \A j \in done \ inFlight : j \in failed

(* What has been published of a job that has run.                          *)
OutcomesPublished == \A j \in done \cap inFlight : results[j] # "" \/ j \in resumed

IInv ==
  /\ TypeOK
  /\ PlacesCoherent
  /\ NeedsSatisfied

------------------------------------------------------------------------------
(* The plan is one of the given ones, and so has the shape they have.      *)
LEMMA PlanTyped == TypeOK => plan \in PlanType
BY PlansAssumption DEF TypeOK

(* The stages that runJob may come to next are places of a working job.    *)
LEMMA NextStages ==
  ASSUME NEW j
  PROVE  /\ AfterSlot(j) \in Setup
         /\ AfterResume(j) \in Setup
         /\ AfterSidecars(j) \in Setup
         /\ AfterCond(j) \in Setup
BY DEF AfterSlot, AfterResume, AfterSidecars, AfterCond, Setup

(* A goroutine that has not settled its job finds it neither done nor      *)
(* failed.                                                                 *)
LEMMA UnsettledIsOpen ==
  ASSUME TypeOK, PlacesCoherent, NEW j \in Jobs, pc[j] \in Unsettled
  PROVE  j \in inFlight /\ j \notin done /\ j \notin failed
BY DEF TypeOK, PlacesCoherent, Unsettled, Settled, Setup

(* The critical section of finishFailed settles its job.                   *)
LEMMA FinishFailedSettles ==
  ASSUME TypeOK, NEW j \in Jobs, pc[j] \in Unsettled, FinishFailed(j)
  PROVE  Settles(j)
<1>1. \E r \in Results : results' = [results EXCEPT ![j] = r] /\ (r # "" \/ j \in resumed')
  BY DEF FinishFailed, Results, JobResults
<1>2. j \in failed'
  BY DEF FinishFailed
<1>. QED  BY <1>1, <1>2 DEF FinishFailed, Settles, Unsettled

(* A step of a job goroutine moves it, settles its job, or calls launch.   *)
LEMMA RunJobCases ==
  ASSUME TypeOK, PlacesCoherent, NEW j \in Jobs, RunJob(j)
  PROVE  Moves(j) \/ Settles(j) \/ LaunchNext(j)
<1> USE DEF Goto, Setup, Working, Holding, Started, Places, Settled, Unsettled
<1>1. CASE TakeSlot(j)
  BY <1>1, NextStages DEF TakeSlot, Moves
<1>2. CASE ResumeHit(j)
  <2>1. j \notin failed /\ anyFail \in BOOLEAN /\ canceled \in BOOLEAN
    BY <1>2, UnsettledIsOpen DEF ResumeHit, TypeOK
  <2>2. results' = [results EXCEPT ![j] = results[j]] /\ results[j] \in Results
    BY <1>2 DEF ResumeHit, TypeOK
  <2>3. \E r \in Results : results' = [results EXCEPT ![j] = r] /\ (r # "" \/ j \in resumed')
    BY <1>2, <2>2 DEF ResumeHit
  <2>4. anyFail' = (anyFail \/ j \in failed') /\ canceled' = (canceled \/ j \in failed')
    BY <1>2, <2>1 DEF ResumeHit
  <2>. QED  BY <1>2, <2>3, <2>4 DEF ResumeHit, Settles
<1>3. CASE ResumeMiss(j)
  BY <1>3, NextStages DEF ResumeMiss, Moves
<1>4. CASE SidecarsUp(j)
  BY <1>4, NextStages DEF SidecarsUp, Moves
<1>5. CASE SidecarsFail(j)
  BY <1>5, FinishFailedSettles DEF SidecarsFail
<1>6. CASE CondTrue(j)
  BY <1>6, NextStages DEF CondTrue, Moves
<1>7. CASE CondFalse(j)
  <2>1. j \notin failed /\ anyFail \in BOOLEAN /\ canceled \in BOOLEAN
    BY <1>7, UnsettledIsOpen DEF CondFalse, TypeOK
  <2>2. \E r \in Results : results' = [results EXCEPT ![j] = r] /\ (r # "" \/ j \in resumed')
    BY <1>7 DEF CondFalse, Results, JobResults
  <2>3. anyFail' = (anyFail \/ j \in failed') /\ canceled' = (canceled \/ j \in failed')
    BY <1>7, <2>1 DEF CondFalse
  <2>. QED  BY <1>7, <2>2, <2>3 DEF CondFalse, Settles
<1>8. CASE CondInvalid(j)
  BY <1>8, FinishFailedSettles DEF CondInvalid
<1>9. CASE SecretsFound(j)
  BY <1>9 DEF SecretsFound, Moves
<1>10. CASE SecretMissing(j)
  BY <1>10, FinishFailedSettles DEF SecretMissing
<1>11. CASE BeginSteps(j)
  BY <1>11 DEF BeginSteps, Moves
<1>12. CASE \E ok \in BOOLEAN, captured \in Captures(j) : FinishSteps(j, ok, captured)
  <2>. PICK ok \in BOOLEAN, captured \in Captures(j) : FinishSteps(j, ok, captured)
    BY <1>12
  <2>. DEFINE fatal == ~ok /\ j \notin plan.tolerant
  <2>1. j \notin failed
    BY UnsettledIsOpen DEF FinishSteps
  <2>. DEFINE r == IF ok THEN "success" ELSE "failure"
  <2>8. results' = [results EXCEPT ![j] = r]
    BY DEF FinishSteps
  <2>9. r \in Results /\ r # ""
    BY DEF Results, JobResults
  <2>. HIDE DEF r
  <2>2. \E x \in Results : results' = [results EXCEPT ![j] = x] /\ (x # "" \/ j \in resumed')
    BY <2>8, <2>9
  <2>3. failed' = (IF fatal THEN failed \cup {j} ELSE failed)
    BY DEF FinishSteps
  <2>4. fatal <=> j \in failed'
    BY <2>1, <2>3
  <2>5. anyFail' = (anyFail \/ fatal) /\ canceled' = (canceled \/ fatal)
    BY DEF FinishSteps
  <2>6. anyFail' = (anyFail \/ j \in failed') /\ canceled' = (canceled \/ j \in failed')
    BY <2>4, <2>5
  <2>7. pc[j] \in Unsettled /\ \E p \in {"record", "notify"} : pc' = [pc EXCEPT ![j] = p]
    BY DEF FinishSteps
  <2>. HIDE DEF fatal
  <2>. QED  BY <2>2, <2>3, <2>6, <2>7 DEF FinishSteps, Settles
<1>13. CASE Record(j)
  BY <1>13 DEF Record, Moves
<1>14. CASE Notify(j)
  BY <1>14 DEF Notify, Moves
<1>15. CASE Exit(j)
  BY <1>15 DEF Exit, Moves
<1>. QED
  BY <1>1, <1>2, <1>3, <1>4, <1>5, <1>6, <1>7, <1>8, <1>9, <1>10, <1>11, <1>12,
     <1>13, <1>14, <1>15 DEF RunJob
(* The counters, the store and the observer keep their types.              *)
LEMMA RunJobTypes ==
  ASSUME TypeOK, PlacesCoherent, NEW j \in Jobs, RunJob(j), ~LaunchNext(j)
  PROVE  /\ sem' \in Int /\ wg' \in Int
         /\ recorded' \subseteq done'
         /\ events' \in [Jobs -> Seq(EventKinds)]
<1>1. /\ sem \in Int /\ wg \in Int /\ recorded \subseteq done
      /\ events \in [Jobs -> Seq(EventKinds)] /\ events[j] \in Seq(EventKinds)
  BY DEF TypeOK
<1>2. CASE UNCHANGED <<recorded, events>> /\ done \subseteq done' /\ sem' \in Int /\ wg' \in Int
  BY <1>1, <1>2
<1>3. CASE Record(j)
  <2>1. j \in done
    BY <1>3 DEF Record, Goto, PlacesCoherent, Settled
  <2>. QED  BY <1>1, <1>3, <2>1 DEF Record, outcomeVars
<1>4. CASE BeginSteps(j)
  <2>1. Append(events[j], "started") \in Seq(EventKinds)
    BY <1>1 DEF EventKinds
  <2>. QED  BY <1>1, <1>4, <2>1 DEF BeginSteps, outcomeVars
<1>5. CASE Notify(j)
  <2>1. FinalEvent(j) \in EventKinds
    BY DEF FinalEvent, EventKinds
  <2>2. Append(events[j], FinalEvent(j)) \in Seq(EventKinds)
    BY <1>1, <2>1
  <2>. QED  BY <1>1, <1>5, <2>2 DEF Notify, outcomeVars
<1>. QED
  BY <1>1, <1>2, <1>3, <1>4, <1>5
     DEF RunJob, TakeSlot, ResumeHit, ResumeMiss, SidecarsUp, SidecarsFail, CondTrue,
         CondFalse, CondInvalid, SecretsFound, SecretMissing, FinishSteps, FinishFailed,
         Exit, outcomeVars

(* What a call of launch does, the sets it finds being named.              *)
Scan(B, S, at) ==
  /\ B \subseteq Unclaimed
  /\ \A j \in Unclaimed : j \in B <=> Blocked(j, Before(B, j))
  /\ S = {j \in Unclaimed \ B : Ready(j)}
  /\ done' = done \cup B
  /\ failed' = failed \cup B
  /\ anyFail' = (anyFail \/ B # {})
  /\ events' = [j \in Jobs |-> IF j \in B THEN Append(events[j], "skipped") ELSE events[j]]
  /\ inFlight' = inFlight \cup S
  /\ wg' = wg + Cardinality(S)
  /\ pc' = [j \in Jobs |-> IF j \in S THEN "slot" ELSE at[j]]
  /\ UNCHANGED <<plan, interrupted, sem, recorded, results, outputs, fps, resumed, canceled>>

LEMMA LaunchScans ==
  ASSUME NEW at, Launch(at)
  PROVE  \E B, S : Scan(B, S, at)
<1>. PICK B \in SUBSET Unclaimed :
       Launch(at)!(B)
  BY DEF Launch
<1>. QED  BY DEF Scan

(* pc with the caller of launch past the call, if a job goroutine it is.   *)
PastCall(at) ==
  /\ at \in [Jobs -> Places]
  /\ \A k \in Jobs :
       /\ at[k] = "idle" <=> pc[k] = "idle"
       /\ at[k] \in Settled <=> pc[k] \in Settled

LEMMA CallersArePast ==
  ASSUME TypeOK
  PROVE  /\ PastCall(pc)
         /\ \A j \in Jobs : pc[j] = "launch" => PastCall([pc EXCEPT ![j] = "exit"])
BY DEF TypeOK, PastCall, Settled, Places, Started, Holding

------------------------------------------------------------------------------
(* Type correctness, coherence and NeedsSatisfied, by the three kinds of   *)
(* step.                                                                   *)

LEMMA MovesKeepIInv ==
  ASSUME IInv, NEW j \in Jobs, RunJob(j), ~LaunchNext(j), Moves(j)
  PROVE  IInv'
<1>. PICK p \in Places \ {"idle"} :
       /\ pc' = [pc EXCEPT ![j] = p]
       /\ p \in Settled <=> pc[j] \in Settled
  BY DEF Moves
<1>0. pc[j] # "idle"
  BY DEF Moves, Started, Holding, Working, Setup
<1>1. TypeOK'
  BY RunJobTypes DEF IInv, TypeOK, Moves, outcomeVars
<1>2. PlacesCoherent'
  BY <1>0 DEF IInv, TypeOK, PlacesCoherent, Moves, outcomeVars
<1>3. NeedsSatisfied'
  BY DEF IInv, NeedsSatisfied, IncludedNeeds, Moves, outcomeVars
<1>. QED  BY <1>1, <1>2, <1>3 DEF IInv

LEMMA SettlesKeepIInv ==
  ASSUME IInv, NEW j \in Jobs, RunJob(j), ~LaunchNext(j), Settles(j)
  PROVE  IInv'
<1>. USE DEF IInv
<1>0. j \in inFlight /\ j \notin done /\ j \notin failed
  BY UnsettledIsOpen DEF Settles
<1>1. TypeOK'
  <2>1. done' \subseteq Jobs /\ failed' \subseteq done' /\ outputs' \subseteq done'
        /\ fps' \subseteq done' /\ resumed' \subseteq done'
    BY DEF TypeOK, Settles
  <2>2. results' \in [Jobs -> Results] /\ pc' \in [Jobs -> Places]
    BY DEF TypeOK, Settles, Places, Started, Holding, Working
  <2>3. anyFail' \in BOOLEAN /\ canceled' \in BOOLEAN
    BY DEF Settles
  <2>. QED  BY <2>1, <2>2, <2>3, RunJobTypes DEF TypeOK, Settles
<1>2. PlacesCoherent'
  BY <1>0 DEF TypeOK, PlacesCoherent, Settles, Settled
<1>3. NeedsSatisfied'
  <2>. SUFFICES ASSUME NEW k \in inFlight', NEW n \in IncludedNeeds(k)'
                PROVE  n \in done' /\ n \notin failed'
    BY DEF NeedsSatisfied
  <2>1. k \in inFlight /\ n \in IncludedNeeds(k)
    BY DEF IncludedNeeds, Settles
  <2>2. n \in done /\ n \notin failed
    BY <2>1 DEF NeedsSatisfied
  <2>. QED  BY <1>0, <2>2 DEF Settles
<1>. QED  BY <1>1, <1>2, <1>3

LEMMA ScanKeepsIInv ==
  ASSUME IInv, NEW at, PastCall(at), NEW B, NEW S, Scan(B, S, at), main' \in MainPlaces
  PROVE  IInv'
<1>. USE DEF IInv
<1>0. /\ B \subseteq plan.jobs \cap plan.only /\ S \subseteq plan.jobs \cap plan.only
      /\ \A k \in B \cup S : k \in Jobs /\ k \notin done /\ k \notin inFlight
      /\ B \cap S = {}
  BY PlanTyped DEF Scan, Unclaimed, Included, PlanType
<1>1. TypeOK'
  <2>1. done' \subseteq Jobs /\ failed' \subseteq done' /\ inFlight' \subseteq Jobs
        /\ outputs' \subseteq done' /\ fps' \subseteq done' /\ resumed' \subseteq done'
        /\ recorded' \subseteq done'
    BY <1>0 DEF TypeOK, Scan
  <2>2. pc' \in [Jobs -> Places]
    BY DEF Scan, PastCall, Places, Started
  <2>3. events' \in [Jobs -> Seq(EventKinds)]
    <3>1. \A k \in Jobs : events[k] \in Seq(EventKinds)
                         /\ Append(events[k], "skipped") \in Seq(EventKinds)
      BY DEF TypeOK, EventKinds
    <3>. QED  BY <3>1 DEF Scan
  <2>4. wg' \in Int
    <3>1. IsFiniteSet(S)
      BY <1>0, JobsAssumption, FS_Subset
    <3>. QED  BY <3>1, FS_CardinalityType DEF TypeOK, Scan
  <2>5. anyFail' \in BOOLEAN
    BY DEF Scan
  <2>. QED  BY <2>1, <2>2, <2>3, <2>4, <2>5 DEF TypeOK, Scan
<1>2. PlacesCoherent'
  BY <1>0 DEF TypeOK, PlacesCoherent, Scan, PastCall, Settled
<1>3. NeedsSatisfied'
  <2>. SUFFICES ASSUME NEW j \in inFlight', NEW n \in IncludedNeeds(j)'
                PROVE  n \in done' /\ n \notin failed'
    BY DEF NeedsSatisfied
  <2>1. n \in IncludedNeeds(j)
    BY DEF IncludedNeeds, Scan
  <2>2. n \in done /\ n \notin failed
    BY <2>1 DEF NeedsSatisfied, Scan, Ready
  <2>. QED  BY <1>0, <2>2 DEF Scan
<1>. QED  BY <1>1, <1>2, <1>3

LEMMA InitIInv == Init => IInv
<1>. SUFFICES ASSUME Init PROVE IInv
  OBVIOUS
<1>1. events \in [Jobs -> Seq(EventKinds)]
  <2>1. <<>> \in Seq(EventKinds)
    OBVIOUS
  <2>. QED  BY <2>1 DEF Init
<1>2. TypeOK
  <2>1. pc \in [Jobs -> Places] /\ results \in [Jobs -> Results] /\ main \in MainPlaces
    BY DEF Init, Places, Results, MainPlaces
  <2>2. anyFail \in BOOLEAN /\ canceled \in BOOLEAN /\ interrupted \in BOOLEAN
    BY DEF Init
  <2>3. sem \in Int /\ wg \in Int
    <3>1. sem = 0 /\ wg = 0
      BY DEF Init
    <3>. QED  BY <3>1
  <2>. QED  BY <1>1, <2>1, <2>2, <2>3 DEF Init, TypeOK
<1>3. PlacesCoherent /\ NeedsSatisfied
  BY DEF Init, PlacesCoherent, NeedsSatisfied
<1>. QED  BY <1>2, <1>3 DEF IInv

LEMMA NextIInv == IInv /\ [Next]_vars => IInv'
<1>. SUFFICES ASSUME IInv, [Next]_vars PROVE IInv'
  OBVIOUS
<1>1. CASE LaunchFirst
  <2>. PICK B, S : Scan(B, S, pc)
    BY <1>1, LaunchScans DEF LaunchFirst
  <2>. QED  BY <1>1, ScanKeepsIInv, CallersArePast DEF LaunchFirst, MainPlaces, IInv
<1>2. ASSUME NEW j \in Jobs, RunJob(j) PROVE IInv'
  <2>1. CASE LaunchNext(j)
    <3>. PICK B, S : Scan(B, S, [pc EXCEPT ![j] = "exit"])
      BY <2>1, LaunchScans DEF LaunchNext
    <3>. QED  BY <2>1, ScanKeepsIInv, CallersArePast DEF LaunchNext, IInv, TypeOK
  <2>. QED  BY <1>2, <2>1, RunJobCases, MovesKeepIInv, SettlesKeepIInv DEF IInv
<1>3. CASE Return
  BY <1>3 DEF Return, IInv, TypeOK, MainPlaces, PlacesCoherent, NeedsSatisfied, IncludedNeeds,
              outcomeVars
<1>4. CASE Interrupt
  BY <1>4 DEF Interrupt, IInv, TypeOK, PlacesCoherent, NeedsSatisfied, IncludedNeeds
<1>5. CASE UNCHANGED vars
  BY <1>5 DEF vars, outcomeVars, IInv, TypeOK, PlacesCoherent, NeedsSatisfied, IncludedNeeds
<1>. QED  BY <1>1, <1>2, <1>3, <1>4, <1>5 DEF Next, Over

(* The variables keep their types, with every set of jobs that an outcome  *)
(* is kept in within the set of the jobs that are done.                    *)
THEOREM TypeCorrect == Spec => []TypeOK
<1>1. IInv => TypeOK
  BY DEF IInv
<1>. QED  BY InitIInv, NextIInv, <1>1, PTL DEF Spec

(* A job that was started has all of its included needs done and not       *)
(* failed, in every plan, cyclic and unvalidated ones included.            *)
THEOREM NeedsAreSatisfied == Spec => []NeedsSatisfied
<1>1. IInv => NeedsSatisfied
  BY DEF IInv
<1>. QED  BY InitIInv, NextIInv, <1>1, PTL DEF Spec

------------------------------------------------------------------------------
(* The kinds of step of the whole specification, for the properties that   *)
(* rest on the inductive invariant.                                        *)

Outside ==
  /\ main = "launch" => main' = "launch"
  /\ UNCHANGED <<plan, pc, inFlight, done, failed, results, outputs, fps, resumed, anyFail>>

LEMMA StepCases ==
  ASSUME IInv, [Next]_vars
  PROVE  \/ \E j \in Jobs : Moves(j)
         \/ \E j \in Jobs : Settles(j)
         \/ \E B, S, at : PastCall(at) /\ Scan(B, S, at)
         \/ Outside /\ (Interrupt \/ UNCHANGED <<interrupted, canceled>>)
<1>1. CASE LaunchFirst
  <2>1. \E B, S : Scan(B, S, pc)
    BY <1>1, LaunchScans DEF LaunchFirst
  <2>. QED  BY <2>1, CallersArePast DEF IInv
<1>2. ASSUME NEW j \in Jobs, RunJob(j)
      PROVE  Moves(j) \/ Settles(j) \/ \E B, S, at : PastCall(at) /\ Scan(B, S, at)
  <2>1. CASE LaunchNext(j)
    <3>1. \E B, S : Scan(B, S, [pc EXCEPT ![j] = "exit"])
      BY <2>1, LaunchScans DEF LaunchNext
    <3>. QED  BY <2>1, <3>1, CallersArePast DEF LaunchNext, IInv
  <2>. QED  BY <1>2, <2>1, RunJobCases DEF IInv
<1>3. CASE Return \/ Interrupt \/ UNCHANGED vars
  BY <1>3 DEF Return, Interrupt, vars, outcomeVars, Outside
<1>. QED  BY <1>1, <1>2, <1>3 DEF Next, Over

(* A scan marks and starts jobs that are neither done nor started.         *)
LEMMA ScansTakeUnclaimed ==
  ASSUME TypeOK, NEW at, NEW B, NEW S, Scan(B, S, at)
  PROVE  /\ B \subseteq Unclaimed /\ S \subseteq Unclaimed /\ B \cap S = {}
         /\ \A j \in B \cup S : j \in Jobs /\ j \notin done /\ j \notin inFlight
BY PlanTyped DEF Scan, Unclaimed, PlanType

(* What OutcomesFinal says of a step.                                      *)
KeepsOutcomes ==
  /\ inFlight \subseteq inFlight'
  /\ \A j \in done :
       /\ j \in done'
       /\ results'[j] = results[j]
       /\ j \in failed' <=> j \in failed
       /\ j \in outputs' <=> j \in outputs
       /\ j \in fps' <=> j \in fps
       /\ j \in resumed' <=> j \in resumed

LEMMA StepsKeepOutcomes == IInv /\ [Next]_vars => KeepsOutcomes
<1>. SUFFICES ASSUME IInv, [Next]_vars PROVE KeepsOutcomes
  OBVIOUS
<1>1. ASSUME NEW j \in Jobs, Moves(j) PROVE KeepsOutcomes
  BY <1>1 DEF Moves, outcomeVars, KeepsOutcomes
<1>2. ASSUME NEW j \in Jobs, Settles(j) PROVE KeepsOutcomes
  <2>1. j \notin done
    BY <1>2, UnsettledIsOpen DEF Settles, IInv
  <2>2. \A k \in done : results'[k] = results[k]
    BY <1>2, <2>1 DEF Settles, IInv, TypeOK
  <2>. QED  BY <1>2, <2>1, <2>2 DEF Settles, KeepsOutcomes
<1>3. ASSUME NEW B, NEW S, NEW at, Scan(B, S, at) PROVE KeepsOutcomes
  <2>1. /\ done' = done \cup B /\ failed' = failed \cup B /\ inFlight' = inFlight \cup S
        /\ results' = results /\ outputs' = outputs /\ fps' = fps /\ resumed' = resumed
    BY <1>3 DEF Scan
  <2>2. \A j \in B : j \notin done
    BY <1>3, ScansTakeUnclaimed DEF IInv
  <2>. QED  BY <2>1, <2>2 DEF KeepsOutcomes
<1>4. CASE Outside
  BY <1>4 DEF Outside, KeepsOutcomes
<1>. QED  BY <1>1, <1>2, <1>3, <1>4, StepCases

(* Once a job is done, no step of any goroutine changes a part of what was *)
(* published of it.                                                        *)
THEOREM OutcomesAreFinal == Spec => OutcomesFinal
<1>1. IInv /\ [Next]_vars =>
        [/\ inFlight \subseteq inFlight'
         /\ \A j \in done :
              /\ j \in done'
              /\ results'[j] = results[j]
              /\ j \in failed' <=> j \in failed
              /\ j \in outputs' <=> j \in outputs
              /\ j \in fps' <=> j \in fps
              /\ j \in resumed' <=> j \in resumed]_vars
  BY StepsKeepOutcomes DEF KeepsOutcomes
<1>. QED  BY InitIInv, NextIInv, <1>1, PTL DEF Spec, OutcomesFinal

(* What a running job may read of its needs does not change under it: its  *)
(* needs were done when it was started.                                    *)
THEOREM UpstreamIsFrozen == Spec => UpstreamFrozen
<1>1. IInv /\ [Next]_vars =>
        [\A j \in Live : \A n \in IncludedNeeds(j) :
           /\ results'[n] = results[n]
           /\ n \in outputs' <=> n \in outputs
           /\ n \in fps' <=> n \in fps]_vars
  <2>1. IInv => \A j \in Live : \A n \in IncludedNeeds(j) : n \in done
    BY DEF IInv, PlacesCoherent, NeedsSatisfied, Live, Started, Holding, Working, Setup
  <2>. QED  BY <2>1, StepsKeepOutcomes DEF KeepsOutcomes
<1>. QED  BY InitIInv, NextIInv, <1>1, PTL DEF Spec, UpstreamFrozen

(* No wakeup is lost: a scan leaves nothing behind that could start, and   *)
(* a goroutine that makes a job startable has its own scan before it.      *)
THEOREM NoWakeupIsLost == Spec => []NoLostWakeup
<1>1. Init => NoLostWakeup
  BY DEF Init, NoLostWakeup
<1>2. IInv /\ NoLostWakeup /\ [Next]_vars => NoLostWakeup'
  <2>. SUFFICES ASSUME IInv, NoLostWakeup, [Next]_vars, main' # "launch" PROVE NoLostWakeup'
    BY DEF NoLostWakeup
  <2>1. ASSUME NEW j \in Jobs, Moves(j) PROVE NoLostWakeup'
    <3>1. \A k \in Jobs : pc[k] \in Working => pc'[k] \in Working
      BY <2>1 DEF Moves, IInv, TypeOK
    <3>2. Unclaimed' = Unclaimed /\ \A k \in Jobs : Ready(k)' <=> Ready(k)
      BY <2>1 DEF Moves, outcomeVars, Unclaimed, Ready, IncludedNeeds, Included
    <3>3. Unclaimed \subseteq Jobs
      BY PlanTyped DEF IInv, Unclaimed, PlanType
    <3>. QED  BY <2>1, <3>1, <3>2, <3>3 DEF NoLostWakeup, Moves
  <2>2. ASSUME NEW j \in Jobs, Settles(j) PROVE NoLostWakeup'
    <3>1. pc'[j] \in Working
      BY <2>2 DEF Settles, IInv, TypeOK, Working
    <3>. QED  BY <3>1 DEF NoLostWakeup
  <2>3. ASSUME NEW B, NEW S, NEW at, Scan(B, S, at) PROVE NoLostWakeup'
    <3>. SUFFICES ASSUME NEW j \in Unclaimed', Ready(j)' PROVE FALSE
      BY DEF NoLostWakeup
    <3>1. j \in Unclaimed /\ j \notin B /\ j \notin S
      BY <2>3 DEF Scan, Unclaimed, Included
    <3>2. Ready(j)
      BY <2>3 DEF Scan, Ready, IncludedNeeds
    <3>. QED  BY <2>3, <3>1, <3>2 DEF Scan
  <2>4. CASE Outside
    <3>1. NoLostWakeup => \A k \in Unclaimed : Ready(k) => main = "launch" \/ \E l \in Jobs : pc[l] \in Working
      BY DEF NoLostWakeup
    <3>2. Unclaimed' = Unclaimed /\ \A k \in Jobs : Ready(k)' <=> Ready(k)
      BY <2>4 DEF Outside, Unclaimed, Ready, IncludedNeeds, Included
    <3>3. Unclaimed \subseteq Jobs
      BY PlanTyped DEF IInv, Unclaimed, PlanType
    <3>4. main # "launch"
      BY <2>4 DEF Outside
    <3>. QED  BY <2>4, <3>1, <3>2, <3>3, <3>4 DEF NoLostWakeup, Outside
  <2>. QED  BY <2>1, <2>2, <2>3, <2>4, StepCases
<1>. QED  BY InitIInv, NextIInv, <1>1, <1>2, PTL DEF Spec

------------------------------------------------------------------------------
(* What the `if` of a job can read                                         *)

(* A job that ran to its end has a result, unless it was resumed.          *)
LEMMA StepsPublish == IInv /\ OutcomesPublished /\ [Next]_vars => OutcomesPublished'
<1>. SUFFICES ASSUME IInv, OutcomesPublished, [Next]_vars PROVE OutcomesPublished'
  OBVIOUS
<1>1. ASSUME NEW j \in Jobs, Moves(j) PROVE OutcomesPublished'
  BY <1>1 DEF Moves, outcomeVars, OutcomesPublished
<1>2. ASSUME NEW j \in Jobs, Settles(j) PROVE OutcomesPublished'
  <2>. SUFFICES ASSUME NEW k \in done' \cap inFlight', k \notin resumed'
                PROVE  results'[k] # ""
    BY DEF OutcomesPublished
  <2>1. PICK r \in Results : results' = [results EXCEPT ![j] = r] /\ (r # "" \/ j \in resumed')
    BY <1>2 DEF Settles
  <2>2. CASE k = j
    BY <2>1, <2>2 DEF IInv, TypeOK
  <2>3. CASE k # j
    BY <1>2, <2>1, <2>3 DEF Settles, OutcomesPublished, IInv, TypeOK
  <2>. QED  BY <2>2, <2>3
<1>3. ASSUME NEW B, NEW S, NEW at, Scan(B, S, at) PROVE OutcomesPublished'
  <2>1. \A k \in B \cup S : k \notin done /\ k \notin inFlight
    BY <1>3, ScansTakeUnclaimed DEF IInv
  <2>2. B \cap S = {}
    BY <1>3, ScansTakeUnclaimed DEF IInv
  <2>3. /\ done' = done \cup B /\ inFlight' = inFlight \cup S
        /\ results' = results /\ resumed' = resumed
    BY <1>3 DEF Scan
  <2>. QED  BY <2>1, <2>2, <2>3 DEF OutcomesPublished
<1>4. CASE Outside
  BY <1>4 DEF Outside, OutcomesPublished
<1>. QED  BY <1>1, <1>2, <1>3, <1>4, StepCases

(* An `if` that looks at a need finds its result, unless it was resumed: a *)
(* need without a result would have been marked by a scan, and would have  *)
(* kept the job from starting.                                             *)
THEOREM ResultsAreVisible == Spec => []ResultsVisible
<1>1. Init => OutcomesPublished
  BY DEF Init, OutcomesPublished
<1>2. IInv /\ OutcomesPublished => ResultsVisible
  <2>. SUFFICES ASSUME IInv, OutcomesPublished,
                       NEW j \in Jobs, pc[j] \in Holding, NEW n \in IncludedNeeds(j)
                PROVE  results[n] # "" \/ n \in resumed
    BY DEF ResultsVisible
  <2>1. j \in inFlight
    BY DEF IInv, PlacesCoherent, Holding, Working, Setup
  <2>2. n \in done /\ n \notin failed
    BY <2>1 DEF IInv, NeedsSatisfied
  <2>3. n \in inFlight
    BY <2>2 DEF IInv, PlacesCoherent
  <2>. QED  BY <2>2, <2>3 DEF OutcomesPublished
<1>. QED  BY InitIInv, NextIInv, StepsPublish, <1>1, <1>2, PTL DEF Spec

------------------------------------------------------------------------------
(* Fail-fast                                                               *)

(* A set of natural numbers has a least one.                               *)
LEMMA LeastOfNat ==
  ASSUME NEW P \in SUBSET Nat, P # {}
  PROVE  \E x \in P : \A y \in P : ~ (y < x)
<1>1. \E x \in P : \A y \in P : ~ (<<y, x>> \in OpToRel(<, Nat))
  BY NatLessThanWellFounded, WFMin
<1>. QED  BY <1>1 DEF OpToRel

(* A set of jobs has one that comes first in definition order.             *)
LEMMA FirstOfJobs ==
  ASSUME TypeOK, NEW B \in SUBSET Jobs, B # {}
  PROVE  \E j \in B : Before(B, j) = {}
<1>. DEFINE P == {plan.pos[j] : j \in B}
<1>1. plan.pos \in [Jobs -> Nat]
  BY PlanTyped DEF PlanType
<1>2. P \subseteq Nat /\ P # {}
  BY <1>1
<1>3. PICK x \in P : \A y \in P : ~ (y < x)
  <2>. HIDE DEF P
  <2>. QED  BY <1>2, LeastOfNat
<1>4. PICK j \in B : plan.pos[j] = x
  OBVIOUS
<1>. QED  BY <1>3, <1>4 DEF Before

(* A scan marks a job only if some job has failed before it.               *)
LEMMA BlockedAfterFailure ==
  ASSUME TypeOK, NEW at, NEW B, NEW S, Scan(B, S, at), B # {}
  PROVE  failed # {}
<1>1. B \subseteq Jobs
  BY ScansTakeUnclaimed
<1>2. PICK j \in B : Before(B, j) = {}
  BY <1>1, FirstOfJobs
<1>3. Blocked(j, {})
  BY <1>2 DEF Scan
<1>. QED  BY <1>3 DEF Blocked

(* The run's context is canceled exactly when a job has failed or the      *)
(* caller has canceled his own, and the verdict is that some job failed.   *)
THEOREM FailsFast == Spec => []FailFast
<1>1. Init => FailFast
  BY DEF Init, FailFast
<1>2. IInv /\ FailFast /\ [Next]_vars => FailFast'
  <2>. SUFFICES ASSUME IInv, FailFast, [Next]_vars PROVE FailFast'
    OBVIOUS
  <2>. USE DEF FailFast
  <2>1. ASSUME NEW j \in Jobs, Moves(j) PROVE FailFast'
    BY <2>1 DEF Moves, outcomeVars
  <2>2. ASSUME NEW j \in Jobs, Settles(j) PROVE FailFast'
    <3>1. j \notin failed
      BY <2>2, UnsettledIsOpen DEF IInv, Settles
    <3>2. /\ failed' \in {failed, failed \cup {j}} /\ interrupted' = interrupted
          /\ anyFail' = (anyFail \/ j \in failed')
          /\ canceled' = (canceled \/ j \in failed')
      BY <2>2 DEF Settles
    <3>. QED  BY <3>1, <3>2
  <2>3. ASSUME NEW B, NEW S, NEW at, Scan(B, S, at) PROVE FailFast'
    <3>1. /\ failed' = failed \cup B /\ interrupted' = interrupted
          /\ anyFail' = (anyFail \/ B # {}) /\ canceled' = canceled
      BY <2>3 DEF Scan
    <3>2. B # {} => failed # {}
      BY <2>3, BlockedAfterFailure DEF IInv
    <3>. QED  BY <3>1, <3>2
  <2>4. CASE Outside /\ UNCHANGED <<interrupted, canceled>>
    BY <2>4 DEF Outside
  <2>5. CASE Interrupt
    BY <2>5 DEF Interrupt
  <2>. QED  BY <2>1, <2>2, <2>3, <2>4, <2>5, StepCases
<1>. QED  BY InitIInv, NextIInv, <1>1, <1>2, PTL DEF Spec

------------------------------------------------------------------------------
(* The semaphore and the WaitGroup                                         *)

Steps(j, from, to) == pc[j] \in from /\ \E p \in to : pc' = [pc EXCEPT ![j] = p]

(* A goroutine takes its slot once, on its way in, and gives it back once, *)
(* when it is gone.                                                        *)
LEMMA RunJobSlots ==
  ASSUME NEW j \in Jobs, RunJob(j), ~LaunchNext(j)
  PROVE  \/ Steps(j, {"slot"}, Working) /\ sem < MaxPar /\ sem' = sem + 1 /\ wg' = wg
         \/ Steps(j, Working, Working) /\ sem' = sem /\ wg' = wg
         \/ Steps(j, {"exit"}, {"gone"}) /\ sem' = sem - 1 /\ wg' = wg - 1
<1>0. \A p \in Setup : p \in Working
  BY DEF Working
<1>1. CASE TakeSlot(j)
  BY <1>0, <1>1, NextStages DEF TakeSlot, Goto, Steps
<1>2. CASE Exit(j)
  BY <1>2 DEF Exit, Goto, Steps
<1>3. CASE SidecarsFail(j) \/ CondInvalid(j) \/ SecretMissing(j)
  BY <1>3 DEF SidecarsFail, CondInvalid, SecretMissing, FinishFailed, Working, Setup, Steps
<1>4. CASE ResumeMiss(j) \/ SidecarsUp(j) \/ CondTrue(j)
  BY <1>0, <1>4, NextStages DEF ResumeMiss, SidecarsUp, CondTrue, Goto, Working, Setup, Steps
<1>5. CASE ResumeHit(j) \/ CondFalse(j) \/ SecretsFound(j) \/ BeginSteps(j) \/ Record(j) \/ Notify(j)
  BY <1>5 DEF ResumeHit, CondFalse, SecretsFound, BeginSteps, Record, Notify, Goto, Working,
              Setup, Steps
<1>6. CASE \E ok \in BOOLEAN, captured \in Captures(j) : FinishSteps(j, ok, captured)
  BY <1>6 DEF FinishSteps, Goto, Working, Steps
<1>. QED  BY <1>1, <1>2, <1>3, <1>4, <1>5, <1>6 DEF RunJob

Held == {j \in Jobs : pc[j] \in Holding}

LEMMA CountsAreFinite ==
  ASSUME NEW A \in SUBSET Jobs
  PROVE  IsFiniteSet(A) /\ Cardinality(A) \in Nat
BY JobsAssumption, FS_Subset, FS_CardinalityType

LEMMA StepsKeepSlots == IInv /\ SlotsAccounted /\ [Next]_vars => SlotsAccounted'
<1>. SUFFICES ASSUME IInv, SlotsAccounted, [Next]_vars PROVE SlotsAccounted'
  OBVIOUS
<1>0. /\ pc \in [Jobs -> Places] /\ sem = Cardinality(Held) /\ wg = Cardinality(Live)
      /\ IsFiniteSet(Held) /\ IsFiniteSet(Live) /\ sem \in Nat /\ wg \in Nat /\ sem <= MaxPar
      /\ MaxPar \in Nat
  BY CountsAreFinite, MaxParAssumption DEF SlotsAccounted, IInv, TypeOK, Held, Live
<1>1. ASSUME NEW at, NEW B, NEW S, PastCall(at), Scan(B, S, at),
             \A j \in Jobs : at[j] \in Holding <=> pc[j] \in Holding
      PROVE  SlotsAccounted'
  <2>1. S \subseteq Jobs /\ \A j \in S : pc[j] = "idle" /\ j \notin Live
    BY <1>1, ScansTakeUnclaimed
       DEF IInv, PlacesCoherent, Live, Started, Holding, Working, Setup
  <2>2. \A j \in Jobs : at[j] \in Started <=> pc[j] \in Started
    BY <1>1, <1>0 DEF PastCall, Places, Settled, Started, Holding, Working, Setup
  <2>3. \A j \in Jobs : pc'[j] = IF j \in S THEN "slot" ELSE at[j]
    BY <1>1 DEF Scan
  <2>4. Held' = Held
    BY <1>1, <2>1, <2>3 DEF Held, Holding, Working, Setup
  <2>5. Live' = Live \cup S
    BY <2>1, <2>2, <2>3 DEF Live, Started
  <2>6. Live \cap S = {} /\ IsFiniteSet(S) /\ Cardinality(S) \in Nat
    BY <2>1, CountsAreFinite
  <2>7. Cardinality(Live \cup S) = wg + Cardinality(S)
    <3>1. Cardinality(Live \cup S) = Cardinality(Live) + Cardinality(S) - Cardinality(Live \cap S)
      BY <1>0, <2>6, FS_Union
    <3>2. Cardinality(Live \cap S) = 0
      BY <2>6, FS_EmptySet
    <3>. QED  BY <1>0, <2>6, <3>1, <3>2
  <2>8. Cardinality(Live') = wg' /\ sem' = Cardinality(Held')
    BY <1>0, <1>1, <2>4, <2>5, <2>7 DEF Scan
  <2>9. sem' <= MaxPar
    BY <1>0, <1>1 DEF Scan
  <2>. QED  BY <2>8, <2>9 DEF SlotsAccounted, Held
<1>2. CASE LaunchFirst
  <2>1. \E B, S : Scan(B, S, pc)
    BY <1>2, LaunchScans DEF LaunchFirst
  <2>. QED  BY <1>1, <2>1, CallersArePast DEF IInv
<1>3. ASSUME NEW j \in Jobs, LaunchNext(j) PROVE SlotsAccounted'
  <2>. DEFINE at == [pc EXCEPT ![j] = "exit"]
  <2>1. \E B, S : Scan(B, S, at)
    BY <1>3, LaunchScans DEF LaunchNext
  <2>2. PastCall(at)
    BY <1>3, CallersArePast DEF LaunchNext, IInv
  <2>3. \A k \in Jobs : at[k] \in Holding <=> pc[k] \in Holding
    BY <1>0, <1>3 DEF LaunchNext, Holding, Working
  <2>. HIDE DEF at
  <2>. QED  BY <1>1, <2>1, <2>2, <2>3
<1>4. ASSUME NEW j \in Jobs, RunJob(j), ~LaunchNext(j) PROVE SlotsAccounted'
  <2>1. CASE Steps(j, {"slot"}, Working) /\ sem < MaxPar /\ sem' = sem + 1 /\ wg' = wg
    <3>1. Held' = Held \cup {j} /\ j \notin Held /\ Live' = Live
      BY <1>0, <2>1 DEF Steps, Held, Live, Started, Holding, Working, Setup
    <3>2. Cardinality(Held \cup {j}) = sem + 1
      BY <1>0, <3>1, FS_AddElement
    <3>3. sem' = Cardinality(Held') /\ wg' = Cardinality(Live') /\ sem' <= MaxPar
      BY <1>0, <2>1, <3>1, <3>2
    <3>. QED  BY <3>3 DEF SlotsAccounted, Held
  <2>2. CASE Steps(j, Working, Working) /\ sem' = sem /\ wg' = wg
    <3>1. Held' = Held /\ Live' = Live
      BY <1>0, <2>2 DEF Steps, Held, Live, Started, Holding
    <3>. QED  BY <1>0, <2>2, <3>1 DEF SlotsAccounted, Held
  <2>3. CASE Steps(j, {"exit"}, {"gone"}) /\ sem' = sem - 1 /\ wg' = wg - 1
    <3>1. Held' = Held \ {j} /\ j \in Held /\ Live' = Live \ {j} /\ j \in Live
      BY <1>0, <2>3 DEF Steps, Held, Live, Started, Holding, Working, Setup
    <3>2. Cardinality(Held \ {j}) = sem - 1 /\ Cardinality(Live \ {j}) = wg - 1
      BY <1>0, <3>1, FS_RemoveElement
    <3>3. sem' = Cardinality(Held') /\ wg' = Cardinality(Live') /\ sem' <= MaxPar
      BY <1>0, <2>3, <3>1, <3>2
    <3>. QED  BY <3>3 DEF SlotsAccounted, Held
  <2>. QED  BY <1>4, <2>1, <2>2, <2>3, RunJobSlots
<1>5. CASE Return \/ Interrupt \/ UNCHANGED vars
  <2>1. UNCHANGED <<pc, sem, wg>>
    BY <1>5 DEF Return, Interrupt, vars
  <2>. QED  BY <1>0, <2>1 DEF SlotsAccounted, Held, Live
<1>. QED  BY <1>2, <1>3, <1>4, <1>5 DEF Next, Over

LEMMA InitSlots == Init => SlotsAccounted
<1>. SUFFICES ASSUME Init PROVE SlotsAccounted
  OBVIOUS
<1>1. Held = {} /\ Live = {}
  BY DEF Init, Held, Live, Started, Holding, Working, Setup
<1>2. sem = 0 /\ wg = 0
  BY DEF Init
<1>. QED  BY <1>1, <1>2, FS_EmptySet, MaxParAssumption DEF SlotsAccounted, Held

(* The counters agree with the places of the goroutines: no path through   *)
(* runJob, early returns included, keeps a slot or forgets the WaitGroup.  *)
THEOREM SlotsAreAccounted == Spec => []SlotsAccounted
BY InitIInv, NextIInv, InitSlots, StepsKeepSlots, PTL DEF Spec

------------------------------------------------------------------------------
(* The end of a run                                                        *)

(* When Run has returned, no goroutine of a job is left.                   *)
Quiet == Returned => Live = {}

LEMMA RunJobIsLive ==
  ASSUME NEW j \in Jobs, RunJob(j)
  PROVE  j \in Live /\ UNCHANGED main
BY DEF RunJob, TakeSlot, ResumeHit, ResumeMiss, SidecarsUp, SidecarsFail, CondTrue, CondFalse,
       CondInvalid, SecretsFound, SecretMissing, BeginSteps, FinishSteps, FinishFailed, Record,
       Notify, LaunchNext, Exit, Goto, Live, Started, Holding, Working, Setup

(* The WaitGroup is at zero only when no goroutine is counted in it.       *)
LEMMA NobodyIsLive ==
  ASSUME SlotsAccounted, wg = 0
  PROVE  Live = {}
<1>1. IsFiniteSet(Live) /\ Cardinality(Live) = 0
  BY CountsAreFinite DEF SlotsAccounted, Live
<1>. QED  BY <1>1, FS_EmptySet

LEMMA StepsKeepQuiet == Quiet /\ SlotsAccounted /\ [Next]_vars => Quiet'
<1>. SUFFICES ASSUME Quiet, SlotsAccounted, [Next]_vars PROVE Quiet'
  OBVIOUS
<1>1. CASE LaunchFirst
  BY <1>1 DEF LaunchFirst, Quiet, Returned
<1>2. ASSUME NEW j \in Jobs, RunJob(j) PROVE Quiet'
  BY <1>2, RunJobIsLive DEF Quiet, Returned
<1>3. CASE Return
  BY <1>3, NobodyIsLive DEF Return, Quiet, Live
<1>4. CASE Interrupt \/ UNCHANGED vars
  BY <1>4 DEF Interrupt, vars, Quiet, Returned, Live
<1>. QED  BY <1>1, <1>2, <1>3, <1>4 DEF Next, Over

LEMMA RunsEndQuiet == Spec => []Quiet
<1>1. Init => Quiet
  BY DEF Init, Quiet, Returned
<1>. QED  BY <1>1, StepsKeepQuiet, SlotsAreAccounted, PTL DEF Spec

(* In a plan whose jobs come after their needs, a job whose needs are all  *)
(* done is started or marked by the scan that finds it: while one is left, *)
(* a scan is still to come.                                                *)
NoneLeftBehind ==
  DefinedAfterNeeds =>
    \A j \in Unclaimed : (\A n \in IncludedNeeds(j) : n \in done) =>
      main = "launch" \/ \E k \in Jobs : pc[k] \in Working

(* A job that is not blocked although the scan knows all of its needs has  *)
(* none that failed: the first of them would have decided.                 *)
LEMMA NotBlocked ==
  ASSUME TypeOK, NEW j \in Unclaimed, NEW marked, ~Blocked(j, marked),
         \A n \in IncludedNeeds(j) : n \in done \cup marked
  PROVE  \A n \in IncludedNeeds(j) : n \notin failed \cup marked
<1>. DEFINE need == plan.needs[j]
            P == {i \in DOMAIN need : need[i] \in plan.only /\ need[i] \in failed \cup marked}
<1>. SUFFICES ASSUME P # {} PROVE FALSE
  BY DEF IncludedNeeds
<1>1. need \in Seq(Jobs)
  BY PlanTyped DEF PlanType, Unclaimed
<1>2. DOMAIN need = 1..Len(need) /\ Len(need) \in Nat
  BY <1>1
<1>3. P \in SUBSET Nat
  BY <1>2
<1>4. PICK i \in P : \A k \in P : ~ (k < i)
  <2>. HIDE DEF P
  <2>. QED  BY <1>3, LeastOfNat
<1>5. \A k \in 1..(i-1) : k \in DOMAIN need /\ k < i
  BY <1>2, <1>4
<1>6. \A k \in DOMAIN need : need[k] \in plan.only => need[k] \in done \cup marked
  BY DEF IncludedNeeds
<1>. QED  BY <1>4, <1>5, <1>6 DEF Blocked, Included

LEMMA NobodyIsLeft == Spec => []NoneLeftBehind
<1>1. Init => NoneLeftBehind
  BY DEF Init, NoneLeftBehind
<1>2. IInv /\ NoneLeftBehind /\ [Next]_vars => NoneLeftBehind'
  <2>. SUFFICES ASSUME IInv, NoneLeftBehind, [Next]_vars, main' # "launch", DefinedAfterNeeds'
                PROVE  NoneLeftBehind'
    BY DEF NoneLeftBehind
  <2>0. plan' = plan /\ DefinedAfterNeeds /\ \A k : IncludedNeeds(k)' = IncludedNeeds(k)
    <3>1. plan' = plan
      BY StepCases DEF Moves, Settles, Scan, Outside
    <3>. QED  BY <3>1 DEF DefinedAfterNeeds, IncludedNeeds
  <2>1. ASSUME NEW j \in Jobs, Moves(j) PROVE NoneLeftBehind'
    <3>1. \A k \in Jobs : pc[k] \in Working => pc'[k] \in Working
      BY <2>1 DEF Moves, IInv, TypeOK
    <3>2. Unclaimed' = Unclaimed
      BY <2>1 DEF Moves, outcomeVars, Unclaimed, Included
    <3>. QED  BY <2>0, <2>1, <3>1, <3>2 DEF NoneLeftBehind, Moves, outcomeVars
  <2>2. ASSUME NEW j \in Jobs, Settles(j) PROVE NoneLeftBehind'
    <3>1. pc'[j] \in Working
      BY <2>2 DEF Settles, IInv, TypeOK, Working
    <3>. QED  BY <3>1 DEF NoneLeftBehind
  <2>3. ASSUME NEW B, NEW S, NEW at, Scan(B, S, at) PROVE NoneLeftBehind'
    <3>. SUFFICES ASSUME NEW j \in Unclaimed', \A n \in IncludedNeeds(j) : n \in done'
                  PROVE  FALSE
      BY <2>0 DEF NoneLeftBehind
    <3>1. j \in Unclaimed /\ j \notin B /\ j \notin S /\ j \in plan.jobs
      BY <2>3 DEF Scan, Unclaimed, Included
    <3>2. \A n \in IncludedNeeds(j) : n \in done \cup Before(B, j)
      BY <2>0, <2>3, <3>1 DEF Scan, DefinedAfterNeeds, Before
    <3>3. ~Blocked(j, Before(B, j))
      BY <2>3, <3>1 DEF Scan
    <3>4. \A n \in IncludedNeeds(j) : n \notin failed /\ n \in done
      BY <3>1, <3>2, <3>3, NotBlocked DEF IInv
    <3>. QED  BY <2>3, <3>1, <3>4 DEF Scan, Ready
  <2>4. CASE Outside
    <3>1. Unclaimed' = Unclaimed /\ main # "launch"
      BY <2>4 DEF Outside, Unclaimed, Included
    <3>. QED  BY <2>0, <2>4, <3>1 DEF NoneLeftBehind, Outside
  <2>. QED  BY <2>1, <2>2, <2>3, <2>4, StepCases
<1>. QED  BY InitIInv, NextIInv, <1>1, <1>2, PTL DEF Spec

(* In a plan whose jobs are defined after their needs, Run does not return *)
(* before every job of the run has been executed, resumed or marked.       *)
THEOREM AllAreSettled == Spec => []AllSettled
<1>1. IInv /\ Quiet /\ NoneLeftBehind => AllSettled
  <2>. SUFFICES ASSUME IInv, Quiet, NoneLeftBehind, Returned, DefinedAfterNeeds,
                       (plan.jobs \cap plan.only) \ done # {}
                PROVE  FALSE
    BY DEF AllSettled
  <2>. USE DEF IInv
  <2>1. \A k \in Jobs : pc[k] \notin Started
    BY DEF Quiet, Live
  <2>2. inFlight \subseteq done
    BY <2>1 DEF TypeOK, PlacesCoherent, Places, Started, Holding, Settled
  <2>3. Unclaimed = (plan.jobs \cap plan.only) \ done
    BY <2>2 DEF Unclaimed, Included
  <2>4. Unclaimed \in SUBSET Jobs
    BY PlanTyped DEF Unclaimed, PlanType
  <2>5. PICK j \in Unclaimed : Before(Unclaimed, j) = {}
    BY <2>3, <2>4, FirstOfJobs
  <2>6. \A n \in IncludedNeeds(j) : n \in done
    BY <2>3, <2>5 DEF DefinedAfterNeeds, Before, IncludedNeeds
  <2>7. main # "launch"
    BY DEF Returned
  <2>8. \A k \in Jobs : pc[k] \notin Working
    BY <2>1 DEF Started, Holding
  <2>. QED  BY <2>5, <2>6, <2>7, <2>8 DEF NoneLeftBehind
<1>. QED  BY InitIInv, NextIInv, RunsEndQuiet, NobodyIsLeft, <1>1, PTL DEF Spec

------------------------------------------------------------------------------
(* The observer                                                            *)

(* Sequences of one and of two events.                                     *)
LEMMA AppendToOne ==
  ASSUME NEW S, NEW s \in Seq(S), NEW x \in S, NEW y \in S, s = <<x>>
  PROVE  Append(s, y) = <<x, y>>
<1>. DEFINE t == <<x, y>>
<1>1. Len(s) = 1 /\ s[1] = x
  OBVIOUS
<1>2. t \in Seq(S) /\ Len(t) = 2 /\ t[1] = x /\ t[2] = y
  OBVIOUS
<1>3. /\ Append(s, y) \in Seq(S) /\ Len(Append(s, y)) = Len(s) + 1
      /\ \A i \in 1..Len(s) : Append(s, y)[i] = s[i]
      /\ Append(s, y)[Len(s)+1] = y
  BY AppendProperties
<1>. HIDE DEF t
<1>4. Len(Append(s, y)) = 2 /\ \A i \in 1..2 : Append(s, y)[i] = t[i]
  BY <1>1, <1>2, <1>3
<1>5. Append(s, y) = t
  BY <1>2, <1>3, <1>4, SeqEqual
<1>. QED  BY <1>5 DEF t

LEMMA OneEvent ==
  ASSUME NEW s, NEW x, s = <<x>>
  PROVE  DOMAIN s = {1} /\ Len(s) = 1 /\ s # <<>> /\ s[1] = x
OBVIOUS

LEMMA TwoEvents ==
  ASSUME NEW s, NEW x, NEW y, s = <<x, y>>
  PROVE  DOMAIN s = {1, 2} /\ Len(s) = 2 /\ s # <<>> /\ s[1] = x /\ s[2] = y
OBVIOUS

(* What the observer has been told of a job, by the place of its           *)
(* goroutine.                                                              *)
HasTold(j) ==
  /\ j \notin done => results[j] = "" /\ j \notin resumed
  /\ j \in resumed => results[j] = ""
  /\ pc[j] \in {"idle", "slot"} \cup Setup =>
       events[j] = IF j \in done THEN <<"skipped">> ELSE <<>>
  /\ j \notin inFlight => results[j] = ""
  /\ pc[j] \in {"steps", "record"} => events[j] = <<"started">>
  /\ pc[j] = "record" => results[j] = "success"
  /\ pc[j] = "notify" =>
       events[j] = <<"started">> \/ (events[j] = <<>> /\ results[j] # "success")
  /\ pc[j] \in {"launch", "exit", "gone"} =>
       \E last \in FinalEvents :
         /\ events[j] = <<"started", last>> \/ (events[j] = <<last>> /\ last # "ok")
         /\ last = "failed" <=> results[j] = "failure"
         /\ last = "ok" <=> results[j] = "success"
         /\ last = "resumed" => j \in resumed

EventsFollow == \A j \in Jobs : HasTold(j)

(* A job is told of only by its own goroutine, or by the scan that marks   *)
(* it.                                                                     *)
LEMMA OthersAreNotTold ==
  ASSUME NEW j \in Jobs, NEW k \in Jobs, HasTold(k),
         pc'[k] = pc[k], events'[k] = events[k], results'[k] = results[k],
         k \in done' <=> k \in done, k \in resumed' <=> k \in resumed,
         k \in inFlight' <=> k \in inFlight
  PROVE  HasTold(k)'
BY DEF HasTold

LEMMA JobsTellTheirOwn ==
  ASSUME IInv, EventsFollow, NEW j \in Jobs, RunJob(j), ~LaunchNext(j),
         NEW k \in Jobs, k # j
  PROVE  HasTold(k)'
<1>1. HasTold(k) /\ pc \in [Jobs -> Places] /\ results \in [Jobs -> Results]
      /\ events \in [Jobs -> Seq(EventKinds)]
  BY DEF EventsFollow, IInv, TypeOK
<1>2. pc'[k] = pc[k] /\ results'[k] = results[k] /\ inFlight' = inFlight
      /\ (k \in done' <=> k \in done) /\ (k \in resumed' <=> k \in resumed)
  <2>1. CASE Moves(j)
    BY <1>1, <2>1 DEF Moves, outcomeVars
  <2>2. CASE Settles(j)
    BY <1>1, <2>2 DEF Settles
  <2>. QED  BY <2>1, <2>2, RunJobCases DEF IInv
<1>3. events'[k] = events[k]
  BY <1>1 DEF RunJob, TakeSlot, ResumeHit, ResumeMiss, SidecarsUp, SidecarsFail, CondTrue,
              CondFalse, CondInvalid, SecretsFound, SecretMissing, BeginSteps, FinishSteps,
              FinishFailed, Record, Notify, Exit
<1>. QED  BY <1>1, <1>2, <1>3, OthersAreNotTold

(* What a goroutine tells of its own job.                                  *)
LEMMA JobsTellWhatHappened ==
  ASSUME IInv, OutcomesPublished, NEW j \in Jobs, HasTold(j), RunJob(j), ~LaunchNext(j)
  PROVE  HasTold(j)'
<1>0. /\ pc \in [Jobs -> Places] /\ results \in [Jobs -> Results]
      /\ events \in [Jobs -> Seq(EventKinds)]
  BY DEF IInv, TypeOK
<1>. USE DEF Goto, Setup
<1>1. CASE TakeSlot(j) \/ ResumeMiss(j) \/ SidecarsUp(j) \/ CondTrue(j) \/ SecretsFound(j)
  <2>1. pc[j] \in {"slot"} \cup Setup /\ \E p \in Setup : pc' = [pc EXCEPT ![j] = p]
    BY <1>1, NextStages DEF TakeSlot, ResumeMiss, SidecarsUp, CondTrue, SecretsFound
  <2>2. UNCHANGED <<done, results, resumed, inFlight, events>>
    BY <1>1 DEF TakeSlot, ResumeMiss, SidecarsUp, CondTrue, SecretsFound, outcomeVars
  <2>3. j \notin done /\ j \in inFlight
    BY <2>1, UnsettledIsOpen DEF Unsettled, IInv
  <2>. QED  BY <1>0, <2>1, <2>2, <2>3 DEF HasTold
<1>2. CASE ResumeHit(j) \/ CondFalse(j) \/ SidecarsFail(j) \/ CondInvalid(j) \/ SecretMissing(j)
  <2>1. pc[j] \in Setup /\ pc' = [pc EXCEPT ![j] = "notify"] /\ events' = events
        /\ inFlight' = inFlight
    BY <1>2 DEF ResumeHit, CondFalse, SidecarsFail, CondInvalid, SecretMissing, FinishFailed
  <2>2. j \notin done /\ j \in inFlight
    BY <2>1, UnsettledIsOpen DEF Unsettled, IInv
  <2>3. /\ j \in done'
        /\ j \in resumed' => results'[j] = ""
        /\ results'[j] # "success"
    BY <1>0, <1>2, <2>2
       DEF HasTold, ResumeHit, CondFalse, SidecarsFail, CondInvalid, SecretMissing, FinishFailed
  <2>. QED  BY <1>0, <2>1, <2>2, <2>3 DEF HasTold
<1>3. CASE BeginSteps(j)
  <2>1. j \notin done /\ j \in inFlight
    BY <1>3, UnsettledIsOpen DEF BeginSteps, Unsettled, IInv
  <2>2. Append(<<>>, "started") = <<"started">>
    OBVIOUS
  <2>3. events'[j] = <<"started">>
    BY <1>0, <1>3, <2>1, <2>2 DEF HasTold, BeginSteps
  <2>. QED  BY <1>0, <1>3, <2>1, <2>3 DEF HasTold, BeginSteps, outcomeVars
<1>4. CASE \E ok \in BOOLEAN, captured \in Captures(j) : FinishSteps(j, ok, captured)
  <2>. PICK ok \in BOOLEAN, captured \in Captures(j) : FinishSteps(j, ok, captured)
    BY <1>4
  <2>1. j \notin done /\ j \in inFlight /\ events[j] = <<"started">>
    BY UnsettledIsOpen DEF FinishSteps, Unsettled, IInv, HasTold
  <2>2. UNCHANGED <<events, inFlight, resumed>> /\ done' = done \cup {j}
    BY DEF FinishSteps
  <2>3. /\ pc' = [pc EXCEPT ![j] = IF ok THEN "record" ELSE "notify"]
        /\ results' = [results EXCEPT ![j] = IF ok THEN "success" ELSE "failure"]
    BY DEF FinishSteps
  <2>4. j \notin resumed
    BY <2>1 DEF HasTold
  <2>. QED  BY <1>0, <2>1, <2>2, <2>3, <2>4 DEF HasTold
<1>5. CASE Record(j)
  BY <1>0, <1>5 DEF Record, HasTold, outcomeVars
<1>6. CASE Notify(j)
  <2>. DEFINE last == FinalEvent(j)
  <2>1. j \in done /\ j \in inFlight
    BY <1>6 DEF Notify, IInv, PlacesCoherent, Settled
  <2>2. results[j] # "" \/ j \in resumed
    BY <2>1 DEF OutcomesPublished
  <2>3. /\ last \in FinalEvents
        /\ last = "failed" <=> results[j] = "failure"
        /\ last = "ok" <=> results[j] = "success"
        /\ last = "resumed" => j \in resumed
    BY <1>0, <2>2 DEF FinalEvent, FinalEvents, EventKinds, Results, JobResults, HasTold
  <2>4. events'[j] = Append(events[j], last)
    BY <1>0, <1>6 DEF Notify
  <2>5. pc' = [pc EXCEPT ![j] = "launch"] /\ UNCHANGED <<done, results, resumed, inFlight>>
    BY <1>6 DEF Notify, outcomeVars
  <2>6. events[j] = <<"started">> \/ (events[j] = <<>> /\ results[j] # "success")
    BY <1>6 DEF Notify, HasTold
  <2>. HIDE DEF last
  <2>7. events'[j] = <<"started", last>> \/ (events'[j] = <<last>> /\ last # "ok")
    <3>1. last \in EventKinds /\ "started" \in EventKinds /\ events[j] \in Seq(EventKinds)
      BY <1>0, <2>3 DEF FinalEvents, EventKinds
    <3>2. CASE events[j] = <<"started">>
      BY <2>4, <3>1, <3>2, AppendToOne
    <3>3. CASE events[j] = <<>> /\ results[j] # "success"
      BY <2>3, <2>4, <3>3
    <3>. QED  BY <2>6, <3>2, <3>3
  <2>. QED  BY <1>0, <2>1, <2>3, <2>5, <2>7 DEF HasTold
<1>7. CASE Exit(j)
  BY <1>0, <1>7 DEF Exit, HasTold, outcomeVars
<1>. QED  BY <1>1, <1>2, <1>3, <1>4, <1>5, <1>6, <1>7 DEF RunJob

(* A scan tells of the jobs it marks, and of no other.                     *)
LEMMA ScansTell ==
  ASSUME IInv, EventsFollow, NEW at, NEW B, NEW S, Scan(B, S, at), NEW k \in Jobs,
         at[k] = pc[k] \/ (pc[k] = "launch" /\ at[k] = "exit")
  PROVE  HasTold(k)'
<1>1. /\ k \in B \cup S => k \notin done /\ k \notin inFlight
      /\ k \notin B \/ k \notin S
  BY ScansTakeUnclaimed DEF IInv
<1>2. k \notin inFlight <=> pc[k] = "idle"
  BY DEF IInv, PlacesCoherent
<1>3. HasTold(k)
  BY DEF EventsFollow
<1>4. /\ pc'[k] = (IF k \in S THEN "slot" ELSE at[k])
      /\ events'[k] = (IF k \in B THEN Append(events[k], "skipped") ELSE events[k])
      /\ UNCHANGED <<results, resumed>>
      /\ done' = done \cup B /\ inFlight' = inFlight \cup S
  BY DEF Scan
<1>5. CASE k \in B
  <2>1. Append(<<>>, "skipped") = <<"skipped">>
    OBVIOUS
  <2>. QED  BY <1>1, <1>2, <1>3, <1>4, <1>5, <2>1 DEF HasTold, Setup
<1>6. CASE k \in S
  BY <1>1, <1>2, <1>3, <1>4, <1>6 DEF HasTold, Setup
<1>7. CASE k \notin B /\ k \notin S
  <2>1. /\ k \in done' <=> k \in done
        /\ k \in inFlight' <=> k \in inFlight
        /\ pc'[k] = at[k] /\ UNCHANGED <<results, resumed>> /\ events'[k] = events[k]
    BY <1>4, <1>7
  <2>2. CASE at[k] = pc[k]
    BY <1>3, <2>1, <2>2, OthersAreNotTold
  <2>3. CASE pc[k] = "launch" /\ at[k] = "exit"
    BY <1>3, <2>1, <2>3 DEF HasTold, Setup
  <2>. QED  BY <2>2, <2>3
<1>. QED  BY <1>5, <1>6, <1>7

LEMMA StepsTell == IInv /\ OutcomesPublished /\ EventsFollow /\ [Next]_vars => EventsFollow'
<1>. SUFFICES ASSUME IInv, OutcomesPublished, EventsFollow, [Next]_vars, NEW k \in Jobs
              PROVE  HasTold(k)'
  BY DEF EventsFollow
<1>1. CASE LaunchFirst
  <2>. PICK B, S : Scan(B, S, pc)
    BY <1>1, LaunchScans DEF LaunchFirst
  <2>. QED  BY ScansTell
<1>2. ASSUME NEW j \in Jobs, LaunchNext(j) PROVE HasTold(k)'
  <2>. DEFINE at == [pc EXCEPT ![j] = "exit"]
  <2>1. PICK B, S : Scan(B, S, at)
    BY <1>2, LaunchScans DEF LaunchNext
  <2>2. at[k] = pc[k] \/ (pc[k] = "launch" /\ at[k] = "exit")
    BY <1>2 DEF LaunchNext, IInv, TypeOK
  <2>. HIDE DEF at
  <2>. QED  BY <2>1, <2>2, ScansTell
<1>3. ASSUME NEW j \in Jobs, RunJob(j), ~LaunchNext(j) PROVE HasTold(k)'
  BY <1>3, JobsTellTheirOwn, JobsTellWhatHappened DEF EventsFollow
<1>4. CASE Return \/ Interrupt \/ UNCHANGED vars
  BY <1>4 DEF Return, Interrupt, vars, outcomeVars, EventsFollow, HasTold
<1>. QED  BY <1>1, <1>2, <1>3, <1>4 DEF Next, Over

LEMMA EventsAreTold == Spec => []EventsFollow
<1>1. Init => EventsFollow
  BY DEF Init, EventsFollow, HasTold, Setup
<1>2. Init => OutcomesPublished
  BY DEF Init, OutcomesPublished
<1>. QED  BY InitIInv, NextIInv, StepsPublish, StepsTell, <1>1, <1>2, PTL DEF Spec

(* The observer gets at most one final event of a job, in the end exactly  *)
(* one of every job that is done, and it agrees with the published result. *)
THEOREM TheObserverAgrees == Spec => []ObserverAgrees
<1>1. IInv /\ EventsFollow /\ Quiet => ObserverAgrees
  <2>. SUFFICES ASSUME IInv, EventsFollow, Quiet PROVE ObserverAgrees
    OBVIOUS
  <2>0. \A j \in Jobs :
          \/ events[j] = <<>> \/ events[j] = <<"started">>
          \/ \E last \in FinalEvents : events[j] = <<last>> \/ events[j] = <<"started", last>>
    <3>. SUFFICES ASSUME NEW j \in Jobs
                  PROVE  \/ events[j] = <<>> \/ events[j] = <<"started">>
                         \/ \E last \in FinalEvents :
                              events[j] = <<last>> \/ events[j] = <<"started", last>>
      OBVIOUS
    <3>1. HasTold(j) /\ pc[j] \in Places
      BY DEF EventsFollow, IInv, TypeOK
    <3>2. "skipped" \in FinalEvents
      BY DEF FinalEvents, EventKinds
    <3>. QED  BY <3>1, <3>2 DEF HasTold, Places, Started, Holding, Working
  <2>1. \A j \in Jobs : \A i \in DOMAIN events[j] :
          events[j][i] \in FinalEvents => i = Len(events[j])
    <3>. SUFFICES ASSUME NEW j \in Jobs, NEW i \in DOMAIN events[j], events[j][i] \in FinalEvents
                  PROVE  i = Len(events[j])
      OBVIOUS
    <3>1. "started" \notin FinalEvents /\ events[j] # <<>>
      BY DEF FinalEvents
    <3>2. ASSUME NEW last, events[j] = <<last>> PROVE i = Len(events[j])
      BY <3>2, OneEvent
    <3>3. ASSUME NEW last, events[j] = <<"started", last>> PROVE i = Len(events[j])
      BY <3>1, <3>3, TwoEvents
    <3>. QED  BY <2>0, <3>1, <3>2, <3>3
  <2>2. ASSUME Returned, NEW j \in Jobs
        PROVE  /\ j \in done <=> events[j] # <<>> /\ events[j][Len(events[j])] \in FinalEvents
               /\ j \in done => LET last == events[j][Len(events[j])] IN
                    /\ last = "failed" <=> results[j] = "failure"
                    /\ last = "ok" <=> results[j] = "success"
                    /\ last = "ok" => events[j][1] = "started"
    <3>1. pc[j] \in {"idle", "gone"} /\ HasTold(j)
      BY <2>2 DEF Quiet, Live, IInv, TypeOK, Places, EventsFollow
    <3>2. CASE pc[j] = "idle"
      <4>1. events[j] = (IF j \in done THEN <<"skipped">> ELSE <<>>) /\ results[j] = ""
        BY <3>1, <3>2 DEF HasTold, IInv, PlacesCoherent
      <4>2. CASE j \in done
        BY <4>1, <4>2, OneEvent DEF FinalEvents, EventKinds
      <4>. QED  BY <4>1, <4>2
    <3>3. CASE pc[j] = "gone"
      <4>1. j \in done
        BY <3>3 DEF IInv, PlacesCoherent, Settled
      <4>2. PICK last \in FinalEvents :
              /\ events[j] = <<"started", last>> \/ (events[j] = <<last>> /\ last # "ok")
              /\ last = "failed" <=> results[j] = "failure"
              /\ last = "ok" <=> results[j] = "success"
        BY <3>1, <3>3 DEF HasTold
      <4>3. events[j] # <<>> /\ events[j][Len(events[j])] = last
            /\ (last = "ok" => events[j][1] = "started")
        BY <4>2, OneEvent, TwoEvents
      <4>. QED  BY <4>1, <4>2, <4>3
    <3>. QED  BY <3>1, <3>2, <3>3
  <2>. QED  BY <2>1, <2>2 DEF ObserverAgrees
<1>. QED  BY InitIInv, NextIInv, EventsAreTold, RunsEndQuiet, <1>1, PTL DEF Spec

------------------------------------------------------------------------------
(* The scheduler implements the abstract execution of a job graph, step by *)
(* step: the safety part of ImplementsDagExecution.                        *)

(* The status of a job, and what the abstract run reads off it.            *)
LEMMA StatusOf ==
  ASSUME NEW j \in Jobs, failed \subseteq done
  PROVE  /\ Status(j) = "waiting" <=> j \notin done /\ j \notin inFlight
         /\ Status(j) = "running" <=> j \notin done /\ j \in inFlight
         /\ Status(j) \in Abstract!Bad <=> j \in failed
         /\ Status(j) \in Abstract!Satisfied <=> j \in done /\ j \notin failed
BY DEF Status, Abstract!Bad, Abstract!Satisfied

(* What waits is what a scan looks at, and what may start is what is ready.*)
LEMMA AbstractSets ==
  ASSUME TypeOK
  PROVE  /\ Abstract!Waiting = Unclaimed
         /\ Abstract!Startable = {j \in Unclaimed : Ready(j)}
<1>1. /\ plan.jobs \subseteq Jobs /\ failed \subseteq done
      /\ \A j \in Jobs : IncludedNeeds(j) \subseteq Jobs
  BY PlanTyped DEF PlanType, IncludedNeeds, TypeOK
<1>2. Abstract!Waiting = Unclaimed
  BY <1>1, StatusOf DEF Abstract!Waiting, Unclaimed, Included
<1>3. \A j \in Unclaimed : j \in Jobs
  BY <1>1 DEF Unclaimed
<1>4. \A j \in Unclaimed : Ready(j) <=> \A n \in IncludedNeeds(j) : Status(n) \in Abstract!Satisfied
  BY <1>1, <1>3, StatusOf DEF Ready
<1>. QED  BY <1>1, <1>2, <1>3, <1>4 DEF Abstract!Startable

(* The status of a job depends on what has been published of it, and on    *)
(* whether it was started.                                                 *)
LEMMA SameStatus ==
  ASSUME NEW j \in Jobs, results'[j] = results[j],
         j \in done' <=> j \in done, j \in failed' <=> j \in failed,
         j \in inFlight' <=> j \in inFlight
  PROVE  Status(j)' = Status(j)
BY DEF Status

LEMMA NothingAbstract ==
  ASSUME UNCHANGED <<plan, main, results, done, failed, inFlight>>
  PROVE  UNCHANGED Abstract!vars
BY SameStatus DEF Abstract!vars, IncludedNeeds, Returned

(* A goroutine that settles its job ends it.                               *)
LEMMA SettlingEnds ==
  ASSUME IInv, NEW j \in Jobs, Settles(j)
  PROVE  Abstract!EndSomehow(j)
<1>1. j \in inFlight /\ j \notin done /\ j \notin failed
  BY UnsettledIsOpen DEF Settles, IInv
<1>2. Status(j) = "running"
  BY <1>1 DEF Status
<1>3. Status(j)' \in Abstract!Ended
  BY <1>1 DEF Status, Settles, Abstract!Ended, Abstract!Satisfied
<1>4. \A k \in Jobs : k # j => Status(k)' = Status(k)
  BY SameStatus DEF Settles, IInv, TypeOK
<1>5. UNCHANGED <<plan, main>>
  BY DEF Settles
<1>6. [k \in Jobs |-> Status(k)]' = [[k \in Jobs |-> Status(k)] EXCEPT ![j] = Status(j)']
  BY <1>4
<1>. QED  BY <1>2, <1>3, <1>5, <1>6 DEF Abstract!EndSomehow, Abstract!End, IncludedNeeds, Returned

(* A scan before the return advances the run: what it starts is all that   *)
(* can start, and what it marks has a need that failed or is marked too.   *)
LEMMA ScansAdvance ==
  ASSUME IInv, NEW at, NEW B, NEW S, Scan(B, S, at), ~Returned, ~Returned'
  PROVE  Abstract!Advance \/ UNCHANGED Abstract!vars
<1>. USE DEF IInv
<1>0. /\ B \subseteq Unclaimed /\ B \cap S = {} /\ S \subseteq Unclaimed /\ Unclaimed \subseteq Jobs
      /\ \A j \in B \cup S : j \notin done /\ j \notin inFlight
  BY ScansTakeUnclaimed, PlanTyped DEF Unclaimed, PlanType
<1>1. \A j \in B : \E n \in IncludedNeeds(j) : n \in failed \cup B
  BY <1>0 DEF Scan, Blocked, Before, IncludedNeeds, Included
<1>2. \A j \in B : ~Ready(j)
  <2>. SUFFICES ASSUME NEW j \in B, Ready(j) PROVE FALSE
    OBVIOUS
  <2>. QED  BY <1>0, <1>1 DEF Ready
<1>3. S = Abstract!Startable
  BY <1>0, <1>2, AbstractSets DEF Scan
<1>4. B \in SUBSET (Abstract!Waiting \ Abstract!Startable)
  BY <1>0, <1>3, AbstractSets
<1>5. \A j \in B : \E n \in IncludedNeeds(j) : Status(n) \in Abstract!Bad \/ n \in B
  BY <1>0, <1>1, StatusOf, PlanTyped DEF PlanType, IncludedNeeds, TypeOK
<1>6. /\ done' = done \cup B /\ failed' = failed \cup B /\ inFlight' = inFlight \cup S
      /\ results' = results /\ plan' = plan
  BY DEF Scan
<1>7. ASSUME NEW j \in Jobs
      PROVE  /\ j \in S => Status(j)' = "running"
             /\ j \in B => Status(j)' = "blocked"
             /\ j \notin S \cup B => Status(j)' = Status(j)
  <2>1. ASSUME j \in S PROVE Status(j)' = "running"
    <3>1. j \notin done' /\ j \in inFlight' /\ j \notin failed'
      BY <1>0, <1>6, <2>1 DEF TypeOK
    <3>. QED  BY <3>1 DEF Status
  <2>2. ASSUME j \in B PROVE Status(j)' = "blocked"
    <3>1. j \in done' /\ j \in failed' /\ j \notin inFlight'
      BY <1>0, <1>6, <2>2
    <3>. QED  BY <3>1 DEF Status
  <2>3. ASSUME j \notin S \cup B PROVE Status(j)' = Status(j)
    BY <1>6, <2>3, SameStatus
  <2>. QED  BY <2>1, <2>2, <2>3
<1>8. CASE B \cup S = {}
  <2>1. \A j \in Jobs : Status(j)' = Status(j)
    BY <1>7, <1>8
  <2>. QED  BY <1>6, <2>1 DEF Abstract!vars, IncludedNeeds
<1>9. CASE B \cup S # {}
  <2>1. \A j \in Jobs : Status(j)' = CASE j \in S -> "running"
                                      [] j \in B -> "blocked"
                                      [] OTHER   -> Status(j)
    <3>1. \A j : ~(j \in S /\ j \in B)
      BY <1>0
    <3>. QED  BY <1>7, <3>1
  <2>2. [j \in Jobs |-> Status(j)]' = [j \in Jobs |-> CASE j \in S -> "running"
                                                       [] j \in B -> "blocked"
                                                       [] OTHER   -> [k \in Jobs |-> Status(k)][j]]
    BY <2>1
  <2>3. \A j \in B : \E n \in [k \in Jobs |-> IncludedNeeds(k)][j] :
          [k \in Jobs |-> Status(k)][n] \in Abstract!Bad \/ n \in B
    BY <1>0, <1>5, PlanTyped DEF PlanType, IncludedNeeds, TypeOK
  <2>4. /\ (IF Returned THEN main ELSE "none") = "none"
        /\ UNCHANGED <<plan.jobs \cap plan.only, [j \in Jobs |-> IncludedNeeds(j)],
                      IF Returned THEN main ELSE "none">>
    BY <1>6 DEF IncludedNeeds
  <2>. QED  BY <1>3, <1>4, <1>9, <2>2, <2>3, <2>4 DEF Abstract!Advance
<1>. QED  BY <1>8, <1>9

(* Run returns when nothing runs and nothing could, with the verdict.      *)
LEMMA ReturnsReturn ==
  ASSUME IInv, NoLostWakeup, SlotsAccounted, FailFast, Return
  PROVE  Abstract!Return
<1>. USE DEF IInv
<1>0. /\ UNCHANGED <<plan, results, done, failed, inFlight>> /\ main = "wait"
      /\ main' = IF anyFail THEN "failed" ELSE "passed"
  BY DEF Return, outcomeVars
<1>1. Live = {}
  BY NobodyIsLive DEF Return
<1>2. \A j \in Jobs : Status(j) # "running"
  BY <1>1, StatusOf
     DEF TypeOK, PlacesCoherent, Places, Live, Started, Holding, Settled
<1>3. \A k \in Jobs : pc[k] \notin Working
  BY <1>1 DEF Live, Started, Holding
<1>4. Abstract!Startable = {}
  BY <1>0, <1>3, AbstractSets DEF NoLostWakeup
<1>5. (\E j \in Jobs : Status(j) \in Abstract!Bad) <=> anyFail
  BY StatusOf DEF FailFast, TypeOK
<1>6. \A j \in Jobs : Status(j)' = Status(j)
  BY <1>0, SameStatus
<1>. QED  BY <1>0, <1>2, <1>4, <1>5, <1>6 DEF Abstract!Return, IncludedNeeds, Returned

LEMMA StepsRefine ==
  ASSUME IInv, NoLostWakeup, SlotsAccounted, FailFast, Quiet, [Next]_vars
  PROVE  [Abstract!Next]_(Abstract!vars)
<1>1. CASE LaunchFirst
  <2>. PICK B, S : Scan(B, S, pc)
    BY <1>1, LaunchScans DEF LaunchFirst
  <2>. QED  BY <1>1, ScansAdvance DEF LaunchFirst, Returned, Abstract!Next
<1>2. ASSUME NEW j \in Jobs, RunJob(j) PROVE [Abstract!Next]_(Abstract!vars)
  <2>1. CASE LaunchNext(j)
    <3>1. ~Returned /\ ~Returned'
      BY <1>2, RunJobIsLive DEF Quiet, Returned
    <3>. PICK B, S : Scan(B, S, [pc EXCEPT ![j] = "exit"])
      BY <2>1, LaunchScans DEF LaunchNext
    <3>. QED  BY <3>1, ScansAdvance DEF Abstract!Next
  <2>2. CASE Moves(j)
    BY <2>2, NothingAbstract DEF Moves, outcomeVars
  <2>3. CASE Settles(j)
    BY <2>3, SettlingEnds DEF Abstract!Next
  <2>. QED  BY <1>2, <2>1, <2>2, <2>3, RunJobCases DEF IInv
<1>3. CASE Return
  BY <1>3, ReturnsReturn DEF Abstract!Next
<1>4. CASE Interrupt \/ UNCHANGED vars
  BY <1>4, NothingAbstract DEF Interrupt, vars, outcomeVars
<1>. QED  BY <1>1, <1>2, <1>3, <1>4 DEF Next, Over

LEMMA InitRefines == Init => Abstract!Init
<1>. SUFFICES ASSUME Init PROVE Abstract!Init
  OBVIOUS
<1>1. plan \in PlanType
  BY PlansAssumption DEF Init
<1>2. plan.jobs \cap plan.only \in SUBSET Jobs /\ \A j \in Jobs : IncludedNeeds(j) \in SUBSET Jobs
  BY <1>1 DEF PlanType, IncludedNeeds
<1>3. \A j \in Jobs : Status(j) = "waiting"
  BY DEF Init, Status
<1>. QED  BY <1>2, <1>3 DEF Init, Abstract!Init, Returned

(* Every behaviour of the scheduler, on any plan, is one of the abstract   *)
(* run of its job graph: a job starts when and only when its needs are     *)
(* satisfied, ends once, is marked only because of a failure, and the run  *)
(* returns, with the right verdict, when nothing runs and nothing could.   *)
THEOREM RefinesDagExecution == Spec => Abstract!Spec
<1>. QED
  BY InitIInv, NextIInv, InitRefines, StepsRefine, NoWakeupIsLost, SlotsAreAccounted, FailsFast,
     RunsEndQuiet, PTL DEF Spec, Abstract!Spec

==============================================================================
