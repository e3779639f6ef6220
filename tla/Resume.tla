------------------------------- MODULE Resume -------------------------------
(***************************************************************************)
(* Runs with --resume, one after the other, in one working tree: the       *)
(* resume path of runJob, fingerprint and cleanAfter (scheduler.go),       *)
(* JobFingerprint, MarkJobDone, JobDone and RestoreJob                     *)
(* (internal/cache/fingerprint.go), and a user who edits sources and jobs  *)
(* and kills runs.  Slots, conditions, secrets and sidecars are those of   *)
(* module Scheduler and are left out here, and what can happen to a store  *)
(* is the subject of CacheStore.                                           *)
(*                                                                         *)
(* A file has a value and a stamp.  The value says how it came about; the  *)
(* stamp stands for size and mtime, so it is another one after every       *)
(* write.  A command is a function of its definition and of what it reads: *)
(* files, and values that jobs it needs pass by $SHIP_OUTPUT.              *)
(***************************************************************************)
EXTENDS Naturals, FiniteSets

CONSTANTS
  Jobs, Files,
  Plans,     \* the plans that are looked at, of PlanType
  MaxRuns,   \* bound on the number of runs
  MaxEdits,  \* bound on the number of edits
  None       \* no job

ASSUME NoneAssumption == None \notin Jobs

(* A job writes the files in writes and declares those in outs of them; it *)
(* declares the files in inputs (Cache.Inputs of its steps) of those that  *)
(* it reads; the others that it reads are files of the jobs it needs.      *)
PlanType == [needs: [Jobs -> SUBSET Jobs], inputs: [Jobs -> SUBSET Files], reads: [Jobs -> SUBSET Files],
             writes: [Jobs -> SUBSET Files], outs: [Jobs -> SUBSET Files], clean: [Jobs -> SUBSET Files],
             hears: [Jobs -> SUBSET Jobs],  \* whose OUTPUTS_<JOB>_<KEY> its command reads
             tolerant: SUBSET Jobs, flaky: SUBSET Jobs]

ASSUME PlansAssumption ==
  /\ Plans \subseteq PlanType
  /\ \A p \in Plans : \A j \in Jobs : p.outs[j] \subseteq p.writes[j] /\ p.hears[j] \subseteq p.needs[j]

(* The validator rejects plans with cycles.                                *)
ASSUME AcyclicAssumption ==
  \A p \in Plans : \A some \in (SUBSET Jobs) \ {{}} : \E j \in some : p.needs[j] \cap some = {}

VARIABLES
  plan,      \* the plan; never changes
  version,   \* the definition of each job, in two parts, see NewRun
  val,       \* the files of the tree: values,
  stamp,     \*   and size and mtime
  store,     \* the archives, by fingerprint
  run,       \* number of the run
  edits,     \* number of edits so far
  edited,    \* there was one since the run began
  pc,        \* where runJob is
  fp,        \* its local fp
  took,      \* what its command has read
  ok,        \* ~jobFailed
  done, failed, fps, jobOut, canceled,  \* the fields of the scheduler
  kept,      \* history: the jobs recorded since the last edit,
  used       \*   and the definitions that runs were started with

treeVars == <<val, stamp>>
jobVars == <<pc, fp, took, ok>>
runVars == <<done, failed, fps, jobOut, canceled>>
userVars == <<version, run, edits, edited, used>>
vars == <<plan, treeVars, store, jobVars, runVars, userVars, kept>>

Declares(j) == plan.outs[j] # {}
Value(j, v, from, good) == [by |-> j, ver |-> v, from |-> from, ok |-> good]

(* No file, and no fingerprint.                                            *)
Absent == Value(None, 0, {}, FALSE)
NoPrint == [job |-> None, def |-> 0, ups |-> {}, ins |-> {}]

Goto(j, place) == pc' = [pc EXCEPT ![j] = place]

(* Files are written one by one; each gets a new stamp.                    *)
Put(new) ==
  /\ val' = [f \in Files |-> IF f \in DOMAIN new THEN new[f] ELSE val[f]]
  /\ stamp' = [f \in Files |-> IF f \in DOMAIN new THEN stamp[f] + 1 ELSE stamp[f]]

------------------------------------------------------------------------------
(* launch, reduced to needs                                                *)

Unclaimed(D, P) == {j \in Jobs : j \notin D /\ P[j] = "idle"}
Blocked(D, F, P) == {j \in Unclaimed(D, P) : plan.needs[j] \subseteq D /\ plan.needs[j] \cap F # {}}

Launch(P) ==
  LET b == Blocked(done, failed, P)
  IN  /\ done' = done \cup b /\ failed' = failed \cup b
      /\ pc' = [j \in Jobs |-> IF j \in Unclaimed(done, P) /\ plan.needs[j] \subseteq done \ failed
                               THEN "check" ELSE P[j]]

(* What makes a need visible to those that build on it: its fingerprint,   *)
(* if it has one.                                                          *)
Upstreams(j) == {fps[n] : n \in plan.needs[j]} \ {NoPrint}

(* The declared inputs that exist, with their stat signatures.             *)
Inputs(j) == {<<f, stamp[f]>> : f \in {g \in plan.inputs[j] : val[g] # Absent}}

(* JobFingerprint, of what fingerprint gives it: of the definition only    *)
(* the hashed part.  (Slip: it is taken without the needs.)                *)
FingerprintAlone(j) == [job |-> j, def |-> version[j].hashed, ups |-> {}, ins |-> Inputs(j)]
Fingerprint(j) == [job |-> j, def |-> version[j].hashed, ups |-> Upstreams(j), ins |-> Inputs(j)]

Check(j) ==
  /\ pc[j] = "check"
  /\ IF Declares(j)
       THEN /\ fp' = [fp EXCEPT ![j] = Fingerprint(j)]
            /\ Goto(j, IF Fingerprint(j) \in DOMAIN store THEN "restore" ELSE "begin")
       ELSE Goto(j, "begin") /\ UNCHANGED fp
  /\ UNCHANGED <<plan, treeVars, store, took, ok, runVars, userVars, kept>>

(* RestoreJob rewrites every file of the archive.                          *)
Restore(j) ==
  /\ pc[j] = "restore" /\ Goto(j, "resumed")
  /\ Put(store[fp[j]])
  /\ UNCHANGED <<plan, store, fp, took, ok, runVars, userVars, kept>>

(* The values that its command passed are lost: jobOut stays as it was.    *)
(* (Slip: without its fingerprint.)                                        *)
PublishResumedBare(j) ==
  /\ pc[j] = "resumed" /\ Goto(j, "launch")
  /\ done' = done \cup {j}
  /\ UNCHANGED <<plan, treeVars, store, fp, took, ok, fps, failed, jobOut, canceled, userVars, kept>>
PublishResumed(j) ==
  /\ pc[j] = "resumed" /\ Goto(j, "launch")
  /\ fps' = [fps EXCEPT ![j] = fp[j]] /\ done' = done \cup {j}
  /\ UNCHANGED <<plan, treeVars, store, fp, took, ok, failed, jobOut, canceled, userVars, kept>>

(* The command reads files and values of its needs, and ends, well or not; *)
(* then its files are complete, or else broken or as before.               *)
Begin(j) ==
  /\ pc[j] = "begin" /\ Goto(j, "steps")
  /\ took' = [took EXCEPT ![j] = {<<f, val[f]>> : f \in plan.reads[j]}
                                          \cup {<<n, jobOut[n]>> : n \in plan.hears[j]}]
  /\ UNCHANGED <<plan, treeVars, store, fp, ok, runVars, userVars, kept>>

Succeed(j) ==
  /\ pc[j] = "steps" /\ Goto(j, "publish")
  /\ ok' = [ok EXCEPT ![j] = TRUE]
  /\ Put([f \in plan.writes[j] |-> Value(j, version[j], took[j], TRUE)])
  /\ UNCHANGED <<plan, store, fp, took, runVars, userVars, kept>>

Fail(j) ==
  /\ pc[j] = "steps" /\ (j \in plan.flaky \/ canceled) /\ Goto(j, "publish")
  /\ ok' = [ok EXCEPT ![j] = FALSE]
  /\ \/ UNCHANGED treeVars
     \/ Put([f \in plan.writes[j] |-> Value(j, version[j], took[j], FALSE)])
  /\ UNCHANGED <<plan, store, fp, took, runVars, userVars, kept>>

Fatal(j) == ~ok[j] /\ j \notin plan.tolerant

Publish(j) ==
  /\ pc[j] = "publish" /\ Goto(j, IF ok[j] THEN "mark" ELSE "launch")
  /\ done' = done \cup {j} /\ fps' = [fps EXCEPT ![j] = fp[j]]
  /\ jobOut' = [jobOut EXCEPT ![j] = Value(j, version[j], took[j], ok[j])]
  /\ failed' = IF Fatal(j) THEN failed \cup {j} ELSE failed
  /\ canceled' = (canceled \/ Fatal(j))
  /\ UNCHANGED <<plan, treeVars, store, fp, took, ok, userVars, kept>>

(* MarkJobDone: the declared files that exist.  (Slip: cleanAfter comes    *)
(* first.)                                                                 *)
ArchivedClean(j) == {f \in plan.outs[j] \ plan.clean[j] : val[f] # Absent}
Archived(j) == {f \in plan.outs[j] : val[f] # Absent}

Mark(j) ==
  /\ pc[j] = "mark" /\ Goto(j, "clean")
  /\ IF fp[j] # NoPrint
       THEN /\ store' = [x \in (DOMAIN store) \cup {fp[j]} |->
                           IF x = fp[j] THEN [f \in Archived(j) |-> val[f]] ELSE store[x]]
            /\ kept' = IF edited THEN kept ELSE kept \cup {j}
       ELSE UNCHANGED <<store, kept>>
  /\ UNCHANGED <<plan, treeVars, fp, took, ok, runVars, userVars>>

CleanAfter(j) ==
  /\ pc[j] = "clean" /\ Goto(j, "launch")
  /\ val' = [f \in Files |-> IF f \in plan.clean[j] THEN Absent ELSE val[f]]
  /\ UNCHANGED <<plan, stamp, store, fp, took, ok, runVars, userVars, kept>>

LaunchNext(j) ==
  /\ pc[j] = "launch"
  /\ Launch([pc EXCEPT ![j] = "over"])
  /\ UNCHANGED <<plan, treeVars, store, fp, took, ok, fps, jobOut, canceled, userVars, kept>>

RunJob(j) ==
  \/ Check(j) \/ Restore(j) \/ PublishResumed(j) \/ Begin(j) \/ Succeed(j) \/ Fail(j)
  \/ Publish(j) \/ Mark(j) \/ CleanAfter(j) \/ LaunchNext(j)

------------------------------------------------------------------------------
(* The user                                                                *)

Fresh == [j \in Jobs |-> NoPrint]
Unheard == [j \in Jobs |-> Absent]

(* The next run, when the last one is over or was killed, after a change   *)
(* of a job at most, or of taking it back: the old fingerprint recurs.     *)
(* What changes may be hashed (commands, image, variables and environment  *)
(* of the job, secrets) or not (environment, shell and directory of a      *)
(* step, conditions, handlers, toolchain, sidecars, network, mounts).      *)
NewRun ==
  /\ run < MaxRuns /\ run' = run + 1
  /\ edited' = FALSE
  /\ \/ UNCHANGED <<version, edits, kept>>
     \/ /\ edits < MaxEdits /\ edits' = edits + 1 /\ kept' = {}
        /\ \E j \in Jobs, part \in {"hashed", "other"} :
             version' = [version EXCEPT ![j][part] = 1 - @]
  /\ used' = [j \in Jobs |-> used[j] \cup {version'[j]}]
  /\ pc' = [j \in Jobs |-> IF plan.needs[j] = {} THEN "check" ELSE "idle"]
  /\ done' = {} /\ failed' = {} /\ fps' = Fresh /\ fp' = Fresh /\ jobOut' = Unheard
  /\ canceled' = FALSE
  /\ took' = [j \in Jobs |-> {}] /\ ok' = [j \in Jobs |-> FALSE]
  /\ UNCHANGED <<plan, treeVars, store>>

Sources == Files \ UNION {plan.writes[j] : j \in Jobs}

(* At any time, also while a run is under way.                             *)
EditSource(f) ==
  /\ f \in Sources /\ edits < MaxEdits /\ edits' = edits + 1
  /\ edited' = (run > 0) /\ kept' = {}
  /\ Put([g \in {f} |-> Value(None, stamp[f] + 1, {}, TRUE)])
  /\ UNCHANGED <<plan, store, jobVars, runVars, run, version, used>>

Init ==
  /\ plan \in Plans
  /\ version = [j \in Jobs |-> [hashed |-> 0, other |-> 0]] /\ used = [j \in Jobs |-> {}]
  /\ stamp = [f \in Files |-> 0]
  /\ val = [f \in Files |-> IF f \in Sources THEN Value(None, 0, {}, TRUE) ELSE Absent]
  /\ store = [x \in {} |-> {}]
  /\ run = 0 /\ edits = 0 /\ edited = FALSE
  /\ pc = [j \in Jobs |-> "idle"] /\ fp = Fresh
  /\ took = [j \in Jobs |-> {}] /\ ok = [j \in Jobs |-> FALSE]
  /\ done = {} /\ failed = {} /\ fps = Fresh /\ jobOut = Unheard /\ canceled = FALSE
  /\ kept = {}

Elsewhere == run = MaxRuns /\ UNCHANGED vars

Next ==
  \/ \E j \in Jobs : RunJob(j)
  \/ \E f \in Files : EditSource(f)
  \/ NewRun \/ Elsewhere

Spec == Init /\ [][Next]_vars

------------------------------------------------------------------------------
(* Properties                                                              *)

(* j and the jobs that it needs, directly or not; and the jobs whose       *)
(* fingerprints are in that of j, which ends at jobs without outputs.      *)
Upstream[j \in Jobs] == {j} \cup UNION {Upstream[n] : n \in plan.needs[j]}
Known[j \in Jobs] == UNION {{n} \cup Known[n] : n \in {m \in plan.needs[j] : Declares(m)}}

(* Whatever j builds on can be told from its fingerprint: every job that   *)
(* it needs declares its files, and is not tolerated when it fails.        *)
Covered(j) == \A n \in Upstream[j] :
  /\ plan.writes[n] = plan.outs[n]
  /\ n # j => n \notin plan.tolerant

(* No other job writes the files of j, and none removes them.              *)
Private(j) == \A k \in Jobs \ {j} : plan.writes[j] \cap (plan.writes[k] \cup plan.clean[k]) = {}

(* j reads sources that it declares and files of jobs that its fingerprint *)
(* knows, none of which a cleaning job removes; and no values, which are   *)
(* lost when the job that passes them is resumed.                          *)
Removed == UNION {plan.clean[j] : j \in Jobs}
Tracked(j) ==
  /\ plan.reads[j] \subseteq (Sources \cup UNION {plan.writes[n] : n \in Known[j]}) \ Removed
  /\ plan.reads[j] \cap Sources \subseteq plan.inputs[j]
  /\ plan.hears[j] = {}

(* Whatever was changed in the definition of j, its fingerprint tells.     *)
Told(j) == \A d, e \in used[j] : d.hashed = e.hashed => d = e

Hermetic(j) == \A n \in Upstream[j] : Covered(n) /\ Private(n) /\ Tracked(n) /\ Told(n)

(* What a run from scratch, of what is there now, would write.             *)
CleanBuild[j \in Jobs] ==
  Value(j, version[j],
        {<<f, val[f]>> : f \in plan.reads[j] \cap Sources}
          \cup UNION {{<<x, CleanBuild[n]>> : x \in (plan.reads[j] \cap plan.writes[n]) \cup (plan.hears[j] \cap {n})}
                         : n \in Upstream[j] \ {j}},
        TRUE)

(* The promise of incremental builds: a run that ends well has left the    *)
(* files that a build from scratch would have, whatever was edited in the  *)
(* sources and in what is hashed of the jobs, resumed, failed, killed or   *)
(* taken back before (fingerprint.go:13, "the job's result is reusable").  *)
IncrementalIsClean ==
  ~edited /\ done = Jobs /\ failed = {} =>
    \A j \in Jobs : Hermetic(j) /\ (j \in plan.tolerant => ok[j]) =>
      \A f \in plan.outs[j] \ plan.clean[j] : val[f] = CleanBuild[j]

(* An archive holds all the declared files, of one and the same successful *)
(* execution under the definition of its fingerprint, although it is made  *)
(* after the dependents of the job may have started.                       *)
ArchivesExact == \A x \in DOMAIN store : Private(x.job) =>
  /\ DOMAIN store[x] = plan.outs[x.job]
  /\ \A f, g \in DOMAIN store[x] : store[x][f] = store[x][g]
  /\ \A f \in DOMAIN store[x] :
       store[x][f].ok /\ store[x][f].by = x.job /\ store[x][f].ver.hashed = x.def

(* Resuming resumes: a job that was recorded is not executed again before  *)
(* the next edit, whatever fails or is killed in the meantime, if it and   *)
(* what it needs declare only sources as their inputs that no job removes. *)
SourceFed(j) == \A n \in Upstream[j] : plan.inputs[n] \subseteq Sources \ Removed

RecordedNotRepeated == \A j \in kept : SourceFed(j) => pc[j] \notin {"begin", "steps"}

(* The same of every job that declares outputs (SPEC.md:505, "Enables      *)
(* resume: a pipeline that failed at job N reruns and skips 1..N-1").      *)
RerunSkipsRecorded == \A j \in kept : pc[j] \notin {"begin", "steps"}

==============================================================================
