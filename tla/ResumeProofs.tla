---------------------------- MODULE ResumeProofs ----------------------------
(***************************************************************************)
(* Proofs about module Resume, for every set of plans, every number of     *)
(* runs and every edit.                                                    *)
(***************************************************************************)
EXTENDS Resume, TLAPS

Places == {"idle", "check", "restore", "resumed", "begin", "steps", "publish", "mark", "clean",
           "launch", "over"}

IsFcn(f, S) == f = [x \in S |-> f[x]]

Typed ==
  /\ plan \in Plans
  /\ IsFcn(version, Jobs) /\ IsFcn(val, Files) /\ stamp \in [Files -> Nat]
  /\ IsFcn(store, DOMAIN store)
  /\ pc \in [Jobs -> Places] /\ IsFcn(fp, Jobs) /\ IsFcn(took, Jobs) /\ ok \in [Jobs -> BOOLEAN]
  /\ done \subseteq Jobs /\ failed \subseteq Jobs /\ IsFcn(fps, Jobs) /\ canceled \in BOOLEAN
  /\ kept \subseteq Jobs /\ run \in Nat /\ edited \in BOOLEAN
  /\ IsFcn(used, Jobs) /\ (run # 0 => \A j \in Jobs : version[j] \in used[j])

LEMMA PlanTyped ==
  ASSUME Typed
  PROVE  /\ plan \in PlanType
         /\ \A j \in Jobs : plan.outs[j] \subseteq plan.writes[j]
         /\ \A j \in Jobs : plan.writes[j] \subseteq Files /\ plan.needs[j] \subseteq Jobs
<1>1. plan \in PlanType /\ \A j \in Jobs : plan.outs[j] \subseteq plan.writes[j]
  BY PlansAssumption DEF Typed
<1>. QED  BY <1>1 DEF PlanType

LEMMA InitTyped == Init => Typed
<1>. SUFFICES ASSUME Init PROVE Typed
  OBVIOUS
<1>1. IsFcn(version, Jobs) /\ IsFcn(val, Files) /\ IsFcn(store, DOMAIN store)
  BY DEF Init, IsFcn
<1>2. IsFcn(fp, Jobs) /\ IsFcn(fps, Jobs) /\ IsFcn(took, Jobs)
  BY DEF Init, IsFcn, Fresh
<1>4. IsFcn(used, Jobs) /\ run = 0
  BY DEF Init, IsFcn
<1>3. stamp \in [Files -> Nat] /\ ok \in [Jobs -> BOOLEAN] /\ pc \in [Jobs -> Places] /\ run \in Nat
  BY DEF Init, Places
<1>. QED  BY <1>1, <1>2, <1>3, <1>4 DEF Init, Typed

(* A scan of launch changes where jobs are and marks those it finds        *)
(* blocked.                                                                *)
LEMMA LaunchTypes ==
  ASSUME Typed, NEW P \in [Jobs -> Places], Launch(P)
  PROVE  done' \subseteq Jobs /\ failed' \subseteq Jobs /\ pc' \in [Jobs -> Places]
<1>1. Blocked(done, failed, P) \subseteq Jobs
  BY DEF Blocked, Unclaimed
<1>. QED  BY <1>1 DEF Typed, Launch, Places

LEMMA PutTypes ==
  ASSUME Typed, NEW new, Put(new)
  PROVE  IsFcn(val', Files) /\ stamp' \in [Files -> Nat]
BY DEF Typed, Put, IsFcn

LEMMA NextTyped == Typed /\ [Next]_vars => Typed'
<1>. SUFFICES ASSUME Typed, [Next]_vars PROVE Typed'
  OBVIOUS
<1>. USE DEF Goto, Places, runVars, userVars, treeVars, jobVars
<1>1. ASSUME NEW j \in Jobs, Check(j) PROVE Typed'
  BY <1>1 DEF Typed, Check, IsFcn
<1>2. ASSUME NEW j \in Jobs, Restore(j) PROVE Typed'
  BY <1>2, PutTypes DEF Typed, Restore
<1>3. ASSUME NEW j \in Jobs, PublishResumed(j) PROVE Typed'
  BY <1>3 DEF Typed, PublishResumed, IsFcn
<1>4. ASSUME NEW j \in Jobs, Begin(j) PROVE Typed'
  BY <1>4 DEF Typed, Begin, IsFcn
<1>5. ASSUME NEW j \in Jobs, Succeed(j) PROVE Typed'
  BY <1>5, PutTypes DEF Typed, Succeed, IsFcn
<1>6. ASSUME NEW j \in Jobs, Fail(j) PROVE Typed'
  BY <1>6, PutTypes DEF Typed, Fail, IsFcn
<1>7. ASSUME NEW j \in Jobs, Publish(j) PROVE Typed'
  <2>1. canceled' \in BOOLEAN
    BY <1>7 DEF Publish, Typed
  <2>. QED  BY <1>7, <2>1 DEF Typed, Publish, IsFcn
<1>8. ASSUME NEW j \in Jobs, Mark(j) PROVE Typed'
  <2>1. IsFcn(store', DOMAIN store')
    BY <1>8 DEF Typed, Mark, IsFcn
  <2>2. kept' \subseteq Jobs
    BY <1>8 DEF Typed, Mark
  <2>. QED  BY <1>8, <2>1, <2>2 DEF Typed, Mark
<1>9. ASSUME NEW j \in Jobs, CleanAfter(j) PROVE Typed'
  BY <1>9 DEF Typed, CleanAfter, IsFcn
<1>10. ASSUME NEW j \in Jobs, LaunchNext(j) PROVE Typed'
  <2>1. [pc EXCEPT ![j] = "over"] \in [Jobs -> Places]
    BY DEF Typed
  <2>. QED  BY <1>10, <2>1, LaunchTypes DEF Typed, LaunchNext
<1>11. ASSUME NEW f \in Files, EditSource(f) PROVE Typed'
  BY <1>11, PutTypes DEF Typed, EditSource
<1>12. CASE NewRun
  <2>1. IsFcn(version', Jobs)
    BY <1>12 DEF Typed, NewRun, IsFcn
  <2>2. IsFcn(fp', Jobs) /\ IsFcn(fps', Jobs) /\ IsFcn(took', Jobs)
    BY <1>12 DEF NewRun, Fresh, IsFcn
  <2>3. pc' \in [Jobs -> Places] /\ ok' \in [Jobs -> BOOLEAN] /\ run' \in Nat
    BY <1>12 DEF Typed, NewRun
  <2>4. /\ UNCHANGED <<plan, val, stamp, store>> /\ edited' = FALSE /\ canceled' = FALSE
        /\ done' = {} /\ failed' = {} /\ kept' \in {kept, {}}
    BY <1>12 DEF NewRun
  <2>5. IsFcn(used', Jobs) /\ \A j \in Jobs : version'[j] \in used'[j]
    BY <1>12 DEF NewRun, IsFcn
  <2>. QED  BY <2>1, <2>2, <2>3, <2>4, <2>5 DEF Typed
<1>13. CASE UNCHANGED vars
  BY <1>13 DEF Typed, vars
<1>. QED
  BY <1>1, <1>2, <1>3, <1>4, <1>5, <1>6, <1>7, <1>8, <1>9, <1>10, <1>11, <1>12, <1>13
     DEF Next, RunJob, Elsewhere

------------------------------------------------------------------------------
(* Archives                                                                *)

(* A fingerprint is that of the job that it was taken for, and so is what  *)
(* is archived under it.                                                   *)
PrintsOwn == \A j \in Jobs :
  /\ fp[j] = NoPrint \/ (fp[j].job = j /\ fp[j].def = version[j].hashed)
  /\ pc[j] = "restore" => fp[j] \in DOMAIN store

ArchivesOwn == \A x \in DOMAIN store :
  /\ x # NoPrint /\ x.job \in Jobs
  /\ DOMAIN store[x] \subseteq plan.outs[x.job]

(* Between the end of its command and the archive, the files of a job that *)
(* nobody else writes are those of that execution, although its dependents *)
(* may have started.                                                       *)
Finished(j) == pc[j] = "mark" \/ (pc[j] = "publish" /\ ok[j])

FilesOwn == \A j \in Jobs : Private(j) /\ Finished(j) =>
  \A f \in plan.writes[j] : val[f] = Value(j, version[j], took[j], TRUE)

ArchiveInv == Typed /\ PrintsOwn /\ ArchivesOwn /\ FilesOwn /\ ArchivesExact

(* Nobody but j writes a file that is private to j.                        *)
LEMMA PrivateFiles ==
  ASSUME NEW j \in Jobs, NEW k \in Jobs, Private(j), j # k
  PROVE  plan.writes[j] \cap plan.writes[k] = {} /\ plan.writes[j] \cap plan.clean[k] = {}
BY DEF Private

(* A step that takes no job to its end, and writes no file of a job that   *)
(* is there, leaves the files of finished jobs as they are.                *)
LEMMA FilesKept ==
  ASSUME Typed, FilesOwn, plan' = plan,
         \A j \in Jobs : Private(j) /\ Finished(j)' =>
           /\ Finished(j) /\ version'[j] = version[j] /\ took'[j] = took[j]
           /\ \A f \in plan.writes[j] : val'[f] = val[f]
  PROVE  FilesOwn'
<1>. SUFFICES ASSUME NEW j \in Jobs, Private(j), Finished(j)', NEW f \in plan.writes[j]
              PROVE  val'[f] = Value(j, version'[j], took'[j], TRUE)
  BY DEF FilesOwn, Private, Value
<1>. QED  BY DEF FilesOwn

(* A step that leaves the store alone leaves the archives as they are.     *)
LEMMA ArchivesKept ==
  ASSUME ArchivesOwn, ArchivesExact, UNCHANGED <<plan, store>>
  PROVE  ArchivesOwn' /\ ArchivesExact'
BY DEF ArchivesOwn, ArchivesExact, Private

(* What a job puts under its fingerprint.                                  *)
LEMMA MarksKeepArchives ==
  ASSUME ArchiveInv, NEW j \in Jobs, Mark(j)
  PROVE  ArchivesOwn' /\ ArchivesExact'
<1>1. CASE fp[j] = NoPrint
  BY <1>1, ArchivesKept DEF Mark, ArchiveInv
<1>2. CASE fp[j] # NoPrint
  <2>. DEFINE a == [f \in Archived(j) |-> val[f]]
  <2>1. /\ store' = [x \in (DOMAIN store) \cup {fp[j]} |-> IF x = fp[j] THEN a ELSE store[x]]
        /\ plan' = plan /\ pc[j] = "mark"
    BY <1>2 DEF Mark, Goto
  <2>2. fp[j].job = j /\ fp[j].def = version[j].hashed
    BY <1>2 DEF ArchiveInv, PrintsOwn
  <2>3. DOMAIN a \subseteq plan.outs[j]
    BY DEF Archived
  <2>4. ArchivesOwn'
    BY <1>2, <2>1, <2>2, <2>3 DEF ArchiveInv, ArchivesOwn
  <2>5. ASSUME Private(j)
        PROVE  /\ DOMAIN a = plan.outs[j]
               /\ \A f, g \in DOMAIN a : a[f] = a[g]
               /\ \A f \in DOMAIN a : a[f].ok /\ a[f].by = j /\ a[f].ver.hashed = fp[j].def
    <3>1. \A f \in plan.outs[j] : val[f] = Value(j, version[j], took[j], TRUE)
      BY <2>1, <2>5, PlanTyped DEF ArchiveInv, FilesOwn, Finished
    <3>2. Value(j, version[j], took[j], TRUE) # Absent
      BY NoneAssumption DEF Value, Absent
    <3>3. DOMAIN a = plan.outs[j]
      BY <3>1, <3>2 DEF Archived
    <3>4. /\ Value(j, version[j], took[j], TRUE).ok /\ Value(j, version[j], took[j], TRUE).by = j
          /\ Value(j, version[j], took[j], TRUE).ver.hashed = fp[j].def
      BY <2>2 DEF Value
    <3>5. \A f \in DOMAIN a : a[f] = Value(j, version[j], took[j], TRUE)
      BY <3>1, <3>3
    <3>. QED  BY <3>3, <3>4, <3>5
  <2>. HIDE DEF a
  <2>6. ASSUME NEW x \in DOMAIN store', Private(x.job)
        PROVE  /\ DOMAIN store'[x] = plan.outs[x.job]
               /\ \A f, g \in DOMAIN store'[x] : store'[x][f] = store'[x][g]
               /\ \A f \in DOMAIN store'[x] : /\ store'[x][f].ok /\ store'[x][f].by = x.job
                                               /\ store'[x][f].ver.hashed = x.def
    <3>1. CASE x = fp[j]
      <4>1. store'[x] = a /\ x.job = j
        BY <2>1, <2>2, <3>1
      <4>. QED  BY <2>5, <2>6, <3>1, <4>1
    <3>2. CASE x # fp[j]
      BY <2>1, <2>6, <3>2 DEF ArchiveInv, ArchivesExact
    <3>. QED  BY <3>1, <3>2
  <2>7. \A k : Private(k)' => Private(k)
    BY <2>1 DEF Private
  <2>8. ArchivesExact'
    <3>1. plan' = plan
      BY <2>1
    <3>. QED  BY <2>6, <2>7, <3>1 DEF ArchivesExact
  <2>. QED  BY <2>4, <2>8
<1>. QED  BY <1>1, <1>2

LEMMA InitArchives == Init => ArchiveInv
<1>1. Init => PrintsOwn /\ ArchivesOwn /\ FilesOwn /\ ArchivesExact
  BY DEF Init, PrintsOwn, ArchivesOwn, FilesOwn, Finished, ArchivesExact, Fresh
<1>. QED  BY <1>1, InitTyped DEF ArchiveInv

LEMMA NextArchives == ArchiveInv /\ [Next]_vars => ArchiveInv'
<1>. SUFFICES ASSUME ArchiveInv, [Next]_vars PROVE ArchiveInv'
  OBVIOUS
<1>0. Typed /\ Typed' /\ PrintsOwn /\ ArchivesOwn /\ FilesOwn /\ ArchivesExact
  BY NextTyped DEF ArchiveInv
<1>. USE DEF Goto, runVars, userVars, treeVars, jobVars
<1>1. ASSUME NEW j \in Jobs, Check(j) PROVE ArchiveInv'
  <2>1. PrintsOwn'
    BY <1>0, <1>1 DEF Check, PrintsOwn, Typed, IsFcn, Fingerprint
  <2>2. FilesOwn'
    BY <1>0, <1>1, FilesKept DEF Check, Finished, Typed
  <2>. QED  BY <1>0, <1>1, <2>1, <2>2, ArchivesKept DEF ArchiveInv, Check
<1>2. ASSUME NEW j \in Jobs, Restore(j) PROVE ArchiveInv'
  <2>1. DOMAIN store[fp[j]] \subseteq plan.writes[j]
    BY <1>0, <1>2, PlanTyped DEF Restore, PrintsOwn, ArchivesOwn
  <2>2. ASSUME NEW k \in Jobs, Private(k), k # j, NEW f \in plan.writes[k] PROVE val'[f] = val[f]
    BY <1>0, <1>2, <2>1, <2>2, PrivateFiles, PlanTyped DEF Restore, Put
  <2>3. FilesOwn'
    BY <1>0, <1>2, <2>2, FilesKept DEF Restore, Finished, Typed
  <2>4. PrintsOwn'
    BY <1>0, <1>2 DEF Restore, PrintsOwn, Typed
  <2>. QED  BY <1>0, <1>2, <2>3, <2>4, ArchivesKept DEF ArchiveInv, Restore
<1>3. ASSUME NEW j \in Jobs, PublishResumed(j) \/ Begin(j) PROVE ArchiveInv'
  <2>1. PrintsOwn'
    BY <1>0, <1>3 DEF PublishResumed, Begin, PrintsOwn, Typed
  <2>2. FilesOwn'
    BY <1>0, <1>3, FilesKept DEF PublishResumed, Begin, Finished, Typed, IsFcn
  <2>. QED  BY <1>0, <1>3, <2>1, <2>2, ArchivesKept DEF ArchiveInv, PublishResumed, Begin
<1>4. ASSUME NEW j \in Jobs, Succeed(j) PROVE ArchiveInv'
  <2>1. PrintsOwn'
    BY <1>0, <1>4 DEF Succeed, PrintsOwn, Typed
  <2>2. ASSUME NEW k \in Jobs, Private(k), k # j, NEW f \in plan.writes[k] PROVE val'[f] = val[f]
    BY <1>0, <1>4, <2>2, PrivateFiles, PlanTyped DEF Succeed, Put
  <2>3. \A f \in plan.writes[j] : val'[f] = Value(j, version[j], took[j], TRUE)
    BY <1>0, <1>4, PlanTyped DEF Succeed, Put
  <2>4. FilesOwn'
    <3>. SUFFICES ASSUME NEW k \in Jobs, Private(k), Finished(k)', NEW f \in plan.writes[k]
                  PROVE  val'[f] = Value(k, version'[k], took'[k], TRUE)
      BY <1>4 DEF FilesOwn, Private, Value, Succeed
    <3>1. UNCHANGED <<version, took>>
      BY <1>4 DEF Succeed
    <3>2. CASE k = j
      BY <2>3, <3>1, <3>2
    <3>3. CASE k # j
      <4>1. Finished(k)
        BY <1>0, <1>4, <3>3 DEF Succeed, Finished, Typed
      <4>. QED  BY <1>0, <2>2, <3>1, <3>3, <4>1 DEF FilesOwn
    <3>. QED  BY <3>2, <3>3
  <2>. QED  BY <1>0, <1>4, <2>1, <2>4, ArchivesKept DEF ArchiveInv, Succeed
<1>5. ASSUME NEW j \in Jobs, Fail(j) PROVE ArchiveInv'
  <2>1. PrintsOwn'
    BY <1>0, <1>5 DEF Fail, PrintsOwn, Typed
  <2>2. ASSUME NEW k \in Jobs, Private(k), k # j, NEW f \in plan.writes[k] PROVE val'[f] = val[f]
    BY <1>0, <1>5, <2>2, PrivateFiles, PlanTyped DEF Fail, Put
  <2>3. FilesOwn'
    BY <1>0, <1>5, <2>2, FilesKept DEF Fail, Finished, Typed
  <2>. QED  BY <1>0, <1>5, <2>1, <2>3, ArchivesKept DEF ArchiveInv, Fail
<1>6. ASSUME NEW j \in Jobs, Publish(j) PROVE ArchiveInv'
  <2>1. PrintsOwn'
    BY <1>0, <1>6 DEF Publish, PrintsOwn, Typed
  <2>2. FilesOwn'
    BY <1>0, <1>6, FilesKept DEF Publish, Finished, Typed
  <2>. QED  BY <1>0, <1>6, <2>1, <2>2, ArchivesKept DEF ArchiveInv, Publish
<1>7. ASSUME NEW j \in Jobs, Mark(j) PROVE ArchiveInv'
  <2>1. DOMAIN store \subseteq DOMAIN store'
    BY <1>7 DEF Mark
  <2>2. PrintsOwn'
    BY <1>0, <1>7, <2>1 DEF Mark, PrintsOwn, Typed
  <2>3. FilesOwn'
    BY <1>0, <1>7, FilesKept DEF Mark, Finished, Typed
  <2>. QED  BY <1>0, <1>7, <2>2, <2>3, MarksKeepArchives DEF ArchiveInv
<1>8. ASSUME NEW j \in Jobs, CleanAfter(j) PROVE ArchiveInv'
  <2>1. PrintsOwn'
    BY <1>0, <1>8 DEF CleanAfter, PrintsOwn, Typed
  <2>2. ASSUME NEW k \in Jobs, Private(k), k # j, NEW f \in plan.writes[k] PROVE val'[f] = val[f]
    BY <1>0, <1>8, <2>2, PrivateFiles, PlanTyped DEF CleanAfter
  <2>3. FilesOwn'
    BY <1>0, <1>8, <2>2, FilesKept DEF CleanAfter, Finished, Typed
  <2>. QED  BY <1>0, <1>8, <2>1, <2>3, ArchivesKept DEF ArchiveInv, CleanAfter
<1>9. ASSUME NEW j \in Jobs, LaunchNext(j) PROVE ArchiveInv'
  <2>1. \A k \in Jobs : pc'[k] = pc[k] \/ pc'[k] \in {"check", "over"}
    BY <1>0, <1>9 DEF LaunchNext, Launch, Typed
  <2>2. PrintsOwn'
    BY <1>0, <1>9, <2>1 DEF LaunchNext, Launch, PrintsOwn
  <2>3. FilesOwn'
    BY <1>0, <1>9, <2>1, FilesKept DEF LaunchNext, Launch, Finished
  <2>. QED  BY <1>0, <1>9, <2>2, <2>3, ArchivesKept DEF ArchiveInv, LaunchNext, Launch
<1>10. ASSUME NEW f \in Files, EditSource(f) PROVE ArchiveInv'
  <2>1. PrintsOwn'
    BY <1>0, <1>10 DEF EditSource, PrintsOwn
  <2>2. \A k \in Jobs : \A g \in plan.writes[k] : val'[g] = val[g]
    BY <1>0, <1>10, PlanTyped DEF EditSource, Sources, Put
  <2>3. FilesOwn'
    BY <1>0, <1>10, <2>2, FilesKept DEF EditSource, Finished
  <2>. QED  BY <1>0, <1>10, <2>1, <2>3, ArchivesKept DEF ArchiveInv, EditSource
<1>11. CASE NewRun
  <2>1. \A k \in Jobs : pc'[k] \in {"check", "idle"} /\ fp'[k] = NoPrint
    BY <1>11 DEF NewRun, Fresh
  <2>2. PrintsOwn' /\ FilesOwn'
    BY <2>1 DEF PrintsOwn, FilesOwn, Finished
  <2>. QED  BY <1>0, <1>11, <2>2, ArchivesKept DEF ArchiveInv, NewRun
<1>12. CASE UNCHANGED vars
  <2>1. PrintsOwn'
    BY <1>0, <1>12 DEF vars, PrintsOwn
  <2>2. FilesOwn'
    BY <1>0, <1>12, FilesKept DEF vars, Finished
  <2>. QED  BY <1>0, <1>12, <2>1, <2>2, ArchivesKept DEF ArchiveInv, vars
<1>. QED
  BY <1>1, <1>2, <1>3, <1>4, <1>5, <1>6, <1>7, <1>8, <1>9, <1>10, <1>11, <1>12
     DEF Next, RunJob, Elsewhere

LEMMA ArchiveInvariant == Spec => []ArchiveInv
BY InitArchives, NextArchives, PTL DEF Spec

(* What is archived under a fingerprint is all that the job declares, of   *)
(* one and the same successful execution of that job under the definition  *)
(* that was hashed, if nobody else writes its files, whatever was edited,  *)
(* killed or cleaned in between.                                           *)
THEOREM ArchivesAreExact == Spec => []ArchivesExact
<1>1. ArchiveInv => ArchivesExact
  BY DEF ArchiveInv
<1>. QED  BY <1>1, ArchiveInvariant, PTL

------------------------------------------------------------------------------
(* What a run knows of its jobs                                            *)

Late == {"mark", "clean", "launch", "over"}

(* A job starts when its needs are done and have not failed, is done when  *)
(* it has published its outcome or was marked, and has a fingerprint from  *)
(* its check on if it declares outputs.                                    *)
JobFacts(j) ==
  /\ pc[j] # "idle" => plan.needs[j] \subseteq done \ failed
  /\ pc[j] \in Late => j \in done
  /\ j \in done => pc[j] \in Late \/ (pc[j] = "idle" /\ j \in failed)
  /\ j \in done \ failed => fps[j] = fp[j]
  /\ pc[j] \in {"idle", "check"} => fp[j] = NoPrint
  /\ pc[j] \notin {"idle", "check"} => (Declares(j) <=> fp[j] # NoPrint)
  /\ run = 0 => pc[j] = "idle"

RunFacts == failed \subseteq done /\ \A j \in Jobs : JobFacts(j)

LEMMA PrintsAreSome ==
  ASSUME NEW j \in Jobs
  PROVE  Fingerprint(j) # NoPrint
BY NoneAssumption DEF Fingerprint, NoPrint

LEMMA InitRunFacts == Init => RunFacts
BY DEF Init, RunFacts, JobFacts, Late, Fresh

(* The facts about a job that a step says nothing of remain.               *)
LEMMA OtherFactsKept ==
  ASSUME Typed, RunFacts, NEW k \in Jobs, UNCHANGED <<plan, run>>,
         pc'[k] = pc[k], fp'[k] = fp[k],
         done \subseteq done', k \in done' => k \in done, k \in failed' <=> k \in failed,
         fps'[k] = fps[k], failed' \cap done \subseteq failed
  PROVE  JobFacts(k)'
<1>1. JobFacts(k)
  BY DEF RunFacts
<1>2. plan.needs[k] \subseteq Jobs
  BY PlanTyped
<1>. QED  BY <1>1, <1>2 DEF JobFacts, Declares

LEMMA NextRunFacts == Typed /\ RunFacts /\ [Next]_vars => RunFacts'
<1>. SUFFICES ASSUME Typed, RunFacts, [Next]_vars PROVE RunFacts'
  OBVIOUS
<1>. USE DEF Goto, runVars, userVars, treeVars, jobVars
<1>0. /\ pc \in [Jobs -> Places] /\ IsFcn(fp, Jobs) /\ IsFcn(fps, Jobs) /\ failed \subseteq done
      /\ done \subseteq Jobs
      /\ \A k \in Jobs : JobFacts(k)
  BY DEF Typed, RunFacts
<1>1. ASSUME NEW j \in Jobs, Check(j) PROVE RunFacts'
  <2>1. UNCHANGED <<plan, run, done, failed, fps>> /\ pc[j] = "check"
    BY <1>1 DEF Check
  <2>2. \A k \in Jobs \ {j} : pc'[k] = pc[k] /\ fp'[k] = fp[k]
    <3>1. fp' = fp \/ fp' = [fp EXCEPT ![j] = Fingerprint(j)]
      BY <1>1 DEF Check
    <3>2. \A k \in Jobs \ {j} : fp'[k] = fp[k]
      BY <1>0, <3>1 DEF IsFcn
    <3>3. \A k \in Jobs \ {j} : pc'[k] = pc[k]
      BY <1>0, <1>1 DEF Check
    <3>. QED  BY <3>2, <3>3
  <2>3. JobFacts(j)'
    <3>1. /\ pc'[j] \in {"restore", "begin"}
          /\ fp'[j] = IF Declares(j) THEN Fingerprint(j) ELSE fp[j]
      BY <1>0, <1>1 DEF Check, IsFcn
    <3>. QED  BY <1>0, <2>1, <3>1, PrintsAreSome DEF JobFacts, Late, Declares
  <2>4. \A k \in Jobs \ {j} : JobFacts(k)'
    BY <2>1, <2>2, OtherFactsKept
  <2>. QED  BY <1>0, <2>1, <2>3, <2>4 DEF RunFacts
<1>2. ASSUME NEW j \in Jobs, Restore(j) \/ Begin(j) \/ Succeed(j) \/ Fail(j) \/ CleanAfter(j) \/ Mark(j)
      PROVE  RunFacts'
  <2>1. UNCHANGED <<plan, run, done, failed, fps, fp>>
    BY <1>2 DEF Restore, Begin, Succeed, Fail, CleanAfter, Mark
  <2>2. \A k \in Jobs \ {j} : pc'[k] = pc[k]
    BY <1>0, <1>2 DEF Restore, Begin, Succeed, Fail, CleanAfter, Mark
  <2>3. \/ pc[j] \in {"restore", "begin", "steps"} /\ pc'[j] \in {"resumed", "steps", "publish"}
        \/ pc[j] \in Late /\ pc'[j] \in Late
    BY <1>0, <1>2 DEF Restore, Begin, Succeed, Fail, CleanAfter, Mark, Late
  <2>4. JobFacts(j)'
    BY <1>0, <2>1, <2>3 DEF JobFacts, Late, Declares
  <2>5. \A k \in Jobs \ {j} : JobFacts(k)'
    BY <2>1, <2>2, OtherFactsKept
  <2>. QED  BY <1>0, <2>1, <2>4, <2>5 DEF RunFacts
<1>3. ASSUME NEW j \in Jobs, PublishResumed(j) \/ Publish(j) PROVE RunFacts'
  <2>1. /\ UNCHANGED <<plan, run, fp>> /\ done' = done \cup {j}
        /\ failed' \in {failed, failed \cup {j}} /\ fps' = [fps EXCEPT ![j] = fp[j]]
        /\ pc[j] \in {"resumed", "publish"} /\ pc'[j] \in {"mark", "launch"}
    BY <1>0, <1>3 DEF PublishResumed, Publish
  <2>2. \A k \in Jobs \ {j} : pc'[k] = pc[k]
    BY <1>0, <1>3 DEF PublishResumed, Publish
  <2>3. j \notin done /\ j \notin failed
    BY <1>0, <2>1 DEF JobFacts, Late
  <2>4. JobFacts(j)'
    <3>1. plan.needs[j] \subseteq done \ failed
      BY <1>0, <2>1 DEF JobFacts
    <3>2. fps'[j] = fp[j]
      BY <1>0, <2>1 DEF IsFcn
    <3>. QED  BY <1>0, <2>1, <2>3, <3>1, <3>2 DEF JobFacts, Late, Declares
  <2>5. \A k \in Jobs \ {j} : JobFacts(k)'
    <3>1. \A k \in Jobs \ {j} : fps'[k] = fps[k]
      BY <1>0, <2>1 DEF IsFcn
    <3>. QED  BY <2>1, <2>2, <2>3, <3>1, OtherFactsKept
  <2>. QED  BY <1>0, <2>1, <2>4, <2>5 DEF RunFacts
<1>4. ASSUME NEW j \in Jobs, LaunchNext(j) PROVE RunFacts'
  <2>. DEFINE P == [pc EXCEPT ![j] = "over"]
              b == Blocked(done, failed, P)
  <2>1. /\ UNCHANGED <<plan, run, fp, fps>> /\ pc[j] = "launch"
        /\ done' = done \cup b /\ failed' = failed \cup b
        /\ pc' = [k \in Jobs |-> IF k \in Unclaimed(done, P) /\ plan.needs[k] \subseteq done \ failed
                                 THEN "check" ELSE P[k]]
    BY <1>4 DEF LaunchNext, Launch
  <2>2. \A k \in b : k \in Jobs /\ k \notin done /\ pc[k] = "idle" /\ pc'[k] = "idle"
    BY <1>0, <2>1 DEF Blocked, Unclaimed
  <2>. HIDE DEF b
  <2>3. ASSUME NEW k \in Jobs PROVE JobFacts(k)'
    <3>0. JobFacts(k) /\ plan.needs[k] \subseteq Jobs
      BY <1>0, PlanTyped
    <3>1. CASE k = j
      <4>1. pc'[k] = "over"
        BY <1>0, <2>1, <3>1 DEF Unclaimed
      <4>2. k \notin b /\ k \in done
        BY <1>0, <2>1, <2>2, <3>0, <3>1 DEF JobFacts, Late
      <4>. QED  BY <2>1, <2>2, <3>0, <3>1, <4>1, <4>2 DEF JobFacts, Late, Declares
    <3>2. CASE k \in b
      BY <2>1, <2>2, <3>0, <3>2 DEF JobFacts, Late, Declares
    <3>3. CASE k # j /\ k \notin b /\ k \in Unclaimed(done, P) /\ plan.needs[k] \subseteq done \ failed
      <4>1. pc'[k] = "check" /\ pc[k] = "idle" /\ k \notin done
        BY <1>0, <2>1, <3>3 DEF Unclaimed
      <4>2. run # 0
        BY <1>0, <2>1 DEF JobFacts
      <4>3. plan.needs[k] \subseteq done' \ failed'
        BY <2>1, <2>2, <3>0, <3>3
      <4>. QED  BY <1>0, <2>1, <3>0, <3>3, <4>1, <4>2, <4>3 DEF JobFacts, Late, Declares
    <3>4. CASE k # j /\ k \notin b /\ ~(k \in Unclaimed(done, P) /\ plan.needs[k] \subseteq done \ failed)
      <4>1. pc'[k] = pc[k]
        BY <1>0, <2>1, <3>4
      <4>. QED  BY <2>1, <2>2, <3>4, <4>1, OtherFactsKept
    <3>. QED  BY <3>1, <3>2, <3>3, <3>4
  <2>. QED  BY <1>0, <2>1, <2>3 DEF RunFacts
<1>5. ASSUME NEW f \in Files, EditSource(f) PROVE RunFacts'
  BY <1>0, <1>5, OtherFactsKept DEF EditSource, RunFacts
<1>6. CASE NewRun
  BY <1>6 DEF NewRun, RunFacts, JobFacts, Late, Fresh, Typed
<1>7. CASE UNCHANGED vars
  BY <1>0, <1>7, OtherFactsKept DEF vars, RunFacts
<1>. QED
  BY <1>1, <1>2, <1>3, <1>4, <1>5, <1>6, <1>7 DEF Next, RunJob, Elsewhere

------------------------------------------------------------------------------
(* Recorded jobs are not executed again                                    *)

(* What j needs, directly or not, is j and what its needs need: the        *)
(* recursion has a solution also in a plan with cycles.                    *)
LEMMA UpstreamUnfolds ==
  ASSUME Typed
  PROVE  Upstream = [j \in Jobs |-> {j} \cup UNION {Upstream[n] : n \in plan.needs[j]}]
<1>. DEFINE Closed(S) == \A k \in S : plan.needs[k] \subseteq S
            U == [j \in Jobs |-> {k \in Jobs : \A S \in SUBSET Jobs : j \in S /\ Closed(S) => k \in S}]
<1>0. \A j \in Jobs : plan.needs[j] \subseteq Jobs
  BY PlanTyped
<1>1. ASSUME NEW j \in Jobs PROVE U[j] = {j} \cup UNION {U[n] : n \in plan.needs[j]}
  <2>. DEFINE V == {j} \cup UNION {U[n] : n \in plan.needs[j]}
  <2>1. V \subseteq U[j]
    BY <1>0
  <2>2. V \in SUBSET Jobs /\ j \in V
    BY <1>0
  <2>3. Closed(V)
    <3>. SUFFICES ASSUME NEW k \in V, NEW m \in plan.needs[k] PROVE m \in V
      OBVIOUS
    <3>1. CASE k = j
      <4>1. m \in U[m]
        BY <1>0, <3>1
      <4>. QED  BY <3>1, <4>1
    <3>2. CASE k # j
      <4>1. PICK n \in plan.needs[j] : k \in U[n]
        BY <3>2
      <4>2. m \in U[n]
        BY <1>0, <4>1
      <4>. QED  BY <4>2
    <3>. QED  BY <3>1, <3>2
  <2>4. U[j] \subseteq V
    BY <2>2, <2>3
  <2>. QED  BY <2>1, <2>4
<1>2. U = [j \in Jobs |-> {j} \cup UNION {U[n] : n \in plan.needs[j]}]
  <2>. HIDE DEF U
  <2>1. U = [j \in Jobs |-> U[j]]
    BY DEF U
  <2>. QED  BY <1>1, <2>1
<1>. HIDE DEF U
<1>3. \E F : F = [j \in Jobs |-> {j} \cup UNION {F[n] : n \in plan.needs[j]}]
  BY <1>2
<1>. QED  BY <1>3 DEF Upstream

LEMMA NeedsAreUpstream ==
  ASSUME Typed, NEW j \in Jobs, SourceFed(j)
  PROVE  /\ plan.inputs[j] \subseteq Sources \ Removed
         /\ \A n \in plan.needs[j] : SourceFed(n)
<1>1. Upstream[j] = {j} \cup UNION {Upstream[n] : n \in plan.needs[j]}
  BY UpstreamUnfolds
<1>. QED  BY <1>1 DEF SourceFed

LEMMA PlansStayFed ==
  ASSUME plan' = plan
  PROVE  \A j \in Jobs : SourceFed(j)' <=> SourceFed(j)
BY DEF SourceFed, Upstream, Sources, Removed

(* No job writes or removes a source that a fed job declares.              *)
LEMMA SourcesKept ==
  ASSUME ArchiveInv, NEW j \in Jobs, RunJob(j), NEW f \in Sources \ Removed
  PROVE  val'[f] = val[f] /\ stamp'[f] = stamp[f]
<1>0. f \in Files /\ \A k \in Jobs : f \notin plan.writes[k] /\ f \notin plan.clean[k]
  BY DEF Sources, Removed
<1>1. CASE Restore(j)
  <2>1. DOMAIN store[fp[j]] \subseteq plan.writes[j]
    BY <1>1, PlanTyped DEF Restore, Goto, ArchiveInv, PrintsOwn, ArchivesOwn
  <2>. QED  BY <1>0, <1>1, <2>1 DEF Restore, Put
<1>2. CASE Succeed(j) \/ Fail(j)
  BY <1>0, <1>2 DEF Succeed, Fail, Put, treeVars
<1>3. CASE CleanAfter(j)
  BY <1>0, <1>3 DEF CleanAfter
<1>. QED
  BY <1>1, <1>2, <1>3 DEF RunJob, Check, PublishResumed, Begin, Publish, Mark, LaunchNext, treeVars

LEMMA InputsKept ==
  ASSUME Typed, plan' = plan, NEW j \in Jobs, SourceFed(j),
         \A f \in Sources \ Removed : val'[f] = val[f] /\ stamp'[f] = stamp[f]
  PROVE  Inputs(j)' = Inputs(j)
<1>1. plan.inputs[j] \subseteq Sources \ Removed
  BY NeedsAreUpstream
<1>. DEFINE G == {g \in plan.inputs[j] : val[g] # Absent}
<1>2. G = {g \in plan'.inputs[j] : val'[g] # Absent'}
  BY <1>1 DEF Absent, Value
<1>3. {<<f, stamp[f]>> : f \in G} = {<<f, stamp'[f]>> : f \in G}
  BY <1>1
<1>. HIDE DEF G
<1>4. Inputs(j)' = {<<f, stamp'[f]>> : f \in G}
  BY <1>2 DEF Inputs
<1>5. Inputs(j) = {<<f, stamp[f]>> : f \in G}
  BY DEF Inputs, G
<1>. QED  BY <1>3, <1>4, <1>5

(* The fingerprint of a job, where those of its needs are given by P.      *)
PrintOf(j, P) ==
  [job |-> j, def |-> version[j].hashed,
   ups |-> {P[n] : n \in {m \in plan.needs[j] : Declares(m)}}, ins |-> Inputs(j)]

(* As long as nothing is edited, every run takes the same fingerprints: P  *)
(* are those of the jobs of D, which have been checked in this run or in   *)
(* an earlier one.                                                         *)
Prints(P, D) ==
  /\ D \subseteq Jobs
  /\ \A j \in D : /\ SourceFed(j) /\ plan.needs[j] \subseteq D
                  /\ Declares(j) => P[j] = PrintOf(j, P)

Agrees(P, D) ==
  /\ Prints(P, D)
  /\ \A j \in Jobs : SourceFed(j) /\ pc[j] \notin {"idle", "check"} =>
       j \in D /\ (Declares(j) => fp[j] = P[j])
  /\ \A j \in kept : SourceFed(j) => j \in D /\ Declares(j) /\ P[j] \in DOMAIN store

Remembered ==
  /\ edited => kept = {}
  /\ ~edited => \E P, D : Agrees(P, D)

RepeatInv == ArchiveInv /\ RunFacts /\ Remembered /\ RecordedNotRepeated

LEMMA InitRepeat == Init => RepeatInv
<1>. SUFFICES ASSUME Init PROVE RepeatInv
  OBVIOUS
<1>1. Agrees([j \in {} |-> NoPrint], {})
  BY DEF Init, Agrees, Prints
<1>. QED
  BY <1>1, InitArchives, InitRunFacts DEF RepeatInv, Remembered, RecordedNotRepeated, Init

(* A job that is checked gets the fingerprint that P has for it, or would  *)
(* have.                                                                   *)
LEMMA ChecksAgree ==
  ASSUME Typed, RunFacts, NEW P, NEW D, Agrees(P, D), NEW j \in Jobs, SourceFed(j),
         pc[j] = "check"
  PROVE  plan.needs[j] \subseteq D /\ Fingerprint(j) = PrintOf(j, P)
<1>1. \A n \in plan.needs[j] : /\ n \in Jobs /\ SourceFed(n) /\ JobFacts(n) /\ n \in done \ failed
  BY PlanTyped, NeedsAreUpstream DEF RunFacts, JobFacts
<1>2. \A n \in plan.needs[j] : pc[n] \notin {"idle", "check"}
  BY <1>1 DEF JobFacts, Late
<1>3. \A n \in plan.needs[j] : n \in D /\ (Declares(n) => fps[n] = P[n] /\ fps[n] # NoPrint)
                              /\ (~Declares(n) => fps[n] = NoPrint)
  BY <1>1, <1>2 DEF JobFacts, Agrees
<1>4. Upstreams(j) = {P[n] : n \in {m \in plan.needs[j] : Declares(m)}}
  BY <1>3 DEF Upstreams
<1>. QED  BY <1>3, <1>4 DEF Fingerprint, PrintOf

LEMMA PrintsKept ==
  ASSUME Typed, UNCHANGED <<plan, version>>, NEW P, NEW D, Prints(P, D),
         \A f \in Sources \ Removed : val'[f] = val[f] /\ stamp'[f] = stamp[f]
  PROVE  Prints(P, D)'
<1>. SUFFICES ASSUME NEW j \in D
              PROVE  /\ SourceFed(j)' /\ plan'.needs[j] \subseteq D
                     /\ Declares(j)' => P[j] = PrintOf(j, P)'
  BY DEF Prints
<1>1. j \in Jobs /\ SourceFed(j) /\ plan.needs[j] \subseteq D
      /\ (Declares(j) => P[j] = PrintOf(j, P))
  BY DEF Prints
<1>2. Inputs(j)' = Inputs(j) /\ SourceFed(j)'
  BY <1>1, InputsKept, PlansStayFed
<1>. QED  BY <1>1, <1>2 DEF PrintOf, Declares

(* A step that checks, records and edits nothing leaves the agreement as   *)
(* it is.                                                                  *)
LEMMA AgreesKept ==
  ASSUME Typed, UNCHANGED <<plan, version>>, NEW P, NEW D, Agrees(P, D),
         \A f \in Sources \ Removed : val'[f] = val[f] /\ stamp'[f] = stamp[f],
         \A k \in Jobs : pc'[k] \notin {"idle", "check"} =>
           pc[k] \notin {"idle", "check"} /\ fp'[k] = fp[k],
         kept' = kept, DOMAIN store \subseteq DOMAIN store'
  PROVE  Agrees(P, D)'
<1>1. Prints(P, D)'
  BY PrintsKept DEF Agrees
<1>2. \A k \in Jobs : SourceFed(k)' <=> SourceFed(k)
  BY PlansStayFed
<1>3. kept \subseteq Jobs
  BY DEF Typed
<1>4. \A k \in Jobs : SourceFed(k)' /\ pc'[k] \notin {"idle", "check"} =>
         k \in D /\ (Declares(k)' => fp'[k] = P[k])
  BY <1>2 DEF Agrees, Declares
<1>5. \A k \in kept' : SourceFed(k)' => k \in D /\ Declares(k)' /\ P[k] \in DOMAIN store'
  BY <1>2, <1>3 DEF Agrees, Declares
<1>. QED  BY <1>1, <1>4, <1>5 DEF Agrees

LEMMA ChecksKeepAgreement ==
  ASSUME RepeatInv, NEW P, NEW D, Agrees(P, D), NEW j \in Jobs, Check(j)
  PROVE  \E Q, E : Agrees(Q, E)'
<1>. USE DEF Goto, runVars, userVars, treeVars, jobVars
<1>0. /\ Typed /\ RunFacts /\ pc[j] = "check" /\ plan' = plan /\ version' = version /\ kept' = kept
      /\ store' = store /\ (\A f \in Sources \ Removed : val'[f] = val[f] /\ stamp'[f] = stamp[f])
      /\ fp' = (IF Declares(j) THEN [fp EXCEPT ![j] = Fingerprint(j)] ELSE fp)
  BY DEF RepeatInv, ArchiveInv, Check
<1>1. /\ \A k \in Jobs \ {j} : pc'[k] = pc[k] /\ fp'[k] = fp[k]
      /\ Declares(j) => fp'[j] = Fingerprint(j)
  <2>1. \A k \in Jobs \ {j} : fp'[k] = fp[k]
    BY <1>0 DEF Typed, IsFcn
  <2>2. \A k \in Jobs \ {j} : pc'[k] = pc[k]
    BY <1>0 DEF Check, Typed
  <2>3. Declares(j) => fp'[j] = Fingerprint(j)
    BY <1>0 DEF Typed, IsFcn
  <2>. QED  BY <2>1, <2>2, <2>3
<1>2. \A k \in Jobs : SourceFed(k)' <=> SourceFed(k)
  BY <1>0, PlansStayFed
<1>3. CASE ~SourceFed(j)
  <2>1. Prints(P, D)'
    BY <1>0, PrintsKept DEF Agrees
  <2>2. \A k \in Jobs : SourceFed(k)' /\ pc'[k] \notin {"idle", "check"} =>
           k \in D /\ (Declares(k)' => fp'[k] = P[k])
    BY <1>0, <1>1, <1>2, <1>3 DEF Agrees, Declares
  <2>3. \A k \in kept' : SourceFed(k)' => k \in D /\ Declares(k)' /\ P[k] \in DOMAIN store'
    BY <1>0, <1>2 DEF Agrees, Declares, Typed
  <2>. QED  BY <2>1, <2>2, <2>3 DEF Agrees
<1>4. CASE SourceFed(j)
  <2>. PICK Q, E : E = D \cup {j} /\ Q = [k \in E |-> IF k \in D THEN P[k] ELSE Fingerprint(j)]
    OBVIOUS
  <2>0. /\ D \subseteq Jobs /\ j \in E /\ E \subseteq Jobs
        /\ \A k \in D : k \in E /\ plan.needs[k] \subseteq D /\ SourceFed(k)
        /\ plan.needs[j] \subseteq D /\ Fingerprint(j) = PrintOf(j, P)
    BY <1>0, <1>4, ChecksAgree DEF Agrees, Prints
  <2>1. /\ \A k \in D : Q[k] = P[k]
        /\ j \notin D => Q[j] = Fingerprint(j)
    BY <2>0
  <2>2. ASSUME NEW k \in E PROVE PrintOf(k, Q) = PrintOf(k, P)
    <3>1. plan.needs[k] \subseteq D
      BY <2>0, <2>2
    <3>2. {Q[n] : n \in {m \in plan.needs[k] : Declares(m)}} = {P[n] : n \in {m \in plan.needs[k] : Declares(m)}}
      BY <2>1, <3>1
    <3>. QED  BY <3>2 DEF PrintOf
  <2>3. Declares(j) => Q[j] = Fingerprint(j)
    <3>1. j \in D => (Declares(j) => P[j] = PrintOf(j, P))
      BY DEF Agrees, Prints
    <3>. QED  BY <2>0, <2>1, <3>1
  <2>4. Prints(Q, E)
    <3>1. \A k \in E : Declares(k) => Q[k] = PrintOf(k, Q)
      <4>. SUFFICES ASSUME NEW k \in E, Declares(k) PROVE Q[k] = PrintOf(k, Q)
        OBVIOUS
      <4>1. CASE k = j
        BY <2>0, <2>2, <2>3, <4>1
      <4>2. CASE k # j
        <5>1. k \in D
          BY <4>2
        <5>. QED  BY <2>1, <2>2, <5>1 DEF Agrees, Prints
      <4>. QED  BY <4>1, <4>2
    <3>. QED  BY <1>4, <2>0, <3>1 DEF Prints
  <2>5. Prints(Q, E)'
    BY <1>0, <2>4, PrintsKept
  <2>6. \A k \in Jobs : SourceFed(k)' /\ pc'[k] \notin {"idle", "check"} =>
           k \in E /\ (Declares(k)' => fp'[k] = Q[k])
    <3>. SUFFICES ASSUME NEW k \in Jobs, SourceFed(k)', pc'[k] \notin {"idle", "check"}
                  PROVE  k \in E /\ (Declares(k)' => fp'[k] = Q[k])
      OBVIOUS
    <3>1. CASE k = j
      BY <1>0, <1>1, <2>0, <2>3, <3>1 DEF Declares
    <3>2. CASE k # j
      <4>1. k \in D /\ (Declares(k) => fp[k] = P[k])
        BY <1>1, <1>2, <3>2 DEF Agrees
      <4>. QED  BY <1>0, <1>1, <2>0, <2>1, <3>2, <4>1 DEF Declares
    <3>. QED  BY <3>1, <3>2
  <2>7. \A k \in kept' : SourceFed(k)' => k \in E /\ Declares(k)' /\ Q[k] \in DOMAIN store'
    <3>1. kept \subseteq Jobs
      BY <1>0 DEF Typed
    <3>2. \A k \in kept : SourceFed(k) => k \in D /\ Declares(k) /\ P[k] \in DOMAIN store
      BY DEF Agrees
    <3>. QED  BY <1>0, <1>2, <2>0, <2>1, <3>1, <3>2 DEF Declares
  <2>. QED  BY <2>5, <2>6, <2>7 DEF Agrees
<1>. QED  BY <1>3, <1>4

LEMMA NextRepeat == RepeatInv /\ [Next]_vars => RepeatInv'
<1>. SUFFICES ASSUME RepeatInv, [Next]_vars PROVE RepeatInv'
  OBVIOUS
<1>. USE DEF Goto, runVars, userVars, treeVars, jobVars
<1>0. /\ ArchiveInv /\ Typed /\ RunFacts /\ Remembered /\ RecordedNotRepeated
      /\ ArchiveInv' /\ RunFacts' /\ pc \in [Jobs -> Places] /\ kept \subseteq Jobs
  BY NextArchives, NextRunFacts DEF RepeatInv, ArchiveInv, Typed
<1>1. ASSUME NEW j \in Jobs, Check(j) PROVE RepeatInv'
  <2>1. Remembered'
    <3>1. UNCHANGED <<edited, kept>>
      BY <1>1 DEF Check
    <3>2. ~edited => \E P, D : Agrees(P, D)'
      BY <1>0, <1>1, ChecksKeepAgreement DEF Remembered, RepeatInv
    <3>. QED  BY <1>0, <3>1, <3>2 DEF Remembered
  <2>2. RecordedNotRepeated'
    <3>. SUFFICES ASSUME NEW k \in kept', SourceFed(k)' PROVE pc'[k] \notin {"begin", "steps"}
      BY DEF RecordedNotRepeated
    <3>1. k \in kept /\ SourceFed(k) /\ k \in Jobs /\ pc[j] = "check"
      BY <1>0, <1>1, PlansStayFed DEF Check
    <3>2. CASE k # j
      BY <1>0, <1>1, <3>1, <3>2 DEF Check, RecordedNotRepeated
    <3>3. CASE k = j
      <4>1. PICK P, D : Agrees(P, D)
        BY <1>0, <3>1 DEF Remembered
      <4>2. k \in D /\ Declares(k) /\ P[k] \in DOMAIN store
        BY <3>1, <4>1 DEF Agrees
      <4>3. Fingerprint(k) = P[k]
        BY <1>0, <3>1, <3>3, <4>1, <4>2, ChecksAgree DEF Agrees, Prints
      <4>4. pc'[k] = "restore"
        BY <1>0, <1>1, <3>3, <4>2, <4>3 DEF Check
      <4>. QED  BY <4>4
    <3>. QED  BY <3>2, <3>3
  <2>. QED  BY <1>0, <2>1, <2>2 DEF RepeatInv
<1>2. ASSUME NEW j \in Jobs, RunJob(j), ~Check(j), ~Mark(j) PROVE RepeatInv'
  <2>1. UNCHANGED <<plan, version, edited, kept, store, fp>>
    BY <1>2 DEF RunJob, Restore, PublishResumed, Begin, Succeed, Fail, Publish, CleanAfter,
                LaunchNext, Launch
  <2>2. \A k \in Jobs : pc'[k] \notin {"idle", "check"} =>
           /\ pc[k] \notin {"idle", "check"}
           /\ pc'[k] \in {"begin", "steps"} => pc[k] \in {"begin", "steps"}
    BY <1>0, <1>2 DEF RunJob, Restore, PublishResumed, Begin, Succeed, Fail, Publish, CleanAfter,
                      LaunchNext, Launch
  <2>3. \A f \in Sources \ Removed : val'[f] = val[f] /\ stamp'[f] = stamp[f]
    BY <1>0, <1>2, SourcesKept
  <2>4. \A P, D : Agrees(P, D) => Agrees(P, D)'
    BY <1>0, <2>1, <2>2, <2>3, AgreesKept
  <2>5. Remembered'
    BY <1>0, <2>1, <2>4 DEF Remembered
  <2>6. RecordedNotRepeated'
    BY <1>0, <2>1, <2>2, PlansStayFed DEF RecordedNotRepeated
  <2>. QED  BY <1>0, <2>5, <2>6 DEF RepeatInv
<1>3. ASSUME NEW j \in Jobs, Mark(j) PROVE RepeatInv'
  <2>1. /\ UNCHANGED <<plan, version, edited, fp, val, stamp>> /\ DOMAIN store \subseteq DOMAIN store'
        /\ pc[j] = "mark" /\ pc' = [pc EXCEPT ![j] = "clean"]
        /\ kept' # kept => kept' = kept \cup {j} /\ ~edited /\ fp[j] # NoPrint /\ fp[j] \in DOMAIN store'
    BY <1>3 DEF Mark
  <2>2. \A k \in Jobs : SourceFed(k)' <=> SourceFed(k)
    BY <2>1, PlansStayFed
  <2>3. ASSUME NEW P, NEW D, Agrees(P, D) PROVE Agrees(P, D)'
    <3>1. Prints(P, D)'
      BY <1>0, <2>1, <2>3, PrintsKept DEF Agrees
    <3>2. \A k \in Jobs : SourceFed(k)' /\ pc'[k] \notin {"idle", "check"} =>
             k \in D /\ (Declares(k)' => fp'[k] = P[k])
      BY <1>0, <2>1, <2>2, <2>3 DEF Agrees, Declares
    <3>3. \A k \in kept : SourceFed(k)' => k \in D /\ Declares(k)' /\ P[k] \in DOMAIN store'
      BY <1>0, <2>1, <2>2, <2>3 DEF Agrees, Declares
    <3>4. kept' # kept /\ SourceFed(j)' => j \in D /\ Declares(j)' /\ P[j] \in DOMAIN store'
      <4>. SUFFICES ASSUME kept' # kept, SourceFed(j)'
                    PROVE  j \in D /\ Declares(j)' /\ P[j] \in DOMAIN store'
        OBVIOUS
      <4>1. Declares(j)
        BY <1>0, <2>1 DEF RunFacts, JobFacts
      <4>2. j \in D /\ fp[j] = P[j]
        BY <2>1, <2>2, <2>3, <4>1 DEF Agrees
      <4>. QED  BY <2>1, <4>1, <4>2 DEF Declares
    <3>5. \A k \in kept' : SourceFed(k)' => k \in D /\ Declares(k)' /\ P[k] \in DOMAIN store'
      BY <2>1, <3>3, <3>4
    <3>. QED  BY <3>1, <3>2, <3>5 DEF Agrees
  <2>4. Remembered'
    BY <1>0, <2>1, <2>3 DEF Remembered
  <2>5. RecordedNotRepeated'
    BY <1>0, <2>1, <2>2 DEF RecordedNotRepeated
  <2>. QED  BY <1>0, <2>4, <2>5 DEF RepeatInv
<1>4. ASSUME NEW f \in Files, EditSource(f) PROVE RepeatInv'
  <2>1. kept' = {} /\ UNCHANGED <<pc, run>> /\ edited' = (run > 0) /\ run \in Nat
    BY <1>0, <1>4 DEF EditSource, Typed
  <2>2. ~edited' => \A k \in Jobs : pc'[k] = "idle"
    <3>1. \A n \in Nat : ~(n > 0) => n = 0
      OBVIOUS
    <3>2. ~edited' => run = 0
      BY <2>1, <3>1
    <3>. QED  BY <1>0, <2>1, <3>2 DEF RunFacts, JobFacts
  <2>3. ~edited' => Agrees([j \in {} |-> NoPrint], {})'
    BY <2>1, <2>2 DEF Agrees, Prints
  <2>4. Remembered'
    BY <2>1, <2>3 DEF Remembered
  <2>. QED  BY <1>0, <2>1, <2>4 DEF RepeatInv, RecordedNotRepeated
<1>5. CASE NewRun
  <2>1. /\ UNCHANGED <<plan, val, stamp, store>> /\ edited' = FALSE
        /\ \A k \in Jobs : pc'[k] \in {"idle", "check"}
        /\ kept' = {} \/ (UNCHANGED <<version, kept>>)
    BY <1>5 DEF NewRun
  <2>2. CASE kept' = {}
    <3>1. Agrees([j \in {} |-> NoPrint], {})'
      BY <2>1, <2>2 DEF Agrees, Prints
    <3>2. Remembered' /\ RecordedNotRepeated'
      BY <2>1, <2>2, <3>1 DEF Remembered, RecordedNotRepeated
    <3>. QED  BY <1>0, <3>2 DEF RepeatInv
  <2>3. CASE kept' # {}
    <3>1. UNCHANGED <<version, kept>> /\ ~edited
      BY <1>0, <2>1, <2>3 DEF Remembered
    <3>2. PICK P, D : Agrees(P, D)
      BY <1>0, <3>1 DEF Remembered
    <3>3. Agrees(P, D)'
      BY <1>0, <2>1, <3>1, <3>2, AgreesKept
    <3>4. Remembered' /\ RecordedNotRepeated'
      BY <1>0, <2>1, <3>3 DEF Remembered, RecordedNotRepeated, Typed
    <3>. QED  BY <1>0, <3>4 DEF RepeatInv
  <2>. QED  BY <2>2, <2>3
<1>6. CASE UNCHANGED vars
  <2>1. UNCHANGED <<plan, version, edited, kept, store, fp, pc, val, stamp>>
    BY <1>6 DEF vars
  <2>2. \A P, D : Agrees(P, D) => Agrees(P, D)'
    BY <1>0, <2>1, AgreesKept
  <2>3. Remembered' /\ RecordedNotRepeated'
    BY <1>0, <2>1, <2>2, PlansStayFed DEF Remembered, RecordedNotRepeated
  <2>. QED  BY <1>0, <2>3 DEF RepeatInv
<1>. QED
  BY <1>1, <1>2, <1>3, <1>4, <1>5, <1>6 DEF Next, Elsewhere

(* A job whose success was recorded is not executed again before the next  *)
(* edit, in however many runs, and whatever fails or is killed in them, if *)
(* what its fingerprint is made of are sources that nobody removes.        *)
THEOREM RecordedIsNotRepeated == Spec => []RecordedNotRepeated
<1>1. RepeatInv => RecordedNotRepeated
  BY DEF RepeatInv
<1>. QED  BY <1>1, InitRepeat, NextRepeat, PTL DEF Spec

------------------------------------------------------------------------------
(* Incremental builds are clean builds                                     *)

LEMMA LeastJob ==
  ASSUME Typed, NEW some \in SUBSET Jobs, some # {}
  PROVE  \E j \in some : plan.needs[j] \cap some = {}
BY AcyclicAssumption DEF Typed

(* The jobs that a fingerprint knows are those whose fingerprints are in   *)
(* it, and the ones that these know.                                       *)
Telling(j) == {m \in plan.needs[j] : Declares(m)}

LEMMA KnownUnfolds ==
  ASSUME Typed
  PROVE  Known = [j \in Jobs |-> UNION {{n} \cup Known[n] : n \in Telling(j)}]
<1>. DEFINE Closed(S) == \A k \in S : Telling(k) \subseteq S
            U == [j \in Jobs |-> {k \in Jobs : \A S \in SUBSET Jobs : Telling(j) \subseteq S /\ Closed(S) => k \in S}]
<1>0. \A j \in Jobs : Telling(j) \subseteq Jobs
  BY PlanTyped DEF Telling
<1>a. ASSUME NEW j \in Jobs, NEW S \in SUBSET Jobs, Telling(j) \subseteq S, Closed(S)
      PROVE  U[j] \subseteq S
  BY <1>a
<1>b. ASSUME NEW j \in Jobs, NEW k \in Jobs,
             \A S \in SUBSET Jobs : Telling(j) \subseteq S /\ Closed(S) => k \in S
      PROVE  k \in U[j]
  BY <1>b
<1>c. \A j \in Jobs : U[j] \subseteq Jobs
  OBVIOUS
<1>d. U = [j \in Jobs |-> U[j]]
  OBVIOUS
<1>. HIDE DEF U
<1>1. ASSUME NEW j \in Jobs PROVE U[j] = UNION {{n} \cup U[n] : n \in Telling(j)}
  <2>. DEFINE V == UNION {{n} \cup U[n] : n \in Telling(j)}
  <2>2. V \in SUBSET Jobs /\ Telling(j) \subseteq V
    BY <1>0, <1>c
  <2>1. V \subseteq U[j]
    <3>. SUFFICES ASSUME NEW n \in Telling(j), NEW k \in {n} \cup U[n] PROVE k \in U[j]
      OBVIOUS
    <3>0. n \in Jobs /\ k \in Jobs
      BY <1>0, <1>c
    <3>1. ASSUME NEW S \in SUBSET Jobs, Telling(j) \subseteq S, Closed(S) PROVE k \in S
      <4>1. U[n] \subseteq S
        BY <1>a, <3>0, <3>1
      <4>. QED  BY <3>1, <4>1
    <3>. QED  BY <1>b, <3>0, <3>1
  <2>3. Closed(V)
    <3>. SUFFICES ASSUME NEW n \in Telling(j), NEW k \in {n} \cup U[n], NEW m \in Telling(k) PROVE m \in U[n]
      OBVIOUS
    <3>1. n \in Jobs /\ k \in Jobs /\ m \in Jobs
      BY <1>0, <1>c
    <3>2. ASSUME NEW S \in SUBSET Jobs, Telling(n) \subseteq S, Closed(S) PROVE m \in S
      <4>1. k = n \/ k \in S
        BY <1>a, <3>1, <3>2
      <4>. QED  BY <3>2, <4>1
    <3>. QED  BY <1>b, <3>1, <3>2
  <2>4. U[j] \subseteq V
    BY <1>a, <2>2, <2>3
  <2>. QED  BY <2>1, <2>4
<1>2. U = [j \in Jobs |-> UNION {{n} \cup U[n] : n \in Telling(j)}]
  BY <1>1, <1>d
<1>3. \E F : F = [j \in Jobs |-> UNION {{n} \cup F[n] : n \in Telling(j)}]
  BY <1>2
<1>. QED  BY <1>3 DEF Known, Telling

LEMMA UpstreamFacts ==
  ASSUME Typed, NEW j \in Jobs
  PROVE  /\ j \in Upstream[j] /\ Upstream[j] \subseteq Jobs
         /\ \A n \in plan.needs[j] : Upstream[n] \subseteq Upstream[j]
         /\ \A n \in Upstream[j] : Upstream[n] \subseteq Upstream[j]
<1>1. \A k \in Jobs : Upstream[k] = {k} \cup UNION {Upstream[n] : n \in plan.needs[k]} /\ plan.needs[k] \subseteq Jobs
  BY UpstreamUnfolds, PlanTyped
<1>2. j \in Upstream[j] /\ \A n \in plan.needs[j] : Upstream[n] \subseteq Upstream[j]
  BY <1>1
<1>3. Upstream[j] \subseteq Jobs
  <2>. DEFINE T == {k \in Jobs : ~ (Upstream[k] \subseteq Jobs)}
  <2>1. T = {}
    <3>. SUFFICES ASSUME T # {} PROVE FALSE
      OBVIOUS
    <3>1. PICK k \in T : plan.needs[k] \cap T = {}
      BY LeastJob
    <3>2. \A n \in plan.needs[k] : Upstream[n] \subseteq Jobs
      BY <1>1, <3>1
    <3>. QED  BY <1>1, <3>1, <3>2
  <2>. QED  BY <2>1
<1>4. \A n \in Upstream[j] : Upstream[n] \subseteq Upstream[j]
  <2>. DEFINE T == {k \in Jobs : \E n \in Upstream[k] : ~ (Upstream[n] \subseteq Upstream[k])}
  <2>1. T = {}
    <3>. SUFFICES ASSUME T # {} PROVE FALSE
      OBVIOUS
    <3>1. PICK k \in T : plan.needs[k] \cap T = {}
      BY LeastJob
    <3>2. PICK n \in Upstream[k] : ~ (Upstream[n] \subseteq Upstream[k])
      BY <3>1
    <3>3. PICK m \in plan.needs[k] : n \in Upstream[m]
      BY <1>1, <3>1, <3>2
    <3>4. Upstream[n] \subseteq Upstream[m]
      BY <1>1, <3>1, <3>3
    <3>. QED  BY <1>1, <3>1, <3>2, <3>3, <3>4
  <2>. QED  BY <2>1
<1>. QED  BY <1>2, <1>3, <1>4

(* No job needs itself.                                                    *)
LEMMA NoneNeedsItself ==
  ASSUME Typed, NEW j \in Jobs, NEW n \in plan.needs[j]
  PROVE  j \notin Upstream[n]
<1>. SUFFICES ASSUME j \in Upstream[n] PROVE FALSE
  OBVIOUS
<1>0. \A k \in Jobs : /\ plan.needs[k] \subseteq Jobs
                      /\ Upstream[k] = {k} \cup UNION {Upstream[m] : m \in plan.needs[k]}
  BY UpstreamUnfolds, PlanTyped
<1>. DEFINE S == {k \in Upstream[j] : j \in Upstream[k]}
<1>1. S \in SUBSET Jobs /\ n \in S
  BY <1>0, UpstreamFacts
<1>2. PICK k \in S : plan.needs[k] \cap S = {}
  BY <1>1, LeastJob
<1>3. k # j
  BY <1>1, <1>2
<1>4. k \in Jobs /\ Upstream[k] \subseteq Upstream[j]
  BY <1>1, UpstreamFacts
<1>5. PICK m \in plan.needs[k] : j \in Upstream[m]
  BY <1>0, <1>2, <1>3, <1>4
<1>6. m \in Upstream[m] /\ Upstream[m] \subseteq Upstream[k]
  BY <1>0, <1>4, UpstreamFacts
<1>. QED  BY <1>2, <1>4, <1>5, <1>6

LEMMA KnownFacts ==
  ASSUME Typed, NEW j \in Jobs
  PROVE  /\ Known[j] \subseteq Upstream[j] \ {j}
         /\ \A n \in Known[j] : Declares(n)
<1>1. \A k \in Jobs : /\ Known[k] = UNION {{n} \cup Known[n] : n \in Telling(k)}
                      /\ Telling(k) \subseteq plan.needs[k] /\ plan.needs[k] \subseteq Jobs
                      /\ \A n \in Telling(k) : Declares(n)
  BY KnownUnfolds, PlanTyped DEF Telling
<1>. DEFINE T == {k \in Jobs : ~ (Known[k] \subseteq Upstream[k] \ {k} /\ \A n \in Known[k] : Declares(n))}
<1>2. T = {}
  <2>. SUFFICES ASSUME T # {} PROVE FALSE
    OBVIOUS
  <2>1. PICK k \in T : plan.needs[k] \cap T = {}
    BY LeastJob
  <2>2. ASSUME NEW n \in Telling(k) PROVE {n} \cup Known[n] \subseteq Upstream[k] \ {k} /\ \A m \in {n} \cup Known[n] : Declares(m)
    <3>1. n \in plan.needs[k] /\ n \in Jobs /\ Declares(n) /\ k \in Jobs
      BY <1>1, <2>1
    <3>2. Known[n] \subseteq Upstream[n] /\ \A m \in Known[n] : Declares(m)
      BY <2>1, <3>1
    <3>3. n \in Upstream[n] /\ Upstream[n] \subseteq Upstream[k] /\ k \notin Upstream[n]
      BY <3>1, UpstreamFacts, NoneNeedsItself
    <3>. QED  BY <3>1, <3>2, <3>3
  <2>3. k \in Jobs /\ Known[k] = UNION {{n} \cup Known[n] : n \in Telling(k)}
    BY <1>1, <2>1
  <2>4. Known[k] \subseteq Upstream[k] \ {k} /\ \A m \in Known[k] : Declares(m)
    BY <2>2, <2>3
  <2>. QED  BY <2>1, <2>4
<1>. QED  BY <1>2

LEMMA HermeticFacts ==
  ASSUME Typed, NEW j \in Jobs, Hermetic(j)
  PROVE  /\ Covered(j) /\ Private(j) /\ Tracked(j) /\ Told(j)
         /\ plan.writes[j] = plan.outs[j]
         /\ \A n \in Upstream[j] : Hermetic(n) /\ n \in Jobs
         /\ \A n \in plan.needs[j] : Hermetic(n) /\ n \in Jobs /\ n \notin plan.tolerant
         /\ \A n \in Known[j] : Hermetic(n) /\ n \in Jobs /\ n # j
<1>1. /\ j \in Upstream[j] /\ Upstream[j] \subseteq Jobs
      /\ \A n \in Upstream[j] : Upstream[n] \subseteq Upstream[j]
  BY UpstreamFacts
<1>2. Covered(j) /\ Private(j) /\ Tracked(j) /\ Told(j)
  BY <1>1 DEF Hermetic
<1>3. plan.writes[j] = plan.outs[j]
  BY <1>1, <1>2 DEF Covered
<1>4. \A n \in Upstream[j] : Hermetic(n) /\ n \in Jobs
  BY <1>1 DEF Hermetic
<1>5. \A n \in plan.needs[j] : n \in Jobs /\ n \in Upstream[j] /\ n # j
  <2>1. \A n \in plan.needs[j] : n \in Jobs
    BY PlanTyped
  <2>2. \A n \in plan.needs[j] : n \in Upstream[n] /\ Upstream[n] \subseteq Upstream[j] /\ j \notin Upstream[n]
    BY <2>1, UpstreamFacts, NoneNeedsItself
  <2>. QED  BY <2>1, <2>2
<1>6. \A n \in plan.needs[j] : n \notin plan.tolerant
  BY <1>2, <1>5 DEF Covered
<1>7. Known[j] \subseteq Upstream[j] \ {j}
  BY KnownFacts
<1>. QED  BY <1>2, <1>3, <1>4, <1>5, <1>6, <1>7

LEMMA PlansStay ==
  ASSUME plan' = plan
  PROVE  Known' = Known /\ Upstream' = Upstream /\ Sources' = Sources /\ Removed' = Removed
BY DEF Upstream, Known, Declares, Sources, Removed

LEMMA PlansStayHermetic ==
  ASSUME UNCHANGED <<plan, used>>
  PROVE  /\ Known' = Known /\ Upstream' = Upstream /\ Sources' = Sources /\ Removed' = Removed
         /\ \A j \in Jobs : Hermetic(j)' <=> Hermetic(j)
BY PlansStay DEF Hermetic, Covered, Private, Tracked, Told, Declares

(* A job that is hermetic after runs under more definitions was so before. *)
LEMMA HermeticBefore ==
  ASSUME Typed, plan' = plan, \A j \in Jobs : used[j] \subseteq used'[j],
         NEW j \in Jobs, Hermetic(j)'
  PROVE  Hermetic(j)
<1>1. Upstream[j] \subseteq Jobs
  BY UpstreamFacts
<1>2. ASSUME NEW n \in Upstream[j] PROVE Covered(n) /\ Private(n) /\ Tracked(n) /\ Told(n)
  <2>1. n \in Jobs /\ Covered(n)' /\ Private(n)' /\ Tracked(n)' /\ Told(n)'
    BY <1>1, PlansStay DEF Hermetic
  <2>2. Covered(n) /\ Private(n) /\ Tracked(n)
    BY <2>1, PlansStay DEF Covered, Private, Tracked
  <2>3. Told(n)
    BY <2>1 DEF Told
  <2>. QED  BY <2>2, <2>3
<1>. QED  BY <1>2 DEF Hermetic

(* What a job that took the fingerprint x should have written can be told  *)
(* from x: it read the sources of the stamps in x, and of the jobs that x  *)
(* knows what these should have written; and it ran under a definition of  *)
(* which x has the hashed part.  V holds the values found so far, and W    *)
(* the fingerprints known to each.                                         *)
StampIn(x, f) == CHOOSE s : <<f, s>> \in x.ins
Below(x, W) == UNION {{u} \cup W[u] : u \in x.ups}
WriterIn(x, f, W) == CHOOSE u \in Below(x, W) : f \in plan.writes[u.job]

Input(x, f, V, W) ==
  IF f \in Sources THEN Value(None, StampIn(x, f), {}, TRUE) ELSE V[WriterIn(x, f, W)]
From(x, V, W) == {<<f, Input(x, f, V, W)>> : f \in plan.reads[x.job]}
RightValue(x, v, V, W) == Value(x.job, v, From(x, V, W), TRUE)
Meant(x, v) == x.job \in Jobs /\ v \in used[x.job] /\ v.hashed = x.def

Fed(x, V, W) ==
  /\ x.ups \subseteq DOMAIN V /\ Below(x, W) \subseteq DOMAIN V
  /\ \A f \in plan.reads[x.job] \ Sources : \E u \in Below(x, W) : f \in plan.writes[u.job]

Right(V, W) == \A x \in DOMAIN V :
  /\ Fed(x, V, W) /\ W[x] = Below(x, W)
  /\ \E v : Meant(x, v) /\ V[x] = RightValue(x, v, V, W)

(* What was found remains when more is.                                    *)
Extends(V2, W2, V, W) ==
  /\ DOMAIN V \subseteq DOMAIN V2
  /\ \A x \in DOMAIN V : V2[x] = V[x] /\ W2[x] = W[x]

LEMMA FedRemains ==
  ASSUME NEW V, NEW W, NEW V2, NEW W2, Extends(V2, W2, V, W), NEW x, Fed(x, V, W)
  PROVE  Fed(x, V2, W2) /\ Below(x, W2) = Below(x, W) /\ From(x, V2, W2) = From(x, V, W)
<1>1. \A u \in x.ups : W2[u] = W[u]
  BY DEF Fed, Extends
<1>2. Below(x, W2) = Below(x, W)
  BY <1>1 DEF Below
<1>3. Fed(x, V2, W2)
  BY <1>2 DEF Fed, Extends
<1>4. ASSUME NEW f \in plan.reads[x.job] PROVE Input(x, f, V2, W2) = Input(x, f, V, W)
  <2>1. CASE f \in Sources
    BY <2>1 DEF Input
  <2>2. CASE f \notin Sources
    <3>1. WriterIn(x, f, W2) = WriterIn(x, f, W)
      BY <1>2 DEF WriterIn
    <3>2. WriterIn(x, f, W) \in Below(x, W)
      BY <2>2 DEF WriterIn, Fed
    <3>3. WriterIn(x, f, W) \in DOMAIN V
      BY <3>2 DEF Fed
    <3>. QED  BY <2>2, <3>1, <3>3 DEF Input, Extends
  <2>. QED  BY <2>1, <2>2
<1>5. From(x, V2, W2) = From(x, V, W)
  BY <1>4 DEF From
<1>. QED  BY <1>2, <1>3, <1>5

(* A fingerprint whose needs are known can be added, and is there already  *)
(* with the value of the only definition that it can mean.                 *)
LEMMA RightExtends ==
  ASSUME NEW V, NEW W, Right(V, W), NEW x, Fed(x, V, W), NEW v, Meant(x, v), Told(x.job)
  PROVE  \E V2, W2 : /\ Right(V2, W2) /\ Extends(V2, W2, V, W)
                     /\ DOMAIN V2 = (DOMAIN V) \cup {x} /\ V2[x] = RightValue(x, v, V, W)
<1>1. CASE x \in DOMAIN V
  <2>1. PICK w : Meant(x, w) /\ V[x] = RightValue(x, w, V, W)
    BY <1>1 DEF Right
  <2>2. w = v
    BY <2>1 DEF Told, Meant
  <2>3. Extends(V, W, V, W) /\ DOMAIN V = (DOMAIN V) \cup {x} /\ V[x] = RightValue(x, v, V, W)
    BY <1>1, <2>1, <2>2 DEF Extends
  <2>. QED  BY <2>3
<1>2. CASE x \notin DOMAIN V
  <2>. PICK V2, W2 :
         /\ V2 = [y \in (DOMAIN V) \cup {x} |-> IF y \in DOMAIN V THEN V[y] ELSE RightValue(x, v, V, W)]
         /\ W2 = [y \in (DOMAIN V) \cup {x} |-> IF y \in DOMAIN V THEN W[y] ELSE Below(x, W)]
    OBVIOUS
  <2>1. /\ DOMAIN V2 = (DOMAIN V) \cup {x} /\ V2[x] = RightValue(x, v, V, W) /\ W2[x] = Below(x, W)
        /\ \A y \in DOMAIN V : V2[y] = V[y] /\ W2[y] = W[y]
    BY <1>2
  <2>2. Extends(V2, W2, V, W)
    BY <2>1 DEF Extends
  <2>3. ASSUME NEW y, Fed(y, V, W)
        PROVE  /\ Fed(y, V2, W2) /\ Below(y, W2) = Below(y, W)
               /\ \A w : RightValue(y, w, V2, W2) = RightValue(y, w, V, W)
    <3>1. Fed(y, V2, W2) /\ Below(y, W2) = Below(y, W) /\ From(y, V2, W2) = From(y, V, W)
      BY <2>2, <2>3, FedRemains
    <3>. QED  BY <3>1 DEF RightValue
  <2>4. ASSUME NEW y \in DOMAIN V2
        PROVE  /\ Fed(y, V2, W2) /\ W2[y] = Below(y, W2)
               /\ \E w : Meant(y, w) /\ V2[y] = RightValue(y, w, V2, W2)
    <3>1. CASE y = x
      BY <2>1, <2>3, <3>1
    <3>2. CASE y # x
      <4>1. y \in DOMAIN V
        BY <2>1, <3>2
      <4>2. Fed(y, V, W) /\ W[y] = Below(y, W)
        BY <4>1 DEF Right
      <4>3. PICK w : Meant(y, w) /\ V[y] = RightValue(y, w, V, W)
        BY <4>1 DEF Right
      <4>4. V2[y] = RightValue(y, w, V2, W2)
        BY <2>1, <2>3, <4>1, <4>2, <4>3
      <4>. QED  BY <2>1, <2>3, <4>1, <4>2, <4>3, <4>4
    <3>. QED  BY <3>1, <3>2
  <2>5. Right(V2, W2)
    BY <2>4 DEF Right
  <2>. QED  BY <2>1, <2>2, <2>5
<1>. QED  BY <1>1, <1>2

LEMMA FedKept ==
  ASSUME plan' = plan, NEW V, NEW W, NEW x
  PROVE  /\ Below(x, W)' = Below(x, W) /\ (Fed(x, V, W)' <=> Fed(x, V, W))
         /\ From(x, V, W)' = From(x, V, W)
<1>1. Sources' = Sources
  BY PlansStay
<1>2. Below(x, W)' = Below(x, W)
  BY DEF Below
<1>3. Fed(x, V, W)' <=> Fed(x, V, W)
  BY <1>1, <1>2 DEF Fed
<1>4. \A f : WriterIn(x, f, W)' = WriterIn(x, f, W) /\ StampIn(x, f)' = StampIn(x, f)
  BY <1>2 DEF WriterIn, StampIn
<1>5. \A f : Input(x, f, V, W)' = Input(x, f, V, W)
  BY <1>1, <1>4 DEF Input, Value
<1>6. From(x, V, W)' = From(x, V, W)
  BY <1>5 DEF From
<1>. QED  BY <1>2, <1>3, <1>6

LEMMA RightKept ==
  ASSUME plan' = plan, \A j \in Jobs : used[j] \subseteq used'[j], NEW V, NEW W, Right(V, W)
  PROVE  Right(V, W)'
<1>. SUFFICES ASSUME NEW x \in DOMAIN V
              PROVE  /\ Fed(x, V, W)' /\ W[x] = Below(x, W)'
                     /\ \E v : Meant(x, v)' /\ V[x] = RightValue(x, v, V, W)'
  BY DEF Right
<1>1. Fed(x, V, W) /\ W[x] = Below(x, W)
  BY DEF Right
<1>2. PICK v : Meant(x, v) /\ V[x] = RightValue(x, v, V, W)
  BY DEF Right
<1>3. /\ Below(x, W)' = Below(x, W) /\ (Fed(x, V, W)' <=> Fed(x, V, W))
      /\ From(x, V, W)' = From(x, V, W)
  BY FedKept
<1>4. RightValue(x, v, V, W)' = RightValue(x, v, V, W)
  BY <1>3 DEF RightValue, Value
<1>5. Meant(x, v)'
  BY <1>2 DEF Meant
<1>. QED  BY <1>1, <1>2, <1>3, <1>4, <1>5

(* A fingerprint that will not be taken again: a source has changed since  *)
(* that it lists, or that one lists which it knows.                        *)
Outdated(B) == \A x \in B :
  \/ x.ups \cap B # {}
  \/ \E f \in Sources : \E s \in Nat : <<f, s>> \in x.ins /\ s < stamp[f]

(* What is archived under the others is right,                             *)
ArchivesRight(V, B) == \A x \in DOMAIN store : Hermetic(x.job) /\ x \notin B =>
  x \in DOMAIN V /\ \A f \in (DOMAIN store[x]) \ Removed : store[x][f] = V[x]

(* and so are the files of a job that has ended well, be it executed or    *)
(* resumed.                                                                *)
Good(j) == pc[j] = "resumed" \/ ok[j] \/ (j \in done \ failed /\ j \notin plan.tolerant)
TookRight(j, V, W) == \A x : x = fp[j] => Fed(x, V, W) /\ took[j] = From(x, V, W)
FilesRight(j, V) == fp[j] \in DOMAIN V /\ \A f \in plan.writes[j] \ Removed : val[f] = V[fp[j]]

Checked(j) == pc[j] \notin {"idle", "check"} /\ Declares(j)
Current(j) == \A f \in plan.reads[j] \cap Sources : \A s : <<f, s>> \in fp[j].ins <=> s = stamp[f]

(* A job took its fingerprint of what its needs have, and of the sources   *)
(* as they were; it reads them as they are.                                *)
PrintRight(j, V, W, B) ==
  /\ fp[j].ups = Upstreams(j) /\ fp[j].def = version[j].hashed
  /\ fp[j].ups \cap B # {} => fp[j] \in B
  /\ ~edited => fp[j] \notin B
  /\ Hermetic(j) /\ (~edited \/ (pc[j] = "begin" /\ fp[j] \notin B)) => Current(j)
  /\ Hermetic(j) /\ fp[j] \notin B =>
       /\ pc[j] = "steps" => TookRight(j, V, W)
       /\ Good(j) => FilesRight(j, V)

EndRight(j) ==
  /\ ok[j] => pc[j] = "publish" \/ pc[j] \in Late
  /\ pc[j] = "mark" => ok[j]

JobRight(j, V, W, B) == EndRight(j) /\ (Checked(j) => PrintRight(j, V, W, B))

SourcesRight == \A f \in Sources \ Removed : val[f] = Value(None, stamp[f], {}, TRUE)

AllRight(V, W, B) ==
  /\ Right(V, W) /\ Outdated(B) /\ ArchivesRight(V, B)
  /\ \A j \in Jobs : JobRight(j, V, W, B)

CleanInv == ArchiveInv /\ RunFacts /\ SourcesRight /\ \E V, W, B : AllRight(V, W, B)

LEMMA InitClean == Init => CleanInv
<1>. SUFFICES ASSUME Init PROVE CleanInv
  OBVIOUS
<1>. PICK V, W : V = [x \in {} |-> Absent] /\ W = [x \in {} |-> {}]
  OBVIOUS
<1>1. Right(V, W) /\ Outdated({}) /\ ArchivesRight(V, {})
  BY DEF Right, Outdated, ArchivesRight, Init
<1>2. \A j \in Jobs : JobRight(j, V, W, {})
  BY DEF Init, JobRight, EndRight, Checked
<1>3. SourcesRight
  BY DEF Init, SourcesRight, Sources
<1>4. AllRight(V, W, {})
  BY <1>1, <1>2 DEF AllRight
<1>. QED  BY <1>3, <1>4, InitArchives, InitRunFacts DEF CleanInv

(* Stamps only grow.                                                       *)
LEMMA StampsGrow ==
  ASSUME Typed, [Next]_vars
  PROVE  \A f \in Files : stamp[f] \in Nat /\ stamp'[f] \in Nat /\ stamp'[f] >= stamp[f]
<1>0. stamp \in [Files -> Nat] /\ stamp' \in [Files -> Nat]
  BY NextTyped DEF Typed
<1>1. stamp' = stamp \/ \E new : Put(new)
  BY DEF Next, RunJob, Check, Restore, PublishResumed, Begin, Succeed, Fail, Publish, Mark, CleanAfter,
         LaunchNext, EditSource, NewRun, Elsewhere, vars, treeVars
<1>2. ASSUME NEW new, Put(new) PROVE \A f \in Files : stamp'[f] >= stamp[f]
  BY <1>0, <1>2 DEF Put
<1>. QED  BY <1>0, <1>1, <1>2

LEMMA OutdatedRemains ==
  ASSUME Typed, [Next]_vars, plan' = plan, NEW B, Outdated(B)
  PROVE  Outdated(B)'
<1>. SUFFICES ASSUME NEW x \in B, x.ups \cap B = {}
              PROVE  \E f \in Sources : \E s \in Nat : <<f, s>> \in x.ins /\ s < stamp'[f]
  BY PlansStay DEF Outdated
<1>1. PICK f \in Sources, s \in Nat : <<f, s>> \in x.ins /\ s < stamp[f]
  BY DEF Outdated
<1>2. f \in Files
  BY DEF Sources
<1>3. stamp[f] \in Nat /\ stamp'[f] \in Nat /\ stamp'[f] >= stamp[f]
  BY <1>2, StampsGrow
<1>4. s < stamp'[f]
  BY <1>1, <1>3
<1>. QED  BY <1>1, <1>4

(* What a step leaves alone of a job.                                      *)
Untouched(j, B, B2) ==
  /\ UNCHANGED <<plan, version, used>>
  /\ pc'[j] = pc[j] /\ fp'[j] = fp[j] /\ took'[j] = took[j] /\ ok'[j] = ok[j]
  /\ j \in done' \ failed' => j \in done \ failed
  /\ B \subseteq B2
  /\ Checked(j) =>
       /\ Upstreams(j)' = Upstreams(j)
       /\ fp[j].ups \cap B2 # {} => fp[j].ups \cap B # {} \/ fp[j] \in B2
       /\ ~edited' => ~edited /\ (fp[j] \in B2 => fp[j] \in B)
       /\ Hermetic(j) /\ (~edited' \/ (pc[j] = "begin" /\ fp[j] \notin B2)) =>
            \A f \in plan.reads[j] \cap Sources : stamp'[f] = stamp[f]
       /\ Hermetic(j) => \A f \in plan.writes[j] : val'[f] = val[f]

LEMMA UntouchedRight ==
  ASSUME NEW j \in Jobs, NEW V, NEW W, NEW B, NEW V2, NEW W2, NEW B2,
         JobRight(j, V, W, B), Extends(V2, W2, V, W), Untouched(j, B, B2)
  PROVE  JobRight(j, V2, W2, B2)'
<1>1. EndRight(j)'
  BY DEF JobRight, EndRight, Untouched
<1>2. plan' = plan /\ (Checked(j)' <=> Checked(j)) /\ (Hermetic(j)' <=> Hermetic(j)) /\ Removed' = Removed
      /\ Sources' = Sources
  BY PlansStayHermetic DEF Checked, Untouched, Declares
<1>3. ASSUME Checked(j) PROVE PrintRight(j, V2, W2, B2)'
  <2>1. PrintRight(j, V, W, B)
    BY <1>3 DEF JobRight
  <2>2. fp'[j].ups = Upstreams(j)' /\ fp'[j].def = version'[j].hashed
    BY <1>3, <2>1 DEF Untouched, PrintRight
  <2>3. fp'[j].ups \cap B2 # {} => fp'[j] \in B2
    BY <1>3, <2>1 DEF Untouched, PrintRight
  <2>4. ~edited' => fp'[j] \notin B2
    BY <1>3, <2>1 DEF Untouched, PrintRight
  <2>5. ASSUME Hermetic(j), ~edited' \/ (pc'[j] = "begin" /\ fp'[j] \notin B2) PROVE Current(j)'
    <3>1. \A f \in plan.reads[j] \cap Sources : stamp'[f] = stamp[f]
      BY <1>3, <2>5 DEF Untouched
    <3>2. Current(j)
      BY <1>3, <2>1, <2>5 DEF Untouched, PrintRight
    <3>. QED  BY <1>2, <3>1, <3>2 DEF Current, Untouched
  <2>7. ASSUME Hermetic(j), fp'[j] \notin B2, pc'[j] = "steps" PROVE TookRight(j, V2, W2)'
    <3>1. TookRight(j, V, W)
      BY <2>1, <2>7 DEF PrintRight, Untouched
    <3>2. SUFFICES ASSUME NEW x, x = fp'[j]
                   PROVE  Fed(x, V2, W2)' /\ took'[j] = From(x, V2, W2)'
      BY DEF TookRight
    <3>3. Fed(x, V, W) /\ took'[j] = From(x, V, W)
      BY <3>1, <3>2 DEF TookRight, Untouched
    <3>4. Fed(x, V2, W2) /\ From(x, V2, W2) = From(x, V, W)
      BY <3>3, FedRemains
    <3>5. (Fed(x, V2, W2)' <=> Fed(x, V2, W2)) /\ From(x, V2, W2)' = From(x, V2, W2)
      BY <1>2, FedKept
    <3>. QED  BY <3>3, <3>4, <3>5
  <2>8. ASSUME Hermetic(j), fp'[j] \notin B2, Good(j)' PROVE FilesRight(j, V2)'
    <3>1. Good(j) /\ fp[j] \notin B
      BY <2>8 DEF Good, Untouched
    <3>2. FilesRight(j, V)
      BY <2>1, <2>8, <3>1 DEF PrintRight
    <3>3. fp[j] \in DOMAIN V2 /\ V2[fp[j]] = V[fp[j]]
      BY <3>2 DEF FilesRight, Extends
    <3>4. \A f \in plan.writes[j] : val'[f] = val[f]
      BY <1>3, <2>8 DEF Untouched
    <3>. QED  BY <1>2, <3>2, <3>3, <3>4 DEF FilesRight, Untouched
  <2>9. ASSUME Hermetic(j), fp'[j] \notin B2
        PROVE  (pc'[j] = "steps" => TookRight(j, V2, W2)') /\ (Good(j)' => FilesRight(j, V2)')
    BY <2>7, <2>8, <2>9
  <2>. QED  BY <1>2, <2>2, <2>3, <2>4, <2>5, <2>9 DEF PrintRight
<1>. QED  BY <1>1, <1>2, <1>3 DEF JobRight

(* What is known of the needs of a job that has started.                   *)
LEMMA NeedsChecked ==
  ASSUME Typed, PrintsOwn, RunFacts, NEW k \in Jobs, pc[k] # "idle"
  PROVE  /\ \A n \in plan.needs[k] : /\ n \in Jobs /\ n \in done \ failed /\ pc[n] \in Late /\ fps[n] = fp[n]
                                     /\ Declares(n) => Checked(n) /\ fp[n].job = n
         /\ Upstreams(k) = {fp[n] : n \in Telling(k)}
<1>1. ASSUME NEW n \in plan.needs[k]
      PROVE  /\ n \in Jobs /\ n \in done \ failed /\ pc[n] \in Late /\ fps[n] = fp[n]
             /\ Declares(n) <=> fp[n] # NoPrint
             /\ Declares(n) => Checked(n) /\ fp[n].job = n
  <2>1. n \in Jobs /\ n \in done \ failed
    BY PlanTyped DEF RunFacts, JobFacts
  <2>2. JobFacts(n)
    BY <2>1 DEF RunFacts
  <2>3. pc[n] \in Late /\ fps[n] = fp[n]
    BY <2>1, <2>2 DEF JobFacts
  <2>4. pc[n] \notin {"idle", "check"}
    BY <2>3 DEF Late
  <2>5. Declares(n) <=> fp[n] # NoPrint
    BY <2>2, <2>4 DEF JobFacts
  <2>. QED  BY <2>1, <2>3, <2>4, <2>5 DEF Checked, PrintsOwn
<1>2. Upstreams(k) = {fp[n] : n \in Telling(k)}
  BY <1>1 DEF Upstreams, Telling
<1>. QED  BY <1>1, <1>2

LEMMA UpstreamsKept ==
  ASSUME Typed, PrintsOwn, RunFacts, plan' = plan, NEW k \in Jobs, pc[k] # "idle",
         \A n \in done : fps'[n] = fps[n]
  PROVE  Upstreams(k)' = Upstreams(k)
<1>1. \A n \in plan.needs[k] : fps'[n] = fps[n]
  BY NeedsChecked
<1>2. NoPrint' = NoPrint
  BY DEF NoPrint
<1>. QED  BY <1>1, <1>2 DEF Upstreams

(* Nobody else changes the files of a job that has them for itself.        *)
LEMMA OthersFilesKept ==
  ASSUME ArchiveInv, NEW j \in Jobs, RunJob(j), NEW k \in Jobs, k # j, Private(k)
  PROVE  \A f \in plan.writes[k] : val'[f] = val[f]
<1>1. /\ plan.writes[k] \cap plan.writes[j] = {} /\ plan.writes[k] \cap plan.clean[j] = {}
      /\ plan.writes[k] \subseteq Files
  BY PrivateFiles, PlanTyped DEF ArchiveInv
<1>2. CASE Restore(j)
  <2>1. DOMAIN store[fp[j]] \subseteq plan.writes[j]
    BY <1>2, PlanTyped DEF Restore, ArchiveInv, PrintsOwn, ArchivesOwn
  <2>. QED  BY <1>1, <1>2, <2>1 DEF Restore, Put
<1>3. CASE Succeed(j) \/ Fail(j)
  BY <1>1, <1>3 DEF Succeed, Fail, Put, treeVars
<1>4. CASE CleanAfter(j)
  BY <1>1, <1>4 DEF CleanAfter
<1>. QED
  BY <1>2, <1>3, <1>4 DEF RunJob, Check, PublishResumed, Begin, Publish, Mark, LaunchNext, treeVars

(* What a step of job j does to the others.                                *)
LEMMA StepsOfJobs ==
  ASSUME ArchiveInv, RunFacts, NEW j \in Jobs, RunJob(j)
  PROVE  /\ UNCHANGED <<plan, version, edited, used>>
         /\ \A n \in done : fps'[n] = fps[n]
         /\ \A k \in Jobs \ {j} :
              /\ fp'[k] = fp[k] /\ took'[k] = took[k] /\ ok'[k] = ok[k]
              /\ pc'[k] = pc[k] \/ (pc[k] = "idle" /\ pc'[k] = "check")
              /\ k \in done' \ failed' => k \in done \ failed
<1>. USE DEF Goto, runVars, userVars, treeVars, jobVars
<1>0. /\ IsFcn(fp, Jobs) /\ IsFcn(took, Jobs) /\ ok \in [Jobs -> BOOLEAN] /\ pc \in [Jobs -> Places]
      /\ IsFcn(fps, Jobs) /\ done \subseteq Jobs /\ JobFacts(j)
  BY DEF ArchiveInv, Typed, RunFacts
<1>1. UNCHANGED <<plan, version, edited, used>>
  BY DEF RunJob, Check, Restore, PublishResumed, Begin, Succeed, Fail, Publish, Mark, CleanAfter,
         LaunchNext, Launch
<1>2. \A n \in done : fps'[n] = fps[n]
  <2>1. CASE PublishResumed(j) \/ Publish(j)
    <3>1. fps' = [fps EXCEPT ![j] = fp[j]] /\ pc[j] \in {"resumed", "publish"}
      BY <2>1 DEF PublishResumed, Publish
    <3>2. j \notin done
      BY <1>0, <3>1 DEF JobFacts, Late
    <3>. QED  BY <1>0, <3>1, <3>2 DEF IsFcn
  <2>2. CASE ~ (PublishResumed(j) \/ Publish(j))
    BY <2>2 DEF RunJob, Check, Restore, Begin, Succeed, Fail, Mark, CleanAfter, LaunchNext, Launch
  <2>. QED  BY <2>1, <2>2
<1>3. \A k \in Jobs \ {j} : fp'[k] = fp[k]
  <2>1. fp' = fp \/ \E x : fp' = [fp EXCEPT ![j] = x]
    BY DEF RunJob, Check, Restore, PublishResumed, Begin, Succeed, Fail, Publish, Mark, CleanAfter,
           LaunchNext, Launch
  <2>. QED  BY <1>0, <2>1 DEF IsFcn
<1>4. \A k \in Jobs \ {j} : took'[k] = took[k]
  <2>1. took' = took \/ \E x : took' = [took EXCEPT ![j] = x]
    BY DEF RunJob, Check, Restore, PublishResumed, Begin, Succeed, Fail, Publish, Mark, CleanAfter,
           LaunchNext, Launch
  <2>. QED  BY <1>0, <2>1 DEF IsFcn
<1>5. \A k \in Jobs \ {j} : ok'[k] = ok[k]
  BY <1>0 DEF RunJob, Check, Restore, PublishResumed, Begin, Succeed, Fail, Publish, Mark, CleanAfter,
              LaunchNext, Launch
<1>6. CASE ~ LaunchNext(j)
  <2>1. \A k \in Jobs \ {j} : pc'[k] = pc[k]
    BY <1>0, <1>6 DEF RunJob, Check, Restore, PublishResumed, Begin, Succeed, Fail, Publish, Mark, CleanAfter
  <2>2. \A k \in Jobs \ {j} : k \in done' \ failed' => k \in done \ failed
    <3>1. done' \in {done, done \cup {j}} /\ failed' \in {failed, failed \cup {j}}
      BY <1>6 DEF RunJob, Check, Restore, PublishResumed, Begin, Succeed, Fail, Publish, Mark, CleanAfter
    <3>. QED  BY <3>1
  <2>. QED  BY <1>1, <1>2, <1>3, <1>4, <1>5, <2>1, <2>2
<1>7. CASE LaunchNext(j)
  <2>1. \A k \in Jobs \ {j} : pc'[k] = pc[k] \/ (pc[k] = "idle" /\ pc'[k] = "check")
    BY <1>0, <1>7 DEF LaunchNext, Launch, Unclaimed
  <2>2. \A k \in Jobs \ {j} : k \in done' \ failed' => k \in done \ failed
    BY <1>7 DEF LaunchNext, Launch
  <2>. QED  BY <1>1, <1>2, <1>3, <1>4, <1>5, <2>1, <2>2
<1>. QED  BY <1>6, <1>7

(* The fingerprints that a step adds to the outdated ones are of the job   *)
(* that it checks.                                                         *)
LEMMA OthersRight ==
  ASSUME ArchiveInv, RunFacts, NEW j \in Jobs, RunJob(j), NEW V, NEW W, NEW B, AllRight(V, W, B),
         NEW V2, NEW W2, Extends(V2, W2, V, W),
         NEW B2, B \subseteq B2, \A x \in B2 \ B : x.job = j /\ pc[j] = "check",
         NEW k \in Jobs, k # j
  PROVE  JobRight(k, V2, W2, B2)'
<1>0. Typed /\ PrintsOwn /\ JobRight(k, V, W, B)
  BY DEF ArchiveInv, AllRight
<1>1. /\ UNCHANGED <<plan, version, edited, used>>
      /\ \A n \in done : fps'[n] = fps[n]
      /\ fp'[k] = fp[k] /\ took'[k] = took[k] /\ ok'[k] = ok[k]
      /\ pc'[k] = pc[k] \/ (pc[k] = "idle" /\ pc'[k] = "check")
      /\ k \in done' \ failed' => k \in done \ failed
  BY StepsOfJobs
<1>2. CASE pc'[k] # pc[k]
  <2>1. ~ ok[k]
    BY <1>0, <1>1, <1>2 DEF JobRight, EndRight, Late
  <2>2. EndRight(k)' /\ ~ Checked(k)'
    BY <1>1, <1>2, <2>1 DEF EndRight, Checked
  <2>. QED  BY <2>2 DEF JobRight
<1>3. CASE pc'[k] = pc[k]
  <2>1. ASSUME Checked(k)
        PROVE  /\ Upstreams(k)' = Upstreams(k)
               /\ fp[k].ups \cap B2 # {} => fp[k].ups \cap B # {} \/ fp[k] \in B2
               /\ fp[k] \in B2 => fp[k] \in B
    <3>1. pc[k] # "idle" /\ fp[k].ups = Upstreams(k)
      BY <1>0, <2>1 DEF Checked, JobRight, PrintRight
    <3>2. Upstreams(k)' = Upstreams(k)
      BY <1>0, <1>1, <3>1, UpstreamsKept
    <3>3. fp[k].job = k
      BY <1>0, <2>1 DEF PrintsOwn, RunFacts, JobFacts, Checked
    <3>4. ASSUME NEW x \in B2 \ B PROVE x \notin fp[k].ups
      <4>1. x.job = j /\ pc[j] = "check"
        BY <3>4
      <4>2. \A n \in plan.needs[k] : pc[n] \in Late /\ (Declares(n) => fp[n].job = n)
        BY <1>0, <3>1, NeedsChecked
      <4>3. Upstreams(k) = {fp[n] : n \in Telling(k)}
        BY <1>0, <3>1, NeedsChecked
      <4>. QED  BY <3>1, <4>1, <4>2, <4>3 DEF Telling, Late
    <3>. QED  BY <3>2, <3>3, <3>4
  <2>2. ASSUME Hermetic(k) PROVE \A f \in plan.reads[k] \cap Sources : stamp'[f] = stamp[f]
    <3>1. plan.reads[k] \cap Sources \subseteq Sources \ Removed
      BY <1>0, <2>2, HermeticFacts DEF Tracked
    <3>. QED  BY <3>1, SourcesKept
  <2>3. ASSUME Hermetic(k) PROVE \A f \in plan.writes[k] : val'[f] = val[f]
    BY <1>0, <2>3, HermeticFacts, OthersFilesKept
  <2>4. Untouched(k, B, B2)
    BY <1>1, <1>3, <2>1, <2>2, <2>3 DEF Untouched
  <2>. QED  BY <1>0, <2>4, UntouchedRight
<1>. QED  BY <1>2, <1>3

(* A step of a job that was checked leaves its fingerprint as it is.       *)
LEMMA OwnRight ==
  ASSUME ArchiveInv, RunFacts, NEW j \in Jobs, RunJob(j), ~ Check(j),
         NEW V, NEW W, NEW B, AllRight(V, W, B), NEW V2, NEW W2, EndRight(j)',
         Checked(j) /\ Hermetic(j) /\ fp[j] \notin B =>
           /\ pc'[j] = "steps" => TookRight(j, V2, W2)'
           /\ Good(j)' => FilesRight(j, V2)'
  PROVE  JobRight(j, V2, W2, B)'
<1>. USE DEF Goto, runVars, userVars, treeVars, jobVars
<1>0. Typed /\ PrintsOwn /\ JobRight(j, V, W, B) /\ pc \in [Jobs -> Places] /\ JobFacts(j)
  BY DEF ArchiveInv, AllRight, Typed, RunFacts
<1>1. /\ UNCHANGED <<plan, version, edited, used>>
      /\ \A n \in done : fps'[n] = fps[n]
  BY StepsOfJobs
<1>2. fp' = fp /\ pc[j] \notin {"idle", "check"} /\ pc'[j] # "begin"
  BY <1>0 DEF RunJob, Check, Restore, PublishResumed, Begin, Succeed, Fail, Publish, Mark, CleanAfter,
              LaunchNext, Launch, Unclaimed
<1>3. (Checked(j)' => Checked(j)) /\ (Hermetic(j)' <=> Hermetic(j)) /\ Sources' = Sources
  BY <1>1, <1>2, PlansStayHermetic DEF Checked, Declares
<1>4. ASSUME Checked(j)' PROVE PrintRight(j, V2, W2, B)'
  <2>1. PrintRight(j, V, W, B)
    BY <1>0, <1>3, <1>4 DEF JobRight
  <2>2. Upstreams(j)' = Upstreams(j)
    BY <1>0, <1>1, <1>2, UpstreamsKept
  <2>3. fp'[j].ups = Upstreams(j)' /\ fp'[j].def = version'[j].hashed
    BY <1>1, <1>2, <2>1, <2>2 DEF PrintRight
  <2>4. (fp'[j].ups \cap B # {} => fp'[j] \in B) /\ (~edited' => fp'[j] \notin B)
    BY <1>1, <1>2, <2>1 DEF PrintRight
  <2>5. ASSUME Hermetic(j), ~edited' PROVE Current(j)'
    <3>1. Current(j)
      BY <1>1, <2>1, <2>5 DEF PrintRight
    <3>2. plan.reads[j] \cap Sources \subseteq Sources \ Removed
      BY <1>0, <2>5, HermeticFacts DEF Tracked
    <3>3. \A f \in plan.reads[j] \cap Sources : stamp'[f] = stamp[f]
      BY <3>2, SourcesKept
    <3>. QED  BY <1>1, <1>2, <1>3, <3>1, <3>3 DEF Current
  <2>6. Hermetic(j)' /\ fp'[j] \notin B =>
          (pc'[j] = "steps" => TookRight(j, V2, W2)') /\ (Good(j)' => FilesRight(j, V2)')
    BY <1>2, <1>3, <1>4
  <2>. QED  BY <1>2, <1>3, <2>3, <2>4, <2>5, <2>6 DEF PrintRight
<1>. QED  BY <1>4 DEF JobRight

(* What is left to show of a step of a job.                                *)
LEMMA StepRight ==
  ASSUME ArchiveInv, RunFacts, NEW j \in Jobs, RunJob(j), NEW V, NEW W, NEW B, AllRight(V, W, B),
         NEW V2, NEW W2, Right(V2, W2), Extends(V2, W2, V, W),
         NEW B2, B \subseteq B2, \A x \in B2 \ B : x.job = j /\ pc[j] = "check", Outdated(B2),
         JobRight(j, V2, W2, B2)', store' = store \/ ArchivesRight(V2, B2)'
  PROVE  AllRight(V2, W2, B2)'
<1>0. Typed /\ ArchivesRight(V, B) /\ plan' = plan /\ used' = used /\ [Next]_vars
  BY StepsOfJobs DEF ArchiveInv, AllRight, Next
<1>1. Right(V2, W2)'
  BY <1>0, RightKept
<1>2. Outdated(B2)'
  BY <1>0, OutdatedRemains
<1>3. ArchivesRight(V2, B2)'
  <2>1. CASE store' = store
    <3>1. Removed' = Removed /\ \A k \in Jobs : Hermetic(k)' <=> Hermetic(k)
      BY <1>0, PlansStayHermetic
    <3>2. \A x \in DOMAIN store : x.job \in Jobs
      BY DEF ArchiveInv, ArchivesOwn
    <3>. SUFFICES ASSUME NEW x \in DOMAIN store, Hermetic(x.job), x \notin B2
                  PROVE  x \in DOMAIN V2 /\ \A f \in (DOMAIN store[x]) \ Removed : store[x][f] = V2[x]
      BY <2>1, <3>1, <3>2 DEF ArchivesRight
    <3>. QED  BY <1>0 DEF ArchivesRight, Extends
  <2>. QED  BY <2>1
<1>4. \A k \in Jobs : JobRight(k, V2, W2, B2)'
  BY OthersRight
<1>. QED  BY <1>1, <1>2, <1>3, <1>4 DEF AllRight

(* What a job knows of has ended well and left the right files.            *)
KnownOk(n, V, B) == Checked(n) /\ fp[n] \notin B /\ fp[n].job = n /\ FilesRight(n, V)

LEMMA KnownRight ==
  ASSUME ArchiveInv, RunFacts, NEW V, NEW W, NEW B, AllRight(V, W, B),
         NEW j \in Jobs, Checked(j), Hermetic(j), fp[j] \notin B
  PROVE  /\ \A n \in Known[j] : KnownOk(n, V, B)
         /\ fp[j].ups \subseteq DOMAIN V
         /\ Below(fp[j], W) = {fp[n] : n \in Known[j]}
<1>0. Typed /\ PrintsOwn /\ Right(V, W) /\ \A k \in Jobs : JobRight(k, V, W, B)
  BY DEF ArchiveInv, AllRight
<1>. DEFINE Claim(k) == /\ \A n \in Known[k] : KnownOk(n, V, B)
                        /\ fp[k].ups \subseteq DOMAIN V
                        /\ Below(fp[k], W) = {fp[n] : n \in Known[k]}
            T == {k \in Jobs : Checked(k) /\ Hermetic(k) /\ fp[k] \notin B /\ ~ Claim(k)}
<1>1. ASSUME T # {} PROVE FALSE
  <2>1. PICK k \in T : plan.needs[k] \cap T = {}
    BY <1>0, <1>1, LeastJob
  <2>. HIDE DEF Claim
  <2>2. k \in Jobs /\ Checked(k) /\ Hermetic(k) /\ fp[k] \notin B /\ ~ Claim(k) /\ pc[k] # "idle"
    BY <2>1 DEF Checked
  <2>3. PrintRight(k, V, W, B)
    BY <1>0, <2>2 DEF JobRight
  <2>4. Upstreams(k) = {fp[n] : n \in Telling(k)} /\ fp[k].ups = Upstreams(k)
    BY <1>0, <2>2, <2>3, NeedsChecked DEF PrintRight
  <2>5. ASSUME NEW n \in Telling(k)
        PROVE  KnownOk(n, V, B) /\ Claim(n) /\ W[fp[n]] = {fp[m] : m \in Known[n]}
    <3>1. n \in plan.needs[k] /\ Declares(n)
      BY DEF Telling
    <3>2. n \in Jobs /\ n \in done \ failed /\ Checked(n) /\ fp[n].job = n
      BY <1>0, <2>2, <3>1, NeedsChecked
    <3>3. Hermetic(n) /\ n \notin plan.tolerant
      BY <1>0, <2>2, <3>1, HermeticFacts
    <3>4. fp[n] \notin B
      BY <2>2, <2>3, <2>4 DEF PrintRight
    <3>5. FilesRight(n, V)
      <4>1. Good(n)
        BY <3>2, <3>3 DEF Good
      <4>2. PrintRight(n, V, W, B)
        BY <1>0, <3>2 DEF JobRight
      <4>. QED  BY <3>3, <3>4, <4>1, <4>2 DEF PrintRight
    <3>6. Claim(n)
      BY <2>1, <3>1, <3>2, <3>3, <3>4
    <3>7. W[fp[n]] = Below(fp[n], W)
      BY <1>0, <3>5 DEF FilesRight, Right
    <3>8. W[fp[n]] = {fp[m] : m \in Known[n]}
      BY <3>6, <3>7 DEF Claim
    <3>. QED  BY <3>2, <3>4, <3>5, <3>6, <3>8 DEF KnownOk
  <2>6. Known[k] = UNION {{n} \cup Known[n] : n \in Telling(k)}
    BY <1>0, <2>2, KnownUnfolds
  <2>7. \A n \in Known[k] : KnownOk(n, V, B)
    <3>1. ASSUME NEW n \in Telling(k), NEW m \in {n} \cup Known[n] PROVE KnownOk(m, V, B)
      BY <2>5 DEF Claim
    <3>. QED  BY <2>6, <3>1
  <2>8. fp[k].ups \subseteq DOMAIN V
    BY <2>4, <2>5 DEF KnownOk, FilesRight
  <2>9. Below(fp[k], W) = {fp[n] : n \in Known[k]}
    <3>1. Below(fp[k], W) = UNION {{fp[n]} \cup W[fp[n]] : n \in Telling(k)}
      BY <2>4 DEF Below
    <3>2. \A n \in Telling(k) : W[fp[n]] = {fp[m] : m \in Known[n]}
      BY <2>5
    <3>3. ASSUME NEW u \in Below(fp[k], W) PROVE \E n \in Known[k] : u = fp[n]
      <4>1. PICK n \in Telling(k) : u \in {fp[n]} \cup W[fp[n]]
        BY <3>1
      <4>2. PICK m \in {n} \cup Known[n] : u = fp[m]
        BY <3>2, <4>1
      <4>. QED  BY <2>6, <4>2
    <3>4. ASSUME NEW n \in Known[k] PROVE fp[n] \in Below(fp[k], W)
      <4>1. PICK m \in Telling(k) : n \in {m} \cup Known[m]
        BY <2>6
      <4>2. fp[n] \in {fp[m]} \cup W[fp[m]]
        BY <3>2, <4>1
      <4>. QED  BY <3>1, <4>2
    <3>. QED  BY <3>3, <3>4
  <2>. QED  BY <2>2, <2>7, <2>8, <2>9 DEF Claim
<1>. QED  BY <1>1

(* What a job reads is what it should.                                     *)
LEMMA ReadsRight ==
  ASSUME ArchiveInv, RunFacts, SourcesRight, NEW V, NEW W, NEW B, AllRight(V, W, B),
         NEW j \in Jobs, Checked(j), Hermetic(j), fp[j] \notin B, Current(j)
  PROVE  Fed(fp[j], V, W) /\ From(fp[j], V, W) = {<<f, val[f]>> : f \in plan.reads[j]}
<1>. PICK x : x = fp[j]
  OBVIOUS
<1>0. Typed /\ PrintsOwn
  BY DEF ArchiveInv
<1>1. /\ \A n \in Known[j] : KnownOk(n, V, B)
      /\ x.ups \subseteq DOMAIN V /\ Below(x, W) = {fp[n] : n \in Known[j]}
  BY KnownRight
<1>2. x.job = j
  BY <1>0 DEF PrintsOwn, RunFacts, JobFacts, Checked
<1>3. Tracked(j) /\ \A n \in Known[j] : Hermetic(n) /\ n \in Jobs
  BY <1>0, HermeticFacts
<1>4. \A n \in Known[j] : fp[n] \in DOMAIN V /\ fp[n].job = n
  BY <1>1 DEF KnownOk, FilesRight
<1>5. \A f \in plan.reads[j] \ Sources : \E n \in Known[j] : f \in plan.writes[n]
  BY <1>3 DEF Tracked
<1>6. Fed(x, V, W)
  <2>1. Below(x, W) \subseteq DOMAIN V
    BY <1>1, <1>4
  <2>2. \A f \in plan.reads[j] \ Sources : \E u \in Below(x, W) : f \in plan.writes[u.job]
    BY <1>1, <1>4, <1>5
  <2>. QED  BY <1>1, <1>2, <2>1, <2>2 DEF Fed
<1>7. ASSUME NEW f \in plan.reads[j] PROVE Input(x, f, V, W) = val[f]
  <2>0. f \notin Removed
    BY <1>3 DEF Tracked
  <2>1. CASE f \in Sources
    <3>1. \A s : <<f, s>> \in x.ins <=> s = stamp[f]
      BY <2>1 DEF Current
    <3>2. StampIn(x, f) = stamp[f]
      BY <3>1 DEF StampIn
    <3>3. val[f] = Value(None, stamp[f], {}, TRUE)
      BY <2>0, <2>1 DEF SourcesRight
    <3>. QED  BY <2>1, <3>2, <3>3 DEF Input
  <2>2. CASE f \notin Sources
    <3>1. WriterIn(x, f, W) \in Below(x, W) /\ f \in plan.writes[WriterIn(x, f, W).job]
      BY <1>2, <1>6, <2>2 DEF WriterIn, Fed
    <3>2. PICK n \in Known[j] : WriterIn(x, f, W) = fp[n]
      BY <1>1, <3>1
    <3>3. f \in plan.writes[n]
      BY <1>4, <3>1, <3>2
    <3>4. val[f] = V[fp[n]]
      BY <1>1, <2>0, <3>3 DEF KnownOk, FilesRight
    <3>. QED  BY <2>2, <3>2, <3>4 DEF Input
  <2>. QED  BY <2>1, <2>2
<1>8. From(x, V, W) = {<<f, val[f]>> : f \in plan.reads[j]}
  BY <1>2, <1>7 DEF From
<1>. QED  BY <1>6, <1>8

(* The steps, one by one.                                                  *)
LEMMA CheckRight ==
  ASSUME ArchiveInv, RunFacts, SourcesRight, NEW V, NEW W, NEW B, AllRight(V, W, B),
         NEW j \in Jobs, Check(j)
  PROVE  \E B2 : AllRight(V, W, B2)'
<1>. USE DEF Goto, runVars, userVars, treeVars, jobVars
<1>0. /\ Typed /\ PrintsOwn /\ Right(V, W) /\ Outdated(B) /\ \A k \in Jobs : JobRight(k, V, W, B)
      /\ pc \in [Jobs -> Places] /\ IsFcn(fp, Jobs) /\ pc[j] = "check"
      /\ UNCHANGED <<plan, version, edited, fps, done, failed, ok, stamp, store, used>>
  BY DEF ArchiveInv, AllRight, Typed, Check
<1>. PICK x : x = Fingerprint(j)
  OBVIOUS
<1>. PICK B2 : B2 = IF Declares(j) /\ x.ups \cap B # {} THEN B \cup {x} ELSE B
  OBVIOUS
<1>1. x.job = j /\ x.def = version[j].hashed /\ x.ups = Upstreams(j) /\ x.ins = Inputs(j)
  BY DEF Fingerprint
<1>2. /\ pc'[j] \in {"restore", "begin"}
      /\ Declares(j) => fp'[j] = x
  BY <1>0 DEF Check, IsFcn
<1>3. /\ \A n \in plan.needs[j] : n \in Jobs /\ pc[n] \in Late /\ (Declares(n) => Checked(n) /\ fp[n].job = n)
      /\ x.ups = {fp[n] : n \in Telling(j)}
  BY <1>0, <1>1, NeedsChecked
<1>4. x \notin x.ups
  BY <1>0, <1>1, <1>3 DEF Telling, Late
<1>5. B \subseteq B2 /\ \A y \in B2 \ B : y.job = j /\ pc[j] = "check"
  BY <1>0, <1>1
<1>6. Outdated(B2)
  <2>1. \A y \in B : y.ups \cap B2 # {} \/ \E f \in Sources : \E s \in Nat : <<f, s>> \in y.ins /\ s < stamp[f]
    BY <1>0, <1>5 DEF Outdated
  <2>2. \A y \in B2 \ B : y.ups \cap B2 # {}
    OBVIOUS
  <2>. QED  BY <2>1, <2>2 DEF Outdated
<1>7. ASSUME Declares(j), ~ edited PROVE x \notin B2
  <2>1. x.ups \cap B = {}
    BY <1>0, <1>3, <1>7 DEF JobRight, PrintRight, Telling
  <2>2. ~ \E f \in Sources : \E s \in Nat : <<f, s>> \in x.ins /\ s < stamp[f]
    <3>1. \A f, s : <<f, s>> \in x.ins => s = stamp[f]
      BY <1>1 DEF Inputs
    <3>2. \A f \in Sources : stamp[f] \in Nat
      BY <1>0 DEF Typed, Sources
    <3>3. \A f \in Sources : ~ (stamp[f] < stamp[f])
      BY <3>2
    <3>. QED  BY <3>1, <3>3
  <2>. QED  BY <1>0, <2>1, <2>2 DEF Outdated
<1>8. JobRight(j, V, W, B2)'
  <2>1. ~ ok[j] /\ j \notin done
    BY <1>0 DEF RunFacts, JobFacts, JobRight, EndRight, Late
  <2>2. EndRight(j)' /\ ~ Good(j)' /\ pc'[j] # "steps"
    BY <1>0, <1>2, <2>1 DEF EndRight, Good
  <2>3. ASSUME Checked(j)' PROVE PrintRight(j, V, W, B2)'
    <3>0. Declares(j) /\ fp'[j] = x
      BY <1>0, <1>2, <2>3 DEF Checked, Declares
    <3>1. fp'[j].ups = Upstreams(j)' /\ fp'[j].def = version'[j].hashed
      BY <1>0, <1>1, <3>0 DEF Upstreams, NoPrint
    <3>2. fp'[j].ups \cap B2 # {} => fp'[j] \in B2
      BY <1>4, <3>0
    <3>3. ~ edited' => fp'[j] \notin B2
      BY <1>0, <1>7, <3>0
    <3>4. ASSUME Hermetic(j) PROVE Current(j)'
      <4>1. /\ plan.reads[j] \cap Sources \subseteq plan.inputs[j]
            /\ plan.reads[j] \cap Sources \subseteq Sources \ Removed
        BY <1>0, <3>4, HermeticFacts DEF Tracked
      <4>2. ASSUME NEW f \in plan.reads[j] \cap Sources, NEW s
            PROVE  <<f, s>> \in x.ins <=> s = stamp[f]
        <5>1. val[f] = Value(None, stamp[f], {}, TRUE)
          BY <4>1 DEF SourcesRight
        <5>2. val[f] # Absent
          BY <5>1 DEF Value, Absent
        <5>. QED  BY <1>1, <4>1, <5>2 DEF Inputs
      <4>. QED  BY <1>0, <3>0, <4>2, PlansStayHermetic DEF Current
    <3>5. Hermetic(j)' <=> Hermetic(j)
      BY <1>0, PlansStayHermetic
    <3>. QED  BY <2>2, <3>1, <3>2, <3>3, <3>4, <3>5 DEF PrintRight
  <2>. QED  BY <2>2, <2>3 DEF JobRight
<1>9. Extends(V, W, V, W) /\ RunJob(j) /\ store' = store
  BY <1>0 DEF Extends, RunJob
<1>. QED  BY <1>0, <1>5, <1>6, <1>8, <1>9, StepRight

LEMMA RestoreRight ==
  ASSUME ArchiveInv, RunFacts, NEW V, NEW W, NEW B, AllRight(V, W, B), NEW j \in Jobs, Restore(j)
  PROVE  AllRight(V, W, B)'
<1>. USE DEF Goto, runVars, userVars, treeVars, jobVars
<1>0. /\ Typed /\ PrintsOwn /\ Right(V, W) /\ Outdated(B) /\ ArchivesRight(V, B) /\ JobRight(j, V, W, B)
      /\ ArchivesExact /\ ArchivesOwn
      /\ pc \in [Jobs -> Places] /\ pc[j] = "restore" /\ pc'[j] = "resumed"
      /\ UNCHANGED <<plan, used, fp, ok, store>> /\ Put(store[fp[j]])
  BY DEF ArchiveInv, AllRight, Typed, Restore
<1>1. EndRight(j)'
  BY <1>0 DEF JobRight, EndRight, Late
<1>2. ASSUME Hermetic(j), fp[j] \notin B PROVE FilesRight(j, V)'
  <2>. PICK x : x = fp[j]
    OBVIOUS
  <2>1. x \in DOMAIN store /\ x.job = j
    BY <1>0 DEF PrintsOwn, ArchivesOwn
  <2>2. Private(j) /\ plan.writes[j] = plan.outs[j] /\ plan.writes[j] \subseteq Files
    BY <1>0, <1>2, HermeticFacts, PlanTyped
  <2>3. DOMAIN store[x] = plan.writes[j]
    BY <1>0, <2>1, <2>2 DEF ArchivesExact
  <2>4. x \in DOMAIN V /\ \A f \in (DOMAIN store[x]) \ Removed : store[x][f] = V[x]
    BY <1>0, <1>2, <2>1 DEF ArchivesRight
  <2>5. \A f \in plan.writes[j] : val'[f] = store[x][f]
    BY <1>0, <2>2, <2>3 DEF Put
  <2>. QED  BY <1>0, <2>3, <2>4, <2>5, PlansStayHermetic DEF FilesRight
<1>3. RunJob(j) /\ ~ Check(j) /\ pc'[j] # "steps" /\ Extends(V, W, V, W)
  BY <1>0 DEF RunJob, Check, Extends
<1>4. JobRight(j, V, W, B)'
  BY <1>1, <1>2, <1>3, OwnRight
<1>. QED  BY <1>0, <1>3, <1>4, StepRight

LEMMA BeginRight ==
  ASSUME ArchiveInv, RunFacts, SourcesRight, NEW V, NEW W, NEW B, AllRight(V, W, B), NEW j \in Jobs, Begin(j)
  PROVE  AllRight(V, W, B)'
<1>. USE DEF Goto, runVars, userVars, treeVars, jobVars
<1>0. /\ Typed /\ PrintsOwn /\ Right(V, W) /\ Outdated(B) /\ JobRight(j, V, W, B)
      /\ pc \in [Jobs -> Places] /\ pc[j] = "begin" /\ pc'[j] = "steps"
      /\ UNCHANGED <<plan, used, fp, ok, store, done, failed, val, stamp>> /\ IsFcn(took, Jobs)
      /\ took' = [took EXCEPT ![j] = {<<f, val[f]>> : f \in plan.reads[j]}
                                       \cup {<<n, jobOut[n]>> : n \in plan.hears[j]}]
  BY DEF ArchiveInv, AllRight, Typed, Begin
<1>1. EndRight(j)' /\ ~ Good(j)'
  <2>1. ~ ok[j] /\ j \notin done
    BY <1>0 DEF JobRight, EndRight, Late, RunFacts, JobFacts
  <2>. QED  BY <1>0, <2>1 DEF EndRight, Good
<1>2. ASSUME Checked(j), Hermetic(j), fp[j] \notin B PROVE TookRight(j, V, W)'
  <2>1. Current(j)
    BY <1>0, <1>2 DEF JobRight, PrintRight
  <2>2. Fed(fp[j], V, W) /\ From(fp[j], V, W) = {<<f, val[f]>> : f \in plan.reads[j]}
    BY <1>2, <2>1, ReadsRight
  <2>3. took'[j] = {<<f, val[f]>> : f \in plan.reads[j]}
    <3>1. plan.hears[j] = {}
      BY <1>0, <1>2, HermeticFacts DEF Tracked
    <3>. QED  BY <1>0, <3>1 DEF IsFcn
  <2>. SUFFICES ASSUME NEW x, x = fp'[j] PROVE Fed(x, V, W)' /\ took'[j] = From(x, V, W)'
    BY DEF TookRight
  <2>4. Fed(x, V, W) /\ took'[j] = From(x, V, W)
    BY <1>0, <2>2, <2>3
  <2>. QED  BY <1>0, <2>4, FedKept
<1>3. RunJob(j) /\ ~ Check(j) /\ Extends(V, W, V, W)
  BY <1>0 DEF RunJob, Check, Extends
<1>4. JobRight(j, V, W, B)'
  BY <1>1, <1>2, <1>3, OwnRight
<1>. QED  BY <1>0, <1>3, <1>4, StepRight

LEMMA SucceedRight ==
  ASSUME ArchiveInv, RunFacts, NEW V, NEW W, NEW B, AllRight(V, W, B), NEW j \in Jobs, Succeed(j)
  PROVE  \E V2, W2 : AllRight(V2, W2, B)'
<1>. USE DEF Goto, runVars, userVars, treeVars, jobVars
<1>0. /\ Typed /\ PrintsOwn /\ Right(V, W) /\ Outdated(B) /\ JobRight(j, V, W, B)
      /\ pc \in [Jobs -> Places] /\ ok \in [Jobs -> BOOLEAN] /\ pc[j] = "steps" /\ pc'[j] = "publish"
      /\ UNCHANGED <<plan, used, fp, version, took, store>>
      /\ Put([f \in plan.writes[j] |-> Value(j, version[j], took[j], TRUE)])
  BY DEF ArchiveInv, AllRight, Typed, Succeed
<1>1. EndRight(j)'
  BY <1>0 DEF EndRight
<1>2. RunJob(j) /\ ~ Check(j)
  BY <1>0 DEF RunJob, Check
<1>3. \A f \in plan.writes[j] : val'[f] = Value(j, version[j], took[j], TRUE)
  BY <1>0, PlanTyped DEF Put
<1>4. CASE Checked(j) /\ Hermetic(j) /\ fp[j] \notin B
  <2>. PICK x, v : x = fp[j] /\ v = version[j]
    OBVIOUS
  <2>1. Fed(x, V, W) /\ took[j] = From(x, V, W) /\ x.def = v.hashed
    BY <1>0, <1>4 DEF JobRight, PrintRight, TookRight
  <2>2. x.job = j /\ Meant(x, v) /\ Told(j)
    <3>1. x.job = j /\ run # 0
      BY <1>0, <1>4 DEF PrintsOwn, RunFacts, JobFacts, Checked
    <3>2. version[j] \in used[j]
      BY <1>0, <3>1 DEF Typed
    <3>. QED  BY <1>0, <1>4, <2>1, <3>1, <3>2, HermeticFacts DEF Meant
  <2>3. PICK V2, W2 : /\ Right(V2, W2) /\ Extends(V2, W2, V, W)
                      /\ DOMAIN V2 = (DOMAIN V) \cup {x} /\ V2[x] = RightValue(x, v, V, W)
    <3>1. Right(V, W) /\ Fed(x, V, W) /\ Meant(x, v) /\ Told(x.job)
      BY <1>0, <2>1, <2>2
    <3>. QED  BY <3>1, RightExtends
  <2>4. V2[x] = Value(j, version[j], took[j], TRUE)
    BY <2>1, <2>2, <2>3 DEF RightValue
  <2>5. FilesRight(j, V2)'
    BY <1>0, <1>3, <2>3, <2>4 DEF FilesRight
  <2>6. JobRight(j, V2, W2, B)'
    BY <1>0, <1>1, <1>2, <2>5, OwnRight
  <2>7. AllRight(V2, W2, B)'
    BY <1>0, <1>2, <2>3, <2>6, StepRight
  <2>. QED  BY <2>7
<1>5. CASE ~ (Checked(j) /\ Hermetic(j) /\ fp[j] \notin B)
  <2>1. JobRight(j, V, W, B)'
    BY <1>1, <1>2, <1>5, OwnRight
  <2>2. Extends(V, W, V, W)
    BY DEF Extends
  <2>3. AllRight(V, W, B)'
    BY <1>0, <1>2, <2>1, <2>2, StepRight
  <2>. QED  BY <2>3
<1>. QED  BY <1>4, <1>5

LEMMA FailRight ==
  ASSUME ArchiveInv, RunFacts, NEW V, NEW W, NEW B, AllRight(V, W, B), NEW j \in Jobs, Fail(j)
  PROVE  AllRight(V, W, B)'
<1>. USE DEF Goto, runVars, userVars, treeVars, jobVars
<1>0. /\ Typed /\ Right(V, W) /\ Outdated(B)
      /\ pc \in [Jobs -> Places] /\ ok \in [Jobs -> BOOLEAN] /\ pc[j] = "steps" /\ pc'[j] = "publish"
      /\ UNCHANGED <<plan, used, store, done, failed>> /\ ~ ok'[j]
  BY DEF ArchiveInv, AllRight, Typed, Fail
<1>1. EndRight(j)' /\ ~ Good(j)'
  <2>1. j \notin done
    BY <1>0 DEF Late, RunFacts, JobFacts
  <2>. QED  BY <1>0, <2>1 DEF EndRight, Good
<1>2. RunJob(j) /\ ~ Check(j) /\ pc'[j] # "steps" /\ Extends(V, W, V, W)
  BY <1>0 DEF RunJob, Check, Extends
<1>3. JobRight(j, V, W, B)'
  BY <1>1, <1>2, OwnRight
<1>. QED  BY <1>0, <1>2, <1>3, StepRight

(* The end of a job, after its files are complete.                         *)
LEMMA EndsRight ==
  ASSUME ArchiveInv, RunFacts, NEW V, NEW W, NEW B, AllRight(V, W, B), NEW j \in Jobs,
         PublishResumed(j) \/ Publish(j) \/ Mark(j) \/ CleanAfter(j) \/ LaunchNext(j)
  PROVE  AllRight(V, W, B)'
<1>. USE DEF Goto, runVars, userVars, treeVars, jobVars
<1>0. /\ Typed /\ PrintsOwn /\ Right(V, W) /\ Outdated(B) /\ JobRight(j, V, W, B) /\ ArchivesRight(V, B)
      /\ pc \in [Jobs -> Places] /\ ok \in [Jobs -> BOOLEAN]
      /\ UNCHANGED <<plan, used, fp, ok>>
  BY DEF ArchiveInv, AllRight, Typed, PublishResumed, Publish, Mark, CleanAfter, LaunchNext, Launch
<1>1. pc'[j] \in {"launch", "mark", "clean", "over"} /\ (pc'[j] = "mark" => ok[j])
  BY <1>0 DEF PublishResumed, Publish, Mark, CleanAfter, LaunchNext, Launch, Unclaimed
<1>2. EndRight(j)'
  BY <1>0, <1>1 DEF EndRight, Late
<1>3. ASSUME Good(j)' PROVE Good(j)
  <2>1. CASE PublishResumed(j)
    BY <2>1 DEF PublishResumed, Good
  <2>2. CASE Publish(j)
    <3>1. ~ ok[j] /\ j \notin plan.tolerant => j \in failed'
      BY <2>2 DEF Publish, Fatal
    <3>. QED  BY <1>0, <1>1, <1>3, <3>1 DEF Good
  <2>3. CASE Mark(j) \/ CleanAfter(j)
    BY <1>0, <1>1, <1>3, <2>3 DEF Mark, CleanAfter, Good
  <2>4. CASE LaunchNext(j)
    <3>1. j \in done' \ failed' => j \in done \ failed
      BY <2>4 DEF LaunchNext, Launch
    <3>. QED  BY <1>0, <1>1, <1>3, <3>1 DEF Good
  <2>. QED  BY <2>1, <2>2, <2>3, <2>4
<1>4. RunJob(j) /\ ~ Check(j) /\ pc'[j] # "steps" /\ Extends(V, W, V, W)
  BY <1>1 DEF RunJob, PublishResumed, Publish, Mark, CleanAfter, LaunchNext, Check, Extends
<1>5. \A f \in plan.writes[j] \ Removed : val'[f] = val[f]
  <2>1. plan.writes[j] \subseteq Files /\ Removed = UNION {plan.clean[k] : k \in Jobs}
    BY <1>0, PlanTyped DEF Removed
  <2>2. CASE CleanAfter(j)
    BY <2>1, <2>2 DEF CleanAfter
  <2>3. CASE ~ CleanAfter(j)
    BY <2>3 DEF PublishResumed, Publish, Mark, LaunchNext
  <2>. QED  BY <2>2, <2>3
<1>6. ASSUME Checked(j), Hermetic(j), fp[j] \notin B, Good(j)' PROVE FilesRight(j, V)'
  <2>1. FilesRight(j, V)
    BY <1>0, <1>3, <1>6 DEF JobRight, PrintRight
  <2>2. Removed' = Removed
    BY <1>0, PlansStayHermetic
  <2>. QED  BY <1>0, <1>5, <2>1, <2>2 DEF FilesRight
<1>7. JobRight(j, V, W, B)'
  BY <1>2, <1>4, <1>6, OwnRight
<1>8. store' = store \/ ArchivesRight(V, B)'
  <2>1. CASE ~ Mark(j) \/ fp[j] = NoPrint
    BY <2>1 DEF PublishResumed, Publish, Mark, CleanAfter, LaunchNext
  <2>2. CASE Mark(j) /\ fp[j] # NoPrint
    <3>. PICK x : x = fp[j]
      OBVIOUS
    <3>1. /\ store' = [y \in (DOMAIN store) \cup {x} |->
                         IF y = x THEN [f \in Archived(j) |-> val[f]] ELSE store[y]]
          /\ pc[j] = "mark"
      BY <2>2 DEF Mark
    <3>2. x.job = j /\ Checked(j) /\ ok[j]
      BY <1>0, <2>2, <3>1 DEF PrintsOwn, RunFacts, JobFacts, Checked, JobRight, EndRight
    <3>3. Archived(j) \subseteq plan.writes[j]
      BY <1>0, PlanTyped DEF Archived
    <3>4. \A y \in DOMAIN store : y.job \in Jobs
      BY DEF ArchiveInv, ArchivesOwn
    <3>5. Removed' = Removed /\ \A k \in Jobs : Hermetic(k)' <=> Hermetic(k)
      BY <1>0, PlansStayHermetic
    <3>6. ASSUME Hermetic(j), x \notin B
          PROVE  x \in DOMAIN V /\ \A f \in Archived(j) \ Removed : val[f] = V[x]
      <4>1. FilesRight(j, V)
        BY <1>0, <3>2, <3>6 DEF JobRight, PrintRight, Good
      <4>. QED  BY <3>3, <4>1 DEF FilesRight
    <3>7. ASSUME NEW y \in DOMAIN store', Hermetic(y.job)', y \notin B
          PROVE  y \in DOMAIN V /\ \A f \in (DOMAIN store'[y]) \ Removed' : store'[y][f] = V[y]
      <4>1. CASE y = x
        <5>1. store'[y] = [f \in Archived(j) |-> val[f]]
          BY <3>1, <4>1
        <5>2. Hermetic(j)
          BY <3>2, <3>5, <3>7, <4>1
        <5>. QED  BY <3>5, <3>6, <3>7, <4>1, <5>1, <5>2
      <4>2. CASE y # x
        <5>1. y \in DOMAIN store /\ store'[y] = store[y]
          BY <3>1, <4>2
        <5>. QED  BY <1>0, <3>4, <3>5, <3>7, <5>1 DEF ArchivesRight
      <4>. QED  BY <4>1, <4>2
    <3>. QED  BY <3>7 DEF ArchivesRight
  <2>. QED  BY <2>1, <2>2
<1>. QED  BY <1>0, <1>4, <1>7, <1>8, StepRight

(* An edit outdates the fingerprints of the jobs that have not read yet    *)
(* what it changes.                                                        *)
LEMMA EditRight ==
  ASSUME ArchiveInv, RunFacts, SourcesRight, NEW V, NEW W, NEW B, AllRight(V, W, B),
         NEW g \in Files, EditSource(g)
  PROVE  SourcesRight' /\ \E B2 : AllRight(V, W, B2)'
<1>. USE DEF runVars, userVars, treeVars, jobVars
<1>0. /\ Typed /\ PrintsOwn /\ Right(V, W) /\ Outdated(B) /\ ArchivesRight(V, B)
      /\ \A k \in Jobs : JobRight(k, V, W, B)
      /\ UNCHANGED <<plan, store, pc, fp, took, ok, done, failed, fps, canceled, run, version, used>>
      /\ g \in Sources /\ g \in Files /\ edited' = (run > 0) /\ run \in Nat
      /\ Put([f \in {g} |-> Value(None, stamp[g] + 1, {}, TRUE)]) /\ stamp \in [Files -> Nat]
  BY DEF ArchiveInv, AllRight, Typed, EditSource
<1>1. /\ \A f \in Files \ {g} : val'[f] = val[f] /\ stamp'[f] = stamp[f]
      /\ val'[g] = Value(None, stamp[g] + 1, {}, TRUE) /\ stamp'[g] = stamp[g] + 1 /\ stamp[g] \in Nat
  BY <1>0 DEF Put
<1>2. /\ Removed' = Removed /\ Sources' = Sources /\ Sources \subseteq Files
      /\ \A k \in Jobs : Hermetic(k)' <=> Hermetic(k)
  BY <1>0, PlansStayHermetic DEF Sources
<1>3. SourcesRight'
  BY <1>1, <1>2 DEF SourcesRight, Value
<1>. DEFINE late == {k \in Jobs : /\ Checked(k) /\ Hermetic(k) /\ pc[k] = "begin" /\ fp[k] \notin B
                                 /\ g \in plan.reads[k]}
<1>. PICK B2 : B2 = B \cup {fp[k] : k \in late}
  OBVIOUS
<1>4. Outdated(B2)'
  <2>1. Outdated(B)'
    BY <1>0, OutdatedRemains DEF Next
  <2>2. ASSUME NEW k \in late PROVE \E s \in Nat : <<g, s>> \in fp[k].ins /\ s < stamp'[g]
    <3>1. Current(k)
      BY <1>0 DEF JobRight, PrintRight
    <3>2. <<g, stamp[g]>> \in fp[k].ins
      BY <1>0, <3>1 DEF Current
    <3>3. stamp[g] < stamp'[g]
      BY <1>1
    <3>. QED  BY <1>1, <3>2, <3>3
  <2>3. \A x \in B2 : x.ups \cap B2 # {} \/ \E f \in Sources : \E s \in Nat : <<f, s>> \in x.ins /\ s < stamp'[f]
    <3>. SUFFICES ASSUME NEW x \in B2
                  PROVE  x.ups \cap B2 # {} \/ \E f \in Sources : \E s \in Nat : <<f, s>> \in x.ins /\ s < stamp'[f]
      OBVIOUS
    <3>1. CASE x \in B
      BY <1>2, <2>1, <3>1 DEF Outdated
    <3>2. CASE x \notin B
      <4>1. PICK k \in late : x = fp[k]
        BY <3>2
      <4>. HIDE DEF late
      <4>. QED  BY <1>0, <2>2, <4>1
    <3>. QED  BY <3>1, <3>2
  <2>. QED  BY <1>2, <2>3 DEF Outdated
<1>5. ArchivesRight(V, B2)'
  <2>1. \A x \in DOMAIN store : x.job \in Jobs
    BY DEF ArchiveInv, ArchivesOwn
  <2>. QED  BY <1>0, <1>2, <2>1 DEF ArchivesRight
<1>6. ASSUME NEW k \in Jobs PROVE JobRight(k, V, W, B2)'
  <2>1. ASSUME Checked(k)
        PROVE  /\ Upstreams(k)' = Upstreams(k)
               /\ fp[k].ups \cap B2 # {} => fp[k].ups \cap B # {} \/ fp[k] \in B2
    <3>1. pc[k] # "idle" /\ fp[k].ups = Upstreams(k)
      BY <1>0, <2>1 DEF Checked, JobRight, PrintRight
    <3>2. Upstreams(k)' = Upstreams(k)
      BY <1>0, <3>1, UpstreamsKept
    <3>3. ASSUME NEW l \in late PROVE fp[l] \notin fp[k].ups
      <4>1. fp[l].job = l
        BY <1>0 DEF PrintsOwn, RunFacts, JobFacts, Checked
      <4>2. \A n \in plan.needs[k] : pc[n] \in Late /\ (Declares(n) => fp[n].job = n)
        BY <1>0, <3>1, NeedsChecked
      <4>3. Upstreams(k) = {fp[n] : n \in Telling(k)}
        BY <1>0, <3>1, NeedsChecked
      <4>. QED  BY <3>1, <4>1, <4>2, <4>3 DEF Telling, Late
    <3>. QED  BY <3>2, <3>3
  <2>2. ~ edited' => ~ Checked(k)
    <3>1. \A n \in Nat : ~ (n > 0) => n = 0
      OBVIOUS
    <3>2. ~ edited' => run = 0
      BY <1>0, <3>1
    <3>. QED  BY <3>2 DEF RunFacts, JobFacts, Checked
  <2>3. ASSUME Checked(k), Hermetic(k), pc[k] = "begin", fp[k] \notin B2, NEW f \in plan.reads[k] \cap Sources
        PROVE  stamp'[f] = stamp[f]
    <3>1. f # g
      BY <2>3
    <3>. QED  BY <1>1, <1>2, <3>1
  <2>4. \A f \in plan.writes[k] : val'[f] = val[f]
    <3>1. plan.writes[k] \subseteq Files /\ g \notin plan.writes[k]
      BY <1>0, PlanTyped DEF Sources
    <3>. QED  BY <1>1, <3>1
  <2>5. Untouched(k, B, B2)
    BY <1>0, <2>1, <2>2, <2>3, <2>4 DEF Untouched
  <2>6. JobRight(k, V, W, B) /\ Extends(V, W, V, W)
    BY <1>0 DEF Extends
  <2>. QED  BY <2>5, <2>6, UntouchedRight
<1>7. Right(V, W)'
  BY <1>0, RightKept
<1>8. AllRight(V, W, B2)'
  BY <1>4, <1>5, <1>6, <1>7 DEF AllRight
<1>. QED  BY <1>3, <1>8

LEMMA NewRunRight ==
  ASSUME ArchiveInv, SourcesRight, NEW V, NEW W, NEW B, AllRight(V, W, B), NewRun
  PROVE  SourcesRight' /\ AllRight(V, W, B)'
<1>0. /\ Right(V, W) /\ Outdated(B) /\ ArchivesRight(V, B)
      /\ UNCHANGED <<plan, val, stamp, store>>
      /\ \A k \in Jobs : ~ ok'[k] /\ pc'[k] \in {"idle", "check"}
      /\ \A k \in Jobs : used[k] \subseteq used'[k]
  BY DEF AllRight, NewRun, treeVars
<1>1. Removed' = Removed /\ Sources' = Sources /\ \A k \in Jobs : Hermetic(k)' => Hermetic(k)
  BY <1>0, PlansStay, HermeticBefore DEF ArchiveInv
<1>2. SourcesRight'
  BY <1>0, <1>1 DEF SourcesRight, Value
<1>3. Right(V, W)'
  BY <1>0, RightKept
<1>4. Outdated(B)'
  BY <1>0, <1>1 DEF Outdated
<1>5. ArchivesRight(V, B)'
  <2>1. \A x \in DOMAIN store : x.job \in Jobs
    BY DEF ArchiveInv, ArchivesOwn
  <2>. QED  BY <1>0, <1>1, <2>1 DEF ArchivesRight
<1>6. \A k \in Jobs : JobRight(k, V, W, B)'
  BY <1>0 DEF JobRight, EndRight, Checked
<1>. QED  BY <1>2, <1>3, <1>4, <1>5, <1>6 DEF AllRight

LEMMA StutterRight ==
  ASSUME ArchiveInv, SourcesRight, NEW V, NEW W, NEW B, AllRight(V, W, B), UNCHANGED vars
  PROVE  SourcesRight' /\ AllRight(V, W, B)'
<1>0. /\ Right(V, W) /\ Outdated(B) /\ ArchivesRight(V, B) /\ \A k \in Jobs : JobRight(k, V, W, B)
      /\ UNCHANGED <<plan, val, stamp, store, version, edited, used, pc, fp, took, ok, done, failed, fps>>
  BY DEF AllRight, vars, treeVars, jobVars, runVars, userVars
<1>1. Removed' = Removed /\ Sources' = Sources /\ \A k \in Jobs : Hermetic(k)' <=> Hermetic(k)
  BY <1>0, PlansStayHermetic
<1>2. SourcesRight'
  BY <1>0, <1>1 DEF SourcesRight, Value
<1>3. Right(V, W)'
  BY <1>0, RightKept
<1>4. Outdated(B)'
  BY <1>0, <1>1 DEF Outdated
<1>5. ArchivesRight(V, B)'
  <2>1. \A x \in DOMAIN store : x.job \in Jobs
    BY DEF ArchiveInv, ArchivesOwn
  <2>. QED  BY <1>0, <1>1, <2>1 DEF ArchivesRight
<1>6. ASSUME NEW k \in Jobs PROVE JobRight(k, V, W, B)'
  <2>1. Upstreams(k)' = Upstreams(k)
    BY <1>0 DEF Upstreams, NoPrint
  <2>2. Untouched(k, B, B)
    BY <1>0, <2>1 DEF Untouched
  <2>3. JobRight(k, V, W, B) /\ Extends(V, W, V, W)
    BY <1>0 DEF Extends
  <2>. QED  BY <2>2, <2>3, UntouchedRight
<1>. QED  BY <1>2, <1>3, <1>4, <1>5, <1>6 DEF AllRight

LEMMA NextClean == CleanInv /\ [Next]_vars => CleanInv'
<1>. SUFFICES ASSUME CleanInv, [Next]_vars PROVE CleanInv'
  OBVIOUS
<1>0. ArchiveInv /\ RunFacts /\ SourcesRight /\ ArchiveInv' /\ RunFacts'
  BY NextArchives, NextRunFacts DEF CleanInv, ArchiveInv
<1>. PICK V, W, B : AllRight(V, W, B)
  BY DEF CleanInv
<1>1. ASSUME NEW j \in Jobs, RunJob(j) PROVE SourcesRight' /\ \E V2, W2, B2 : AllRight(V2, W2, B2)'
  <2>1. SourcesRight'
    <3>1. Removed' = Removed /\ Sources' = Sources
      BY <1>1, StepsOfJobs, <1>0, PlansStayHermetic
    <3>2. \A f \in Sources \ Removed : val'[f] = val[f] /\ stamp'[f] = stamp[f]
      BY <1>0, <1>1, SourcesKept
    <3>. QED  BY <1>0, <3>1, <3>2 DEF SourcesRight, Value
  <2>2. CASE Check(j)
    BY <1>0, <2>1, <2>2, CheckRight
  <2>3. CASE Succeed(j)
    BY <1>0, <2>1, <2>3, SucceedRight
  <2>4. CASE Restore(j)
    BY <1>0, <2>1, <2>4, RestoreRight
  <2>5. CASE Begin(j)
    BY <1>0, <2>1, <2>5, BeginRight
  <2>6. CASE Fail(j)
    BY <1>0, <2>1, <2>6, FailRight
  <2>7. CASE PublishResumed(j) \/ Publish(j) \/ Mark(j) \/ CleanAfter(j) \/ LaunchNext(j)
    BY <1>0, <2>1, <2>7, EndsRight
  <2>. QED  BY <1>1, <2>2, <2>3, <2>4, <2>5, <2>6, <2>7 DEF RunJob
<1>2. ASSUME NEW f \in Files, EditSource(f) PROVE SourcesRight' /\ \E B2 : AllRight(V, W, B2)'
  BY <1>0, <1>2, EditRight
<1>3. ASSUME NewRun PROVE SourcesRight' /\ AllRight(V, W, B)'
  BY <1>0, <1>3, NewRunRight
<1>4. ASSUME UNCHANGED vars PROVE SourcesRight' /\ AllRight(V, W, B)'
  BY <1>0, <1>4, StutterRight
<1>5. /\ SourcesRight'
      /\ \E V2, W2, B2 : AllRight(V2, W2, B2)'
  <2>1. CASE \E j \in Jobs : RunJob(j)
    BY <1>1, <2>1
  <2>2. CASE \E f \in Files : EditSource(f)
    BY <1>2, <2>2
  <2>3. CASE NewRun
    BY <1>3, <2>3
  <2>4. CASE UNCHANGED vars
    BY <1>4, <2>4
  <2>. QED  BY <2>1, <2>2, <2>3, <2>4 DEF Next, Elsewhere
<1>. QED  BY <1>0, <1>5 DEF CleanInv

(* What a run from scratch would write is what its definition says: jobs   *)
(* are added to those that it is found for, one after the other.           *)
Heard(j, F, n) ==
  {<<x, F[n]>> : x \in (plan.reads[j] \cap plan.writes[n]) \cup (plan.hears[j] \cap {n})}
Scratch(j, F) ==
  Value(j, version[j],
        {<<f, val[f]>> : f \in plan.reads[j] \cap Sources} \cup UNION {Heard(j, F, n) : n \in Upstream[j] \ {j}},
        TRUE)

Built(S, F) == (\A j \in S : Upstream[j] \subseteq S) /\ \A j \in S : F[j] = Scratch(j, F)

LEMMA ScratchDepends ==
  ASSUME NEW j, NEW F, NEW G, \A n \in Upstream[j] \ {j} : F[n] = G[n]
  PROVE  Scratch(j, F) = Scratch(j, G)
<1>1. \A n \in Upstream[j] \ {j} : Heard(j, F, n) = Heard(j, G, n)
  BY DEF Heard
<1>2. {Heard(j, F, n) : n \in Upstream[j] \ {j}} = {Heard(j, G, n) : n \in Upstream[j] \ {j}}
  BY <1>1
<1>. QED  BY <1>2 DEF Scratch

LEMMA LeastUpstream ==
  ASSUME Typed, NEW T \in SUBSET Jobs, T # {}
  PROVE  \E k \in T : (Upstream[k] \ {k}) \cap T = {}
<1>0. \A k \in Jobs : Upstream[k] = {k} \cup UNION {Upstream[n] : n \in plan.needs[k]} /\ plan.needs[k] \subseteq Jobs
  BY UpstreamUnfolds, PlanTyped
<1>. DEFINE R == {k \in Jobs : Upstream[k] \cap T # {}}
<1>1. R # {}
  BY <1>0
<1>2. PICK k \in R : plan.needs[k] \cap R = {}
  BY <1>1, LeastJob
<1>3. \A n \in plan.needs[k] : Upstream[n] \cap T = {}
  BY <1>0, <1>2
<1>. QED  BY <1>0, <1>2, <1>3

LEMMA BuiltAgree ==
  ASSUME Typed, NEW S \in SUBSET Jobs, NEW F, Built(S, F), NEW S2, NEW F2, Built(S2, F2),
         NEW j \in S \cap S2
  PROVE  F[j] = F2[j]
<1>. DEFINE T == {k \in S \cap S2 : F[k] # F2[k]}
<1>1. ASSUME T # {} PROVE FALSE
  <2>1. PICK k \in T : (Upstream[k] \ {k}) \cap T = {}
    BY <1>1, LeastUpstream
  <2>2. \A n \in Upstream[k] \ {k} : F[n] = F2[n]
    BY <2>1 DEF Built
  <2>3. Scratch(k, F) = Scratch(k, F2)
    BY <2>2, ScratchDepends
  <2>. QED  BY <2>1, <2>3 DEF Built
<1>. QED  BY <1>1

LEMMA CleanBuildUnfolds ==
  ASSUME Typed, NEW j \in Jobs
  PROVE  CleanBuild[j] = Scratch(j, CleanBuild)
<1>. DEFINE Has(k, S, F) == S \in SUBSET Jobs /\ Built(S, F) /\ k \in S
            C == {k \in Jobs : \E S, F : Has(k, S, F)}
            Of(k) == CHOOSE F : \E S : Has(k, S, F)
            G == [k \in C |-> Of(k)[k]]
<1>0. \A k \in Jobs : Upstream[k] \subseteq Jobs /\ k \in Upstream[k]
                     /\ \A n \in Upstream[k] : Upstream[n] \subseteq Upstream[k]
  BY UpstreamFacts
<1>1. ASSUME NEW k \in C PROVE \E S : Has(k, S, Of(k))
  OBVIOUS
<1>2. ASSUME NEW k \in Jobs, NEW S, NEW F, Has(k, S, F) PROVE k \in C /\ G[k] = F[k]
  <2>1. k \in C
    BY <1>2
  <2>2. PICK R : Has(k, R, Of(k))
    BY <1>1, <2>1
  <2>. HIDE DEF Of
  <2>3. Of(k)[k] = F[k]
    BY <1>2, <2>2, BuiltAgree
  <2>. HIDE DEF C
  <2>. QED  BY <2>1, <2>3
<1>3. ASSUME NEW k \in C PROVE Upstream[k] \subseteq C /\ G[k] = Scratch(k, G)
  <2>1. PICK S, F : Has(k, S, F)
    OBVIOUS
  <2>. HIDE DEF C, G
  <2>2. k \in S /\ S \subseteq Jobs /\ Upstream[k] \subseteq S /\ F[k] = Scratch(k, F)
    BY <2>1 DEF Built
  <2>3. \A n \in S : n \in C /\ G[n] = F[n]
    BY <1>2, <2>1, <2>2
  <2>4. Scratch(k, G) = Scratch(k, F)
    BY <2>2, <2>3, ScratchDepends
  <2>. QED  BY <2>2, <2>3, <2>4
<1>4. C = Jobs
  <2>1. SUFFICES ASSUME Jobs \ C # {} PROVE FALSE
    OBVIOUS
  <2>2. PICK k \in Jobs \ C : (Upstream[k] \ {k}) \cap (Jobs \ C) = {}
    BY <2>1, LeastUpstream
  <2>. HIDE DEF C
  <2>3. Upstream[k] \ {k} \subseteq C /\ C \subseteq Jobs
    BY <1>0, <2>2 DEF C
  <2>. PICK S, F : S = C \cup {k} /\ F = [n \in S |-> IF n = k THEN Scratch(k, G) ELSE G[n]]
    OBVIOUS
  <2>. HIDE DEF G
  <2>4. ASSUME NEW n \in S PROVE Upstream[n] \subseteq S /\ F[n] = Scratch(n, F)
    <3>1. CASE n = k
      <4>1. Upstream[n] \subseteq S
        BY <2>3, <3>1
      <4>2. \A m \in Upstream[n] \ {n} : F[m] = G[m]
        BY <2>3, <3>1
      <4>3. Scratch(n, F) = Scratch(n, G)
        BY <4>2, ScratchDepends
      <4>. QED  BY <3>1, <4>1, <4>3
    <3>2. CASE n # k
      <4>1. n \in C
        BY <3>2
      <4>2. Upstream[n] \subseteq C /\ G[n] = Scratch(n, G)
        BY <1>3, <4>1
      <4>3. \A m \in Upstream[n] \ {n} : F[m] = G[m]
        BY <2>2, <4>2
      <4>4. Scratch(n, F) = Scratch(n, G)
        BY <4>3, ScratchDepends
      <4>. QED  BY <3>2, <4>1, <4>2, <4>4
    <3>. QED  BY <3>1, <3>2
  <2>5. Has(k, S, F)
    <3>1. S \in SUBSET Jobs /\ k \in S
      BY <2>3
    <3>. QED  BY <2>4, <3>1 DEF Built
  <2>6. k \in C
    BY <1>2, <2>5
  <2>. QED  BY <2>2, <2>6
<1>5. G = [k \in Jobs |-> Scratch(k, G)]
  <2>1. \A k \in Jobs : G[k] = Scratch(k, G)
    <3>. HIDE DEF C, G
    <3>. QED  BY <1>3, <1>4
  <2>2. G = [k \in Jobs |-> G[k]]
    BY <1>4
  <2>. HIDE DEF G
  <2>. QED  BY <2>1, <2>2
<1>. HIDE DEF G
<1>6. \E F : F = [k \in Jobs |-> Scratch(k, F)]
  BY <1>5
<1>7. CleanBuild = [k \in Jobs |-> Scratch(k, CleanBuild)]
  BY <1>6 DEF CleanBuild, Scratch, Heard
<1>. QED  BY <1>7

(* What a fingerprint says that a job should have written is what a run    *)
(* from scratch writes, if it is of this run, and nothing was edited.      *)
LEMMA RightIsClean ==
  ASSUME ArchiveInv, RunFacts, SourcesRight, NEW V, NEW W, NEW B, AllRight(V, W, B), ~ edited,
         NEW j \in Jobs, Checked(j), Hermetic(j), fp[j] \in DOMAIN V
  PROVE  V[fp[j]] = CleanBuild[j]
<1>0. Typed /\ PrintsOwn /\ Right(V, W) /\ \A k \in Jobs : JobRight(k, V, W, B)
  BY DEF ArchiveInv, AllRight
<1>. DEFINE T == {k \in Jobs : Checked(k) /\ Hermetic(k) /\ fp[k] \in DOMAIN V /\ V[fp[k]] # CleanBuild[k]}
<1>1. ASSUME T # {} PROVE FALSE
  <2>1. PICK k \in T : (Upstream[k] \ {k}) \cap T = {}
    BY <1>0, <1>1, LeastUpstream
  <2>2. k \in Jobs /\ Checked(k) /\ Hermetic(k) /\ fp[k] \in DOMAIN V /\ V[fp[k]] # CleanBuild[k]
    BY <2>1
  <2>3. PrintRight(k, V, W, B)
    BY <1>0, <2>2 DEF JobRight
  <2>4. fp[k] \notin B /\ Current(k) /\ fp[k].def = version[k].hashed
    BY <2>2, <2>3 DEF PrintRight
  <2>5. fp[k].job = k
    BY <1>0, <2>2 DEF PrintsOwn, RunFacts, JobFacts, Checked
  <2>6. From(fp[k], V, W) = {<<f, val[f]>> : f \in plan.reads[k]}
    BY <2>2, <2>4, ReadsRight
  <2>7. V[fp[k]] = Value(k, version[k], {<<f, val[f]>> : f \in plan.reads[k]}, TRUE)
    <3>1. PICK v : Meant(fp[k], v) /\ V[fp[k]] = RightValue(fp[k], v, V, W)
      BY <1>0, <2>2 DEF Right
    <3>2. run # 0
      BY <2>2 DEF RunFacts, JobFacts, Checked
    <3>3. version[k] \in used[k] /\ Told(k)
      BY <1>0, <2>2, <3>2, HermeticFacts DEF Typed
    <3>4. v = version[k]
      BY <2>4, <2>5, <3>1, <3>3 DEF Meant, Told
    <3>. QED  BY <2>5, <2>6, <3>1, <3>4 DEF RightValue
  <2>8. /\ \A n \in Known[k] : KnownOk(n, V, B) /\ Hermetic(n) /\ n \in Jobs /\ n \in Upstream[k] \ {k}
        /\ Tracked(k)
    BY <1>0, <2>2, <2>4, KnownRight, KnownFacts, HermeticFacts
  <2>9. ASSUME NEW n \in Known[k], NEW f \in plan.reads[k] \cap plan.writes[n] PROVE val[f] = CleanBuild[n]
    <3>1. f \notin Removed
      BY <2>8 DEF Tracked
    <3>2. fp[n] \in DOMAIN V /\ val[f] = V[fp[n]] /\ Checked(n)
      BY <2>8, <3>1 DEF KnownOk, FilesRight
    <3>. QED  BY <2>1, <2>8, <3>2
  <2>10. \A f \in plan.reads[k] \ Sources : \E n \in Known[k] : f \in plan.writes[n]
    BY <2>8 DEF Tracked
  <2>11. ASSUME NEW n \in Upstream[k] \ {k}, NEW f \in plan.reads[k] \cap plan.writes[n] PROVE n \in Known[k]
    <3>1. n \in Jobs /\ Private(n)
      BY <1>0, <2>2, <2>11, HermeticFacts, UpstreamFacts
    <3>2. f \notin Sources
      BY <3>1 DEF Sources
    <3>3. PICK m \in Known[k] : f \in plan.writes[m]
      BY <2>10, <3>2
    <3>4. m = n
      BY <2>8, <3>1, <3>3 DEF Private
    <3>. QED  BY <3>3, <3>4
  <2>12. {<<f, val[f]>> : f \in plan.reads[k]}
         = {<<f, val[f]>> : f \in plan.reads[k] \cap Sources}
             \cup UNION {Heard(k, CleanBuild, n) : n \in Upstream[k] \ {k}}
    <3>0. \A n : Heard(k, CleanBuild, n) = {<<f, CleanBuild[n]>> : f \in plan.reads[k] \cap plan.writes[n]}
      BY <2>8 DEF Heard, Tracked
    <3>1. ASSUME NEW f \in plan.reads[k] \ Sources
          PROVE  \E n \in Upstream[k] \ {k} : f \in plan.writes[n] /\ val[f] = CleanBuild[n]
      <4>1. PICK n \in Known[k] : f \in plan.writes[n]
        BY <2>10
      <4>. QED  BY <2>8, <2>9, <4>1
    <3>2. ASSUME NEW n \in Upstream[k] \ {k}, NEW f \in plan.reads[k] \cap plan.writes[n]
          PROVE  val[f] = CleanBuild[n]
      BY <2>9, <2>11
    <3>. QED  BY <3>0, <3>1, <3>2
  <2>13. CleanBuild[k] = Scratch(k, CleanBuild)
    BY <1>0, <2>2, CleanBuildUnfolds
  <2>. QED  BY <2>2, <2>7, <2>12, <2>13 DEF Scratch
<1>. QED  BY <1>1

(* A run that ends well, and during which nothing was edited, has left     *)
(* what a run from scratch would have written, for every job all of whose  *)
(* needs declare their files, have them for themselves, read nothing that  *)
(* their fingerprints do not tell and no values of other jobs, and were    *)
(* changed only in what is hashed of them: whatever was edited, resumed,   *)
(* failed or killed before, in any number of runs.                         *)
THEOREM IncrementalBuildsAreClean == Spec => []IncrementalIsClean
<1>1. CleanInv => IncrementalIsClean
  <2>. SUFFICES ASSUME CleanInv, ~ edited, done = Jobs, failed = {},
                       NEW j \in Jobs, Hermetic(j), j \in plan.tolerant => ok[j],
                       NEW f \in plan.outs[j] \ plan.clean[j]
                PROVE  val[f] = CleanBuild[j]
    BY DEF IncrementalIsClean
  <2>0. ArchiveInv /\ RunFacts /\ SourcesRight /\ Typed
    BY DEF CleanInv, ArchiveInv
  <2>. PICK V, W, B : AllRight(V, W, B)
    BY DEF CleanInv
  <2>1. Declares(j)
    BY DEF Declares
  <2>2. Checked(j)
    <3>1. pc[j] \in Late
      BY <2>0 DEF RunFacts, JobFacts
    <3>. QED  BY <2>1, <3>1 DEF Checked, Late
  <2>3. Good(j)
    BY DEF Good
  <2>4. FilesRight(j, V)
    BY <2>2, <2>3 DEF AllRight, JobRight, PrintRight
  <2>5. f \in plan.writes[j] \ Removed
    <3>1. Private(j) /\ f \in plan.writes[j]
      BY <2>0, HermeticFacts, PlanTyped
    <3>. QED  BY <3>1 DEF Private, Removed
  <2>6. V[fp[j]] = CleanBuild[j]
    BY <2>0, <2>2, <2>4, RightIsClean DEF FilesRight
  <2>. QED  BY <2>4, <2>5, <2>6 DEF FilesRight
<1>. QED  BY <1>1, InitClean, NextClean, PTL DEF Spec

=============================================================================
