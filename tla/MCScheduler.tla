----------------------------- MODULE MCScheduler -----------------------------
(***************************************************************************)
(* Small plans to run the scheduler on.  The definition order of a plan is *)
(* a sequence of jobs, its needs are listed for the jobs that have some,   *)
(* and everything else is given by exception.                              *)
(***************************************************************************)
EXTENDS Scheduler, TLC

CONSTANTS a, b, c, d

MCJobs == {a, b, c, d}

NoCond == [kind |-> "none", job |-> a, is |-> "success"]
NoConds == [j \in Jobs |-> NoCond]
If(k) == [NoCond EXCEPT !.kind = k]
IfResult(j, r) == [kind |-> "result", job |-> j, is |-> r]
IfOutput(j) == [NoCond EXCEPT !.kind = "output", !.job = j]

(* The plan of the jobs in order, with needs given for some of them.       *)
Plain(order, given) ==
  LET ids == {order[i] : i \in DOMAIN order}
  IN  [jobs |-> ids,
       pos |-> [j \in Jobs |-> IF j \in ids THEN CHOOSE i \in DOMAIN order : order[i] = j
                                            ELSE 0],
       needs |-> [j \in Jobs |-> IF j \in DOMAIN given THEN given[j] ELSE <<>>],
       only |-> Jobs, tolerant |-> {}, resumable |-> {}, sidecars |-> {},
       secrets |-> {}, writers |-> {}, cond |-> [j \in Jobs |-> NoCond]]

(* Two independent roots, a join, and a last job: one failure cancels the  *)
(* run while the other root is under way.                                  *)
Join == [Plain(<<a, b, c, d>>, c :> <<a, b>> @@ d :> <<c>>) EXCEPT !.tolerant = {b}]

(* The same graph with every need defined after the job that has it.       *)
Backwards == Plain(<<d, c, b, a>>, c :> <<a, b>> @@ d :> <<c>>)

(* Resumable jobs that write outputs, and conditions that read them.       *)
DataFlow ==
  [Plain(<<a, b, c>>, b :> <<a>> @@ c :> <<a, b>>) EXCEPT
     !.resumable = {a, b}, !.writers = {a, b},
     !.cond = [NoConds EXCEPT ![b] = IfOutput(a), ![c] = IfResult(b, "skipped")]]

(* Every way for the set-up of a job to fail, beside an independent job.   *)
SetupFailures ==
  [Plain(<<a, b, c>>, c :> <<b>>) EXCEPT
     !.sidecars = {a}, !.secrets = {a, c}, !.tolerant = {a},
     !.cond = [NoConds EXCEPT ![b] = If("invalid"), ![c] = If("success")]]

(* A job that runs on failure() races the job whose failure it looks for.  *)
OnFailure ==
  [Plain(<<a, b, c>>, c :> <<b>>) EXCEPT
     !.tolerant = {b},
     !.cond = [NoConds EXCEPT ![b] = If("failure"), ![c] = IfResult(b, "failure")]]

(* --changed or a job selection: needs that are not in it do not count.    *)
Selected ==
  [Plain(<<a, b, c>>, b :> <<a>> @@ c :> <<a, b>>) EXCEPT !.only = {b, c}]

(* A plan nobody validated: a cycle, and a need that no job satisfies.     *)
Unvalidated == Plain(<<a, b, c>>, a :> <<b>> @@ b :> <<a>> @@ c :> <<d>>)

(* Four jobs at once for fewer slots, one of each kind.                    *)
Wide ==
  [Plain(<<a, b, c, d>>, d :> <<a>>) EXCEPT
     !.tolerant = {b}, !.resumable = {a, c}, !.sidecars = {c}, !.writers = {a},
     !.secrets = {d}, !.cond = [NoConds EXCEPT ![c] = If("success"), ![d] = IfOutput(a)]]

(* Every graph of three jobs, well-formed or not: each job needs any of    *)
(* the others, in any order, and one of the three may fail without harm.   *)
NeedsOf(j) == {<<>>} \cup {<<k>> : k \in {a, b, c} \ {j}}
                    \cup {s \in ({a, b, c} \ {j}) \X ({a, b, c} \ {j}) : s[1] # s[2]}
Shapes ==
  {[Plain(<<a, b, c>>, a :> na @@ b :> nb @@ c :> nc) EXCEPT !.tolerant = t] :
     na \in NeedsOf(a), nb \in NeedsOf(b), nc \in NeedsOf(c), t \in {{}, {a}}}

MCPlans ==
  {Join, Backwards, DataFlow, SetupFailures, OnFailure, Selected, Unvalidated, Wide}
    \cup Shapes

(* The plan that shows each disagreement with the documents.               *)
BackwardsOnly == {Backwards}
DataFlowOnly == {DataFlow}
SetupFailuresOnly == {SetupFailures}

==============================================================================
