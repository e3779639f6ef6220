----------------------------- MODULE MCMcpRuns -----------------------------
(***************************************************************************)
(* Background runs of a few of the plans of MCScheduler.  Two of the jobs  *)
(* share a name for their log file, as test/x and test_x would.            *)
(***************************************************************************)
EXTENDS McpRuns, TLC

CONSTANTS a, b, c, d

M == INSTANCE MCScheduler WITH Plans <- {}

MCJobs == {a, b, c, d}

McpPlans == {M!Join, M!SetupFailures, M!OnFailure, M!Unvalidated}
UnvalidatedOnly == {M!Unvalidated}

MCLogName == a :> "a" @@ b :> "b" @@ c :> "cd" @@ d :> "cd"
MCListings == {{a}}

=============================================================================
