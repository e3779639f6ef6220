----------------------------- MODULE MCLogPipe -----------------------------
(***************************************************************************)
(* Two steps that run in parallel, one of which may leave a child in the   *)
(* background.  A tail of two lines, a pipe of the kernel that one piece   *)
(* fills, and a Scanner whose buffer three pieces fill.                    *)
(***************************************************************************)
EXTENDS LogPipe, TLC

CONSTANTS build, test

Scripts_(A, B) == {build :> x @@ test :> y : x \in A, y \in B}

MCScripts ==
  Scripts_({<<TRUE, TRUE, FALSE>>, <<FALSE, TRUE>>},
           {<<TRUE>>, <<FALSE>>})
  \cup Scripts_({<<>>}, {<<FALSE, FALSE, FALSE>>})   \* fills it, and no more

(* A line of more than 1 MiB.                                              *)
LongLine == Scripts_({<<FALSE, FALSE, FALSE, TRUE>>}, {<<TRUE>>})

=============================================================================
