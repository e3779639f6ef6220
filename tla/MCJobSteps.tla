----------------------------- MODULE MCJobSteps -----------------------------
(***************************************************************************)
(* Small jobs to run the steps of.  h and k are handlers.                  *)
(***************************************************************************)
EXTENDS JobSteps, TLC

CONSTANTS a, b, c, h, k

MCSteps == {a, b, c, h, k}

ForAll(x) == [s \in Steps |-> x]

(* Steps in order, with everything else given by exception.                *)
Plain(order) ==
  [order |-> order, needs |-> ForAll(<<>>), handlers |-> ForAll(<<>>), tolerant |-> {},
   retries |-> ForAll(0), patient |-> {}, timed |-> {}, cached |-> {}, writers |-> {},
   cond |-> ForAll("none"), deadline |-> FALSE, container |-> FALSE]

(* Retries with and without a delay, a deadline for the job and for a step.*)
Retrying ==
  [Plain(<<a, b>>) EXCEPT !.retries = [ForAll(0) EXCEPT ![a] = 2, ![b] = 1], !.patient = {a},
     !.timed = {b}, !.tolerant = {a}, !.writers = {a}, !.deadline = TRUE]

(* Handlers that fail, that have handlers and that write outputs.          *)
Handled ==
  [Plain(<<a, b>>) EXCEPT !.handlers = [ForAll(<<>>) EXCEPT ![a] = <<h, k>>, ![h] = <<c>>],
     !.tolerant = {h}, !.writers = {a, h}]

(* Conditions of every kind, and a cache.                                  *)
Conditional ==
  [Plain(<<a, b, c, h, k>>) EXCEPT !.cached = {a, b}, !.writers = {a},
     !.cond = (b :> "output" @@ c :> "success" @@ h :> "failure" @@ k :> "invalid" @@ a :> "none")]

(* A diamond whose branches write outputs in parallel.                     *)
Parallel ==
  [Plain(<<a, b, c>>) EXCEPT !.needs = [ForAll(<<>>) EXCEPT ![c] = <<a, b>>], !.writers = {a, b},
     !.cond = [ForAll("none") EXCEPT ![c] = "output"], !.tolerant = {b}]

(* A chain defined backwards, timed, with a handler.                       *)
Backwards ==
  [Plain(<<c, b, a>>) EXCEPT !.needs = [ForAll(<<>>) EXCEPT ![c] = <<b>>, ![b] = <<a>>],
     !.handlers = [ForAll(<<>>) EXCEPT ![a] = <<k>>], !.timed = Steps]

(* Steps that no validator would accept: a cycle.                          *)
Cyclic ==
  [Plain(<<a, b, c>>) EXCEPT !.needs = [ForAll(<<>>) EXCEPT ![a] = <<b>>, ![b] = <<a>>],
     !.retries = [ForAll(0) EXCEPT ![c] = 1]]

MCPlans == {Retrying, Handled, Conditional, Parallel, Backwards, Cyclic}

HandledOnly == {Handled}

(* A step with a timeout of its own, in a container.                       *)
Contained == {[Plain(<<a, b>>) EXCEPT !.timed = {a}, !.container = TRUE]}

=============================================================================
