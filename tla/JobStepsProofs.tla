--------------------------- MODULE JobStepsProofs ---------------------------
(***************************************************************************)
(* Proofs about module JobSteps, for every job whose steps are a forest.   *)
(*                                                                         *)
(* The argument: at any time a step is in one list of one goroutine at     *)
(* most, so what is known of a step in hand, or of one that nobody has     *)
(* come to yet, is not disturbed by what the other goroutines do.  Apart   *)
(* says that; FrameFacts is what is known of the steps of a list, by the   *)
(* place its goroutine is at, and StepFacts what is known of any step.     *)
(***************************************************************************)
EXTENDS JobSteps, SequenceTheorems, TLAPS

------------------------------------------------------------------------------
(* The stacks of the goroutines                                            *)

(* The list that the steps of the i-th frame of a goroutine are from.      *)
Source(g, i) ==
  IF i > 1 THEN plan.handlers[Head(stack[g][i-1].todo)]
  ELSE IF g = Job THEN plan.order
  ELSE <<g>>

StackTyped ==
  /\ stack \in [Goroutines -> Seq(Frames)]
  /\ \A g \in Goroutines : \A i \in 1..Len(stack[g]) :
       /\ stack[g][i].at = "next" \/ stack[g][i].todo # <<>>
       /\ i < Len(stack[g]) => stack[g][i].at = "return"

FromSource ==
  \A g \in Goroutines : \A i \in 1..Len(stack[g]) :
    /\ IsInjective(stack[g][i].todo)
    /\ Range(stack[g][i].todo) \subseteq Range(Source(g, i))

(* Who may have a stack: the job's goroutine when there is no DAG, else    *)
(* those of the steps that a scan has claimed.                             *)
Owners ==
  \A g \in Goroutines : stack[g] # <<>> =>
    /\ main # "start"
    /\ HasNeeds => g \in claimed \cap TopLevel
    /\ ~HasNeeds => g = Job

(* No step is in two frames.                                               *)
Apart ==
  \A g, k \in Goroutines : \A i \in 1..Len(stack[g]), m \in 1..Len(stack[k]) :
    Range(stack[g][i].todo) \cap Range(stack[k][m].todo) # {} => g = k /\ i = m

Shape == StackTyped /\ FromSource /\ Owners /\ Apart

------------------------------------------------------------------------------
(* The plan, sequences and frames                                          *)

LEMMA PlanNested ==
  ASSUME plan \in Plans
  PROVE  /\ plan \in PlanType /\ plan.order \in Seq(Steps)
         /\ IsInjective(plan.order) /\ TopLevel \subseteq Steps
         /\ \A s \in Steps : /\ plan.handlers[s] \in Seq(Steps)
                             /\ IsInjective(plan.handlers[s])
                             /\ Range(plan.handlers[s]) \subseteq Steps
                             /\ Range(plan.handlers[s]) \cap TopLevel = {}
         /\ \A s, t \in Steps : s # t => Range(plan.handlers[s]) \cap Range(plan.handlers[t]) = {}
<1>1. plan \in PlanType
  BY PlansAssumption
<1>2. plan.order \in Seq(Steps) /\ \A s \in Steps : plan.handlers[s] \in Seq(Steps)
  BY <1>1 DEF PlanType
<1>3. TopLevel \subseteq Steps /\ \A s \in Steps : Range(plan.handlers[s]) \subseteq Steps
  BY <1>2, RangeOfSeq DEF TopLevel
<1>. QED  BY <1>1, <1>2, <1>3, NestingAssumption DEF TopLevel

LEMMA HeadAndTail ==
  ASSUME NEW q \in Seq(Steps), q # <<>>, IsInjective(q)
  PROVE  /\ Head(q) \in Range(q) /\ Range(q) \subseteq Steps
         /\ Tail(q) \in Seq(Steps) /\ IsInjective(Tail(q))
         /\ Range(Tail(q)) = Range(q) \ {Head(q)}
<1>1. Len(q) \in Nat /\ Len(q) >= 1 /\ DOMAIN q = 1..Len(q) /\ Head(q) = q[1]
  OBVIOUS
<1>2. /\ Tail(q) \in Seq(Steps) /\ Len(Tail(q)) = Len(q) - 1
      /\ \A i \in 1..Len(Tail(q)) : Tail(q)[i] = q[i+1]
  BY HeadTailProperties
<1>3. DOMAIN Tail(q) = 1..(Len(q) - 1) /\ \A i \in 1..(Len(q) - 1) : Tail(q)[i] = q[i+1]
  BY <1>2
<1>4. IsInjective(Tail(q))
  <2>. SUFFICES ASSUME NEW i \in 1..(Len(q) - 1), NEW k \in 1..(Len(q) - 1), q[i+1] = q[k+1]
                PROVE  i = k
    BY <1>3 DEF IsInjective
  <2>1. i + 1 \in DOMAIN q /\ k + 1 \in DOMAIN q
    BY <1>1
  <2>2. i + 1 = k + 1
    BY <2>1 DEF IsInjective
  <2>. QED  BY <1>1, <2>2
<1>5. ASSUME NEW s \in Range(Tail(q)) PROVE s \in Range(q) /\ s # Head(q)
  <2>1. PICK i \in 1..(Len(q) - 1) : s = q[i+1]
    BY <1>3 DEF Range
  <2>2. i + 1 \in DOMAIN q /\ 1 \in DOMAIN q /\ i + 1 # 1
    BY <1>1
  <2>. QED  BY <1>1, <2>1, <2>2 DEF Range, IsInjective
<1>6. ASSUME NEW s \in Range(q), s # Head(q) PROVE s \in Range(Tail(q))
  <2>1. PICK i \in 1..Len(q) : s = q[i]
    BY <1>1 DEF Range
  <2>2. i - 1 \in 1..(Len(q) - 1) /\ s = q[(i-1)+1]
    BY <1>1, <1>6, <2>1
  <2>. QED  BY <1>3, <2>2 DEF Range
<1>7. Head(q) \in Range(q) /\ Range(q) \subseteq Steps
  BY <1>1, RangeOfSeq DEF Range
<1>. QED  BY <1>2, <1>4, <1>5, <1>6, <1>7

(* A stack with its innermost frame replaced.                              *)
LEMMA ReplacedTop ==
  ASSUME StackTyped, NEW g \in Goroutines, stack[g] # <<>>, NEW f \in Frames,
         NEW r, r = With(g, f)[g]
  PROVE  /\ r \in Seq(Frames) /\ Len(r) = Len(stack[g]) /\ Len(stack[g]) \in Nat
         /\ r[Len(stack[g])] = f
         /\ \A i \in 1..(Len(stack[g]) - 1) : r[i] = stack[g][i]
         /\ With(g, f) = [stack EXCEPT ![g] = r]
<1>. DEFINE q == stack[g]
<1>1. stack \in [Goroutines -> Seq(Frames)] /\ q \in Seq(Frames) /\ q # <<>>
  BY DEF StackTyped
<1>2. r = [q EXCEPT ![Len(q)] = f] /\ With(g, f) = [stack EXCEPT ![g] = r]
  BY <1>1 DEF With
<1>. HIDE DEF q
<1>3. Len(q) \in Nat /\ Len(q) \in 1..Len(q)
  BY <1>1
<1>4. /\ r \in Seq(Frames) /\ Len(r) = Len(q)
      /\ \A j \in 1..Len(q) : r[j] = IF j = Len(q) THEN f ELSE q[j]
  BY <1>1, <1>2, <1>3, ExceptSeq
<1>5. r[Len(q)] = f /\ \A j \in 1..(Len(q) - 1) : r[j] = q[j]
  BY <1>3, <1>4
<1>. QED  BY <1>2, <1>3, <1>4, <1>5 DEF q

LEMMA WithFrame ==
  ASSUME StackTyped, NEW g \in Goroutines, stack[g] # <<>>, NEW f \in Frames, stack' = With(g, f)
  PROVE  /\ stack' \in [Goroutines -> Seq(Frames)]
         /\ Len(stack'[g]) = Len(stack[g])
         /\ stack'[g][Len(stack[g])] = f
         /\ \A i \in 1..(Len(stack[g]) - 1) : stack'[g][i] = stack[g][i]
         /\ \A k \in Goroutines \ {g} : stack'[k] = stack[k]
<1>. PICK r : r = With(g, f)[g]
  OBVIOUS
<1>1. /\ r \in Seq(Frames) /\ Len(r) = Len(stack[g]) /\ r[Len(stack[g])] = f
      /\ \A i \in 1..(Len(stack[g]) - 1) : r[i] = stack[g][i]
      /\ stack' = [stack EXCEPT ![g] = r]
  BY ReplacedTop
<1>2. stack \in [Goroutines -> Seq(Frames)]
  BY DEF StackTyped
<1>. QED  BY <1>1, <1>2

(* A stack without its innermost frame.                                    *)
LEMMA Popped ==
  ASSUME NEW q \in Seq(Frames), q # <<>>
  PROVE  /\ SubSeq(q, 1, Len(q) - 1) \in Seq(Frames)
         /\ Len(SubSeq(q, 1, Len(q) - 1)) = Len(q) - 1
         /\ \A i \in 1..(Len(q) - 1) : SubSeq(q, 1, Len(q) - 1)[i] = q[i]
<1>. DEFINE n == Len(q) - 1
<1>1. n \in Nat /\ \A i \in 1..n : q[i] \in Frames
  OBVIOUS
<1>. HIDE DEF n
<1>2. /\ SubSeq(q, 1, n) \in Seq(Frames)
      /\ Len(SubSeq(q, 1, n)) = IF 1 <= n THEN n - 1 + 1 ELSE 0
      /\ \A i \in 1..(n - 1 + 1) : SubSeq(q, 1, n)[i] = q[1 + i - 1]
  BY <1>1, SubSeqProperties
<1>3. Len(SubSeq(q, 1, n)) = n /\ \A i \in 1..n : SubSeq(q, 1, n)[i] = q[i]
  BY <1>1, <1>2
<1>. QED  BY <1>2, <1>3 DEF n

------------------------------------------------------------------------------
(* What is known of the steps                                              *)

(* Nobody has come to the step yet.                                        *)
Fresh(s) == outcome[s] = "" /\ shown[s] = "none" /\ ran[s] = 0 /\ late[s] = 0 /\ s \notin cut

HandlersFresh(s) == \A h \in Range(plan.handlers[s]) : Fresh(h)

(* In a container the error of a command that its timeout has killed is    *)
(* that of the client: such a step does not know why it was killed.        *)
Blurred(s) == plan.container /\ s \in plan.timed

(* What has been recorded of the step in hand, by the place of its         *)
(* goroutine.                                                              *)
PlaceFacts(f) ==
  LET s == Head(f.todo)
  IN  /\ outcome[s] = ""
      /\ f.at \in {"if", "start"} => Fresh(s) /\ f.tries = 0 /\ f.err = "ok"
      /\ f.at \in {"run", "backoff"} =>
           shown[s] = "started" /\ late[s] = 0 /\ ran[s] + 1 = f.tries
      /\ f.at = "judge" =>
           shown[s] = "started" /\ late[s] <= 1 /\ (late[s] # 0 => jobErr # "") /\ ran[s] = f.tries
      /\ f.at = "backoff" => f.err # "ok"
      /\ f.at \in {"judge", "backoff"} =>
           /\ f.err = "deadline" => s \in cut
           /\ s \in cut => f.err = "deadline" \/ jobErr = "deadline" \/ Blurred(s)
      /\ f.at \in {"parse", "merge", "after"} =>
           IF f.err = "ok" THEN shown[s] \in {"ok", "cached"} ELSE shown[s] \in FailKinds
      /\ f.at = "return" => shown[s] \in FailKinds

FrameFacts(f) ==
  /\ \A s \in Range(f.todo) : (f.at = "next" \/ s # Head(f.todo)) => Fresh(s)
  /\ f.at = "next" => f.tries = 0 /\ f.err = "ok"
  /\ f.at # "next" => PlaceFacts(f)
  /\ f.at \notin {"next", "return"} => HandlersFresh(Head(f.todo))

(* What the properties say of a step.                                      *)
ResultFacts(s) ==
  /\ late[s] <= 1
  /\ outcome[s] # "" => (outcome[s] = "ok" <=> shown[s] \in {"ok", "cached"})
  /\ shown[s] \in FailKinds =>
       /\ s \in cut => shown[s] = "timeout" \/ Blurred(s)
       /\ shown[s] = "timeout" => s \in cut \/ jobErr = "deadline"

StepFacts(s) == ResultFacts(s) /\ (shown[s] \notin FailKinds => HandlersFresh(s))

FramesHold ==
  \A g \in Goroutines : \A i \in 1..Len(stack[g]) : \A f \in Frames :
    f = stack[g][i] => FrameFacts(f)

TopFresh == \A s \in TopLevel : (main = "start" \/ (HasNeeds /\ s \notin claimed)) => Fresh(s)

Facts == FramesHold /\ (\A s \in Steps : StepFacts(s)) /\ TopFresh

(* A handler is in hand only in a frame above that of its step.            *)
LEMMA ParentInHand ==
  ASSUME plan \in Plans, Shape, NEW g \in Goroutines, NEW i \in 1..Len(stack[g]),
         NEW s \in Range(stack[g][i].todo), NEW t \in Steps, s \in Range(plan.handlers[t])
  PROVE  /\ i > 1 /\ i - 1 \in 1..Len(stack[g])
         /\ stack[g][i-1] \in Frames /\ stack[g][i-1].at = "return"
         /\ t = Head(stack[g][i-1].todo) /\ t \in Range(stack[g][i-1].todo)
<1>0. stack[g] \in Seq(Frames) /\ Len(stack[g]) \in Nat /\ stack[g] # <<>>
  BY DEF Shape, StackTyped
<1>1. s \in Range(Source(g, i)) /\ s \notin TopLevel
  BY PlanNested DEF Shape, FromSource
<1>2. i > 1
  <2>. SUFFICES ASSUME ~(i > 1) PROVE FALSE
    OBVIOUS
  <2>1. CASE g = Job
    BY <1>1, <2>1 DEF Source, TopLevel
  <2>2. CASE g # Job
    <3>1. g \in TopLevel
      BY <1>0, <2>2 DEF Shape, Owners
    <3>2. Range(<<g>>) = {g}
      BY DEF Range
    <3>. QED  BY <1>1, <2>2, <3>1, <3>2 DEF Source
  <2>. QED  BY <2>1, <2>2
<1>. DEFINE f == stack[g][i-1]
<1>3. i - 1 \in 1..Len(stack[g]) /\ i - 1 < Len(stack[g])
  BY <1>0, <1>2
<1>4. f \in Frames /\ f.at = "return" /\ f.todo # <<>> /\ IsInjective(f.todo) /\ f.todo \in Seq(Steps)
  <2>1. f \in Frames /\ f.at = "return"
    BY <1>0, <1>3 DEF Shape, StackTyped
  <2>. QED  BY <1>3, <2>1 DEF Shape, StackTyped, FromSource, Frames
<1>5. Head(f.todo) \in Range(f.todo) /\ Head(f.todo) \in Steps
  BY <1>4, HeadAndTail
<1>6. Source(g, i) = plan.handlers[Head(f.todo)]
  BY <1>2 DEF Source
<1>7. t = Head(f.todo)
  BY <1>1, <1>5, <1>6, PlanNested
<1>. QED  BY <1>2, <1>3, <1>4, <1>5, <1>7

(* The steps of a DAG that are in hand have been claimed.                  *)
LEMMA ClaimedInHand ==
  ASSUME plan \in Plans, Shape, HasNeeds, NEW g \in Goroutines, NEW i \in 1..Len(stack[g]),
         NEW s \in Range(stack[g][i].todo), s \in TopLevel
  PROVE  s = g /\ s \in claimed
<1>1. stack[g] \in Seq(Frames) /\ Len(stack[g]) \in Nat /\ stack[g] # <<>>
  BY DEF Shape, StackTyped
<1>2. g \in claimed \cap TopLevel /\ g # Job
  BY <1>1, PlanNested, StepsAssumption DEF Shape, Owners
<1>3. s \in Range(Source(g, i))
  BY DEF Shape, FromSource
<1>4. i = 1
  <2>. SUFFICES ASSUME i > 1 PROVE FALSE
    BY <1>1
  <2>. DEFINE f == stack[g][i-1]
  <2>1. i - 1 \in 1..Len(stack[g]) /\ i - 1 < Len(stack[g])
    BY <1>1
  <2>2. f \in Frames /\ f.at = "return"
    BY <1>1, <2>1 DEF Shape, StackTyped
  <2>3. f.todo \in Seq(Steps) /\ f.todo # <<>> /\ IsInjective(f.todo)
    BY <2>1, <2>2 DEF Shape, StackTyped, FromSource, Frames
  <2>4. Head(f.todo) \in Steps
    BY <2>3, HeadAndTail
  <2>5. s \in Range(plan.handlers[Head(f.todo)])
    BY <1>3 DEF Source
  <2>. QED  BY <2>4, <2>5, PlanNested
<1>5. Source(g, i) = <<g>>
  BY <1>2, <1>4 DEF Source
<1>. QED  BY <1>2, <1>3, <1>5 DEF Range

(* A step that is in a list in hand is in no other; its parent has failed  *)
(* and is waiting for its handlers; and no scan will claim it.             *)
LEMMA SoleOwner ==
  ASSUME plan \in Plans, Shape, Facts, NEW g \in Goroutines, stack[g] # <<>>,
         NEW s \in Range(Top(g).todo)
  PROVE  /\ s \in Steps
         /\ \A k \in Goroutines : \A i \in 1..Len(stack[k]) :
              s \in Range(stack[k][i].todo) => k = g /\ i = Len(stack[g])
         /\ \A t \in Steps : s \in Range(plan.handlers[t]) =>
              /\ shown[t] \in FailKinds
              /\ t \notin Range(Top(g).todo)
              /\ \A k \in Goroutines : \A i \in 1..Len(stack[k]) :
                   t \in Range(stack[k][i].todo) => stack[k][i].at = "return"
         /\ s \in TopLevel => main # "start" /\ (HasNeeds => s \in claimed)
<1>. DEFINE n == Len(stack[g])
<1>0. /\ n \in Nat /\ n >= 1 /\ stack[g] \in Seq(Frames) /\ n \in 1..Len(stack[g])
      /\ Top(g) = stack[g][n] /\ s \in Range(stack[g][n].todo)
      /\ stack[g][n].todo \in Seq(Steps)
  <2>1. stack[g] \in Seq(Frames)
    BY DEF Shape, StackTyped
  <2>2. n \in Nat /\ n >= 1 /\ n \in 1..Len(stack[g]) /\ stack[g][n] \in Frames
    BY <2>1
  <2>. QED  BY <2>1, <2>2 DEF Top, Frames
<1>01. n = Len(stack[g])
  OBVIOUS
<1>. HIDE DEF n
<1>1. s \in Steps
  BY <1>0, RangeOfSeq
<1>2. ASSUME NEW k \in Goroutines, NEW i \in 1..Len(stack[k]), s \in Range(stack[k][i].todo)
      PROVE  k = g /\ i = n
  BY <1>0, <1>2 DEF Shape, Apart
<1>3. s \in Range(Source(g, n)) /\ main # "start"
  BY <1>0 DEF Shape, FromSource, Owners
<1>4. ASSUME NEW t \in Steps, s \in Range(plan.handlers[t])
      PROVE  /\ shown[t] \in FailKinds
             /\ t \notin Range(Top(g).todo)
             /\ \A k \in Goroutines : \A i \in 1..Len(stack[k]) :
                  t \in Range(stack[k][i].todo) => stack[k][i].at = "return"
  <2>. DEFINE f == stack[g][n-1]
  <2>1. /\ n > 1 /\ n - 1 \in 1..Len(stack[g]) /\ f \in Frames /\ f.at = "return"
        /\ t = Head(f.todo) /\ t \in Range(f.todo)
    <3>1. n \in 1..Len(stack[g]) /\ s \in Range(stack[g][n].todo)
      BY <1>0
    <3>. HIDE DEF f
    <3>2. /\ n > 1 /\ n - 1 \in 1..Len(stack[g])
          /\ stack[g][n-1] \in Frames /\ stack[g][n-1].at = "return"
          /\ t = Head(stack[g][n-1].todo) /\ t \in Range(stack[g][n-1].todo)
      BY <1>4, <3>1, ParentInHand, Zenon
    <3>. QED  BY <3>2 DEF f
  <2>8. shown[t] \in FailKinds
    BY <2>1 DEF Facts, FramesHold, FrameFacts, PlaceFacts
  <2>9. ASSUME NEW k \in Goroutines, NEW i \in 1..Len(stack[k]), t \in Range(stack[k][i].todo)
        PROVE  k = g /\ i = n - 1
    BY <2>1, <2>9 DEF Shape, Apart
  <2>10. t \notin Range(Top(g).todo)
    <3>. SUFFICES ASSUME t \in Range(stack[g][n].todo) PROVE FALSE
      BY <1>0
    <3>1. n = n - 1
      BY <1>0, <2>9
    <3>. QED  BY <1>0, <3>1
  <2>. QED  BY <2>1, <2>8, <2>9, <2>10
<1>5. ASSUME s \in TopLevel, HasNeeds PROVE s \in claimed
  BY <1>0, <1>5, ClaimedInHand
<1>. QED  BY <1>01, <1>1, <1>2, <1>3, <1>4, <1>5

------------------------------------------------------------------------------
(* Steps of a goroutine that work on the innermost frame of its stack, or  *)
(* leave it.                                                               *)

Shrinks(g) ==
  /\ stack' \in [Goroutines -> Seq(Frames)]
  /\ \A k \in Goroutines \ {g} : stack'[k] = stack[k]
  /\ Len(stack'[g]) <= Len(stack[g])
  /\ \A i \in 1..Len(stack'[g]) :
       \/ stack'[g][i] = stack[g][i]
       \/ /\ i = Len(stack[g])
          /\ IsInjective(stack'[g][i].todo)
          /\ Range(stack'[g][i].todo) \subseteq Range(stack[g][i].todo)
          /\ stack'[g][i].at = "next" \/ stack'[g][i].todo # <<>>

LEMMA ShrinkShape ==
  ASSUME Shape, NEW g \in Goroutines, Shrinks(g), plan' = plan, main' = main, main # "start",
         claimed \subseteq claimed'
  PROVE  Shape'
<1>. USE DEF Shape
<1>0. HasNeeds' = HasNeeds /\ TopLevel' = TopLevel
  BY DEF HasNeeds, TopLevel
<1>01. /\ \A k \in Goroutines : Len(stack[k]) \in Nat /\ Len(stack'[k]) \in Nat
       /\ \A k \in Goroutines : Len(stack'[k]) <= Len(stack[k])
       /\ \A k \in Goroutines : \A i \in 1..Len(stack'[k]) : i \in 1..Len(stack[k])
  <2>1. \A k \in Goroutines : Len(stack[k]) \in Nat /\ Len(stack'[k]) \in Nat
    BY DEF StackTyped, Shrinks
  <2>2. \A k \in Goroutines : Len(stack'[k]) <= Len(stack[k])
    BY <2>1 DEF Shrinks
  <2>. QED  BY <2>1, <2>2
<1>02. \A k \in Goroutines : \A i \in 1..Len(stack'[k]) :
         Range(stack'[k][i].todo) \subseteq Range(stack[k][i].todo)
  BY DEF Shrinks
<1>03. \A k \in Goroutines : \A i \in 1..Len(stack'[k]) :
         i < Len(stack'[k]) => stack'[k][i] = stack[k][i] /\ i < Len(stack[k])
  BY <1>01 DEF Shrinks
<1>1. StackTyped'
  <2>1. ASSUME NEW k \in Goroutines, NEW i \in 1..Len(stack'[k])
        PROVE  /\ stack'[k][i].at = "next" \/ stack'[k][i].todo # <<>>
               /\ i < Len(stack'[k]) => stack'[k][i].at = "return"
    <3>1. /\ i \in 1..Len(stack[k])
          /\ stack[k][i].at = "next" \/ stack[k][i].todo # <<>>
          /\ i < Len(stack[k]) => stack[k][i].at = "return"
      BY <1>01 DEF StackTyped
    <3>2. stack'[k][i].at = "next" \/ stack'[k][i].todo # <<>>
      BY <3>1 DEF Shrinks
    <3>. QED  BY <1>03, <3>1, <3>2
  <2>. QED  BY <2>1 DEF StackTyped, Shrinks
<1>2. FromSource'
  <2>. SUFFICES ASSUME NEW k \in Goroutines, NEW i \in 1..Len(stack'[k])
                PROVE  /\ IsInjective(stack'[k][i].todo)
                       /\ Range(stack'[k][i].todo) \subseteq Range(Source(k, i)')
    BY DEF FromSource
  <2>1. Source(k, i)' = Source(k, i)
    <3>1. CASE i > 1
      <4>1. i - 1 \in 1..Len(stack'[k]) /\ i - 1 < Len(stack'[k])
        BY <1>01, <3>1
      <4>2. stack'[k][i-1] = stack[k][i-1]
        BY <1>03, <4>1
      <4>. QED  BY <3>1, <4>2 DEF Source
    <3>2. CASE ~(i > 1)
      BY <3>2 DEF Source
    <3>. QED  BY <3>1, <3>2
  <2>2. IsInjective(stack'[k][i].todo)
    BY <1>01 DEF FromSource, Shrinks
  <2>3. Range(stack[k][i].todo) \subseteq Range(Source(k, i))
    BY <1>01 DEF FromSource
  <2>. QED  BY <1>02, <2>1, <2>2, <2>3
<1>3. Owners'
  <2>. SUFFICES ASSUME NEW k \in Goroutines, stack'[k] # <<>>
                PROVE  /\ HasNeeds => k \in claimed' \cap TopLevel
                       /\ ~HasNeeds => k = Job
    BY <1>0 DEF Owners
  <2>1. stack'[k] \in Seq(Frames) /\ stack[k] \in Seq(Frames)
    BY DEF StackTyped, Shrinks
  <2>2. Len(stack'[k]) # 0
    BY <2>1
  <2>3. stack[k] # <<>>
    BY <1>01, <2>1, <2>2
  <2>. QED  BY <2>3 DEF Owners
<1>4. Apart'
  <2>. SUFFICES ASSUME NEW k \in Goroutines, NEW l \in Goroutines,
                       NEW i \in 1..Len(stack'[k]), NEW m \in 1..Len(stack'[l]),
                       Range(stack'[k][i].todo) \cap Range(stack'[l][m].todo) # {}
                PROVE  k = l /\ i = m
    BY DEF Apart
  <2>1. i \in 1..Len(stack[k]) /\ m \in 1..Len(stack[l])
    BY <1>01
  <2>2. Range(stack[k][i].todo) \cap Range(stack[l][m].todo) # {}
    BY <1>02
  <2>. QED  BY <2>1, <2>2 DEF Apart
<1>. QED  BY <1>1, <1>2, <1>3, <1>4

(* Only what is recorded of the steps of D changes.                        *)
OthersSame(D) ==
  \A t \in Steps \ D :
    /\ outcome'[t] = outcome[t] /\ shown'[t] = shown[t]
    /\ ran'[t] = ran[t] /\ late'[t] = late[t]
    /\ t \in cut' <=> t \in cut

LEMMA FrameFactsKept ==
  ASSUME NEW D, OthersSame(D), plan' = plan, jobErr' = jobErr, plan \in Plans,
         NEW f \in Frames, FrameFacts(f), f.at = "next" \/ f.todo # <<>>, IsInjective(f.todo),
         \A s \in Range(f.todo) : s \notin D,
         f.at \notin {"next", "return"} => \A h \in Range(plan.handlers[Head(f.todo)]) : h \notin D
  PROVE  FrameFacts(f)'
<1>1. f.todo \in Seq(Steps) /\ Range(f.todo) \subseteq Steps
  BY RangeOfSeq DEF Frames
<1>2. \A s \in Range(f.todo) : (f.at = "next" \/ s # Head(f.todo)) => Fresh(s)'
  BY <1>1 DEF FrameFacts, Fresh, OthersSame
<1>3. ASSUME f.at # "next" PROVE PlaceFacts(f)'
  <2>1. Head(f.todo) \in Steps /\ Head(f.todo) \notin D
    BY <1>1, <1>3, HeadAndTail
  <2>2. Blurred(Head(f.todo))' = Blurred(Head(f.todo))
    BY DEF Blurred
  <2>3. PlaceFacts(f)
    BY <1>3 DEF FrameFacts
  <2>. QED  BY <2>1, <2>2, <2>3 DEF PlaceFacts, OthersSame, Fresh
<1>4. ASSUME f.at \notin {"next", "return"} PROVE HandlersFresh(Head(f.todo))'
  <2>1. Head(f.todo) \in Steps
    BY <1>1, <1>4, HeadAndTail
  <2>2. \A h \in Range(plan.handlers[Head(f.todo)]) : h \in Steps /\ h \notin D /\ Fresh(h)
    BY <1>4, <2>1, PlanNested DEF FrameFacts, HandlersFresh
  <2>. QED  BY <2>2 DEF HandlersFresh, Fresh, OthersSame
<1>. QED  BY <1>2, <1>3, <1>4 DEF FrameFacts

LEMMA StepFactsKept ==
  ASSUME NEW D, OthersSame(D), plan' = plan, jobErr' = jobErr, plan \in Plans,
         NEW t \in Steps, t \notin D, StepFacts(t),
         shown[t] \notin FailKinds => \A h \in Range(plan.handlers[t]) : h \notin D
  PROVE  StepFacts(t)'
<1>1. ResultFacts(t)'
  BY DEF StepFacts, ResultFacts, OthersSame, Blurred
<1>2. \A h \in Range(plan.handlers[t]) : h \in Steps
  BY PlanNested
<1>. QED  BY <1>1, <1>2 DEF StepFacts, HandlersFresh, Fresh, OthersSame

(* The facts hold after such a step if they do of what it has changed.     *)
LEMMA ShrinkFacts ==
  ASSUME plan \in Plans, Shape, Facts, NEW g \in Goroutines, stack[g] # <<>>, Shrinks(g),
         NEW D \in SUBSET Range(Top(g).todo), OthersSame(D),
         plan' = plan, main' = main, jobErr' = jobErr, claimed \subseteq claimed',
         \A s \in D : StepFacts(s)',
         \A f \in Frames : Len(stack'[g]) = Len(stack[g]) /\ f = stack'[g][Len(stack[g])]
                             => FrameFacts(f)'
  PROVE  Facts'
<1>0. \A s \in D :
         /\ \A k \in Goroutines : \A i \in 1..Len(stack[k]) :
              s \in Range(stack[k][i].todo) => k = g /\ i = Len(stack[g])
         /\ \A t \in Steps : s \in Range(plan.handlers[t]) =>
              /\ shown[t] \in FailKinds
              /\ t \notin D
              /\ \A k \in Goroutines : \A i \in 1..Len(stack[k]) :
                   t \in Range(stack[k][i].todo) => stack[k][i].at = "return"
         /\ s \in TopLevel => main # "start" /\ (HasNeeds => s \in claimed)
  BY SoleOwner
<1>1. \A t \in Steps : StepFacts(t)'
  <2>. SUFFICES ASSUME NEW t \in Steps, t \notin D PROVE StepFacts(t)'
    OBVIOUS
  <2>1. StepFacts(t)
    BY DEF Facts
  <2>2. shown[t] \notin FailKinds => \A h \in Range(plan.handlers[t]) : h \notin D
    BY <1>0
  <2>. QED  BY <2>1, <2>2, StepFactsKept
<1>2. FramesHold'
  <2>. SUFFICES ASSUME NEW k \in Goroutines, NEW i \in 1..Len(stack'[k]), NEW f \in Frames,
                       f = stack'[k][i], ~(k = g /\ i = Len(stack[g]) /\ Len(stack'[g]) = Len(stack[g]))
                PROVE  FrameFacts(f)'
    BY DEF FramesHold
  <2>0. Len(stack[k]) \in Nat /\ Len(stack'[k]) \in Nat /\ Len(stack'[k]) <= Len(stack[k])
    BY DEF Shape, StackTyped, Shrinks
  <2>1. f = stack[k][i] /\ i \in 1..Len(stack[k]) /\ ~(k = g /\ i = Len(stack[g]))
    BY <2>0 DEF Shrinks
  <2>2. FrameFacts(f) /\ (f.at = "next" \/ f.todo # <<>>) /\ IsInjective(f.todo)
    BY <2>1 DEF Facts, FramesHold, Shape, StackTyped, FromSource
  <2>3. \A s \in Range(f.todo) : s \notin D
    BY <1>0, <2>1
  <2>4. ASSUME f.at \notin {"next", "return"}, NEW h \in Range(plan.handlers[Head(f.todo)])
        PROVE  h \notin D
    <3>1. Head(f.todo) \in Range(f.todo) /\ Head(f.todo) \in Steps
      BY <2>2, <2>4, HeadAndTail DEF Frames
    <3>. QED  BY <1>0, <2>1, <2>4, <3>1
  <2>. QED  BY <2>2, <2>3, <2>4, FrameFactsKept
<1>3. TopFresh'
  <2>. SUFFICES ASSUME NEW s \in TopLevel, main = "start" \/ (HasNeeds /\ s \notin claimed')
                PROVE  Fresh(s)'
    BY DEF TopFresh, TopLevel, HasNeeds
  <2>1. s \in Steps /\ s \notin D /\ Fresh(s)
    BY <1>0, PlanNested DEF Facts, TopFresh
  <2>. QED  BY <2>1 DEF Fresh, OthersSame
<1>. QED  BY <1>1, <1>2, <1>3 DEF Facts

(* A step is not among its own handlers.                                   *)
LEMMA HandlersOfHand ==
  ASSUME plan \in Plans, Shape, Facts, NEW g \in Goroutines, stack[g] # <<>>,
         NEW s \in Range(Top(g).todo), OthersSame({s}), plan' = plan, HandlersFresh(s)
  PROVE  HandlersFresh(s)'
<1>1. s \in Steps /\ s \notin Range(plan.handlers[s])
  BY SoleOwner
<1>2. Range(plan.handlers[s]) \subseteq Steps
  BY <1>1, PlanNested
<1>. QED  BY <1>1, <1>2 DEF HandlersFresh, Fresh, OthersSame

(* The innermost frame of a goroutine.                                     *)
LEMMA TopFrame ==
  ASSUME Shape, Facts, NEW g \in Goroutines, stack[g] # <<>>
  PROVE  /\ Top(g) \in Frames /\ Top(g).todo \in Seq(Steps) /\ IsInjective(Top(g).todo)
         /\ Top(g).at = "next" \/ Top(g).todo # <<>>
         /\ FrameFacts(Top(g)) /\ main # "start"
         /\ Len(stack[g]) \in Nat /\ Len(stack[g]) >= 1
<1>1. stack[g] \in Seq(Frames)
  BY DEF Shape, StackTyped
<1>2. Len(stack[g]) \in Nat /\ Len(stack[g]) >= 1 /\ Len(stack[g]) \in 1..Len(stack[g])
      /\ stack[g][Len(stack[g])] \in Frames
  BY <1>1
<1>. QED  BY <1>2 DEF Top, Shape, StackTyped, FromSource, Owners, Facts, FramesHold, Frames

LEMMA WithShrinks ==
  ASSUME Shape, Facts, NEW g \in Goroutines, stack[g] # <<>>, NEW f \in Frames, stack' = With(g, f),
         IsInjective(f.todo), Range(f.todo) \subseteq Range(Top(g).todo),
         f.at = "next" \/ f.todo # <<>>
  PROVE  /\ Shrinks(g) /\ stack'[g][Len(stack[g])] = f
<1>1. /\ stack' \in [Goroutines -> Seq(Frames)]
      /\ Len(stack'[g]) = Len(stack[g])
      /\ stack'[g][Len(stack[g])] = f
      /\ \A i \in 1..(Len(stack[g]) - 1) : stack'[g][i] = stack[g][i]
      /\ \A k \in Goroutines \ {g} : stack'[k] = stack[k]
  BY WithFrame DEF Shape
<1>2. Len(stack[g]) \in Nat
  BY TopFrame
<1>3. \A i \in 1..Len(stack'[g]) : i = Len(stack[g]) \/ i \in 1..(Len(stack[g]) - 1)
  BY <1>1, <1>2
<1>. QED  BY <1>1, <1>2, <1>3 DEF Shrinks, Top

(* The goroutine goes on with the step in hand, or takes up the next one.  *)
LEMMA WorkKeeps ==
  ASSUME plan \in Plans, Shape, Facts, NEW g \in Goroutines, stack[g] # <<>>,
         Top(g).todo # <<>>, Top(g).at # "return",
         NEW f \in Frames, stack' = With(g, f), f.todo = Top(g).todo, f.at \notin {"next", "return"},
         NEW s \in Steps, s = InHand(g), OthersSame({s}),
         plan' = plan, main' = main, jobErr' = jobErr, claimed' = claimed,
         PlaceFacts(f)', ResultFacts(s)'
  PROVE  Shape' /\ Facts'
<1>1. /\ Top(g) \in Frames /\ Top(g).todo \in Seq(Steps) /\ IsInjective(Top(g).todo)
      /\ FrameFacts(Top(g)) /\ main # "start"
  BY TopFrame
<1>2. s \in Range(Top(g).todo) /\ s \in Steps /\ s = Head(f.todo)
  BY <1>1, HeadAndTail DEF InHand
<1>3. Shrinks(g) /\ stack'[g][Len(stack[g])] = f
  BY <1>1, WithShrinks
<1>4. Shape'
  BY <1>1, <1>3, ShrinkShape
<1>5. HandlersFresh(s)
  <2>1. CASE Top(g).at = "next"
    <3>1. Fresh(s) /\ StepFacts(s)
      BY <1>1, <1>2, <2>1 DEF FrameFacts, Facts
    <3>. QED  BY <3>1 DEF Fresh, StepFacts, FailKinds
  <2>2. CASE Top(g).at # "next"
    BY <1>1, <2>2 DEF FrameFacts, InHand
  <2>. QED  BY <2>1, <2>2
<1>6. HandlersFresh(s)'
  BY <1>2, <1>5, HandlersOfHand
<1>7. StepFacts(s)'
  BY <1>6 DEF StepFacts
<1>8. FrameFacts(f)'
  <2>1. \A t \in Range(f.todo) : t # Head(f.todo) => Fresh(t)'
    <3>. SUFFICES ASSUME NEW t \in Range(f.todo), t # s PROVE Fresh(t)'
      BY <1>2
    <3>1. t \in Steps /\ Fresh(t)
      BY <1>1, <1>2, RangeOfSeq DEF FrameFacts
    <3>. QED  BY <3>1 DEF Fresh, OthersSame
  <2>. QED  BY <1>2, <1>6, <2>1 DEF FrameFacts
<1>9. Facts'
  <2>1. {s} \in SUBSET Range(Top(g).todo) /\ OthersSame({s}) /\ \A t \in {s} : StepFacts(t)'
    BY <1>2, <1>7
  <2>2. \A h \in Frames : h = stack'[g][Len(stack[g])] => FrameFacts(h)'
    BY <1>3, <1>8
  <2>. QED  BY <1>3, <2>1, <2>2, ShrinkFacts
<1>. QED  BY <1>4, <1>9

(* The innermost list is left, or the whole stack is.                      *)
Pops(g) ==
  \/ stack' = [stack EXCEPT ![g] = <<>>]
  \/ Len(stack[g]) # 1 /\ stack' = [stack EXCEPT ![g] = SubSeq(@, 1, Len(@) - 1)]

LEMMA PopsShrink ==
  ASSUME Shape, Facts, NEW g \in Goroutines, stack[g] # <<>>, Pops(g)
  PROVE  Shrinks(g) /\ Len(stack'[g]) # Len(stack[g])
<1>1. stack \in [Goroutines -> Seq(Frames)] /\ stack[g] \in Seq(Frames)
      /\ Len(stack[g]) \in Nat /\ Len(stack[g]) >= 1
  BY TopFrame DEF Shape, StackTyped
<1>2. CASE stack' = [stack EXCEPT ![g] = <<>>]
  <2>1. <<>> \in Seq(Frames) /\ Len(<<>>) = 0
    OBVIOUS
  <2>2. /\ stack' \in [Goroutines -> Seq(Frames)] /\ Len(stack'[g]) = 0
        /\ \A k \in Goroutines \ {g} : stack'[k] = stack[k]
    BY <1>1, <1>2, <2>1
  <2>. QED  BY <1>1, <2>2 DEF Shrinks
<1>3. CASE stack' = [stack EXCEPT ![g] = SubSeq(@, 1, Len(@) - 1)]
  <2>. DEFINE q == SubSeq(stack[g], 1, Len(stack[g]) - 1)
  <2>1. /\ q \in Seq(Frames) /\ Len(q) = Len(stack[g]) - 1
        /\ \A i \in 1..(Len(stack[g]) - 1) : q[i] = stack[g][i]
    BY <1>1, Popped
  <2>2. stack' = [stack EXCEPT ![g] = q]
    BY <1>3
  <2>. HIDE DEF q
  <2>3. /\ stack' \in [Goroutines -> Seq(Frames)] /\ stack'[g] = q
        /\ \A k \in Goroutines \ {g} : stack'[k] = stack[k]
    BY <1>1, <2>1, <2>2
  <2>. QED  BY <1>1, <2>1, <2>3 DEF Shrinks
<1>. QED  BY <1>2, <1>3 DEF Pops

(* A list is left whose steps have all been treated.                       *)
LEMMA ListEnds ==
  ASSUME plan \in Plans, Shape, Facts, NEW g \in Goroutines, stack[g] # <<>>, Pops(g),
         plan' = plan, main' = main, jobErr' = jobErr, claimed' = claimed,
         UNCHANGED <<outcome, shown, ran, late, cut>>
  PROVE  Shape' /\ Facts'
<1>1. Shrinks(g) /\ Len(stack'[g]) # Len(stack[g]) /\ main # "start"
  BY PopsShrink, TopFrame
<1>2. OthersSame({})
  BY DEF OthersSame
<1>3. Shape'
  BY <1>1, ShrinkShape
<1>4. Facts'
  <2>1. {} \in SUBSET Range(Top(g).todo) /\ \A s \in {} : StepFacts(s)'
    OBVIOUS
  <2>. QED  BY <1>1, <1>2, <2>1, ShrinkFacts
<1>. QED  BY <1>3, <1>4

(* runJobStep returns, and its caller goes on.                             *)
LEMMA ReturnKeeps ==
  ASSUME plan \in Plans, Shape, Facts, NEW g \in Goroutines, stack[g] # <<>>,
         Top(g).at # "next", NEW result, StepReturns(g, result),
         plan' = plan, main' = main, jobErr' = jobErr,
         UNCHANGED <<shown, ran, late, cut>>, outcome \in [Steps -> Results],
         NEW s \in Steps, s = InHand(g), ResultFacts(s)'
  PROVE  Shape' /\ Facts' /\ claimed' = claimed
<1>. PICK rest : rest = Enter(Tail(Top(g).todo), "next")
  OBVIOUS
<1>1. /\ Top(g) \in Frames /\ Top(g).todo \in Seq(Steps) /\ IsInjective(Top(g).todo)
      /\ Top(g).todo # <<>> /\ FrameFacts(Top(g)) /\ main # "start"
  BY TopFrame
<1>2. s \in Range(Top(g).todo) /\ s \in Steps
  BY <1>1, HeadAndTail DEF InHand
<1>3. claimed' = claimed
  BY DEF StepReturns, GoroutineEnds, dagVars
<1>4. outcome' = [outcome EXCEPT ![s] = result]
  BY DEF StepReturns
<1>5. Pops(g) \/ stack' = With(g, rest)
  BY DEF StepReturns, GoroutineEnds, ListReturns, Pops
<1>6. OthersSame({s})
  BY <1>4 DEF OthersSame
<1>7. StepFacts(s)'
  <2>1. shown[s] \notin FailKinds => HandlersFresh(s)
    BY <1>2 DEF Facts, StepFacts
  <2>2. HandlersFresh(s) => HandlersFresh(s)'
    BY <1>2, <1>6, HandlersOfHand
  <2>. QED  BY <2>1, <2>2 DEF StepFacts
<1>8. {s} \in SUBSET Range(Top(g).todo) /\ \A t \in {s} : StepFacts(t)'
  BY <1>2, <1>7
<1>9. CASE Pops(g)
  <2>1. Shrinks(g) /\ Len(stack'[g]) # Len(stack[g])
    BY <1>9, PopsShrink
  <2>2. Shape'
    BY <1>1, <1>3, <2>1, ShrinkShape
  <2>3. Facts'
    BY <1>3, <1>6, <1>8, <2>1, ShrinkFacts
  <2>. QED  BY <1>3, <2>2, <2>3
<1>10. CASE stack' = With(g, rest)
  <2>1. /\ rest.todo \in Seq(Steps) /\ IsInjective(rest.todo)
        /\ Range(rest.todo) = Range(Top(g).todo) \ {s}
        /\ rest.at = "next" /\ rest.tries = 0 /\ rest.err = "ok"
    BY <1>1, HeadAndTail DEF Enter, InHand
  <2>2. rest \in Frames
    BY <2>1, PlansAssumption DEF Enter, Frames, PlaceNames, ErrorNames
  <2>3. Shrinks(g) /\ stack'[g][Len(stack[g])] = rest
    BY <1>10, <2>1, <2>2, WithShrinks
  <2>4. Shape'
    BY <1>1, <1>3, <2>3, ShrinkShape
  <2>5. FrameFacts(rest)'
    <3>1. \A t \in Range(rest.todo) : t \in Steps /\ t # s /\ Fresh(t)
      BY <1>1, <2>1, RangeOfSeq DEF FrameFacts, InHand
    <3>2. \A t \in Range(rest.todo) : Fresh(t)'
      BY <1>6, <3>1 DEF Fresh, OthersSame
    <3>. QED  BY <2>1, <3>2 DEF FrameFacts
  <2>6. \A h \in Frames : h = stack'[g][Len(stack[g])] => FrameFacts(h)'
    BY <2>3, <2>5
  <2>7. Facts'
    BY <1>3, <1>6, <1>8, <2>3, <2>6, ShrinkFacts
  <2>. QED  BY <1>3, <2>4, <2>7
<1>. QED  BY <1>5, <1>9, <1>10

------------------------------------------------------------------------------
(* Steps that put a list on a stack                                        *)

(* The handlers of the step in hand are entered, above its frame.          *)
Entered(g, ret, new) ==
  /\ stack' \in [Goroutines -> Seq(Frames)]
  /\ Len(stack'[g]) = Len(stack[g]) + 1
  /\ stack'[g][Len(stack[g]) + 1] = new
  /\ stack'[g][Len(stack[g])] = ret
  /\ \A i \in 1..(Len(stack[g]) - 1) : stack'[g][i] = stack[g][i]
  /\ \A k \in Goroutines \ {g} : stack'[k] = stack[k]

LEMMA HandlersEntered ==
  ASSUME StackTyped, NEW g \in Goroutines, stack[g] # <<>>,
         NEW ret \in Frames, NEW new \in Frames,
         NEW r, r = With(g, ret)[g], stack' = [stack EXCEPT ![g] = Append(r, new)]
  PROVE  Entered(g, ret, new)
<1>1. /\ r \in Seq(Frames) /\ Len(r) = Len(stack[g]) /\ Len(stack[g]) \in Nat
      /\ r[Len(stack[g])] = ret
      /\ \A i \in 1..(Len(stack[g]) - 1) : r[i] = stack[g][i]
  BY ReplacedTop
<1>. PICK q : q = Append(r, new)
  OBVIOUS
<1>2. /\ q \in Seq(Frames) /\ Len(q) = Len(r) + 1
      /\ \A i \in 1..Len(r) : q[i] = r[i]
      /\ q[Len(r) + 1] = new
  BY <1>1, AppendProperties
<1>3. stack' = [stack EXCEPT ![g] = q] /\ stack \in [Goroutines -> Seq(Frames)]
  BY DEF StackTyped
<1>4. /\ stack' \in [Goroutines -> Seq(Frames)] /\ stack'[g] = q
      /\ \A k \in Goroutines \ {g} : stack'[k] = stack[k]
  BY <1>2, <1>3
<1>5. stack[g] \in Seq(Frames) /\ Len(stack[g]) >= 1
  BY <1>3
<1>6. q[Len(stack[g])] = ret /\ \A i \in 1..(Len(stack[g]) - 1) : q[i] = stack[g][i]
  BY <1>1, <1>2, <1>5
<1>. QED  BY <1>1, <1>2, <1>4, <1>6 DEF Entered

(* What is on the stacks once n, the top of that of g, has become ret and  *)
(* new is above it: what was there, but for these two.                     *)
AfterEntering(k, i, g, n, ret, new) ==
  \/ k = g /\ i = n + 1 /\ stack'[k][i] = new
  \/ /\ i \in 1..Len(stack[k])
     /\ \/ k = g /\ i = n /\ stack'[k][i] = ret
        \/ stack'[k][i] = stack[k][i] /\ ~(k = g /\ i = n)

LEMMA HandlersKeep ==
  ASSUME plan \in Plans, Shape, Facts, NEW g \in Goroutines, stack[g] # <<>>,
         Top(g).at = "after", Top(g).err # "ok",
         NEW s \in Steps, s = InHand(g), plan.handlers[s] # <<>>,
         NEW ret, ret = [Top(g) EXCEPT !.at = "return"],
         NEW new, new = Enter(plan.handlers[s], "next"),
         NEW r, r = With(g, ret)[g], stack' = [stack EXCEPT ![g] = Append(r, new)],
         UNCHANGED <<plan, main, jobErr, claimed, outcome, shown, ran, late, cut>>
  PROVE  Shape' /\ Facts'
<1>. PICK n : n = Len(stack[g])
  OBVIOUS
<1>1. /\ n \in Nat /\ n >= 1 /\ Top(g) = stack[g][n] /\ Top(g) \in Frames
      /\ Top(g).todo \in Seq(Steps) /\ IsInjective(Top(g).todo) /\ Top(g).todo # <<>>
      /\ FrameFacts(Top(g)) /\ main # "start"
  BY TopFrame DEF Top
<1>2. s \in Range(Top(g).todo) /\ s = Head(Top(g).todo)
  BY <1>1, HeadAndTail DEF InHand
<1>3. ret \in Frames /\ ret.todo = Top(g).todo /\ ret.at = "return"
  BY <1>1 DEF Frames, PlaceNames
<1>4. /\ plan.handlers[s] \in Seq(Steps) /\ IsInjective(plan.handlers[s])
      /\ Range(plan.handlers[s]) \subseteq Steps
      /\ new.todo = plan.handlers[s] /\ new.at = "next" /\ new \in Frames
      /\ new.tries = 0 /\ new.err = "ok"
  BY PlanNested, PlansAssumption DEF Enter, Frames, PlaceNames, ErrorNames
<1>5. /\ stack' \in [Goroutines -> Seq(Frames)]
      /\ Len(stack'[g]) = n + 1
      /\ stack'[g][n + 1] = new
      /\ stack'[g][n] = ret
      /\ \A i \in 1..(n - 1) : stack'[g][i] = stack[g][i]
      /\ \A k \in Goroutines \ {g} : stack'[k] = stack[k]
  <2>1. StackTyped
    BY DEF Shape
  <2>2. Entered(g, ret, new)
    BY <1>3, <1>4, <2>1, HandlersEntered
  <2>. QED  BY <2>2 DEF Entered
<1>6. /\ stack \in [Goroutines -> Seq(Frames)]
      /\ \A k \in Goroutines : Len(stack[k]) \in Nat
      /\ n \in 1..Len(stack[g])
  BY <1>1 DEF Shape, StackTyped
<1>7. ASSUME NEW k \in Goroutines, NEW i \in 1..Len(stack'[k])
      PROVE  AfterEntering(k, i, g, n, ret, new)
  <2>1. CASE k # g
    BY <1>5, <1>6, <2>1 DEF AfterEntering
  <2>2. CASE k = g
    <3>1. i \in 1..(n + 1)
      BY <1>5, <2>2
    <3>2. i \in 1..(n - 1) \/ i = n \/ i = n + 1
      BY <1>1, <3>1
    <3>3. (Len(stack[g]) = n /\ i \in 1..n) \/ i = n + 1
      BY <1>1, <3>1, <3>2
    <3>4. i = n + 1 => stack'[k][i] = new
      BY <1>5, <2>2
    <3>5. i = n => stack'[k][i] = ret
      BY <1>5, <2>2
    <3>6. i \in 1..(n - 1) => stack'[k][i] = stack[k][i]
      BY <1>5, <2>2
    <3>. QED  BY <1>1, <2>2, <3>2, <3>3, <3>4, <3>5, <3>6 DEF AfterEntering
  <2>. QED  BY <2>1, <2>2
<1>8. ASSUME NEW k \in Goroutines, NEW i \in 1..Len(stack'[k]), ~(k = g /\ i = n + 1)
      PROVE  i \in 1..Len(stack[k]) /\ stack'[k][i].todo = stack[k][i].todo
  <2>1. CASE i \in 1..Len(stack[k]) /\ k = g /\ i = n /\ stack'[k][i] = ret
    BY <1>1, <1>3, <2>1
  <2>2. CASE i \in 1..Len(stack[k]) /\ stack'[k][i] = stack[k][i]
    BY <2>2
  <2>3. AfterEntering(k, i, g, n, ret, new)
    BY <1>7
  <2>. QED  BY <1>8, <2>1, <2>2, <2>3 DEF AfterEntering
<1>9. StackTyped'
  <2>. SUFFICES ASSUME NEW k \in Goroutines, NEW i \in 1..Len(stack'[k])
                PROVE  /\ stack'[k][i].at = "next" \/ stack'[k][i].todo # <<>>
                       /\ i < Len(stack'[k]) => stack'[k][i].at = "return"
    BY <1>5 DEF StackTyped
  <2>1. CASE k = g /\ i = n + 1
    BY <1>4, <1>5, <2>1
  <2>2. CASE k = g /\ i = n
    BY <1>1, <1>3, <1>5, <2>2
  <2>3. CASE i \in 1..Len(stack[k]) /\ stack'[k][i] = stack[k][i] /\ ~(k = g /\ i = n)
    <3>1. i < Len(stack'[k]) => i < Len(stack[k])
      <4>1. CASE k = g
        BY <1>1, <2>3, <4>1
      <4>2. CASE k # g
        BY <1>5, <4>2
      <4>. QED  BY <4>1, <4>2
    <3>. QED  BY <2>3, <3>1 DEF Shape, StackTyped
  <2>4. AfterEntering(k, i, g, n, ret, new)
    BY <1>7
  <2>. QED  BY <2>1, <2>2, <2>3, <2>4 DEF AfterEntering
<1>10. FromSource'
  <2>. SUFFICES ASSUME NEW k \in Goroutines, NEW i \in 1..Len(stack'[k])
                PROVE  /\ IsInjective(stack'[k][i].todo)
                       /\ Range(stack'[k][i].todo) \subseteq Range(Source(k, i)')
    BY DEF FromSource
  <2>1. CASE k = g /\ i = n + 1
    <3>1. i > 1 /\ i - 1 = n
      BY <1>1, <2>1
    <3>2. Source(k, i)' = plan.handlers[s]
      <4>1. stack'[k][i-1] = ret
        BY <1>5, <2>1, <3>1
      <4>2. Head(ret.todo) = s
        BY <1>2, <1>3
      <4>. QED  BY <3>1, <4>1, <4>2 DEF Source
    <3>. QED  BY <1>4, <1>5, <2>1, <3>2
  <2>2. CASE ~(k = g /\ i = n + 1)
    <3>1. i \in 1..Len(stack[k]) /\ stack'[k][i].todo = stack[k][i].todo
      BY <1>8, <2>2
    <3>2. Source(k, i)' = Source(k, i)
      <4>1. CASE i > 1
        <5>1. i - 1 \in 1..Len(stack'[k]) /\ ~(k = g /\ i - 1 = n + 1)
          BY <1>1, <1>6, <3>1, <4>1
        <5>2. stack'[k][i-1].todo = stack[k][i-1].todo
          BY <1>8, <5>1
        <5>. QED  BY <4>1, <5>2 DEF Source
      <4>2. CASE ~(i > 1)
        BY <4>2 DEF Source
      <4>. QED  BY <4>1, <4>2
    <3>. QED  BY <3>1, <3>2 DEF Shape, FromSource
  <2>. QED  BY <2>1, <2>2
<1>11. Owners'
  <2>. SUFFICES ASSUME NEW k \in Goroutines, stack'[k] # <<>>
                PROVE  /\ HasNeeds => k \in claimed \cap TopLevel
                       /\ ~HasNeeds => k = Job
    BY <1>1 DEF Owners, HasNeeds, TopLevel
  <2>1. stack[k] # <<>>
    BY <1>5
  <2>. QED  BY <2>1 DEF Shape, Owners
<1>12. ASSUME NEW k \in Goroutines, NEW i \in 1..Len(stack[k]),
              Range(stack[k][i].todo) \cap Range(new.todo) # {}
       PROVE  FALSE
  <2>1. PICK t \in Range(stack[k][i].todo) : t \in Range(plan.handlers[s])
    BY <1>4, <1>12
  <2>2. i > 1 /\ i - 1 \in 1..Len(stack[k]) /\ s \in Range(stack[k][i-1].todo)
    BY <2>1, ParentInHand, Zenon
  <2>3. s \in Range(stack[g][n].todo)
    BY <1>1, <1>2
  <2>4. k = g /\ i - 1 = n
    <3>1. PICK m \in 1..Len(stack[k]) : m = i - 1
      BY <2>2
    <3>2. s \in Range(stack[k][m].todo) \cap Range(stack[g][n].todo)
      BY <2>2, <2>3, <3>1
    <3>3. k = g /\ m = n
      <4>1. Apart /\ k \in Goroutines /\ g \in Goroutines /\ n \in 1..Len(stack[g])
        BY <1>6 DEF Shape
      <4>2. m \in 1..Len(stack[k])
        OBVIOUS
      <4>3. Range(stack[k][m].todo) \cap Range(stack[g][n].todo) # {}
        BY <3>2
      <4>. QED  BY <4>1, <4>2, <4>3, ZenonT(40) DEF Apart
    <3>. QED  BY <3>1, <3>3
  <2>. QED  BY <1>1, <2>2, <2>4
<1>13. Apart'
  <2>. SUFFICES ASSUME NEW k \in Goroutines, NEW l \in Goroutines,
                       NEW i \in 1..Len(stack'[k]), NEW m \in 1..Len(stack'[l]),
                       Range(stack'[k][i].todo) \cap Range(stack'[l][m].todo) # {}
                PROVE  k = l /\ i = m
    BY DEF Apart
  <2>. DEFINE P == k = g /\ i = n + 1
              Q == l = g /\ m = n + 1
  <2>1. CASE P /\ ~Q
    <3>1. m \in 1..Len(stack[l]) /\ Range(stack[l][m].todo) \cap Range(new.todo) # {}
      BY <1>5, <1>8, <2>1
    <3>. QED  BY <1>12, <3>1
  <2>2. CASE ~P /\ Q
    <3>1. i \in 1..Len(stack[k]) /\ Range(stack[k][i].todo) \cap Range(new.todo) # {}
      <4>1. i \in 1..Len(stack[k]) /\ stack'[k][i].todo = stack[k][i].todo
        BY <1>8, <2>2
      <4>2. stack'[l][m] = new
        BY <1>5, <2>2
      <4>. QED  BY <4>1, <4>2
    <3>. QED  BY <1>12, <3>1
  <2>3. CASE ~P /\ ~Q
    <3>1. i \in 1..Len(stack[k]) /\ stack'[k][i].todo = stack[k][i].todo
      BY <1>8, <2>3
    <3>2. m \in 1..Len(stack[l]) /\ stack'[l][m].todo = stack[l][m].todo
      BY <1>8, <2>3
    <3>3. Range(stack[k][i].todo) \cap Range(stack[l][m].todo) # {}
      BY <3>1, <3>2
    <3>4. Apart
      BY DEF Shape
    <3>. HIDE DEF P, Q
    <3>. QED  BY <3>1, <3>2, <3>3, <3>4 DEF Apart
  <2>4. CASE P /\ Q
    BY <2>4
  <2>. HIDE DEF P, Q
  <2>. QED  BY <2>1, <2>2, <2>3, <2>4
<1>14. OthersSame({})
  BY DEF OthersSame
<1>15. HandlersFresh(s) /\ outcome[s] = "" /\ shown[s] \in FailKinds
  <2>1. PlaceFacts(Top(g)) /\ HandlersFresh(s)
    BY <1>1, <1>2 DEF FrameFacts
  <2>2. outcome[s] = ""
    BY <1>2, <2>1 DEF PlaceFacts
  <2>3. shown[s] \in FailKinds
    BY <1>2, <2>1 DEF PlaceFacts
  <2>. QED  BY <2>1, <2>2, <2>3
<1>16. FramesHold'
  <2>. SUFFICES ASSUME NEW k \in Goroutines, NEW i \in 1..Len(stack'[k]), NEW f \in Frames,
                       f = stack'[k][i]
                PROVE  FrameFacts(f)'
    BY DEF FramesHold
  <2>1. CASE f = new
    <3>1. \A t \in Range(f.todo) : Fresh(t)'
      BY <1>4, <1>15, <2>1 DEF HandlersFresh, Fresh
    <3>. QED  BY <1>4, <2>1, <3>1 DEF FrameFacts
  <2>2. CASE f = ret
    <3>1. \A t \in Range(f.todo) : t # Head(f.todo) => Fresh(t)'
      <4>1. f.todo = Top(g).todo
        BY <1>3, <2>2
      <4>2. \A t \in Range(Top(g).todo) : t # Head(Top(g).todo) => Fresh(t)
        BY <1>1 DEF FrameFacts
      <4>3. \A t \in Range(Top(g).todo) : Fresh(t)' <=> Fresh(t)
        BY DEF Fresh
      <4>. QED  BY <4>1, <4>2, <4>3
    <3>2. PlaceFacts(f)'
      BY <1>2, <1>3, <1>15, <2>2 DEF PlaceFacts
    <3>. QED  BY <1>3, <2>2, <3>1, <3>2 DEF FrameFacts
  <2>3. CASE i \in 1..Len(stack[k]) /\ f = stack[k][i]
    <3>1. FrameFacts(f) /\ (f.at = "next" \/ f.todo # <<>>) /\ IsInjective(f.todo)
      BY <2>3 DEF Facts, FramesHold, Shape, StackTyped, FromSource
    <3>. QED  BY <1>14, <3>1, FrameFactsKept
  <2>4. \/ f = new
        \/ f = ret
        \/ i \in 1..Len(stack[k]) /\ f = stack[k][i]
    <3>1. AfterEntering(k, i, g, n, ret, new)
      BY <1>7
    <3>. QED  BY <3>1 DEF AfterEntering
  <2>. QED  BY <2>1, <2>2, <2>3, <2>4
<1>17. \A t \in Steps : StepFacts(t)'
  BY <1>14, StepFactsKept DEF Facts
<1>18. TopFresh'
  BY DEF Facts, TopFresh, Fresh, TopLevel, HasNeeds
<1>. QED  BY <1>9, <1>10, <1>11, <1>13, <1>16, <1>17, <1>18 DEF Shape, Facts

(* Goroutines that had no stack get one, of one frame each.                *)
MayEnter(S, new) ==
  /\ \A g \in S : /\ new[g].at = "next" \/ new[g].todo # <<>>
                  /\ IsInjective(new[g].todo)
                  /\ Range(new[g].todo) \subseteq Range(IF g = Job THEN plan.order ELSE <<g>>)
  /\ \A f \in Frames : (\E g \in S : f = new[g]) => FrameFacts(f)
  /\ \A g, k \in S : Range(new[g].todo) \cap Range(new[k].todo) # {} => g = k
  /\ \A g \in S, k \in Goroutines : \A i \in 1..Len(stack[k]) :
       Range(new[g].todo) \cap Range(stack[k][i].todo) = {}

LEMMA NewStacks ==
  ASSUME plan \in Plans, Shape, Facts, NEW S \in SUBSET Goroutines, NEW new \in [S -> Frames],
         \A g \in S : stack[g] = <<>>,
         stack' = [g \in Goroutines |-> IF g \in S THEN <<new[g]>> ELSE stack[g]],
         plan' = plan, UNCHANGED <<jobErr, outcome, shown, ran, late, cut>>,
         MayEnter(S, new), Owners', TopFresh'
  PROVE  Shape' /\ Facts'
<1>1. stack \in [Goroutines -> Seq(Frames)]
  BY DEF Shape, StackTyped
<1>2. ASSUME NEW g \in S
      PROVE  /\ stack'[g] \in Seq(Frames) /\ Len(stack'[g]) = 1 /\ stack'[g][1] = new[g]
             /\ new[g] \in Frames
  <2>1. stack'[g] = <<new[g]>> /\ new[g] \in Frames
    OBVIOUS
  <2>. QED  BY <2>1
<1>3. \A g \in Goroutines \ S : stack'[g] = stack[g]
  OBVIOUS
<1>4. stack' \in [Goroutines -> Seq(Frames)]
  <2>1. \A g \in Goroutines : (IF g \in S THEN <<new[g]>> ELSE stack[g]) \in Seq(Frames)
    BY <1>1, <1>2, <1>3
  <2>. QED  BY <2>1
<1>5. ASSUME NEW k \in Goroutines, NEW i \in 1..Len(stack'[k])
      PROVE  \/ k \in S /\ i = 1 /\ Len(stack'[k]) = 1 /\ stack'[k][i] = new[k]
             \/ k \notin S /\ i \in 1..Len(stack[k]) /\ stack'[k] = stack[k]
  BY <1>2, <1>3
<1>6. StackTyped'
  <2>. SUFFICES ASSUME NEW k \in Goroutines, NEW i \in 1..Len(stack'[k])
                PROVE  /\ stack'[k][i].at = "next" \/ stack'[k][i].todo # <<>>
                       /\ i < Len(stack'[k]) => stack'[k][i].at = "return"
    BY <1>4 DEF StackTyped
  <2>1. CASE k \in S
    <3>1. i = 1 /\ Len(stack'[k]) = 1 /\ stack'[k][i] = new[k]
      BY <1>5, <2>1
    <3>2. ASSUME NEW a, NEW b, a = 1, b = 1 PROVE ~(a < b)
      BY <3>2
    <3>3. ~(i < Len(stack'[k]))
      BY <3>1, <3>2, Zenon
    <3>. QED  BY <2>1, <3>1, <3>3 DEF MayEnter
  <2>2. CASE k \notin S
    <3>1. i \in 1..Len(stack[k]) /\ stack'[k] = stack[k]
      BY <1>5, <2>2
    <3>. QED  BY <3>1 DEF Shape, StackTyped
  <2>. QED  BY <2>1, <2>2
<1>7. FromSource'
  <2>. SUFFICES ASSUME NEW k \in Goroutines, NEW i \in 1..Len(stack'[k])
                PROVE  /\ IsInjective(stack'[k][i].todo)
                       /\ Range(stack'[k][i].todo) \subseteq Range(Source(k, i)')
    BY DEF FromSource
  <2>1. CASE k \in S
    <3>1. i = 1 /\ stack'[k][i] = new[k]
      BY <1>5, <2>1
    <3>2. Source(k, i)' = IF k = Job THEN plan.order ELSE <<k>>
      BY <3>1 DEF Source
    <3>. QED  BY <2>1, <3>1, <3>2 DEF MayEnter
  <2>2. CASE k \notin S
    <3>1. i \in 1..Len(stack[k]) /\ stack'[k] = stack[k]
      BY <1>5, <2>2
    <3>2. Source(k, i)' = Source(k, i)
      BY <3>1 DEF Source
    <3>. QED  BY <3>1, <3>2 DEF Shape, FromSource
  <2>. QED  BY <2>1, <2>2
<1>8. Apart'
  <2>. SUFFICES ASSUME NEW k \in Goroutines, NEW l \in Goroutines,
                       NEW i \in 1..Len(stack'[k]), NEW m \in 1..Len(stack'[l]),
                       Range(stack'[k][i].todo) \cap Range(stack'[l][m].todo) # {}
                PROVE  k = l /\ i = m
    BY DEF Apart
  <2>1. CASE k \in S /\ l \in S
    <3>1. i = 1 /\ m = 1 /\ stack'[k][i] = new[k] /\ stack'[l][m] = new[l]
      BY <1>5, <2>1
    <3>. QED  BY <2>1, <3>1 DEF MayEnter
  <2>2. CASE k \in S /\ l \notin S
    <3>1. stack'[k][i] = new[k] /\ m \in 1..Len(stack[l]) /\ stack'[l][m] = stack[l][m]
      BY <1>5, <2>2
    <3>. QED  BY <2>2, <3>1 DEF MayEnter
  <2>3. CASE k \notin S /\ l \in S
    <3>1. stack'[l][m] = new[l] /\ i \in 1..Len(stack[k]) /\ stack'[k][i] = stack[k][i]
      BY <1>5, <2>3
    <3>. QED  BY <2>3, <3>1 DEF MayEnter
  <2>4. CASE k \notin S /\ l \notin S
    <3>1. i \in 1..Len(stack[k]) /\ stack'[k][i] = stack[k][i]
      BY <1>5, <2>4
    <3>2. m \in 1..Len(stack[l]) /\ stack'[l][m] = stack[l][m]
      BY <1>5, <2>4
    <3>3. Range(stack[k][i].todo) \cap Range(stack[l][m].todo) # {}
      BY <3>1, <3>2
    <3>4. Apart
      BY DEF Shape
    <3>. QED  BY <3>1, <3>2, <3>3, <3>4 DEF Apart
  <2>. QED  BY <2>1, <2>2, <2>3, <2>4
<1>9. OthersSame({})
  BY DEF OthersSame
<1>10. FramesHold'
  <2>. SUFFICES ASSUME NEW k \in Goroutines, NEW i \in 1..Len(stack'[k]), NEW f \in Frames,
                       f = stack'[k][i]
                PROVE  FrameFacts(f)'
    BY DEF FramesHold
  <2>1. FrameFacts(f) /\ (f.at = "next" \/ f.todo # <<>>) /\ IsInjective(f.todo)
    <3>1. CASE k \in S
      BY <1>5, <3>1 DEF MayEnter
    <3>2. CASE k \notin S
      BY <1>5, <3>2 DEF Facts, FramesHold, Shape, StackTyped, FromSource
    <3>. QED  BY <3>1, <3>2
  <2>. QED  BY <1>9, <2>1, FrameFactsKept
<1>11. \A t \in Steps : StepFacts(t)'
  BY <1>9, StepFactsKept DEF Facts
<1>. QED  BY <1>6, <1>7, <1>8, <1>10, <1>11 DEF Shape, Facts

LEMMA SequentialKeeps ==
  ASSUME plan \in Plans, Shape, Facts, StartSequential
  PROVE  Shape' /\ Facts'
<1>. DEFINE f == Enter(plan.order, "next")
<1>1. /\ f.todo = plan.order /\ f.at = "next" /\ f \in Frames /\ IsInjective(f.todo)
      /\ f.tries = 0 /\ f.err = "ok"
  BY PlanNested, PlansAssumption DEF Enter, Frames, PlaceNames, ErrorNames
<1>2. main = "start" /\ ~HasNeeds /\ main' = "wait"
  BY DEF StartSequential
<1>3. \A g \in Goroutines : stack[g] = <<>>
  BY <1>2 DEF Shape, Owners
<1>4. stack \in [Goroutines -> Seq(Frames)] /\ Job \in Goroutines
  BY DEF Shape, StackTyped, Goroutines
<1>. DEFINE new == [g \in {Job} |-> f]
<1>5. new \in [{Job} -> Frames] /\ new[Job] = f
  BY <1>1
<1>6. stack' = [g \in Goroutines |-> IF g \in {Job} THEN <<new[g]>> ELSE stack[g]]
  BY <1>4, <1>5 DEF StartSequential
<1>7. plan' = plan /\ UNCHANGED <<jobErr, outcome, shown, ran, late, cut>>
  BY DEF StartSequential, reportVars, contextVars
<1>8. ~HasNeeds' /\ TopLevel' = TopLevel
  BY <1>2, <1>7 DEF HasNeeds, TopLevel
<1>9. Owners'
  <2>1. \A g \in Goroutines : stack'[g] # <<>> => g = Job
    BY <1>3, <1>6
  <2>. QED  BY <1>2, <1>8, <2>1 DEF Owners
<1>10. TopFresh'
  BY <1>2, <1>8 DEF TopFresh
<1>11. FrameFacts(f)
  BY <1>1, <1>2 DEF FrameFacts, Facts, TopFresh, TopLevel
<1>. HIDE DEF new, f
<1>12. \A h \in Frames : (\E g \in {Job} : h = new[g]) => FrameFacts(h)
  <2>. SUFFICES ASSUME NEW h \in Frames, h = new[Job] PROVE FrameFacts(h)
    OBVIOUS
  <2>1. h = f
    BY <1>5
  <2>. QED  BY <1>11, <2>1
<1>13. \A g \in {Job} : /\ new[g].at = "next" \/ new[g].todo # <<>>
                        /\ IsInjective(new[g].todo)
                        /\ Range(new[g].todo) \subseteq
                             Range(IF g = Job THEN plan.order ELSE <<g>>)
  BY <1>1, <1>5
<1>14. \A g \in {Job}, k \in Goroutines : \A i \in 1..Len(stack[k]) :
         Range(new[g].todo) \cap Range(stack[k][i].todo) = {}
  <2>1. \A k \in Goroutines : Len(stack[k]) = 0
    BY <1>3
  <2>. QED  BY <2>1
<1>15. {Job} \in SUBSET Goroutines /\ \A g \in {Job} : stack[g] = <<>>
  BY <1>3, <1>4
<1>16. \A g, k \in {Job} : Range(new[g].todo) \cap Range(new[k].todo) # {} => g = k
  OBVIOUS
<1>17. MayEnter({Job}, new)
  BY <1>12, <1>13, <1>14, <1>16 DEF MayEnter
<1>. QED  BY <1>5, <1>6, <1>7, <1>9, <1>10, <1>15, <1>17, NewStacks

LEMMA LaunchKeeps ==
  ASSUME plan \in Plans, Shape, Facts, HasNeeds, Launch, main' # "start",
         plan' = plan, UNCHANGED <<jobErr, outcome, shown, ran, late, cut>>
  PROVE  Shape' /\ Facts' /\ TopLevel' = TopLevel
<1>. PICK B \in SUBSET (TopLevel \ claimed), S \in SUBSET (TopLevel \ claimed) :
       /\ claimed' = claimed \cup B \cup S
       /\ stack' = [g \in Goroutines |-> IF g \in S THEN <<Enter(<<g>>, "if")>> ELSE stack[g]]
  <2>1. PICK B \in SUBSET (TopLevel \ claimed) :
          LET S == {s \in TopLevel \ (claimed \cup B) : Ready(s)}
          IN  /\ claimed' = claimed \cup B \cup S
              /\ stack' = [g \in Goroutines |-> IF g \in S THEN <<Enter(<<g>>, "if")>> ELSE stack[g]]
    BY DEF Launch
  <2>. DEFINE S == {s \in TopLevel \ (claimed \cup B) : Ready(s)}
  <2>2. S \in SUBSET (TopLevel \ claimed)
    OBVIOUS
  <2>. QED  BY <2>1, <2>2
<1>1. /\ TopLevel \subseteq Steps /\ S \subseteq TopLevel /\ S \cap claimed = {} /\ Job \notin S
      /\ S \in SUBSET Goroutines
  BY PlanNested, StepsAssumption DEF Goroutines
<1>2. HasNeeds' /\ TopLevel' = TopLevel
  BY DEF HasNeeds, TopLevel
<1>3. \A g \in S : stack[g] = <<>>
  BY <1>1 DEF Shape, Owners
<1>. PICK new : new = [g \in S |-> Enter(<<g>>, "if")]
  OBVIOUS
<1>4. ASSUME NEW g \in S
      PROVE  /\ new[g].todo = <<g>> /\ new[g].at = "if" /\ new[g].tries = 0 /\ new[g].err = "ok"
             /\ new[g] \in Frames /\ Range(new[g].todo) = {g} /\ Head(new[g].todo) = g
             /\ IsInjective(new[g].todo) /\ new[g].todo # <<>>
  <2>1. g \in Steps /\ <<g>> \in Seq(Steps) /\ <<g>> # <<>> /\ Head(<<g>>) = g /\ DOMAIN <<g>> = {1}
    BY <1>1
  <2>2. Range(<<g>>) = {g} /\ IsInjective(<<g>>)
    BY <2>1 DEF Range, IsInjective
  <2>3. new[g] = Enter(<<g>>, "if")
    OBVIOUS
  <2>4. new[g].todo = <<g>> /\ new[g].at = "if" /\ new[g].tries = 0 /\ new[g].err = "ok"
    BY <2>3 DEF Enter
  <2>5. new[g] \in Frames
    BY <2>1, <2>3, PlansAssumption DEF Enter, Frames, PlaceNames, ErrorNames
  <2>. QED  BY <2>1, <2>2, <2>4, <2>5
<1>5. new \in [S -> Frames]
  BY <1>4
<1>6. stack' = [g \in Goroutines |-> IF g \in S THEN <<new[g]>> ELSE stack[g]]
  OBVIOUS
<1>7. ASSUME NEW f \in Frames, \E g \in S : f = new[g] PROVE FrameFacts(f)
  <2>1. PICK g \in S : f = new[g]
    BY <1>7
  <2>2. Range(f.todo) = {g} /\ f.at = "if" /\ Head(f.todo) = g /\ f.tries = 0 /\ f.err = "ok"
    BY <1>4, <2>1
  <2>3. Fresh(g) /\ StepFacts(g)
    BY <1>1 DEF Facts, TopFresh
  <2>4. HandlersFresh(g)
    BY <2>3 DEF StepFacts, Fresh, FailKinds
  <2>5. PlaceFacts(f)
    BY <2>2, <2>3 DEF PlaceFacts, Fresh
  <2>. QED  BY <2>2, <2>4, <2>5 DEF FrameFacts
<1>8. ASSUME NEW g \in S, NEW k \in Goroutines, NEW i \in 1..Len(stack[k])
      PROVE  Range(new[g].todo) \cap Range(stack[k][i].todo) = {}
  <2>. SUFFICES ASSUME g \in Range(stack[k][i].todo) PROVE FALSE
    BY <1>4
  <2>. QED  BY <1>1, ClaimedInHand
<1>9. Owners'
  <2>. SUFFICES ASSUME NEW k \in Goroutines, stack'[k] # <<>>
                PROVE  k \in claimed' \cap TopLevel
    BY <1>2 DEF Owners
  <2>1. k \in S \/ stack[k] # <<>>
    OBVIOUS
  <2>. QED  BY <1>1, <2>1 DEF Shape, Owners
<1>10. TopFresh'
  <2>. SUFFICES ASSUME NEW s \in TopLevel, s \notin claimed' PROVE Fresh(s)'
    BY <1>2 DEF TopFresh
  <2>. QED  BY DEF Facts, TopFresh, Fresh
<1>11. \A g \in S : Range(new[g].todo) \subseteq Range(IF g = Job THEN plan.order ELSE <<g>>)
  BY <1>1, <1>4
<1>12. \A g, k \in S : Range(new[g].todo) \cap Range(new[k].todo) # {} => g = k
  <2>. SUFFICES ASSUME NEW g \in S, NEW k \in S, g # k
                PROVE  Range(new[g].todo) \cap Range(new[k].todo) = {}
    OBVIOUS
  <2>1. Range(new[g].todo) = {g} /\ Range(new[k].todo) = {k}
    BY <1>4
  <2>. QED  BY <2>1
<1>13. \A g \in S : /\ new[g].at = "next" \/ new[g].todo # <<>>
                  /\ IsInjective(new[g].todo)
                  /\ Range(new[g].todo) \subseteq
                       Range(IF g = Job THEN plan.order ELSE <<g>>)
  BY <1>4, <1>11
<1>14. S \in SUBSET Goroutines
  BY <1>1
<1>15. MayEnter(S, new)
  BY <1>7, <1>8, <1>12, <1>13 DEF MayEnter
<1>16. Shape' /\ Facts'
  BY <1>3, <1>5, <1>6, <1>9, <1>10, <1>14, <1>15, NewStacks
<1>. QED  BY <1>2, <1>16

------------------------------------------------------------------------------
(* Steps that leave the stacks alone: the contexts, the end of runSteps    *)
(* and the command that writes.                                            *)
LEMMA OthersKeep ==
  ASSUME plan \in Plans, Shape, Facts,
         UNCHANGED <<plan, stack, claimed, outcome, shown, ran, late, cut>>,
         main' = main \/ (main # "start" /\ main' # "start"),
         jobErr = "deadline" => jobErr' = "deadline", jobErr # "" => jobErr' # ""
  PROVE  Shape' /\ Facts'
<1>1. HasNeeds' = HasNeeds /\ TopLevel' = TopLevel /\ \A s \in Steps : Blurred(s)' = Blurred(s)
  BY DEF HasNeeds, TopLevel, Blurred
<1>2. \A s \in Steps : Fresh(s) => Fresh(s)'
  BY DEF Fresh
<1>3. \A s \in Steps : HandlersFresh(s) => HandlersFresh(s)'
  BY PlanNested DEF HandlersFresh, Fresh
<1>4. Shape'
  <2>1. StackTyped' /\ FromSource'
    BY DEF Shape, StackTyped, FromSource, Source
  <2>2. Owners'
    BY <1>1 DEF Shape, Owners
  <2>3. Apart'
    <3>1. Apart /\ stack' = stack
      BY DEF Shape
    <3>. SUFFICES ASSUME NEW k \in Goroutines, NEW l \in Goroutines,
                         NEW i \in 1..Len(stack'[k]), NEW m \in 1..Len(stack'[l]),
                         Range(stack'[k][i].todo) \cap Range(stack'[l][m].todo) # {}
                  PROVE  k = l /\ i = m
      BY DEF Apart
    <3>2. /\ i \in 1..Len(stack[k]) /\ m \in 1..Len(stack[l])
          /\ Range(stack[k][i].todo) \cap Range(stack[l][m].todo) # {}
      BY <3>1
    <3>. QED  BY <3>1, <3>2 DEF Apart
  <2>. QED  BY <2>1, <2>2, <2>3 DEF Shape
<1>5. FramesHold'
  <2>. SUFFICES ASSUME NEW k \in Goroutines, NEW i \in 1..Len(stack[k]), NEW f \in Frames,
                       f = stack[k][i]
                PROVE  FrameFacts(f)'
    BY DEF FramesHold
  <2>1. FrameFacts(f) /\ (f.at = "next" \/ f.todo # <<>>) /\ IsInjective(f.todo)
    BY DEF Facts, FramesHold, Shape, StackTyped, FromSource
  <2>2. f.todo \in Seq(Steps) /\ Range(f.todo) \subseteq Steps
    BY RangeOfSeq DEF Frames
  <2>3. ASSUME f.at # "next" PROVE PlaceFacts(f)'
    <3>1. PlaceFacts(f)
      BY <2>1, <2>3 DEF FrameFacts
    <3>2. Head(f.todo) \in Steps
      BY <2>1, <2>2, <2>3, HeadAndTail
    <3>3. Blurred(Head(f.todo))' = Blurred(Head(f.todo))
      BY <1>1, <3>2
    <3>. QED  BY <3>1, <3>3 DEF PlaceFacts, Fresh
  <2>4. ASSUME f.at \notin {"next", "return"} PROVE HandlersFresh(Head(f.todo))'
    <3>. PICK h : h = Head(f.todo)
      OBVIOUS
    <3>1. h \in Steps /\ HandlersFresh(h)
      BY <2>1, <2>2, <2>4, HeadAndTail DEF FrameFacts
    <3>2. HandlersFresh(h)'
      BY <1>3, <3>1
    <3>. QED  BY <3>2
  <2>5. \A s \in Range(f.todo) : (f.at = "next" \/ s # Head(f.todo)) => Fresh(s)'
    BY <1>2, <2>1, <2>2 DEF FrameFacts
  <2>. QED  BY <2>1, <2>3, <2>4, <2>5 DEF FrameFacts
<1>6. \A s \in Steps : StepFacts(s)'
  <2>. SUFFICES ASSUME NEW s \in Steps PROVE StepFacts(s)'
    OBVIOUS
  <2>1. StepFacts(s)
    BY DEF Facts
  <2>2. ResultFacts(s)'
    BY <1>1, <2>1 DEF StepFacts, ResultFacts
  <2>3. shown'[s] \notin FailKinds => HandlersFresh(s)'
    BY <1>3, <2>1 DEF StepFacts
  <2>. QED  BY <2>2, <2>3 DEF StepFacts
<1>7. TopFresh'
  <2>1. \A s \in TopLevel : s \in Steps
    BY PlanNested
  <2>. QED  BY <1>1, <1>2, <2>1 DEF Facts, TopFresh
<1>. QED  BY <1>4, <1>5, <1>6, <1>7 DEF Facts

------------------------------------------------------------------------------
(* The inductive invariant                                                 *)

(* The variables other than the stacks.                                    *)
DataTyped ==
  /\ plan \in Plans
  /\ main \in {"start", "wait", "passed", "failed"}
  /\ outcome \in [Steps -> Results]
  /\ claimed \subseteq Steps /\ finished \subseteq claimed /\ failed \subseteq finished
  /\ relaunch \subseteq finished /\ jobFailed \in BOOLEAN
  /\ file \in Steps \cup {None} /\ captured \in Steps \cup {None}
  /\ stored \subseteq plan.cached /\ cut \subseteq Steps
  /\ jobFail \in [step : Steps \cup {None}, kind : FailKinds \cup {"none"}]
  /\ ran \in [Steps -> 0..(MaxRetries + 1)] /\ late \in [Steps -> 0..(MaxRetries + 1)]
  /\ shown \in [Steps -> FailKinds \cup {"none", "started", "ok", "cached"}]
  /\ jobErr \in {"", "deadline", "canceled"} /\ anyFail \in BOOLEAN

(* Only the goroutines of a DAG call launch.                               *)
RelaunchOfDAG == relaunch # {} => main # "start" /\ HasNeeds

IInv == DataTyped /\ Shape /\ Facts /\ RelaunchOfDAG

LEMMA IInvTypeOK ==
  ASSUME IInv PROVE TypeOK
<1>1. \A g \in Goroutines : stack[g] \in Seq(Frames)
  BY DEF IInv, Shape, StackTyped
<1>2. \A g \in Goroutines : DOMAIN stack[g] = 1..Len(stack[g])
  BY <1>1
<1>3. \A g \in Goroutines : \A i \in DOMAIN stack[g] : stack[g][i] \in Frames
  BY <1>1
<1>4. \A g \in Goroutines : \A i \in DOMAIN stack[g] :
        /\ stack[g][i] \in Frames
        /\ stack[g][i].at = "next" \/ stack[g][i].todo # <<>>
        /\ i < Len(stack[g]) => stack[g][i].at = "return"
  BY <1>2, <1>3 DEF IInv, Shape, StackTyped
<1>. QED  BY <1>4, Zenon DEF IInv, DataTyped, TypeOK

(* The step in hand, and what is known of it.                              *)
LEMMA InHandFacts ==
  ASSUME IInv, NEW g \in Goroutines, NEW place, At(g, place), place # "next",
         NEW s, s = InHand(g)
  PROVE  /\ stack[g] # <<>> /\ Top(g) \in Frames /\ Top(g).at = place /\ Top(g).todo # <<>>
         /\ s \in Steps /\ s = Head(Top(g).todo) /\ outcome[s] = ""
         /\ FrameFacts(Top(g)) /\ PlaceFacts(Top(g)) /\ ResultFacts(s) /\ main # "start"
<1>1. stack[g] # <<>> /\ Top(g).at = place
  BY DEF At
<1>2. /\ Top(g) \in Frames /\ Top(g).todo \in Seq(Steps) /\ IsInjective(Top(g).todo)
      /\ Top(g).todo # <<>> /\ FrameFacts(Top(g)) /\ main # "start"
  BY <1>1, TopFrame DEF IInv
<1>3. s \in Steps /\ s = Head(Top(g).todo)
  BY <1>2, HeadAndTail DEF InHand
<1>4. PlaceFacts(Top(g))
  BY <1>1, <1>2 DEF FrameFacts
<1>. QED  BY <1>1, <1>2, <1>3, <1>4 DEF IInv, Facts, StepFacts, PlaceFacts

(* The goroutine goes on with the step in hand.                            *)
LEMMA WorkStep ==
  ASSUME IInv, NEW g \in Goroutines, NEW place, At(g, place), place \notin {"next", "return"},
         NEW f \in Frames, stack' = With(g, f), f.todo = Top(g).todo, f.at \notin {"next", "return"},
         NEW s, s = InHand(g), OthersSame({s}),
         UNCHANGED <<plan, main, jobErr, claimed, relaunch>>,
         PlaceFacts(f)', ResultFacts(s)', DataTyped'
  PROVE  IInv'
<1>1. /\ stack[g] # <<>> /\ Top(g).todo # <<>> /\ Top(g).at = place /\ s \in Steps
      /\ plan \in Plans /\ Shape /\ Facts
  <2>1. place # "next" /\ IInv
    OBVIOUS
  <2>2. /\ stack[g] # <<>> /\ Top(g).todo # <<>> /\ Top(g).at = place /\ s \in Steps
    BY <2>1, InHandFacts
  <2>. QED  BY <2>1, <2>2 DEF IInv, DataTyped
<1>2. Shape' /\ Facts'
  BY <1>1, WorkKeeps
<1>3. RelaunchOfDAG'
  BY DEF IInv, RelaunchOfDAG, HasNeeds, TopLevel
<1>. QED  BY <1>2, <1>3 DEF IInv

LEMMA IfTrueKeeps ==
  ASSUME IInv, NEW g \in Goroutines, IfTrue(g) PROVE IInv'
<1>. PICK s, f : s = InHand(g) /\ f = [Top(g) EXCEPT !.at = "start"]
  OBVIOUS
<1>1. At(g, "if") /\ stack' = With(g, f)
      /\ UNCHANGED <<plan, main, outcome, jobFailed, dagVars, dataVars, reportVars, contextVars>>
  BY DEF IfTrue, Goto
<1>2. /\ Top(g) \in Frames /\ Top(g).at = "if" /\ s \in Steps /\ s = Head(Top(g).todo)
      /\ PlaceFacts(Top(g)) /\ ResultFacts(s)
  BY <1>1, InHandFacts
<1>3. f \in Frames /\ f.todo = Top(g).todo /\ f.at = "start" /\ f.tries = Top(g).tries
      /\ f.err = Top(g).err
  BY <1>2 DEF Frames, PlaceNames
<1>4. UNCHANGED <<jobErr, claimed, relaunch, shown, ran, late, cut>>
  BY <1>1 DEF dagVars, reportVars, contextVars
<1>5. PlaceFacts(f)'
  <2>1. Fresh(s) /\ outcome[s] = "" /\ Top(g).err = "ok" /\ Top(g).tries = 0
    BY <1>2 DEF PlaceFacts
  <2>2. /\ s = Head(f.todo) /\ outcome'[s] = "" /\ Fresh(s)'
        /\ f.at = "start" /\ f.err = "ok" /\ f.tries = 0
    BY <1>1, <1>2, <1>3, <1>4, <2>1 DEF Fresh
  <2>. QED  BY <2>2 DEF PlaceFacts
<1>6. ResultFacts(s)'
  BY <1>1, <1>2, <1>4 DEF ResultFacts, Blurred
<1>7. OthersSame({s})
  BY <1>1, <1>4 DEF OthersSame
<1>8. DataTyped'
  BY <1>1 DEF IInv, DataTyped, dagVars, dataVars, reportVars, contextVars
<1>. QED  BY <1>1, <1>3, <1>4, <1>5, <1>6, <1>7, <1>8, WorkStep

LEMMA CacheHitKeeps ==
  ASSUME IInv, NEW g \in Goroutines, CacheHit(g) PROVE IInv'
<1>. PICK s, f : s = InHand(g) /\ f = [Top(g) EXCEPT !.at = "parse"]
  OBVIOUS
<1>1. /\ At(g, "start") /\ stack' = With(g, f) /\ shown' = [shown EXCEPT ![s] = "cached"]
      /\ UNCHANGED <<plan, main, outcome, jobFailed, dagVars, dataVars, jobFail, ran, late, cut,
                     contextVars>>
  BY DEF CacheHit, Goto
<1>2. /\ Top(g) \in Frames /\ Top(g).at = "start" /\ s \in Steps /\ s = Head(Top(g).todo)
      /\ PlaceFacts(Top(g)) /\ ResultFacts(s)
  BY <1>1, InHandFacts
<1>20. Fresh(s) /\ outcome[s] = "" /\ Top(g).err = "ok"
  BY <1>2 DEF PlaceFacts
<1>3. f \in Frames /\ f.todo = Top(g).todo /\ f.at = "parse" /\ f.err = Top(g).err
  BY <1>2 DEF Frames, PlaceNames
<1>4. UNCHANGED <<jobErr, claimed, relaunch>>
  BY <1>1 DEF dagVars, contextVars
<1>5. shown'[s] = "cached" /\ \A t \in Steps \ {s} : shown'[t] = shown[t]
  BY <1>1, <1>2 DEF IInv, DataTyped
<1>6. PlaceFacts(f)'
  <2>1. s = Head(f.todo) /\ outcome'[s] = "" /\ shown'[s] = "cached" /\ f.at = "parse" /\ f.err = "ok"
    BY <1>1, <1>2, <1>20, <1>3, <1>5
  <2>. QED  BY <2>1 DEF PlaceFacts
<1>7. ResultFacts(s)'
  BY <1>1, <1>2, <1>5 DEF ResultFacts, PlaceFacts, FailKinds
<1>8. OthersSame({s})
  BY <1>1, <1>5 DEF OthersSame
<1>9. DataTyped'
  BY <1>1, <1>2 DEF IInv, DataTyped, dagVars, dataVars, contextVars
<1>. QED  BY <1>1, <1>3, <1>4, <1>6, <1>7, <1>8, <1>9, WorkStep

LEMMA FirstAttemptKeeps ==
  ASSUME IInv, NEW g \in Goroutines, FirstAttempt(g) PROVE IInv'
<1>. PICK s, f : s = InHand(g) /\ f = [Top(g) EXCEPT !.at = "run", !.tries = 1]
  OBVIOUS
<1>1. /\ At(g, "start") /\ stack' = With(g, f) /\ shown' = [shown EXCEPT ![s] = "started"]
      /\ UNCHANGED <<plan, main, outcome, jobFailed, dagVars, dataVars, jobFail, ran, late, cut,
                     contextVars>>
  BY DEF FirstAttempt
<1>2. /\ Top(g) \in Frames /\ Top(g).at = "start" /\ s \in Steps /\ s = Head(Top(g).todo)
      /\ PlaceFacts(Top(g)) /\ ResultFacts(s)
  BY <1>1, InHandFacts
<1>20. Fresh(s) /\ outcome[s] = "" /\ Top(g).err = "ok"
  BY <1>2 DEF PlaceFacts
<1>3. f \in Frames /\ f.todo = Top(g).todo /\ f.at = "run" /\ f.tries = 1 /\ f.err = Top(g).err
  <2>1. 1 \in 0..(MaxRetries + 1) /\ "run" \in PlaceNames
    BY PlansAssumption DEF PlaceNames
  <2>. QED  BY <1>2, <2>1 DEF Frames
<1>4. UNCHANGED <<jobErr, claimed, relaunch>>
  BY <1>1 DEF dagVars, contextVars
<1>5. shown'[s] = "started" /\ \A t \in Steps \ {s} : shown'[t] = shown[t]
  BY <1>1, <1>2 DEF IInv, DataTyped
<1>6. PlaceFacts(f)'
  <2>1. /\ s = Head(f.todo) /\ outcome'[s] = "" /\ shown'[s] = "started"
        /\ f.at = "run" /\ f.tries = 1 /\ late'[s] = 0 /\ ran'[s] = 0
    BY <1>1, <1>2, <1>20, <1>3, <1>5 DEF Fresh
  <2>2. \A a, b : a = 0 /\ b = 1 => a + 1 = b
    OBVIOUS
  <2>3. ran'[s] + 1 = f.tries
    BY <2>1, <2>2, Zenon
  <2>. QED  BY <2>1, <2>3 DEF PlaceFacts
<1>7. ResultFacts(s)'
  BY <1>1, <1>2, <1>5 DEF ResultFacts, PlaceFacts, FailKinds
<1>8. OthersSame({s})
  BY <1>1, <1>5 DEF OthersSame
<1>9. DataTyped'
  BY <1>1, <1>2 DEF IInv, DataTyped, dagVars, dataVars, contextVars
<1>. QED  BY <1>1, <1>3, <1>4, <1>6, <1>7, <1>8, <1>9, WorkStep

LEMMA WriteKeeps ==
  ASSUME IInv, NEW g \in Goroutines, Write(g) PROVE IInv'
<1>1. /\ At(g, "run") /\ file' = InHand(g)
      /\ UNCHANGED <<plan, main, stack, outcome, jobFailed, dagVars, captured, stored, reportVars,
                     contextVars>>
  BY DEF Write
<1>2. InHand(g) \in Steps
  BY <1>1, InHandFacts
<1>3. UNCHANGED <<plan, main, stack, claimed, outcome, shown, ran, late, cut, jobErr, relaunch>>
  BY <1>1 DEF dagVars, reportVars, contextVars
<1>4. plan \in Plans /\ Shape /\ Facts
  BY DEF IInv, DataTyped
<1>5. Shape' /\ Facts'
  BY <1>3, <1>4, OthersKeep
<1>6. DataTyped'
  BY <1>1, <1>2 DEF IInv, DataTyped, dagVars, reportVars, contextVars
<1>7. RelaunchOfDAG'
  BY <1>3 DEF IInv, RelaunchOfDAG, HasNeeds, TopLevel
<1>. QED  BY <1>5, <1>6, <1>7 DEF IInv

(* What an attempt may end with: its own error, or that of a context.      *)
Plausible(g, cause, err) ==
  /\ err \in ErrorNames
  /\ err = "deadline" => cause = "deadline"
  /\ cause = "deadline" => err = "deadline" \/ jobErr = "deadline" \/ Blurred(InHand(g))

LEMMA AttemptKeeps ==
  ASSUME IInv, NEW g \in Goroutines, NEW cause, NEW err, AttemptEnds(g, cause, err),
         Plausible(g, cause, err)
  PROVE  IInv'
<1>. PICK s, f : s = InHand(g) /\ f = [Top(g) EXCEPT !.at = "judge", !.err = err]
  OBVIOUS
<1>1. /\ At(g, "run") /\ stack' = With(g, f)
      /\ ran' = [ran EXCEPT ![s] = @ + 1]
      /\ late' = IF jobErr = "" THEN late ELSE [late EXCEPT ![s] = @ + 1]
      /\ cut' = IF cause = "deadline" THEN cut \cup {s} ELSE cut \ {s}
      /\ UNCHANGED <<plan, main, outcome, jobFailed, dagVars, dataVars, jobFail, shown, contextVars>>
  BY DEF AttemptEnds
<1>2. /\ Top(g) \in Frames /\ Top(g).at = "run" /\ s \in Steps /\ s = Head(Top(g).todo)
      /\ PlaceFacts(Top(g)) /\ ResultFacts(s)
  BY <1>1, InHandFacts
<1>3. /\ outcome[s] = "" /\ shown[s] = "started" /\ late[s] = 0 /\ ran[s] + 1 = Top(g).tries
      /\ Top(g).tries \in 0..(MaxRetries + 1) /\ MaxRetries \in Nat
  BY <1>2, PlansAssumption DEF PlaceFacts, Frames
<1>4. /\ f \in Frames /\ f.todo = Top(g).todo /\ f.at = "judge" /\ f.tries = Top(g).tries
      /\ f.err = err
  <2>1. "judge" \in PlaceNames /\ err \in ErrorNames
    BY DEF PlaceNames, Plausible
  <2>. QED  BY <1>2, <2>1 DEF Frames
<1>5. UNCHANGED <<plan, main, outcome, shown, jobErr, claimed, relaunch>>
  BY <1>1 DEF dagVars, contextVars
<1>6. /\ ran' \in [Steps -> 0..(MaxRetries + 1)] /\ ran'[s] = Top(g).tries
      /\ \A t \in Steps \ {s} : ran'[t] = ran[t]
  <2>1. ran \in [Steps -> 0..(MaxRetries + 1)]
    BY DEF IInv, DataTyped
  <2>. QED  BY <1>1, <1>2, <1>3, <2>1
<1>7. /\ late' \in [Steps -> 0..(MaxRetries + 1)]
      /\ late'[s] <= 1 /\ (late'[s] # 0 => jobErr # "")
      /\ \A t \in Steps \ {s} : late'[t] = late[t]
  <2>1. late \in [Steps -> 0..(MaxRetries + 1)]
    BY DEF IInv, DataTyped
  <2>10. (\A a : a = 0 => a <= 1 /\ a + 1 = 1) /\ 1 <= 1
    OBVIOUS
  <2>11. 1 \in 0..(MaxRetries + 1)
    BY PlansAssumption
  <2>2. CASE jobErr = ""
    <3>1. late' = late
      BY <1>1, <2>2
    <3>2. late'[s] = 0 /\ late'[s] <= 1
      BY <1>3, <2>10, <3>1
    <3>. QED  BY <2>1, <3>1, <3>2
  <2>3. CASE jobErr # ""
    <3>1. late' = [late EXCEPT ![s] = @ + 1]
      BY <1>1, <2>3
    <3>2. late' = [late EXCEPT ![s] = 1]
      BY <1>3, <2>10, <3>1
    <3>3. late'[s] = 1 /\ late' \in [Steps -> 0..(MaxRetries + 1)]
      BY <1>2, <2>1, <2>11, <3>2
    <3>4. \A t \in Steps \ {s} : late'[t] = late[t]
      BY <2>1, <3>2
    <3>. QED  BY <2>3, <2>10, <3>3, <3>4
  <2>. QED  BY <2>2, <2>3
<1>8. cut' \subseteq Steps
  BY <1>1, <1>2 DEF IInv, DataTyped
<1>9. (s \in cut' <=> cause = "deadline") /\ (\A t \in Steps \ {s} : t \in cut' <=> t \in cut)
  BY <1>1, <1>2
<1>10. PlaceFacts(f)'
  <2>1. /\ s = Head(f.todo) /\ outcome'[s] = "" /\ shown'[s] = "started"
        /\ late'[s] <= 1 /\ (late'[s] # 0 => jobErr' # "") /\ ran'[s] = f.tries /\ f.at = "judge"
    BY <1>2, <1>3, <1>4, <1>5, <1>6, <1>7
  <2>2. /\ f.err = "deadline" => s \in cut'
        /\ s \in cut' => f.err = "deadline" \/ jobErr' = "deadline" \/ Blurred(s)'
    BY <1>4, <1>5, <1>9 DEF Plausible, Blurred
  <2>. QED  BY <2>1, <2>2 DEF PlaceFacts
<1>11. ResultFacts(s)'
  BY <1>2, <1>3, <1>5, <1>7 DEF ResultFacts, FailKinds
<1>12. OthersSame({s})
  BY <1>5, <1>6, <1>7, <1>9 DEF OthersSame
<1>13. DataTyped'
  BY <1>1, <1>6, <1>7, <1>8 DEF IInv, DataTyped, dagVars, dataVars, contextVars
<1>. QED  BY <1>1, <1>4, <1>5, <1>10, <1>11, <1>12, <1>13, WorkStep

LEMMA ExitsKeeps ==
  ASSUME IInv, NEW g \in Goroutines, Exits(g) PROVE IInv'
<1>1. PICK err \in {"ok", "exit"} : AttemptEnds(g, "exit", err)
  BY DEF Exits
<1>2. Plausible(g, "exit", err)
  BY DEF Plausible, ErrorNames
<1>. QED  BY <1>1, <1>2, AttemptKeeps

LEMMA KilledKeeps ==
  ASSUME IInv, NEW g \in Goroutines, Killed(g) PROVE IInv'
<1>. DEFINE timers == IF InHand(g) \in plan.timed THEN {"deadline"} ELSE {}
<1>1. PICK cause \in timers \cup ({jobErr} \ {""}) :
        \E err \in IF plan.container THEN {cause, "exit"} ELSE {cause} :
          AttemptEnds(g, cause, err)
  BY DEF Killed
<1>2. PICK err \in {cause, "exit"} :
        AttemptEnds(g, cause, err) /\ (err = "exit" => plan.container \/ cause = "exit")
  BY <1>1
<1>3. jobErr \in {"", "deadline", "canceled"}
  BY DEF IInv, DataTyped
<1>4. cause \in {"deadline", "canceled"}
  BY <1>3
<1>5. cause = "deadline" => jobErr = "deadline" \/ InHand(g) \in plan.timed
  OBVIOUS
<1>6. Plausible(g, cause, err)
  BY <1>2, <1>4, <1>5 DEF Plausible, Blurred, ErrorNames
<1>. QED  BY <1>2, <1>6, AttemptKeeps

LEMMA SucceedsKeeps ==
  ASSUME IInv, NEW g \in Goroutines, Succeeds(g) PROVE IInv'
<1>. PICK s, f : s = InHand(g) /\ f = [Top(g) EXCEPT !.at = "parse"]
  OBVIOUS
<1>1. /\ At(g, "judge") /\ Top(g).err = "ok" /\ stack' = With(g, f)
      /\ shown' = [shown EXCEPT ![s] = "ok"]
      /\ stored' \in IF s \in plan.cached THEN {stored, stored \cup {s}} ELSE {stored}
      /\ UNCHANGED <<plan, main, outcome, jobFailed, dagVars, file, captured, jobFail, ran, late,
                     cut, contextVars>>
  BY DEF Succeeds, Goto
<1>2. /\ Top(g) \in Frames /\ Top(g).at = "judge" /\ s \in Steps /\ s = Head(Top(g).todo)
      /\ outcome[s] = "" /\ ResultFacts(s)
  BY <1>1, InHandFacts
<1>3. f \in Frames /\ f.todo = Top(g).todo /\ f.at = "parse" /\ f.err = "ok"
  BY <1>1, <1>2 DEF Frames, PlaceNames
<1>4. UNCHANGED <<plan, main, outcome, ran, late, cut, jobErr, claimed, relaunch>>
  BY <1>1 DEF dagVars, contextVars
<1>5. shown'[s] = "ok" /\ \A t \in Steps \ {s} : shown'[t] = shown[t]
  BY <1>1, <1>2 DEF IInv, DataTyped
<1>6. PlaceFacts(f)'
  <2>1. s = Head(f.todo) /\ outcome'[s] = "" /\ shown'[s] = "ok" /\ f.at = "parse" /\ f.err = "ok"
    BY <1>2, <1>3, <1>4, <1>5
  <2>. QED  BY <2>1 DEF PlaceFacts
<1>7. ResultFacts(s)'
  BY <1>2, <1>4, <1>5 DEF ResultFacts, FailKinds
<1>8. OthersSame({s})
  BY <1>4, <1>5 DEF OthersSame
<1>9. DataTyped'
  <2>1. stored' \subseteq plan'.cached
    BY <1>1, <1>4 DEF IInv, DataTyped
  <2>2. shown' \in [Steps -> FailKinds \cup {"none", "started", "ok", "cached"}]
    BY <1>1, <1>2 DEF IInv, DataTyped
  <2>. QED  BY <1>1, <2>1, <2>2 DEF IInv, DataTyped, dagVars, contextVars
<1>. QED  BY <1>1, <1>3, <1>4, <1>6, <1>7, <1>8, <1>9, WorkStep

LEMMA RetryKeeps ==
  ASSUME IInv, NEW g \in Goroutines, Retry(g) PROVE IInv'
<1>. PICK s, f : s = InHand(g) /\
       f = [Top(g) EXCEPT !.at = IF s \in plan.patient THEN "backoff" ELSE "run", !.tries = @ + 1]
  OBVIOUS
<1>1. /\ At(g, "judge") /\ Top(g).err # "ok" /\ stack' = With(g, f)
      /\ Top(g).tries <= plan.retries[s] /\ jobErr = ""
      /\ UNCHANGED <<plan, main, outcome, jobFailed, dagVars, dataVars, reportVars, contextVars>>
  BY DEF Retry
<1>2. /\ Top(g) \in Frames /\ Top(g).at = "judge" /\ s \in Steps /\ s = Head(Top(g).todo)
      /\ PlaceFacts(Top(g)) /\ ResultFacts(s)
  BY <1>1, InHandFacts
<1>3. /\ outcome[s] = "" /\ shown[s] = "started" /\ late[s] <= 1 /\ (late[s] # 0 => jobErr # "")
      /\ ran[s] = Top(g).tries
  BY <1>2 DEF PlaceFacts
<1>4. /\ Top(g).err = "deadline" => s \in cut
      /\ s \in cut => Top(g).err = "deadline" \/ jobErr = "deadline" \/ Blurred(s)
  BY <1>2 DEF PlaceFacts
<1>5. Top(g).tries + 1 \in 0..(MaxRetries + 1)
  <2>1. plan.retries[s] \in 0..MaxRetries /\ MaxRetries \in Nat
    BY <1>2, PlanNested, PlansAssumption DEF PlanType, IInv, DataTyped
  <2>2. Top(g).tries \in 0..(MaxRetries + 1)
    BY <1>2 DEF Frames
  <2>3. \A m, b, a \in Nat : a \in 0..(m + 1) /\ b \in 0..m /\ a <= b => a + 1 \in 0..(m + 1)
    OBVIOUS
  <2>4. plan.retries[s] \in Nat /\ Top(g).tries \in Nat
    BY <2>1, <2>2
  <2>. QED  BY <1>1, <2>1, <2>2, <2>3, <2>4
<1>6. /\ f \in Frames /\ f.todo = Top(g).todo /\ f.at \in {"backoff", "run"}
      /\ f.tries = Top(g).tries + 1 /\ f.err = Top(g).err
  BY <1>2, <1>5 DEF Frames, PlaceNames
<1>7. UNCHANGED <<plan, main, outcome, shown, ran, late, cut, jobErr, claimed, relaunch>>
  BY <1>1 DEF dagVars, reportVars, contextVars
<1>8. PlaceFacts(f)'
  <2>1. /\ s = Head(f.todo) /\ outcome'[s] = "" /\ shown'[s] = "started" /\ late'[s] = 0
        /\ ran'[s] + 1 = f.tries /\ f.err # "ok"
    BY <1>1, <1>2, <1>3, <1>6, <1>7
  <2>2. /\ f.err = "deadline" => s \in cut'
        /\ s \in cut' => f.err = "deadline" \/ jobErr' = "deadline" \/ Blurred(s)'
    BY <1>4, <1>6, <1>7 DEF Blurred
  <2>. QED  BY <1>6, <2>1, <2>2 DEF PlaceFacts
<1>9. ResultFacts(s)'
  BY <1>2, <1>7 DEF ResultFacts, Blurred
<1>10. OthersSame({s})
  BY <1>7 DEF OthersSame
<1>11. DataTyped'
  BY <1>1 DEF IInv, DataTyped, dagVars, dataVars, reportVars, contextVars
<1>. QED  BY <1>1, <1>6, <1>7, <1>8, <1>9, <1>10, <1>11, WorkStep

LEMMA BackoffOverKeeps ==
  ASSUME IInv, NEW g \in Goroutines, BackoffOver(g) PROVE IInv'
<1>. PICK s, f : s = InHand(g) /\ f = [Top(g) EXCEPT !.at = "run"]
  OBVIOUS
<1>1. /\ At(g, "backoff") /\ stack' = With(g, f)
      /\ UNCHANGED <<plan, main, outcome, jobFailed, dagVars, dataVars, reportVars, contextVars>>
  BY DEF BackoffOver, Goto
<1>2. /\ Top(g) \in Frames /\ Top(g).at = "backoff" /\ s \in Steps /\ s = Head(Top(g).todo)
      /\ PlaceFacts(Top(g)) /\ ResultFacts(s)
  BY <1>1, InHandFacts
<1>3. outcome[s] = "" /\ shown[s] = "started" /\ late[s] = 0 /\ ran[s] + 1 = Top(g).tries
  BY <1>2 DEF PlaceFacts
<1>4. /\ f \in Frames /\ f.todo = Top(g).todo /\ f.at = "run" /\ f.tries = Top(g).tries
  BY <1>2 DEF Frames, PlaceNames
<1>5. UNCHANGED <<plan, main, outcome, shown, ran, late, cut, jobErr, claimed, relaunch>>
  BY <1>1 DEF dagVars, reportVars, contextVars
<1>6. PlaceFacts(f)'
  <2>1. /\ s = Head(f.todo) /\ outcome'[s] = "" /\ shown'[s] = "started" /\ late'[s] = 0
        /\ ran'[s] + 1 = f.tries
    BY <1>2, <1>3, <1>4, <1>5
  <2>. QED  BY <1>4, <2>1 DEF PlaceFacts
<1>7. ResultFacts(s)'
  BY <1>2, <1>5 DEF ResultFacts, Blurred
<1>8. OthersSame({s})
  BY <1>5 DEF OthersSame
<1>9. DataTyped'
  BY <1>1 DEF IInv, DataTyped, dagVars, dataVars, reportVars, contextVars
<1>. QED  BY <1>1, <1>4, <1>5, <1>6, <1>7, <1>8, <1>9, WorkStep

LEMMA GiveUpKeeps ==
  ASSUME IInv, NEW g \in Goroutines, GiveUp(g) PROVE IInv'
<1>. PICK s, f : s = InHand(g) /\ f = [Top(g) EXCEPT !.at = "parse"]
  OBVIOUS
<1>. PICK kind \in Kinds(Top(g).err) :
       jobFail' = [step |-> s, kind |-> kind] /\ shown' = [shown EXCEPT ![s] = kind]
  BY DEF GiveUp
<1>1. /\ \/ At(g, "judge") /\ Top(g).err # "ok"
         \/ At(g, "backoff")
      /\ stack' = With(g, f)
      /\ UNCHANGED <<plan, main, outcome, jobFailed, dagVars, dataVars, ran, late, cut, contextVars>>
  BY DEF GiveUp, Goto
<1>2. /\ Top(g) \in Frames /\ Top(g).at \in {"judge", "backoff"}
      /\ Top(g).at = "judge" => Top(g).err # "ok"
      /\ s \in Steps /\ s = Head(Top(g).todo) /\ PlaceFacts(Top(g)) /\ ResultFacts(s)
  <2>. PICK place \in {"judge", "backoff"} :
         At(g, place) /\ (place = "judge" => Top(g).err # "ok")
    BY <1>1
  <2>1. /\ Top(g) \in Frames /\ Top(g).at = place
        /\ s \in Steps /\ s = Head(Top(g).todo) /\ PlaceFacts(Top(g)) /\ ResultFacts(s)
    BY InHandFacts
  <2>. QED  BY <2>1
<1>3. /\ outcome[s] = "" /\ Top(g).err # "ok"
      /\ Top(g).err = "deadline" => s \in cut
      /\ s \in cut => Top(g).err = "deadline" \/ jobErr = "deadline" \/ Blurred(s)
  BY <1>2 DEF PlaceFacts
<1>4. /\ kind \in FailKinds
      /\ kind = "timeout" <=> (jobErr = "deadline" \/ Top(g).err = "deadline")
  BY DEF Kinds, FailKinds
<1>5. f \in Frames /\ f.todo = Top(g).todo /\ f.at = "parse" /\ f.err = Top(g).err
  BY <1>2 DEF Frames, PlaceNames
<1>6. UNCHANGED <<plan, main, outcome, ran, late, cut, jobErr, claimed, relaunch>>
  BY <1>1 DEF dagVars, contextVars
<1>7. shown'[s] = kind /\ \A t \in Steps \ {s} : shown'[t] = shown[t]
  BY <1>2 DEF IInv, DataTyped
<1>8. PlaceFacts(f)'
  <2>1. s = Head(f.todo) /\ outcome'[s] = "" /\ shown'[s] \in FailKinds /\ f.err # "ok"
    BY <1>2, <1>3, <1>4, <1>5, <1>6, <1>7
  <2>. QED  BY <1>5, <2>1 DEF PlaceFacts
<1>9. ResultFacts(s)'
  BY <1>2, <1>3, <1>4, <1>6, <1>7 DEF ResultFacts, Blurred
<1>10. OthersSame({s})
  BY <1>6, <1>7 DEF OthersSame
<1>11. DataTyped'
  BY <1>1, <1>2, <1>4 DEF IInv, DataTyped, dagVars, dataVars, contextVars
<1>. QED  BY <1>1, <1>2, <1>5, <1>6, <1>8, <1>9, <1>10, <1>11, WorkStep

(* The two halves of captureOutputs.                                       *)
LEMMA CaptureKeeps ==
  ASSUME IInv, NEW g \in Goroutines, Parse(g) \/ Merge(g) PROVE IInv'
<1>. PICK place, next, read :
       /\ place \in {"parse", "merge"} /\ next \in {"merge", "after"}
       /\ read \in Steps \cup {None}
       /\ At(g, place) /\ stack' = With(g, [Top(g) EXCEPT !.at = next, !.seen = read])
       /\ captured' \in Steps \cup {None}
       /\ UNCHANGED <<plan, main, outcome, jobFailed, dagVars, file, stored, reportVars, contextVars>>
  <2>1. CASE Parse(g)
    BY <2>1 DEF Parse, dataVars, IInv, DataTyped
  <2>2. CASE Merge(g)
    <3>1. At(g, "merge") /\ stack' = With(g, [Top(g) EXCEPT !.at = "after"])
      BY <2>2 DEF Merge, Goto
    <3>2. Top(g) \in Frames
      BY <3>1, InHandFacts
    <3>3. Top(g).seen \in Steps \cup {None}
          /\ [Top(g) EXCEPT !.at = "after"] = [Top(g) EXCEPT !.at = "after", !.seen = Top(g).seen]
      BY <3>2 DEF Frames
    <3>4. captured' \in Steps \cup {None}
      BY <2>2, <3>3 DEF Merge, IInv, DataTyped
    <3>. QED  BY <2>2, <3>1, <3>3, <3>4 DEF Merge
  <2>. QED  BY <2>1, <2>2
<1>. PICK s, f : s = InHand(g) /\ f = [Top(g) EXCEPT !.at = next, !.seen = read]
  OBVIOUS
<1>2. /\ Top(g) \in Frames /\ Top(g).at = place /\ s \in Steps /\ s = Head(Top(g).todo)
      /\ PlaceFacts(Top(g)) /\ ResultFacts(s)
  BY InHandFacts
<1>3. f \in Frames /\ f.todo = Top(g).todo /\ f.at = next /\ f.err = Top(g).err
  BY <1>2 DEF Frames, PlaceNames
<1>4. UNCHANGED <<plan, main, outcome, shown, ran, late, cut, jobErr, claimed, relaunch>>
  BY DEF dagVars, reportVars, contextVars
<1>5. PlaceFacts(f)'
  <2>1. /\ outcome[s] = ""
        /\ IF Top(g).err = "ok" THEN shown[s] \in {"ok", "cached"} ELSE shown[s] \in FailKinds
    BY <1>2 DEF PlaceFacts
  <2>2. /\ s = Head(f.todo) /\ outcome'[s] = ""
        /\ IF f.err = "ok" THEN shown'[s] \in {"ok", "cached"} ELSE shown'[s] \in FailKinds
    BY <1>2, <1>3, <1>4, <2>1
  <2>. QED  BY <1>3, <2>2 DEF PlaceFacts
<1>6. ResultFacts(s)'
  BY <1>2, <1>4 DEF ResultFacts, Blurred
<1>7. OthersSame({s})
  BY <1>4 DEF OthersSame
<1>8. DataTyped'
  BY DEF IInv, DataTyped, dagVars, reportVars, contextVars
<1>9. stack' = With(g, f) /\ At(g, place)
  OBVIOUS
<1>. QED  BY <1>3, <1>4, <1>5, <1>6, <1>7, <1>8, <1>9, WorkStep

(* runJobStep returns.                                                     *)
LEMMA ReturnStep ==
  ASSUME IInv, NEW g \in Goroutines, NEW place, At(g, place), place # "next",
         NEW result \in Results, StepReturns(g, result),
         UNCHANGED <<plan, main, dataVars, reportVars, contextVars>>,
         NEW s, s = InHand(g), result # "", result = "ok" <=> shown[s] \in {"ok", "cached"}
  PROVE  IInv'
<1>1. /\ stack[g] # <<>> /\ Top(g).at = place /\ s \in Steps /\ ResultFacts(s) /\ main # "start"
      /\ plan \in Plans /\ Shape /\ Facts /\ outcome \in [Steps -> Results]
  BY InHandFacts DEF IInv, DataTyped
<1>2. UNCHANGED <<plan, main, jobErr, shown, ran, late, cut>>
  BY DEF reportVars, contextVars
<1>3. outcome' = [outcome EXCEPT ![s] = result]
  BY DEF StepReturns
<1>4. outcome' \in [Steps -> Results] /\ outcome'[s] = result
  BY <1>1, <1>3
<1>5. ResultFacts(s)'
  BY <1>1, <1>2, <1>4 DEF ResultFacts, Blurred
<1>6. Shape' /\ Facts' /\ claimed' = claimed
  BY <1>1, <1>2, <1>5, ReturnKeeps
<1>7. g # Job => HasNeeds /\ g \in claimed /\ g \in Steps
  BY <1>1, StepsAssumption DEF Shape, Owners, Goroutines
<1>8. \/ UNCHANGED dagVars /\ jobFailed' \in BOOLEAN
      \/ g # Job /\ GoroutineEnds(g, result)
  <2>1. CASE g # Job /\ Len(stack[g]) = 1
    BY <2>1 DEF StepReturns
  <2>2. CASE ~(g # Job /\ Len(stack[g]) = 1)
    BY <2>2 DEF StepReturns, ListReturns, IInv, DataTyped
  <2>. QED  BY <2>1, <2>2
<1>9. /\ finished' \subseteq claimed /\ failed' \subseteq finished' /\ relaunch' \subseteq finished'
      /\ jobFailed' \in BOOLEAN /\ (relaunch' # {} => relaunch # {} \/ HasNeeds)
  <2>1. /\ finished \subseteq claimed /\ failed \subseteq finished /\ relaunch \subseteq finished
    BY DEF IInv, DataTyped
  <2>2. CASE UNCHANGED dagVars /\ jobFailed' \in BOOLEAN
    BY <2>1, <2>2 DEF dagVars
  <2>3. CASE g # Job /\ GoroutineEnds(g, result)
    <3>1. /\ finished' = finished \cup {g} /\ failed' \subseteq failed \cup {g}
          /\ relaunch' = relaunch \cup {g} /\ jobFailed' \in BOOLEAN
      BY <2>3 DEF GoroutineEnds
    <3>2. failed' \subseteq finished'
      BY <2>1, <3>1
    <3>. QED  BY <1>7, <2>1, <2>3, <3>1, <3>2
  <2>. QED  BY <1>8, <2>2, <2>3
<1>10. DataTyped'
  BY <1>4, <1>6, <1>9 DEF IInv, DataTyped, dataVars, reportVars, contextVars
<1>11. RelaunchOfDAG'
  BY <1>1, <1>2, <1>9 DEF IInv, RelaunchOfDAG, HasNeeds, TopLevel
<1>. QED  BY <1>6, <1>10, <1>11 DEF IInv

LEMMA IfFalseKeeps ==
  ASSUME IInv, NEW g \in Goroutines, IfFalse(g) PROVE IInv'
<1>. PICK s, result : s = InHand(g)
       /\ result = IF plan.cond[InHand(g)] = "invalid" THEN "failed" ELSE "skipped"
  OBVIOUS
<1>1. At(g, "if") /\ StepReturns(g, result)
      /\ UNCHANGED <<plan, main, dataVars, reportVars, contextVars>>
  BY DEF IfFalse
<1>2. Top(g).at = "if" /\ s = Head(Top(g).todo) /\ PlaceFacts(Top(g))
  BY <1>1, InHandFacts
<1>3. shown[s] = "none"
  BY <1>2 DEF PlaceFacts, Fresh
<1>4. result \in {"failed", "skipped"} /\ result \in Results
  BY DEF Results
<1>. QED  BY <1>1, <1>3, <1>4, ReturnStep

LEMMA ReturnOKKeeps ==
  ASSUME IInv, NEW g \in Goroutines, ReturnOK(g) PROVE IInv'
<1>. PICK s : s = InHand(g)
  OBVIOUS
<1>1. At(g, "after") /\ Top(g).err = "ok" /\ StepReturns(g, "ok")
      /\ UNCHANGED <<plan, main, dataVars, reportVars, contextVars>>
  BY DEF ReturnOK
<1>2. Top(g).at = "after" /\ s = Head(Top(g).todo) /\ PlaceFacts(Top(g))
  BY <1>1, InHandFacts
<1>3. shown[s] \in {"ok", "cached"} /\ "ok" \in Results
  BY <1>1, <1>2 DEF PlaceFacts, Results
<1>. QED  BY <1>1, <1>3, ReturnStep

LEMMA ReturnFailedKeeps ==
  ASSUME IInv, NEW g \in Goroutines, ReturnFailed(g) PROVE IInv'
<1>. PICK s, result : s = InHand(g)
       /\ result = IF InHand(g) \in plan.tolerant THEN "tolerated" ELSE "failed"
  OBVIOUS
<1>1. PICK place \in {"return", "after"} :
        At(g, place) /\ (place = "after" => Top(g).err # "ok")
  BY DEF ReturnFailed
<1>2. StepReturns(g, result) /\ UNCHANGED <<plan, main, dataVars, reportVars, contextVars>>
  BY DEF ReturnFailed
<1>3. Top(g).at = place /\ s = Head(Top(g).todo) /\ PlaceFacts(Top(g))
  BY <1>1, InHandFacts
<1>4. shown[s] \in FailKinds
  BY <1>1, <1>3 DEF PlaceFacts
<1>5. result \in {"tolerated", "failed"} /\ result \in Results
  BY DEF Results
<1>6. result # "" /\ (result = "ok" <=> shown[s] \in {"ok", "cached"})
  BY <1>4, <1>5 DEF FailKinds
<1>. QED  BY <1>1, <1>2, <1>5, <1>6, ReturnStep

LEMMA RunHandlersKeeps ==
  ASSUME IInv, NEW g \in Goroutines, RunHandlers(g) PROVE IInv'
<1>. PICK s, ret, new, r :
       /\ s = InHand(g) /\ ret = [Top(g) EXCEPT !.at = "return"]
       /\ new = Enter(plan.handlers[s], "next") /\ r = With(g, ret)[g]
  OBVIOUS
<1>1. /\ At(g, "after") /\ Top(g).err # "ok" /\ plan.handlers[s] # <<>>
      /\ stack' = [stack EXCEPT ![g] = Append(r, new)]
      /\ UNCHANGED <<plan, main, outcome, jobFailed, dagVars, dataVars, reportVars, contextVars>>
  BY DEF RunHandlers
<1>2. /\ stack[g] # <<>> /\ Top(g).at = "after" /\ s \in Steps
      /\ plan \in Plans /\ Shape /\ Facts
  BY <1>1, InHandFacts DEF IInv, DataTyped
<1>3. UNCHANGED <<plan, main, jobErr, claimed, outcome, shown, ran, late, cut>>
  BY <1>1 DEF dagVars, reportVars, contextVars
<1>4. Shape' /\ Facts'
  BY <1>1, <1>2, <1>3, HandlersKeep
<1>5. DataTyped'
  BY <1>1 DEF IInv, DataTyped, dagVars, dataVars, reportVars, contextVars
<1>6. RelaunchOfDAG'
  BY <1>1 DEF IInv, RelaunchOfDAG, HasNeeds, TopLevel, dagVars
<1>. QED  BY <1>4, <1>5, <1>6 DEF IInv

LEMMA NextStepKeeps ==
  ASSUME IInv, NEW g \in Goroutines, NextStep(g) PROVE IInv'
<1>1. /\ stack[g] # <<>> /\ Top(g).at = "next"
      /\ UNCHANGED <<plan, main, outcome, dagVars, dataVars, reportVars, contextVars>>
  BY DEF NextStep, At
<1>2. /\ Top(g) \in Frames /\ Top(g).todo \in Seq(Steps) /\ IsInjective(Top(g).todo)
      /\ FrameFacts(Top(g)) /\ plan \in Plans /\ Shape /\ Facts
  BY <1>1, TopFrame DEF IInv, DataTyped
<1>3. UNCHANGED <<plan, main, jobErr, claimed, relaunch, outcome, shown, ran, late, cut>>
  BY <1>1 DEF dagVars, reportVars, contextVars
<1>4. jobFailed' \in BOOLEAN
  BY DEF NextStep, ListReturns, IInv, DataTyped
<1>5. Shape' /\ Facts'
  <2>1. CASE Top(g).todo = <<>>
    <3>1. Pops(g)
      BY <2>1 DEF NextStep, ListReturns, Pops
    <3>. QED  BY <1>1, <1>2, <1>3, <3>1, ListEnds
  <2>2. CASE Top(g).todo # <<>>
    <3>. PICK s, f : s = InHand(g) /\ f = [Top(g) EXCEPT !.at = "if"]
      OBVIOUS
    <3>1. stack' = With(g, f)
      BY <2>2 DEF NextStep, Goto
    <3>2. s \in Steps /\ s \in Range(Top(g).todo) /\ s = Head(Top(g).todo)
      BY <1>2, <2>2, HeadAndTail DEF InHand
    <3>3. /\ f \in Frames /\ f.todo = Top(g).todo /\ f.at = "if" /\ f.tries = Top(g).tries
          /\ f.err = Top(g).err
      BY <1>2 DEF Frames, PlaceNames
    <3>4. Fresh(s) /\ Top(g).tries = 0 /\ Top(g).err = "ok"
      BY <1>1, <1>2, <3>2 DEF FrameFacts
    <3>5. Fresh(s)' /\ outcome'[s] = ""
      BY <1>3, <3>4 DEF Fresh
    <3>6. PlaceFacts(f)'
      BY <3>2, <3>3, <3>4, <3>5 DEF PlaceFacts
    <3>7. ResultFacts(s)'
      BY <1>2, <1>3, <3>2 DEF Facts, StepFacts, ResultFacts, Blurred
    <3>8. OthersSame({s})
      BY <1>3 DEF OthersSame
    <3>. QED  BY <1>1, <1>2, <1>3, <2>2, <3>1, <3>2, <3>3, <3>6, <3>7, <3>8, WorkKeeps
  <2>. QED  BY <2>1, <2>2
<1>6. DataTyped'
  BY <1>1, <1>4 DEF IInv, DataTyped, dagVars, dataVars, reportVars, contextVars
<1>7. RelaunchOfDAG'
  BY <1>3 DEF IInv, RelaunchOfDAG, HasNeeds, TopLevel
<1>. QED  BY <1>5, <1>6, <1>7 DEF IInv

(* What a scan does to the variables other than the stacks.                *)
LEMMA LaunchTyped ==
  ASSUME IInv, Launch, relaunch' \subseteq relaunch, main' \in {"start", "wait", "passed", "failed"},
         UNCHANGED <<plan, outcome, dataVars, reportVars, contextVars>>
  PROVE  DataTyped'
<1>. PICK B \in SUBSET (TopLevel \ claimed), S \in SUBSET (TopLevel \ claimed) :
       /\ claimed' = claimed \cup B \cup S /\ finished' = finished \cup B
       /\ failed' = failed \cup B /\ jobFailed' = (jobFailed \/ B # {})
  <2>1. PICK B \in SUBSET (TopLevel \ claimed) :
          LET S == {s \in TopLevel \ (claimed \cup B) : Ready(s)}
          IN  /\ claimed' = claimed \cup B \cup S /\ finished' = finished \cup B
              /\ failed' = failed \cup B /\ jobFailed' = (jobFailed \/ B # {})
    BY DEF Launch
  <2>. DEFINE S == {s \in TopLevel \ (claimed \cup B) : Ready(s)}
  <2>2. S \in SUBSET (TopLevel \ claimed)
    OBVIOUS
  <2>. QED  BY <2>1, <2>2
<1>1. TopLevel \subseteq Steps
  BY PlanNested DEF IInv, DataTyped
<1>2. /\ claimed' \subseteq Steps /\ finished' \subseteq claimed' /\ failed' \subseteq finished'
      /\ relaunch' \subseteq finished' /\ jobFailed' \in BOOLEAN
  BY <1>1 DEF IInv, DataTyped
<1>. QED  BY <1>2 DEF IInv, DataTyped, dataVars, reportVars, contextVars

LEMMA BeginKeeps ==
  ASSUME IInv, Begin PROVE IInv'
<1>0. plan \in Plans /\ Shape /\ Facts /\ relaunch = {}
  BY DEF IInv, DataTyped, RelaunchOfDAG, Begin, StartSequential, StartDAG
<1>1. CASE StartSequential
  <2>1. Shape' /\ Facts'
    BY <1>0, <1>1, SequentialKeeps
  <2>2. DataTyped'
    BY <1>1 DEF StartSequential, IInv, DataTyped, dagVars, dataVars, reportVars, contextVars
  <2>3. RelaunchOfDAG'
    BY <1>0, <1>1 DEF StartSequential, RelaunchOfDAG, dagVars
  <2>. QED  BY <2>1, <2>2, <2>3 DEF IInv
<1>2. CASE StartDAG
  <2>1. /\ HasNeeds /\ Launch /\ main' = "wait"
        /\ UNCHANGED <<plan, outcome, relaunch, dataVars, reportVars, contextVars>>
    BY <1>2 DEF StartDAG
  <2>2. Shape' /\ Facts'
    BY <1>0, <2>1, LaunchKeeps DEF reportVars, contextVars
  <2>3. DataTyped'
    BY <2>1, LaunchTyped
  <2>4. RelaunchOfDAG'
    BY <1>0, <2>1 DEF RelaunchOfDAG
  <2>. QED  BY <2>2, <2>3, <2>4 DEF IInv
<1>. QED  BY <1>1, <1>2 DEF Begin

LEMMA RelaunchKeeps ==
  ASSUME IInv, NEW g \in Goroutines, Relaunch(g) PROVE IInv'
<1>1. /\ Launch /\ relaunch' \subseteq relaunch /\ g \in relaunch
      /\ UNCHANGED <<plan, main, outcome, dataVars, reportVars, contextVars>>
  BY DEF Relaunch
<1>2. HasNeeds /\ main # "start" /\ plan \in Plans /\ Shape /\ Facts
  BY <1>1 DEF IInv, DataTyped, RelaunchOfDAG
<1>3. Shape' /\ Facts'
  BY <1>1, <1>2, LaunchKeeps DEF reportVars, contextVars
<1>4. main' \in {"start", "wait", "passed", "failed"}
  BY <1>1 DEF IInv, DataTyped
<1>5. DataTyped'
  BY <1>1, <1>4, LaunchTyped
<1>6. RelaunchOfDAG'
  BY <1>1, <1>2 DEF RelaunchOfDAG, HasNeeds, TopLevel
<1>. QED  BY <1>3, <1>5, <1>6 DEF IInv

(* The end of runSteps, and what happens to the contexts.                  *)
LEMMA RestKeeps ==
  ASSUME IInv, Return \/ SiblingFails \/ Interrupt \/ Expire \/ UNCHANGED vars PROVE IInv'
<1>1. /\ UNCHANGED <<plan, stack, outcome, jobFailed, dagVars, dataVars, reportVars>>
      /\ main' = main \/ (main = "wait" /\ main' \in {"passed", "failed"})
      /\ jobErr' = jobErr \/ (jobErr = "" /\ jobErr' \in {"canceled", "deadline"})
      /\ anyFail' \in BOOLEAN
  <2>1. anyFail \in BOOLEAN
    BY DEF IInv, DataTyped
  <2>2. CASE Return
    BY <2>1, <2>2 DEF Return, contextVars
  <2>3. CASE SiblingFails
    BY <2>1, <2>3 DEF SiblingFails
  <2>4. CASE Interrupt \/ Expire
    BY <2>1, <2>4 DEF Interrupt, Expire
  <2>5. CASE UNCHANGED vars
    BY <2>1, <2>5 DEF vars, contextVars
  <2>. QED  BY <2>2, <2>3, <2>4, <2>5
<1>2. UNCHANGED <<plan, stack, claimed, outcome, shown, ran, late, cut>>
  BY <1>1 DEF dagVars, reportVars
<1>3. plan \in Plans /\ Shape /\ Facts
  BY DEF IInv, DataTyped
<1>4. /\ main' = main \/ (main # "start" /\ main' # "start")
      /\ jobErr = "deadline" => jobErr' = "deadline"
      /\ jobErr # "" => jobErr' # ""
  BY <1>1
<1>5. Shape' /\ Facts'
  BY <1>2, <1>3, <1>4, OthersKeep
<1>6. DataTyped'
  BY <1>1 DEF IInv, DataTyped, dagVars, dataVars, reportVars
<1>7. RelaunchOfDAG'
  BY <1>1 DEF IInv, RelaunchOfDAG, HasNeeds, TopLevel, dagVars
<1>. QED  BY <1>5, <1>6, <1>7 DEF IInv

LEMMA InitIInv == Init => IInv
<1>. SUFFICES ASSUME Init PROVE IInv
  OBVIOUS
<1>1. plan \in Plans /\ main = "start" /\ stack = [g \in Goroutines |-> <<>>] /\ relaunch = {}
  BY DEF Init
<1>2. \A g \in Goroutines : stack[g] = <<>> /\ Len(stack[g]) = 0
  BY <1>1
<1>3. MaxRetries \in Nat /\ 0 \in 0..(MaxRetries + 1)
  BY PlansAssumption
<1>4. DataTyped
  BY <1>1, <1>3 DEF Init, DataTyped, Results, FailKinds
<1>5. Shape
  <2>1. stack \in [Goroutines -> Seq(Frames)]
    BY <1>1
  <2>. QED  BY <1>2, <2>1 DEF Shape, StackTyped, FromSource, Owners, Apart
<1>6. \A s \in Steps : Fresh(s)
  BY DEF Init, Fresh
<1>7. Facts
  <2>1. FramesHold
    BY <1>2 DEF FramesHold
  <2>2. ASSUME NEW s \in Steps PROVE StepFacts(s)
    <3>0. \A a : a = 0 => a <= 1
      OBVIOUS
    <3>1. ResultFacts(s)
      <4>1. late[s] <= 1 /\ outcome[s] = "" /\ shown[s] = "none"
        BY <1>6, <3>0 DEF Fresh
      <4>. QED  BY <4>1 DEF ResultFacts, FailKinds
    <3>2. HandlersFresh(s)
      BY <1>1, <1>6, PlanNested DEF HandlersFresh
    <3>. QED  BY <3>1, <3>2 DEF StepFacts
  <2>3. TopFresh
    BY <1>1, <1>6, PlanNested DEF TopFresh
  <2>. QED  BY <2>1, <2>2, <2>3 DEF Facts
<1>. QED  BY <1>1, <1>4, <1>5, <1>7 DEF IInv, RelaunchOfDAG

LEMMA NextIInv ==
  ASSUME IInv, [Next]_vars PROVE IInv'
<1>1. CASE Begin
  BY <1>1, BeginKeeps
<1>2. CASE Return \/ SiblingFails \/ Interrupt \/ Expire \/ UNCHANGED vars
  BY <1>2, RestKeeps
<1>3. ASSUME NEW g \in Goroutines, Advance(g) \/ Write(g) \/ Exits(g) PROVE IInv'
  <2>1. CASE NextStep(g)
    BY <2>1, NextStepKeeps
  <2>2. CASE IfTrue(g)
    BY <2>2, IfTrueKeeps
  <2>3. CASE IfFalse(g)
    BY <2>3, IfFalseKeeps
  <2>4. CASE CacheHit(g)
    BY <2>4, CacheHitKeeps
  <2>5. CASE FirstAttempt(g)
    BY <2>5, FirstAttemptKeeps
  <2>6. CASE Killed(g)
    BY <2>6, KilledKeeps
  <2>7. CASE Succeeds(g)
    BY <2>7, SucceedsKeeps
  <2>8. CASE Retry(g)
    BY <2>8, RetryKeeps
  <2>9. CASE BackoffOver(g)
    BY <2>9, BackoffOverKeeps
  <2>10. CASE GiveUp(g)
    BY <2>10, GiveUpKeeps
  <2>11. CASE Parse(g) \/ Merge(g)
    BY <2>11, CaptureKeeps
  <2>12. CASE ReturnOK(g)
    BY <2>12, ReturnOKKeeps
  <2>13. CASE RunHandlers(g)
    BY <2>13, RunHandlersKeeps
  <2>14. CASE ReturnFailed(g)
    BY <2>14, ReturnFailedKeeps
  <2>15. CASE Relaunch(g)
    BY <2>15, RelaunchKeeps
  <2>16. CASE Write(g)
    BY <2>16, WriteKeeps
  <2>17. CASE Exits(g)
    BY <2>17, ExitsKeeps
  <2>. QED
    BY <1>3, <2>1, <2>2, <2>3, <2>4, <2>5, <2>6, <2>7, <2>8, <2>9, <2>10, <2>11, <2>12,
       <2>13, <2>14, <2>15, <2>16, <2>17 DEF Advance
<1>. QED  BY <1>1, <1>2, <1>3 DEF Next

LEMMA InductiveInvariant == Spec => []IInv
<1>1. Init => IInv
  BY InitIInv
<1>2. IInv /\ [Next]_vars => IInv'
  BY NextIInv
<1>. QED  BY <1>1, <1>2, PTL DEF Spec

------------------------------------------------------------------------------
(* The theorems                                                            *)

(* Every variable keeps its type, and a goroutine is in a list other than  *)
(* the innermost only while it waits for the handlers of its first step.   *)
THEOREM Typing == Spec => []TypeOK
<1>1. IInv => TypeOK
  BY IInvTypeOK
<1>. QED  BY <1>1, InductiveInvariant, PTL

(* However many attempts a step has left, once the context of the job has  *)
(* ended at most one more of them comes to its end.                        *)
THEOREM RetriesAreCutShort == Spec => []RetriesStop
<1>1. IInv => RetriesStop
  BY DEF IInv, Facts, StepFacts, ResultFacts, RetriesStop
<1>. QED  BY <1>1, InductiveInvariant, PTL

(* Whatever handlers a failed step has, to any depth, they start only when *)
(* it has failed, and what it is counted as is what became of its command. *)
THEOREM HandlersAreHarmless == Spec => []HandlersChangeNothing
<1>1. IInv => HandlersChangeNothing
  <2>. SUFFICES ASSUME IInv, NEW s \in Steps
                PROVE  /\ outcome[s] # "" => (outcome[s] = "ok" <=> shown[s] \in {"ok", "cached"})
                       /\ \A i \in DOMAIN plan.handlers[s] :
                            shown[plan.handlers[s][i]] # "none" => shown[s] \in FailKinds
    BY DEF HandlersChangeNothing
  <2>1. ResultFacts(s) /\ (shown[s] \notin FailKinds => HandlersFresh(s))
    BY DEF IInv, Facts, StepFacts
  <2>2. \A i \in DOMAIN plan.handlers[s] : plan.handlers[s][i] \in Range(plan.handlers[s])
    BY DEF Range
  <2>. QED  BY <2>1, <2>2 DEF ResultFacts, HandlersFresh, Fresh
<1>. QED  BY <1>1, InductiveInvariant, PTL

(* A failure is reported as a timeout exactly if a deadline was its cause, *)
(* except that a step with a timeout of its own, in a job that runs in a   *)
(* container, may report the error of the client instead.                  *)
THEOREM TimeoutsAreNamed ==
  Spec => []((\A s \in Steps : ~(plan.container /\ s \in plan.timed)) => TimeoutsNamed)
<1>1. IInv => ((\A s \in Steps : ~(plan.container /\ s \in plan.timed)) => TimeoutsNamed)
  BY DEF IInv, Facts, StepFacts, ResultFacts, TimeoutsNamed, Blurred
<1>. QED  BY <1>1, InductiveInvariant, PTL

(* What remains of it for the other steps, also in a container.            *)
THEOREM TimeoutsHaveACause ==
  Spec => [](\A s \in Steps : shown[s] \in FailKinds =>
               /\ s \in cut /\ ~(plan.container /\ s \in plan.timed) => shown[s] = "timeout"
               /\ shown[s] = "timeout" => s \in cut \/ jobErr = "deadline")
<1>1. IInv => \A s \in Steps : shown[s] \in FailKinds =>
        /\ s \in cut /\ ~(plan.container /\ s \in plan.timed) => shown[s] = "timeout"
        /\ shown[s] = "timeout" => s \in cut \/ jobErr = "deadline"
  BY DEF IInv, Facts, StepFacts, ResultFacts, Blurred
<1>. QED  BY <1>1, InductiveInvariant, PTL

------------------------------------------------------------------------------
(* Outputs: what the last writer has written is still to be read and       *)
(* merged by its own goroutine, or something has been merged since.        *)

HoldsOutput(g) ==
  /\ stack[g] # <<>> /\ InHand(g) = file
  /\ \/ Top(g).at \in {"run", "judge", "backoff", "parse"}
     \/ Top(g).at = "merge" /\ Top(g).seen # None

Merged == captured # None /\ (~HasNeeds => captured = file)

(* Without a DAG nobody writes between the two halves of captureOutputs.   *)
SeenIsLast(g) == ~HasNeeds /\ At(g, "merge") => Top(g).seen = file

OutputInv ==
  /\ file # None => (\E g \in Goroutines : HoldsOutput(g)) \/ Merged
  /\ \A g \in Goroutines : SeenIsLast(g)

LEMMA OutputKept ==
  ASSUME OutputInv, plan' = plan, file' = file, captured' = captured \/ Merged',
         \A g \in Goroutines :
           \/ stack'[g] = stack[g]
           \/ (HoldsOutput(g) => HoldsOutput(g)' \/ Merged') /\ SeenIsLast(g)'
  PROVE  OutputInv'
<1>1. HasNeeds' = HasNeeds
  BY DEF HasNeeds, TopLevel
<1>2. ASSUME NEW g \in Goroutines PROVE SeenIsLast(g)'
  <2>1. CASE stack'[g] = stack[g]
    <3>1. At(g, "merge")' = At(g, "merge") /\ Top(g)' = Top(g)
      BY <2>1 DEF At, Top
    <3>. QED  BY <1>1, <3>1 DEF OutputInv, SeenIsLast
  <2>. QED  BY <2>1
<1>3. ASSUME NEW g \in Goroutines, HoldsOutput(g) PROVE HoldsOutput(g)' \/ Merged'
  <2>1. CASE stack'[g] = stack[g]
    BY <1>3, <2>1 DEF HoldsOutput, InHand, Top
  <2>. QED  BY <1>3, <2>1
<1>4. Merged => Merged'
  BY <1>1 DEF Merged
<1>. QED  BY <1>2, <1>3, <1>4 DEF OutputInv

(* The goroutine works on its innermost frame.                             *)
LEMMA TopReplaced ==
  ASSUME IInv, NEW g \in Goroutines, stack[g] # <<>>, NEW f \in Frames, stack' = With(g, f)
  PROVE  /\ stack'[g] # <<>> /\ Top(g)' = f
         /\ \A k \in Goroutines : k # g => stack'[k] = stack[k]
<1>1. /\ Len(stack'[g]) = Len(stack[g]) /\ stack'[g][Len(stack[g])] = f
      /\ \A k \in Goroutines \ {g} : stack'[k] = stack[k]
  BY WithFrame DEF IInv, Shape
<1>2. stack[g] \in Seq(Frames) /\ Len(stack[g]) # 0
  BY DEF IInv, Shape, StackTyped
<1>3. stack'[g] # <<>>
  BY <1>1, <1>2
<1>. QED  BY <1>1, <1>3 DEF Top

(* After a list or a stack is left, the goroutine is at no "merge".        *)
LEMMA TopPopped ==
  ASSUME IInv, NEW g \in Goroutines, stack[g] # <<>>, Pops(g)
  PROVE  /\ ~At(g, "merge")'
         /\ \A k \in Goroutines : k # g => stack'[k] = stack[k]
<1>1. /\ stack \in [Goroutines -> Seq(Frames)] /\ stack[g] \in Seq(Frames)
      /\ Len(stack[g]) \in Nat /\ Len(stack[g]) >= 1
  BY DEF IInv, Shape, StackTyped
<1>2. CASE stack' = [stack EXCEPT ![g] = <<>>]
  BY <1>1, <1>2 DEF At
<1>3. CASE Len(stack[g]) # 1 /\ stack' = [stack EXCEPT ![g] = SubSeq(@, 1, Len(@) - 1)]
  <2>. PICK q : q = SubSeq(stack[g], 1, Len(stack[g]) - 1)
    OBVIOUS
  <2>1. /\ q \in Seq(Frames) /\ Len(q) = Len(stack[g]) - 1
        /\ \A i \in 1..(Len(stack[g]) - 1) : q[i] = stack[g][i]
    BY <1>1, Popped
  <2>2. stack' = [stack EXCEPT ![g] = q]
    BY <1>3
  <2>3. stack'[g] = q /\ \A k \in Goroutines : k # g => stack'[k] = stack[k]
    BY <1>1, <2>2
  <2>4. /\ Len(stack[g]) - 1 \in 1..(Len(stack[g]) - 1) /\ Len(stack[g]) - 1 \in 1..Len(stack[g])
        /\ Len(stack[g]) - 1 < Len(stack[g])
    <3>1. \A n \in Nat : n >= 1 /\ n # 1 => n - 1 \in 1..(n - 1) /\ n - 1 \in 1..n /\ n - 1 < n
      OBVIOUS
    <3>. QED  BY <1>1, <1>3, <3>1
  <2>5. q[Len(q)].at = "return"
    BY <2>1, <2>4 DEF IInv, Shape, StackTyped
  <2>. QED  BY <2>3, <2>5 DEF At, Top
<1>. QED  BY <1>2, <1>3 DEF Pops

(* Steps of a goroutine that has nothing to read.                          *)
LEMMA IdleKeepsOutput ==
  ASSUME IInv, OutputInv, NEW g \in Goroutines, stack[g] # <<>>,
         Top(g).at \in {"next", "if", "start", "after", "return"},
         UNCHANGED <<plan, file, captured>>,
         \/ Pops(g)
         \/ \E f \in Frames : stack' = With(g, f) /\ f.at # "merge"
         \/ RunHandlers(g)
  PROVE  OutputInv'
<1>1. ~HoldsOutput(g)
  BY DEF HoldsOutput
<1>2. ~At(g, "merge")' /\ \A k \in Goroutines : k # g => stack'[k] = stack[k]
  <2>1. CASE Pops(g)
    BY <2>1, TopPopped
  <2>2. CASE \E f \in Frames : stack' = With(g, f) /\ f.at # "merge"
    <3>1. PICK f \in Frames : stack' = With(g, f) /\ f.at # "merge"
      BY <2>2
    <3>. QED  BY <3>1, TopReplaced DEF At
  <2>3. CASE RunHandlers(g)
    <3>. PICK s, ret, new, r :
           /\ s = InHand(g) /\ ret = [Top(g) EXCEPT !.at = "return"]
           /\ new = Enter(plan.handlers[s], "next") /\ r = With(g, ret)[g]
      OBVIOUS
    <3>1. At(g, "after") /\ stack' = [stack EXCEPT ![g] = Append(r, new)]
      BY <2>3 DEF RunHandlers
    <3>2. s \in Steps /\ Top(g) \in Frames /\ StackTyped /\ plan \in Plans
      BY <3>1, InHandFacts DEF IInv, DataTyped, Shape
    <3>3. ret \in Frames
      BY <3>2 DEF Frames, PlaceNames
    <3>4. plan.handlers[s] \in Seq(Steps) /\ new.at = "next"
      BY <3>2, PlanNested DEF Enter
    <3>5. new \in Frames
      BY <3>4, PlansAssumption DEF Enter, Frames, PlaceNames, ErrorNames
    <3>6. Entered(g, ret, new)
      BY <3>1, <3>2, <3>3, <3>5, HandlersEntered
    <3>. QED  BY <3>4, <3>6 DEF Entered, At, Top
  <2>. QED  BY <2>1, <2>2, <2>3
<1>3. SeenIsLast(g)'
  BY <1>2 DEF SeenIsLast
<1>. QED  BY <1>1, <1>2, <1>3, OutputKept

LEMMA ReturnsKeepOutput ==
  ASSUME IInv, OutputInv, NEW g \in Goroutines, NEW place \in {"if", "after", "return"}, At(g, place),
         NEW result, StepReturns(g, result), UNCHANGED <<plan, dataVars>>
  PROVE  OutputInv'
<1>. PICK rest : rest = Enter(Tail(Top(g).todo), "next")
  OBVIOUS
<1>1. stack[g] # <<>> /\ Top(g).at = place /\ Top(g) \in Frames /\ Top(g).todo # <<>>
  BY InHandFacts
<1>2. Pops(g) \/ stack' = With(g, rest)
  BY DEF StepReturns, GoroutineEnds, ListReturns, Pops
<1>3. rest \in Frames /\ rest.at # "merge"
  <2>1. Top(g).todo \in Seq(Steps)
    BY <1>1 DEF Frames
  <2>2. Tail(Top(g).todo) \in Seq(Steps)
    BY <1>1, <2>1, HeadTailProperties
  <2>. QED  BY <2>2, PlansAssumption DEF Enter, Frames, PlaceNames, ErrorNames
<1>. QED  BY <1>1, <1>2, <1>3, IdleKeepsOutput DEF dataVars

(* The goroutine goes on, from the run of the command to captureOutputs.   *)
LEMMA AttemptKeepsOutput ==
  ASSUME IInv, OutputInv, NEW g \in Goroutines, stack[g] # <<>>,
         NEW f \in Frames, stack' = With(g, f), f.todo = Top(g).todo,
         f.at \in {"run", "judge", "backoff", "parse"}, UNCHANGED <<plan, file, captured>>
  PROVE  OutputInv'
<1>1. /\ stack'[g] # <<>> /\ Top(g)' = f
      /\ \A k \in Goroutines : k # g => stack'[k] = stack[k]
  BY TopReplaced
<1>2. HoldsOutput(g) => HoldsOutput(g)'
  BY <1>1 DEF HoldsOutput, InHand
<1>3. SeenIsLast(g)'
  BY <1>1 DEF SeenIsLast, At
<1>. QED  BY <1>1, <1>2, <1>3, OutputKept

LEMMA WriteKeepsOutput ==
  ASSUME IInv, OutputInv, NEW g \in Goroutines, Write(g) PROVE OutputInv'
<1>1. At(g, "run") /\ file' = InHand(g) /\ UNCHANGED <<plan, stack, captured>>
  BY DEF Write
<1>2. HoldsOutput(g)'
  BY <1>1 DEF HoldsOutput, At, InHand, Top
<1>3. ASSUME NEW k \in Goroutines PROVE SeenIsLast(k)'
  <2>. SUFFICES ASSUME ~HasNeeds, At(k, "merge") PROVE FALSE
    BY <1>1 DEF SeenIsLast, HasNeeds, TopLevel, At, Top
  <2>1. k = Job /\ g = Job
    BY <1>1 DEF At, IInv, Shape, Owners
  <2>. QED  BY <1>1, <2>1 DEF At
<1>. QED  BY <1>2, <1>3 DEF OutputInv

LEMMA ParseKeepsOutput ==
  ASSUME IInv, OutputInv, NEW g \in Goroutines, Parse(g) PROVE OutputInv'
<1>. PICK f : f = [Top(g) EXCEPT !.at = "merge", !.seen = file]
  OBVIOUS
<1>1. At(g, "parse") /\ stack' = With(g, f) /\ UNCHANGED <<plan, file, captured>>
  BY DEF Parse, dataVars
<1>2. stack[g] # <<>> /\ Top(g) \in Frames /\ file \in Steps \cup {None} /\ InHand(g) \in Steps
  BY <1>1, InHandFacts DEF IInv, DataTyped
<1>3. f \in Frames /\ f.todo = Top(g).todo /\ f.at = "merge" /\ f.seen = file
  BY <1>2 DEF Frames, PlaceNames
<1>4. /\ stack'[g] # <<>> /\ Top(g)' = f
      /\ \A k \in Goroutines : k # g => stack'[k] = stack[k]
  BY <1>1, <1>2, <1>3, TopReplaced
<1>5. HoldsOutput(g) => HoldsOutput(g)'
  <2>1. HoldsOutput(g) => file # None
    BY <1>2, StepsAssumption DEF HoldsOutput
  <2>. QED  BY <1>1, <1>3, <1>4, <2>1 DEF HoldsOutput, InHand
<1>6. SeenIsLast(g)'
  BY <1>1, <1>3, <1>4 DEF SeenIsLast
<1>. QED  BY <1>1, <1>4, <1>5, <1>6, OutputKept

LEMMA MergeKeepsOutput ==
  ASSUME IInv, OutputInv, NEW g \in Goroutines, Merge(g) PROVE OutputInv'
<1>. PICK f : f = [Top(g) EXCEPT !.at = "after"]
  OBVIOUS
<1>1. /\ At(g, "merge") /\ stack' = With(g, f) /\ UNCHANGED <<plan, file>>
      /\ captured' = IF Top(g).seen # None THEN Top(g).seen ELSE captured
  BY DEF Merge, Goto
<1>2. stack[g] # <<>> /\ Top(g) \in Frames
  BY <1>1, InHandFacts
<1>3. f \in Frames /\ f.at = "after"
  BY <1>2 DEF Frames, PlaceNames
<1>4. /\ stack'[g] # <<>> /\ Top(g)' = f
      /\ \A k \in Goroutines : k # g => stack'[k] = stack[k]
  BY <1>1, <1>2, <1>3, TopReplaced
<1>5. Top(g).seen # None => Merged'
  <2>1. ~HasNeeds => Top(g).seen = file
    BY <1>1 DEF OutputInv, SeenIsLast
  <2>. QED  BY <1>1, <2>1 DEF Merged, HasNeeds, TopLevel
<1>6. captured' = captured \/ Merged'
  BY <1>1, <1>5
<1>7. HoldsOutput(g) => Merged'
  BY <1>1, <1>5 DEF HoldsOutput, At
<1>8. SeenIsLast(g)'
  BY <1>3, <1>4 DEF SeenIsLast, At
<1>. QED  BY <1>1, <1>4, <1>6, <1>7, <1>8, OutputKept

(* New goroutines have nothing to read.                                    *)
LEMMA LaunchKeepsOutput ==
  ASSUME IInv, OutputInv, Begin \/ \E g \in Goroutines : Relaunch(g) PROVE OutputInv'
<1>1. UNCHANGED <<plan, file, captured>>
  BY DEF Begin, StartSequential, StartDAG, Relaunch, dataVars
<1>2. \A g \in Goroutines : stack'[g] = stack[g] \/ (stack[g] = <<>> /\ ~At(g, "merge")')
  <2>1. stack \in [Goroutines -> Seq(Frames)]
    BY DEF IInv, Shape, StackTyped
  <2>2. CASE StartSequential
    <3>. PICK f : f = Enter(plan.order, "next")
      OBVIOUS
    <3>1. f.at = "next" /\ stack' = [stack EXCEPT ![Job] = <<f>>] /\ main = "start"
      BY <2>2 DEF StartSequential, Enter
    <3>2. \A g \in Goroutines : stack[g] = <<>>
      BY <3>1 DEF IInv, Shape, Owners
    <3>3. ASSUME NEW g \in Goroutines, g = Job PROVE ~At(g, "merge")'
      <4>1. stack'[g] = <<f>>
        BY <2>1, <3>1, <3>3
      <4>2. stack'[g][Len(stack'[g])] = f
        BY <4>1
      <4>. QED  BY <3>1, <4>2 DEF At, Top
    <3>. QED  BY <2>1, <3>1, <3>2, <3>3
  <2>3. CASE StartDAG \/ \E g \in Goroutines : Relaunch(g)
    <3>1. Launch /\ HasNeeds
      BY <2>3 DEF StartDAG, Relaunch, IInv, RelaunchOfDAG
    <3>2. PICK S \in SUBSET (TopLevel \ claimed) :
            stack' = [g \in Goroutines |-> IF g \in S THEN <<Enter(<<g>>, "if")>> ELSE stack[g]]
      <4>1. PICK B \in SUBSET (TopLevel \ claimed) :
              LET S == {s \in TopLevel \ (claimed \cup B) : Ready(s)}
              IN  stack' = [g \in Goroutines |-> IF g \in S THEN <<Enter(<<g>>, "if")>> ELSE stack[g]]
        BY <3>1 DEF Launch
      <4>. DEFINE S == {s \in TopLevel \ (claimed \cup B) : Ready(s)}
      <4>2. S \in SUBSET (TopLevel \ claimed)
        OBVIOUS
      <4>. QED  BY <4>1, <4>2
    <3>3. ASSUME NEW g \in Goroutines, g \in S PROVE stack[g] = <<>> /\ ~At(g, "merge")'
      <4>. PICK f : f = Enter(<<g>>, "if")
        OBVIOUS
      <4>1. stack'[g] = <<f>> /\ f.at = "if"
        BY <3>2, <3>3 DEF Enter
      <4>2. stack'[g][Len(stack'[g])] = f
        BY <4>1
      <4>3. stack[g] = <<>>
        BY <3>1, <3>2, <3>3 DEF IInv, Shape, Owners
      <4>. QED  BY <4>1, <4>2, <4>3 DEF At, Top
    <3>4. ASSUME NEW g \in Goroutines, g \notin S PROVE stack'[g] = stack[g]
      BY <3>2, <3>4
    <3>. QED  BY <3>3, <3>4
  <2>4. Begin => StartSequential \/ StartDAG
    BY DEF Begin
  <2>. QED  BY <2>2, <2>3, <2>4
<1>3. \A g \in Goroutines : stack[g] = <<>> => ~HoldsOutput(g)
  BY DEF HoldsOutput
<1>4. \A g \in Goroutines : ~At(g, "merge")' => SeenIsLast(g)'
  BY DEF SeenIsLast
<1>. QED  BY <1>1, <1>2, <1>3, <1>4, OutputKept

LEMMA FrameAt ==
  ASSUME NEW h \in Frames, NEW place \in PlaceNames
  PROVE  /\ [h EXCEPT !.at = place] \in Frames
         /\ [h EXCEPT !.at = place].todo = h.todo /\ [h EXCEPT !.at = place].at = place
BY DEF Frames

LEMMA IdleSteps ==
  ASSUME IInv, OutputInv, NEW g \in Goroutines,
         \/ NextStep(g) \/ IfTrue(g) \/ CacheHit(g) \/ FirstAttempt(g) \/ RunHandlers(g)
  PROVE  OutputInv'
<1>1. stack[g] # <<>> /\ UNCHANGED <<plan, file, captured>>
  BY DEF NextStep, IfTrue, CacheHit, FirstAttempt, RunHandlers, At, dataVars
<1>2. Top(g) \in Frames
  BY <1>1, TopFrame DEF IInv
<1>3. Top(g).at \in {"next", "if", "start", "after"}
  BY DEF NextStep, IfTrue, CacheHit, FirstAttempt, RunHandlers, At
<1>4. \A place \in {"if", "start", "parse"} :
        /\ [Top(g) EXCEPT !.at = place] \in Frames
        /\ [Top(g) EXCEPT !.at = place].at # "merge"
  BY <1>2, FrameAt DEF PlaceNames
<1>5. \/ Pops(g)
      \/ \E f \in Frames : stack' = With(g, f) /\ f.at # "merge"
      \/ RunHandlers(g)
  <2>1. CASE NextStep(g)
    <3>1. CASE Top(g).todo = <<>>
      BY <2>1, <3>1 DEF NextStep, ListReturns, Pops
    <3>2. CASE Top(g).todo # <<>>
      BY <1>4, <2>1, <3>2 DEF NextStep, Goto
    <3>. QED  BY <3>1, <3>2
  <2>2. CASE IfTrue(g)
    BY <1>4, <2>2 DEF IfTrue, Goto
  <2>3. CASE CacheHit(g)
    BY <1>4, <2>3 DEF CacheHit, Goto
  <2>4. CASE FirstAttempt(g)
    <3>. PICK f : f = [Top(g) EXCEPT !.at = "run", !.tries = 1]
      OBVIOUS
    <3>1. 1 \in 0..(MaxRetries + 1) /\ "run" \in PlaceNames
      BY PlansAssumption DEF PlaceNames
    <3>2. f \in Frames /\ f.at = "run"
      BY <1>2, <3>1 DEF Frames
    <3>. QED  BY <2>4, <3>2 DEF FirstAttempt
  <2>. QED  BY <2>1, <2>2, <2>3, <2>4
<1>. QED  BY <1>1, <1>3, <1>5, IdleKeepsOutput

LEMMA AttemptSteps ==
  ASSUME IInv, OutputInv, NEW g \in Goroutines,
         \/ Killed(g) \/ Exits(g) \/ Succeeds(g) \/ Retry(g) \/ BackoffOver(g) \/ GiveUp(g)
  PROVE  OutputInv'
<1>1. PICK place \in {"run", "judge", "backoff"} : At(g, place) /\ UNCHANGED <<plan, file, captured>>
  BY DEF Killed, Exits, AttemptEnds, Succeeds, Retry, BackoffOver, GiveUp, dataVars
<1>2. /\ stack[g] # <<>> /\ Top(g) \in Frames /\ InHand(g) \in Steps
      /\ Top(g).at = place /\ PlaceFacts(Top(g)) /\ InHand(g) = Head(Top(g).todo)
  BY <1>1, InHandFacts
<1>3. \E f \in Frames : /\ stack' = With(g, f) /\ f.todo = Top(g).todo
                        /\ f.at \in {"run", "judge", "backoff", "parse"}
  <2>1. CASE Killed(g) \/ Exits(g)
    <3>1. PICK cause, err : AttemptEnds(g, cause, err) /\ err \in ErrorNames
      <4>1. jobErr \in {"", "deadline", "canceled"}
        BY DEF IInv, DataTyped
      <4>. QED  BY <2>1, <4>1 DEF Killed, Exits, ErrorNames
    <3>. PICK f : f = [Top(g) EXCEPT !.at = "judge", !.err = err]
      OBVIOUS
    <3>2. f \in Frames /\ f.todo = Top(g).todo /\ f.at = "judge"
      BY <1>2, <3>1 DEF Frames, PlaceNames
    <3>. QED  BY <3>1, <3>2 DEF AttemptEnds
  <2>2. CASE Succeeds(g) \/ BackoffOver(g) \/ GiveUp(g)
    <3>1. \A p \in {"run", "parse"} :
            /\ [Top(g) EXCEPT !.at = p] \in Frames /\ [Top(g) EXCEPT !.at = p].at = p
            /\ [Top(g) EXCEPT !.at = p].todo = Top(g).todo
      <4>1. \A p \in {"run", "parse"} : p \in PlaceNames
        BY DEF PlaceNames
      <4>2. Top(g) \in Frames
        BY <1>2
      <4>. QED  BY <4>1, <4>2, FrameAt, Zenon
    <3>2. \E p \in {"run", "parse"} : stack' = With(g, [Top(g) EXCEPT !.at = p])
      BY <2>2 DEF Succeeds, BackoffOver, GiveUp, Goto
    <3>. QED  BY <3>1, <3>2
  <2>3. CASE Retry(g)
    <3>. PICK f : f = [Top(g) EXCEPT !.at = IF InHand(g) \in plan.patient THEN "backoff" ELSE "run",
                                     !.tries = @ + 1]
      OBVIOUS
    <3>1. Top(g).tries + 1 \in 0..(MaxRetries + 1)
      <4>1. plan.retries[InHand(g)] \in 0..MaxRetries /\ MaxRetries \in Nat
        BY <1>2, PlanNested, PlansAssumption DEF PlanType, IInv, DataTyped
      <4>2. Top(g).tries \in 0..(MaxRetries + 1) /\ Top(g).tries <= plan.retries[InHand(g)]
        BY <1>2, <2>3 DEF Frames, Retry
      <4>3. \A m, b, a \in Nat : a \in 0..(m + 1) /\ b \in 0..m /\ a <= b => a + 1 \in 0..(m + 1)
        OBVIOUS
      <4>4. plan.retries[InHand(g)] \in Nat /\ Top(g).tries \in Nat
        BY <4>1, <4>2
      <4>. QED  BY <4>1, <4>2, <4>3, <4>4
    <3>2. f \in Frames /\ f.todo = Top(g).todo /\ f.at \in {"backoff", "run"}
      BY <1>2, <3>1 DEF Frames, PlaceNames
    <3>. QED  BY <2>3, <3>2 DEF Retry
  <2>. QED  BY <2>1, <2>2, <2>3
<1>. QED  BY <1>1, <1>2, <1>3, AttemptKeepsOutput

LEMMA NextOutput ==
  ASSUME IInv, OutputInv, [Next]_vars PROVE OutputInv'
<1>1. CASE Begin \/ \E g \in Goroutines : Relaunch(g)
  BY <1>1, LaunchKeepsOutput
<1>2. CASE Return \/ SiblingFails \/ Interrupt \/ Expire \/ UNCHANGED vars
  <2>1. UNCHANGED <<plan, stack, file, captured>>
    BY <1>2 DEF Return, SiblingFails, Interrupt, Expire, vars, dataVars
  <2>. QED  BY <2>1, OutputKept
<1>3. ASSUME NEW g \in Goroutines, Advance(g) \/ Write(g) \/ Exits(g), ~Relaunch(g)
      PROVE  OutputInv'
  <2>1. CASE NextStep(g) \/ IfTrue(g) \/ CacheHit(g) \/ FirstAttempt(g) \/ RunHandlers(g)
    BY <2>1, IdleSteps
  <2>2. CASE Killed(g) \/ Exits(g) \/ Succeeds(g) \/ Retry(g) \/ BackoffOver(g) \/ GiveUp(g)
    BY <2>2, AttemptSteps
  <2>3. CASE IfFalse(g) \/ ReturnOK(g) \/ ReturnFailed(g)
    <3>1. PICK place, result :
            place \in {"if", "after", "return"} /\ At(g, place) /\ StepReturns(g, result) /\ UNCHANGED <<plan, dataVars>>
      BY <2>3 DEF IfFalse, ReturnOK, ReturnFailed
    <3>. QED  BY <3>1, ReturnsKeepOutput
  <2>4. CASE Parse(g)
    BY <2>4, ParseKeepsOutput
  <2>5. CASE Merge(g)
    BY <2>5, MergeKeepsOutput
  <2>6. CASE Write(g)
    BY <2>6, WriteKeepsOutput
  <2>. QED  BY <1>3, <2>1, <2>2, <2>3, <2>4, <2>5, <2>6 DEF Advance
<1>. QED  BY <1>1, <1>2, <1>3 DEF Next

(* What a step has written to $SHIP_OUTPUT is not lost when it returns,    *)
(* also if it failed, was killed or was followed by its handlers; and if   *)
(* the steps run one after the other, the value merged is the one written  *)
(* last.                                                                   *)
THEOREM OutputsAreCaptured == Spec => []OutputsCaptured
<1>1. Init => OutputInv
  BY StepsAssumption DEF Init, OutputInv, SeenIsLast, At
<1>2. IInv /\ OutputInv /\ [Next]_vars => OutputInv'
  BY NextOutput
<1>3. IInv /\ OutputInv => OutputsCaptured
  <2>. SUFFICES ASSUME IInv, OutputInv, NEW s \in Steps, outcome[s] # "", file = s
                PROVE  captured # None /\ (~HasNeeds => captured = s)
    BY DEF OutputsCaptured
  <2>1. ~\E g \in Goroutines : HoldsOutput(g)
    <3>. SUFFICES ASSUME NEW g \in Goroutines, HoldsOutput(g) PROVE FALSE
      OBVIOUS
    <3>. PICK place : place = Top(g).at
      OBVIOUS
    <3>1. At(g, place) /\ place # "next" /\ s = InHand(g)
      BY DEF HoldsOutput, At
    <3>2. outcome[s] = ""
      BY <3>1, InHandFacts
    <3>. QED  BY <3>2
  <2>. QED  BY <2>1, StepsAssumption DEF OutputInv, Merged
<1>. QED  BY <1>1, <1>2, <1>3, InductiveInvariant, PTL DEF Spec

------------------------------------------------------------------------------
(* The steps of a job are executed as DagExecution says.  What that run    *)
(* sees of a goroutine is its outermost list, and whether the first step   *)
(* of it is under way; all that the goroutine does for the handlers, and   *)
(* for a step before it returns, is invisible.                             *)

Outer(g) == IF stack[g] = <<>> THEN <<>> ELSE <<stack[g][1].at # "next", stack[g][1].todo>>

LEMMA SecondIsThere == \A n \in Nat : n >= 1 /\ n # 1 => 1 \in 1..(n - 1) /\ n - 1 # 0 /\ n - 1 # n
OBVIOUS

LEMMA OuterOf ==
  ASSUME IInv, NEW g \in Goroutines
  PROVE  /\ stack[g] = <<>> <=> Outer(g) = <<>>
         /\ stack[g] # <<>> =>
              /\ Outer(g)[1] = (stack[g][1].at # "next") /\ Outer(g)[2] = stack[g][1].todo
              /\ Outer(g)[2] \in Seq(Steps) /\ IsInjective(Outer(g)[2])
              /\ Outer(g)[1] => Outer(g)[2] # <<>>
<1>1. CASE stack[g] = <<>>
  BY <1>1 DEF Outer
<1>2. CASE stack[g] # <<>>
  <2>1. stack[g] \in Seq(Frames) /\ stack[g] # <<>>
    BY <1>2 DEF IInv, Shape, StackTyped
  <2>2. 1 \in 1..Len(stack[g]) /\ stack[g][1] \in Frames
    BY <2>1
  <2>3. /\ stack[g][1].todo \in Seq(Steps) /\ IsInjective(stack[g][1].todo)
        /\ stack[g][1].at = "next" \/ stack[g][1].todo # <<>>
    BY <2>2 DEF IInv, Shape, StackTyped, FromSource, Frames
  <2>4. Outer(g) = <<stack[g][1].at # "next", stack[g][1].todo>> /\ Outer(g) # <<>>
    BY <1>2 DEF Outer
  <2>5. Outer(g)[1] = (stack[g][1].at # "next") /\ Outer(g)[2] = stack[g][1].todo
    BY <2>4
  <2>. QED  BY <1>2, <2>3, <2>4, <2>5, Zenon
<1>. QED  BY <1>1, <1>2

(* The innermost frame is replaced: nobody sees it if there is another     *)
(* below.                                                                  *)
LEMMA OuterWith ==
  ASSUME IInv, NEW g \in Goroutines, stack[g] # <<>>, NEW f \in Frames, stack' = With(g, f)
  PROVE  /\ Len(stack[g]) = 1 => Outer(g)' = <<f.at # "next", f.todo>>
         /\ Len(stack[g]) # 1 => Outer(g)' = Outer(g)
         /\ \A k \in Goroutines \ {g} : Outer(k)' = Outer(k)
<1>1. /\ stack' \in [Goroutines -> Seq(Frames)] /\ Len(stack'[g]) = Len(stack[g])
      /\ stack'[g][Len(stack[g])] = f
      /\ \A i \in 1..(Len(stack[g]) - 1) : stack'[g][i] = stack[g][i]
      /\ \A k \in Goroutines \ {g} : stack'[k] = stack[k]
  BY WithFrame DEF IInv, Shape
<1>2. Len(stack[g]) \in Nat /\ Len(stack[g]) >= 1
  BY TopFrame DEF IInv
<1>3. stack'[g] # <<>>
  BY <1>1, <1>2
<1>4. Len(stack[g]) # 1 => stack'[g][1] = stack[g][1]
  <2>1. Len(stack[g]) # 1 => 1 \in 1..(Len(stack[g]) - 1)
    BY <1>2, SecondIsThere
  <2>. QED  BY <1>1, <2>1
<1>. QED  BY <1>1, <1>3, <1>4 DEF Outer

LEMMA OuterPops ==
  ASSUME IInv, NEW g \in Goroutines, stack[g] # <<>>, Pops(g)
  PROVE  /\ stack' = [stack EXCEPT ![g] = <<>>] => Outer(g)' = <<>>
         /\ stack' = [stack EXCEPT ![g] = SubSeq(@, 1, Len(@) - 1)] /\ Len(stack[g]) # 1
              => Outer(g)' = Outer(g)
         /\ \A k \in Goroutines \ {g} : Outer(k)' = Outer(k)
<1>1. /\ stack \in [Goroutines -> Seq(Frames)] /\ stack[g] \in Seq(Frames)
      /\ Len(stack[g]) \in Nat /\ Len(stack[g]) >= 1
  BY TopFrame DEF IInv, Shape, StackTyped
<1>2. CASE stack' = [stack EXCEPT ![g] = <<>>]
  <2>1. stack'[g] = <<>> /\ \A k \in Goroutines \ {g} : stack'[k] = stack[k]
    BY <1>1, <1>2
  <2>2. ~(stack' = [stack EXCEPT ![g] = SubSeq(@, 1, Len(@) - 1)] /\ Len(stack[g]) # 1)
    <3>. SUFFICES ASSUME stack' = [stack EXCEPT ![g] = SubSeq(@, 1, Len(@) - 1)], Len(stack[g]) # 1
                  PROVE  FALSE
      OBVIOUS
    <3>1. stack'[g] = SubSeq(stack[g], 1, Len(stack[g]) - 1)
      BY <1>1
    <3>2. Len(stack'[g]) = Len(stack[g]) - 1
      BY <1>1, <3>1, Popped
    <3>3. Len(stack'[g]) = 0
      BY <2>1
    <3>. QED  BY <1>1, <3>2, <3>3, SecondIsThere
  <2>. QED  BY <2>1, <2>2 DEF Outer
<1>3. CASE Len(stack[g]) # 1 /\ stack' = [stack EXCEPT ![g] = SubSeq(@, 1, Len(@) - 1)]
  <2>. PICK q : q = SubSeq(stack[g], 1, Len(stack[g]) - 1)
    OBVIOUS
  <2>1. /\ q \in Seq(Frames) /\ Len(q) = Len(stack[g]) - 1
        /\ \A i \in 1..(Len(stack[g]) - 1) : q[i] = stack[g][i]
    BY <1>1, Popped
  <2>2. stack' = [stack EXCEPT ![g] = q]
    BY <1>3
  <2>3. stack'[g] = q /\ \A k \in Goroutines \ {g} : stack'[k] = stack[k]
    BY <1>1, <2>2
  <2>4. q # <<>> /\ q[1] = stack[g][1]
    <3>1. 1 \in 1..(Len(stack[g]) - 1) /\ Len(q) # 0
      BY <1>1, <1>3, <2>1, SecondIsThere
    <3>. QED  BY <2>1, <3>1
  <2>5. stack'[g] # <<>>
    BY <2>3, <2>4
  <2>6. stack'[g] # [stack EXCEPT ![g] = <<>>][g]
    BY <1>1, <2>5
  <2>7. Outer(g)' = Outer(g) /\ \A k \in Goroutines \ {g} : Outer(k)' = Outer(k)
    BY <2>3, <2>4, <2>5 DEF Outer
  <2>. QED  BY <2>6, <2>7
<1>. QED  BY <1>2, <1>3 DEF Pops

LEMMA OuterEntered ==
  ASSUME IInv, NEW g \in Goroutines, stack[g] # <<>>, NEW ret, NEW new, Entered(g, ret, new),
         ret.at # "next", Top(g).at # "next", ret.todo = Top(g).todo
  PROVE  \A k \in Goroutines : Outer(k)' = Outer(k)
<1>1. Len(stack[g]) \in Nat /\ Len(stack[g]) >= 1
  BY TopFrame DEF IInv
<1>2. stack'[g] # <<>>
  <2>1. Len(stack'[g]) = Len(stack[g]) + 1
    BY DEF Entered
  <2>. QED  BY <1>1, <2>1
<1>3. Outer(g)' = Outer(g)
  <2>1. CASE Len(stack[g]) = 1
    BY <1>2, <2>1 DEF Entered, Outer, Top
  <2>2. CASE Len(stack[g]) # 1
    <3>1. 1 \in 1..(Len(stack[g]) - 1)
      BY <1>1, <2>2, SecondIsThere
    <3>2. stack'[g][1] = stack[g][1]
      BY <3>1 DEF Entered
    <3>. QED  BY <1>2, <3>2 DEF Outer
  <2>. QED  BY <2>1, <2>2
<1>4. \A k \in Goroutines \ {g} : Outer(k)' = Outer(k)
  BY DEF Entered, Outer
<1>. QED  BY <1>3, <1>4

Good == {"ok", "skipped", "tolerated"}

(* A graph of steps: a goroutine is at the step it was started for until   *)
(* the step is marked as finished, and whoever marks one calls launch      *)
(* afterwards, so that no step that is ready is forgotten.                 *)
GraphInv == HasNeeds =>
  /\ claimed \subseteq TopLevel
  /\ \A s \in claimed \ finished : Outer(s) # <<>>
  /\ \A s \in TopLevel : Outer(s) # <<>> => s \notin finished /\ Outer(s)[1]
  /\ \A s \in finished : IF s \in failed THEN outcome[s] \in {"", "failed"} ELSE outcome[s] \in Good
  /\ \A s \in TopLevel \ finished : outcome[s] = ""
  /\ jobFailed <=> failed # {}
  /\ main = "start" => claimed = {}
  /\ main # "start" => relaunch # {} \/ \A s \in TopLevel \ claimed : ~Ready(s)

(* A list of steps, of which n have ended well.                            *)
Progress(n) ==
  /\ \A i \in 1..Len(plan.order) :
       /\ i <= n => outcome[plan.order[i]] \in Good
       /\ i = n + 1 => outcome[plan.order[i]] = IF Outer(Job) = <<>> THEN "failed" ELSE ""
       /\ i > n + 1 => outcome[plan.order[i]] = ""
  /\ Outer(Job) = <<>> => (jobFailed <=> n < Len(plan.order))
  /\ Outer(Job) # <<>> =>
       /\ ~jobFailed
       /\ Len(Outer(Job)[2]) = Len(plan.order) - n
       /\ \A i \in 1..Len(Outer(Job)[2]) : Outer(Job)[2][i] = plan.order[n+i]

ListInv == ~HasNeeds =>
  /\ claimed = {}
  /\ main = "start" => ~jobFailed
  /\ main # "start" => \E n \in 0..Len(plan.order) : Progress(n)

RunInv == GraphInv /\ ListInv /\ (Over => relaunch = {} /\ \A g \in Goroutines : Outer(g) = <<>>)

------------------------------------------------------------------------------
(* What the steps of a goroutine do to that                                *)

Inside ==
  /\ UNCHANGED <<plan, main, jobFailed, claimed, finished, failed, relaunch>>
  /\ \A s \in TopLevel : outcome'[s] = outcome[s]
  /\ \A g \in Goroutines : Outer(g)' = Outer(g)

TakesUp ==
  /\ ~HasNeeds /\ UNCHANGED <<plan, main, jobFailed, outcome, claimed, finished, failed, relaunch>>
  /\ Outer(Job) # <<>> /\ ~Outer(Job)[1] /\ Outer(Job)[2] # <<>>
  /\ Outer(Job)' = <<TRUE, Outer(Job)[2]>>

ListDone ==
  /\ ~HasNeeds /\ UNCHANGED <<plan, main, outcome, claimed, finished, failed, relaunch>>
  /\ Outer(Job) # <<>> /\ ~Outer(Job)[1] /\ Outer(Job)[2] = <<>>
  /\ Outer(Job)' = <<>> /\ ~jobFailed'

Comes(s, result) ==
  /\ s \in TopLevel /\ result \in Good \cup {"failed"} /\ outcome[s] = ""
  /\ outcome' = [outcome EXCEPT ![s] = result]
  /\ UNCHANGED <<plan, main, claimed>>

GoroutineComes(s, result) ==
  /\ Comes(s, result) /\ HasNeeds /\ Outer(s) # <<>> /\ Outer(s)' = <<>>
  /\ \A g \in Goroutines \ {s} : Outer(g)' = Outer(g)
  /\ finished' = finished \cup {s} /\ relaunch' = relaunch \cup {s}
  /\ failed' = IF result = "failed" THEN failed \cup {s} ELSE failed
  /\ jobFailed' = (jobFailed \/ result = "failed")

ListComes(s, result) ==
  /\ Comes(s, result) /\ ~HasNeeds /\ UNCHANGED <<finished, failed, relaunch>>
  /\ Outer(Job) # <<>> /\ Outer(Job)[1] /\ s = Head(Outer(Job)[2])
  /\ IF result = "failed" THEN Outer(Job)' = <<>> /\ jobFailed'
     ELSE Outer(Job)' = <<FALSE, Tail(Outer(Job)[2])>> /\ jobFailed' = jobFailed

LEMMA OneLess == \A n \in Nat : n >= 1 /\ n # 1 => n - 1 \in 1..n /\ n - 1 < n /\ n > 1
OBVIOUS

LEMMA HandNotTop ==
  ASSUME IInv, NEW g \in Goroutines, stack[g] # <<>>, Top(g).at # "next"
  PROVE  /\ Len(stack[g]) # 1 => InHand(g) \notin TopLevel
         /\ Len(stack[g]) = 1 => InHand(g) \in TopLevel /\ (g # Job => InHand(g) = g)
<1>1. /\ stack[g] \in Seq(Frames) /\ Len(stack[g]) \in Nat /\ Len(stack[g]) >= 1
      /\ Top(g) \in Frames /\ Top(g).todo \in Seq(Steps) /\ Top(g).todo # <<>>
      /\ IsInjective(Top(g).todo) /\ plan \in Plans
  BY TopFrame DEF IInv, Shape, StackTyped, DataTyped
<1>. PICK n, s : n = Len(stack[g]) /\ s = InHand(g)
  OBVIOUS
<1>2. n \in Nat /\ n \in 1..n /\ Top(g) = stack[g][n] /\ n >= 1
  BY <1>1 DEF Top
<1>3. s \in Range(stack[g][n].todo)
  BY <1>1, <1>2, HeadAndTail DEF InHand
<1>4. s \in Range(Source(g, n))
  BY <1>2, <1>3 DEF IInv, Shape, FromSource
<1>5. CASE n # 1
  <2>. DEFINE f == stack[g][n-1]
  <2>1. n - 1 \in 1..Len(stack[g]) /\ n - 1 < Len(stack[g]) /\ n > 1
    <3>1. n - 1 \in 1..n /\ n - 1 < n /\ n > 1
      BY <1>2, <1>5, OneLess
    <3>. QED  BY <3>1
  <2>2. f \in Frames /\ f.at = "return" /\ f.todo # <<>> /\ IsInjective(f.todo) /\ f.todo \in Seq(Steps)
    <3>1. f \in Frames /\ f.at = "return"
      BY <1>1, <2>1 DEF IInv, Shape, StackTyped
    <3>. QED  BY <2>1, <3>1 DEF IInv, Shape, StackTyped, FromSource, Frames
  <2>3. Head(f.todo) \in Steps
    BY <2>2, HeadAndTail
  <2>4. s \in Range(plan.handlers[Head(f.todo)])
    BY <1>4, <2>1 DEF Source
  <2>. QED  BY <1>1, <1>5, <2>3, <2>4, PlanNested
<1>6. CASE n = 1
  <2>1. CASE g = Job
    BY <1>4, <1>6, <2>1 DEF Source, TopLevel
  <2>2. CASE g # Job
    <3>1. g \in TopLevel
      BY <1>1, <2>2 DEF IInv, Shape, Owners
    <3>2. Source(g, 1) = <<g>> /\ Range(<<g>>) = {g}
      BY <2>2 DEF Source, Range
    <3>. QED  BY <1>4, <1>6, <3>1, <3>2
  <2>. QED  BY <2>1, <2>2
<1>. QED  BY <1>5, <1>6

(* runJobStep returns: it is invisible for a handler, and else the step    *)
(* comes to its end.                                                       *)
LEMMA ReturnsCome ==
  ASSUME IInv, RunInv, NEW g \in Goroutines, NEW place, At(g, place), place # "next",
         NEW s, s = InHand(g),
         NEW result \in Good \cup {"failed"}, StepReturns(g, result), UNCHANGED <<plan, main>>
  PROVE  Inside \/ GoroutineComes(s, result) \/ ListComes(s, result)
<1>1. /\ stack[g] # <<>> /\ Top(g) \in Frames /\ Top(g).at = place /\ Top(g).todo # <<>>
      /\ s \in Steps /\ s = Head(Top(g).todo) /\ outcome[s] = "" /\ FrameFacts(Top(g))
  BY InHandFacts
<1>2. outcome' = [outcome EXCEPT ![s] = result] /\ outcome \in [Steps -> Results]
  BY DEF StepReturns, IInv, DataTyped
<1>. PICK rest : rest = Enter(Tail(Top(g).todo), "next")
  OBVIOUS
<1>3. rest \in Frames /\ rest.at = "next" /\ rest.todo = Tail(Top(g).todo)
  <2>1. Tail(Top(g).todo) \in Seq(Steps)
    BY <1>1, TopFrame, HeadAndTail DEF IInv
  <2>. QED  BY <2>1, PlansAssumption DEF Enter, Frames, PlaceNames, ErrorNames
<1>4. Len(stack[g]) \in Nat /\ Len(stack[g]) >= 1
  BY <1>1, TopFrame DEF IInv
<1>5. /\ g = Job <=> ~HasNeeds
      /\ g # Job => g \in Steps
  <2>1. TopLevel \subseteq Steps
    BY PlanNested DEF IInv, DataTyped
  <2>. QED  BY <1>1, <2>1, StepsAssumption DEF IInv, Shape, Owners
<1>6. CASE Len(stack[g]) # 1
  <2>1. UNCHANGED dagVars /\ jobFailed' = jobFailed
    BY <1>6 DEF StepReturns, ListReturns
  <2>2. \/ stack' = [stack EXCEPT ![g] = SubSeq(@, 1, Len(@) - 1)]
        \/ stack' = With(g, rest)
    BY <1>6 DEF StepReturns, ListReturns
  <2>3. \A k \in Goroutines : Outer(k)' = Outer(k)
    <3>1. CASE stack' = [stack EXCEPT ![g] = SubSeq(@, 1, Len(@) - 1)]
      BY <1>1, <1>6, <3>1, OuterPops DEF Pops
    <3>2. CASE stack' = With(g, rest)
      BY <1>1, <1>3, <1>6, <3>2, OuterWith
    <3>. QED  BY <2>2, <3>1, <3>2
  <2>4. s \notin TopLevel
    BY <1>1, <1>6, HandNotTop
  <2>5. \A t \in TopLevel : outcome'[t] = outcome[t]
    BY <1>2, <2>4
  <2>. QED  BY <2>1, <2>3, <2>5 DEF Inside, dagVars
<1>7. CASE Len(stack[g]) = 1
  <2>1. s \in TopLevel /\ (g # Job => s = g)
    BY <1>1, <1>7, HandNotTop
  <2>2. Outer(g) # <<>> /\ Outer(g)[1] /\ Outer(g)[2] = Top(g).todo
    <3>1. Top(g) = stack[g][1]
      BY <1>7 DEF Top
    <3>. QED  BY <1>1, <3>1, OuterOf
  <2>3. stack' = [stack EXCEPT ![g] = <<>>] => /\ Outer(g)' = <<>>
                                               /\ \A k \in Goroutines \ {g} : Outer(k)' = Outer(k)
    BY <1>1, OuterPops DEF Pops
  <2>4. CASE g # Job
    <3>1. GoroutineEnds(g, result)
      BY <1>7, <2>4 DEF StepReturns
    <3>2. /\ stack' = [stack EXCEPT ![g] = <<>>] /\ finished' = finished \cup {g}
          /\ failed' = IF result = "failed" THEN failed \cup {g} ELSE failed
          /\ jobFailed' = (jobFailed \/ result = "failed")
          /\ relaunch' = relaunch \cup {g} /\ claimed' = claimed
      BY <3>1 DEF GoroutineEnds
    <3>3. Comes(s, result)
      BY <1>1, <1>2, <2>1, <3>2 DEF Comes
    <3>. QED  BY <1>5, <2>1, <2>2, <2>3, <2>4, <3>2, <3>3 DEF GoroutineComes
  <2>5. CASE g = Job
    <3>1. UNCHANGED <<claimed, finished, failed, relaunch>>
      BY <2>5 DEF StepReturns, dagVars
    <3>2. Comes(s, result)
      BY <1>1, <1>2, <2>1, <3>1 DEF Comes
    <3>3. CASE result = "failed"
      <4>1. stack' = [stack EXCEPT ![g] = <<>>] /\ jobFailed' = TRUE
        BY <1>7, <2>5, <3>3 DEF StepReturns, ListReturns
      <4>. QED  BY <1>1, <1>5, <2>2, <2>3, <2>5, <3>1, <3>2, <3>3, <4>1 DEF ListComes
    <3>4. CASE result # "failed"
      <4>1. stack' = With(g, rest) /\ jobFailed' = jobFailed
        BY <1>7, <2>5, <3>4 DEF StepReturns
      <4>2. Outer(g)' = <<FALSE, Tail(Top(g).todo)>>
        BY <1>1, <1>3, <1>7, <4>1, OuterWith
      <4>. QED  BY <1>1, <1>5, <2>2, <2>5, <3>1, <3>2, <3>4, <4>1, <4>2 DEF ListComes
    <3>. QED  BY <3>3, <3>4
  <2>. QED  BY <2>4, <2>5
<1>. QED  BY <1>6, <1>7

Works(g) ==
  \/ IfTrue(g) \/ CacheHit(g) \/ FirstAttempt(g) \/ Killed(g) \/ Exits(g)
  \/ Succeeds(g) \/ Retry(g) \/ BackoffOver(g) \/ GiveUp(g) \/ Parse(g) \/ Merge(g)

(* The goroutine goes on with the step in hand: that is invisible.         *)
LEMMA WorkFrames ==
  ASSUME IInv, NEW g \in Goroutines, Works(g)
  PROVE  \E f \in Frames : stack' = With(g, f) /\ f.todo = Top(g).todo /\ f.at # "next"
<1>1. PICK place \in {"if", "start", "run", "judge", "backoff", "parse", "merge"} : At(g, place)
  BY DEF Works, IfTrue, CacheHit, FirstAttempt, Killed, Exits, AttemptEnds, Succeeds, Retry,
         BackoffOver, GiveUp, Parse, Merge
<1>2. Top(g) \in Frames /\ InHand(g) \in Steps
  BY <1>1, InHandFacts
<1>3. CASE IfTrue(g) \/ CacheHit(g) \/ Succeeds(g) \/ BackoffOver(g) \/ GiveUp(g) \/ Merge(g)
  <2>1. \E p \in {"start", "run", "parse", "after"} : stack' = With(g, [Top(g) EXCEPT !.at = p])
    BY <1>3 DEF IfTrue, CacheHit, Succeeds, BackoffOver, GiveUp, Merge, Goto
  <2>2. \A p \in {"start", "run", "parse", "after"} : p \in PlaceNames /\ p # "next"
    BY DEF PlaceNames
  <2>. QED  BY <1>2, <2>1, <2>2, FrameAt
<1>4. CASE FirstAttempt(g)
  <2>. PICK f : f = [Top(g) EXCEPT !.at = "run", !.tries = 1]
    OBVIOUS
  <2>1. 1 \in 0..(MaxRetries + 1) /\ "run" \in PlaceNames
    BY PlansAssumption DEF PlaceNames
  <2>2. f \in Frames /\ f.at = "run" /\ f.todo = Top(g).todo
    BY <1>2, <2>1 DEF Frames
  <2>. QED  BY <1>4, <2>2 DEF FirstAttempt
<1>5. CASE Killed(g) \/ Exits(g)
  <2>1. PICK cause, err : AttemptEnds(g, cause, err) /\ err \in ErrorNames
    <3>1. jobErr \in {"", "deadline", "canceled"}
      BY DEF IInv, DataTyped
    <3>. QED  BY <1>5, <3>1 DEF Killed, Exits, ErrorNames
  <2>. PICK f : f = [Top(g) EXCEPT !.at = "judge", !.err = err]
    OBVIOUS
  <2>2. f \in Frames /\ f.todo = Top(g).todo /\ f.at = "judge"
    BY <1>2, <2>1 DEF Frames, PlaceNames
  <2>. QED  BY <2>1, <2>2 DEF AttemptEnds
<1>6. CASE Retry(g)
  <2>. PICK f : f = [Top(g) EXCEPT !.at = IF InHand(g) \in plan.patient THEN "backoff" ELSE "run",
                                   !.tries = @ + 1]
    OBVIOUS
  <2>1. Top(g).tries + 1 \in 0..(MaxRetries + 1)
    <3>1. plan.retries[InHand(g)] \in 0..MaxRetries /\ MaxRetries \in Nat
      BY <1>2, PlanNested, PlansAssumption DEF PlanType, IInv, DataTyped
    <3>2. Top(g).tries \in 0..(MaxRetries + 1) /\ Top(g).tries <= plan.retries[InHand(g)]
      BY <1>2, <1>6 DEF Frames, Retry
    <3>3. \A m, b, a \in Nat : a \in 0..(m + 1) /\ b \in 0..m /\ a <= b => a + 1 \in 0..(m + 1)
      OBVIOUS
    <3>4. plan.retries[InHand(g)] \in Nat /\ Top(g).tries \in Nat
      BY <3>1, <3>2
    <3>. QED  BY <3>1, <3>2, <3>3, <3>4
  <2>2. f \in Frames /\ f.todo = Top(g).todo /\ f.at \in {"backoff", "run"}
    BY <1>2, <2>1 DEF Frames, PlaceNames
  <2>. QED  BY <1>6, <2>2 DEF Retry
<1>7. CASE Parse(g)
  <2>. PICK f : f = [Top(g) EXCEPT !.at = "merge", !.seen = file]
    OBVIOUS
  <2>1. file \in Steps \cup {None}
    BY DEF IInv, DataTyped
  <2>2. f \in Frames /\ f.todo = Top(g).todo /\ f.at = "merge"
    BY <1>2, <2>1 DEF Frames, PlaceNames
  <2>. QED  BY <1>7, <2>2 DEF Parse
<1>. QED  BY <1>3, <1>4, <1>5, <1>6, <1>7 DEF Works

LEMMA WorkInside ==
  ASSUME IInv, NEW g \in Goroutines, Works(g)
  PROVE  Inside
<1>1. UNCHANGED <<plan, main, jobFailed, outcome, dagVars>>
  BY DEF Works, IfTrue, CacheHit, FirstAttempt, Killed, Exits, AttemptEnds, Succeeds, Retry,
         BackoffOver, GiveUp, Parse, Merge
<1>2. PICK place \in {"if", "start", "run", "judge", "backoff", "parse", "merge"} : At(g, place)
  BY DEF Works, IfTrue, CacheHit, FirstAttempt, Killed, Exits, AttemptEnds, Succeeds, Retry,
         BackoffOver, GiveUp, Parse, Merge
<1>3. stack[g] # <<>> /\ Top(g).at # "next"
  BY <1>2 DEF At
<1>4. PICK f \in Frames : stack' = With(g, f) /\ f.todo = Top(g).todo /\ f.at # "next"
  BY WorkFrames
<1>5. /\ Len(stack[g]) = 1 => Outer(g)' = <<f.at # "next", f.todo>>
      /\ Len(stack[g]) # 1 => Outer(g)' = Outer(g)
      /\ \A k \in Goroutines \ {g} : Outer(k)' = Outer(k)
  BY <1>3, <1>4, OuterWith
<1>6. Len(stack[g]) = 1 => Outer(g) = <<Top(g).at # "next", Top(g).todo>>
  BY <1>3 DEF Outer, Top
<1>7. Len(stack[g]) = 1 => Outer(g)' = Outer(g)
  <2>1. (f.at # "next") = (Top(g).at # "next")
    BY <1>3, <1>4
  <2>. QED  BY <1>4, <1>5, <1>6, <2>1
<1>8. \A k \in Goroutines : Outer(k)' = Outer(k)
  BY <1>5, <1>7
<1>. QED  BY <1>1, <1>8 DEF Inside, dagVars

(* Taking up a step, or being done with the list, is visible of the list   *)
(* of the job only.                                                        *)
LEMMA NextStepCases ==
  ASSUME IInv, RunInv, NEW g \in Goroutines, NextStep(g)
  PROVE  Inside \/ TakesUp \/ ListDone
<1>1. /\ stack[g] # <<>> /\ Top(g).at = "next"
      /\ UNCHANGED <<plan, main, outcome, dagVars>>
  BY DEF NextStep, At
<1>2. /\ Len(stack[g]) \in Nat /\ Len(stack[g]) >= 1 /\ Top(g) \in Frames
  BY <1>1, TopFrame DEF IInv
<1>3. CASE Len(stack[g]) # 1
  <2>1. jobFailed' = jobFailed
    BY <1>3 DEF NextStep, ListReturns
  <2>2. \A k \in Goroutines : Outer(k)' = Outer(k)
    <3>1. CASE Top(g).todo = <<>>
      <4>1. stack' = [stack EXCEPT ![g] = SubSeq(@, 1, Len(@) - 1)]
        BY <1>3, <3>1 DEF NextStep, ListReturns
      <4>. QED  BY <1>1, <1>3, <4>1, OuterPops DEF Pops
    <3>2. CASE Top(g).todo # <<>>
      <4>1. PICK f \in Frames : stack' = With(g, f)
        <5>1. "if" \in PlaceNames
          BY DEF PlaceNames
        <5>. QED  BY <1>2, <3>2, <5>1, FrameAt DEF NextStep, Goto
      <4>. QED  BY <1>1, <1>3, <4>1, OuterWith
    <3>. QED  BY <3>1, <3>2
  <2>. QED  BY <1>1, <2>1, <2>2 DEF Inside, dagVars
<1>4. CASE Len(stack[g]) = 1
  <2>1. Outer(g) # <<>> /\ Outer(g) = <<FALSE, Top(g).todo>>
    BY <1>1, <1>4 DEF Outer, Top
  <2>2. ~Outer(g)[1] /\ Outer(g)[2] = Top(g).todo
    BY <2>1
  <2>3. ~HasNeeds /\ g = Job
    <3>1. HasNeeds => g \in TopLevel
      BY <1>1 DEF IInv, Shape, Owners
    <3>2. ~HasNeeds
      BY <2>1, <2>2, <3>1 DEF RunInv, GraphInv
    <3>. QED  BY <1>1, <3>2 DEF IInv, Shape, Owners
  <2>4. CASE Top(g).todo = <<>>
    <3>1. stack' = [stack EXCEPT ![g] = <<>>] /\ ~jobFailed'
      BY <1>4, <2>4 DEF NextStep, ListReturns
    <3>2. Outer(g)' = <<>>
      BY <1>1, <3>1, OuterPops DEF Pops
    <3>. QED  BY <1>1, <2>1, <2>2, <2>3, <2>4, <3>1, <3>2 DEF ListDone, dagVars
  <2>5. CASE Top(g).todo # <<>>
    <3>. PICK f : f = [Top(g) EXCEPT !.at = "if"]
      OBVIOUS
    <3>1. f \in Frames /\ f.at = "if" /\ f.todo = Top(g).todo
      <4>1. "if" \in PlaceNames
        BY DEF PlaceNames
      <4>. QED  BY <1>2, <4>1, FrameAt
    <3>2. stack' = With(g, f) /\ jobFailed' = jobFailed
      BY <2>5 DEF NextStep, Goto
    <3>3. Outer(g)' = <<f.at # "next", f.todo>>
      BY <1>1, <1>4, <3>1, <3>2, OuterWith
    <3>4. Outer(g)' = <<TRUE, Outer(g)[2]>>
      BY <2>2, <3>1, <3>3
    <3>. QED  BY <1>1, <2>1, <2>2, <2>3, <2>5, <3>2, <3>4 DEF TakesUp, dagVars
  <2>. QED  BY <2>4, <2>5
<1>. QED  BY <1>3, <1>4

LEMMA HandlersInside ==
  ASSUME IInv, NEW g \in Goroutines, RunHandlers(g)
  PROVE  Inside
<1>. PICK s, ret, new, r :
       /\ s = InHand(g) /\ ret = [Top(g) EXCEPT !.at = "return"]
       /\ new = Enter(plan.handlers[s], "next") /\ r = With(g, ret)[g]
  OBVIOUS
<1>1. /\ At(g, "after") /\ stack' = [stack EXCEPT ![g] = Append(r, new)]
      /\ UNCHANGED <<plan, main, outcome, jobFailed, dagVars>>
  BY DEF RunHandlers
<1>2. stack[g] # <<>> /\ Top(g).at = "after" /\ s \in Steps /\ Top(g) \in Frames
  BY <1>1, InHandFacts
<1>3. ret \in Frames /\ ret.at = "return" /\ ret.todo = Top(g).todo
  BY <1>2, FrameAt DEF PlaceNames
<1>4. new \in Frames
  <2>1. plan.handlers[s] \in Seq(Steps)
    BY <1>2, PlanNested DEF IInv, DataTyped
  <2>. QED  BY <2>1, PlansAssumption DEF Enter, Frames, PlaceNames, ErrorNames
<1>5. Entered(g, ret, new)
  BY <1>1, <1>2, <1>3, <1>4, HandlersEntered DEF IInv, Shape
<1>6. \A k \in Goroutines : Outer(k)' = Outer(k)
  BY <1>2, <1>3, <1>5, OuterEntered
<1>. QED  BY <1>1, <1>6 DEF Inside, dagVars

(* What a goroutine may do, but for its call of launch.                    *)
Visible ==
  \/ Inside \/ TakesUp \/ ListDone
  \/ \E s \in Steps, result \in Good \cup {"failed"} : GoroutineComes(s, result) \/ ListComes(s, result)

LEMMA GoroutineCases ==
  ASSUME IInv, RunInv, NEW g \in Goroutines, Advance(g) \/ Write(g) \/ Exits(g), ~Relaunch(g)
  PROVE  Visible
<1>1. CASE Works(g)
  BY <1>1, WorkInside DEF Visible
<1>2. CASE Write(g)
  BY <1>2 DEF Write, Visible, Inside, Outer, dagVars
<1>3. CASE NextStep(g)
  BY <1>3, NextStepCases DEF Visible
<1>4. CASE RunHandlers(g)
  BY <1>4, HandlersInside DEF Visible
<1>5. CASE IfFalse(g) \/ ReturnOK(g) \/ ReturnFailed(g)
  <2>1. PICK place, result :
          /\ At(g, place) /\ place # "next" /\ result \in Good \cup {"failed"}
          /\ StepReturns(g, result) /\ UNCHANGED <<plan, main>>
    <3>1. CASE IfFalse(g)
      BY <3>1 DEF IfFalse, Good
    <3>2. CASE ReturnOK(g)
      BY <3>2 DEF ReturnOK, Good
    <3>3. CASE ReturnFailed(g)
      BY <3>3 DEF ReturnFailed, Good
    <3>. QED  BY <1>5, <3>1, <3>2, <3>3
  <2>. PICK s : s = InHand(g)
    OBVIOUS
  <2>2. s \in Steps
    BY <2>1, InHandFacts
  <2>3. Inside \/ GoroutineComes(s, result) \/ ListComes(s, result)
    BY <2>1, ReturnsCome
  <2>. QED  BY <2>1, <2>2, <2>3 DEF Visible
<1>. QED  BY <1>1, <1>2, <1>3, <1>4, <1>5 DEF Advance, Works

(* The invariant is kept by what is visible of a goroutine, ...            *)
SamePlan == plan' = plan /\ main' = main /\ claimed' = claimed

LEMMA OuterWaits ==
  ASSUME IInv, RunInv, NEW g \in Goroutines, Outer(g) # <<>>
  PROVE  main = "wait" /\ ~Over
<1>1. stack[g] # <<>>
  BY OuterOf
<1>2. main # "start" /\ ~Over
  BY <1>1, TopFrame DEF IInv, RunInv
<1>. QED  BY <1>2 DEF IInv, DataTyped, Over

LEMMA PlanSame ==
  ASSUME plan' = plan
  PROVE  TopLevel' = TopLevel /\ HasNeeds' = HasNeeds
BY DEF TopLevel, HasNeeds

LEMMA InsideKeeps ==
  ASSUME IInv, RunInv, Inside
  PROVE  RunInv'
<1>1. /\ plan' = plan /\ main' = main /\ jobFailed' = jobFailed /\ claimed' = claimed
      /\ finished' = finished /\ failed' = failed /\ relaunch' = relaunch
      /\ \A s \in TopLevel : outcome'[s] = outcome[s]
      /\ \A g \in Goroutines : Outer(g)' = Outer(g)
  BY DEF Inside
<1>2. TopLevel' = TopLevel /\ HasNeeds' = HasNeeds /\ TopLevel \subseteq Steps
      /\ plan.order \in Seq(Steps)
  BY <1>1, PlanSame, PlanNested DEF IInv, DataTyped
<1>3. Steps \subseteq Goroutines /\ Job \in Goroutines
  BY DEF Goroutines
<1>4. GraphInv'
  <2>. SUFFICES ASSUME HasNeeds
                PROVE  /\ claimed \subseteq TopLevel
                       /\ \A s \in claimed \ finished : Outer(s)' # <<>>
                       /\ \A s \in TopLevel : Outer(s)' # <<>> => s \notin finished /\ Outer(s)'[1]
                       /\ \A s \in finished : IF s \in failed THEN outcome'[s] \in {"", "failed"}
                                                              ELSE outcome'[s] \in Good
                       /\ \A s \in TopLevel \ finished : outcome'[s] = ""
                       /\ jobFailed <=> failed # {}
                       /\ main = "start" => claimed = {}
                       /\ main # "start" => relaunch # {} \/ \A s \in TopLevel \ claimed : ~Ready(s)'
    BY <1>1, <1>2 DEF GraphInv
  <2>1. GraphInv /\ finished \subseteq claimed
    BY DEF RunInv, IInv, DataTyped
  <2>2. \A s \in TopLevel : Outer(s)' = Outer(s) /\ Ready(s)' = Ready(s)
    BY <1>1, <1>2, <1>3 DEF Ready
  <2>3. claimed \subseteq TopLevel /\ finished \subseteq TopLevel
    BY <2>1 DEF GraphInv
  <2>. QED  BY <1>1, <2>1, <2>2, <2>3 DEF GraphInv
<1>5. ListInv'
  <2>. SUFFICES ASSUME ~HasNeeds
                PROVE  /\ claimed = {}
                       /\ main = "start" => ~jobFailed
                       /\ main # "start" => \E n \in 0..Len(plan.order) : Progress(n)'
    BY <1>1, <1>2 DEF ListInv
  <2>1. ListInv
    BY DEF RunInv
  <2>2. ASSUME NEW n \in 0..Len(plan.order), Progress(n) PROVE Progress(n)'
    <3>1. \A i \in 1..Len(plan.order) : outcome'[plan.order[i]] = outcome[plan.order[i]]
      BY <1>1, <1>2 DEF TopLevel, Range
    <3>2. Outer(Job)' = Outer(Job)
      BY <1>1, <1>3
    <3>. QED  BY <1>1, <2>2, <3>1, <3>2 DEF Progress
  <2>. QED  BY <2>1, <2>2 DEF ListInv
<1>6. (Over => relaunch = {} /\ \A g \in Goroutines : Outer(g) = <<>>)'
  BY <1>1 DEF RunInv, Over
<1>. QED  BY <1>4, <1>5, <1>6 DEF RunInv

(* ... by a step of the graph that comes to its end, ...                   *)
LEMMA GoroutineComesKeeps ==
  ASSUME IInv, RunInv, NEW s \in Steps, NEW result \in Good \cup {"failed"}, GoroutineComes(s, result)
  PROVE  RunInv'
<1>1. /\ plan' = plan /\ main' = main /\ claimed' = claimed /\ HasNeeds
      /\ s \in TopLevel /\ outcome' = [outcome EXCEPT ![s] = result]
      /\ Outer(s) # <<>> /\ Outer(s)' = <<>>
      /\ \A g \in Goroutines \ {s} : Outer(g)' = Outer(g)
      /\ finished' = finished \cup {s} /\ relaunch' = relaunch \cup {s}
      /\ failed' = IF result = "failed" THEN failed \cup {s} ELSE failed
      /\ jobFailed' = (jobFailed \/ result = "failed")
  BY DEF GoroutineComes, Comes
<1>2. TopLevel' = TopLevel /\ HasNeeds' = HasNeeds /\ TopLevel \subseteq Steps
  BY <1>1, PlanSame, PlanNested DEF IInv, DataTyped
<1>3. Steps \subseteq Goroutines /\ main = "wait"
  <2>1. Steps \subseteq Goroutines
    BY DEF Goroutines
  <2>. QED  BY <1>1, <2>1, OuterWaits
<1>4. /\ outcome \in [Steps -> Results] /\ finished \subseteq claimed /\ failed \subseteq finished
      /\ GraphInv /\ claimed \subseteq TopLevel
  BY <1>1 DEF RunInv, GraphInv, IInv, DataTyped
<1>5. s \notin finished /\ s \notin failed
  BY <1>1, <1>4 DEF GraphInv
<1>6. outcome'[s] = result /\ \A t \in Steps \ {s} : outcome'[t] = outcome[t]
  BY <1>1, <1>4
<1>7. \A t \in TopLevel \ {s} : Outer(t)' = Outer(t)
  BY <1>1, <1>2, <1>3
<1>8. GraphInv'
  <2>1. \A t \in claimed \ finished' : Outer(t)' # <<>>
    BY <1>1, <1>4, <1>7 DEF GraphInv
  <2>2. \A t \in TopLevel : Outer(t)' # <<>> => t \notin finished' /\ Outer(t)'[1]
    BY <1>1, <1>4, <1>7 DEF GraphInv
  <2>3. \A t \in finished' : IF t \in failed' THEN outcome'[t] \in {"", "failed"}
                                              ELSE outcome'[t] \in Good
    <3>. SUFFICES ASSUME NEW t \in finished'
                  PROVE  IF t \in failed' THEN outcome'[t] \in {"", "failed"} ELSE outcome'[t] \in Good
      OBVIOUS
    <3>1. CASE t = s
      <4>1. t \in failed' <=> result = "failed"
        BY <1>1, <1>5, <3>1
      <4>. QED  BY <1>6, <3>1, <4>1 DEF Good
    <3>2. CASE t # s
      <4>1. t \in finished /\ (t \in failed' <=> t \in failed) /\ outcome'[t] = outcome[t]
        BY <1>1, <1>2, <1>4, <1>6, <3>2
      <4>. QED  BY <1>1, <1>4, <4>1 DEF GraphInv
    <3>. QED  BY <3>1, <3>2
  <2>4. \A t \in TopLevel \ finished' : outcome'[t] = ""
    BY <1>1, <1>2, <1>4, <1>6 DEF GraphInv
  <2>5. jobFailed' <=> failed' # {}
    BY <1>1, <1>4 DEF GraphInv
  <2>6. relaunch' # {}
    BY <1>1
  <2>. QED  BY <1>1, <1>2, <1>3, <1>4, <2>1, <2>2, <2>3, <2>4, <2>5, <2>6 DEF GraphInv
<1>9. ListInv' /\ ~Over'
  BY <1>1, <1>2, <1>3 DEF ListInv, Over
<1>. QED  BY <1>8, <1>9 DEF RunInv

(* ... by the list that goes on, ...                                       *)
LEMMA SeqFacts ==
  ASSUME NEW q \in Seq(Steps)
  PROVE  /\ Len(q) \in Nat /\ (q = <<>> <=> Len(q) = 0)
         /\ q # <<>> => /\ Len(q) >= 1 /\ Head(q) = q[1] /\ Len(Tail(q)) = Len(q) - 1
                        /\ \A i \in 1..Len(Tail(q)) : i + 1 \in 1..Len(q) /\ Tail(q)[i] = q[i+1]
<1>1. Len(q) \in Nat /\ (q = <<>> <=> Len(q) = 0)
  OBVIOUS
<1>2. ASSUME q # <<>>
      PROVE  /\ Len(q) >= 1 /\ Head(q) = q[1] /\ Len(Tail(q)) = Len(q) - 1
             /\ \A i \in 1..Len(Tail(q)) : Tail(q)[i] = q[i+1]
  BY <1>2, HeadTailProperties
<1>3. \A n \in Nat : \A i \in 1..(n - 1) : i + 1 \in 1..n
  OBVIOUS
<1>. QED  BY <1>1, <1>2, <1>3

LEMMA ListGoesOn ==
  ASSUME ListInv, ~HasNeeds, TopLevel \subseteq Steps,
         plan' = plan, main' = main, main # "start", claimed' = claimed,
         \A n \in 0..Len(plan.order) :
           Progress(n) => \E m \in 0..Len(plan.order) : Progress(m)'
  PROVE  GraphInv' /\ ListInv'
<1>1. TopLevel' = TopLevel /\ HasNeeds' = HasNeeds
  BY PlanSame
<1>2. GraphInv'
  BY <1>1 DEF GraphInv
<1>3. PICK n \in 0..Len(plan.order) : Progress(n)
  BY DEF ListInv
<1>4. \E m \in 0..Len(plan.order) : Progress(m)'
  BY <1>3
<1>. QED  BY <1>1, <1>2, <1>4 DEF ListInv

LEMMA ListStepsKeep ==
  ASSUME IInv, RunInv, TakesUp \/ ListDone
  PROVE  RunInv'
<1>1. /\ ~HasNeeds /\ plan' = plan /\ main' = main /\ claimed' = claimed /\ outcome' = outcome
      /\ Outer(Job) # <<>>
  BY DEF TakesUp, ListDone
<1>2. Job \in Goroutines
  BY DEF Goroutines
<1>3. main = "wait" /\ ~Over
  BY <1>1, <1>2, OuterWaits
<1>4. TopLevel \subseteq Steps /\ plan.order \in Seq(Steps) /\ Len(plan.order) \in Nat /\ ListInv
  BY PlanNested, SeqFacts DEF IInv, DataTyped, RunInv
<1>. PICK todo : todo = Outer(Job)[2]
  OBVIOUS
<1>5. todo \in Seq(Steps) /\ Len(todo) \in Nat /\ (todo = <<>> <=> Len(todo) = 0)
  BY <1>1, <1>2, OuterOf, SeqFacts
<1>6. ASSUME NEW n \in 0..Len(plan.order), Progress(n) PROVE Progress(n)'
  <2>1. CASE TakesUp
    <3>1. Outer(Job)' # <<>> /\ Outer(Job)'[2] = todo /\ jobFailed' = jobFailed
      BY <2>1 DEF TakesUp
    <3>. QED  BY <1>1, <1>6, <3>1 DEF Progress
  <2>2. CASE ListDone
    <3>1. Outer(Job)' = <<>> /\ ~jobFailed' /\ Len(todo) = 0
      BY <1>5, <2>2 DEF ListDone
    <3>2. n = Len(plan.order)
      <4>1. Len(todo) = Len(plan.order) - n
        BY <1>1, <1>6 DEF Progress
      <4>2. \A l, m \in Nat : 0 = l - m => m = l
        OBVIOUS
      <4>. QED  BY <1>4, <3>1, <4>1, <4>2
    <3>3. \A i \in 1..Len(plan.order) : i <= n
      BY <3>2
    <3>4. \A i \in 1..Len(plan.order) : i # n + 1 /\ ~(i > n + 1)
      BY <1>4, <3>2
    <3>5. ~(n < Len(plan.order))
      BY <1>4, <3>2
    <3>. QED  BY <1>1, <1>6, <3>1, <3>3, <3>4, <3>5 DEF Progress
  <2>. QED  BY <2>1, <2>2
<1>7. GraphInv' /\ ListInv'
  BY <1>1, <1>3, <1>4, <1>6, ListGoesOn
<1>. QED  BY <1>1, <1>3, <1>7 DEF RunInv, Over

(* Where the list is.                                                      *)
LEMMA HeadOfList ==
  ASSUME IInv, ~HasNeeds, Outer(Job) # <<>>, NEW n \in 0..Len(plan.order), Progress(n)
  PROVE  /\ Len(plan.order) \in Nat /\ Outer(Job)[2] \in Seq(Steps)
         /\ Outer(Job)[2] = <<>> => n = Len(plan.order)
         /\ Outer(Job)[2] # <<>> => /\ n < Len(plan.order) /\ n + 1 \in 1..Len(plan.order)
                                    /\ Head(Outer(Job)[2]) = plan.order[n+1]
<1>. PICK todo, l : todo = Outer(Job)[2] /\ l = Len(plan.order)
  OBVIOUS
<1>1. todo \in Seq(Steps) /\ Len(todo) \in Nat /\ (todo = <<>> <=> Len(todo) = 0)
  BY OuterOf, SeqFacts DEF Goroutines
<1>2. l \in Nat
  BY PlanNested, SeqFacts DEF IInv, DataTyped
<1>3. Len(todo) = l - n /\ \A i \in 1..Len(todo) : todo[i] = plan.order[n+i]
  BY DEF Progress
<1>4. CASE todo = <<>>
  <2>1. 0 = l - n
    BY <1>1, <1>3, <1>4
  <2>. QED  BY <1>1, <1>2, <1>4, <2>1
<1>5. CASE todo # <<>>
  <2>1. Len(todo) >= 1 /\ Head(todo) = todo[1] /\ 1 \in 1..Len(todo)
    BY <1>1, <1>5, SeqFacts
  <2>2. l - n >= 1
    BY <1>3, <2>1
  <2>3. n < l /\ n + 1 \in 1..l
    BY <1>2, <2>2
  <2>. QED  BY <1>1, <1>2, <1>3, <1>5, <2>1, <2>3
<1>. QED  BY <1>4, <1>5

LEMMA ListComesKeeps ==
  ASSUME IInv, RunInv, NEW s \in Steps, NEW result \in Good \cup {"failed"}, ListComes(s, result)
  PROVE  RunInv'
<1>1. /\ plan' = plan /\ main' = main /\ claimed' = claimed /\ ~HasNeeds
      /\ outcome' = [outcome EXCEPT ![s] = result]
      /\ Outer(Job) # <<>> /\ Outer(Job)[1] /\ s = Head(Outer(Job)[2])
  BY DEF ListComes, Comes
<1>2. main = "wait" /\ ~Over
  BY <1>1, OuterWaits DEF Goroutines
<1>3. /\ TopLevel \subseteq Steps /\ plan.order \in Seq(Steps) /\ ListInv /\ IsInjective(plan.order)
      /\ outcome \in [Steps -> Results]
  BY PlanNested DEF IInv, DataTyped, RunInv
<1>. PICK todo, l : todo = Outer(Job)[2] /\ l = Len(plan.order)
  OBVIOUS
<1>4. todo \in Seq(Steps) /\ todo # <<>> /\ Len(todo) \in Nat /\ l \in Nat
  BY <1>1, <1>3, OuterOf, SeqFacts DEF Goroutines
<1>5. /\ Len(Tail(todo)) = Len(todo) - 1
      /\ \A i \in 1..Len(Tail(todo)) : i + 1 \in 1..Len(todo) /\ Tail(todo)[i] = todo[i+1]
  BY <1>4, SeqFacts
<1>6. ASSUME NEW n \in 0..l, Progress(n)
      PROVE  \E m \in 0..l : Progress(m)'
  <2>1. n < l /\ n + 1 \in 1..l /\ s = plan.order[n+1]
    BY <1>1, <1>4, <1>6, HeadOfList
  <2>2. \A i \in 1..l : plan.order[i] \in Steps /\ (i # n + 1 => plan.order[i] # s)
    <3>1. DOMAIN plan.order = 1..l
      BY <1>3
    <3>. QED  BY <1>3, <2>1, <3>1 DEF IsInjective
  <2>3. outcome'[s] = result /\ \A i \in 1..l : i # n + 1 => outcome'[plan.order[i]] = outcome[plan.order[i]]
    BY <1>1, <1>3, <2>2
  <2>4. CASE result = "failed"
    <3>1. Outer(Job)' = <<>> /\ jobFailed'
      BY <2>4 DEF ListComes
    <3>2. \A i \in 1..l : /\ i <= n => i # n + 1
                          /\ i > n + 1 => i # n + 1
      BY <2>1
    <3>3. Progress(n)'
      BY <1>1, <1>6, <2>1, <2>3, <2>4, <3>1, <3>2 DEF Progress
    <3>. QED  BY <3>3
  <2>5. CASE result # "failed"
    <3>1. Outer(Job)' = <<FALSE, Tail(todo)>> /\ jobFailed' = jobFailed /\ result \in Good
      BY <2>5 DEF ListComes
    <3>2. Outer(Job)' # <<>> /\ Outer(Job)'[2] = Tail(todo)
      BY <3>1
    <3>3. Len(Tail(todo)) = l - (n + 1) /\ n + 1 \in 0..l
      <4>1. Len(todo) = l - n
        BY <1>1, <1>6 DEF Progress
      <4>. QED  BY <1>4, <1>5, <2>1, <4>1
    <3>4. \A i \in 1..Len(Tail(todo)) : Tail(todo)[i] = plan.order[(n+1)+i]
      <4>1. \A i \in 1..Len(todo) : todo[i] = plan.order[n+i]
        BY <1>1, <1>6 DEF Progress
      <4>2. \A i \in 1..Len(Tail(todo)) : n + (i + 1) = (n + 1) + i
        BY <2>1
      <4>. QED  BY <1>5, <4>1, <4>2
    <3>5. \A i \in 1..l : /\ i <= n + 1 => i = n + 1 \/ (i # n + 1 /\ i <= n)
                          /\ i >= n + 2 => i # n + 1 /\ i > n + 1
      BY <2>1
    <3>6. \A i \in 1..l : /\ i <= n + 1 => outcome'[plan.order[i]] \in Good
                          /\ i >= n + 2 => outcome'[plan.order[i]] = ""
      BY <1>6, <2>1, <2>3, <3>1, <3>5 DEF Progress
    <3>7. \A i \in 1..l : /\ i = (n + 1) + 1 => i >= n + 2
                          /\ i > (n + 1) + 1 => i >= n + 2
      BY <2>1
    <3>8. ~jobFailed
      BY <1>1, <1>6 DEF Progress
    <3>9. \A i \in 1..l : /\ i <= n + 1 => outcome'[plan.order[i]] \in Good
                          /\ i = (n + 1) + 1 => outcome'[plan.order[i]] = ""
                          /\ i > (n + 1) + 1 => outcome'[plan.order[i]] = ""
      BY <3>6, <3>7
    <3>. PICK m : m = n + 1
      OBVIOUS
    <3>10. Progress(m)'
      BY <1>1, <3>1, <3>2, <3>3, <3>4, <3>8, <3>9 DEF Progress
    <3>. QED  BY <3>3, <3>10
  <2>. QED  BY <2>4, <2>5
<1>7. GraphInv' /\ ListInv'
  BY <1>1, <1>2, <1>3, <1>6, ListGoesOn
<1>. QED  BY <1>1, <1>2, <1>7 DEF RunInv, Over

(* ... and by launch, after which no step that is ready is left.           *)
Launches(B, S) ==
  /\ B \in SUBSET (TopLevel \ claimed)
  /\ \A s \in B : \E i \in DOMAIN plan.needs[s] : plan.needs[s][i] \in failed \cup B
  /\ S = {s \in TopLevel \ (claimed \cup B) : Ready(s)}
  /\ claimed' = claimed \cup B \cup S
  /\ finished' = finished \cup B /\ failed' = failed \cup B
  /\ jobFailed' = (jobFailed \/ B # {})
  /\ stack' = [g \in Goroutines |-> IF g \in S THEN <<Enter(<<g>>, "if")>> ELSE stack[g]]

LEMMA LaunchSets ==
  ASSUME Launch PROVE \E B, S : Launches(B, S)
<1>1. PICK B \in SUBSET (TopLevel \ claimed) :
        /\ \A s \in TopLevel \ claimed :
             s \in B <=> Blocked(s, {r \in B : Position(r) < Position(s)})
        /\ LET S == {s \in TopLevel \ (claimed \cup B) : Ready(s)}
           IN  /\ claimed' = claimed \cup B \cup S
               /\ stack' = [g \in Goroutines |-> IF g \in S THEN <<Enter(<<g>>, "if")>> ELSE stack[g]]
        /\ finished' = finished \cup B
        /\ failed' = failed \cup B
        /\ jobFailed' = (jobFailed \/ B # {})
  BY DEF Launch
<1>. DEFINE S == {s \in TopLevel \ (claimed \cup B) : Ready(s)}
<1>2. ASSUME NEW s \in B
      PROVE  \E i \in DOMAIN plan.needs[s] : plan.needs[s][i] \in failed \cup B
  <2>. PICK marked : marked = {r \in B : Position(r) < Position(s)}
    OBVIOUS
  <2>1. Blocked(s, marked)
    BY <1>1
  <2>. QED  BY <2>1 DEF Blocked
<1>3. Launches(B, S)
  BY <1>1, <1>2 DEF Launches
<1>. QED  BY <1>3

LEMMA LaunchFacts ==
  ASSUME IInv, RunInv, HasNeeds, NEW B, NEW S, Launches(B, S)
  PROVE  /\ B \subseteq TopLevel \ claimed /\ S \subseteq TopLevel \ claimed /\ B \cap S = {}
         /\ TopLevel \subseteq Steps /\ claimed \subseteq TopLevel
         /\ finished \subseteq claimed /\ failed \subseteq finished
         /\ \A g \in S : Outer(g)' # <<>> /\ Outer(g)'[1]
         /\ \A g \in Goroutines \ S : Outer(g)' = Outer(g)
<1>1. TopLevel \subseteq Steps
  BY PlanNested DEF IInv, DataTyped
<1>2. S \subseteq Goroutines
  BY <1>1 DEF Launches, Goroutines
<1>3. ASSUME NEW g \in S PROVE Outer(g)' # <<>> /\ Outer(g)'[1]
  <2>1. stack'[g] = <<Enter(<<g>>, "if")>>
    BY <1>2 DEF Launches
  <2>2. stack'[g] # <<>> /\ stack'[g][1].at = "if"
    BY <2>1 DEF Enter
  <2>. QED  BY <2>2 DEF Outer
<1>4. \A g \in Goroutines \ S : Outer(g)' = Outer(g)
  BY DEF Launches, Outer
<1>. QED  BY <1>1, <1>3, <1>4 DEF Launches, RunInv, GraphInv, IInv, DataTyped

LEMMA LaunchKeepsRun ==
  ASSUME IInv, RunInv, HasNeeds, Launch, plan' = plan, outcome' = outcome, main' = "wait"
  PROVE  RunInv'
<1>. PICK B, S : Launches(B, S)
  BY LaunchSets
<1>1. /\ B \subseteq TopLevel \ claimed /\ S \subseteq TopLevel \ claimed /\ B \cap S = {}
      /\ TopLevel \subseteq Steps /\ claimed \subseteq TopLevel
      /\ finished \subseteq claimed /\ failed \subseteq finished
      /\ \A g \in S : Outer(g)' # <<>> /\ Outer(g)'[1]
      /\ \A g \in Goroutines \ S : Outer(g)' = Outer(g)
  BY LaunchFacts
<1>2. /\ claimed' = claimed \cup B \cup S /\ finished' = finished \cup B /\ failed' = failed \cup B
      /\ jobFailed' = (jobFailed \/ B # {})
      /\ \A s \in TopLevel \ (claimed \cup B) : Ready(s) => s \in S
  BY DEF Launches
<1>3. TopLevel' = TopLevel /\ HasNeeds' = HasNeeds /\ TopLevel \subseteq Goroutines
  BY <1>1, PlanSame DEF Goroutines
<1>4. GraphInv
  BY DEF RunInv
<1>5. GraphInv'
  <2>1. \A s \in claimed' \ finished' : Outer(s)' # <<>>
    <3>. SUFFICES ASSUME NEW s \in claimed' \ finished', s \notin S PROVE Outer(s)' # <<>>
      BY <1>1
    <3>1. s \in claimed \ finished /\ s \in Goroutines
      BY <1>1, <1>2, <1>3
    <3>. QED  BY <1>1, <1>4, <3>1 DEF GraphInv
  <2>2. \A s \in TopLevel : Outer(s)' # <<>> => s \notin finished' /\ Outer(s)'[1]
    <3>. SUFFICES ASSUME NEW s \in TopLevel, Outer(s)' # <<>> PROVE s \notin finished' /\ Outer(s)'[1]
      OBVIOUS
    <3>1. CASE s \in S
      BY <1>1, <1>2, <3>1
    <3>2. CASE s \notin S
      <4>1. Outer(s)' = Outer(s) /\ Outer(s) # <<>>
        BY <1>1, <1>3, <3>2
      <4>2. s \in claimed
        <5>1. stack[s] # <<>>
          BY <4>1 DEF Outer
        <5>. QED  BY <1>3, <5>1 DEF IInv, Shape, Owners
      <4>. QED  BY <1>1, <1>2, <1>4, <4>1, <4>2 DEF GraphInv
    <3>. QED  BY <3>1, <3>2
  <2>3. \A s \in finished' : IF s \in failed' THEN outcome'[s] \in {"", "failed"}
                                              ELSE outcome'[s] \in Good
    <3>. SUFFICES ASSUME NEW s \in finished'
                  PROVE  IF s \in failed' THEN outcome[s] \in {"", "failed"} ELSE outcome[s] \in Good
      OBVIOUS
    <3>1. CASE s \in B
      <4>1. outcome[s] = "" /\ s \in failed'
        BY <1>1, <1>2, <1>4, <3>1 DEF GraphInv
      <4>. QED  BY <4>1
    <3>2. CASE s \notin B
      <4>1. s \in finished /\ (s \in failed' <=> s \in failed)
        BY <1>2, <3>2
      <4>. QED  BY <1>4, <4>1 DEF GraphInv
    <3>. QED  BY <3>1, <3>2
  <2>4. \A s \in TopLevel \ finished' : outcome'[s] = ""
    BY <1>2, <1>4 DEF GraphInv
  <2>5. jobFailed' <=> failed' # {}
    BY <1>2, <1>4 DEF GraphInv
  <2>6. \A s \in TopLevel \ claimed' : ~Ready(s)'
    <3>. SUFFICES ASSUME NEW s \in TopLevel \ claimed', Ready(s)' PROVE FALSE
      OBVIOUS
    <3>1. ~Ready(s)
      BY <1>2
    <3>2. \A i \in DOMAIN plan.needs[s] :
            plan.needs[s][i] \in finished' /\ plan.needs[s][i] \notin failed'
      BY DEF Ready
    <3>3. Ready(s)
      BY <1>2, <3>2 DEF Ready
    <3>. QED  BY <3>1, <3>3
  <2>7. claimed' \subseteq TopLevel
    BY <1>1, <1>2
  <2>. QED  BY <1>3, <2>1, <2>2, <2>3, <2>4, <2>5, <2>6, <2>7 DEF GraphInv
<1>6. ListInv' /\ ~Over'
  BY <1>3 DEF ListInv, Over
<1>. QED  BY <1>5, <1>6 DEF RunInv

LEMMA BeginKeepsRun ==
  ASSUME IInv, RunInv, Begin
  PROVE  RunInv'
<1>1. CASE StartDAG
  <2>1. HasNeeds /\ Launch /\ plan' = plan /\ outcome' = outcome /\ main' = "wait"
    BY <1>1 DEF StartDAG
  <2>. QED  BY <2>1, LaunchKeepsRun
<1>2. CASE StartSequential
  <2>1. /\ main = "start" /\ ~HasNeeds /\ main' = "wait" /\ plan' = plan /\ outcome' = outcome
        /\ jobFailed' = jobFailed /\ claimed' = claimed
        /\ stack' = [stack EXCEPT ![Job] = <<Enter(plan.order, "next")>>]
    BY <1>2 DEF StartSequential, dagVars
  <2>2. /\ TopLevel \subseteq Steps /\ plan.order \in Seq(Steps) /\ Len(plan.order) \in Nat
        /\ ListInv /\ stack \in [Goroutines -> Seq(Frames)] /\ Job \in Goroutines
    BY PlanNested, SeqFacts DEF IInv, DataTyped, RunInv, Shape, StackTyped, Goroutines
  <2>3. TopLevel' = TopLevel /\ HasNeeds' = HasNeeds
    BY <2>1, PlanSame
  <2>4. stack'[Job] = <<Enter(plan.order, "next")>>
    BY <2>1, <2>2
  <2>5. Outer(Job)' # <<>> /\ Outer(Job)'[2] = plan.order
    <3>1. stack'[Job] # <<>> /\ stack'[Job][1].todo = plan.order
      BY <2>4 DEF Enter
    <3>. QED  BY <3>1 DEF Outer
  <2>6. \A i \in 1..Len(plan.order) : outcome[plan.order[i]] = ""
    <3>1. \A i \in 1..Len(plan.order) : plan.order[i] \in TopLevel
      BY <2>2 DEF TopLevel, Range
    <3>. QED  BY <2>1, <3>1 DEF IInv, Facts, TopFresh, Fresh
  <2>. PICK n : n = 0
    OBVIOUS
  <2>7. Progress(n)'
    <3>1. \A i \in 1..Len(plan.order) : ~(i <= n)
      OBVIOUS
    <3>2. Len(plan.order) = Len(plan.order) - n
          /\ \A i \in 1..Len(plan.order) : plan.order[i] = plan.order[n+i]
      BY <2>2
    <3>3. ~jobFailed
      BY <2>1, <2>2 DEF ListInv
    <3>. QED  BY <2>1, <2>5, <2>6, <3>1, <3>2, <3>3 DEF Progress
  <2>8. n \in 0..Len(plan.order)
    BY <2>2
  <2>9. ListInv'
    <3>1. claimed = {}
      BY <2>1, <2>2 DEF ListInv
    <3>. QED  BY <2>1, <2>3, <2>7, <2>8, <3>1 DEF ListInv
  <2>10. GraphInv' /\ ~Over'
    BY <2>1, <2>3 DEF GraphInv, Over
  <2>. QED  BY <2>9, <2>10 DEF RunInv
<1>. QED  BY <1>1, <1>2 DEF Begin

LEMMA EndKeepsRun ==
  ASSUME IInv, RunInv, Return
  PROVE  RunInv'
<1>1. /\ main = "wait" /\ relaunch = {} /\ (\A g \in Goroutines : stack[g] = <<>>)
      /\ main' \in {"passed", "failed"}
      /\ UNCHANGED <<plan, stack, outcome, jobFailed, claimed, finished, failed, relaunch>>
  BY DEF Return, dagVars
<1>2. TopLevel' = TopLevel /\ HasNeeds' = HasNeeds
  BY <1>1, PlanSame
<1>3. \A g : Outer(g)' = Outer(g)
  BY <1>1 DEF Outer
<1>4. GraphInv'
  BY <1>1, <1>2, <1>3 DEF RunInv, GraphInv, Ready
<1>5. ListInv'
  <2>1. \A n \in 0..Len(plan.order) : Progress(n) => Progress(n)'
    BY <1>1, <1>3 DEF Progress
  <2>2. main' # "start" /\ main # "start"
    BY <1>1
  <2>. QED  BY <1>1, <1>2, <2>1, <2>2 DEF RunInv, ListInv
<1>6. (Over => relaunch = {} /\ \A g \in Goroutines : Outer(g) = <<>>)'
  <2>1. \A g \in Goroutines : Outer(g) = <<>>
    BY <1>1 DEF Outer
  <2>. QED  BY <1>1, <1>3, <2>1
<1>. QED  BY <1>4, <1>5, <1>6 DEF RunInv

LEMMA InitRunInv == Init => RunInv
<1>. SUFFICES ASSUME Init PROVE RunInv
  OBVIOUS
<1>1. \A g \in Goroutines : Outer(g) = <<>>
  BY DEF Init, Outer
<1>2. TopLevel \subseteq Steps /\ Steps \subseteq Goroutines
  BY PlanNested DEF Init, Goroutines
<1>3. GraphInv
  BY <1>1, <1>2 DEF Init, GraphInv
<1>4. ListInv
  BY DEF Init, ListInv
<1>. QED  BY <1>1, <1>3, <1>4 DEF Init, RunInv, Over

LEMMA RestInside ==
  ASSUME SiblingFails \/ Interrupt \/ Expire \/ UNCHANGED vars
  PROVE  Inside
<1>1. UNCHANGED <<plan, main, stack, outcome, jobFailed, dagVars>>
  BY DEF SiblingFails, Interrupt, Expire, vars
<1>. QED  BY <1>1 DEF Inside, Outer, dagVars

(* What a step of the system is for that run.                              *)
LEMMA StepCases ==
  ASSUME IInv, RunInv, [Next]_vars
  PROVE  Begin \/ Return \/ Visible \/ \E g \in Goroutines : Relaunch(g)
<1>1. ASSUME NEW g \in Goroutines, Advance(g) \/ Write(g) \/ Exits(g), ~Relaunch(g) PROVE Visible
  BY <1>1, GoroutineCases
<1>2. SiblingFails \/ Interrupt \/ Expire \/ UNCHANGED vars => Visible
  BY RestInside DEF Visible
<1>. QED  BY <1>1, <1>2 DEF Next

LEMMA NextRunInv ==
  ASSUME IInv, RunInv, [Next]_vars
  PROVE  RunInv'
<1>1. CASE Begin
  BY <1>1, BeginKeepsRun
<1>2. CASE Return
  BY <1>2, EndKeepsRun
<1>3. CASE Visible
  BY <1>3, InsideKeeps, ListStepsKeep, GoroutineComesKeeps, ListComesKeeps DEF Visible
<1>4. ASSUME NEW g \in Goroutines, Relaunch(g) PROVE RunInv'
  <2>1. Launch /\ plan' = plan /\ outcome' = outcome /\ main' = main /\ relaunch # {}
    BY <1>4 DEF Relaunch
  <2>2. HasNeeds /\ main # "start" /\ ~Over
    BY <2>1 DEF IInv, RelaunchOfDAG, RunInv
  <2>3. main = "wait"
    BY <2>2 DEF IInv, DataTyped, Over
  <2>. QED  BY <2>1, <2>2, <2>3, LaunchKeepsRun
<1>. QED  BY <1>1, <1>2, <1>3, <1>4, StepCases

LEMMA RunInvariant == Spec => [](IInv /\ RunInv)
<1>1. Init => IInv /\ RunInv
  BY InitIInv, InitRunInv
<1>2. IInv /\ RunInv /\ [Next]_vars => (IInv /\ RunInv)'
  BY NextIInv, NextRunInv
<1>. QED  BY <1>1, <1>2, PTL DEF Spec

------------------------------------------------------------------------------
(* The status of a step for the abstract run                               *)

NeedsOf(s) == IF HasNeeds THEN {plan.needs[s][i] : i \in DOMAIN plan.needs[s]} ELSE Preceding(s)

UnderWay(s) == Outer(Job) # <<>> /\ Outer(Job)[1] /\ Head(Outer(Job)[2]) = s

LEMMA RunningOf ==
  ASSUME NEW s
  PROVE  /\ ~HasNeeds => (Running(s) <=> UnderWay(s))
         /\ ~HasNeeds' => (Running(s)' <=> UnderWay(s)')
<1>2. ~HasNeeds => (Running(s) <=> UnderWay(s))
  <2>1. CASE stack[Job] = <<>>
    BY <2>1 DEF Running, UnderWay, Outer
  <2>2. CASE stack[Job] # <<>>
    <3>. PICK at, todo : at = (stack[Job][1].at # "next") /\ todo = stack[Job][1].todo
      OBVIOUS
    <3>1. Outer(Job) = <<at, todo>>
      BY <2>2 DEF Outer
    <3>2. Outer(Job) # <<>> /\ Outer(Job)[1] = at /\ Outer(Job)[2] = todo
      BY <3>1
    <3>. QED  BY <2>2, <3>2, Zenon DEF Running, UnderWay
  <2>. QED  BY <2>1, <2>2
<1>3. ~HasNeeds' => (Running(s)' <=> UnderWay(s)')
  <2>1. CASE stack'[Job] = <<>>
    BY <2>1 DEF Running, UnderWay, Outer
  <2>2. CASE stack'[Job] # <<>>
    <3>. PICK at, todo : at = (stack'[Job][1].at # "next") /\ todo = stack'[Job][1].todo
      OBVIOUS
    <3>1. Outer(Job)' = <<at, todo>>
      BY <2>2 DEF Outer
    <3>2. Outer(Job)' # <<>> /\ Outer(Job)'[1] = at /\ Outer(Job)'[2] = todo
      BY <3>1
    <3>. QED  BY <2>2, <3>2, Zenon DEF Running, UnderWay
  <2>. QED  BY <2>1, <2>2
<1>. QED  BY <1>2, <1>3

LEMMA SameStatus ==
  ASSUME NEW s \in Steps, plan' = plan, s \in TopLevel => outcome'[s] = outcome[s],
         s \in failed' <=> s \in failed, Running(s)' <=> Running(s)
  PROVE  Status(s)' = Status(s)
<1>1. TopLevel' = TopLevel
  BY PlanSame
<1>. QED  BY <1>1 DEF Status

LEMMA GraphStatus ==
  ASSUME IInv, RunInv, HasNeeds, NEW s \in TopLevel
  PROVE  /\ s \notin claimed => Status(s) = "waiting"
         /\ s \in claimed \ finished => Status(s) = "running"
         /\ s \in failed => Status(s) \in {"blocked", "failed"}
         /\ s \in finished \ failed => Status(s) \in Abstract!Satisfied
<1>1. GraphInv /\ finished \subseteq claimed /\ failed \subseteq finished
  BY DEF RunInv, IInv, DataTyped
<1>2. Running(s) <=> s \in claimed
  BY DEF Running
<1>3. s \notin finished => outcome[s] = "" /\ s \notin failed
  BY <1>1 DEF GraphInv
<1>4. s \notin claimed => Status(s) = "waiting"
  BY <1>1, <1>2, <1>3 DEF Status
<1>5. s \in claimed \ finished => Status(s) = "running"
  BY <1>1, <1>2, <1>3 DEF Status
<1>6. s \in failed => Status(s) \in {"blocked", "failed"}
  <2>1. s \in failed => outcome[s] \in {"", "failed"}
    BY <1>1 DEF GraphInv
  <2>. QED  BY <2>1 DEF Status
<1>7. s \in finished \ failed => Status(s) \in Abstract!Satisfied
  <2>1. s \in finished \ failed => outcome[s] \in Good
    BY <1>1 DEF GraphInv
  <2>. QED  BY <2>1 DEF Status, Good, Abstract!Satisfied
<1>. QED  BY <1>4, <1>5, <1>6, <1>7

LEMMA ListStatus ==
  ASSUME IInv, RunInv, ~HasNeeds, NEW s \in TopLevel
  PROVE  /\ outcome[s] = "" => Status(s) = IF UnderWay(s) THEN "running" ELSE "waiting"
         /\ outcome[s] = "failed" => Status(s) = "failed"
         /\ outcome[s] \in Good => Status(s) \in Abstract!Satisfied
<1>1. s \notin failed
  BY DEF RunInv, ListInv, IInv, DataTyped
<1>2. Running(s) <=> UnderWay(s)
  BY RunningOf
<1>3. outcome[s] = "" => Status(s) = IF UnderWay(s) THEN "running" ELSE "waiting"
  BY <1>1, <1>2 DEF Status
<1>4. outcome[s] = "failed" => Status(s) = "failed"
  BY DEF Status
<1>5. outcome[s] \in Good => Status(s) \in Abstract!Satisfied
  BY DEF Status, Good, Abstract!Satisfied
<1>. QED  BY <1>3, <1>4, <1>5

LEMMA OtherStatus ==
  ASSUME NEW s, s \notin TopLevel PROVE Status(s) = "waiting"
BY DEF Status

LEMMA NeedsTyped ==
  ASSUME plan \in Plans, NEW s \in Steps PROVE NeedsOf(s) \subseteq Steps
<1>1. plan.needs[s] \in Seq(Steps) /\ plan.order \in Seq(Steps)
  BY PlanNested DEF PlanType
<1>2. \A i \in DOMAIN plan.needs[s] : plan.needs[s][i] \in Steps
  BY <1>1
<1>3. \A i \in DOMAIN plan.order : plan.order[i] \in Steps
  BY <1>1
<1>. QED  BY <1>2, <1>3 DEF NeedsOf, Preceding

(* What waits and what may start                                           *)
LEMMA AbstractSets ==
  ASSUME plan \in Plans
  PROVE  /\ Abstract!Waiting = {s \in TopLevel : Status(s) = "waiting"}
         /\ Abstract!Startable = {s \in TopLevel : /\ Status(s) = "waiting"
                                                   /\ \A n \in NeedsOf(s) : Status(n) \in Abstract!Satisfied}
<1>1. TopLevel \subseteq Steps
  BY PlanNested
<1>2. Abstract!Waiting = {s \in TopLevel : Status(s) = "waiting"}
  BY <1>1 DEF Abstract!Waiting
<1>3. \A s \in TopLevel :
        /\ [t \in Steps |-> IF HasNeeds THEN {plan.needs[t][i] : i \in DOMAIN plan.needs[t]}
                            ELSE Preceding(t)][s] = NeedsOf(s)
        /\ NeedsOf(s) \subseteq Steps
  BY <1>1, NeedsTyped DEF NeedsOf
<1>. QED  BY <1>2, <1>3 DEF Abstract!Startable

(* Nothing visible happens ...                                             *)
LEMMA NothingAbstract ==
  ASSUME plan' = plan, main' = main \/ (~Over /\ ~Over'), \A s \in Steps : Status(s)' = Status(s)
  PROVE  UNCHANGED Abstract!vars
<1>1. TopLevel' = TopLevel /\ HasNeeds' = HasNeeds
  BY PlanSame
<1>2. \A s \in Steps : Preceding(s)' = Preceding(s)
  BY DEF Preceding
<1>3. (IF Over THEN main ELSE "none")' = IF Over THEN main ELSE "none"
  BY DEF Over
<1>. QED  BY <1>1, <1>2, <1>3 DEF Abstract!vars

(* ... or some steps are started and others marked, ...                    *)
Moves(B, S) ==
  \A s \in Steps : /\ s \in S => Status(s)' = "running"
                   /\ s \in B => Status(s)' = "blocked"
                   /\ s \notin S \cup B => Status(s)' = Status(s)

LEMMA AdvanceBy ==
  ASSUME plan \in Plans, plan' = plan, ~Over, ~Over',
         NEW B, NEW S, S = Abstract!Startable, B \in SUBSET (Abstract!Waiting \ Abstract!Startable),
         B \cup S # {}, \A s \in B : \E n \in NeedsOf(s) : Status(n) \in Abstract!Bad \/ n \in B,
         Moves(B, S)
  PROVE  Abstract!Advance
<1>. USE DEF Moves
<1>1. TopLevel' = TopLevel /\ HasNeeds' = HasNeeds
  BY PlanSame
<1>2. \A s \in Steps : Preceding(s)' = Preceding(s)
  BY DEF Preceding
<1>3. B \subseteq Steps
  BY AbstractSets, PlanNested
<1>4. \A s \in Steps : Status(s)' = CASE s \in S -> "running"
                                      [] s \in B -> "blocked"
                                      [] OTHER   -> Status(s)
  <2>1. \A s : ~(s \in S /\ s \in B)
    OBVIOUS
  <2>. QED  BY <2>1
<1>5. [s \in Steps |-> Status(s)]' = [s \in Steps |-> CASE s \in S -> "running"
                                                        [] s \in B -> "blocked"
                                                        [] OTHER -> [t \in Steps |-> Status(t)][s]]
  BY <1>4
<1>6. \A s \in B :
        \E n \in [t \in Steps |-> IF HasNeeds THEN {plan.needs[t][i] : i \in DOMAIN plan.needs[t]}
                                  ELSE Preceding(t)][s] :
          [t \in Steps |-> Status(t)][n] \in Abstract!Bad \/ n \in B
  BY <1>3, NeedsTyped DEF NeedsOf
<1>7. /\ (IF Over THEN main ELSE "none") = "none"
      /\ (IF Over THEN main ELSE "none")' = IF Over THEN main ELSE "none"
  OBVIOUS
<1>8. [t \in Steps |-> IF HasNeeds THEN {plan.needs[t][i] : i \in DOMAIN plan.needs[t]}
                       ELSE Preceding(t)]'
      = [t \in Steps |-> IF HasNeeds THEN {plan.needs[t][i] : i \in DOMAIN plan.needs[t]}
                         ELSE Preceding(t)]
  BY <1>1, <1>2
<1>. QED  BY <1>1, <1>5, <1>6, <1>7, <1>8 DEF Abstract!Advance

(* ... or a step ends.                                                     *)
LEMMA EndsBy ==
  ASSUME plan \in Plans, plan' = plan, main' = main, NEW s \in Steps,
         Status(s) = "running", Status(s)' \in Abstract!Ended,
         \A t \in Steps \ {s} : Status(t)' = Status(t)
  PROVE  Abstract!EndSomehow(s)
<1>1. TopLevel' = TopLevel /\ HasNeeds' = HasNeeds
  BY PlanSame
<1>2. \A t \in Steps : Preceding(t)' = Preceding(t)
  BY DEF Preceding
<1>3. (IF Over THEN main ELSE "none")' = IF Over THEN main ELSE "none"
  BY DEF Over
<1>4. [t \in Steps |-> Status(t)]' = [[t \in Steps |-> Status(t)] EXCEPT ![s] = Status(s)']
  OBVIOUS
<1>5. [t \in Steps |-> IF HasNeeds THEN {plan.needs[t][i] : i \in DOMAIN plan.needs[t]}
                       ELSE Preceding(t)]'
      = [t \in Steps |-> IF HasNeeds THEN {plan.needs[t][i] : i \in DOMAIN plan.needs[t]}
                         ELSE Preceding(t)]
  BY <1>1, <1>2
<1>. QED  BY <1>1, <1>3, <1>4, <1>5 DEF Abstract!EndSomehow, Abstract!End

------------------------------------------------------------------------------
(* Every step is one of the abstract run, or invisible                     *)

LEMMA InsideStutters ==
  ASSUME Inside \/ ListDone
  PROVE  UNCHANGED Abstract!vars
<1>1. /\ plan' = plan /\ main' = main /\ claimed' = claimed /\ failed' = failed
      /\ \A s \in TopLevel : outcome'[s] = outcome[s]
  BY DEF Inside, ListDone
<1>2. HasNeeds' = HasNeeds
  BY <1>1, PlanSame
<1>3. ASSUME NEW s \in Steps PROVE Running(s)' <=> Running(s)
  <2>1. CASE HasNeeds
    BY <1>1, <1>2, <2>1 DEF Running
  <2>2. CASE ~HasNeeds
    <3>1. UnderWay(s)' <=> UnderWay(s)
      <4>1. CASE Inside
        BY <4>1 DEF Inside, UnderWay, Goroutines
      <4>2. CASE ListDone
        BY <4>2 DEF ListDone, UnderWay
      <4>. QED  BY <4>1, <4>2
    <3>. QED  BY <1>2, <2>2, <3>1, RunningOf
  <2>. QED  BY <2>1, <2>2
<1>. QED  BY <1>1, <1>3, SameStatus, NothingAbstract

LEMMA TakingUpAdvances ==
  ASSUME IInv, RunInv, TakesUp
  PROVE  Abstract!Advance
<1>1. /\ ~HasNeeds /\ plan' = plan /\ main' = main /\ outcome' = outcome /\ failed' = failed
      /\ Outer(Job) # <<>> /\ ~Outer(Job)[1] /\ Outer(Job)[2] # <<>>
      /\ Outer(Job)' # <<>> /\ Outer(Job)'[1] /\ Outer(Job)'[2] = Outer(Job)[2]
  BY DEF TakesUp
<1>2. main = "wait" /\ ~Over /\ ~Over'
  <2>1. main = "wait" /\ ~Over
    BY <1>1, OuterWaits DEF Goroutines
  <2>. QED  BY <1>1, <2>1 DEF Over
<1>3. plan \in Plans /\ TopLevel \subseteq Steps /\ plan.order \in Seq(Steps) /\ IsInjective(plan.order)
  BY PlanNested DEF IInv, DataTyped
<1>. PICK n \in 0..Len(plan.order) : Progress(n)
  BY <1>1, <1>2 DEF RunInv, ListInv
<1>. PICK l, k : l = Len(plan.order) /\ k = n + 1
  OBVIOUS
<1>. PICK s : s = plan.order[k]
  OBVIOUS
<1>4. l \in Nat /\ n \in Nat /\ n < l /\ k \in 1..l /\ Head(Outer(Job)[2]) = s
  BY <1>1, HeadOfList
<1>5. DOMAIN plan.order = 1..l /\ \A i \in 1..l : plan.order[i] \in TopLevel
  BY <1>3 DEF TopLevel, Range
<1>6. \A t \in TopLevel : \E i \in 1..l : t = plan.order[i]
  BY <1>5 DEF TopLevel, Range
<1>7. /\ \A i \in 1..l : i < k => outcome[plan.order[i]] \in Good
      /\ \A i \in 1..l : i >= k => outcome[plan.order[i]] = ""
  <2>1. \A i \in 1..l : /\ i < k => i <= n
                        /\ i >= k => i = n + 1 \/ i > n + 1
    BY <1>4
  <2>. QED  BY <1>1, <2>1 DEF Progress
<1>8. \A t : ~UnderWay(t)
  BY <1>1 DEF UnderWay
<1>9. /\ \A i \in 1..l : i < k => Status(plan.order[i]) \in Abstract!Satisfied
      /\ \A i \in 1..l : i >= k => Status(plan.order[i]) = "waiting"
  BY <1>1, <1>5, <1>7, <1>8, ListStatus
<1>10. s \in TopLevel /\ Status(s) = "waiting"
  BY <1>4, <1>5, <1>9
<1>11. \A m \in NeedsOf(s) : Status(m) \in Abstract!Satisfied
  <2>. SUFFICES ASSUME NEW i \in 1..l, i < l, plan.order[i+1] = s
                PROVE  Status(plan.order[i]) \in Abstract!Satisfied
    BY <1>1, <1>5 DEF NeedsOf, Preceding
  <2>1. i + 1 \in 1..l
    BY <1>4
  <2>2. i + 1 = k
    BY <1>3, <1>4, <1>5, <2>1 DEF IsInjective
  <2>3. i < k
    BY <2>2
  <2>. QED  BY <1>9, <2>3
<1>12. "waiting" \notin Abstract!Satisfied
  BY DEF Abstract!Satisfied
<1>13. ASSUME NEW t \in TopLevel, t # s, Status(t) = "waiting"
       PROVE  \E m \in NeedsOf(t) : Status(m) \notin Abstract!Satisfied
  <2>. PICK i \in 1..l : t = plan.order[i]
    BY <1>6
  <2>1. i > k
    <3>1. ~(i < k)
      BY <1>9, <1>12, <1>13
    <3>2. i # k
      BY <1>13
    <3>. QED  BY <1>4, <3>1, <3>2
  <2>. PICK p : p = i - 1
    OBVIOUS
  <2>2. p \in 1..l /\ p < l /\ p + 1 = i /\ p >= k
    BY <1>4, <2>1
  <2>3. plan.order[p] \in NeedsOf(t)
    BY <1>1, <1>5, <2>2 DEF NeedsOf, Preceding
  <2>4. Status(plan.order[p]) = "waiting"
    BY <1>9, <2>2
  <2>. QED  BY <1>12, <2>3, <2>4
<1>. PICK S : S = {s}
  OBVIOUS
<1>14. S = Abstract!Startable
  BY <1>3, <1>10, <1>11, <1>13, AbstractSets
<1>15. ASSUME NEW t \in Steps
       PROVE  /\ t \in S => Status(t)' = "running"
              /\ t \notin S => Status(t)' = Status(t)
  <2>1. HasNeeds' = HasNeeds /\ TopLevel' = TopLevel
    BY <1>1, PlanSame
  <2>2. Running(t)' <=> t = s
    <3>1. UnderWay(t)' <=> t = s
      BY <1>1, <1>4 DEF UnderWay
    <3>. QED  BY <1>1, <2>1, <3>1, RunningOf
  <2>3. ASSUME t = s PROVE Status(t)' = "running"
    <3>1. t \in TopLevel /\ outcome[t] = "" /\ t \notin failed
      <4>1. outcome[plan.order[k]] = ""
        <5>1. k \in 1..l /\ k >= k
          BY <1>4
        <5>2. \A i \in 1..l : i >= k => outcome[plan.order[i]] = ""
          BY <1>7
        <5>. QED  BY <5>1, <5>2, Zenon
      <4>2. failed = {}
        BY <1>1 DEF RunInv, ListInv, IInv, DataTyped
      <4>. QED  BY <1>10, <2>3, <4>1, <4>2
    <3>. QED  BY <1>1, <2>1, <2>2, <2>3, <3>1 DEF Status
  <2>4. ASSUME t # s PROVE Status(t)' = Status(t)
    <3>1. ~Running(t)
      BY <1>1, <1>8, RunningOf
    <3>. QED  BY <1>1, <2>2, <2>4, <3>1, SameStatus
  <2>. QED  BY <2>3, <2>4
<1>. PICK B : B = {}
  OBVIOUS
<1>16. /\ B \in SUBSET (Abstract!Waiting \ Abstract!Startable) /\ B \cup S # {}
       /\ \A t \in B : \E m \in NeedsOf(t) : Status(m) \in Abstract!Bad \/ m \in B
       /\ Moves(B, S)
  BY <1>15 DEF Moves
<1>. QED  BY <1>1, <1>2, <1>3, <1>14, <1>16, AdvanceBy

LEMMA GraphStepEnds ==
  ASSUME IInv, RunInv, NEW s \in Steps, NEW result \in Good \cup {"failed"}, GoroutineComes(s, result)
  PROVE  Abstract!EndSomehow(s)
<1>1. /\ plan' = plan /\ main' = main /\ claimed' = claimed /\ HasNeeds
      /\ s \in TopLevel /\ outcome' = [outcome EXCEPT ![s] = result] /\ Outer(s) # <<>>
      /\ failed' = IF result = "failed" THEN failed \cup {s} ELSE failed
  BY DEF GoroutineComes, Comes
<1>2. TopLevel' = TopLevel /\ HasNeeds' = HasNeeds
  BY <1>1, PlanSame
<1>3. plan \in Plans /\ outcome \in [Steps -> Results] /\ finished \subseteq claimed
  BY DEF IInv, DataTyped
<1>4. outcome'[s] = result /\ \A t \in Steps \ {s} : outcome'[t] = outcome[t]
  BY <1>1, <1>3
<1>5. s \in claimed \ finished
  <2>1. s \notin finished
    BY <1>1 DEF RunInv, GraphInv
  <2>2. stack[s] # <<>>
    BY <1>1 DEF Outer
  <2>3. s \in claimed
    BY <1>1, <2>2 DEF IInv, Shape, Owners, Goroutines
  <2>. QED  BY <2>1, <2>3
<1>6. Status(s) = "running"
  BY <1>1, <1>5, GraphStatus
<1>7. Status(s)' \in Abstract!Ended
  BY <1>1, <1>2, <1>4 DEF Status, Good, Abstract!Ended, Abstract!Satisfied
<1>8. \A t \in Steps \ {s} : Status(t)' = Status(t)
  <2>. SUFFICES ASSUME NEW t \in Steps \ {s} PROVE Status(t)' = Status(t)
    OBVIOUS
  <2>1. Running(t)' <=> Running(t)
    BY <1>1, <1>2 DEF Running
  <2>2. t \in failed' <=> t \in failed
    BY <1>1
  <2>. QED  BY <1>1, <1>4, <2>1, <2>2, SameStatus
<1>. QED  BY <1>1, <1>3, <1>6, <1>7, <1>8, EndsBy

LEMMA ListStepEnds ==
  ASSUME IInv, RunInv, NEW s \in Steps, NEW result \in Good \cup {"failed"}, ListComes(s, result)
  PROVE  Abstract!EndSomehow(s)
<1>1. /\ plan' = plan /\ main' = main /\ failed' = failed /\ ~HasNeeds
      /\ s \in TopLevel /\ outcome[s] = "" /\ outcome' = [outcome EXCEPT ![s] = result]
      /\ Outer(Job) # <<>> /\ Outer(Job)[1] /\ s = Head(Outer(Job)[2])
  BY DEF ListComes, Comes
<1>2. TopLevel' = TopLevel /\ HasNeeds' = HasNeeds
  BY <1>1, PlanSame
<1>3. plan \in Plans /\ outcome \in [Steps -> Results]
  BY DEF IInv, DataTyped
<1>4. outcome'[s] = result /\ \A t \in Steps \ {s} : outcome'[t] = outcome[t]
  BY <1>1, <1>3
<1>5. \A t : UnderWay(t) <=> t = s
  BY <1>1 DEF UnderWay
<1>6. Status(s) = "running"
  BY <1>1, <1>5, ListStatus
<1>7. Status(s)' \in Abstract!Ended
  BY <1>1, <1>2, <1>4 DEF Status, Good, Abstract!Ended, Abstract!Satisfied
<1>8. \A t : ~UnderWay(t)'
  <2>1. CASE result = "failed"
    BY <2>1 DEF ListComes, UnderWay
  <2>2. CASE result # "failed"
    <3>. PICK todo : todo = Tail(Outer(Job)[2])
      OBVIOUS
    <3>1. Outer(Job)' = <<FALSE, todo>>
      BY <2>2 DEF ListComes
    <3>2. ~Outer(Job)'[1]
      BY <3>1
    <3>. QED  BY <3>2 DEF UnderWay
  <2>. QED  BY <2>1, <2>2
<1>9. \A t \in Steps \ {s} : Status(t)' = Status(t)
  <2>. SUFFICES ASSUME NEW t \in Steps \ {s} PROVE Status(t)' = Status(t)
    OBVIOUS
  <2>1. Running(t)' <=> Running(t)
    BY <1>1, <1>2, <1>5, <1>8, RunningOf
  <2>. QED  BY <1>1, <1>4, <2>1, SameStatus
<1>. QED  BY <1>1, <1>3, <1>6, <1>7, <1>9, EndsBy

LEMMA LaunchAdvances ==
  ASSUME IInv, RunInv, HasNeeds, Launch, plan' = plan, outcome' = outcome, ~Over, ~Over'
  PROVE  Abstract!Advance \/ UNCHANGED Abstract!vars
<1>. PICK B, S : Launches(B, S)
  BY LaunchSets
<1>1. /\ B \subseteq TopLevel \ claimed /\ S \subseteq TopLevel \ claimed /\ B \cap S = {}
      /\ TopLevel \subseteq Steps /\ claimed \subseteq TopLevel
      /\ finished \subseteq claimed /\ failed \subseteq finished
  BY LaunchFacts
<1>2. /\ claimed' = claimed \cup B \cup S /\ failed' = failed \cup B
      /\ S = {s \in TopLevel \ (claimed \cup B) : Ready(s)}
      /\ \A s \in B : \E i \in DOMAIN plan.needs[s] : plan.needs[s][i] \in failed \cup B
  BY DEF Launches
<1>3. TopLevel' = TopLevel /\ HasNeeds' = HasNeeds /\ plan \in Plans
  BY PlanSame DEF IInv, DataTyped
<1>4. "waiting" \notin Abstract!Satisfied /\ {"running", "blocked", "failed"} \cap Abstract!Satisfied = {}
  BY DEF Abstract!Satisfied
<1>5. \A s \in TopLevel : Status(s) = "waiting" <=> s \notin claimed
  <2>. SUFFICES ASSUME NEW s \in TopLevel, s \in claimed PROVE Status(s) # "waiting"
    BY GraphStatus
  <2>1. \/ Status(s) = "running" \/ Status(s) \in {"blocked", "failed"} \/ Status(s) \in Abstract!Satisfied
    BY <1>1, GraphStatus
  <2>. QED  BY <1>4, <2>1
<1>6. \A s \in Steps : Status(s) \in Abstract!Satisfied <=> s \in finished \ failed
  <2>. SUFFICES ASSUME NEW s \in Steps, s \notin finished \ failed
                PROVE  Status(s) \notin Abstract!Satisfied
    BY <1>1, GraphStatus
  <2>1. Status(s) = "waiting" \/ Status(s) = "running" \/ Status(s) \in {"blocked", "failed"}
    BY <1>1, GraphStatus, OtherStatus
  <2>. QED  BY <1>4, <2>1
<1>7. \A s \in TopLevel : Ready(s) <=> \A n \in NeedsOf(s) : Status(n) \in Abstract!Satisfied
  <2>. SUFFICES ASSUME NEW s \in TopLevel
                PROVE  Ready(s) <=> \A n \in NeedsOf(s) : n \in finished \ failed
    BY <1>1, <1>3, <1>6, NeedsTyped
  <2>. QED  BY DEF Ready, NeedsOf
<1>8. Abstract!Waiting = TopLevel \ claimed /\ Abstract!Startable = {s \in TopLevel \ claimed : Ready(s)}
  BY <1>3, <1>5, <1>7, AbstractSets
<1>9. \A s \in B : ~Ready(s)
  <2>. SUFFICES ASSUME NEW s \in B, Ready(s) PROVE FALSE
    OBVIOUS
  <2>. PICK i \in DOMAIN plan.needs[s] : plan.needs[s][i] \in failed \cup B
    BY <1>2
  <2>1. plan.needs[s][i] \in finished /\ plan.needs[s][i] \notin failed
    BY DEF Ready
  <2>. QED  BY <1>1, <2>1
<1>10. S = Abstract!Startable /\ B \in SUBSET (Abstract!Waiting \ Abstract!Startable)
  BY <1>1, <1>2, <1>8, <1>9
<1>11. \A s \in B : \E n \in NeedsOf(s) : Status(n) \in Abstract!Bad \/ n \in B
  <2>. SUFFICES ASSUME NEW s \in B PROVE \E n \in NeedsOf(s) : Status(n) \in Abstract!Bad \/ n \in B
    OBVIOUS
  <2>. PICK i \in DOMAIN plan.needs[s] : plan.needs[s][i] \in failed \cup B
    BY <1>2
  <2>1. plan.needs[s][i] \in NeedsOf(s)
    BY DEF NeedsOf
  <2>2. \A n \in failed : Status(n) \in Abstract!Bad
    BY <1>1, GraphStatus DEF Abstract!Bad
  <2>. QED  BY <2>1, <2>2
<1>12. ASSUME NEW s \in Steps
       PROVE  /\ s \in S => Status(s)' = "running"
              /\ s \in B => Status(s)' = "blocked"
              /\ s \notin S \cup B => Status(s)' = Status(s)
  <2>1. ASSUME s \notin claimed PROVE s \in TopLevel => outcome[s] = ""
    BY <1>1, <2>1 DEF RunInv, GraphInv
  <2>2. ASSUME s \in S PROVE Status(s)' = "running"
    <3>1. s \in TopLevel /\ outcome'[s] = "" /\ s \notin failed' /\ s \in claimed'
      BY <1>1, <1>2, <2>1, <2>2
    <3>. QED  BY <1>3, <3>1 DEF Status, Running
  <2>3. ASSUME s \in B PROVE Status(s)' = "blocked"
    <3>1. s \in TopLevel /\ outcome'[s] = "" /\ s \in failed'
      BY <1>1, <1>2, <2>1, <2>3
    <3>. QED  BY <1>3, <3>1 DEF Status
  <2>4. ASSUME s \notin S \cup B PROVE Status(s)' = Status(s)
    <3>1. (Running(s)' <=> Running(s)) /\ (s \in failed' <=> s \in failed)
      BY <1>2, <1>3, <2>4 DEF Running
    <3>. QED  BY <3>1, SameStatus
  <2>. QED  BY <2>2, <2>3, <2>4
<1>13. CASE B \cup S = {}
  <2>1. \A s \in Steps : Status(s)' = Status(s)
    BY <1>12, <1>13
  <2>. QED  BY <2>1, NothingAbstract
<1>14. CASE B \cup S # {}
  <2>1. Moves(B, S)
    BY <1>12 DEF Moves
  <2>. QED  BY <1>3, <1>10, <1>11, <1>14, <2>1, AdvanceBy
<1>. QED  BY <1>13, <1>14

LEMMA StartStutters ==
  ASSUME IInv, RunInv, StartSequential
  PROVE  UNCHANGED Abstract!vars
<1>1. /\ main = "start" /\ ~HasNeeds /\ main' = "wait" /\ plan' = plan /\ outcome' = outcome
      /\ failed' = failed /\ stack' = [stack EXCEPT ![Job] = <<Enter(plan.order, "next")>>]
  BY DEF StartSequential, dagVars
<1>2. ~Over /\ ~Over' /\ HasNeeds' = HasNeeds
  BY <1>1, PlanSame DEF Over
<1>3. stack[Job] = <<>>
  BY <1>1 DEF IInv, Shape, Owners, Goroutines
<1>4. stack'[Job] = <<Enter(plan.order, "next")>>
  BY <1>1 DEF IInv, Shape, StackTyped, Goroutines
<1>5. stack'[Job][1].at = "next"
  BY <1>4 DEF Enter
<1>6. \A s : ~Running(s) /\ ~Running(s)'
  BY <1>1, <1>2, <1>3, <1>5 DEF Running
<1>7. \A s \in Steps : Status(s)' = Status(s)
  BY <1>1, <1>6, SameStatus
<1>. QED  BY <1>1, <1>2, <1>7, NothingAbstract

LEMMA ReturnsReturn ==
  ASSUME IInv, RunInv, Return
  PROVE  Abstract!Return
<1>1. /\ main = "wait" /\ relaunch = {} /\ (\A g \in Goroutines : stack[g] = <<>>)
      /\ main' = IF jobFailed THEN "failed" ELSE "passed"
      /\ UNCHANGED <<plan, stack, outcome, claimed, failed>>
  BY DEF Return, dagVars
<1>2. TopLevel' = TopLevel /\ HasNeeds' = HasNeeds /\ \A s \in Steps : Preceding(s)' = Preceding(s)
  BY <1>1, PlanSame DEF Preceding
<1>3. \A g \in Goroutines : Outer(g) = <<>>
  BY <1>1 DEF Outer
<1>4. \A s \in Steps : Status(s)' = Status(s)
  <2>. SUFFICES ASSUME NEW s \in Steps PROVE Running(s)' <=> Running(s)
    BY <1>1, SameStatus
  <2>. QED  BY <1>1, <1>2 DEF Running
<1>5. /\ plan \in Plans /\ TopLevel \subseteq Steps /\ plan.order \in Seq(Steps)
      /\ finished \subseteq claimed /\ failed \subseteq finished /\ jobFailed \in BOOLEAN
  BY PlanNested DEF IInv, DataTyped
<1>6. "waiting" \notin Abstract!Satisfied /\ "failed" \notin Abstract!Satisfied
      /\ Abstract!Bad = {"failed", "blocked"} /\ Abstract!Bad \cap Abstract!Satisfied = {}
  BY DEF Abstract!Satisfied, Abstract!Bad
<1>7. /\ \A s \in Steps : Status(s) # "running"
      /\ \A s \in TopLevel : Status(s) = "waiting" =>
           \E n \in NeedsOf(s) : Status(n) \notin Abstract!Satisfied
      /\ jobFailed <=> \E s \in Steps : Status(s) \in Abstract!Bad
  <2>1. CASE HasNeeds
    <3>1. GraphInv /\ claimed \subseteq TopLevel
      BY <2>1 DEF RunInv, GraphInv
    <3>2. claimed = finished
      BY <1>3, <1>5, <2>1, <3>1 DEF GraphInv, Goroutines
    <3>3. \A s \in TopLevel : /\ s \notin claimed => Status(s) = "waiting"
                              /\ s \in failed => Status(s) \in {"blocked", "failed"}
                              /\ s \in claimed \ failed => Status(s) \in Abstract!Satisfied
      BY <2>1, <3>2, GraphStatus
    <3>4. \A s \in Steps \ TopLevel : Status(s) = "waiting"
      BY OtherStatus
    <3>5. \A s \in Steps : Status(s) # "running"
      <4>1. "running" \notin Abstract!Satisfied
        BY DEF Abstract!Satisfied
      <4>. QED  BY <3>3, <3>4, <4>1
    <3>6. ASSUME NEW s \in TopLevel, Status(s) = "waiting"
          PROVE  \E n \in NeedsOf(s) : Status(n) \notin Abstract!Satisfied
      <4>1. s \notin claimed
        BY <1>5, <1>6, <3>3, <3>6
      <4>2. ~Ready(s)
        BY <1>1, <2>1, <3>1, <4>1 DEF GraphInv
      <4>. PICK i \in DOMAIN plan.needs[s] :
             plan.needs[s][i] \notin finished \/ plan.needs[s][i] \in failed
        BY <4>2 DEF Ready
      <4>. PICK n : n = plan.needs[s][i]
        OBVIOUS
      <4>3. n \in NeedsOf(s) /\ n \in Steps
        BY <1>5, <2>1, NeedsTyped DEF NeedsOf
      <4>4. Status(n) \notin Abstract!Satisfied
        BY <1>5, <1>6, <3>1, <3>2, <3>3, <3>4, <4>3
      <4>. QED  BY <4>3, <4>4
    <3>7. jobFailed <=> \E s \in Steps : Status(s) \in Abstract!Bad
      <4>1. \A s \in Steps : Status(s) \in Abstract!Bad <=> s \in failed
        BY <1>5, <1>6, <3>1, <3>3, <3>4
      <4>. QED  BY <1>5, <2>1, <3>1, <4>1 DEF GraphInv
    <3>. QED  BY <3>5, <3>6, <3>7
  <2>2. CASE ~HasNeeds
    <3>1. Outer(Job) = <<>> /\ \A t : ~UnderWay(t)
      BY <1>3 DEF UnderWay, Goroutines
    <3>. PICK n \in 0..Len(plan.order) : Progress(n)
      BY <1>1, <2>2 DEF RunInv, ListInv
    <3>. PICK l, k : l = Len(plan.order) /\ k = n + 1
      OBVIOUS
    <3>2. l \in Nat /\ n \in Nat /\ k \in Nat /\ (n < l <=> k \in 1..l)
      BY <1>5
    <3>3. DOMAIN plan.order = 1..l /\ \A i \in 1..l : plan.order[i] \in TopLevel
      BY <1>5 DEF TopLevel, Range
    <3>4. \A t \in TopLevel : \E i \in 1..l : t = plan.order[i]
      BY <3>3 DEF TopLevel, Range
    <3>5. \A i \in 1..l : /\ i < k => outcome[plan.order[i]] \in Good
                          /\ i = k => outcome[plan.order[i]] = "failed"
                          /\ i > k => outcome[plan.order[i]] = ""
      <4>1. \A i \in 1..l : i < k => i <= n
        BY <3>2
      <4>. QED  BY <3>1, <4>1 DEF Progress
    <3>6. \A i \in 1..l : /\ i < k => Status(plan.order[i]) \in Abstract!Satisfied
                          /\ i = k => Status(plan.order[i]) = "failed"
                          /\ i > k => Status(plan.order[i]) = "waiting"
      BY <2>2, <3>1, <3>3, <3>5, ListStatus
    <3>7. \A i \in 1..l : i < k \/ i = k \/ i > k
      BY <3>2
    <3>8. \A s \in Steps \ TopLevel : Status(s) = "waiting"
      BY OtherStatus
    <3>9. \A s \in Steps : Status(s) # "running"
      <4>1. "running" \notin Abstract!Satisfied
        BY DEF Abstract!Satisfied
      <4>2. \A s \in TopLevel : Status(s) # "running"
        BY <3>4, <3>6, <3>7, <4>1
      <4>. QED  BY <3>8, <4>2
    <3>10. ASSUME NEW s \in TopLevel, Status(s) = "waiting"
           PROVE  \E m \in NeedsOf(s) : Status(m) \notin Abstract!Satisfied
      <4>. PICK i \in 1..l : s = plan.order[i]
        BY <3>4
      <4>1. i > k
        BY <1>6, <3>6, <3>7, <3>10
      <4>. PICK p : p = i - 1
        OBVIOUS
      <4>2. p \in 1..l /\ p < l /\ p + 1 = i /\ (p = k \/ p > k)
        BY <3>2, <4>1
      <4>3. plan.order[p] \in NeedsOf(s)
        BY <2>2, <3>3, <4>2 DEF NeedsOf, Preceding
      <4>4. Status(plan.order[p]) \notin Abstract!Satisfied
        BY <1>6, <3>6, <4>2
      <4>. QED  BY <4>3, <4>4
    <3>11. jobFailed <=> \E s \in Steps : Status(s) \in Abstract!Bad
      <4>1. jobFailed <=> n < l
        BY <3>1 DEF Progress
      <4>2. ASSUME n < l PROVE \E s \in Steps : Status(s) \in Abstract!Bad
        <5>1. Status(plan.order[k]) = "failed" /\ plan.order[k] \in Steps
          BY <1>5, <3>2, <3>3, <3>6, <4>2
        <5>. QED  BY <1>6, <5>1
      <4>3. ASSUME NEW s \in Steps, Status(s) \in Abstract!Bad PROVE n < l
        <5>1. s \in TopLevel
          BY <1>6, <3>8, <4>3
        <5>. PICK i \in 1..l : s = plan.order[i]
          BY <3>4, <5>1
        <5>2. i = k
          BY <1>6, <3>6, <3>7, <4>3
        <5>. QED  BY <3>2, <5>2
      <4>. QED  BY <4>1, <4>2, <4>3
    <3>. QED  BY <3>9, <3>10, <3>11
  <2>. QED  BY <2>1, <2>2
<1>8. Abstract!Startable = {}
  BY <1>5, <1>7, AbstractSets
<1>9. ~Over /\ Over'
  BY <1>1 DEF Over
<1>10. main' = IF \E s \in Steps : Status(s) \in Abstract!Bad THEN "failed" ELSE "passed"
  BY <1>1, <1>7
<1>11. /\ (IF Over THEN main ELSE "none") = "none"
       /\ \A s \in Steps : [t \in Steps |-> Status(t)][s] # "running"
       /\ [t \in Steps |-> Status(t)]' = [t \in Steps |-> Status(t)]
  BY <1>4, <1>7, <1>9
<1>12. [t \in Steps |-> IF HasNeeds THEN {plan.needs[t][i] : i \in DOMAIN plan.needs[t]}
                        ELSE Preceding(t)]'
       = [t \in Steps |-> IF HasNeeds THEN {plan.needs[t][i] : i \in DOMAIN plan.needs[t]}
                          ELSE Preceding(t)]
  BY <1>1, <1>2
<1>13. (IF Over THEN main ELSE "none")'
       = IF \E s \in Steps : [t \in Steps |-> Status(t)][s] \in Abstract!Bad THEN "failed" ELSE "passed"
  BY <1>9, <1>10
<1>. QED  BY <1>2, <1>8, <1>11, <1>12, <1>13 DEF Abstract!Return

LEMMA StepsRefine ==
  ASSUME IInv, RunInv, [Next]_vars
  PROVE  [Abstract!Next]_(Abstract!vars)
<1>1. CASE Begin
  <2>1. CASE StartSequential
    BY <2>1, StartStutters
  <2>2. CASE StartDAG
    <3>1. HasNeeds /\ Launch /\ plan' = plan /\ outcome' = outcome /\ ~Over /\ ~Over'
      BY <2>2 DEF StartDAG, Over
    <3>. QED  BY <3>1, LaunchAdvances DEF Abstract!Next
  <2>. QED  BY <1>1, <2>1, <2>2 DEF Begin
<1>2. CASE Return
  BY <1>2, ReturnsReturn DEF Abstract!Next
<1>3. CASE Visible
  <2>1. CASE Inside \/ ListDone
    BY <2>1, InsideStutters
  <2>2. CASE TakesUp
    BY <2>2, TakingUpAdvances DEF Abstract!Next
  <2>3. ASSUME NEW s \in Steps, NEW result \in Good \cup {"failed"},
               GoroutineComes(s, result) \/ ListComes(s, result)
        PROVE  Abstract!Next
    <3>1. Abstract!EndSomehow(s)
      BY <2>3, GraphStepEnds, ListStepEnds
    <3>. QED  BY <3>1 DEF Abstract!Next
  <2>. QED  BY <1>3, <2>1, <2>2, <2>3 DEF Visible
<1>4. ASSUME NEW g \in Goroutines, Relaunch(g) PROVE [Abstract!Next]_(Abstract!vars)
  <2>1. Launch /\ plan' = plan /\ outcome' = outcome /\ main' = main /\ relaunch # {}
    BY <1>4 DEF Relaunch
  <2>2. HasNeeds /\ ~Over /\ ~Over'
    BY <2>1 DEF IInv, RelaunchOfDAG, RunInv, Over
  <2>. QED  BY <2>1, <2>2, LaunchAdvances DEF Abstract!Next
<1>. QED  BY <1>1, <1>2, <1>3, <1>4, StepCases

LEMMA InitRefines == Init => Abstract!Init
<1>. SUFFICES ASSUME Init PROVE Abstract!Init
  OBVIOUS
<1>1. plan \in Plans /\ TopLevel \in SUBSET Steps
  BY PlanNested DEF Init
<1>2. [s \in Steps |-> IF HasNeeds THEN {plan.needs[s][i] : i \in DOMAIN plan.needs[s]}
                       ELSE Preceding(s)] \in [Steps -> SUBSET Steps]
  BY <1>1, NeedsTyped DEF NeedsOf
<1>3. \A s \in Steps : Status(s) = "waiting"
  <2>1. \A s \in Steps : ~Running(s)
    BY DEF Init, Running, Goroutines
  <2>. QED  BY <2>1 DEF Init, Status
<1>4. ~Over
  BY DEF Init, Over
<1>. QED  BY <1>1, <1>2, <1>3, <1>4 DEF Abstract!Init

(* Every behaviour of runSteps, on any list or graph of steps with any     *)
(* nesting of handlers, is one of the abstract run of that graph: a step   *)
(* starts when and only when its needs are satisfied, ends once, is marked *)
(* only because of a failure, and runSteps returns, with the right         *)
(* verdict, when no step runs and none could.                              *)
THEOREM StepsRefineDagExecution == Spec => ImplementsDagExecution
<1>. QED
  BY RunInvariant, InitRefines, StepsRefine, PTL DEF Spec, Abstract!Spec, ImplementsDagExecution

=============================================================================
