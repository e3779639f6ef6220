---------------------------- MODULE CliRunProofs ----------------------------
(***************************************************************************)
(* Proofs about CliRun, for any invocations.  The first and longer part is *)
(* about the functions that it calls: what the recursions of Planning      *)
(* compute, for plans of any size (matrices and their expansions, what is  *)
(* reachable, the order of Kahn's algorithm, the depth-first search for a  *)
(* cycle), what the validator therefore accepts, and what the parser of    *)
(* Expressions computes for any tokens.  The second part is about the run. *)
(***************************************************************************)
EXTENDS CliRun, SequenceTheorems, FiniteSetTheorems, WellFoundedInduction, TLAPS

------------------------------------------------------------------------------
(* Recursion on a natural number                                           *)

(* A set of natural numbers has a least one.                               *)
LEMMA LeastOfNat ==
  ASSUME NEW P \in SUBSET Nat, P # {}
  PROVE  \E x \in P : \A y \in P : ~ (y < x)
<1>1. \E x \in P : \A y \in P : ~ (<<y, x>> \in OpToRel(<, Nat))
  BY NatLessThanWellFounded, WFMin
<1>. QED  BY <1>1 DEF OpToRel

(* F is computed up to n from b by the steps of g.                         *)
Computes(F, n, b, g) ==
  /\ DOMAIN F = 0..n /\ F[0] = b
  /\ \A k \in 1..n : F[k] = g[<<k, F[k - 1]>>]

LEMMA Recursion ==
  ASSUME NEW n \in Nat, NEW X, NEW b \in X, NEW g \in [(1..n) \X X -> X]
  PROVE  \E F \in [0..n -> X] : Computes(F, n, b, g)
<1>. DEFINE Good(k) == \E F \in [0..k -> X] : F[0] = b /\ \A i \in 1..k : F[i] = g[<<i, F[i - 1]>>]
            P == {k \in 0..n : ~ Good(k)}
<1>1. P = {}
  <2>. SUFFICES ASSUME P # {} PROVE FALSE
    OBVIOUS
  <2>0. P \in SUBSET Nat
    OBVIOUS
  <2>1. PICK k \in P : \A y \in P : ~ (y < k)
    <3>. HIDE DEF P
    <3>. QED  BY <2>0, LeastOfNat, Zenon
  <2>2. CASE k = 0
    <3>. DEFINE F == [i \in 0..0 |-> b]
    <3>1. F \in [0..k -> X] /\ F[0] = b /\ \A i \in 1..k : F[i] = g[<<i, F[i - 1]>>]
      BY <2>2
    <3>2. Good(k)
      BY <3>1
    <3>. QED  BY <3>2
  <2>3. CASE k # 0
    <3>0. k \in 0..n
      OBVIOUS
    <3>1. k - 1 \in 0..n /\ k - 1 \notin P /\ k \in 1..n
      <4>1. k - 1 \in 0..n /\ k \in 1..n /\ k - 1 < k
        BY <2>3, <3>0
      <4>. HIDE DEF P
      <4>. QED  BY <2>1, <4>1
    <3>2. Good(k - 1)
      <4>. HIDE DEF Good
      <4>. QED  BY <3>1
    <3>3. PICK E_ \in [0..k - 1 -> X] : E_[0] = b /\ \A i \in 1..k - 1 : E_[i] = g[<<i, E_[i - 1]>>]
      BY <3>2
    <3>. DEFINE F == [i \in 0..k |-> IF i = k THEN g[<<k, E_[k - 1]>>] ELSE E_[i]]
    <3>4. E_[k - 1] \in X
      BY <3>1
    <3>5. g[<<k, E_[k - 1]>>] \in X
      BY <3>1, <3>4
    <3>6. F \in [0..k -> X]
      BY <3>1, <3>5
    <3>7. F[0] = b
      BY <3>1, <3>3
    <3>8. ASSUME NEW i \in 1..k PROVE F[i] = g[<<i, F[i - 1]>>]
      <4>1. i - 1 \in 0..k - 1 /\ i - 1 # k /\ F[i - 1] = E_[i - 1]
        BY <3>1
      <4>2. CASE i = k
        <5>1. k \in 0..k
          BY <3>1
        <5>2. F[k] = g[<<k, E_[k - 1]>>]
          BY <5>1
        <5>. HIDE DEF F
        <5>. QED  BY <4>1, <4>2, <5>2
      <4>3. CASE i # k
        <5>1. i \in 1..k - 1 /\ F[i] = E_[i]
          BY <3>1, <4>3
        <5>. QED  BY <3>3, <4>1, <5>1
      <4>. QED  BY <4>2, <4>3
    <3>9. Good(k)
      <4>. HIDE DEF F
      <4>. QED  BY <3>6, <3>7, <3>8
    <3>. QED  BY <3>9
  <2>. QED  BY <2>2, <2>3
<1>2. Good(n)
  <2>0. n \in 0..n
    OBVIOUS
  <2>1. n \in 0..n /\ n \notin P
    <3>. HIDE DEF P
    <3>. QED  BY <1>1, <2>0
  <2>. HIDE DEF Good
  <2>. QED  BY <2>1
<1>. QED  BY <1>2 DEF Computes

(* Whatever is computed by steps that agree with those of g on X is in X.  *)
LEMMA RecursionTyped ==
  ASSUME NEW n \in Nat, NEW X, NEW G, G[0] \in X,
         \A k \in 1..n : G[k - 1] \in X => G[k] \in X
  PROVE  \A k \in 0..n : G[k] \in X
<1>. DEFINE P == {k \in 0..n : G[k] \notin X}
<1>. SUFFICES ASSUME P # {} PROVE FALSE
  OBVIOUS
<1>0. P \in SUBSET Nat
  OBVIOUS
<1>1. PICK k \in P : \A y \in P : ~ (y < k)
  <2>. HIDE DEF P
  <2>. QED  BY <1>0, LeastOfNat, Zenon
<1>2. k # 0
  OBVIOUS
<1>3. k - 1 \in 0..n /\ k - 1 \notin P /\ k \in 1..n
  BY <1>1, <1>2
<1>. QED  BY <1>3

(* FlattenSeq: one step of its recursion, and a solution of it up to m.    *)
Join(q, n, r) == IF n = 1 THEN q[n] ELSE r \o q[n]
Joins(F, q, m) == DOMAIN F = 1..m /\ \A n \in 1..m : F[n] = Join(q, n, F[n - 1])
Joining(F, q, m) == F = [n \in 1..m |-> Join(q, n, F[n - 1])]

LEMMA JoiningJoins ==
  ASSUME NEW q, NEW m \in Nat, NEW F, Joining(F, q, m)
  PROVE  Joins(F, q, m)
<1>. DEFINE G == [n \in 1..m |-> Join(q, n, F[n - 1])]
<1>1. F = G
  BY DEF Joining
<1>2. DOMAIN G = 1..m /\ \A n \in 1..m : G[n] = Join(q, n, F[n - 1])
  OBVIOUS
<1>. HIDE DEF G
<1>. QED  BY <1>1, <1>2 DEF Joins

LEMMA JoiningExists ==
  ASSUME NEW q, NEW m \in Nat
  PROVE  \E F : Joining(F, q, m)
<1>. DEFINE P == {k \in Nat : ~ \E F : Joining(F, q, k)}
<1>. SUFFICES ASSUME P # {} PROVE FALSE
  OBVIOUS
<1>1. PICK k \in P : \A y \in P : ~ (y < k)
  BY LeastOfNat, Zenon
<1>2. CASE k = 0
  <2>. DEFINE F == [n \in 1..0 |-> <<>>]
  <2>1. F = [n \in 1..0 |-> Join(q, n, F[n - 1])]
    OBVIOUS
  <2>. QED  BY <1>2, <2>1 DEF Joining
<1>3. CASE k # 0
  <2>1. k - 1 \in Nat /\ k - 1 \notin P
    BY <1>1, <1>3
  <2>2. PICK E_ : Joining(E_, q, k - 1)
    BY <2>1
  <2>3. Joins(E_, q, k - 1)
    BY <2>1, <2>2, JoiningJoins
  <2>. DEFINE F == [n \in 1..k |-> IF n = k THEN Join(q, k, E_[k - 1]) ELSE E_[n]]
  <2>4. ASSUME NEW n \in 1..k PROVE F[n] = Join(q, n, F[n - 1])
    <3>1. CASE n = 1
      <4>1. F[n] = q[n]
        <5>1. CASE k = 1
          BY <3>1, <5>1 DEF Join
        <5>2. CASE k # 1
          <6>1. 1 \in 1..k - 1 /\ F[n] = E_[1]
            BY <1>3, <3>1, <5>2
          <6>2. E_[1] = Join(q, 1, E_[1 - 1])
            BY <2>3, <6>1 DEF Joins
          <6>. QED  BY <3>1, <6>1, <6>2 DEF Join
        <5>. QED  BY <5>1, <5>2
      <4>. HIDE DEF F
      <4>. QED  BY <3>1, <4>1 DEF Join
    <3>2. CASE n # 1
      <4>1. n - 1 \in 1..k /\ n - 1 # k /\ F[n - 1] = E_[n - 1]
        BY <3>2
      <4>2. CASE n = k
        BY <4>1, <4>2
      <4>3. CASE n # k
        <5>1. n \in 1..k - 1 /\ F[n] = E_[n]
          BY <4>3
        <5>. QED  BY <2>3, <4>1, <5>1 DEF Joins
      <4>. QED  BY <4>2, <4>3
    <3>. QED  BY <3>1, <3>2
  <2>5. F = [n \in 1..k |-> Join(q, n, F[n - 1])]
    <3>. DEFINE G == [n \in 1..k |-> Join(q, n, F[n - 1])]
    <3>1. \A n \in 1..k : F[n] = G[n]
      <4>. HIDE DEF F
      <4>. QED  BY <2>4
    <3>. QED  BY <3>1
  <2>. HIDE DEF F
  <2>. QED  BY <1>1, <2>5 DEF Joining
<1>. QED  BY <1>2, <1>3

LEMMA FlattenJoins ==
  ASSUME NEW q, Len(q) \in Nat, Len(q) # 0
  PROVE  \E F : Joins(F, q, Len(q)) /\ FlattenSeq(q) = F[Len(q)]
<1>. DEFINE F == CHOOSE F : F = [n \in 1..Len(q) |-> Join(q, n, F[n - 1])]
<1>1. Joining(F, q, Len(q))
  BY JoiningExists DEF Joining
<1>2. FlattenSeq(q) = F[Len(q)]
  BY DEF FlattenSeq, Join
<1>. HIDE DEF F
<1>. QED  BY <1>1, <1>2, JoiningJoins

LEMMA ToSetConcat ==
  ASSUME NEW S, NEW u \in Seq(S), NEW v \in Seq(S)
  PROVE  ToSet(u \o v) = ToSet(u) \cup ToSet(v)
<1>1. /\ u \o v \in Seq(S) /\ Len(u \o v) = Len(u) + Len(v) /\ Len(u) \in Nat /\ Len(v) \in Nat
      /\ \A i \in 1..Len(u) + Len(v) : (u \o v)[i] = IF i <= Len(u) THEN u[i] ELSE v[i - Len(u)]
  BY ConcatProperties
<1>2. DOMAIN (u \o v) = 1..Len(u) + Len(v) /\ DOMAIN u = 1..Len(u) /\ DOMAIN v = 1..Len(v)
  BY <1>1
<1>3. ASSUME NEW x \in ToSet(u \o v) PROVE x \in ToSet(u) \cup ToSet(v)
  <2>1. PICK i \in 1..Len(u) + Len(v) : (u \o v)[i] = x
    BY <1>2 DEF ToSet
  <2>2. CASE i <= Len(u)
    <3>1. x = u[i] /\ i \in 1..Len(u)
      BY <1>1, <2>1, <2>2
    <3>. QED  BY <1>2, <3>1 DEF ToSet
  <2>3. CASE ~ (i <= Len(u))
    <3>1. x = v[i - Len(u)] /\ i - Len(u) \in 1..Len(v)
      BY <1>1, <2>1, <2>3
    <3>. QED  BY <1>2, <3>1 DEF ToSet
  <2>. QED  BY <2>2, <2>3
<1>4. ASSUME NEW x \in ToSet(u) PROVE x \in ToSet(u \o v)
  <2>1. PICK i \in 1..Len(u) : u[i] = x
    BY <1>2 DEF ToSet
  <2>2. i \in 1..Len(u) + Len(v) /\ (u \o v)[i] = x
    BY <1>1, <2>1
  <2>. QED  BY <1>2, <2>2 DEF ToSet
<1>5. ASSUME NEW x \in ToSet(v) PROVE x \in ToSet(u \o v)
  <2>1. PICK i \in 1..Len(v) : v[i] = x
    BY <1>2 DEF ToSet
  <2>2. i + Len(u) \in 1..Len(u) + Len(v) /\ ~ (i + Len(u) <= Len(u)) /\ (i + Len(u)) - Len(u) = i
    BY <1>1
  <2>3. (u \o v)[i + Len(u)] = x
    BY <1>1, <2>1, <2>2
  <2>. QED  BY <1>2, <2>2, <2>3 DEF ToSet
<1>. QED  BY <1>3, <1>4, <1>5

LEMMA FlattenTyped ==
  ASSUME NEW S, NEW q \in Seq(Seq(S))
  PROVE  FlattenSeq(q) \in Seq(S) /\ ToSet(FlattenSeq(q)) = UNION {ToSet(q[n]) : n \in 1..Len(q)}
<1>. DEFINE l == Len(q)
<1>0. l \in Nat /\ DOMAIN q = 1..l
  OBVIOUS
<1>1. CASE l = 0
  <2>1. q = <<>> /\ FlattenSeq(q) = q /\ 1..l = {}
    BY <1>1, EmptySeq DEF FlattenSeq
  <2>2. <<>> \in Seq(S) /\ ToSet(<<>>) = {}
    BY DEF ToSet
  <2>. QED  BY <2>1, <2>2
<1>2. CASE l # 0
  <2>1. PICK F : Joins(F, q, l) /\ FlattenSeq(q) = F[l]
    BY <1>0, <1>2, FlattenJoins
  <2>. DEFINE Good(k) == F[k] \in Seq(S) /\ ToSet(F[k]) = UNION {ToSet(q[n]) : n \in 1..k}
              P == {k \in 1..l : ~ Good(k)}
  <2>. HIDE DEF l
  <2>2. ASSUME P # {} PROVE FALSE
    <3>0. P \in SUBSET Nat
      BY <1>0
    <3>1. PICK k \in P : \A y \in P : ~ (y < k)
      <4>. HIDE DEF P
      <4>. QED  BY <2>2, <3>0, LeastOfNat, Zenon
    <3>2. k \in 1..l /\ ~ Good(k)
      OBVIOUS
    <3>. HIDE DEF P
    <3>3. F[k] = Join(q, k, F[k - 1]) /\ q[k] \in Seq(S)
      BY <1>0, <2>1, <3>2 DEF Joins, l
    <3>4. CASE k = 1
      <4>1. F[k] = q[1]
        BY <3>3, <3>4 DEF Join
      <4>2. UNION {ToSet(q[n]) : n \in 1..1} = ToSet(q[1])
        OBVIOUS
      <4>. QED  BY <3>2, <3>3, <3>4, <4>1, <4>2
    <3>5. CASE k # 1
      <4>1. k - 1 \in 1..l /\ k - 1 < k
        BY <1>0, <3>2, <3>5
      <4>2. k - 1 \notin P
        BY <3>1, <4>1
      <4>3. Good(k - 1)
        <5>. HIDE DEF Good
        <5>. QED  BY <4>1, <4>2 DEF P
      <4>4. F[k] = F[k - 1] \o q[k]
        BY <3>3, <3>5 DEF Join
      <4>5. F[k] \in Seq(S)
        BY <3>3, <4>3, <4>4, ConcatProperties
      <4>6. ToSet(F[k]) = ToSet(F[k - 1]) \cup ToSet(q[k])
        BY <3>3, <4>3, <4>4, ToSetConcat
      <4>7. 1..k = (1..k - 1) \cup {k}
        BY <3>2, <1>0
      <4>8. UNION {ToSet(q[n]) : n \in 1..k} = (UNION {ToSet(q[n]) : n \in 1..k - 1}) \cup ToSet(q[k])
        BY <4>7
      <4>. QED  BY <3>2, <4>3, <4>5, <4>6, <4>8
    <3>. QED  BY <3>4, <3>5
  <2>3. Good(l)
    <3>1. l \in 1..l
      BY <1>0, <1>2
    <3>. HIDE DEF Good
    <3>. QED  BY <2>2, <3>1
  <2>. QED  BY <2>1, <2>3 DEF l
<1>. QED  BY <1>1, <1>2

------------------------------------------------------------------------------
(* Expanded plans                                                          *)

(* What CasesAssumption says of the jobs of a case, and what follows of    *)
(* those of its plan.                                                      *)
WellFormed(jobs) ==
  /\ IsSequence(jobs)
  /\ \A j \in ToSet(jobs) :
       /\ {"id", "env", "needs", "inputs", "steps", "cond"} \subseteq DOMAIN j
       /\ IsSequence(j.needs) /\ IsSequence(j.cond)
       /\ IsSequence(j.steps) /\ \A t \in ToSet(j.steps) : IsSequence(t.needs)
       /\ IsSequence(j.dims) /\ \A values \in ToSet(j.dims) : IsSequence(values)
       /\ \A g \in j.inputs : IsSequence(g.prefix) /\ IsSequence(g.suffix)

PlanTyped(jobs) ==
  /\ IsSequence(jobs)
  /\ \A j \in ToSet(jobs) : /\ IsSequence(j.needs)
                            /\ IsSequence(j.steps) /\ \A t \in ToSet(j.steps) : IsSequence(t.needs)
                            /\ \A g \in j.inputs : IsSequence(g.prefix) /\ IsSequence(g.suffix)

LEMMA SequenceFacts ==
  ASSUME NEW q, IsSequence(q)
  PROVE  /\ q \in Seq(ToSet(q)) /\ Len(q) \in Nat /\ DOMAIN q = 1..Len(q)
         /\ \A i \in 1..Len(q) : q[i] \in ToSet(q)
BY DEF IsSequence, ToSet

LEMMA SeqIsSequence ==
  ASSUME NEW S, NEW q \in Seq(S)
  PROVE  IsSequence(q) /\ ToSet(q) \subseteq S
<1>1. Len(q) \in Nat /\ DOMAIN q = 1..Len(q) /\ \A i \in 1..Len(q) : q[i] \in S
  OBVIOUS
<1>2. \A i \in 1..Len(q) : q[i] \in ToSet(q)
  BY <1>1 DEF ToSet
<1>3. q = [i \in 1..Len(q) |-> q[i]]
  BY <1>1
<1>4. q \in [1..Len(q) -> ToSet(q)]
  BY <1>2, <1>3
<1>5. q \in Seq(ToSet(q))
  BY <1>1, <1>4
<1>. QED  BY <1>1, <1>5 DEF IsSequence, ToSet

LEMMA SameDomainSeq ==
  ASSUME NEW n \in Nat, NEW S, NEW q \in [1..n -> S]
  PROVE  q \in Seq(S) /\ Len(q) = n
OBVIOUS

(* The combinations of a matrix: those up to dimension d from those before.*)
Grow(dims, d, combos) ==
  FlattenSeq([c \in DOMAIN combos |-> [v \in DOMAIN dims[d] |-> Append(combos[c], dims[d][v])]])

Grown(F, dims) == F = [d \in 0..Len(dims) |-> IF d = 0 THEN << <<>> >> ELSE Grow(dims, d, F[d - 1])]

LEMMA CartesianIs ==
  ASSUME NEW dims
  PROVE  Cartesian(dims) = (CHOOSE F : Grown(F, dims))[Len(dims)]
BY DEF Cartesian, Grown, Grow

Values(dims) == UNION {ToSet(dims[d]) : d \in 1..Len(dims)}

LEMMA GrowTyped ==
  ASSUME NEW dims, IsSequence(dims), \A values \in ToSet(dims) : IsSequence(values),
         NEW d \in 1..Len(dims), NEW combos \in Seq(Seq(Values(dims)))
  PROVE  Grow(dims, d, combos) \in Seq(Seq(Values(dims)))
<1>. DEFINE V == Values(dims)
            q(c) == [v \in DOMAIN dims[d] |-> Append(combos[c], dims[d][v])]
            p == [c \in DOMAIN combos |-> q(c)]
<1>1. IsSequence(dims[d]) /\ ToSet(dims[d]) \subseteq V
  BY SequenceFacts DEF Values
<1>2. Len(dims[d]) \in Nat /\ DOMAIN dims[d] = 1..Len(dims[d]) /\ \A v \in 1..Len(dims[d]) : dims[d][v] \in V
  BY <1>1, SequenceFacts
<1>. HIDE DEF V
<1>3. ASSUME NEW c \in DOMAIN combos PROVE q(c) \in Seq(Seq(V))
  <2>1. combos[c] \in Seq(V)
    BY DEF V
  <2>2. q(c) \in [1..Len(dims[d]) -> Seq(V)]
    BY <1>2, <2>1
  <2>. HIDE DEF q
  <2>. QED  BY <1>2, <2>2, SameDomainSeq
<1>4. DOMAIN combos = 1..Len(combos) /\ Len(combos) \in Nat
  OBVIOUS
<1>5. p \in [1..Len(combos) -> Seq(Seq(V))]
  <2>. HIDE DEF q
  <2>. QED  BY <1>3, <1>4
<1>6. p \in Seq(Seq(Seq(V)))
  <2>. HIDE DEF p
  <2>. QED  BY <1>4, <1>5, SameDomainSeq
<1>7. Grow(dims, d, combos) = FlattenSeq(p)
  BY DEF Grow
<1>. HIDE DEF p
<1>8. FlattenSeq(p) \in Seq(Seq(V))
  BY <1>6, FlattenTyped
<1>. QED  BY <1>7, <1>8 DEF V

LEMMA CartesianTyped ==
  ASSUME NEW dims, IsSequence(dims), \A values \in ToSet(dims) : IsSequence(values)
  PROVE  Cartesian(dims) \in Seq(Seq(Values(dims)))
<1>. DEFINE n == Len(dims)
            X == Seq(Seq(Values(dims)))
            g == [p \in (1..n) \X X |-> Grow(dims, p[1], p[2])]
            G == CHOOSE F : Grown(F, dims)
<1>0. n \in Nat
  BY SequenceFacts
<1>1. << <<>> >> \in X
  <2>1. <<>> \in Seq(Values(dims))
    OBVIOUS
  <2>. HIDE DEF n
  <2>. QED  BY <2>1
<1>2. \A d \in 1..n, x \in X : Grow(dims, d, x) \in X
  BY GrowTyped
<1>. HIDE DEF X, n
<1>3. g \in [(1..n) \X X -> X] /\ \A d \in 1..n, x \in X : g[<<d, x>>] = Grow(dims, d, x)
  BY <1>2
<1>. HIDE DEF g
<1>4. PICK F \in [0..n -> X] : Computes(F, n, << <<>> >>, g)
  BY <1>0, <1>1, <1>3, Recursion
<1>5. Grown(F, dims)
  <2>1. F = [d \in 0..n |-> IF d = 0 THEN << <<>> >> ELSE Grow(dims, d, F[d - 1])]
    <3>1. ASSUME NEW d \in 0..n PROVE F[d] = IF d = 0 THEN << <<>> >> ELSE Grow(dims, d, F[d - 1])
      <4>1. CASE d = 0
        BY <1>4, <4>1 DEF Computes
      <4>2. CASE d # 0
        <5>1. d \in 1..n /\ d - 1 \in 0..n
          BY <1>0, <4>2
        <5>2. F[d - 1] \in X
          BY <5>1
        <5>. QED  BY <1>3, <1>4, <4>2, <5>1, <5>2 DEF Computes
      <4>. QED  BY <4>1, <4>2
    <3>. QED  BY <3>1
  <2>. QED  BY <2>1 DEF Grown, n
<1>6. Grown(G, dims)
  BY <1>5
<1>. HIDE DEF G
<1>7. G[0] \in X
  BY <1>0, <1>1, <1>6 DEF Grown, n
<1>8. \A d \in 1..n : G[d - 1] \in X => G[d] \in X
  <2>1. G = [d \in 0..n |-> IF d = 0 THEN << <<>> >> ELSE Grow(dims, d, G[d - 1])]
    BY <1>6 DEF Grown, n
  <2>2. \A d \in 1..n : d \in 0..n /\ d # 0
    BY <1>0
  <2>3. \A d \in 1..n : G[d] = Grow(dims, d, G[d - 1])
    BY <2>1, <2>2
  <2>. QED  BY <1>2, <2>3
<1>9. G[n] \in X
  <2>1. \A k \in 0..n : G[k] \in X
    BY <1>0, <1>7, <1>8, RecursionTyped
  <2>. QED  BY <1>0, <2>1
<1>. QED  BY <1>9, CartesianIs DEF G, n, X

(* The ids of the expansions of a job.                                     *)
IdsFrom(j) == [c \in DOMAIN Cartesian(j.dims) |-> IdOf(j, Cartesian(j.dims)[c])]

Expand(jobs, id, i, ids) ==
  CASE jobs[i].id # id                            -> ids
    [] jobs[i].id = id /\ jobs[i].dims = <<>>     -> <<id>>
    [] jobs[i].id = id /\ ~ (jobs[i].dims = <<>>) -> ids \o IdsFrom(jobs[i])

GrownIds(F, jobs, id) ==
  F = [i \in 0..Len(jobs) |-> CASE i = 0                                           -> <<>>
                                [] i > 0 /\ jobs[i].id # id                        -> F[i - 1]
                                [] i > 0 /\ jobs[i].id = id /\ jobs[i].dims = <<>> -> <<id>>
                                [] OTHER                                           -> F[i - 1] \o IdsFrom(jobs[i])]

LEMMA ExpansionsIs ==
  ASSUME NEW jobs, NEW id
  PROVE  Expansions(jobs, id) = (CHOOSE F : GrownIds(F, jobs, id))[Len(jobs)]
BY DEF Expansions, GrownIds, IdsFrom

LEMMA GrownIdsUnfolds ==
  ASSUME NEW jobs, NEW id, NEW F, Len(jobs) \in Nat
  PROVE  GrownIds(F, jobs, id) <=>
           F = [i \in 0..Len(jobs) |-> IF i = 0 THEN <<>> ELSE Expand(jobs, id, i, F[i - 1])]
<1>1. \A i \in 0..Len(jobs) :
        (CASE i = 0                                           -> <<>>
           [] i > 0 /\ jobs[i].id # id                        -> F[i - 1]
           [] i > 0 /\ jobs[i].id = id /\ jobs[i].dims = <<>> -> <<id>>
           [] OTHER                                           -> F[i - 1] \o IdsFrom(jobs[i]))
        = IF i = 0 THEN <<>> ELSE Expand(jobs, id, i, F[i - 1])
  BY DEF Expand
<1>. QED  BY <1>1 DEF GrownIds

LEMMA IdsFromTyped ==
  ASSUME NEW j, IsSequence(j.dims), \A values \in ToSet(j.dims) : IsSequence(values)
  PROVE  IsSequence(IdsFrom(j))
<1>. DEFINE q == Cartesian(j.dims)
            S == {IdOf(j, q[c]) : c \in DOMAIN q}
<1>1. q \in Seq(Seq(Values(j.dims)))
  BY CartesianTyped
<1>2. Len(q) \in Nat /\ DOMAIN q = 1..Len(q)
  BY <1>1
<1>3. IdsFrom(j) = [c \in DOMAIN q |-> IdOf(j, q[c])]
  BY DEF IdsFrom
<1>. HIDE DEF q
<1>4. IdsFrom(j) \in [1..Len(q) -> S]
  BY <1>2, <1>3
<1>. HIDE DEF S
<1>5. IdsFrom(j) \in Seq(S)
  BY <1>2, <1>4, SameDomainSeq
<1>. QED  BY <1>5, SeqIsSequence

LEMMA ExpansionsGrown ==
  ASSUME NEW jobs, WellFormed(jobs), NEW id
  PROVE  \E G : /\ G[0] = <<>> /\ \A i \in 1..Len(jobs) : G[i] = Expand(jobs, id, i, G[i - 1])
               /\ Expansions(jobs, id) = G[Len(jobs)] /\ IsSequence(G[Len(jobs)])
<1>. DEFINE n == Len(jobs)
            S == {id} \cup UNION {ToSet(IdsFrom(jobs[i])) : i \in 1..n}
            X == Seq(S)
            g == [p \in (1..n) \X X |-> Expand(jobs, id, p[1], p[2])]
            G == CHOOSE F : GrownIds(F, jobs, id)
<1>0. n \in Nat /\ \A i \in 1..n : jobs[i] \in ToSet(jobs)
  BY SequenceFacts DEF WellFormed
<1>1. <<>> \in X
  OBVIOUS
<1>2. ASSUME NEW i \in 1..n, NEW x \in X PROVE Expand(jobs, id, i, x) \in X
  <2>1. IsSequence(IdsFrom(jobs[i]))
    BY <1>0, IdsFromTyped DEF WellFormed
  <2>2. ToSet(IdsFrom(jobs[i])) \subseteq S
    OBVIOUS
  <2>3. IdsFrom(jobs[i]) \in Seq(S)
    <3>. HIDE DEF S
    <3>1. DOMAIN IdsFrom(jobs[i]) = 1..Len(IdsFrom(jobs[i])) /\ Len(IdsFrom(jobs[i])) \in Nat
          /\ IdsFrom(jobs[i]) \in Seq(ToSet(IdsFrom(jobs[i])))
          /\ \A k \in 1..Len(IdsFrom(jobs[i])) : IdsFrom(jobs[i])[k] \in S
      BY <2>1, <2>2, SequenceFacts
    <3>. QED  BY <3>1
  <2>4. id \in S
    OBVIOUS
  <2>. HIDE DEF S
  <2>5. <<id>> \in X /\ x \o IdsFrom(jobs[i]) \in X
    BY <2>3, <2>4, ConcatProperties
  <2>. QED  BY <2>5 DEF Expand
<1>. HIDE DEF S, X, n
<1>3. g \in [(1..n) \X X -> X] /\ \A i \in 1..n, x \in X : g[<<i, x>>] = Expand(jobs, id, i, x)
  BY <1>2
<1>. HIDE DEF g
<1>4. PICK F \in [0..n -> X] : Computes(F, n, <<>>, g)
  BY <1>0, <1>1, <1>3, Recursion
<1>5. GrownIds(F, jobs, id)
  <2>1. F = [i \in 0..n |-> IF i = 0 THEN <<>> ELSE Expand(jobs, id, i, F[i - 1])]
    <3>1. ASSUME NEW i \in 0..n PROVE F[i] = IF i = 0 THEN <<>> ELSE Expand(jobs, id, i, F[i - 1])
      <4>1. CASE i = 0
        BY <1>4, <4>1 DEF Computes
      <4>2. CASE i # 0
        <5>1. i \in 1..n /\ i - 1 \in 0..n
          BY <1>0, <4>2
        <5>2. F[i - 1] \in X
          BY <5>1
        <5>. QED  BY <1>3, <1>4, <4>2, <5>1, <5>2 DEF Computes
      <4>. QED  BY <4>1, <4>2
    <3>. QED  BY <3>1
  <2>. QED  BY <1>0, <2>1, GrownIdsUnfolds DEF n
<1>6. G = [i \in 0..n |-> IF i = 0 THEN <<>> ELSE Expand(jobs, id, i, G[i - 1])]
  <2>1. GrownIds(G, jobs, id)
    BY <1>5
  <2>. HIDE DEF G
  <2>. QED  BY <1>0, <2>1, GrownIdsUnfolds DEF n
<1>. HIDE DEF G
<1>7. G[0] = <<>> /\ \A i \in 1..n : G[i] = Expand(jobs, id, i, G[i - 1])
  BY <1>0, <1>6
<1>8. \A i \in 1..n : G[i - 1] \in X => G[i] \in X
  BY <1>2, <1>7
<1>9. G[n] \in X
  <2>1. \A i \in 0..n : G[i] \in X
    BY <1>0, <1>1, <1>7, <1>8, RecursionTyped
  <2>. QED  BY <1>0, <2>1
<1>10. Expansions(jobs, id) = G[n]
  BY ExpansionsIs DEF G, n
<1>11. IsSequence(G[n])
  BY <1>9, SeqIsSequence DEF X
<1>. QED  BY <1>7, <1>10, <1>11 DEF n

LEMMA ExpansionsTyped ==
  ASSUME NEW jobs, WellFormed(jobs), NEW id
  PROVE  IsSequence(Expansions(jobs, id))
BY ExpansionsGrown

(* A sequence of sequences joined is a sequence, of what is in them.       *)
LEMMA FlattenIsSequence ==
  ASSUME NEW q, IsSequence(q), \A i \in DOMAIN q : IsSequence(q[i])
  PROVE  /\ IsSequence(FlattenSeq(q))
         /\ ToSet(FlattenSeq(q)) = UNION {ToSet(q[i]) : i \in DOMAIN q}
<1>. DEFINE S == UNION {ToSet(q[i]) : i \in DOMAIN q}
<1>1. Len(q) \in Nat /\ DOMAIN q = 1..Len(q) /\ q \in Seq(ToSet(q))
  BY SequenceFacts
<1>2. ASSUME NEW i \in DOMAIN q PROVE q[i] \in Seq(S)
  <2>1. /\ DOMAIN q[i] = 1..Len(q[i]) /\ Len(q[i]) \in Nat
        /\ \A k \in 1..Len(q[i]) : q[i][k] \in ToSet(q[i])
        /\ q[i] \in Seq(ToSet(q[i]))
    BY SequenceFacts
  <2>2. ToSet(q[i]) \subseteq S
    OBVIOUS
  <2>. HIDE DEF S
  <2>. QED  BY <2>1, <2>2
<1>3. q \in Seq(Seq(S))
  <2>. HIDE DEF S
  <2>1. q = [i \in 1..Len(q) |-> q[i]]
    BY <1>1
  <2>2. q \in [1..Len(q) -> Seq(S)]
    BY <1>1, <1>2, <2>1
  <2>. QED  BY <1>1, <2>2
<1>4. FlattenSeq(q) \in Seq(S) /\ ToSet(FlattenSeq(q)) = UNION {ToSet(q[n]) : n \in 1..Len(q)}
  <2>. HIDE DEF S
  <2>. QED  BY <1>3, FlattenTyped
<1>5. IsSequence(FlattenSeq(q))
  BY <1>4, SeqIsSequence
<1>. QED  BY <1>1, <1>4, <1>5

LEMMA FunctionIsSequence ==
  ASSUME NEW n \in Nat, NEW q, q = [i \in 1..n |-> q[i]]
  PROVE  IsSequence(q) /\ DOMAIN q = 1..n /\ Len(q) = n
<1>. DEFINE S == {q[i] : i \in 1..n}
<1>1. q \in [1..n -> S]
  OBVIOUS
<1>. HIDE DEF S
<1>2. q \in Seq(S) /\ Len(q) = n
  BY <1>1, SameDomainSeq
<1>. QED  BY <1>1, <1>2, SeqIsSequence

LEMMA ResolveTyped ==
  ASSUME NEW jobs, WellFormed(jobs), NEW list, IsSequence(list)
  PROVE  IsSequence(Resolve(jobs, list))
<1>. DEFINE ids(n) == Expansions(jobs, list[n])
            q == [n \in DOMAIN list |-> IF ids(n) # <<>> THEN ids(n) ELSE <<list[n]>>]
<1>1. Len(list) \in Nat /\ DOMAIN list = 1..Len(list)
  BY SequenceFacts
<1>2. IsSequence(q) /\ DOMAIN q = 1..Len(list)
  <2>1. q = [n \in 1..Len(list) |-> q[n]]
    BY <1>1
  <2>. HIDE DEF q
  <2>. QED  BY <1>1, <2>1, FunctionIsSequence
<1>3. ASSUME NEW n \in DOMAIN list PROVE IsSequence(q[n])
  <2>1. IsSequence(ids(n))
    BY ExpansionsTyped
  <2>2. IsSequence(<<list[n]>>)
    <3>1. <<list[n]>> \in Seq({list[n]})
      OBVIOUS
    <3>. QED  BY <3>1, SeqIsSequence
  <2>3. q[n] = ids(n) \/ q[n] = <<list[n]>>
    OBVIOUS
  <2>. HIDE DEF q, ids
  <2>. QED  BY <2>1, <2>2, <2>3
<1>4. Resolve(jobs, list) = FlattenSeq(q)
  BY DEF Resolve
<1>. HIDE DEF q
<1>. QED  BY <1>1, <1>2, <1>3, <1>4, FlattenIsSequence

LEMMA ExpandedTyped ==
  ASSUME NEW jobs, WellFormed(jobs)
  PROVE  PlanTyped(ExpandMatrix(jobs))
<1>. DEFINE job(j) == [j EXCEPT !.needs = Resolve(jobs, j.needs)]
            combos(j) == Cartesian(j.dims)
            Expanded(j) == IF j.dims = <<>> THEN <<job(j)>>
                           ELSE [c \in DOMAIN combos(j) |-> [job(j) EXCEPT !.id = IdOf(j, combos(j)[c]), !.env = combos(j)[c]]]
            q == [i \in DOMAIN jobs |-> Expanded(jobs[i])]
            Fit(x) == /\ IsSequence(x.needs)
                      /\ IsSequence(x.steps) /\ \A t \in ToSet(x.steps) : IsSequence(t.needs)
                      /\ \A g \in x.inputs : IsSequence(g.prefix) /\ IsSequence(g.suffix)
<1>1. Len(jobs) \in Nat /\ DOMAIN jobs = 1..Len(jobs) /\ \A i \in 1..Len(jobs) : jobs[i] \in ToSet(jobs)
  BY SequenceFacts DEF WellFormed
<1>2. ExpandMatrix(jobs) = FlattenSeq(q)
  BY DEF ExpandMatrix
<1>3. ASSUME NEW j \in ToSet(jobs) PROVE IsSequence(Expanded(j)) /\ \A x \in ToSet(Expanded(j)) : Fit(x)
  <2>1. /\ {"id", "env", "needs", "inputs", "steps"} \subseteq DOMAIN j /\ IsSequence(j.needs)
        /\ IsSequence(j.steps) /\ \A t \in ToSet(j.steps) : IsSequence(t.needs)
        /\ IsSequence(j.dims) /\ \A values \in ToSet(j.dims) : IsSequence(values)
        /\ \A g \in j.inputs : IsSequence(g.prefix) /\ IsSequence(g.suffix)
    BY DEF WellFormed
  <2>2. IsSequence(Resolve(jobs, j.needs))
    BY <2>1, ResolveTyped
  <2>. DEFINE r == Resolve(jobs, j.needs)
  <2>. HIDE DEF r
  <2>3. /\ [j EXCEPT !.needs = r].needs = r
        /\ [j EXCEPT !.needs = r].inputs = j.inputs
        /\ [j EXCEPT !.needs = r].steps = j.steps
    BY <2>1
  <2>4. \A v, e : /\ [[j EXCEPT !.needs = r] EXCEPT !.id = v, !.env = e].needs = r
                  /\ [[j EXCEPT !.needs = r] EXCEPT !.id = v, !.env = e].inputs = j.inputs
                  /\ [[j EXCEPT !.needs = r] EXCEPT !.id = v, !.env = e].steps = j.steps
    BY <2>1
  <2>5. CASE j.dims = <<>>
    <3>1. Expanded(j) = <<job(j)>>
      BY <2>5
    <3>2. Fit(job(j))
      BY <2>1, <2>2, <2>3 DEF r
    <3>. HIDE DEF job, Expanded, Fit
    <3>3. <<job(j)>> \in Seq({job(j)})
      OBVIOUS
    <3>4. IsSequence(<<job(j)>>) /\ ToSet(<<job(j)>>) \subseteq {job(j)}
      BY <3>3, SeqIsSequence
    <3>. QED  BY <3>1, <3>2, <3>4
  <2>6. CASE j.dims # <<>>
    <3>. DEFINE w == combos(j)
                f == [c \in DOMAIN w |-> [job(j) EXCEPT !.id = IdOf(j, w[c]), !.env = w[c]]]
    <3>1. Expanded(j) = f
      BY <2>6
    <3>2. Len(w) \in Nat /\ DOMAIN w = 1..Len(w)
      <4>1. w \in Seq(Seq(Values(j.dims)))
        BY <2>1, CartesianTyped
      <4>. QED  BY <4>1
    <3>. HIDE DEF w
    <3>3. \A c \in DOMAIN w : Fit(f[c])
      <4>1. \A c \in DOMAIN w : f[c] = [[j EXCEPT !.needs = r] EXCEPT !.id = IdOf(j, w[c]), !.env = w[c]]
        BY DEF r
      <4>. HIDE DEF f
      <4>2. \A c \in DOMAIN w : f[c].needs = r /\ f[c].inputs = j.inputs /\ f[c].steps = j.steps
        <5>. SUFFICES ASSUME NEW c \in DOMAIN w
                      PROVE  f[c].needs = r /\ f[c].inputs = j.inputs /\ f[c].steps = j.steps
          OBVIOUS
        <5>. DEFINE v == IdOf(j, w[c])
                    e == w[c]
        <5>1. f[c] = [[j EXCEPT !.needs = r] EXCEPT !.id = v, !.env = e]
          BY <4>1
        <5>. HIDE DEF v, e
        <5>2. /\ [[j EXCEPT !.needs = r] EXCEPT !.id = v, !.env = e].needs = r
              /\ [[j EXCEPT !.needs = r] EXCEPT !.id = v, !.env = e].inputs = j.inputs
              /\ [[j EXCEPT !.needs = r] EXCEPT !.id = v, !.env = e].steps = j.steps
          BY <2>4
        <5>. QED  BY <5>1, <5>2
      <4>. QED  BY <2>1, <2>2, <4>2 DEF r
    <3>4. IsSequence(f) /\ DOMAIN f = 1..Len(w)
      <4>1. f = [c \in 1..Len(w) |-> f[c]]
        BY <3>2
      <4>. HIDE DEF f
      <4>. QED  BY <3>2, <4>1, FunctionIsSequence
    <3>. HIDE DEF f, Expanded, Fit
    <3>. QED  BY <3>1, <3>2, <3>3, <3>4 DEF ToSet
  <2>. QED  BY <2>5, <2>6
<1>4. IsSequence(q) /\ DOMAIN q = 1..Len(jobs)
  <2>1. q = [i \in 1..Len(jobs) |-> q[i]]
    BY <1>1
  <2>. HIDE DEF q
  <2>. QED  BY <1>1, <2>1, FunctionIsSequence
<1>5. \A i \in DOMAIN q : IsSequence(q[i]) /\ \A x \in ToSet(q[i]) : Fit(x)
  <2>1. \A i \in DOMAIN q : q[i] = Expanded(jobs[i])
    BY <1>1
  <2>. HIDE DEF Expanded, Fit, q
  <2>. QED  BY <1>1, <1>3, <1>4, <2>1
<1>. HIDE DEF q, Fit
<1>6. IsSequence(FlattenSeq(q)) /\ \A x \in ToSet(FlattenSeq(q)) : Fit(x)
  BY <1>4, <1>5, FlattenIsSequence
<1>. QED  BY <1>2, <1>6 DEF PlanTyped, Fit

------------------------------------------------------------------------------
(* How often something occurs in a sequence                                *)

(* Induction up to n: P is the set of the numbers for which a claim holds. *)
LEMMA InductionTo ==
  ASSUME NEW n \in Nat, NEW P, 0 \in P, \A k \in 1..n : k - 1 \in P => k \in P
  PROVE  \A k \in 0..n : k \in P
<1>. DEFINE Q == {k \in 0..n : k \notin P}
<1>. SUFFICES ASSUME Q # {} PROVE FALSE
  OBVIOUS
<1>0. Q \in SUBSET Nat
  OBVIOUS
<1>1. PICK k \in Q : \A y \in Q : ~ (y < k)
  <2>. HIDE DEF Q
  <2>. QED  BY <1>0, LeastOfNat, Zenon
<1>2. k \in 1..n /\ k - 1 \in 0..n /\ k - 1 < k /\ k \notin P
  OBVIOUS
<1>3. k - 1 \in P
  BY <1>1, <1>2
<1>. QED  BY <1>2, <1>3

CountTo(q, m, x) == Cardinality({k \in 1..m : q[k] = x})
Occurs(q, x) == CountTo(q, Len(q), x)

LEMMA CountFacts ==
  ASSUME NEW q, NEW x, NEW m \in Nat
  PROVE  /\ CountTo(q, m, x) \in Nat /\ CountTo(q, 0, x) = 0
         /\ m # 0 => CountTo(q, m, x) = CountTo(q, m - 1, x) + (IF q[m] = x THEN 1 ELSE 0)
         /\ CountTo(q, m, x) = 0 <=> \A k \in 1..m : q[k] # x
<1>. DEFINE A(n) == {k \in 1..n : q[k] = x}
<1>1. \A n \in Nat : IsFiniteSet(A(n)) /\ Cardinality(A(n)) \in Nat
  <2>1. ASSUME NEW n \in Nat PROVE IsFiniteSet(A(n)) /\ Cardinality(A(n)) \in Nat
    <3>1. IsFiniteSet(1..n) /\ A(n) \in SUBSET (1..n)
      BY FS_Interval
    <3>. HIDE DEF A
    <3>. QED  BY <3>1, FS_Subset, FS_CardinalityType
  <2>. QED  BY <2>1
<1>2. A(0) = {}
  OBVIOUS
<1>3. ASSUME m # 0 PROVE Cardinality(A(m)) = Cardinality(A(m - 1)) + (IF q[m] = x THEN 1 ELSE 0)
  <2>0. m - 1 \in Nat
    BY <1>3
  <2>1. CASE q[m] = x
    <3>1. A(m) = A(m - 1) \cup {m} /\ m \notin A(m - 1)
      BY <1>3, <2>1
    <3>. HIDE DEF A
    <3>. QED  BY <1>1, <2>0, <2>1, <3>1, FS_AddElement
  <2>2. CASE q[m] # x
    <3>1. A(m) = A(m - 1)
      BY <1>3, <2>2
    <3>. HIDE DEF A
    <3>. QED  BY <1>1, <2>0, <2>2, <3>1
  <2>. QED  BY <2>1, <2>2
<1>4. Cardinality(A(m)) = 0 <=> A(m) = {}
  <2>. HIDE DEF A
  <2>. QED  BY <1>1, FS_EmptySet
<1>5. Cardinality(A(0)) = 0
  <2>. HIDE DEF A
  <2>. QED  BY <1>2, FS_EmptySet
<1>. QED  BY <1>1, <1>3, <1>4, <1>5 DEF CountTo

LEMMA CountStep ==
  ASSUME NEW q, NEW x, NEW m \in Nat, m # 0
  PROVE  CountTo(q, m, x) = CountTo(q, m - 1, x) + (IF q[m] = x THEN 1 ELSE 0)
BY CountFacts

LEMMA OccursConcat ==
  ASSUME NEW S, NEW u \in Seq(S), NEW v \in Seq(S), NEW x
  PROVE  Occurs(u \o v, x) = Occurs(u, x) + Occurs(v, x)
<1>. DEFINE w == u \o v
            a == Len(u)
            n == Len(v)
<1>1. /\ Len(w) = a + n /\ a \in Nat /\ n \in Nat
      /\ \A i \in 1..a : w[i] = u[i]
      /\ \A i \in 1..n : w[a + i] = v[i]
  <2>1. /\ Len(w) = a + n /\ a \in Nat /\ n \in Nat
        /\ \A i \in 1..a + n : w[i] = IF i <= a THEN u[i] ELSE v[i - a]
    BY ConcatProperties
  <2>2. \A i \in 1..n : a + i \in 1..a + n /\ ~ (a + i <= a) /\ (a + i) - a = i
    BY <2>1
  <2>. HIDE DEF w, a, n
  <2>. QED  BY <2>1, <2>2
<1>. HIDE DEF w, a, n
<1>2. CountTo(w, a, x) = CountTo(u, a, x)
  <2>1. {k \in 1..a : w[k] = x} = {k \in 1..a : u[k] = x}
    BY <1>1
  <2>. QED  BY <2>1 DEF CountTo
<1>. DEFINE P == {k \in 0..n : CountTo(w, a + k, x) = CountTo(u, a, x) + CountTo(v, k, x)}
<1>3. 0 \in P
  BY <1>1, <1>2, CountFacts
<1>4. ASSUME NEW k \in 1..n, k - 1 \in P PROVE k \in P
  <2>1. k \in Nat /\ k # 0 /\ a + k \in Nat /\ a + k # 0 /\ (a + k) - 1 = a + (k - 1) /\ k - 1 \in Nat
    BY <1>1
  <2>2. CountTo(w, a + k, x) = CountTo(w, a + (k - 1), x) + (IF w[a + k] = x THEN 1 ELSE 0)
    BY <2>1, CountFacts
  <2>3. CountTo(v, k, x) = CountTo(v, k - 1, x) + (IF v[k] = x THEN 1 ELSE 0)
    BY <2>1, CountFacts
  <2>4. w[a + k] = v[k]
    BY <1>1
  <2>5. CountTo(w, a + (k - 1), x) = CountTo(u, a, x) + CountTo(v, k - 1, x)
    BY <1>4
  <2>6. CountTo(u, a, x) \in Nat /\ CountTo(v, k - 1, x) \in Nat
    BY <1>1, <2>1, CountFacts
  <2>. QED  BY <2>2, <2>3, <2>4, <2>5, <2>6
<1>5. n \in P
  <2>. HIDE DEF P
  <2>1. n \in 0..n
    BY <1>1
  <2>. QED  BY <1>1, <1>3, <1>4, <2>1, InductionTo
<1>. QED  BY <1>1, <1>5 DEF Occurs, w, a, n

(* In a sequence of sequences joined: c counts them, sequence by sequence. *)
LEMMA OccursFlatten ==
  ASSUME NEW S, NEW q \in Seq(Seq(S)), NEW x, NEW c,
         c[0] = 0, \A m \in 1..Len(q) : c[m - 1] \in Nat /\ c[m] = c[m - 1] + Occurs(q[m], x)
  PROVE  Occurs(FlattenSeq(q), x) = c[Len(q)]
<1>. DEFINE l == Len(q)
<1>0. l \in Nat /\ DOMAIN q = 1..l
  OBVIOUS
<1>1. CASE l = 0
  <2>1. q = <<>> /\ FlattenSeq(q) = q
    BY <1>1, EmptySeq DEF FlattenSeq
  <2>. QED  BY <1>1, <2>1, CountFacts DEF Occurs
<1>2. CASE l # 0
  <2>1. PICK F : Joins(F, q, l) /\ FlattenSeq(q) = F[l]
    BY <1>0, <1>2, FlattenJoins
  <2>. DEFINE Good(k) == F[k] \in Seq(S) /\ Occurs(F[k], x) = c[k]
              P == {0} \cup {k \in 1..l : Good(k)}
  <2>. HIDE DEF l
  <2>2. 0 \in P
    OBVIOUS
  <2>3. ASSUME NEW k \in 1..l, k - 1 \in P PROVE k \in P
    <3>1. F[k] = Join(q, k, F[k - 1]) /\ q[k] \in Seq(S)
      BY <1>0, <2>1, <2>3 DEF Joins, l
    <3>2. c[k - 1] \in Nat /\ c[k] = c[k - 1] + Occurs(q[k], x) /\ Occurs(q[k], x) \in Nat
      <4>1. Len(q[k]) \in Nat
        BY <3>1
      <4>2. Occurs(q[k], x) \in Nat
        BY <4>1, CountFacts DEF Occurs
      <4>. QED  BY <4>2 DEF l
    <3>3. CASE k = 1
      <4>1. F[k] = q[k]
        BY <3>1, <3>3 DEF Join
      <4>2. c[k] = Occurs(q[k], x)
        BY <3>2, <3>3
      <4>. QED  BY <3>1, <4>1, <4>2
    <3>4. CASE k # 1
      <4>0. k - 1 # 0
        BY <1>0, <3>4
      <4>1. Good(k - 1)
        <5>. HIDE DEF Good
        <5>. QED  BY <2>3, <4>0
      <4>2. F[k] = F[k - 1] \o q[k]
        BY <3>1, <3>4 DEF Join
      <4>3. F[k] \in Seq(S) /\ Occurs(F[k], x) = Occurs(F[k - 1], x) + Occurs(q[k], x)
        BY <3>1, <4>1, <4>2, OccursConcat, ConcatProperties
      <4>4. Good(k)
        BY <3>2, <4>1, <4>3
      <4>. QED  BY <4>4
    <3>. QED  BY <3>3, <3>4
  <2>4. Good(l)
    <3>1. l \in P
      <4>. HIDE DEF P
      <4>1. l \in 0..l
        BY <1>0
      <4>. QED  BY <1>0, <2>2, <2>3, <4>1, InductionTo
    <3>. HIDE DEF Good
    <3>. QED  BY <1>2, <3>1
  <2>. QED  BY <2>1, <2>4 DEF l
<1>. QED  BY <1>1, <1>2

LEMMA OccursFacts ==
  ASSUME NEW q, IsSequence(q), NEW x
  PROVE  /\ Occurs(q, x) \in Nat /\ (Occurs(q, x) # 0 <=> x \in ToSet(q))
         /\ Occurs(q, x) = Cardinality({k \in DOMAIN q : q[k] = x})
<1>1. Len(q) \in Nat /\ DOMAIN q = 1..Len(q)
  BY SequenceFacts
<1>2. Occurs(q, x) \in Nat /\ (Occurs(q, x) = 0 <=> \A k \in 1..Len(q) : q[k] # x)
  BY <1>1, CountFacts DEF Occurs
<1>. QED  BY <1>1, <1>2 DEF ToSet, Occurs, CountTo

LEMMA OccursSmall ==
  ASSUME NEW x, NEW y
  PROVE  /\ Occurs(<<>>, x) = 0 /\ Occurs(<<y>>, x) = IF x = y THEN 1 ELSE 0
         /\ IsSequence(<<>>) /\ ToSet(<<>>) = {} /\ IsSequence(<<y>>) /\ ToSet(<<y>>) = {y}
<1>1. Len(<<>>) = 0 /\ Len(<<y>>) = 1 /\ <<y>>[1] = y
  OBVIOUS
<1>2. Occurs(<<>>, x) = 0
  BY <1>1, CountFacts DEF Occurs
<1>3. Occurs(<<y>>, x) = IF x = y THEN 1 ELSE 0
  <2>1. CountTo(<<y>>, 1, x) = CountTo(<<y>>, 1 - 1, x) + (IF <<y>>[1] = x THEN 1 ELSE 0)
    BY CountFacts
  <2>2. CountTo(<<y>>, 0, x) = 0
    BY CountFacts
  <2>. QED  BY <1>1, <2>1, <2>2 DEF Occurs
<1>4. <<>> \in Seq({}) /\ <<y>> \in Seq({y}) /\ ToSet(<<>>) = {} /\ ToSet(<<y>>) = {y}
  BY DEF ToSet
<1>5. IsSequence(<<>>) /\ IsSequence(<<y>>)
  BY <1>4, SeqIsSequence
<1>. QED  BY <1>2, <1>3, <1>4, <1>5

(* The elements at different positions differ if none occurs twice.        *)
LEMMA OccursOnce ==
  ASSUME NEW q, IsSequence(q), \A x \in ToSet(q) : Occurs(q, x) <= 1
  PROVE  /\ \A i, k \in DOMAIN q : q[i] = q[k] => i = k
         /\ IsFiniteSet(ToSet(q)) /\ Cardinality(ToSet(q)) = Len(q)
<1>1. Len(q) \in Nat /\ DOMAIN q = 1..Len(q) /\ \A i \in DOMAIN q : q[i] \in ToSet(q)
  BY SequenceFacts
<1>2. ASSUME NEW i \in DOMAIN q, NEW k \in DOMAIN q, q[i] = q[k] PROVE i = k
  <2>. DEFINE A == {m \in DOMAIN q : q[m] = q[i]}
  <2>1. Cardinality(A) <= 1 /\ Cardinality(A) \in Nat
    BY <1>1, OccursFacts
  <2>2. IsFiniteSet(A)
    <3>1. IsFiniteSet(1..Len(q)) /\ A \in SUBSET (1..Len(q))
      BY <1>1, FS_Interval
    <3>. HIDE DEF A
    <3>. QED  BY <3>1, FS_Subset
  <2>3. i \in A /\ k \in A
    BY <1>2
  <2>. HIDE DEF A
  <2>4. Cardinality(A) = 1
    BY <2>1, <2>2, <2>3, FS_EmptySet
  <2>5. \E x : A = {x}
    BY <2>2, <2>4, FS_Singleton
  <2>. QED  BY <2>3, <2>5
<1>. DEFINE f == [i \in 1..Len(q) |-> q[i]]
<1>3. f \in Surjection(1..Len(q), ToSet(q)) /\ f \in Injection(1..Len(q), ToSet(q))
  <2>1. f \in [1..Len(q) -> ToSet(q)] /\ \A x \in ToSet(q) : \E i \in 1..Len(q) : f[i] = x
    BY <1>1 DEF ToSet
  <2>2. \A i, k \in 1..Len(q) : f[i] = f[k] => i = k
    BY <1>1, <1>2
  <2>. HIDE DEF f
  <2>. QED  BY <2>1, <2>2 DEF Surjection, Injection, IsInjective
<1>. HIDE DEF f
<1>4. IsFiniteSet(1..Len(q)) /\ Cardinality(1..Len(q)) = Len(q)
  <2>1. Len(q) \in Nat /\ IF 1 > Len(q) THEN Len(q) = 0 ELSE Len(q) - 1 + 1 = Len(q)
    BY <1>1
  <2>. QED  BY <2>1, FS_Interval, SMTT(30)
<1>5. IsFiniteSet(ToSet(q)) /\ Cardinality(ToSet(q)) = Len(q)
  BY <1>3, <1>4, FS_Surjection
<1>. QED  BY <1>2, <1>5

LEMMA DistinctOnce ==
  ASSUME NEW q, IsSequence(q), \A i, k \in DOMAIN q : q[i] = q[k] => i = k, NEW x
  PROVE  Occurs(q, x) = IF x \in ToSet(q) THEN 1 ELSE 0
<1>1. CASE x \notin ToSet(q)
  BY <1>1, OccursFacts
<1>2. CASE x \in ToSet(q)
  <2>1. PICK i \in DOMAIN q : q[i] = x
    BY <1>2 DEF ToSet
  <2>2. {k \in DOMAIN q : q[k] = x} = {i}
    BY <2>1
  <2>3. Cardinality({i}) = 1
    BY FS_Singleton
  <2>. QED  BY <1>2, <2>2, <2>3, OccursFacts
<1>. QED  BY <1>1, <1>2

(* Those of a list that are in S.                                          *)
LEMMA ThoseFacts ==
  ASSUME NEW list, IsSequence(list), NEW S
  PROVE  /\ IsSequence(Those(list, S)) /\ ToSet(Those(list, S)) = ToSet(list) \cap S
         /\ \A x : Occurs(Those(list, S), x) = IF x \in S THEN Occurs(list, x) ELSE 0
<1>. DEFINE one(k) == IF list[k] \in S THEN <<list[k]>> ELSE <<>>
            q == [k \in DOMAIN list |-> one(k)]
            n == Len(list)
<1>1. n \in Nat /\ DOMAIN list = 1..n /\ \A k \in 1..n : list[k] \in ToSet(list)
  BY SequenceFacts
<1>. HIDE DEF n
<1>2. Those(list, S) = FlattenSeq(q)
  BY DEF Those
<1>3. IsSequence(q) /\ DOMAIN q = 1..n /\ Len(q) = n
  <2>1. q = [k \in 1..n |-> q[k]]
    BY <1>1
  <2>. HIDE DEF q
  <2>. QED  BY <1>1, <2>1, FunctionIsSequence
<1>4. \A k \in 1..n : q[k] = one(k)
  BY <1>1
<1>5. \A k \in 1..n : /\ IsSequence(q[k]) /\ ToSet(q[k]) = {x \in S : x = list[k]}
                      /\ \A x : Occurs(q[k], x) = IF x \in S /\ list[k] = x THEN 1 ELSE 0
  <2>1. ASSUME NEW k \in 1..n
        PROVE  /\ IsSequence(q[k]) /\ ToSet(q[k]) = {x \in S : x = list[k]}
               /\ \A x : Occurs(q[k], x) = IF x \in S /\ list[k] = x THEN 1 ELSE 0
    <3>1. CASE list[k] \in S
      <4>1. q[k] = <<list[k]>>
        BY <1>4, <3>1
      <4>. QED  BY <3>1, <4>1, OccursSmall
    <3>2. CASE list[k] \notin S
      <4>1. q[k] = <<>>
        BY <1>4, <3>2
      <4>. QED  BY <3>2, <4>1, OccursSmall
    <3>. QED  BY <3>1, <3>2
  <2>. QED  BY <2>1
<1>. HIDE DEF q
<1>6. IsSequence(FlattenSeq(q)) /\ ToSet(FlattenSeq(q)) = UNION {ToSet(q[k]) : k \in DOMAIN q}
  BY <1>3, <1>5, FlattenIsSequence
<1>7. UNION {ToSet(q[k]) : k \in DOMAIN q} = ToSet(list) \cap S
  <2>1. \A k \in DOMAIN q : ToSet(q[k]) = {x \in S : x = list[k]}
    BY <1>3, <1>5
  <2>2. ToSet(list) = {list[k] : k \in 1..n}
    BY <1>1 DEF ToSet
  <2>3. ASSUME NEW x \in ToSet(list) \cap S PROVE x \in UNION {ToSet(q[k]) : k \in DOMAIN q}
    <3>1. PICK k \in 1..n : list[k] = x
      BY <2>2
    <3>2. x \in ToSet(q[k])
      BY <1>3, <2>1, <3>1
    <3>. QED  BY <1>3, <3>2
  <2>4. ASSUME NEW k \in DOMAIN q, NEW x \in ToSet(q[k]) PROVE x \in ToSet(list) \cap S
    BY <1>1, <1>3, <2>1, <2>4
  <2>. QED  BY <2>3, <2>4
<1>8. ASSUME NEW x PROVE Occurs(FlattenSeq(q), x) = IF x \in S THEN Occurs(list, x) ELSE 0
  <2>. DEFINE T == ToSet(list)
              c == [m \in 0..n |-> IF x \in S THEN CountTo(list, m, x) ELSE 0]
  <2>1. q \in Seq(Seq(T))
    <3>1. ASSUME NEW k \in 1..n PROVE q[k] \in Seq(T)
      <4>1. q[k] \in Seq(ToSet(q[k])) /\ ToSet(q[k]) \subseteq T
        BY <1>1, <1>5, <3>1 DEF IsSequence
      <4>. HIDE DEF T
      <4>. QED  BY <4>1
    <3>2. q \in Seq(ToSet(q)) /\ q = [k \in 1..n |-> q[k]]
      BY <1>3 DEF IsSequence
    <3>. HIDE DEF T
    <3>3. q \in [1..n -> Seq(T)]
      BY <3>1, <3>2
    <3>. QED  BY <1>1, <3>3, SameDomainSeq
  <2>2. c[0] = 0
    BY <1>1, CountFacts
  <2>3. \A m \in 1..Len(q) : c[m - 1] \in Nat /\ c[m] = c[m - 1] + Occurs(q[m], x)
    <3>1. ASSUME NEW m \in 1..n PROVE c[m - 1] \in Nat /\ c[m] = c[m - 1] + Occurs(q[m], x)
      <4>1. m \in Nat /\ m # 0 /\ m - 1 \in Nat /\ m \in 0..n /\ m - 1 \in 0..n
        BY <1>1
      <4>2. Occurs(q[m], x) = IF x \in S /\ list[m] = x THEN 1 ELSE 0
        BY <1>5
      <4>3. /\ CountTo(list, m, x) = CountTo(list, m - 1, x) + (IF list[m] = x THEN 1 ELSE 0)
            /\ CountTo(list, m - 1, x) \in Nat
        BY <4>1, CountFacts
      <4>. QED  BY <4>1, <4>2, <4>3
    <3>. HIDE DEF c
    <3>. QED  BY <1>3, <3>1
  <2>4. c[n] = IF x \in S THEN Occurs(list, x) ELSE 0
    BY <1>1 DEF Occurs, n
  <2>. HIDE DEF c, T
  <2>5. Occurs(FlattenSeq(q), x) = c[Len(q)]
    BY <2>1, <2>2, <2>3, OccursFlatten
  <2>. QED  BY <1>3, <2>4, <2>5
<1>. QED  BY <1>2, <1>6, <1>7, <1>8

------------------------------------------------------------------------------
(* Reachability                                                            *)

(* The set grows in rounds: Reached is what the rounds have reached.       *)
Round(next, before) == before \cup UNION {next[id] : id \in before}

Rounds(R, next, start) ==
  R = [k \in 0..Cardinality(DOMAIN next) |-> IF k = 0 THEN start ELSE Round(next, R[k - 1])]

LEMMA ReachableIs ==
  ASSUME NEW next, NEW start
  PROVE  Reachable(next, start) = (CHOOSE R : Rounds(R, next, start))[Cardinality(DOMAIN next)]
BY DEF Reachable, Rounds, Round

(* After as many rounds as there are jobs, whatever there is to reach has  *)
(* been: a round that adds nothing is followed by others that do not.      *)
LEMMA ReachableFacts ==
  ASSUME NEW U, IsFiniteSet(U), NEW next \in [U -> SUBSET U], NEW start \in SUBSET U
  PROVE  /\ start \subseteq Reachable(next, start)
         /\ Reachable(next, start) \subseteq U
         /\ \A id \in Reachable(next, start) : next[id] \subseteq Reachable(next, start)
<1>. DEFINE n == Cardinality(U)
            X == SUBSET U
            g == [p \in (1..n) \X X |-> Round(next, p[2])]
            R == CHOOSE F : Rounds(F, next, start)
<1>0. n \in Nat /\ DOMAIN next = U
  BY FS_CardinalityType
<1>1. \A x \in X : Round(next, x) \in X
  BY DEF Round
<1>. HIDE DEF X, n
<1>2. start \in X
  BY DEF X
<1>3. g \in [(1..n) \X X -> X] /\ \A k \in 1..n, x \in X : g[<<k, x>>] = Round(next, x)
  BY <1>1
<1>. HIDE DEF g
<1>4. PICK F \in [0..n -> X] : Computes(F, n, start, g)
  BY <1>0, <1>2, <1>3, Recursion
<1>5. Rounds(F, next, start)
  <2>1. F = [k \in 0..n |-> IF k = 0 THEN start ELSE Round(next, F[k - 1])]
    <3>1. ASSUME NEW k \in 0..n PROVE F[k] = IF k = 0 THEN start ELSE Round(next, F[k - 1])
      <4>1. CASE k = 0
        BY <1>4, <4>1 DEF Computes
      <4>2. CASE k # 0
        <5>1. k \in 1..n /\ k - 1 \in 0..n
          BY <1>0, <4>2
        <5>2. F[k - 1] \in X
          BY <5>1
        <5>. QED  BY <1>3, <1>4, <4>2, <5>1, <5>2 DEF Computes
      <4>. QED  BY <4>1, <4>2
    <3>. QED  BY <3>1
  <2>. QED  BY <1>0, <2>1 DEF Rounds, n
<1>6. R = [k \in 0..n |-> IF k = 0 THEN start ELSE Round(next, R[k - 1])]
  <2>1. Rounds(R, next, start)
    BY <1>5
  <2>. HIDE DEF R
  <2>. QED  BY <1>0, <2>1 DEF Rounds, n
<1>7. Reachable(next, start) = R[n]
  BY <1>0, ReachableIs DEF n
<1>. HIDE DEF R
<1>8. R[0] = start /\ \A k \in 1..n : R[k] = Round(next, R[k - 1])
  BY <1>0, <1>6
<1>9. \A k \in 0..n : R[k] \in X
  <2>1. \A k \in 1..n : R[k - 1] \in X => R[k] \in X
    BY <1>1, <1>8
  <2>. QED  BY <1>0, <1>2, <1>8, <2>1, RecursionTyped
<1>10. \A k \in 0..n : R[k] \subseteq U /\ IsFiniteSet(R[k]) /\ Cardinality(R[k]) \in Nat
  BY <1>9, FS_Subset, FS_CardinalityType DEF X
<1>11. \A k \in 1..n : R[k - 1] \subseteq R[k]
  BY <1>8 DEF Round
<1>12. \A k \in 0..n : start \subseteq R[k]
  <2>. DEFINE Y == {x \in SUBSET U : start \subseteq x}
  <2>1. \A k \in 1..n : R[k - 1] \in Y => R[k] \in Y
    <3>1. ASSUME NEW k \in 1..n, R[k - 1] \in Y PROVE R[k] \in Y
      <4>1. k \in 0..n
        OBVIOUS
      <4>. QED  BY <1>10, <1>11, <3>1, <4>1
    <3>. QED  BY <3>1
  <2>2. R[0] \in Y
    BY <1>8
  <2>. HIDE DEF Y
  <2>3. \A k \in 0..n : R[k] \in Y
    BY <1>0, <2>1, <2>2, RecursionTyped
  <2>. QED  BY <2>3 DEF Y
<1>. DEFINE Closed(k) == Round(next, R[k]) = R[k]
<1>13. ASSUME NEW k \in 0..n, Closed(k) PROVE Closed(n)
  <2>. DEFINE P == {m \in Nat : k <= m /\ m <= n /\ R[m] # R[k]}
  <2>1. ASSUME P # {} PROVE FALSE
    <3>0. P \in SUBSET Nat
      OBVIOUS
    <3>1. PICK m \in P : \A y \in P : ~ (y < m)
      <4>. HIDE DEF P
      <4>. QED  BY <2>1, <3>0, LeastOfNat, Zenon
    <3>2. m \in Nat /\ k <= m /\ m <= n /\ R[m] # R[k]
      OBVIOUS
    <3>3. m # k
      BY <3>2
    <3>4. m - 1 \in Nat /\ k <= m - 1 /\ m - 1 <= n /\ m \in 1..n /\ m - 1 < m
      BY <1>0, <3>2, <3>3
    <3>5. m - 1 \notin P
      BY <3>1, <3>4
    <3>6. R[m - 1] = R[k]
      BY <3>4, <3>5
    <3>7. R[m] = R[k]
      BY <1>8, <1>13, <3>4, <3>6
    <3>. QED  BY <3>2, <3>7
  <2>2. n \notin P
    BY <2>1
  <2>3. R[n] = R[k]
    BY <1>0, <2>2
  <2>. QED  BY <1>13, <2>3
<1>14. ASSUME NEW k \in 0..n, \A m \in 0..n : ~ Closed(m) PROVE k <= Cardinality(R[k])
  <2>. DEFINE P == {m \in 0..n : ~ (m <= Cardinality(R[m]))}
  <2>1. ASSUME P # {} PROVE FALSE
    <3>0. P \in SUBSET Nat
      BY <1>0
    <3>1. PICK m \in P : \A y \in P : ~ (y < m)
      <4>. HIDE DEF P
      <4>. QED  BY <2>1, <3>0, LeastOfNat, Zenon
    <3>2. m \in 0..n /\ ~ (m <= Cardinality(R[m]))
      OBVIOUS
    <3>3. m # 0
      BY <1>10, <3>2
    <3>4. m \in 1..n /\ m - 1 \in 0..n /\ m - 1 < m
      BY <1>0, <3>2, <3>3
    <3>5. m - 1 <= Cardinality(R[m - 1])
      <4>1. m - 1 \notin P
        BY <3>1, <3>4
      <4>. QED  BY <3>4, <4>1
    <3>6. R[m - 1] \subseteq R[m] /\ R[m - 1] # R[m]
      <4>1. R[m] = Round(next, R[m - 1])
        BY <1>8, <3>4
      <4>. QED  BY <1>11, <1>14, <3>4, <4>1
    <3>7. Cardinality(R[m - 1]) < Cardinality(R[m])
      <4>1. Cardinality(R[m - 1]) <= Cardinality(R[m]) /\ Cardinality(R[m - 1]) # Cardinality(R[m])
        BY <1>10, <3>2, <3>4, <3>6, FS_Subset
      <4>. QED  BY <1>10, <3>2, <3>4, <4>1
    <3>. QED  BY <1>10, <3>2, <3>4, <3>5, <3>7
  <2>. HIDE DEF Closed
  <2>. QED  BY <2>1
<1>15. Closed(n)
  <2>. SUFFICES ASSUME ~ Closed(n) PROVE FALSE
    OBVIOUS
  <2>1. \A m \in 0..n : ~ Closed(m)
    BY <1>13
  <2>2. n \in 0..n
    BY <1>0
  <2>3. n <= Cardinality(R[n])
    <3>. HIDE DEF Closed
    <3>. QED  BY <1>14, <2>1, <2>2
  <2>4. R[n] = U
    <3>1. R[n] \subseteq U /\ Cardinality(R[n]) <= n /\ Cardinality(R[n]) \in Nat
      BY <1>10, <2>2, FS_Subset DEF n
    <3>2. Cardinality(R[n]) = n
      BY <1>0, <2>3, <3>1
    <3>. QED  BY <3>1, <3>2, FS_Subset DEF n
  <2>. QED  BY <2>4 DEF Round
<1>16. n \in 0..n
  BY <1>0
<1>17. \A id \in R[n] : next[id] \subseteq R[n]
  BY <1>15 DEF Round
<1>. QED  BY <1>7, <1>10, <1>12, <1>16, <1>17

------------------------------------------------------------------------------
(* What the validator checks of ids and needs                              *)

Checked(jobs) ==
  /\ PlanTyped(jobs)
  /\ \A i, k \in DOMAIN jobs : jobs[i].id = jobs[k].id => i = k
  /\ \A j \in ToSet(jobs) : ToSet(j.needs) \subseteq Ids(jobs)

LEMMA ValidChecked ==
  ASSUME NEW jobs, PlanTyped(jobs), Validate(jobs) = {}
  PROVE  Checked(jobs)
<1>1. Len(jobs) \in Nat /\ DOMAIN jobs = 1..Len(jobs)
  BY SequenceFacts DEF PlanTyped
<1>2. jobs # <<>>
  BY DEF Validate
<1>3. /\ {<<"duplicate job id", jobs[i].id>> : i \in {k \in DOMAIN jobs : \E m \in 1..k - 1 : jobs[m].id = jobs[k].id}} = {}
      /\ UNION {ValidateJob(jobs, jobs[i]) : i \in DOMAIN jobs} = {}
  BY <1>2, Zenon DEF Validate
<1>4. \A i \in DOMAIN jobs : {<<"unknown job", n>> : n \in ToSet(jobs[i].needs) \ (Ids(jobs) \cup {jobs[i].id})} = {}
  <2>1. \A i \in DOMAIN jobs : ValidateJob(jobs, jobs[i]) = {}
    BY <1>3
  <2>. QED  BY <2>1 DEF ValidateJob
<1>5. \A i \in DOMAIN jobs : ToSet(jobs[i].needs) \subseteq Ids(jobs)
  BY <1>4 DEF Ids
<1>6. \A i, k \in DOMAIN jobs : i < k => jobs[i].id # jobs[k].id
  <2>1. ASSUME NEW i \in DOMAIN jobs, NEW k \in DOMAIN jobs, i < k, jobs[i].id = jobs[k].id PROVE FALSE
    <3>1. i \in 1..k - 1
      BY <1>1, <2>1
    <3>2. k \in {x \in DOMAIN jobs : \E m \in 1..x - 1 : jobs[m].id = jobs[x].id}
      BY <2>1, <3>1
    <3>3. <<"duplicate job id", jobs[k].id>>
            \in {<<"duplicate job id", jobs[i_].id>> :
                   i_ \in {x \in DOMAIN jobs : \E m \in 1..x - 1 : jobs[m].id = jobs[x].id}}
      BY <3>2
    <3>. QED  BY <1>3, <3>3
  <2>. QED  BY <2>1
<1>7. \A i, k \in DOMAIN jobs : jobs[i].id = jobs[k].id => i = k
  BY <1>1, <1>6
<1>. QED  BY <1>5, <1>7 DEF Checked, ToSet

LEMMA IdsFinite ==
  ASSUME NEW jobs, PlanTyped(jobs)
  PROVE  IsFiniteSet(Ids(jobs))
<1>1. Len(jobs) \in Nat /\ DOMAIN jobs = 1..Len(jobs)
  BY SequenceFacts DEF PlanTyped
<1>2. IsFiniteSet(1..Len(jobs))
  BY <1>1, FS_Interval
<1>3. IsFiniteSet({jobs[i].id : i \in 1..Len(jobs)})
  <2>. DEFINE f == [i \in 1..Len(jobs) |-> jobs[i].id]
  <2>1. f \in Surjection(1..Len(jobs), {jobs[i].id : i \in 1..Len(jobs)})
    BY DEF Surjection
  <2>. QED  BY <1>2, <2>1, FS_Surjection
<1>. QED  BY <1>1, <1>3 DEF Ids

(* The needs of a job are those that the plan says.                        *)
LEMMA NeedsIs ==
  ASSUME NEW jobs, Checked(jobs), NEW j \in ToSet(jobs)
  PROVE  Needs(jobs, j.id) = j.needs /\ j.id \in Ids(jobs)
<1>1. PICK i \in DOMAIN jobs : jobs[i] = j
  BY DEF ToSet
<1>. DEFINE k == CHOOSE x \in DOMAIN jobs : jobs[x].id = j.id
<1>2. k \in DOMAIN jobs /\ jobs[k].id = j.id
  BY <1>1
<1>. HIDE DEF k
<1>3. k = i
  BY <1>1, <1>2 DEF Checked
<1>. QED  BY <1>1, <1>3 DEF Needs, Ids, k

LEMMA NeedsTyped ==
  ASSUME NEW jobs, Checked(jobs), NEW id \in Ids(jobs)
  PROVE  ToSet(Needs(jobs, id)) \subseteq Ids(jobs)
<1>1. PICK j \in ToSet(jobs) : j.id = id
  BY DEF ToSet, Ids
<1>. QED  BY <1>1, NeedsIs DEF Checked

(* Its dependents are the jobs that need it.                               *)
LEMMA DependentsAre ==
  ASSUME NEW jobs, PlanTyped(jobs), NEW id
  PROVE  /\ IsSequence(Dependents(jobs, id))
         /\ ToSet(Dependents(jobs, id)) = {j.id : j \in {x \in ToSet(jobs) : id \in ToSet(x.needs)}}
<1>. DEFINE one(i, k) == IF jobs[i].needs[k] = id THEN <<jobs[i].id>> ELSE <<>>
            r(i) == [k \in DOMAIN jobs[i].needs |-> one(i, k)]
            q == [i \in DOMAIN jobs |-> FlattenSeq(r(i))]
<1>1. Len(jobs) \in Nat /\ DOMAIN jobs = 1..Len(jobs) /\ \A i \in DOMAIN jobs : jobs[i] \in ToSet(jobs)
  BY SequenceFacts DEF PlanTyped
<1>2. \A x : IsSequence(<<x>>) /\ ToSet(<<x>>) = {x}
  <2>1. \A x : <<x>> \in Seq({x}) /\ ToSet(<<x>>) = {x}
    BY DEF ToSet
  <2>. QED  BY <2>1, SeqIsSequence
<1>3. IsSequence(<<>>) /\ ToSet(<<>>) = {}
  <2>1. <<>> \in Seq({})
    OBVIOUS
  <2>2. IsSequence(<<>>)
    BY <2>1, SeqIsSequence
  <2>3. ToSet(<<>>) = {}
    BY DEF ToSet
  <2>. QED  BY <2>2, <2>3
<1>4. ASSUME NEW i \in DOMAIN jobs
      PROVE  /\ IsSequence(FlattenSeq(r(i)))
             /\ ToSet(FlattenSeq(r(i))) = {x \in {jobs[i].id} : id \in ToSet(jobs[i].needs)}
  <2>. DEFINE s == jobs[i].needs
              p == r(i)
  <2>1. Len(s) \in Nat /\ DOMAIN s = 1..Len(s)
    BY <1>1, SequenceFacts DEF PlanTyped
  <2>2. \A k \in DOMAIN s : p[k] = one(i, k)
    OBVIOUS
  <2>3. IsSequence(p) /\ DOMAIN p = DOMAIN s
    <3>1. p = [k \in 1..Len(s) |-> p[k]]
      BY <2>1
    <3>. HIDE DEF p, s
    <3>. QED  BY <2>1, <3>1, FunctionIsSequence
  <2>. HIDE DEF p
  <2>4. \A k \in DOMAIN s : /\ IsSequence(p[k])
                            /\ ToSet(p[k]) = {x \in {jobs[i].id} : s[k] = id}
    <3>1. ASSUME NEW k \in DOMAIN s PROVE IsSequence(p[k]) /\ ToSet(p[k]) = {x \in {jobs[i].id} : s[k] = id}
      <4>1. CASE s[k] = id
        BY <1>2, <2>2, <4>1
      <4>2. CASE s[k] # id
        BY <1>3, <2>2, <4>2
      <4>. QED  BY <4>1, <4>2
    <3>. QED  BY <3>1
  <2>. HIDE DEF s
  <2>5. IsSequence(FlattenSeq(p)) /\ ToSet(FlattenSeq(p)) = UNION {ToSet(p[k]) : k \in DOMAIN p}
    BY <2>3, <2>4, FlattenIsSequence
  <2>6. UNION {ToSet(p[k]) : k \in DOMAIN p} = {x \in {jobs[i].id} : id \in ToSet(s)}
    BY <2>3, <2>4 DEF ToSet
  <2>. QED  BY <2>5, <2>6 DEF p, s
<1>5. Dependents(jobs, id) = FlattenSeq(q)
  BY DEF Dependents
<1>6. \A i \in DOMAIN jobs : q[i] = FlattenSeq(r(i))
  OBVIOUS
<1>7. IsSequence(q) /\ DOMAIN q = DOMAIN jobs
  <2>1. q = [i \in 1..Len(jobs) |-> q[i]]
    BY <1>1
  <2>. HIDE DEF q
  <2>. QED  BY <1>1, <2>1, FunctionIsSequence
<1>. HIDE DEF q, r
<1>8. IsSequence(FlattenSeq(q)) /\ ToSet(FlattenSeq(q)) = UNION {ToSet(q[i]) : i \in DOMAIN jobs}
  BY <1>4, <1>6, <1>7, FlattenIsSequence
<1>9. \A i \in DOMAIN jobs : ToSet(q[i]) = {x \in {jobs[i].id} : id \in ToSet(jobs[i].needs)}
  BY <1>4, <1>6
<1>. DEFINE T == {j.id : j \in {x \in ToSet(jobs) : id \in ToSet(x.needs)}}
<1>10. ASSUME NEW y \in T PROVE y \in UNION {ToSet(q[i]) : i \in DOMAIN jobs}
  <2>1. PICK i \in DOMAIN jobs : y = jobs[i].id /\ id \in ToSet(jobs[i].needs)
    BY DEF ToSet
  <2>2. y \in ToSet(q[i])
    BY <1>9, <2>1
  <2>. QED  BY <2>2
<1>11. ASSUME NEW i \in DOMAIN jobs, NEW y \in ToSet(q[i]) PROVE y \in T
  <2>1. y = jobs[i].id /\ id \in ToSet(jobs[i].needs)
    BY <1>9
  <2>. QED  BY <1>1, <2>1
<1>. HIDE DEF T
<1>12. UNION {ToSet(q[i]) : i \in DOMAIN jobs} = T
  BY <1>10, <1>11
<1>. QED  BY <1>5, <1>8, <1>12 DEF T

(* A sequence of nodes, each with a sequence of needs: jobs, or steps.     *)
NodesTyped(nodes) == IsSequence(nodes) /\ \A i \in DOMAIN nodes : IsSequence(nodes[i].needs)

LEMMA PlanNodes ==
  ASSUME NEW jobs, PlanTyped(jobs)
  PROVE  NodesTyped(jobs) /\ \A j \in ToSet(jobs) : NodesTyped(j.steps)
<1>1. \A i \in DOMAIN jobs : jobs[i] \in ToSet(jobs)
  BY SequenceFacts DEF PlanTyped
<1>2. ASSUME NEW j \in ToSet(jobs) PROVE NodesTyped(j.steps)
  <2>1. IsSequence(j.steps) /\ \A t \in ToSet(j.steps) : IsSequence(t.needs)
    BY DEF PlanTyped
  <2>2. \A i \in DOMAIN j.steps : j.steps[i] \in ToSet(j.steps)
    BY <2>1, SequenceFacts
  <2>. QED  BY <2>1, <2>2 DEF NodesTyped
<1>. QED  BY <1>1, <1>2 DEF PlanTyped, NodesTyped

(* The edges from u: what the nodes with this id need, as far as it is one.*)
LEMMA AdjacencyFacts ==
  ASSUME NEW nodes, NodesTyped(nodes), NEW edges, NEW u \in Ids(nodes)
  PROVE  /\ IsSequence(Adjacency(nodes, edges)[u])
         /\ \A n : n \in ToSet(Adjacency(nodes, edges)[u]) <=>
                     n \in edges[u] /\ \E i \in DOMAIN nodes : nodes[i].id = u /\ n \in ToSet(nodes[i].needs)
<1>. DEFINE one(i) == IF nodes[i].id = u THEN Those(nodes[i].needs, edges[u]) ELSE <<>>
            q == [i \in DOMAIN nodes |-> one(i)]
            l == Len(nodes)
<1>1. l \in Nat /\ DOMAIN nodes = 1..l /\ \A i \in 1..l : IsSequence(nodes[i].needs)
  BY SequenceFacts DEF NodesTyped
<1>. HIDE DEF l
<1>2. Adjacency(nodes, edges)[u] = FlattenSeq(q)
  BY DEF Adjacency
<1>3. IsSequence(q) /\ DOMAIN q = 1..l
  <2>1. q = [i \in 1..l |-> q[i]]
    BY <1>1
  <2>. HIDE DEF q
  <2>. QED  BY <1>1, <2>1, FunctionIsSequence
<1>4. \A i \in 1..l : /\ IsSequence(q[i])
                      /\ \A n : n \in ToSet(q[i]) <=> nodes[i].id = u /\ n \in ToSet(nodes[i].needs) /\ n \in edges[u]
  <2>1. ASSUME NEW i \in 1..l
        PROVE  /\ IsSequence(q[i])
               /\ \A n : n \in ToSet(q[i]) <=> nodes[i].id = u /\ n \in ToSet(nodes[i].needs) /\ n \in edges[u]
    <3>1. CASE nodes[i].id = u
      <4>1. q[i] = Those(nodes[i].needs, edges[u])
        BY <1>1, <3>1
      <4>. HIDE DEF q
      <4>. QED  BY <1>1, <3>1, <4>1, ThoseFacts
    <3>2. CASE nodes[i].id # u
      <4>1. q[i] = <<>>
        BY <1>1, <3>2
      <4>. HIDE DEF q
      <4>. QED  BY <3>2, <4>1, OccursSmall
    <3>. QED  BY <3>1, <3>2
  <2>. QED  BY <2>1
<1>. HIDE DEF q
<1>5. IsSequence(FlattenSeq(q)) /\ ToSet(FlattenSeq(q)) = UNION {ToSet(q[i]) : i \in DOMAIN q}
  BY <1>3, <1>4, FlattenIsSequence
<1>6. ASSUME NEW n
      PROVE  n \in ToSet(FlattenSeq(q)) <=>
               n \in edges[u] /\ \E i \in DOMAIN nodes : nodes[i].id = u /\ n \in ToSet(nodes[i].needs)
  <2>1. n \in ToSet(FlattenSeq(q)) <=> \E i \in 1..l : n \in ToSet(q[i])
    BY <1>3, <1>5
  <2>. QED  BY <1>1, <1>4, <2>1
<1>. QED  BY <1>2, <1>5, <1>6

(* A job is a dependent of another as often as it needs it.                *)
LEMMA DependentsCount ==
  ASSUME NEW jobs, Checked(jobs), NEW id, NEW d \in Ids(jobs)
  PROVE  Occurs(Dependents(jobs, id), d) = Occurs(Needs(jobs, d), id)
<1>. DEFINE one(i, k) == IF jobs[i].needs[k] = id THEN <<jobs[i].id>> ELSE <<>>
            r(i) == [k \in DOMAIN jobs[i].needs |-> one(i, k)]
            q == [i \in DOMAIN jobs |-> FlattenSeq(r(i))]
            l == Len(jobs)
            T == Ids(jobs)
<1>1. l \in Nat /\ DOMAIN jobs = 1..l /\ \A i \in 1..l : IsSequence(jobs[i].needs) /\ jobs[i] \in ToSet(jobs)
  BY SequenceFacts DEF Checked, PlanTyped
<1>2. \A i \in 1..l : jobs[i].id \in T
  BY <1>1 DEF Ids
<1>3. PICK p \in 1..l : jobs[p].id = d
  BY <1>1 DEF Ids
<1>4. \A i \in 1..l : jobs[i].id = d <=> i = p
  BY <1>1, <1>3 DEF Checked
<1>5. Needs(jobs, d) = jobs[p].needs
  BY <1>1, <1>3, NeedsIs
<1>6. Dependents(jobs, id) = FlattenSeq(q)
  BY DEF Dependents
<1>. HIDE DEF T, l
<1>7. ASSUME NEW i \in 1..l
      PROVE  /\ FlattenSeq(r(i)) \in Seq(T)
             /\ Occurs(FlattenSeq(r(i)), d) = IF i = p THEN Occurs(jobs[i].needs, id) ELSE 0
  <2>. DEFINE s == jobs[i].needs
              n == Len(s)
              f == r(i)
              c == [m \in 0..n |-> IF i = p THEN CountTo(s, m, id) ELSE 0]
  <2>1. n \in Nat /\ DOMAIN s = 1..n
    BY <1>1, SequenceFacts
  <2>2. \A k \in 1..n : f[k] = one(i, k)
    BY <2>1
  <2>3. f = [k \in 1..n |-> f[k]]
    BY <2>1
  <2>. HIDE DEF f, n
  <2>4. \A k \in 1..n : f[k] \in Seq(T) /\ Occurs(f[k], d) = IF i = p /\ s[k] = id THEN 1 ELSE 0
    <3>1. ASSUME NEW k \in 1..n
          PROVE  f[k] \in Seq(T) /\ Occurs(f[k], d) = IF i = p /\ s[k] = id THEN 1 ELSE 0
      <4>1. CASE s[k] = id
        <5>1. f[k] = <<jobs[i].id>>
          BY <2>2, <4>1
        <5>2. f[k] \in Seq(T)
          BY <1>2, <5>1
        <5>. QED  BY <1>4, <4>1, <5>1, <5>2, OccursSmall
      <4>2. CASE s[k] # id
        <5>1. f[k] = <<>>
          BY <2>2, <4>2
        <5>2. f[k] \in Seq(T)
          BY <5>1
        <5>. QED  BY <4>2, <5>1, <5>2, OccursSmall
      <4>. QED  BY <4>1, <4>2
    <3>. QED  BY <3>1
  <2>5. f \in Seq(Seq(T)) /\ Len(f) = n
    <3>1. f \in [1..n -> Seq(T)]
      BY <2>3, <2>4
    <3>. QED  BY <2>1, <3>1, SameDomainSeq
  <2>6. FlattenSeq(f) \in Seq(T)
    BY <2>5, FlattenTyped
  <2>7. c[0] = 0
    BY <2>1, CountFacts
  <2>8. \A m \in 1..Len(f) : c[m - 1] \in Nat /\ c[m] = c[m - 1] + Occurs(f[m], d)
    <3>1. ASSUME NEW m \in 1..n PROVE c[m - 1] \in Nat /\ c[m] = c[m - 1] + Occurs(f[m], d)
      <4>1. m \in Nat /\ m # 0 /\ m - 1 \in Nat /\ m \in 0..n /\ m - 1 \in 0..n
        BY <2>1
      <4>2. Occurs(f[m], d) = IF i = p /\ s[m] = id THEN 1 ELSE 0
        BY <2>4
      <4>. HIDE DEF s
      <4>3. /\ CountTo(s, m, id) = CountTo(s, m - 1, id) + (IF s[m] = id THEN 1 ELSE 0)
            /\ CountTo(s, m - 1, id) \in Nat
        BY <4>1, CountFacts
      <4>. QED  BY <4>1, <4>2, <4>3
    <3>. HIDE DEF c
    <3>. QED  BY <2>5, <3>1
  <2>9. c[n] = IF i = p THEN Occurs(s, id) ELSE 0
    BY <2>1 DEF Occurs, n
  <2>. HIDE DEF c
  <2>10. Occurs(FlattenSeq(f), d) = c[Len(f)]
    BY <2>5, <2>7, <2>8, OccursFlatten
  <2>. QED  BY <2>5, <2>6, <2>9, <2>10 DEF f
<1>8. \A i \in 1..l : q[i] = FlattenSeq(r(i))
  BY <1>1
<1>9. q = [i \in 1..l |-> q[i]]
  BY <1>1
<1>. HIDE DEF q, r
<1>10. q \in Seq(Seq(T)) /\ Len(q) = l
  <2>1. q \in [1..l -> Seq(T)]
    BY <1>7, <1>8, <1>9
  <2>. QED  BY <1>1, <2>1, SameDomainSeq
<1>. DEFINE N == Occurs(jobs[p].needs, id)
            c == [m \in 0..l |-> IF p <= m THEN N ELSE 0]
<1>11. N \in Nat
  BY <1>1, OccursFacts
<1>. HIDE DEF N
<1>12. c[0] = 0 /\ c[l] = N
  BY <1>1
<1>13. \A m \in 1..Len(q) : c[m - 1] \in Nat /\ c[m] = c[m - 1] + Occurs(q[m], d)
  <2>1. ASSUME NEW m \in 1..l PROVE c[m - 1] \in Nat /\ c[m] = c[m - 1] + Occurs(q[m], d)
    <3>1. m \in 0..l /\ m - 1 \in 0..l
      BY <1>1
    <3>2. Occurs(q[m], d) = IF m = p THEN N ELSE 0
      BY <1>7, <1>8 DEF N
    <3>. QED  BY <1>11, <3>1, <3>2
  <2>. QED  BY <1>10, <2>1
<1>. HIDE DEF c
<1>14. Occurs(FlattenSeq(q), d) = c[Len(q)]
  BY <1>10, <1>12, <1>13, OccursFlatten
<1>. QED  BY <1>5, <1>6, <1>10, <1>12, <1>14 DEF N

------------------------------------------------------------------------------
(* The order of TopoOrder                                                  *)

(* The loop over the dependents of a job: what it does for one of them.    *)
Freed(s, d) == [s EXCEPT !.indeg[d] = @ - 1, !.queue = IF s.indeg[d] = 1 THEN Append(@, d) ELSE @]

Frees(F, s, deps) == F = [i \in 0..Len(deps) |-> IF i = 0 THEN s ELSE Freed(F[i - 1], deps[i])]

LEMMA ReleasedIs ==
  ASSUME NEW s, NEW deps
  PROVE  Released(s, deps) = (CHOOSE F : Frees(F, s, deps))[Len(deps)]
BY DEF Released, Frees, Freed

KahnStates(U) == [queue : Seq(U), order : Seq(U), indeg : [U -> Int]]

LEMMA FreedFacts ==
  ASSUME NEW U, NEW s \in KahnStates(U), NEW d \in U
  PROVE  /\ Freed(s, d) \in KahnStates(U)
         /\ Freed(s, d).order = s.order
         /\ \A x \in U : /\ Freed(s, d).indeg[x] = s.indeg[x] - (IF d = x THEN 1 ELSE 0)
                         /\ Occurs(Freed(s, d).queue, x)
                              = Occurs(s.queue, x) + (IF d = x /\ s.indeg[x] = 1 THEN 1 ELSE 0)
<1>1. s.queue \in Seq(U) /\ s.order \in Seq(U) /\ s.indeg \in [U -> Int]
  BY DEF KahnStates
<1>. DEFINE queue == IF s.indeg[d] = 1 THEN Append(s.queue, d) ELSE s.queue
            indeg == [s.indeg EXCEPT ![d] = @ - 1]
<1>2. Freed(s, d) = [queue |-> queue, order |-> s.order, indeg |-> indeg]
  <2>1. s = [queue |-> s.queue, order |-> s.order, indeg |-> s.indeg]
    BY DEF KahnStates
  <2>. DEFINE a == s.queue
              o == s.order
              f == s.indeg
  <2>. HIDE DEF a, o, f
  <2>2. \A y, z : [[s EXCEPT !.indeg = z] EXCEPT !.queue = y] = [queue |-> y, order |-> o, indeg |-> z]
    <3>. SUFFICES ASSUME NEW y, NEW z
                  PROVE  [[s EXCEPT !.indeg = z] EXCEPT !.queue = y] = [queue |-> y, order |-> o, indeg |-> z]
      OBVIOUS
    <3>1. [s EXCEPT !.indeg = z] = [queue |-> a, order |-> o, indeg |-> z]
      BY <2>1 DEF a, o, f
    <3>2. [[queue |-> a, order |-> o, indeg |-> z] EXCEPT !.queue = y] = [queue |-> y, order |-> o, indeg |-> z]
      OBVIOUS
    <3>. QED  BY <3>1, <3>2
  <2>3. Freed(s, d) = [[s EXCEPT !.indeg = indeg] EXCEPT !.queue = queue]
    BY DEF Freed
  <2>. HIDE DEF queue, indeg
  <2>. QED  BY <2>2, <2>3 DEF o
<1>3. queue \in Seq(U) /\ indeg \in [U -> Int]
  BY <1>1
<1>4. Freed(s, d) \in KahnStates(U)
  <2>. HIDE DEF queue, indeg
  <2>. QED  BY <1>1, <1>2, <1>3 DEF KahnStates
<1>5. ASSUME NEW x \in U PROVE Occurs(queue, x) = Occurs(s.queue, x) + (IF d = x /\ s.indeg[x] = 1 THEN 1 ELSE 0)
  <2>0. Occurs(s.queue, x) \in Nat
    BY <1>1, SeqIsSequence, OccursFacts
  <2>1. CASE s.indeg[d] = 1
    <3>1. queue = s.queue \o <<d>> /\ <<d>> \in Seq(U)
      BY <1>1, <2>1
    <3>. HIDE DEF queue
    <3>2. Occurs(queue, x) = Occurs(s.queue, x) + Occurs(<<d>>, x)
      BY <1>1, <3>1, OccursConcat
    <3>3. Occurs(<<d>>, x) = IF d = x THEN 1 ELSE 0
      BY OccursSmall
    <3>. QED  BY <2>0, <2>1, <3>2, <3>3
  <2>2. CASE s.indeg[d] # 1
    BY <2>0, <2>2
  <2>. QED  BY <2>1, <2>2
<1>6. \A x \in U : indeg[x] = s.indeg[x] - (IF d = x THEN 1 ELSE 0)
  BY <1>1
<1>. HIDE DEF queue, indeg
<1>. QED  BY <1>2, <1>4, <1>5, <1>6

(* All of the loop, if no count falls below 0.                             *)
LEMMA ReleasedFacts ==
  ASSUME NEW U, NEW s \in KahnStates(U), NEW deps \in Seq(U),
         \A x \in U : Occurs(deps, x) <= s.indeg[x]
  PROVE  /\ Released(s, deps) \in KahnStates(U)
         /\ Released(s, deps).order = s.order
         /\ \A x \in U : /\ Released(s, deps).indeg[x] = s.indeg[x] - Occurs(deps, x)
                         /\ Occurs(Released(s, deps).queue, x) = Occurs(s.queue, x)
                              + (IF s.indeg[x] # 0 /\ Released(s, deps).indeg[x] = 0 THEN 1 ELSE 0)
<1>. DEFINE n == Len(deps)
            X == KahnStates(U)
            g == [p \in (1..n) \X X |-> Freed(p[2], deps[p[1]])]
            G == CHOOSE F : Frees(F, s, deps)
<1>0. n \in Nat /\ DOMAIN deps = 1..n /\ \A i \in 1..n : deps[i] \in U
  OBVIOUS
<1>1. \A i \in 1..n, b \in X : Freed(b, deps[i]) \in X
  BY <1>0, FreedFacts
<1>. HIDE DEF X, n
<1>2. g \in [(1..n) \X X -> X] /\ \A i \in 1..n, b \in X : g[<<i, b>>] = Freed(b, deps[i])
  BY <1>1
<1>3. s \in X
  BY DEF X
<1>. HIDE DEF g
<1>4. PICK F \in [0..n -> X] : Computes(F, n, s, g)
  BY <1>0, <1>2, <1>3, Recursion
<1>5. Frees(F, s, deps)
  <2>1. F = [i \in 0..n |-> IF i = 0 THEN s ELSE Freed(F[i - 1], deps[i])]
    <3>1. ASSUME NEW i \in 0..n PROVE F[i] = IF i = 0 THEN s ELSE Freed(F[i - 1], deps[i])
      <4>1. CASE i = 0
        BY <1>4, <4>1 DEF Computes
      <4>2. CASE i # 0
        <5>1. i \in 1..n /\ i - 1 \in 0..n
          BY <1>0, <4>2
        <5>2. F[i - 1] \in X
          BY <5>1
        <5>. QED  BY <1>2, <1>4, <4>2, <5>1, <5>2 DEF Computes
      <4>. QED  BY <4>1, <4>2
    <3>. QED  BY <3>1
  <2>. QED  BY <2>1 DEF Frees, n
<1>6. G = [i \in 0..n |-> IF i = 0 THEN s ELSE Freed(G[i - 1], deps[i])]
  <2>1. Frees(G, s, deps)
    BY <1>5
  <2>. HIDE DEF G
  <2>. QED  BY <2>1 DEF Frees, n
<1>7. Released(s, deps) = G[n]
  BY ReleasedIs DEF n
<1>. HIDE DEF G
<1>8. G[0] = s /\ \A i \in 1..n : G[i] = Freed(G[i - 1], deps[i])
  BY <1>0, <1>6
<1>. DEFINE Good(i) ==
              /\ G[i] \in X /\ G[i].order = s.order
              /\ \A x \in U : /\ G[i].indeg[x] = s.indeg[x] - CountTo(deps, i, x)
                              /\ Occurs(G[i].queue, x)
                                   = Occurs(s.queue, x) + (IF s.indeg[x] # 0 /\ G[i].indeg[x] = 0 THEN 1 ELSE 0)
            P == {i \in 0..n : Good(i)}
<1>9. \A x \in U : /\ s.indeg[x] \in Int /\ Occurs(s.queue, x) \in Nat
                   /\ CountTo(deps, n, x) <= s.indeg[x]
                   /\ \A i \in Nat : CountTo(deps, i, x) \in Nat
  <2>1. s.queue \in Seq(U) /\ s.indeg \in [U -> Int]
    BY DEF KahnStates
  <2>2. \A x \in U : Occurs(s.queue, x) \in Nat
    BY <2>1, SeqIsSequence, OccursFacts
  <2>. QED  BY <2>1, <2>2, CountFacts DEF Occurs, n
<1>10. \A x \in U : \A i \in 0..n : CountTo(deps, i, x) <= CountTo(deps, n, x)
  <2>. SUFFICES ASSUME NEW x \in U, NEW i \in 0..n PROVE CountTo(deps, i, x) <= CountTo(deps, n, x)
    OBVIOUS
  <2>. DEFINE A(m) == {k \in 1..m : deps[k] = x}
  <2>1. A(i) \in SUBSET A(n)
    BY <1>0
  <2>2. IsFiniteSet(A(n))
    <3>1. A(n) \in SUBSET (1..n) /\ IsFiniteSet(1..n)
      BY <1>0, FS_Interval
    <3>. HIDE DEF A
    <3>. QED  BY <3>1, FS_Subset
  <2>. HIDE DEF A
  <2>3. Cardinality(A(i)) <= Cardinality(A(n))
    BY <2>1, <2>2, FS_Subset
  <2>. QED  BY <2>3 DEF CountTo, A
<1>11. 0 \in P
  <2>1. \A x \in U : CountTo(deps, 0, x) = 0
    BY CountFacts
  <2>2. Good(0)
    <3>1. \A x \in U : /\ s.indeg[x] = s.indeg[x] - 0
                       /\ Occurs(s.queue, x) = Occurs(s.queue, x) + 0
      BY <1>9, SMTT(30)
    <3>. QED  BY <1>3, <1>8, <2>1, <3>1
  <2>. HIDE DEF Good
  <2>. QED  BY <1>0, <2>2
<1>12. ASSUME NEW i \in 1..n, i - 1 \in P PROVE i \in P
  <2>. DEFINE b == G[i - 1]
              d == deps[i]
  <2>0. i \in Nat /\ i # 0 /\ i - 1 \in Nat /\ i \in 0..n /\ i - 1 \in 0..n /\ d \in U
    BY <1>0
  <2>1. /\ b \in X /\ b.order = s.order
        /\ \A x \in U : /\ b.indeg[x] = s.indeg[x] - CountTo(deps, i - 1, x)
                        /\ Occurs(b.queue, x)
                             = Occurs(s.queue, x) + (IF s.indeg[x] # 0 /\ b.indeg[x] = 0 THEN 1 ELSE 0)
    BY <1>12
  <2>2. G[i] = Freed(b, d)
    BY <1>8
  <2>. HIDE DEF b
  <2>3. /\ G[i] \in X /\ G[i].order = b.order
        /\ \A x \in U : /\ G[i].indeg[x] = b.indeg[x] - (IF d = x THEN 1 ELSE 0)
                        /\ Occurs(G[i].queue, x) = Occurs(b.queue, x) + (IF d = x /\ b.indeg[x] = 1 THEN 1 ELSE 0)
    <3>1. b \in KahnStates(U)
      BY <2>1 DEF X
    <3>. HIDE DEF d
    <3>2. /\ Freed(b, d) \in KahnStates(U)
          /\ Freed(b, d).order = b.order
          /\ \A x \in U : /\ Freed(b, d).indeg[x] = b.indeg[x] - (IF d = x THEN 1 ELSE 0)
                          /\ Occurs(Freed(b, d).queue, x)
                               = Occurs(b.queue, x) + (IF d = x /\ b.indeg[x] = 1 THEN 1 ELSE 0)
      BY <2>0, <3>1, FreedFacts
    <3>. QED  BY <2>2, <3>2 DEF X
  <2>4. ASSUME NEW x \in U
        PROVE  /\ G[i].indeg[x] = s.indeg[x] - CountTo(deps, i, x)
               /\ Occurs(G[i].queue, x)
                    = Occurs(s.queue, x) + (IF s.indeg[x] # 0 /\ G[i].indeg[x] = 0 THEN 1 ELSE 0)
    <3>1. /\ CountTo(deps, i, x) = CountTo(deps, i - 1, x) + (IF d = x THEN 1 ELSE 0)
          /\ CountTo(deps, i - 1, x) \in Nat /\ CountTo(deps, i, x) \in Nat
      <4>1. CountTo(deps, i, x) \in Nat /\ CountTo(deps, i - 1, x) \in Nat
        BY <2>0, CountFacts, Zenon
      <4>2. CountTo(deps, i, x) = CountTo(deps, i - 1, x) + (IF deps[i] = x THEN 1 ELSE 0)
        BY <2>0, CountStep
      <4>. QED  BY <4>1, <4>2 DEF d
    <3>2. CountTo(deps, i, x) <= s.indeg[x]
      <4>1. CountTo(deps, i, x) <= CountTo(deps, n, x) /\ CountTo(deps, n, x) <= s.indeg[x]
        BY <1>9, <1>10, <2>0
      <4>2. CountTo(deps, n, x) \in Nat /\ s.indeg[x] \in Int
        BY <1>0, <1>9
      <4>. QED  BY <3>1, <4>1, <4>2
    <3>3. s.indeg[x] \in Int /\ Occurs(s.queue, x) \in Nat
      BY <1>9
    <3>4. G[i].indeg[x] = s.indeg[x] - CountTo(deps, i, x)
      BY <2>1, <2>3, <3>1, <3>3
    <3>5. CASE d = x
      <4>1. b.indeg[x] = G[i].indeg[x] + 1 /\ G[i].indeg[x] >= 0 /\ s.indeg[x] # 0
        BY <2>1, <3>1, <3>2, <3>3, <3>4, <3>5
      <4>2. Occurs(b.queue, x) = Occurs(s.queue, x)
        <5>1. Occurs(b.queue, x) = Occurs(s.queue, x) + (IF s.indeg[x] # 0 /\ b.indeg[x] = 0 THEN 1 ELSE 0)
          BY <2>1
        <5>2. G[i].indeg[x] \in Int
          BY <3>1, <3>3, <3>4
        <5>3. b.indeg[x] # 0
          <6>. HIDE DEF b
          <6>. QED  BY <4>1, <5>2
        <5>. HIDE DEF b
        <5>. QED  BY <3>3, <5>1, <5>3
      <4>3. Occurs(G[i].queue, x) = Occurs(s.queue, x) + (IF b.indeg[x] = 1 THEN 1 ELSE 0)
        BY <2>3, <3>5, <4>2
      <4>4. b.indeg[x] = 1 <=> G[i].indeg[x] = 0
        BY <3>1, <3>3, <3>4, <4>1
      <4>. QED  BY <3>4, <4>1, <4>3, <4>4
    <3>6. CASE d # x
      <4>1. G[i].indeg[x] = b.indeg[x] /\ b.indeg[x] \in Int
        BY <2>1, <2>3, <3>1, <3>3, <3>6
      <4>2. Occurs(G[i].queue, x) = Occurs(b.queue, x)
        <5>1. Occurs(b.queue, x) \in Nat
          BY <2>1, <3>3
        <5>. QED  BY <2>3, <3>6, <5>1
      <4>. QED  BY <2>1, <3>4, <4>1, <4>2
    <3>. QED  BY <3>5, <3>6
  <2>5. Good(i)
    BY <2>1, <2>3, <2>4
  <2>. HIDE DEF Good
  <2>. QED  BY <2>0, <2>5
<1>13. n \in P
  <2>. HIDE DEF P
  <2>1. n \in 0..n
    BY <1>0
  <2>. QED  BY <1>0, <1>11, <1>12, <2>1, InductionTo
<1>14. Good(n)
  <2>. HIDE DEF Good
  <2>. QED  BY <1>13
<1>. QED  BY <1>7, <1>14 DEF X, Occurs, n

(* One turn of the loop over the queue.                                    *)
Taken(s) == [s EXCEPT !.queue = Tail(@), !.order = Append(@, Head(s.queue))]
Turned(jobs, s) == IF s.queue = <<>> THEN s ELSE Released(Taken(s), Dependents(jobs, Head(s.queue)))

IdList(jobs) == [i \in DOMAIN jobs |-> jobs[i].id]
Begun(jobs, indegrees) ==
  [queue |-> Those(IdList(jobs), {id \in Ids(jobs) : indegrees[id] = 0}), order |-> <<>>, indeg |-> indegrees]

Turns(F, jobs, indegrees) ==
  F = [k \in 0..Len(jobs) |-> IF k = 0 THEN Begun(jobs, indegrees) ELSE Turned(jobs, F[k - 1])]

LEMMA SortedIs ==
  ASSUME NEW jobs, NEW indegrees
  PROVE  Sorted(jobs, indegrees) = (CHOOSE F : Turns(F, jobs, indegrees))[Len(jobs)].order
BY DEF Sorted, Turns, Turned, Taken, Begun, IdList

(* The needs of a job that are not done, by position.                      *)
Missing(jobs, d, done) == {k \in DOMAIN Needs(jobs, d) : Needs(jobs, d)[k] \notin done}

(* Between two turns: a job's count is that of its needs that are not in   *)
(* the order; it is in the order or the queue, once, when there are none;  *)
(* and what is in the order comes after its needs.                         *)
KahnInv(jobs, s) ==
  /\ s \in KahnStates(Ids(jobs))
  /\ \A d \in Ids(jobs) :
       /\ s.indeg[d] = Cardinality(Missing(jobs, d, ToSet(s.order)))
       /\ Occurs(s.order, d) + Occurs(s.queue, d) = IF s.indeg[d] = 0 THEN 1 ELSE 0
  /\ \A k \in DOMAIN s.order : ToSet(Needs(jobs, s.order[k])) \subseteq {s.order[m] : m \in 1..k - 1}

LEMMA NeedsSequence ==
  ASSUME NEW jobs, Checked(jobs), NEW d \in Ids(jobs)
  PROVE  IsSequence(Needs(jobs, d))
<1>1. PICK i \in DOMAIN jobs : jobs[i].id = d
  BY DEF Ids
<1>2. jobs[i] \in ToSet(jobs)
  BY DEF ToSet
<1>. QED  BY <1>1, <1>2, NeedsIs DEF Checked, PlanTyped

LEMMA MissingFacts ==
  ASSUME NEW jobs, Checked(jobs), NEW d \in Ids(jobs), NEW done
  PROVE  /\ IsFiniteSet(Missing(jobs, d, done)) /\ Cardinality(Missing(jobs, d, done)) \in Nat
         /\ Cardinality(Missing(jobs, d, {})) = Len(Needs(jobs, d))
         /\ Cardinality(Missing(jobs, d, done)) = 0 => ToSet(Needs(jobs, d)) \subseteq done
         /\ ToSet(Needs(jobs, d)) \subseteq done => Cardinality(Missing(jobs, d, done)) = 0
         /\ \A h : h \notin done =>
              Cardinality(Missing(jobs, d, done))
                = Cardinality(Missing(jobs, d, done \cup {h})) + Occurs(Needs(jobs, d), h)
<1>. DEFINE q == Needs(jobs, d)
            n == Len(q)
            M(x) == Missing(jobs, d, x)
<1>1. IsSequence(q) /\ n \in Nat /\ DOMAIN q = 1..n
  BY NeedsSequence, SequenceFacts
<1>2. \A x : M(x) = {k \in DOMAIN q : q[k] \notin x}
  BY DEF Missing
<1>3. \A x : IsFiniteSet(M(x)) /\ Cardinality(M(x)) \in Nat
  <2>1. IsFiniteSet(1..n) /\ \A x : M(x) \in SUBSET (1..n)
    BY <1>1, <1>2, FS_Interval
  <2>. HIDE DEF M
  <2>. QED  BY <2>1, FS_Subset, FS_CardinalityType
<1>4. Cardinality(M({})) = n
  <2>1. M({}) = 1..n
    BY <1>1, <1>2
  <2>2. Cardinality(1..n) = n
    <3>. HIDE DEF n
    <3>. QED  BY <1>1, FS_Interval
  <2>. QED  BY <2>1, <2>2
<1>5. Cardinality(M(done)) = 0 <=> ToSet(q) \subseteq done
  <2>1. Cardinality(M(done)) = 0 <=> M(done) = {}
    BY <1>3, FS_EmptySet
  <2>2. M(done) = {} <=> ToSet(q) \subseteq done
    BY <1>2 DEF ToSet
  <2>. QED  BY <2>1, <2>2
<1>6. ASSUME NEW h, h \notin done PROVE Cardinality(M(done)) = Cardinality(M(done \cup {h})) + Occurs(q, h)
  <2>. DEFINE A == M(done \cup {h})
              B == {k \in DOMAIN q : q[k] = h}
  <2>1. M(done) = A \cup B /\ A \cap B = {}
    BY <1>2, <1>6
  <2>2. Occurs(q, h) = Cardinality(B)
    BY <1>1, OccursFacts
  <2>3. IsFiniteSet(A) /\ IsFiniteSet(B) /\ Cardinality(A) \in Nat /\ Cardinality(B) \in Nat
    <3>1. IsFiniteSet(1..n) /\ B \in SUBSET (1..n)
      BY <1>1, FS_Interval
    <3>2. IsFiniteSet(A) /\ Cardinality(A) \in Nat
      BY <1>3
    <3>. HIDE DEF A, B
    <3>. QED  BY <3>1, <3>2, FS_Subset, FS_CardinalityType
  <2>4. Cardinality(A \cup B) = Cardinality(A) + Cardinality(B) - Cardinality(A \cap B)
    <3>. HIDE DEF A, B
    <3>. QED  BY <2>3, FS_Union
  <2>5. Cardinality(A \cap B) = 0
    BY <2>1, FS_EmptySet
  <2>. HIDE DEF A, B, M
  <2>. QED  BY <2>1, <2>2, <2>3, <2>4, <2>5 DEF A
<1>. QED  BY <1>3, <1>4, <1>5, <1>6

LEMMA ToSetAppend ==
  ASSUME NEW S, NEW q \in Seq(S), NEW x \in S
  PROVE  ToSet(Append(q, x)) = ToSet(q) \cup {x}
<1>. DEFINE w == Append(q, x)
            n == Len(q)
<1>1. n \in Nat /\ DOMAIN q = 1..n /\ DOMAIN w = 1..n + 1 /\ w[n + 1] = x /\ \A i \in 1..n : w[i] = q[i]
  OBVIOUS
<1>. HIDE DEF w, n
<1>2. \A i \in 1..n + 1 : i = n + 1 \/ i \in 1..n
  BY <1>1
<1>3. n + 1 \in 1..n + 1 /\ \A i \in 1..n : i \in 1..n + 1
  BY <1>1
<1>4. ToSet(w) = ToSet(q) \cup {x}
  BY <1>1, <1>2, <1>3 DEF ToSet
<1>. QED  BY <1>4 DEF w

LEMMA TurnedFacts ==
  ASSUME NEW jobs, Checked(jobs), NEW s, KahnInv(jobs, s), s.queue # <<>>
  PROVE  KahnInv(jobs, Turned(jobs, s)) /\ Len(Turned(jobs, s).order) = Len(s.order) + 1
<1>. DEFINE U == Ids(jobs)
            h == Head(s.queue)
            t == Tail(s.queue)
            order == Append(s.order, h)
            done == ToSet(s.order)
            b == [queue |-> t, order |-> order, indeg |-> s.indeg]
            deps == Dependents(jobs, h)
            r == Released(b, deps)
<1>1. s.queue \in Seq(U) /\ s.order \in Seq(U) /\ s.indeg \in [U -> Int]
  BY DEF KahnInv, KahnStates
<1>. HIDE DEF U
<1>2. h \in U /\ t \in Seq(U) /\ s.queue = <<h>> \o t /\ <<h>> \in Seq(U)
  BY <1>1
<1>3. Taken(s) = b
  <2>1. s = [queue |-> s.queue, order |-> s.order, indeg |-> s.indeg]
    BY DEF KahnInv, KahnStates
  <2>. DEFINE a == s.queue
              o == s.order
              f == s.indeg
  <2>. HIDE DEF a, o, f
  <2>2. \A y, z : [[s EXCEPT !.queue = y] EXCEPT !.order = z] = [queue |-> y, order |-> z, indeg |-> f]
    <3>. SUFFICES ASSUME NEW y, NEW z
                  PROVE  [[s EXCEPT !.queue = y] EXCEPT !.order = z] = [queue |-> y, order |-> z, indeg |-> f]
      OBVIOUS
    <3>1. [s EXCEPT !.queue = y] = [queue |-> y, order |-> o, indeg |-> f]
      BY <2>1 DEF a, o, f
    <3>2. [[queue |-> y, order |-> o, indeg |-> f] EXCEPT !.order = z] = [queue |-> y, order |-> z, indeg |-> f]
      OBVIOUS
    <3>. QED  BY <3>1, <3>2
  <2>3. Taken(s) = [[s EXCEPT !.queue = t] EXCEPT !.order = order]
    BY DEF Taken
  <2>. HIDE DEF t, order
  <2>. QED  BY <2>2, <2>3 DEF f
<1>4. Turned(jobs, s) = r
  BY <1>3 DEF Turned
<1>. HIDE DEF t, h
<1>5. order \in Seq(U) /\ Len(order) = Len(s.order) + 1 /\ order = s.order \o <<h>>
  <2>1. \A o \in Seq(U) : /\ Append(o, h) \in Seq(U) /\ Len(Append(o, h)) = Len(o) + 1
                         /\ Append(o, h) = o \o <<h>>
    BY <1>2
  <2>. QED  BY <1>1, <2>1
<1>6. \A x : /\ Occurs(s.queue, x) = Occurs(<<h>>, x) + Occurs(t, x)
             /\ Occurs(order, x) = Occurs(s.order, x) + Occurs(<<h>>, x)
  <2>1. \A x : Occurs(<<h>> \o t, x) = Occurs(<<h>>, x) + Occurs(t, x)
    BY <1>2, OccursConcat
  <2>2. \A x : Occurs(s.order \o <<h>>, x) = Occurs(s.order, x) + Occurs(<<h>>, x)
    BY <1>1, <1>2, OccursConcat
  <2>. HIDE DEF order
  <2>. QED  BY <1>2, <1>5, <2>1, <2>2
<1>7. \A x : Occurs(<<h>>, x) = IF x = h THEN 1 ELSE 0
  BY OccursSmall
<1>8. \A x : Occurs(s.order, x) \in Nat /\ Occurs(s.queue, x) \in Nat /\ Occurs(t, x) \in Nat
  BY <1>1, <1>2, SeqIsSequence, OccursFacts
<1>9. h \notin done /\ s.indeg[h] = 0
  <2>1. Occurs(s.order, h) + Occurs(s.queue, h) = IF s.indeg[h] = 0 THEN 1 ELSE 0
    BY <1>2 DEF KahnInv, U
  <2>2. Occurs(s.queue, h) >= 1
    BY <1>6, <1>7, <1>8
  <2>3. Occurs(s.order, h) = 0 /\ s.indeg[h] = 0
    BY <1>8, <2>1, <2>2
  <2>. QED  BY <1>1, <2>3, SeqIsSequence, OccursFacts
<1>10. ToSet(order) = done \cup {h}
  <2>1. ToSet(Append(s.order, h)) = ToSet(s.order) \cup {h}
    <3>. HIDE DEF h, t
    <3>. QED  BY <1>1, <1>2, ToSetAppend
  <2>. QED  BY <2>1 DEF done, order
<1>11. deps \in Seq(U)
  <2>1. IsSequence(deps) /\ ToSet(deps) = {j.id : j \in {x \in ToSet(jobs) : h \in ToSet(x.needs)}}
    BY DependentsAre DEF Checked
  <2>2. \A j \in ToSet(jobs) : j.id \in U
    BY DEF ToSet, Ids, U
  <2>3. ToSet(deps) \subseteq U
    BY <2>1, <2>2
  <2>. HIDE DEF deps
  <2>4. deps \in Seq(ToSet(deps))
    BY <2>1 DEF IsSequence
  <2>. QED  BY <2>3, <2>4
<1>. DEFINE c(d) == Cardinality(Missing(jobs, d, done \cup {h}))
<1>12. \A d \in U : /\ c(d) \in Nat /\ s.indeg[d] = c(d) + Occurs(deps, d)
                    /\ Occurs(deps, d) \in Nat /\ Occurs(deps, d) <= s.indeg[d]
  <2>1. ASSUME NEW d \in U PROVE c(d) \in Nat /\ s.indeg[d] = c(d) + Occurs(deps, d)
    <3>1. s.indeg[d] = Cardinality(Missing(jobs, d, done))
      BY DEF KahnInv, U
    <3>2. Cardinality(Missing(jobs, d, done)) = c(d) + Occurs(Needs(jobs, d), h)
      BY <1>9, MissingFacts DEF U
    <3>3. Occurs(deps, d) = Occurs(Needs(jobs, d), h)
      BY DependentsCount DEF U
    <3>4. c(d) \in Nat
      BY MissingFacts DEF U
    <3>. QED  BY <3>1, <3>2, <3>3, <3>4
  <2>2. \A d : Occurs(deps, d) \in Nat
    BY <1>11, SeqIsSequence, OccursFacts
  <2>. HIDE DEF c, deps, done
  <2>. QED  BY <2>1, <2>2
<1>13. b \in KahnStates(U)
  <2>. HIDE DEF order
  <2>. QED  BY <1>1, <1>2, <1>5 DEF KahnStates
<1>. HIDE DEF deps, c, done
<1>14. /\ r \in KahnStates(U) /\ r.order = order
       /\ \A x \in U : /\ r.indeg[x] = s.indeg[x] - Occurs(deps, x)
                       /\ Occurs(r.queue, x) = Occurs(t, x) + (IF s.indeg[x] # 0 /\ r.indeg[x] = 0 THEN 1 ELSE 0)
  <2>1. b.queue = t /\ b.order = order /\ b.indeg = s.indeg
    OBVIOUS
  <2>. HIDE DEF b
  <2>2. \A x \in U : Occurs(deps, x) <= b.indeg[x]
    BY <1>12, <2>1
  <2>3. /\ Released(b, deps) \in KahnStates(U)
        /\ Released(b, deps).order = b.order
        /\ \A x \in U : /\ Released(b, deps).indeg[x] = b.indeg[x] - Occurs(deps, x)
                        /\ Occurs(Released(b, deps).queue, x) = Occurs(b.queue, x)
                             + (IF b.indeg[x] # 0 /\ Released(b, deps).indeg[x] = 0 THEN 1 ELSE 0)
    BY <1>11, <1>13, <2>2, ReleasedFacts
  <2>. HIDE DEF order
  <2>. QED  BY <2>1, <2>3
<1>. HIDE DEF r
<1>15. ASSUME NEW d \in U
       PROVE  /\ r.indeg[d] = Cardinality(Missing(jobs, d, ToSet(r.order)))
              /\ Occurs(r.order, d) + Occurs(r.queue, d) = IF r.indeg[d] = 0 THEN 1 ELSE 0
  <2>1. r.indeg[d] = c(d) /\ c(d) \in Nat /\ s.indeg[d] \in Nat /\ c(d) <= s.indeg[d]
    BY <1>12, <1>14
  <2>2. r.indeg[d] = Cardinality(Missing(jobs, d, ToSet(r.order)))
    BY <1>10, <1>14, <2>1 DEF c
  <2>3. Occurs(s.order, d) + Occurs(s.queue, d) = IF s.indeg[d] = 0 THEN 1 ELSE 0
    BY DEF KahnInv, U
  <2>4. Occurs(r.queue, d) = Occurs(t, d) + (IF s.indeg[d] # 0 /\ r.indeg[d] = 0 THEN 1 ELSE 0)
    BY <1>14
  <2>5. Occurs(r.order, d) = Occurs(s.order, d) + Occurs(<<h>>, d) /\ Occurs(<<h>>, d) \in Nat
    BY <1>6, <1>7, <1>14
  <2>6. Occurs(s.queue, d) = Occurs(<<h>>, d) + Occurs(t, d)
    BY <1>6
  <2>7. Occurs(s.order, d) \in Nat /\ Occurs(t, d) \in Nat
    BY <1>8
  <2>. QED  BY <2>1, <2>2, <2>3, <2>4, <2>5, <2>6, <2>7
<1>16. ASSUME NEW k \in DOMAIN order
       PROVE  ToSet(Needs(jobs, order[k])) \subseteq {order[m] : m \in 1..k - 1}
  <2>. DEFINE n == Len(s.order)
  <2>1. /\ n \in Nat /\ DOMAIN s.order = 1..n /\ DOMAIN order = 1..n + 1
        /\ \A m \in 1..n : order[m] = s.order[m]
        /\ order[n + 1] = h
    BY <1>1, <1>2
  <2>. HIDE DEF order, n
  <2>2. CASE k = n + 1
    <3>1. ToSet(Needs(jobs, h)) \subseteq done
      <4>1. Cardinality(Missing(jobs, h, done)) = 0
        BY <1>2, <1>9 DEF KahnInv, U, done
      <4>. QED  BY <1>2, <4>1, MissingFacts DEF U
    <3>2. done \subseteq {order[m] : m \in 1..n}
      BY <2>1 DEF done, ToSet
    <3>3. k - 1 = n /\ order[k] = h
      BY <2>1, <2>2
    <3>. QED  BY <3>1, <3>2, <3>3
  <2>3. CASE k # n + 1
    <3>1. k \in 1..n /\ order[k] = s.order[k] /\ \A m \in 1..k - 1 : m \in 1..n /\ order[m] = s.order[m]
      BY <2>1, <2>3
    <3>2. ToSet(Needs(jobs, s.order[k])) \subseteq {s.order[m] : m \in 1..k - 1}
      BY <2>1, <3>1 DEF KahnInv
    <3>. QED  BY <3>1, <3>2
  <2>. QED  BY <2>2, <2>3
<1>17. KahnInv(jobs, r)
  <2>. HIDE DEF order
  <2>. QED  BY <1>14, <1>15, <1>16 DEF KahnInv, U
<1>. QED  BY <1>4, <1>5, <1>14, <1>17

LEMMA SortedFacts ==
  ASSUME NEW jobs, Checked(jobs)
  PROVE  \E s : /\ KahnInv(jobs, s) /\ TopoOrder(jobs) = s.order
                /\ Len(s.order) = Len(jobs) \/ s.queue = <<>>
<1>. DEFINE n == Len(jobs)
            U == Ids(jobs)
            indegrees == [id \in U |-> Len(Needs(jobs, id))]
            s0 == Begun(jobs, indegrees)
            X == {s \in KahnStates(U) : KahnInv(jobs, s)}
            g == [p \in (1..n) \X X |-> Turned(jobs, p[2])]
            G == CHOOSE F : Turns(F, jobs, indegrees)
<1>0. n \in Nat /\ DOMAIN jobs = 1..n
  BY SequenceFacts DEF Checked, PlanTyped
<1>1. TopoOrder(jobs) = G[n].order
  <2>1. TopoOrder(jobs) = Sorted(jobs, indegrees)
    BY DEF TopoOrder
  <2>. HIDE DEF indegrees, U
  <2>. QED  BY <2>1, SortedIs
<1>2. KahnInv(jobs, s0) /\ s0.order = <<>>
  <2>. DEFINE ids == IdList(jobs)
              roots == {id \in U : indegrees[id] = 0}
              queue == Those(ids, roots)
  <2>1. IsSequence(ids) /\ DOMAIN ids = 1..n /\ \A i \in 1..n : ids[i] = jobs[i].id
    <3>1. ids = [i \in 1..n |-> jobs[i].id]
      BY <1>0 DEF IdList
    <3>2. ids = [i \in 1..n |-> ids[i]] /\ \A i \in 1..n : ids[i] = jobs[i].id
      BY <3>1
    <3>. HIDE DEF ids, n
    <3>. QED  BY <1>0, <3>2, FunctionIsSequence
  <2>2. ToSet(ids) = U
    BY <1>0, <2>1 DEF ToSet, Ids
  <2>3. \A i, k \in DOMAIN ids : ids[i] = ids[k] => i = k
    BY <1>0, <2>1 DEF Checked
  <2>4. \A d \in U : Occurs(ids, d) = 1
    <3>. HIDE DEF ids, U
    <3>. QED  BY <2>1, <2>2, <2>3, DistinctOnce
  <2>5. \A id \in U : indegrees[id] \in Nat
    BY NeedsSequence, SequenceFacts
  <2>6. IsSequence(queue) /\ ToSet(queue) \subseteq U /\ \A d \in U : Occurs(queue, d) = IF indegrees[d] = 0 THEN 1 ELSE 0
    <3>1. IsSequence(queue) /\ ToSet(queue) = ToSet(ids) \cap roots
          /\ \A x : Occurs(queue, x) = IF x \in roots THEN Occurs(ids, x) ELSE 0
      <4>. HIDE DEF ids, roots
      <4>. QED  BY <2>1, ThoseFacts
    <3>2. \A d \in U : d \in roots <=> indegrees[d] = 0
      OBVIOUS
    <3>. HIDE DEF ids, roots, queue, indegrees
    <3>. QED  BY <2>2, <2>4, <3>1, <3>2
  <2>7. s0 = [queue |-> queue, order |-> <<>>, indeg |-> indegrees]
    BY DEF Begun
  <2>8. queue \in Seq(U)
    <3>. HIDE DEF queue, U
    <3>1. queue \in Seq(ToSet(queue))
      BY <2>6 DEF IsSequence
    <3>. QED  BY <2>6, <3>1
  <2>9. indegrees \in [U -> Int]
    <3>1. \A id \in U : indegrees[id] \in Int
      BY <2>5
    <3>2. indegrees = [id \in U |-> indegrees[id]]
      OBVIOUS
    <3>. HIDE DEF indegrees
    <3>. QED  BY <3>1, <3>2
  <2>10. s0 \in KahnStates(U)
    <3>. HIDE DEF queue, indegrees, s0, U
    <3>1. <<>> \in Seq(U)
      OBVIOUS
    <3>. QED  BY <2>7, <2>8, <2>9, <3>1 DEF KahnStates
  <2>11. s0.queue = queue /\ s0.order = <<>> /\ s0.indeg = indegrees
    <3>. HIDE DEF queue, indegrees, s0
    <3>. QED  BY <2>7
  <2>12. ASSUME NEW d \in U
         PROVE  /\ s0.indeg[d] = Cardinality(Missing(jobs, d, ToSet(s0.order)))
                /\ Occurs(s0.order, d) + Occurs(s0.queue, d) = IF s0.indeg[d] = 0 THEN 1 ELSE 0
    <3>1. indegrees[d] = Len(Needs(jobs, d))
      OBVIOUS
    <3>2. Cardinality(Missing(jobs, d, {})) = Len(Needs(jobs, d))
      BY MissingFacts
    <3>3. ToSet(<<>>) = {} /\ Occurs(<<>>, d) = 0
      BY OccursSmall
    <3>4. Occurs(queue, d) = IF indegrees[d] = 0 THEN 1 ELSE 0
      BY <2>6
    <3>. HIDE DEF queue, indegrees, s0
    <3>5. s0.indeg[d] = Cardinality(Missing(jobs, d, ToSet(s0.order)))
      BY <2>11, <3>1, <3>2, <3>3
    <3>6. Occurs(s0.order, d) = 0 /\ Occurs(s0.queue, d) = IF s0.indeg[d] = 0 THEN 1 ELSE 0
      BY <2>11, <3>3, <3>4
    <3>. QED  BY <3>5, <3>6
  <2>13. DOMAIN <<>> = {}
    OBVIOUS
  <2>. HIDE DEF queue, indegrees, s0, roots, ids
  <2>14. \A k \in DOMAIN s0.order : ToSet(Needs(jobs, s0.order[k])) \subseteq {s0.order[m] : m \in 1..k - 1}
    BY <2>11, <2>13
  <2>. QED  BY <2>10, <2>11, <2>12, <2>14 DEF KahnInv
<1>3. \A s : KahnInv(jobs, s) => s \in X
  BY DEF KahnInv
<1>4. \A s \in X : Turned(jobs, s) \in X
  <2>1. ASSUME NEW s \in X PROVE Turned(jobs, s) \in X
    <3>1. KahnInv(jobs, s)
      OBVIOUS
    <3>2. CASE s.queue = <<>>
      BY <3>2 DEF Turned
    <3>3. CASE s.queue # <<>>
      <4>1. KahnInv(jobs, Turned(jobs, s))
        BY <3>1, <3>3, TurnedFacts
      <4>. HIDE DEF X
      <4>. QED  BY <1>3, <4>1
    <3>. QED  BY <3>2, <3>3
  <2>. QED  BY <2>1
<1>5. s0 \in X
  BY <1>2, <1>3
<1>. HIDE DEF X, n, indegrees, s0
<1>6. g \in [(1..n) \X X -> X] /\ \A k \in 1..n, s \in X : g[<<k, s>>] = Turned(jobs, s)
  BY <1>4
<1>. HIDE DEF g
<1>7. PICK F \in [0..n -> X] : Computes(F, n, s0, g)
  BY <1>0, <1>5, <1>6, Recursion
<1>8. Turns(F, jobs, indegrees)
  <2>1. F = [k \in 0..n |-> IF k = 0 THEN s0 ELSE Turned(jobs, F[k - 1])]
    <3>1. ASSUME NEW k \in 0..n PROVE F[k] = IF k = 0 THEN s0 ELSE Turned(jobs, F[k - 1])
      <4>1. CASE k = 0
        BY <1>7, <4>1 DEF Computes
      <4>2. CASE k # 0
        <5>1. k \in 1..n /\ k - 1 \in 0..n
          BY <1>0, <4>2
        <5>2. F[k - 1] \in X
          BY <5>1
        <5>. QED  BY <1>6, <1>7, <4>2, <5>1, <5>2 DEF Computes
      <4>. QED  BY <4>1, <4>2
    <3>. QED  BY <3>1
  <2>. QED  BY <2>1 DEF Turns, n, s0
<1>9. G = [k \in 0..n |-> IF k = 0 THEN s0 ELSE Turned(jobs, G[k - 1])]
  <2>1. Turns(G, jobs, indegrees)
    BY <1>8
  <2>. HIDE DEF G
  <2>. QED  BY <2>1 DEF Turns, n, s0
<1>. HIDE DEF G
<1>10. G[0] = s0 /\ \A k \in 1..n : G[k] = Turned(jobs, G[k - 1])
  BY <1>0, <1>9
<1>. DEFINE Good(k) == KahnInv(jobs, G[k]) /\ (Len(G[k].order) = k \/ G[k].queue = <<>>)
            P == {k \in 0..n : Good(k)}
<1>11. 0 \in P
  <2>1. Len(<<>>) = 0
    OBVIOUS
  <2>. QED  BY <1>0, <1>2, <1>10, <2>1
<1>12. ASSUME NEW k \in 1..n, k - 1 \in P PROVE k \in P
  <2>1. Good(k - 1) /\ G[k] = Turned(jobs, G[k - 1])
    <3>. HIDE DEF Good
    <3>. QED  BY <1>10, <1>12
  <2>2. CASE G[k - 1].queue = <<>>
    <3>1. G[k] = G[k - 1]
      BY <2>1, <2>2 DEF Turned
    <3>. QED  BY <1>0, <2>1, <2>2, <3>1
  <2>3. CASE G[k - 1].queue # <<>>
    <3>1. KahnInv(jobs, G[k]) /\ Len(G[k].order) = Len(G[k - 1].order) + 1
      BY <2>1, <2>3, TurnedFacts
    <3>2. Len(G[k].order) = k
      BY <1>0, <2>1, <2>3, <3>1
    <3>. QED  BY <1>0, <3>1, <3>2
  <2>. QED  BY <2>2, <2>3
<1>13. Good(n)
  <2>1. n \in P
    <3>. HIDE DEF P
    <3>1. n \in 0..n
      BY <1>0
    <3>. QED  BY <1>0, <1>11, <1>12, <3>1, InductionTo
  <2>. HIDE DEF Good
  <2>. QED  BY <2>1
<1>. QED  BY <1>1, <1>13 DEF n

(* Every job comes once, after its needs, if the needs have no cycle: what *)
(* never gets into the order would need itself.                            *)
LEMMA OrderedIfGrounded ==
  ASSUME NEW jobs, Checked(jobs), Grounded(jobs)
  PROVE  Ordered(jobs)
<1>. DEFINE n == Len(jobs)
            U == Ids(jobs)
            order == TopoOrder(jobs)
<1>1. PICK s : KahnInv(jobs, s) /\ order = s.order /\ (Len(s.order) = n \/ s.queue = <<>>)
  BY SortedFacts
<1>. HIDE DEF order
<1>2. IsSequence(order) /\ ToSet(order) \subseteq U /\ IsSequence(s.queue) /\ Len(order) \in Nat /\ DOMAIN order = 1..Len(order)
  <2>1. order \in Seq(U) /\ s.queue \in Seq(U)
    BY <1>1 DEF KahnInv, KahnStates
  <2>. HIDE DEF U
  <2>. QED  BY <2>1, SeqIsSequence, SequenceFacts
<1>3. \A x \in U : Occurs(order, x) \in Nat /\ Occurs(s.queue, x) \in Nat
                   /\ Occurs(order, x) + Occurs(s.queue, x) = IF s.indeg[x] = 0 THEN 1 ELSE 0
  BY <1>1, <1>2, OccursFacts DEF KahnInv
<1>4. IsFiniteSet(ToSet(order)) /\ Cardinality(ToSet(order)) = Len(order)
  <2>1. \A x \in ToSet(order) : Occurs(order, x) <= 1
    BY <1>2, <1>3
  <2>. QED  BY <1>2, <2>1, OccursOnce
<1>5. IsFiniteSet(U) /\ Cardinality(U) = n
  <2>. DEFINE f == [i \in DOMAIN jobs |-> jobs[i].id]
  <2>1. n \in Nat /\ DOMAIN jobs = 1..n
    BY SequenceFacts DEF Checked, PlanTyped
  <2>2. f \in Surjection(1..n, U) /\ f \in Injection(1..n, U)
    <3>1. f \in [1..n -> U] /\ (\A x \in U : \E i \in 1..n : f[i] = x) /\ \A i, k \in 1..n : f[i] = f[k] => i = k
      BY <2>1 DEF Ids, Checked
    <3>. HIDE DEF f, U, n
    <3>. QED  BY <3>1 DEF Surjection, Injection, IsInjective
  <2>3. IsFiniteSet(1..n) /\ Cardinality(1..n) = n
    <3>. HIDE DEF n
    <3>. QED  BY <2>1, FS_Interval
  <2>. HIDE DEF f, U, n
  <2>. QED  BY <2>2, <2>3, FS_Surjection
<1>6. ToSet(order) = U
  <2>1. CASE Len(order) = n
    <3>1. Cardinality(ToSet(order)) = Cardinality(U)
      BY <1>4, <1>5, <2>1
    <3>. HIDE DEF U, n
    <3>. QED  BY <1>2, <1>5, <3>1, FS_Subset
  <2>2. CASE s.queue = <<>>
    <3>. DEFINE S == U \ ToSet(order)
    <3>. SUFFICES ASSUME S # {} PROVE FALSE
      BY <1>2
    <3>1. S \in (SUBSET Ids(jobs)) \ {{}}
      OBVIOUS
    <3>2. PICK id \in S : \A i \in DOMAIN jobs : jobs[i].id = id => ToSet(jobs[i].needs) \cap S = {}
      BY <3>1 DEF Grounded
    <3>3. PICK i \in DOMAIN jobs : jobs[i].id = id
      BY DEF Ids
    <3>4. jobs[i] \in ToSet(jobs) /\ Needs(jobs, id) = jobs[i].needs
      BY <3>3, NeedsIs DEF ToSet
    <3>5. ToSet(Needs(jobs, id)) \subseteq ToSet(order)
      <4>1. ToSet(Needs(jobs, id)) \subseteq U
        BY NeedsTyped
      <4>2. ToSet(Needs(jobs, id)) \cap S = {}
        BY <3>2, <3>3, <3>4
      <4>. QED  BY <4>1, <4>2
    <3>6. s.indeg[id] = 0
      <4>1. Cardinality(Missing(jobs, id, ToSet(order))) = 0
        BY <3>5, MissingFacts
      <4>. QED  BY <1>1, <4>1 DEF KahnInv
    <3>7. Occurs(s.queue, id) = 0
      BY <2>2, OccursSmall
    <3>8. Occurs(order, id) # 0
      BY <1>3, <3>6, <3>7
    <3>. QED  BY <1>2, <3>8, OccursFacts
  <2>. QED  BY <1>1, <2>1, <2>2
<1>7. Len(order) = n
  BY <1>4, <1>5, <1>6
<1>8. \A k \in DOMAIN order : ToSet(Needs(jobs, order[k])) \subseteq {order[m] : m \in 1..k - 1}
  <2>1. \A k \in DOMAIN s.order : ToSet(Needs(jobs, s.order[k])) \subseteq {s.order[m] : m \in 1..k - 1}
    BY <1>1, Zenon DEF KahnInv
  <2>. QED  BY <1>1, <2>1, Zenon
<1>. QED  BY <1>6, <1>7, <1>8 DEF Ordered, order

------------------------------------------------------------------------------
(* The depth-first search for a cycle                                      *)

White(color) == {x \in DOMAIN color : color[x] = "white"}
Gray(color) == {x \in DOMAIN color : color[x] = "gray"}
Black(color) == {x \in DOMAIN color : color[x] = "black"}

Graph(adj) ==
  \A u \in DOMAIN adj : IsSequence(adj[u]) /\ ToSet(adj[u]) \subseteq DOMAIN adj

IsPath(adj, p) ==
  /\ p \in Seq(DOMAIN adj)
  /\ \A i \in 1..Len(p) - 1 : p[i + 1] \in ToSet(adj[p[i]])

IsCycle(adj, c) == IsPath(adj, c) /\ Len(c) > 1 /\ c[1] = c[Len(c)]

GroundedIn(adj, B) ==
  \A S \in (SUBSET B) \ {{}} : \E x \in S : ToSet(adj[x]) \cap S = {}

(* What is black leads to black nodes only, and is in no cycle.            *)
Settled(adj, color) ==
  /\ \A x \in Black(color) : ToSet(adj[x]) \subseteq Black(color)
  /\ GroundedIn(adj, Black(color))

Results(adj) == [cycle : Seq(DOMAIN adj), color : [DOMAIN adj -> {"white", "gray", "black"}]]

(* What is known after some of a search, with S on the stack and no more   *)
(* than W still white.                                                     *)
Outcome(adj, r, W, S) ==
  /\ r \in Results(adj)
  /\ r.cycle # <<>> => IsCycle(adj, r.cycle)
  /\ r.cycle = <<>> => Gray(r.color) = S /\ White(r.color) \subseteq W /\ Settled(adj, r.color)

Callable(adj, u, color, stack) ==
  /\ color \in [DOMAIN adj -> {"white", "gray", "black"}] /\ u \in White(color)
  /\ Gray(color) = ToSet(stack) /\ IsPath(adj, Append(stack, u)) /\ stack \in Seq(DOMAIN adj)
  /\ Settled(adj, color)

(* visit is right if there are no more than d white nodes.                 *)
Visits(visit, adj, d) ==
  \A u, color, stack :
    Callable(adj, u, color, stack) /\ Cardinality(White(color)) <= d =>
      Outcome(adj, visit[u][color][stack], White(color) \ {u}, Gray(color))

First(path, v) == SelectInSeq(path, LAMBDA x : x = v)

(* One edge of a call of dfs.                                              *)
Edge(visit, path, acc, v) ==
  CASE acc.cycle # <<>> \/ acc.color[v] = "black" -> acc
    [] acc.cycle = <<>> /\ acc.color[v] = "white" -> visit[v][acc.color][path]
    [] acc.cycle = <<>> /\ acc.color[v] = "gray" ->
       [acc EXCEPT !.cycle = Append(SubSeq(path, First(path, v), Len(path)), v)]

Entered(color, u) == [cycle |-> <<>>, color |-> [color EXCEPT ![u] = "gray"]]
Left(r, u) == IF r.cycle = <<>> THEN [r EXCEPT !.color[u] = "black"] ELSE r

Looks(F, visit, edges, path, begin) ==
  F = [i \in 0..Len(edges) |-> IF i = 0 THEN begin ELSE Edge(visit, path, F[i - 1], edges[i])]

LEMMA DfsIs ==
  ASSUME NEW visit, NEW adj, NEW u, NEW color, NEW stack
  PROVE  Dfs(visit, adj, u, color, stack)
           = Left((CHOOSE F : Looks(F, visit, adj[u], Append(stack, u), Entered(color, u)))[Len(adj[u])], u)
BY DEF Dfs, Looks, Edge, First, Entered, Left

(* The stack from the node on that the edge leads back to.                 *)
LEMMA FirstIs ==
  ASSUME NEW path, Len(path) \in Nat, NEW v, \E i \in 1..Len(path) : path[i] = v
  PROVE  First(path, v) \in 1..Len(path) /\ path[First(path, v)] = v
<1>. DEFINE I == {i \in 1..Len(path) : path[i] = v}
<1>1. I # {} /\ I \in SUBSET Nat
  OBVIOUS
<1>2. First(path, v) = CHOOSE x \in I : \A y \in I : x <= y
  BY <1>1 DEF First, SelectInSeq, Min
<1>3. \E x \in I : \A y \in I : x <= y
  <2>1. PICK x \in I : \A y \in I : ~ (y < x)
    <3>. HIDE DEF I
    <3>. QED  BY <1>1, LeastOfNat, Zenon
  <2>2. \A y \in I : x <= y
    BY <1>1, <2>1
  <2>. QED  BY <2>2
<1>. DEFINE s == CHOOSE x \in I : \A y \in I : x <= y
<1>4. s \in I
  <2>. HIDE DEF I
  <2>. QED  BY <1>3
<1>. HIDE DEF s
<1>5. s \in 1..Len(path) /\ path[s] = v
  BY <1>4
<1>. QED  BY <1>2, <1>5 DEF s

LEMMA BackEdge ==
  ASSUME NEW adj, NEW path, IsPath(adj, path), path # <<>>, NEW v \in ToSet(adj[path[Len(path)]]), v \in DOMAIN adj,
         NEW s \in 1..Len(path), path[s] = v
  PROVE  IsCycle(adj, Append(SubSeq(path, s, Len(path)), v))
<1>. DEFINE U == DOMAIN adj
            n == Len(path)
            b == SubSeq(path, s, n)
            c == Append(b, v)
            l == n - s + 1
<1>1. path \in Seq(U) /\ n \in Nat /\ s \in 1..n /\ l \in Nat /\ l > 0 /\ v \in U
  BY DEF IsPath
<1>2. b \in Seq(U) /\ Len(b) = l /\ \A i \in 1..l : b[i] = path[s + i - 1]
  <2>. HIDE DEF U
  <2>1. \A i \in s..n : path[i] \in U
    BY <1>1
  <2>. QED  BY <1>1, <2>1
<1>3. \A i \in 1..n - 1 : path[i + 1] \in ToSet(adj[path[i]])
  BY DEF IsPath
<1>. HIDE DEF b, U, l
<1>4. c \in Seq(U) /\ Len(c) = l + 1 /\ c[l + 1] = v /\ \A i \in 1..l : c[i] = path[s + i - 1]
  BY <1>1, <1>2
<1>5. c[1] = v
  <2>1. 1 \in 1..l /\ s + 1 - 1 = s
    BY <1>1
  <2>2. c[1] = path[s + 1 - 1]
    BY <1>4, <2>1
  <2>. QED  BY <1>1, <2>1, <2>2
<1>. HIDE DEF c
<1>6. ASSUME NEW i \in 1..Len(c) - 1 PROVE c[i + 1] \in ToSet(adj[c[i]])
  <2>0. i \in 1..l /\ i \in Nat
    BY <1>1, <1>4
  <2>1. CASE i = l
    <3>1. s + i - 1 = n
      BY <1>1, <2>1 DEF l
    <3>2. c[i] = path[n] /\ c[i + 1] = v
      BY <1>4, <2>0, <2>1, <3>1
    <3>. QED  BY <3>2 DEF n
  <2>2. CASE i # l
    <3>1. i + 1 \in 1..l /\ s + (i + 1) - 1 = (s + i - 1) + 1 /\ s + i - 1 \in 1..n - 1
      BY <1>1, <2>0, <2>2 DEF l
    <3>2. c[i] = path[s + i - 1] /\ c[i + 1] = path[(s + i - 1) + 1]
      BY <1>4, <2>0, <3>1
    <3>. QED  BY <1>3, <3>1, <3>2
  <2>. QED  BY <2>1, <2>2
<1>7. IsPath(adj, c)
  BY <1>4, <1>6 DEF IsPath, U
<1>8. Len(c) > 1 /\ c[1] = c[Len(c)]
  BY <1>1, <1>4, <1>5
<1>. QED  BY <1>7, <1>8 DEF IsCycle, c, b, n

LEMMA ColorFacts ==
  ASSUME NEW U, NEW color \in [U -> {"white", "gray", "black"}]
  PROVE  /\ White(color) \subseteq U /\ Gray(color) \subseteq U
         /\ \A x : x \in Black(color) <=> x \in U /\ x \notin White(color) /\ x \notin Gray(color)
         /\ \A x : x \in White(color) <=> x \in U /\ color[x] = "white"
         /\ \A x : x \in Gray(color) <=> x \in U /\ color[x] = "gray"
         /\ White(color) \cap Gray(color) = {}
BY DEF White, Gray, Black

LEMMA PathExtended ==
  ASSUME NEW adj, NEW path, IsPath(adj, path), path # <<>>,
         NEW v \in ToSet(adj[path[Len(path)]]), v \in DOMAIN adj
  PROVE  IsPath(adj, Append(path, v))
<1>. DEFINE U == DOMAIN adj
            p == Append(path, v)
            n == Len(path)
<1>1. path \in Seq(U) /\ n \in Nat /\ n # 0 /\ v \in U
  BY EmptySeq DEF IsPath
<1>2. \A i \in 1..n - 1 : path[i + 1] \in ToSet(adj[path[i]])
  BY DEF IsPath
<1>. HIDE DEF U
<1>3. p \in Seq(U) /\ Len(p) = n + 1 /\ p[n + 1] = v /\ \A i \in 1..n : p[i] = path[i]
  BY <1>1
<1>. HIDE DEF p
<1>4. ASSUME NEW i \in 1..Len(p) - 1 PROVE p[i + 1] \in ToSet(adj[p[i]])
  <2>1. i \in 1..n
    BY <1>1, <1>3
  <2>2. CASE i = n
    <3>1. p[i] = path[n] /\ p[i + 1] = v
      BY <1>1, <1>3, <2>1, <2>2
    <3>. QED  BY <3>1 DEF n
  <2>3. CASE i # n
    <3>1. i + 1 \in 1..n /\ i \in 1..n - 1
      BY <1>1, <2>1, <2>3
    <3>2. p[i] = path[i] /\ p[i + 1] = path[i + 1]
      BY <1>3, <2>1, <3>1
    <3>. QED  BY <1>2, <3>1, <3>2
  <2>. QED  BY <2>2, <2>3
<1>. QED  BY <1>3, <1>4 DEF IsPath, U, p

LEMMA EdgeFacts ==
  ASSUME NEW adj, Graph(adj), NEW visit, NEW d, Visits(visit, adj, d), d \in Nat,
         NEW path, IsPath(adj, path), path # <<>>,
         NEW W, IsFiniteSet(W), Cardinality(W) <= d,
         NEW acc, Outcome(adj, acc, W, ToSet(path)),
         NEW v \in ToSet(adj[path[Len(path)]])
  PROVE  /\ Outcome(adj, Edge(visit, path, acc, v), W, ToSet(path))
         /\ Edge(visit, path, acc, v).cycle = <<>> =>
              /\ acc.cycle = <<>> /\ v \in Black(Edge(visit, path, acc, v).color)
              /\ Black(acc.color) \subseteq Black(Edge(visit, path, acc, v).color)
<1>. DEFINE U == DOMAIN adj
            C == [U -> {"white", "gray", "black"}]
            r == Edge(visit, path, acc, v)
            S == ToSet(path)
<1>1. path \in Seq(U) /\ Len(path) \in Nat /\ DOMAIN path = 1..Len(path) /\ path[Len(path)] \in U
  BY EmptySeq DEF IsPath
<1>2. v \in U
  BY <1>1 DEF Graph
<1>3. acc \in Results(adj) /\ acc.color \in C /\ acc.color[v] \in {"white", "gray", "black"} /\ acc.cycle \in Seq(U)
  BY <1>2 DEF Outcome, Results
<1>4. CASE acc.cycle # <<>>
  <2>1. r = acc
    BY <1>4 DEF Edge
  <2>. QED  BY <1>4, <2>1
<1>5. CASE acc.cycle = <<>> /\ acc.color[v] = "black"
  <2>1. r = acc
    BY <1>5 DEF Edge
  <2>2. v \in Black(acc.color)
    BY <1>2, <1>3, <1>5 DEF Black
  <2>. QED  BY <1>5, <2>1, <2>2
<1>6. CASE acc.cycle = <<>> /\ acc.color[v] = "white"
  <2>1. r = visit[v][acc.color][path]
    BY <1>6 DEF Edge
  <2>. DEFINE c == acc.color
  <2>2. Gray(c) = S /\ White(c) \subseteq W /\ Settled(adj, c)
    BY <1>6 DEF Outcome
  <2>3. v \in White(c)
    BY <1>2, <1>3, <1>6 DEF White
  <2>. HIDE DEF c, r
  <2>4. IsPath(adj, Append(path, v))
    BY <1>2, PathExtended
  <2>5. Callable(adj, v, c, path)
    BY <1>1, <1>3, <2>2, <2>3, <2>4 DEF Callable, c
  <2>6. Cardinality(White(c)) <= d
    <3>1. IsFiniteSet(White(c)) /\ Cardinality(White(c)) <= Cardinality(W) /\ Cardinality(W) \in Nat
          /\ Cardinality(White(c)) \in Nat
      BY <2>2, FS_Subset, FS_CardinalityType
    <3>. QED  BY <3>1
  <2>7. Outcome(adj, r, White(c) \ {v}, Gray(c))
    BY <2>1, <2>5, <2>6 DEF Visits, c
  <2>8. Outcome(adj, r, W, S)
    BY <2>2, <2>7 DEF Outcome
  <2>9. ASSUME r.cycle = <<>> PROVE v \in Black(r.color) /\ Black(c) \subseteq Black(r.color)
    <3>1. Gray(r.color) = Gray(c) /\ White(r.color) \subseteq White(c) \ {v} /\ r.color \in C
      BY <2>7, <2>9 DEF Outcome, Results
    <3>2. c \in C
      BY <1>3 DEF c
    <3>. HIDE DEF C, U
    <3>. QED  BY <1>2, <2>3, <3>1, <3>2, ColorFacts DEF C
  <2>. QED  BY <1>6, <2>8, <2>9 DEF r, c
<1>7. CASE acc.cycle = <<>> /\ acc.color[v] = "gray"
  <2>. DEFINE s == First(path, v)
              c == Append(SubSeq(path, s, Len(path)), v)
  <2>1. r = [acc EXCEPT !.cycle = c]
    BY <1>7 DEF Edge
  <2>2. v \in S
    <3>1. v \in Gray(acc.color) /\ Gray(acc.color) = S
      BY <1>2, <1>3, <1>7 DEF Gray, Outcome
    <3>. QED  BY <3>1
  <2>3. \E i \in 1..Len(path) : path[i] = v
    BY <1>1, <2>2 DEF ToSet
  <2>4. s \in 1..Len(path) /\ path[s] = v
    BY <1>1, <2>3, FirstIs
  <2>. HIDE DEF s
  <2>5. IsCycle(adj, c)
    BY <1>2, <2>4, BackEdge
  <2>. HIDE DEF c
  <2>6. c # <<>> /\ c \in Seq(U)
    <3>1. c \in Seq(U) /\ Len(c) > 1
      BY <2>5 DEF IsCycle, IsPath
    <3>2. Len(<<>>) = 0
      OBVIOUS
    <3>. QED  BY <3>1, <3>2
  <2>7. r.cycle = c /\ r \in Results(adj)
    <3>. HIDE DEF r
    <3>. QED  BY <1>3, <2>1, <2>6 DEF Results
  <2>. HIDE DEF r
  <2>. QED  BY <2>5, <2>6, <2>7 DEF Outcome, r
<1>. QED  BY <1>3, <1>4, <1>5, <1>6, <1>7

(* The end of a call: u is black, and what is black is settled.            *)
LEMMA LeftFacts ==
  ASSUME NEW adj, NEW u \in DOMAIN adj, NEW stack, stack \in Seq(DOMAIN adj), u \notin ToSet(stack), NEW W,
         NEW r, Outcome(adj, r, W, ToSet(stack) \cup {u}),
         r.cycle = <<>> => ToSet(adj[u]) \subseteq Black(r.color)
  PROVE  Outcome(adj, Left(r, u), W, ToSet(stack))
<1>. DEFINE U == DOMAIN adj
            C == [U -> {"white", "gray", "black"}]
            b == r.color
            a == [b EXCEPT ![u] = "black"]
            z == Left(r, u)
<1>1. CASE r.cycle # <<>>
  <2>1. z = r
    BY <1>1 DEF Left
  <2>. QED  BY <1>1, <2>1 DEF Outcome
<1>2. CASE r.cycle = <<>>
  <2>1. /\ r \in Results(adj) /\ b \in C /\ Gray(b) = ToSet(stack) \cup {u} /\ White(b) \subseteq W
        /\ Settled(adj, b) /\ r.cycle = <<>>
    BY <1>2 DEF Outcome, Results
  <2>2. z = [r EXCEPT !.color[u] = "black"]
    BY <1>2 DEF Left
  <2>3. z \in Results(adj) /\ z.color = a /\ z.cycle = <<>>
    <3>1. z = [r EXCEPT !.color = a]
      BY <2>2
    <3>2. a \in C
      BY <2>1
    <3>. HIDE DEF a, z, C
    <3>. QED  BY <2>1, <3>1, <3>2 DEF Results, C
  <2>4. a \in C /\ \A x \in U : a[x] = IF x = u THEN "black" ELSE b[x]
    BY <2>1
  <2>. HIDE DEF a, b, z
  <2>5. Gray(a) = ToSet(stack) /\ White(a) = White(b)
        /\ Black(a) = Black(b) \cup {u} /\ u \notin Black(b)
    <3>. HIDE DEF U
    <3>. QED  BY <2>1, <2>4, ColorFacts DEF White, Gray, Black
  <2>6. ToSet(adj[u]) \subseteq Black(b)
    BY <1>2 DEF b
  <2>7. (\A x \in Black(b) : ToSet(adj[x]) \subseteq Black(b)) /\ GroundedIn(adj, Black(b))
    BY <2>1 DEF Settled
  <2>8. \A x \in Black(a) : ToSet(adj[x]) \subseteq Black(a)
    BY <2>5, <2>6, <2>7
  <2>9. GroundedIn(adj, Black(a))
    <3>. SUFFICES ASSUME NEW S \in SUBSET Black(a), S # {}
                  PROVE  \E x \in S : ToSet(adj[x]) \cap S = {}
      BY DEF GroundedIn
    <3>. DEFINE T == S \cap Black(b)
    <3>1. CASE T = {}
      <4>1. u \in S
        BY <2>5, <3>1
      <4>2. ToSet(adj[u]) \cap S = {}
        BY <2>6, <3>1
      <4>. QED  BY <4>1, <4>2
    <3>2. CASE T # {}
      <4>1. PICK x \in T : ToSet(adj[x]) \cap T = {}
        BY <2>7, <3>2 DEF GroundedIn
      <4>2. ToSet(adj[x]) \subseteq Black(b)
        BY <2>7
      <4>3. ToSet(adj[x]) \cap S = {}
        BY <4>1, <4>2
      <4>. QED  BY <4>3
    <3>. QED  BY <3>1, <3>2
  <2>10. Settled(adj, a)
    BY <2>8, <2>9 DEF Settled
  <2>. QED  BY <2>1, <2>3, <2>5, <2>10 DEF Outcome, z
<1>. QED  BY <1>1, <1>2

LEMMA EnteredFacts ==
  ASSUME NEW adj, NEW u, NEW color, NEW stack, Callable(adj, u, color, stack)
  PROVE  Outcome(adj, Entered(color, u), White(color) \ {u}, ToSet(Append(stack, u)))
<1>. DEFINE U == DOMAIN adj
            C == [U -> {"white", "gray", "black"}]
            a == [color EXCEPT ![u] = "gray"]
            r == Entered(color, u)
<1>1. color \in C /\ u \in White(color) /\ Gray(color) = ToSet(stack) /\ stack \in Seq(U) /\ Settled(adj, color)
  BY DEF Callable
<1>2. u \in U
  BY <1>1 DEF White
<1>3. a \in C /\ \A x \in U : a[x] = IF x = u THEN "gray" ELSE color[x]
  BY <1>1
<1>. HIDE DEF a
<1>4. r = [cycle |-> <<>>, color |-> a]
  BY DEF Entered, a
<1>5. r \in Results(adj) /\ r.cycle = <<>> /\ r.color = a
  <2>1. <<>> \in Seq(U)
    OBVIOUS
  <2>. HIDE DEF r
  <2>. QED  BY <1>3, <1>4, <2>1 DEF Results
<1>. HIDE DEF r, U
<1>6. Gray(a) = Gray(color) \cup {u} /\ White(a) = White(color) \ {u} /\ Black(a) = Black(color)
  BY <1>1, <1>2, <1>3, ColorFacts DEF White, Gray, Black
<1>7. ToSet(Append(stack, u)) = ToSet(stack) \cup {u}
  BY <1>1, <1>2, ToSetAppend
<1>8. Settled(adj, a)
  BY <1>1, <1>6 DEF Settled
<1>. QED  BY <1>1, <1>5, <1>6, <1>7, <1>8 DEF Outcome, r

LEMMA DfsFacts ==
  ASSUME NEW adj, Graph(adj), IsFiniteSet(DOMAIN adj), NEW visit, NEW d \in Nat, Visits(visit, adj, d),
         NEW u, NEW color, NEW stack, Callable(adj, u, color, stack), Cardinality(White(color)) <= d + 1
  PROVE  Outcome(adj, Dfs(visit, adj, u, color, stack), White(color) \ {u}, Gray(color))
<1>. DEFINE U == DOMAIN adj
            path == Append(stack, u)
            edges == adj[u]
            n == Len(edges)
            W == White(color) \ {u}
            S == ToSet(path)
            begin == Entered(color, u)
            X == {r \in Results(adj) : Outcome(adj, r, W, S)}
            g == [p \in (1..n) \X X |-> Edge(visit, path, p[2], edges[p[1]])]
            G == CHOOSE F : Looks(F, visit, edges, path, begin)
<1>1. /\ color \in [U -> {"white", "gray", "black"}] /\ u \in White(color) /\ u \in U
      /\ Gray(color) = ToSet(stack) /\ IsPath(adj, path) /\ stack \in Seq(U) /\ u \notin ToSet(stack)
  BY ColorFacts DEF Callable
<1>2. /\ n \in Nat /\ DOMAIN edges = 1..n /\ \A i \in 1..n : edges[i] \in ToSet(edges)
      /\ ToSet(edges) \subseteq U
  BY <1>1, SequenceFacts DEF Graph
<1>3. path # <<>> /\ path[Len(path)] = u /\ S = ToSet(stack) \cup {u}
  <2>1. S = ToSet(stack) \cup {u}
    BY <1>1, ToSetAppend
  <2>3. Len(path) = Len(stack) + 1 /\ Len(stack) \in Nat /\ path[Len(stack) + 1] = u /\ Len(<<>>) = 0
    BY <1>1
  <2>4. path # <<>>
    BY <2>3
  <2>. QED  BY <2>1, <2>3, <2>4
<1>4. IsFiniteSet(W) /\ Cardinality(W) <= d
  <2>1. IsFiniteSet(White(color)) /\ Cardinality(White(color)) \in Nat
    BY <1>1, ColorFacts, FS_Subset, FS_CardinalityType
  <2>2. IsFiniteSet(W) /\ Cardinality(W) = Cardinality(White(color)) - 1
    BY <1>1, <2>1, FS_RemoveElement
  <2>. QED  BY <2>1, <2>2
<1>5. begin \in X
  <2>1. Outcome(adj, begin, W, S)
    BY EnteredFacts
  <2>. QED  BY <2>1 DEF Outcome
<1>6. ASSUME NEW i \in 1..n, NEW r \in X
      PROVE  /\ Edge(visit, path, r, edges[i]) \in X
             /\ Edge(visit, path, r, edges[i]).cycle = <<>> =>
                  /\ r.cycle = <<>> /\ edges[i] \in Black(Edge(visit, path, r, edges[i]).color)
                  /\ Black(r.color) \subseteq Black(Edge(visit, path, r, edges[i]).color)
  <2>. DEFINE v == edges[i]
  <2>1. v \in ToSet(adj[path[Len(path)]])
    BY <1>2, <1>3
  <2>2. Outcome(adj, r, W, S)
    OBVIOUS
  <2>. HIDE DEF v, path, W
  <2>3. /\ Outcome(adj, Edge(visit, path, r, v), W, S)
        /\ Edge(visit, path, r, v).cycle = <<>> =>
             /\ r.cycle = <<>> /\ v \in Black(Edge(visit, path, r, v).color)
             /\ Black(r.color) \subseteq Black(Edge(visit, path, r, v).color)
    BY <1>1, <1>3, <1>4, <2>1, <2>2, EdgeFacts
  <2>. QED  BY <2>3 DEF Outcome, v
<1>. HIDE DEF X, n, begin, path, edges, W, S
<1>7. g \in [(1..n) \X X -> X] /\ \A i \in 1..n, r \in X : g[<<i, r>>] = Edge(visit, path, r, edges[i])
  BY <1>6
<1>. HIDE DEF g
<1>8. PICK F \in [0..n -> X] : Computes(F, n, begin, g)
  BY <1>2, <1>5, <1>7, Recursion
<1>9. Looks(F, visit, edges, path, begin)
  <2>1. F = [i \in 0..n |-> IF i = 0 THEN begin ELSE Edge(visit, path, F[i - 1], edges[i])]
    <3>1. ASSUME NEW i \in 0..n PROVE F[i] = IF i = 0 THEN begin ELSE Edge(visit, path, F[i - 1], edges[i])
      <4>1. CASE i = 0
        BY <1>8, <4>1 DEF Computes
      <4>2. CASE i # 0
        <5>1. i \in 1..n /\ i - 1 \in 0..n
          BY <1>2, <4>2
        <5>2. F[i - 1] \in X
          BY <5>1
        <5>. QED  BY <1>7, <1>8, <4>2, <5>1, <5>2 DEF Computes
      <4>. QED  BY <4>1, <4>2
    <3>. QED  BY <3>1
  <2>. QED  BY <2>1 DEF Looks, n
<1>10. Looks(G, visit, edges, path, begin)
  BY <1>9
<1>. HIDE DEF G
<1>11. G[0] = begin /\ \A i \in 1..n : G[i] = Edge(visit, path, G[i - 1], edges[i])
  <2>1. G = [i \in 0..n |-> IF i = 0 THEN begin ELSE Edge(visit, path, G[i - 1], edges[i])]
    BY <1>10 DEF Looks, n
  <2>2. 0 \in 0..n /\ \A i \in 1..n : i \in 0..n /\ i # 0
    BY <1>2
  <2>. QED  BY <2>1, <2>2
<1>12. \A k \in 0..n : G[k] \in X
  <2>1. \A i \in 1..n : G[i - 1] \in X => G[i] \in X
    BY <1>6, <1>11
  <2>. QED  BY <1>2, <1>5, <1>11, <2>1, RecursionTyped
<1>. DEFINE P == {k \in 0..n : G[k].cycle = <<>> => \A i \in 1..k : edges[i] \in Black(G[k].color)}
<1>13. \A k \in 0..n : k \in P
  <2>1. 0 \in P
    BY <1>2
  <2>2. ASSUME NEW k \in 1..n, k - 1 \in P PROVE k \in P
    <3>1. k - 1 \in 0..n /\ k \in 0..n /\ \A i \in 1..k : i = k \/ i \in 1..k - 1
      BY <1>2
    <3>2. G[k - 1] \in X
      BY <1>12, <3>1
    <3>. DEFINE before == G[k - 1]
                after == G[k]
    <3>3. after.cycle = <<>> => /\ before.cycle = <<>> /\ edges[k] \in Black(after.color)
                                /\ Black(before.color) \subseteq Black(after.color)
      BY <1>6, <1>11, <3>2
    <3>4. before.cycle = <<>> => \A i \in 1..k - 1 : edges[i] \in Black(before.color)
      BY <2>2
    <3>5. after.cycle = <<>> => \A i \in 1..k : edges[i] \in Black(after.color)
      <4>. HIDE DEF before, after
      <4>. QED  BY <3>1, <3>3, <3>4
    <3>. QED  BY <3>1, <3>5
  <2>. HIDE DEF P
  <2>. QED  BY <1>2, <2>1, <2>2, InductionTo
<1>. DEFINE end == G[n]
<1>14. Outcome(adj, end, W, ToSet(stack) \cup {u})
  <2>1. end \in X
    BY <1>2, <1>12
  <2>. QED  BY <1>3, <2>1 DEF X
<1>15. end.cycle = <<>> => ToSet(adj[u]) \subseteq Black(end.color)
  <2>1. n \in P
    BY <1>2, <1>13
  <2>2. ToSet(adj[u]) = {edges[i] : i \in 1..n}
    BY <1>2 DEF ToSet, edges
  <2>. QED  BY <2>1, <2>2
<1>. HIDE DEF end
<1>16. Outcome(adj, Left(end, u), W, ToSet(stack))
  BY <1>1, <1>14, <1>15, LeftFacts
<1>17. Dfs(visit, adj, u, color, stack) = Left(end, u)
  BY DfsIs DEF end, G, n, edges, path, begin
<1>. QED  BY <1>1, <1>16, <1>17 DEF W

(* FindCycle: what the calls of a depth do, with those of one less, and    *)
(* what the loop does at a node.                                           *)
Calls(d, visit, adj) ==
  [u \in DOMAIN adj |-> [color \in [DOMAIN adj -> {"white", "gray", "black"}] |-> [stack \in Seq(DOMAIN adj) |->
     IF d = 0 THEN [cycle |-> <<>>, color |-> color] ELSE Dfs(visit, adj, u, color, stack)]]]

Nested(F, adj, m) == F = [d \in 0..m |-> Calls(d, F[d - 1], adj)]

Root(visit, nodes, i, acc) ==
  IF acc.cycle = <<>> /\ acc.color[nodes[i].id] = "white" THEN visit[nodes[i].id][acc.color][<<>>] ELSE acc

AllWhite(adj) == [cycle |-> <<>>, color |-> [u \in DOMAIN adj |-> "white"]]

Roots(F, visit, nodes, adj) ==
  F = [i \in 0..Len(nodes) |-> IF i = 0 THEN AllWhite(adj) ELSE Root(visit, nodes, i, F[i - 1])]

Calling(adj) == CHOOSE F : Nested(F, adj, Cardinality(DOMAIN adj))

LEMMA FindCycleIs ==
  ASSUME NEW nodes, NEW adj
  PROVE  FindCycle(nodes, adj)
           = (CHOOSE F : Roots(F, Calling(adj)[Cardinality(DOMAIN adj)], nodes, adj))[Len(nodes)].cycle
BY DEF FindCycle, Calls, Nested, Root, AllWhite, Roots, Calling

LEMMA NestedExists ==
  ASSUME NEW adj, NEW m \in Nat
  PROVE  \E F : Nested(F, adj, m)
<1>. DEFINE P == {k \in Nat : ~ \E F : Nested(F, adj, k)}
<1>. SUFFICES ASSUME P # {} PROVE FALSE
  OBVIOUS
<1>1. PICK k \in P : \A y \in P : ~ (y < k)
  BY LeastOfNat, Zenon
<1>0. \A visit, w : Calls(0, visit, adj) = Calls(0, w, adj)
  BY DEF Calls
<1>2. CASE k = 0
  <2>. DEFINE F == [d \in 0..0 |-> Calls(0, <<>>, adj)]
              G == [d \in 0..k |-> Calls(d, F[d - 1], adj)]
  <2>1. \A d \in 0..0 : F[d] = G[d]
    BY <1>0, <1>2
  <2>2. F = G
    BY <1>2, <2>1
  <2>3. Nested(F, adj, k)
    <3>. HIDE DEF F
    <3>. QED  BY <2>2 DEF Nested
  <2>. QED  BY <2>3
<1>3. CASE k # 0
  <2>1. k - 1 \in Nat /\ k - 1 \notin P
    BY <1>1, <1>3
  <2>2. PICK E_ : Nested(E_, adj, k - 1)
    BY <2>1
  <2>3. E_ = [d \in 0..k - 1 |-> Calls(d, E_[d - 1], adj)]
    BY <2>2 DEF Nested
  <2>. DEFINE F == [d \in 0..k |-> IF d = k THEN Calls(k, E_[k - 1], adj) ELSE E_[d]]
              G == [d \in 0..k |-> Calls(d, F[d - 1], adj)]
  <2>4. ASSUME NEW d \in 0..k PROVE F[d] = Calls(d, F[d - 1], adj)
    <3>1. CASE d = 0
      <4>1. F[d] = E_[0] /\ E_[0] = Calls(0, E_[0 - 1], adj)
        BY <1>3, <2>1, <2>3, <3>1
      <4>. HIDE DEF F
      <4>. QED  BY <1>0, <3>1, <4>1
    <3>2. CASE d # 0
      <4>1. d - 1 \in 0..k /\ d - 1 # k /\ F[d - 1] = E_[d - 1]
        BY <3>2
      <4>2. CASE d = k
        BY <4>1, <4>2
      <4>3. CASE d # k
        <5>1. d \in 0..k - 1 /\ F[d] = E_[d]
          BY <4>3
        <5>2. E_[d] = Calls(d, E_[d - 1], adj)
          BY <2>3, <5>1
        <5>. QED  BY <4>1, <5>1, <5>2
      <4>. QED  BY <4>2, <4>3
    <3>. QED  BY <3>1, <3>2
  <2>5. F = G
    <3>1. \A d \in 0..k : F[d] = G[d]
      BY <2>4
    <3>. QED  BY <3>1
  <2>6. Nested(F, adj, k)
    <3>. HIDE DEF F
    <3>. QED  BY <2>5 DEF Nested
  <2>. QED  BY <1>1, <2>6
<1>. QED  BY <1>2, <1>3

(* The depth is enough: a call has at most as many white nodes as calls    *)
(* can be nested below it.                                                 *)
LEMMA CallingFacts ==
  ASSUME NEW adj, Graph(adj), IsFiniteSet(DOMAIN adj)
  PROVE  Visits(Calling(adj)[Cardinality(DOMAIN adj)], adj, Cardinality(DOMAIN adj))
<1>. DEFINE U == DOMAIN adj
            C == [U -> {"white", "gray", "black"}]
            m == Cardinality(U)
            V == Calling(adj)
            P == {d \in 0..m : Visits(V[d], adj, d)}
<1>0. m \in Nat
  BY FS_CardinalityType
<1>1. Nested(V, adj, m)
  BY <1>0, NestedExists DEF Calling
<1>. HIDE DEF V, m
<1>2. \A d \in 0..m : V[d] = Calls(d, V[d - 1], adj)
  BY <1>1 DEF Nested
<1>3. ASSUME NEW u, NEW color, NEW stack, Callable(adj, u, color, stack)
      PROVE  /\ u \in U /\ color \in C /\ stack \in Seq(U)
             /\ Cardinality(White(color)) \in Nat /\ Cardinality(White(color)) # 0
  <2>1. color \in C /\ u \in White(color) /\ stack \in Seq(U)
    BY <1>3 DEF Callable
  <2>2. White(color) \subseteq U
    BY <2>1, ColorFacts
  <2>3. IsFiniteSet(White(color)) /\ White(color) # {}
    BY <2>1, <2>2, FS_Subset
  <2>. QED  BY <2>1, <2>2, <2>3, FS_CardinalityType, FS_EmptySet
<1>4. 0 \in P
  <2>1. Visits(V[0], adj, 0)
    BY <1>3 DEF Visits
  <2>. QED  BY <1>0, <2>1
<1>5. ASSUME NEW d \in 1..m, d - 1 \in P PROVE d \in P
  <2>1. d \in 0..m /\ d - 1 \in Nat /\ (d - 1) + 1 = d /\ d # 0
    BY <1>0
  <2>. DEFINE visit == V[d - 1]
  <2>2. Visits(visit, adj, d - 1)
    BY <1>5
  <2>3. V[d] = Calls(d, visit, adj)
    BY <1>2, <2>1
  <2>. HIDE DEF visit
  <2>4. ASSUME NEW u, NEW color, NEW stack, Callable(adj, u, color, stack), Cardinality(White(color)) <= d
        PROVE  Outcome(adj, V[d][u][color][stack], White(color) \ {u}, Gray(color))
    <3>1. u \in U /\ color \in C /\ stack \in Seq(U)
      BY <1>3, <2>4
    <3>2. V[d][u][color][stack] = Dfs(visit, adj, u, color, stack)
      BY <2>1, <2>3, <3>1 DEF Calls
    <3>3. Outcome(adj, Dfs(visit, adj, u, color, stack), White(color) \ {u}, Gray(color))
      BY <2>1, <2>2, <2>4, DfsFacts
    <3>. QED  BY <3>2, <3>3
  <2>5. Visits(V[d], adj, d)
    BY <2>4 DEF Visits
  <2>. QED  BY <2>1, <2>5
<1>6. m \in P
  <2>. HIDE DEF P
  <2>1. m \in 0..m
    BY <1>0
  <2>. QED  BY <1>0, <1>4, <1>5, <2>1, InductionTo
<1>. QED  BY <1>6 DEF V, m

LEMMA RootFacts ==
  ASSUME NEW adj, Graph(adj), IsFiniteSet(DOMAIN adj), NEW nodes, NEW i, nodes[i].id \in DOMAIN adj,
         NEW visit, Visits(visit, adj, Cardinality(DOMAIN adj)),
         NEW acc, Outcome(adj, acc, DOMAIN adj, {})
  PROVE  /\ Outcome(adj, Root(visit, nodes, i, acc), DOMAIN adj, {})
         /\ Root(visit, nodes, i, acc).cycle = <<>> =>
              /\ acc.cycle = <<>> /\ nodes[i].id \in Black(Root(visit, nodes, i, acc).color)
              /\ Black(acc.color) \subseteq Black(Root(visit, nodes, i, acc).color)
<1>. DEFINE U == DOMAIN adj
            C == [U -> {"white", "gray", "black"}]
            v == nodes[i].id
            r == Root(visit, nodes, i, acc)
            c == acc.color
<1>1. acc \in Results(adj) /\ c \in C
  BY DEF Outcome, Results
<1>2. v \in U
  OBVIOUS
<1>. HIDE DEF v
<1>3. CASE acc.cycle # <<>>
  <2>1. r = acc
    BY <1>3 DEF Root
  <2>. HIDE DEF r
  <2>. QED  BY <1>3, <2>1 DEF r
<1>4. CASE acc.cycle = <<>> /\ c[v] # "white"
  <2>1. r = acc
    BY <1>4 DEF Root, v
  <2>2. Gray(c) = {}
    BY <1>4 DEF Outcome
  <2>3. v \in Black(c)
    <3>. HIDE DEF c
    <3>. QED  BY <1>1, <1>2, <1>4, <2>2, ColorFacts
  <2>. HIDE DEF r
  <2>. QED  BY <1>4, <2>1, <2>3 DEF r, v
<1>5. CASE acc.cycle = <<>> /\ c[v] = "white"
  <2>1. r = visit[v][c][<<>>]
    BY <1>5 DEF Root, v
  <2>2. Gray(c) = {} /\ White(c) \subseteq U /\ Settled(adj, c)
    BY <1>5 DEF Outcome
  <2>. HIDE DEF c, r
  <2>3. v \in White(c)
    BY <1>1, <1>2, <1>5, ColorFacts
  <2>4. IsPath(adj, Append(<<>>, v)) /\ <<>> \in Seq(U) /\ ToSet(<<>>) = {}
    <3>1. Append(<<>>, v) = <<v>> /\ <<v>> \in Seq(U) /\ Len(<<v>>) = 1
      BY <1>2
    <3>2. 1..1 - 1 = {}
      OBVIOUS
    <3>3. IsPath(adj, <<v>>)
      BY <3>1, <3>2 DEF IsPath
    <3>4. <<>> \in Seq(U) /\ ToSet(<<>>) = {}
      BY DEF ToSet
    <3>. QED  BY <3>1, <3>3, <3>4
  <2>5. Callable(adj, v, c, <<>>)
    BY <1>1, <2>2, <2>3, <2>4 DEF Callable
  <2>6. Cardinality(White(c)) <= Cardinality(U)
    BY <2>2, FS_Subset
  <2>7. Outcome(adj, r, White(c) \ {v}, Gray(c))
    BY <2>1, <2>5, <2>6 DEF Visits
  <2>8. Outcome(adj, r, U, {})
    BY <2>2, <2>7 DEF Outcome
  <2>9. ASSUME r.cycle = <<>> PROVE v \in Black(r.color) /\ Black(c) \subseteq Black(r.color)
    <3>1. Gray(r.color) = {} /\ White(r.color) \subseteq White(c) \ {v} /\ r.color \in C
      BY <2>2, <2>7, <2>9 DEF Outcome, Results
    <3>. HIDE DEF C, U
    <3>. QED  BY <1>1, <1>2, <2>3, <3>1, ColorFacts DEF C
  <2>. QED  BY <1>5, <2>8, <2>9 DEF r, c, v
<1>. QED  BY <1>3, <1>4, <1>5

(* A cycle is found exactly if there is one.                               *)
LEMMA FindCycleFacts ==
  ASSUME NEW nodes, IsSequence(nodes), NEW adj, Graph(adj), DOMAIN adj = Ids(nodes), IsFiniteSet(Ids(nodes))
  PROVE  /\ FindCycle(nodes, adj) # <<>> => IsCycle(adj, FindCycle(nodes, adj))
         /\ FindCycle(nodes, adj) = <<>> => GroundedIn(adj, Ids(nodes))
<1>. DEFINE U == DOMAIN adj
            n == Len(nodes)
            visit == Calling(adj)[Cardinality(U)]
            begin == AllWhite(adj)
            X == {r \in Results(adj) : Outcome(adj, r, U, {})}
            g == [p \in (1..n) \X X |-> Root(visit, nodes, p[1], p[2])]
            G == CHOOSE F : Roots(F, visit, nodes, adj)
<1>1. n \in Nat /\ DOMAIN nodes = 1..n /\ \A i \in 1..n : nodes[i].id \in U
  BY SequenceFacts DEF Ids
<1>2. Visits(visit, adj, Cardinality(U))
  BY CallingFacts
<1>. HIDE DEF visit
<1>3. begin \in X
  <2>. DEFINE c == [u \in U |-> "white"]
  <2>1. c \in [U -> {"white", "gray", "black"}] /\ Gray(c) = {} /\ White(c) = U /\ Black(c) = {}
    BY DEF White, Gray, Black
  <2>2. begin = [cycle |-> <<>>, color |-> c]
    BY DEF AllWhite
  <2>. HIDE DEF c, begin
  <2>3. begin \in Results(adj) /\ begin.cycle = <<>> /\ begin.color = c
    <3>1. <<>> \in Seq(U)
      OBVIOUS
    <3>. QED  BY <2>1, <2>2, <3>1 DEF Results
  <2>4. Settled(adj, c)
    BY <2>1 DEF Settled, GroundedIn
  <2>. QED  BY <2>1, <2>3, <2>4 DEF Outcome
<1>4. ASSUME NEW i \in 1..n, NEW r \in X
      PROVE  /\ Root(visit, nodes, i, r) \in X
             /\ Root(visit, nodes, i, r).cycle = <<>> =>
                  /\ r.cycle = <<>> /\ nodes[i].id \in Black(Root(visit, nodes, i, r).color)
                  /\ Black(r.color) \subseteq Black(Root(visit, nodes, i, r).color)
  <2>1. Outcome(adj, r, U, {}) /\ nodes[i].id \in U
    BY <1>1
  <2>2. /\ Outcome(adj, Root(visit, nodes, i, r), U, {})
        /\ Root(visit, nodes, i, r).cycle = <<>> =>
             /\ r.cycle = <<>> /\ nodes[i].id \in Black(Root(visit, nodes, i, r).color)
             /\ Black(r.color) \subseteq Black(Root(visit, nodes, i, r).color)
    BY <1>2, <2>1, RootFacts
  <2>. QED  BY <2>2 DEF Outcome
<1>. HIDE DEF X, n, begin
<1>5. g \in [(1..n) \X X -> X] /\ \A i \in 1..n, r \in X : g[<<i, r>>] = Root(visit, nodes, i, r)
  BY <1>4
<1>. HIDE DEF g
<1>6. PICK F \in [0..n -> X] : Computes(F, n, begin, g)
  BY <1>1, <1>3, <1>5, Recursion
<1>7. Roots(F, visit, nodes, adj)
  <2>1. F = [i \in 0..n |-> IF i = 0 THEN begin ELSE Root(visit, nodes, i, F[i - 1])]
    <3>1. ASSUME NEW i \in 0..n PROVE F[i] = IF i = 0 THEN begin ELSE Root(visit, nodes, i, F[i - 1])
      <4>1. CASE i = 0
        BY <1>6, <4>1 DEF Computes
      <4>2. CASE i # 0
        <5>1. i \in 1..n /\ i - 1 \in 0..n
          BY <1>1, <4>2
        <5>2. F[i - 1] \in X
          BY <5>1
        <5>. QED  BY <1>5, <1>6, <4>2, <5>1, <5>2 DEF Computes
      <4>. QED  BY <4>1, <4>2
    <3>. QED  BY <3>1
  <2>. QED  BY <2>1 DEF Roots, n, begin
<1>8. Roots(G, visit, nodes, adj)
  BY <1>7
<1>. HIDE DEF G
<1>9. G[0] = begin /\ \A i \in 1..n : G[i] = Root(visit, nodes, i, G[i - 1])
  <2>1. G = [i \in 0..n |-> IF i = 0 THEN begin ELSE Root(visit, nodes, i, G[i - 1])]
    BY <1>8 DEF Roots, n, begin
  <2>2. 0 \in 0..n /\ \A i \in 1..n : i \in 0..n /\ i # 0
    BY <1>1
  <2>. QED  BY <2>1, <2>2
<1>10. \A k \in 0..n : G[k] \in X
  <2>1. \A i \in 1..n : G[i - 1] \in X => G[i] \in X
    BY <1>4, <1>9
  <2>. QED  BY <1>1, <1>3, <1>9, <2>1, RecursionTyped
<1>. DEFINE P == {k \in 0..n : G[k].cycle = <<>> => \A i \in 1..k : nodes[i].id \in Black(G[k].color)}
<1>11. \A k \in 0..n : k \in P
  <2>1. 0 \in P
    BY <1>1
  <2>2. ASSUME NEW k \in 1..n, k - 1 \in P PROVE k \in P
    <3>1. k - 1 \in 0..n /\ k \in 0..n /\ \A i \in 1..k : i = k \/ i \in 1..k - 1
      BY <1>1
    <3>2. G[k - 1] \in X
      BY <1>10, <3>1
    <3>. DEFINE before == G[k - 1]
                after == G[k]
    <3>3. after.cycle = <<>> => /\ before.cycle = <<>> /\ nodes[k].id \in Black(after.color)
                                /\ Black(before.color) \subseteq Black(after.color)
      BY <1>4, <1>9, <3>2
    <3>4. before.cycle = <<>> => \A i \in 1..k - 1 : nodes[i].id \in Black(before.color)
      BY <2>2
    <3>5. after.cycle = <<>> => \A i \in 1..k : nodes[i].id \in Black(after.color)
      <4>. HIDE DEF before, after
      <4>. QED  BY <3>1, <3>3, <3>4
    <3>. QED  BY <3>1, <3>5
  <2>. HIDE DEF P
  <2>. QED  BY <1>1, <2>1, <2>2, InductionTo
<1>. DEFINE end == G[n]
<1>12. FindCycle(nodes, adj) = end.cycle
  BY FindCycleIs DEF G, n, visit
<1>13. Outcome(adj, end, U, {})
  <2>1. end \in X
    BY <1>1, <1>10
  <2>. QED  BY <2>1 DEF X
<1>14. end.cycle = <<>> => \A i \in 1..n : nodes[i].id \in Black(end.color)
  <2>1. n \in P
    BY <1>1, <1>11
  <2>. QED  BY <2>1
<1>. HIDE DEF end
<1>15. ASSUME end.cycle = <<>> PROVE GroundedIn(adj, Ids(nodes))
  <2>1. Ids(nodes) \subseteq Black(end.color)
    BY <1>1, <1>14, <1>15 DEF Ids
  <2>2. Black(end.color) \subseteq U
    <3>1. end.color \in [U -> {"white", "gray", "black"}]
      BY <1>13 DEF Outcome, Results
    <3>. QED  BY <3>1, ColorFacts
  <2>3. GroundedIn(adj, Black(end.color))
    BY <1>13, <1>15 DEF Outcome, Settled
  <2>. QED  BY <2>1, <2>2, <2>3
<1>. QED  BY <1>12, <1>13, <1>15 DEF Outcome

LEMMA CycleNotGrounded ==
  ASSUME NEW adj, NEW c, IsCycle(adj, c)
  PROVE  ~ GroundedIn(adj, DOMAIN adj)
<1>. DEFINE n == Len(c)
            S == {c[i] : i \in 1..n - 1}
<1>1. n \in Nat /\ n > 1 /\ c[1] = c[n] /\ \A i \in 1..n : c[i] \in DOMAIN adj
  BY DEF IsCycle, IsPath
<1>2. \A i \in 1..n - 1 : c[i + 1] \in ToSet(adj[c[i]])
  BY DEF IsCycle, IsPath
<1>. HIDE DEF n
<1>3. \A i \in 1..n - 1 : c[i + 1] \in S
  <2>. SUFFICES ASSUME NEW i \in 1..n - 1 PROVE c[i + 1] \in S
    OBVIOUS
  <2>1. CASE i + 1 = n
    <3>1. 1 \in 1..n - 1 /\ c[i + 1] = c[1]
      BY <1>1, <2>1
    <3>. QED  BY <3>1
  <2>2. CASE i + 1 # n
    <3>1. i + 1 \in 1..n - 1
      BY <1>1, <2>2
    <3>. QED  BY <3>1
  <2>. QED  BY <2>1, <2>2
<1>4. S \in (SUBSET DOMAIN adj) \ {{}}
  <2>1. 1 \in 1..n - 1 /\ \A i \in 1..n - 1 : i \in 1..n
    BY <1>1
  <2>. QED  BY <1>1, <2>1
<1>5. \A x \in S : ToSet(adj[x]) \cap S # {}
  BY <1>2, <1>3
<1>. HIDE DEF S
<1>. QED  BY <1>4, <1>5 DEF GroundedIn

------------------------------------------------------------------------------
(* What the validator accepts                                              *)

LEMMA AdjacencyGraph ==
  ASSUME NEW nodes, NodesTyped(nodes), NEW edges, \A u \in Ids(nodes) : edges[u] \subseteq Ids(nodes)
  PROVE  /\ Graph(Adjacency(nodes, edges)) /\ DOMAIN Adjacency(nodes, edges) = Ids(nodes)
         /\ IsFiniteSet(Ids(nodes)) /\ IsSequence(nodes)
<1>1. Len(nodes) \in Nat /\ DOMAIN nodes = 1..Len(nodes) /\ IsSequence(nodes)
  BY SequenceFacts DEF NodesTyped
<1>2. DOMAIN Adjacency(nodes, edges) = Ids(nodes)
  BY DEF Adjacency
<1>3. Graph(Adjacency(nodes, edges))
  BY <1>2, AdjacencyFacts DEF Graph
<1>4. IsFiniteSet(Ids(nodes))
  <2>1. IsFiniteSet(1..Len(nodes))
    BY <1>1, FS_Interval
  <2>. DEFINE f == [i \in 1..Len(nodes) |-> nodes[i].id]
  <2>2. f \in Surjection(1..Len(nodes), {nodes[i].id : i \in 1..Len(nodes)})
    BY DEF Surjection
  <2>3. IsFiniteSet({nodes[i].id : i \in 1..Len(nodes)})
    BY <2>1, <2>2, FS_Surjection
  <2>. QED  BY <1>1, <2>3 DEF Ids
<1>. QED  BY <1>1, <1>2, <1>3, <1>4

(* Nodes are in no cycle exactly if none is found, and none needs itself.  *)
LEMMA GroundedNodes ==
  ASSUME NEW nodes, NodesTyped(nodes), NEW edges,
         \A u \in Ids(nodes) : edges[u] \subseteq Ids(nodes) /\ Ids(nodes) \ {u} \subseteq edges[u],
         \A i \in DOMAIN nodes : nodes[i].id \in ToSet(nodes[i].needs) => nodes[i].id \in edges[nodes[i].id]
  PROVE  Grounded(nodes) <=> FindCycle(nodes, Adjacency(nodes, edges)) = <<>>
<1>. DEFINE U == Ids(nodes)
            adj == Adjacency(nodes, edges)
            c == FindCycle(nodes, adj)
<1>1. Graph(adj) /\ DOMAIN adj = U /\ IsFiniteSet(U) /\ IsSequence(nodes)
  BY AdjacencyGraph
<1>2. \A u \in U : \A n \in U : n \in ToSet(adj[u]) <=> \E i \in DOMAIN nodes : nodes[i].id = u /\ n \in ToSet(nodes[i].needs)
  <2>. SUFFICES ASSUME NEW u \in U, NEW n \in U
                PROVE  n \in ToSet(adj[u]) <=> \E i \in DOMAIN nodes : nodes[i].id = u /\ n \in ToSet(nodes[i].needs)
    OBVIOUS
  <2>1. n \in ToSet(adj[u]) <=>
          n \in edges[u] /\ \E i \in DOMAIN nodes : nodes[i].id = u /\ n \in ToSet(nodes[i].needs)
    BY AdjacencyFacts
  <2>. HIDE DEF adj, c, U
  <2>2. ASSUME NEW i \in DOMAIN nodes, nodes[i].id = u, n \in ToSet(nodes[i].needs) PROVE n \in edges[u]
    <3>1. CASE n = u
      BY <2>2, <3>1
    <3>2. CASE n # u
      BY <3>2 DEF U
    <3>. QED  BY <3>1, <3>2
  <2>. QED  BY <2>1, <2>2
<1>. HIDE DEF adj
<1>3. Grounded(nodes) <=> GroundedIn(adj, U)
  <2>1. \A S \in SUBSET U, u \in U :
          (\A i \in DOMAIN nodes : nodes[i].id = u => ToSet(nodes[i].needs) \cap S = {}) <=> ToSet(adj[u]) \cap S = {}
    <3>. SUFFICES ASSUME NEW S \in SUBSET U, NEW u \in U
                  PROVE  (\A i \in DOMAIN nodes : nodes[i].id = u => ToSet(nodes[i].needs) \cap S = {})
                           <=> ToSet(adj[u]) \cap S = {}
      OBVIOUS
    <3>1. \A n \in S : n \in ToSet(adj[u]) <=> \E i \in DOMAIN nodes : nodes[i].id = u /\ n \in ToSet(nodes[i].needs)
      BY <1>2
    <3>. QED  BY <3>1
  <2>2. \A S \in SUBSET U : (\E u \in S : \A i \in DOMAIN nodes : nodes[i].id = u => ToSet(nodes[i].needs) \cap S = {})
                              <=> \E u \in S : ToSet(adj[u]) \cap S = {}
    BY <2>1
  <2>. QED  BY <2>2 DEF Grounded, GroundedIn
<1>. HIDE DEF U
<1>4. CASE c = <<>>
  <2>1. GroundedIn(adj, U)
    BY <1>1, <1>4, FindCycleFacts DEF U
  <2>. QED  BY <1>3, <1>4, <2>1 DEF adj
<1>5. CASE c # <<>>
  <2>1. IsCycle(adj, c)
    BY <1>1, <1>5, FindCycleFacts DEF U
  <2>2. ~ GroundedIn(adj, U)
    BY <1>1, <2>1, CycleNotGrounded
  <2>. QED  BY <1>3, <1>5, <2>2 DEF adj
<1>. QED  BY <1>4, <1>5

LEMMA GroundedSelf ==
  ASSUME NEW nodes, Grounded(nodes), NEW i \in DOMAIN nodes
  PROVE  nodes[i].id \notin ToSet(nodes[i].needs)
<1>. DEFINE S == {nodes[i].id}
<1>1. S \in (SUBSET Ids(nodes)) \ {{}}
  BY DEF Ids
<1>2. \E id \in S : \A k \in DOMAIN nodes : nodes[k].id = id => ToSet(nodes[k].needs) \cap S = {}
  BY <1>1 DEF Grounded
<1>. QED  BY <1>2

LEMMA JobCycleFacts ==
  ASSUME NEW jobs, NodesTyped(jobs)
  PROVE  (JobCycle(jobs) = <<>> <=> Grounded(jobs)) /\ CyclesAreReal(jobs)
<1>. DEFINE U == Ids(jobs)
            edges == [u \in U |-> U]
            adj == Adjacency(jobs, edges)
            c == FindCycle(jobs, adj)
<1>1. JobCycle(jobs) = c
  BY DEF JobCycle
<1>2. \A u \in U : edges[u] = U
  OBVIOUS
<1>3. \A i \in DOMAIN jobs : jobs[i].id \in U
  BY DEF Ids
<1>. HIDE DEF edges
<1>4. Grounded(jobs) <=> c = <<>>
  BY <1>2, <1>3, GroundedNodes
<1>5. Graph(adj) /\ DOMAIN adj = U /\ IsFiniteSet(U) /\ IsSequence(jobs)
  BY <1>2, AdjacencyGraph
<1>6. \A u \in U : \A n \in ToSet(adj[u]) : \E i \in DOMAIN jobs : jobs[i].id = u /\ n \in ToSet(jobs[i].needs)
  BY AdjacencyFacts
<1>7. ASSUME c # <<>>
      PROVE  /\ c[1] = Last(c) /\ Len(c) > 1
             /\ \A i \in 1..Len(c) - 1 : \E j \in ToSet(jobs) : j.id = c[i] /\ c[i + 1] \in ToSet(j.needs)
  <2>1. IsCycle(adj, c)
    BY <1>5, <1>7, FindCycleFacts
  <2>. HIDE DEF c, adj
  <2>2. /\ c \in Seq(U) /\ Len(c) > 1 /\ c[1] = c[Len(c)]
        /\ \A i \in 1..Len(c) - 1 : c[i + 1] \in ToSet(adj[c[i]])
    BY <1>5, <2>1 DEF IsCycle, IsPath
  <2>3. ASSUME NEW i \in 1..Len(c) - 1
        PROVE  \E j \in ToSet(jobs) : j.id = c[i] /\ c[i + 1] \in ToSet(j.needs)
    <3>1. c[i] \in U
      BY <2>2
    <3>2. PICK k \in DOMAIN jobs : jobs[k].id = c[i] /\ c[i + 1] \in ToSet(jobs[k].needs)
      BY <1>6, <2>2, <3>1
    <3>. QED  BY <3>2 DEF ToSet
  <2>4. Last(c) = c[Len(c)]
    BY DEF Last
  <2>. QED  BY <2>2, <2>3, <2>4
<1>8. CyclesAreReal(jobs)
  <2>. HIDE DEF c
  <2>. QED  BY <1>1, <1>7 DEF CyclesAreReal
<1>. QED  BY <1>1, <1>4, <1>8

LEMMA StepGraphFacts ==
  ASSUME NEW j, NodesTyped(j.steps)
  PROVE  ValidateStepGraph(j) = {} <=>
           Grounded(j.steps) /\ \A t \in ToSet(j.steps) : ToSet(t.needs) \subseteq Ids(j.steps)
<1>. DEFINE U == Ids(j.steps)
            edges == [u \in U |-> U \ {u}]
            c == FindCycle(j.steps, Adjacency(j.steps, edges))
            self == {t \in ToSet(j.steps) : t.id \in ToSet(t.needs)}
            unknown == {t \in ToSet(j.steps) : ~ (ToSet(t.needs) \subseteq U)}
<1>1. ValidateStepGraph(j) = {} <=> self = {} /\ unknown = {} /\ c = <<>>
  <2>. HIDE DEF c, self, unknown
  <2>1. ValidateStepGraph(j) = {<<"step needs itself", j.id, s.id>> : s \in self}
                                 \cup {<<"step needs unknown step", j.id, s.id>> : s \in unknown}
                                 \cup (IF c = <<>> THEN {} ELSE {<<"step cycle", j.id>>})
    BY DEF ValidateStepGraph, self, unknown, c
  <2>. QED  BY <2>1
<1>2. \A u \in U : edges[u] = U \ {u}
  OBVIOUS
<1>3. unknown = {} <=> \A t \in ToSet(j.steps) : ToSet(t.needs) \subseteq U
  OBVIOUS
<1>. HIDE DEF edges
<1>4. ASSUME self = {} PROVE Grounded(j.steps) <=> c = <<>>
  <2>1. \A i \in DOMAIN j.steps : j.steps[i].id \notin ToSet(j.steps[i].needs)
    BY <1>4 DEF ToSet
  <2>. QED  BY <1>2, <2>1, GroundedNodes
<1>5. ASSUME Grounded(j.steps) PROVE self = {}
  <2>1. \A i \in DOMAIN j.steps : j.steps[i].id \notin ToSet(j.steps[i].needs)
    BY <1>5, GroundedSelf
  <2>. QED  BY <2>1 DEF ToSet
<1>. HIDE DEF self, unknown, c
<1>. QED  BY <1>1, <1>3, <1>4, <1>5 DEF U

LEMMA DuplicateFacts ==
  ASSUME NEW jobs, IsSequence(jobs)
  PROVE  (\A k \in DOMAIN jobs : ~ \E m \in 1..k - 1 : jobs[m].id = jobs[k].id) <=> Cardinality(Ids(jobs)) = Len(jobs)
<1>. DEFINE n == Len(jobs)
            U == Ids(jobs)
            f == [i \in 1..n |-> jobs[i].id]
<1>1. n \in Nat /\ DOMAIN jobs = 1..n /\ IsFiniteSet(1..n) /\ Cardinality(1..n) = n
  <2>1. n \in Nat /\ DOMAIN jobs = 1..n
    BY SequenceFacts
  <2>. HIDE DEF n
  <2>. QED  BY <2>1, FS_Interval
<1>2. U = {jobs[i].id : i \in 1..n}
  BY <1>1 DEF Ids
<1>. HIDE DEF n, U
<1>3. f \in [1..n -> U] /\ (\A x \in U : \E i \in 1..n : f[i] = x) /\ \A i \in 1..n : f[i] = jobs[i].id
  BY <1>2
<1>. HIDE DEF f
<1>4. ASSUME \A k \in DOMAIN jobs : ~ \E m \in 1..k - 1 : jobs[m].id = jobs[k].id PROVE Cardinality(U) = n
  <2>1. ASSUME NEW i \in 1..n, NEW k \in 1..n, f[i] = f[k] PROVE i = k
    <3>1. CASE i < k
      <4>1. i \in 1..k - 1
        BY <1>1, <3>1
      <4>. QED  BY <1>1, <1>3, <1>4, <2>1, <4>1
    <3>2. CASE k < i
      <4>1. k \in 1..i - 1
        BY <1>1, <3>2
      <4>. QED  BY <1>1, <1>3, <1>4, <2>1, <4>1
    <3>. QED  BY <1>1, <3>1, <3>2
  <2>2. f \in Surjection(1..n, U) /\ f \in Injection(1..n, U)
    BY <1>3, <2>1 DEF Surjection, Injection, IsInjective
  <2>. QED  BY <1>1, <2>2, FS_Surjection
<1>5. ASSUME NEW k \in DOMAIN jobs, NEW m \in 1..k - 1, jobs[m].id = jobs[k].id PROVE Cardinality(U) # n
  <2>. DEFINE D_ == (1..n) \ {k}
              h == [i \in D_ |-> f[i]]
  <2>1. k \in 1..n /\ m \in D_
    BY <1>1
  <2>2. IsFiniteSet(D_) /\ Cardinality(D_) = n - 1
    BY <1>1, <2>1, FS_RemoveElement
  <2>3. h \in Surjection(D_, U)
    <3>1. ASSUME NEW x \in U PROVE \E i \in D_ : h[i] = x
      <4>1. PICK i \in 1..n : f[i] = x
        BY <1>3
      <4>2. CASE i = k
        <5>1. h[m] = x
          BY <1>3, <1>5, <2>1, <4>1, <4>2
        <5>. QED  BY <2>1, <5>1
      <4>3. CASE i # k
        BY <4>1, <4>3
      <4>. QED  BY <4>2, <4>3
    <3>2. h \in [D_ -> U]
      BY <1>3
    <3>. HIDE DEF h, D_
    <3>. QED  BY <3>1, <3>2 DEF Surjection
  <2>. HIDE DEF h, D_
  <2>4. Cardinality(U) <= Cardinality(D_) /\ IsFiniteSet(U) /\ Cardinality(U) \in Nat
    BY <2>2, <2>3, FS_Surjection, FS_CardinalityType
  <2>. QED  BY <1>1, <2>2, <2>4
<1>. QED  BY <1>4, <1>5 DEF U, n

LEMMA ValidateJobFacts ==
  ASSUME NEW jobs, NEW j, NodesTyped(j.steps), j.id \in Ids(jobs)
  PROVE  ValidateJob(jobs, j) = {} <=>
           /\ j.flaws = {} /\ j.steps # <<>> /\ ToSet(j.needs) \subseteq Ids(jobs)
           /\ Grounded(j.steps) /\ \A t \in ToSet(j.steps) : ToSet(t.needs) \subseteq Ids(j.steps)
           /\ j.id \notin ToSet(j.needs)
<1>1. ValidateJob(jobs, j) = {} <=>
        /\ j.flaws = {} /\ j.steps # <<>> /\ ValidateStepGraph(j) = {}
        /\ j.id \notin ToSet(j.needs) /\ ToSet(j.needs) \ (Ids(jobs) \cup {j.id}) = {}
  <2>. DEFINE A == {<<flaw, j.id>> : flaw \in j.flaws}
              B == {<<"unknown job", n>> : n \in ToSet(j.needs) \ (Ids(jobs) \cup {j.id})}
  <2>1. A = {} <=> j.flaws = {}
    OBVIOUS
  <2>2. B = {} <=> ToSet(j.needs) \ (Ids(jobs) \cup {j.id}) = {}
    OBVIOUS
  <2>3. ValidateJob(jobs, j) = A \cup (IF j.steps = <<>> THEN {<<"no steps", j.id>>} ELSE {})
                                 \cup ValidateStepGraph(j)
                                 \cup (IF j.id \in ToSet(j.needs) THEN {<<"needs itself", j.id>>} ELSE {}) \cup B
    BY DEF ValidateJob
  <2>. HIDE DEF A, B
  <2>. QED  BY <2>1, <2>2, <2>3
<1>2. ToSet(j.needs) \ (Ids(jobs) \cup {j.id}) = {} <=> ToSet(j.needs) \subseteq Ids(jobs)
  OBVIOUS
<1>. QED  BY <1>1, <1>2, StepGraphFacts

(* The validator rejects a plan exactly if it must.                        *)
LEMMA ValidateFacts ==
  ASSUME NEW jobs, PlanTyped(jobs)
  PROVE  Validate(jobs) = {} <=> Sound(jobs)
<1>. DEFINE double == {k \in DOMAIN jobs : \E m \in 1..k - 1 : jobs[m].id = jobs[k].id}
            A == {<<"duplicate job id", jobs[i].id>> : i \in double}
            B == UNION {ValidateJob(jobs, jobs[i]) : i \in DOMAIN jobs}
            Fit(j) == /\ j.flaws = {} /\ j.steps # <<>> /\ ToSet(j.needs) \subseteq Ids(jobs)
                      /\ Grounded(j.steps) /\ \A t \in ToSet(j.steps) : ToSet(t.needs) \subseteq Ids(j.steps)
<1>1. NodesTyped(jobs) /\ (\A j \in ToSet(jobs) : NodesTyped(j.steps)) /\ IsSequence(jobs)
  BY PlanNodes DEF PlanTyped
<1>2. \A i \in DOMAIN jobs : jobs[i] \in ToSet(jobs) /\ jobs[i].id \in Ids(jobs)
  BY DEF ToSet, Ids
<1>3. A = {} <=> Cardinality(Ids(jobs)) = Len(jobs)
  <2>1. A = {} <=> double = {}
    OBVIOUS
  <2>2. double = {} <=> \A k \in DOMAIN jobs : ~ \E m \in 1..k - 1 : jobs[m].id = jobs[k].id
    OBVIOUS
  <2>. HIDE DEF A, double
  <2>. QED  BY <1>1, <2>1, <2>2, DuplicateFacts
<1>4. B = {} <=> \A i \in DOMAIN jobs : ValidateJob(jobs, jobs[i]) = {}
  OBVIOUS
<1>5. \A i \in DOMAIN jobs : ValidateJob(jobs, jobs[i]) = {} <=> Fit(jobs[i]) /\ jobs[i].id \notin ToSet(jobs[i].needs)
  BY <1>1, <1>2, ValidateJobFacts
<1>6. JobCycle(jobs) = <<>> <=> Grounded(jobs)
  BY <1>1, JobCycleFacts
<1>7. Grounded(jobs) => \A i \in DOMAIN jobs : jobs[i].id \notin ToSet(jobs[i].needs)
  BY GroundedSelf
<1>8. (\A j \in ToSet(jobs) : Fit(j)) <=> \A i \in DOMAIN jobs : Fit(jobs[i])
  <2>. HIDE DEF Fit
  <2>. QED  BY DEF ToSet
<1>9. Sound(jobs) <=> /\ jobs # <<>> /\ Cardinality(Ids(jobs)) = Len(jobs) /\ Grounded(jobs)
                      /\ \A j \in ToSet(jobs) : Fit(j)
  BY DEF Sound
<1>10. CASE jobs = <<>>
  <2>1. Validate(jobs) # {}
    BY <1>10 DEF Validate
  <2>. QED  BY <1>9, <1>10, <2>1
<1>11. CASE jobs # <<>>
  <2>1. Validate(jobs) = A \cup B \cup (IF JobCycle(jobs) = <<>> THEN {} ELSE {<<"dependency cycle">>})
    BY <1>11, Zenon DEF Validate
  <2>. HIDE DEF A, B, Fit
  <2>2. Validate(jobs) = {} <=> A = {} /\ B = {} /\ JobCycle(jobs) = <<>>
    BY <2>1
  <2>. QED  BY <1>3, <1>4, <1>5, <1>6, <1>7, <1>8, <1>9, <1>11, <2>2
<1>. QED  BY <1>10, <1>11

------------------------------------------------------------------------------
(* What becomes of the needs when a plan is expanded                       *)

(* The ids that a job has after the expansion.                             *)
IdsAfter(j) == IF j.dims = <<>> THEN {j.id} ELSE ToSet(IdsFrom(j))

LEMMA ExpandedFrom ==
  ASSUME NEW jobs, WellFormed(jobs), NEW y \in ToSet(ExpandMatrix(jobs))
  PROVE  \E i \in DOMAIN jobs : y.needs = Resolve(jobs, jobs[i].needs) /\ y.id \in IdsAfter(jobs[i])
<1>. DEFINE job(j) == [j EXCEPT !.needs = Resolve(jobs, j.needs)]
            combos(j) == Cartesian(j.dims)
            Expanded(j) == IF j.dims = <<>> THEN <<job(j)>>
                           ELSE [c \in DOMAIN combos(j) |-> [job(j) EXCEPT !.id = IdOf(j, combos(j)[c]), !.env = combos(j)[c]]]
            q == [i \in DOMAIN jobs |-> Expanded(jobs[i])]
            From(j, x) == x.needs = Resolve(jobs, j.needs) /\ x.id \in IdsAfter(j)
<1>1. Len(jobs) \in Nat /\ DOMAIN jobs = 1..Len(jobs) /\ \A i \in 1..Len(jobs) : jobs[i] \in ToSet(jobs)
  BY SequenceFacts DEF WellFormed
<1>2. ExpandMatrix(jobs) = FlattenSeq(q)
  BY DEF ExpandMatrix
<1>3. ASSUME NEW j \in ToSet(jobs) PROVE IsSequence(Expanded(j)) /\ \A x \in ToSet(Expanded(j)) : From(j, x)
  <2>1. /\ {"id", "env", "needs", "inputs", "steps"} \subseteq DOMAIN j
        /\ IsSequence(j.dims) /\ \A values \in ToSet(j.dims) : IsSequence(values)
    BY DEF WellFormed
  <2>. DEFINE r == Resolve(jobs, j.needs)
  <2>. HIDE DEF r
  <2>3. [j EXCEPT !.needs = r].needs = r /\ [j EXCEPT !.needs = r].id = j.id
    BY <2>1
  <2>4. \A v, e : /\ [[j EXCEPT !.needs = r] EXCEPT !.id = v, !.env = e].needs = r
                  /\ [[j EXCEPT !.needs = r] EXCEPT !.id = v, !.env = e].id = v
    BY <2>1
  <2>5. CASE j.dims = <<>>
    <3>1. Expanded(j) = <<job(j)>>
      BY <2>5
    <3>2. From(j, job(j))
      BY <2>3, <2>5 DEF r, IdsAfter
    <3>. HIDE DEF job, Expanded, From
    <3>3. <<job(j)>> \in Seq({job(j)})
      OBVIOUS
    <3>4. IsSequence(<<job(j)>>) /\ ToSet(<<job(j)>>) \subseteq {job(j)}
      BY <3>3, SeqIsSequence
    <3>. QED  BY <3>1, <3>2, <3>4
  <2>6. CASE j.dims # <<>>
    <3>. DEFINE w == combos(j)
                f == [c \in DOMAIN w |-> [job(j) EXCEPT !.id = IdOf(j, w[c]), !.env = w[c]]]
                ids == IdsFrom(j)
    <3>1. Expanded(j) = f
      BY <2>6
    <3>2. Len(w) \in Nat /\ DOMAIN w = 1..Len(w)
      <4>1. w \in Seq(Seq(Values(j.dims)))
        BY <2>1, CartesianTyped
      <4>. QED  BY <4>1
    <3>0. ids = [c \in DOMAIN w |-> IdOf(j, w[c])]
      BY DEF IdsFrom
    <3>. HIDE DEF w, ids
    <3>3. \A c \in DOMAIN w : From(j, f[c])
      <4>1. \A c \in DOMAIN w : f[c] = [[j EXCEPT !.needs = r] EXCEPT !.id = IdOf(j, w[c]), !.env = w[c]]
        BY DEF r
      <4>. HIDE DEF f
      <4>2. \A c \in DOMAIN w : f[c].needs = r /\ f[c].id = IdOf(j, w[c])
        <5>. SUFFICES ASSUME NEW c \in DOMAIN w PROVE f[c].needs = r /\ f[c].id = IdOf(j, w[c])
          OBVIOUS
        <5>. DEFINE v == IdOf(j, w[c])
                    e == w[c]
        <5>1. f[c] = [[j EXCEPT !.needs = r] EXCEPT !.id = v, !.env = e]
          BY <4>1
        <5>. HIDE DEF v, e
        <5>2. /\ [[j EXCEPT !.needs = r] EXCEPT !.id = v, !.env = e].needs = r
              /\ [[j EXCEPT !.needs = r] EXCEPT !.id = v, !.env = e].id = v
          BY <2>4
        <5>3. f[c].needs = r /\ f[c].id = v
          BY <5>1, <5>2
        <5>. QED  BY <5>3 DEF v
      <4>3. \A c \in DOMAIN w : IdOf(j, w[c]) \in IdsAfter(j)
        BY <2>6, <3>0 DEF IdsAfter, ToSet, ids
      <4>. QED  BY <4>2, <4>3 DEF r
    <3>4. IsSequence(f) /\ DOMAIN f = 1..Len(w)
      <4>1. f = [c \in 1..Len(w) |-> f[c]]
        BY <3>2
      <4>. HIDE DEF f
      <4>. QED  BY <3>2, <4>1, FunctionIsSequence
    <3>. HIDE DEF f, Expanded, From
    <3>. QED  BY <3>1, <3>2, <3>3, <3>4 DEF ToSet
  <2>. QED  BY <2>5, <2>6
<1>4. IsSequence(q) /\ DOMAIN q = 1..Len(jobs)
  <2>1. q = [i \in 1..Len(jobs) |-> q[i]]
    BY <1>1
  <2>. HIDE DEF q
  <2>. QED  BY <1>1, <2>1, FunctionIsSequence
<1>5. \A i \in DOMAIN q : IsSequence(q[i]) /\ \A x \in ToSet(q[i]) : From(jobs[i], x)
  <2>1. \A i \in DOMAIN q : q[i] = Expanded(jobs[i])
    BY <1>1
  <2>. HIDE DEF Expanded, From, q
  <2>. QED  BY <1>1, <1>3, <1>4, <2>1
<1>. HIDE DEF q, From
<1>6. ToSet(FlattenSeq(q)) = UNION {ToSet(q[i]) : i \in DOMAIN q}
  BY <1>4, <1>5, FlattenIsSequence
<1>7. PICK i \in DOMAIN q : y \in ToSet(q[i])
  BY <1>2, <1>6
<1>8. From(jobs[i], y) /\ i \in DOMAIN jobs
  BY <1>1, <1>4, <1>5, <1>7
<1>. QED  BY <1>8 DEF From

LEMMA IdsAfterNamed ==
  ASSUME NEW j, NEW id \in IdsAfter(j)
  PROVE  id.name = j.id.name
<1>1. CASE j.dims = <<>>
  BY <1>1 DEF IdsAfter
<1>2. CASE j.dims # <<>>
  <2>1. PICK c \in DOMAIN IdsFrom(j) : id = IdsFrom(j)[c]
    BY <1>2 DEF IdsAfter, ToSet
  <2>2. id = IdOf(j, Cartesian(j.dims)[c])
    BY <2>1 DEF IdsFrom
  <2>. QED  BY <2>2 DEF IdOf
<1>. QED  BY <1>1, <1>2

(* A need on a job that is the only one with its id becomes one on each id *)
(* that the job has after the expansion.                                   *)
LEMMA ExpansionsAre ==
  ASSUME NEW jobs, WellFormed(jobs), NEW i \in DOMAIN jobs, \A k \in DOMAIN jobs : jobs[k].id = jobs[i].id => k = i
  PROVE  ToSet(Expansions(jobs, jobs[i].id)) = IdsAfter(jobs[i])
<1>. DEFINE n == Len(jobs)
            id == jobs[i].id
            v == IF jobs[i].dims = <<>> THEN <<id>> ELSE IdsFrom(jobs[i])
<1>1. n \in Nat /\ DOMAIN jobs = 1..n /\ jobs[i] \in ToSet(jobs)
  BY SequenceFacts DEF WellFormed, ToSet
<1>2. PICK G : /\ G[0] = <<>> /\ \A k \in 1..Len(jobs) : G[k] = Expand(jobs, id, k, G[k - 1])
               /\ Expansions(jobs, id) = G[Len(jobs)]
  BY ExpansionsGrown
<1>3. IsSequence(IdsFrom(jobs[i]))
  BY <1>1, IdsFromTyped DEF WellFormed
<1>4. Expand(jobs, id, i, <<>>) = v
  <2>1. <<>> \o IdsFrom(jobs[i]) = IdsFrom(jobs[i])
    <3>. DEFINE q == IdsFrom(jobs[i])
    <3>1. q \in Seq(ToSet(q))
      BY <1>3 DEF IsSequence
    <3>. HIDE DEF q
    <3>2. <<>> \o q = q
      BY <3>1
    <3>. QED  BY <3>2 DEF q
  <2>. QED  BY <2>1 DEF Expand
<1>5. \A k \in 1..n : k # i => jobs[k].id # id
  BY <1>1
<1>. HIDE DEF v, n, id
<1>. DEFINE P == {k \in 0..n : G[k] = IF k < i THEN <<>> ELSE v}
<1>6. 0 \in P
  BY <1>1, <1>2
<1>7. ASSUME NEW k \in 1..n, k - 1 \in P PROVE k \in P
  <2>1. G[k] = Expand(jobs, id, k, G[k - 1]) /\ k \in 0..n
    BY <1>1, <1>2 DEF n
  <2>2. CASE k < i
    <3>1. G[k - 1] = <<>>
      BY <1>1, <1>7, <2>2
    <3>2. G[k] = <<>>
      BY <1>1, <1>5, <2>1, <2>2, <3>1 DEF Expand
    <3>. QED  BY <2>1, <2>2, <3>2
  <2>3. CASE k = i
    <3>1. G[k - 1] = <<>>
      BY <1>1, <1>7, <2>3
    <3>2. G[k] = v
      BY <1>4, <2>1, <2>3, <3>1
    <3>. QED  BY <1>1, <2>1, <2>3, <3>2
  <2>4. CASE k > i
    <3>1. G[k - 1] = v
      BY <1>1, <1>7, <2>4
    <3>2. G[k] = v
      BY <1>1, <1>5, <2>1, <2>4, <3>1 DEF Expand
    <3>. QED  BY <1>1, <2>1, <2>4, <3>2
  <2>. QED  BY <1>1, <2>2, <2>3, <2>4
<1>8. G[n] = v
  <2>1. n \in P
    <3>. HIDE DEF P
    <3>1. n \in 0..n
      BY <1>1
    <3>. QED  BY <1>1, <1>6, <1>7, <3>1, InductionTo
  <2>. QED  BY <1>1, <2>1
<1>9. ToSet(v) = IdsAfter(jobs[i])
  <2>1. CASE jobs[i].dims = <<>>
    <3>1. v = <<id>>
      BY <2>1 DEF v
    <3>2. ToSet(<<id>>) = {id}
      BY DEF ToSet
    <3>. QED  BY <2>1, <3>1, <3>2 DEF IdsAfter, id
  <2>2. CASE jobs[i].dims # <<>>
    BY <2>2 DEF v, IdsAfter
  <2>. QED  BY <2>1, <2>2
<1>. QED  BY <1>2, <1>8, <1>9 DEF id, n

LEMMA ResolveFacts ==
  ASSUME NEW jobs, WellFormed(jobs), NEW list, IsSequence(list), NEW n \in ToSet(list)
  PROVE  \/ ToSet(Expansions(jobs, n)) # {} /\ ToSet(Expansions(jobs, n)) \subseteq ToSet(Resolve(jobs, list))
         \/ ToSet(Expansions(jobs, n)) = {} /\ n \in ToSet(Resolve(jobs, list))
<1>. DEFINE ids(k) == Expansions(jobs, list[k])
            q == [k \in DOMAIN list |-> IF ids(k) # <<>> THEN ids(k) ELSE <<list[k]>>]
            e == Expansions(jobs, n)
<1>1. Len(list) \in Nat /\ DOMAIN list = 1..Len(list)
  BY SequenceFacts
<1>2. IsSequence(q) /\ DOMAIN q = 1..Len(list)
  <2>1. q = [k \in 1..Len(list) |-> q[k]]
    BY <1>1
  <2>. HIDE DEF q
  <2>. QED  BY <1>1, <2>1, FunctionIsSequence
<1>3. ASSUME NEW k \in DOMAIN list PROVE IsSequence(q[k])
  <2>1. IsSequence(ids(k))
    BY ExpansionsTyped
  <2>2. IsSequence(<<list[k]>>)
    <3>1. <<list[k]>> \in Seq({list[k]})
      OBVIOUS
    <3>. QED  BY <3>1, SeqIsSequence
  <2>3. q[k] = ids(k) \/ q[k] = <<list[k]>>
    OBVIOUS
  <2>. HIDE DEF q, ids
  <2>. QED  BY <2>1, <2>2, <2>3
<1>4. Resolve(jobs, list) = FlattenSeq(q)
  BY DEF Resolve
<1>5. PICK k \in DOMAIN list : list[k] = n
  BY DEF ToSet
<1>6. q[k] = IF e # <<>> THEN e ELSE <<n>>
  BY <1>5
<1>7. IsSequence(e)
  BY ExpansionsTyped
<1>. HIDE DEF q, e
<1>8. ToSet(q[k]) \subseteq ToSet(Resolve(jobs, list))
  BY <1>1, <1>2, <1>3, <1>4, FlattenIsSequence
<1>9. CASE e = <<>>
  <2>1. ToSet(e) = {} /\ q[k] = <<n>> /\ n \in ToSet(<<n>>)
    BY <1>6, <1>9 DEF ToSet
  <2>. QED  BY <1>8, <2>1 DEF e
<1>10. CASE e # <<>>
  <2>1. q[k] = e
    BY <1>6, <1>10
  <2>2. ToSet(e) # {}
    <3>1. e \in Seq(ToSet(e)) /\ Len(e) \in Nat /\ DOMAIN e = 1..Len(e)
      BY <1>7, SequenceFacts
    <3>2. Len(e) # 0
      BY <1>10, <3>1, EmptySeq
    <3>3. 1 \in DOMAIN e
      BY <3>1, <3>2
    <3>. QED  BY <3>3 DEF ToSet
  <2>. QED  BY <1>8, <2>1, <2>2 DEF e
<1>. QED  BY <1>9, <1>10

LEMMA CarriedOver ==
  ASSUME NEW raw, WellFormed(raw), Checked(ExpandMatrix(raw))
  PROVE  NeedsCarriedOver(raw)
<1>. SUFFICES ASSUME \A i, k \in DOMAIN raw : raw[i].id.name = raw[k].id.name => i = k,
                     NEW j \in ToSet(raw), NEW c \in ToSet(ExpandMatrix(raw)), c.id.name = j.id.name,
                     NEW n \in ToSet(j.needs), n \in Ids(raw)
              PROVE  LET ids == {x.id : x \in {y \in ToSet(ExpandMatrix(raw)) : y.id.name = n.name}}
                     IN  ids # {} /\ ids \subseteq ToSet(c.needs)
  BY Zenon DEF NeedsCarriedOver
<1>. DEFINE plan_ == ExpandMatrix(raw)
            ids == {x.id : x \in {y \in ToSet(plan_) : y.id.name = n.name}}
<1>1. PICK i \in DOMAIN raw : raw[i].id = n
  BY DEF Ids
<1>2. \A k \in DOMAIN raw : raw[k].id = raw[i].id => k = i
  OBVIOUS
<1>3. ToSet(Expansions(raw, n)) = IdsAfter(raw[i])
  BY <1>1, <1>2, ExpansionsAre
<1>4. c.needs = Resolve(raw, j.needs)
  <2>1. PICK k \in DOMAIN raw : c.needs = Resolve(raw, raw[k].needs) /\ c.id \in IdsAfter(raw[k])
    BY ExpandedFrom
  <2>2. PICK m \in DOMAIN raw : raw[m] = j
    BY DEF ToSet
  <2>3. raw[k].id.name = raw[m].id.name
    BY <2>1, <2>2, IdsAfterNamed
  <2>4. k = m
    BY <2>3
  <2>. QED  BY <2>1, <2>2, <2>4
<1>5. \A y \in ToSet(plan_) : y.id.name = n.name => y.id \in IdsAfter(raw[i])
  <2>. SUFFICES ASSUME NEW y \in ToSet(plan_), y.id.name = n.name PROVE y.id \in IdsAfter(raw[i])
    OBVIOUS
  <2>1. PICK k \in DOMAIN raw : y.id \in IdsAfter(raw[k])
    BY ExpandedFrom
  <2>2. raw[k].id.name = raw[i].id.name
    BY <1>1, <2>1, IdsAfterNamed
  <2>3. k = i
    BY <2>2
  <2>. QED  BY <2>1, <2>3
<1>6. ids \subseteq IdsAfter(raw[i])
  BY <1>5
<1>7. IsSequence(j.needs)
  BY DEF WellFormed
<1>8. \A m \in ToSet(c.needs) : \E y \in ToSet(plan_) : y.id = m
  <2>1. ToSet(c.needs) \subseteq Ids(plan_)
    BY DEF Checked
  <2>. QED  BY <2>1 DEF Ids, ToSet
<1>. HIDE DEF plan_
<1>9. \/ IdsAfter(raw[i]) # {} /\ IdsAfter(raw[i]) \subseteq ToSet(c.needs)
      \/ IdsAfter(raw[i]) = {} /\ n \in ToSet(c.needs)
  BY <1>3, <1>4, <1>7, ResolveFacts
<1>10. CASE IdsAfter(raw[i]) # {} /\ IdsAfter(raw[i]) \subseteq ToSet(c.needs)
  <2>1. PICK m \in IdsAfter(raw[i]) : m \in ToSet(c.needs)
    BY <1>10
  <2>2. PICK y \in ToSet(plan_) : y.id = m
    BY <1>8, <2>1
  <2>3. y.id.name = n.name
    BY <1>1, <2>1, <2>2, IdsAfterNamed
  <2>4. y.id \in ids
    BY <2>2, <2>3
  <2>. QED  BY <1>6, <1>10, <2>4 DEF plan_
<1>11. CASE IdsAfter(raw[i]) = {} /\ n \in ToSet(c.needs)
  <2>1. PICK y \in ToSet(plan_) : y.id = n
    BY <1>8, <1>11
  <2>. QED  BY <1>5, <1>11, <2>1
<1>. QED  BY <1>9, <1>10, <1>11

------------------------------------------------------------------------------
(* Conditions: what the recursions of module Expressions compute           *)

(* What a phrase can be made of, and one turn of the loop that makes them. *)
Formed(toks, ctx, S) ==
  E!Literals(toks) \cup E!Paths(toks, ctx) \cup E!Functions(toks, ctx)
  \cup E!Bracketed(toks, S) \cup E!Negated(toks, S) \cup E!Joined(toks, S)

(* One more operator of a chain.                                           *)
Linked(toks, ops, next, left) ==
  LET op == E!At(toks, left.pos)
      right == next[left.pos + 1]
  IN  IF ~left.ok \/ op \notin ops THEN left
      ELSE IF right.ok THEN E!Value(E!Apply(op, left.v, right.v), right.pos) ELSE E!Error

(* The functions of the parser, given what the calls return that they make.*)
Span(toks) == 1..Len(toks) + 1
UnaryOf(toks, ctx, next) == [i \in Span(toks) |-> E!Unary(toks, ctx, next, i)]
ChainOf(toks, ops, next) == [i \in Span(toks) |-> E!Chain(toks, ops, next, i)]
EqualityOf(toks, ctx, next) == ChainOf(toks, E!Levels.equality, UnaryOf(toks, ctx, next))
AndOf(toks, ctx, next) == ChainOf(toks, E!Levels.and, EqualityOf(toks, ctx, next))
OrOf(toks, ctx, next) == ChainOf(toks, E!Levels.or, AndOf(toks, ctx, next))
Failing(toks) == [i \in Span(toks) |-> E!Error]

(* The three recursions: of what, where it begins, and one turn of it.     *)
Outset(r) == CASE r.of = "phrases" -> {}
               [] r.of = "chain"   -> r.next[r.i]
               [] r.of = "calls"   -> [unary |-> Failing(r.toks), or |-> Failing(r.toks)]
NextRound(r, x) == CASE r.of = "phrases" -> Formed(r.toks, r.ctx, x)
                  [] r.of = "chain"   -> Linked(r.toks, r.ops, r.next, x)
                  [] r.of = "calls"   -> [unary |-> UnaryOf(r.toks, r.ctx, x), or |-> OrOf(r.toks, r.ctx, x)]
Unrolled(F, r, m) == F = [k \in 0..m |-> IF k = 0 THEN Outset(r) ELSE NextRound(r, F[k - 1])]

LEMMA UnrolledExists ==
  ASSUME NEW r, NEW m \in Nat
  PROVE  \E F : Unrolled(F, r, m)
<1>. DEFINE P == {k \in Nat : ~ \E F : Unrolled(F, r, k)}
<1>. SUFFICES ASSUME P # {} PROVE FALSE
  OBVIOUS
<1>1. PICK k \in P : \A y \in P : ~ (y < k)
  BY LeastOfNat, Zenon
<1>2. CASE k = 0
  <2>. DEFINE F == [d \in 0..0 |-> Outset(r)]
              G == [d \in 0..k |-> IF d = 0 THEN Outset(r) ELSE NextRound(r, F[d - 1])]
  <2>1. F = G
    BY <1>2
  <2>2. Unrolled(F, r, k)
    <3>. HIDE DEF F
    <3>. QED  BY <2>1 DEF Unrolled
  <2>. QED  BY <2>2
<1>3. CASE k # 0
  <2>1. k - 1 \in Nat /\ k - 1 \notin P
    BY <1>1, <1>3
  <2>2. PICK E_ : Unrolled(E_, r, k - 1)
    BY <2>1
  <2>3. \A d \in 0..k - 1 : E_[d] = IF d = 0 THEN Outset(r) ELSE NextRound(r, E_[d - 1])
    <3>1. E_ = [d \in 0..k - 1 |-> IF d = 0 THEN Outset(r) ELSE NextRound(r, E_[d - 1])]
      BY <2>2 DEF Unrolled
    <3>. DEFINE H == [d \in 0..k - 1 |-> IF d = 0 THEN Outset(r) ELSE NextRound(r, E_[d - 1])]
    <3>2. \A d \in 0..k - 1 : H[d] = IF d = 0 THEN Outset(r) ELSE NextRound(r, E_[d - 1])
      OBVIOUS
    <3>3. E_ = H
      BY <3>1
    <3>. HIDE DEF H
    <3>. QED  BY <3>2, <3>3
  <2>. DEFINE F == [d \in 0..k |-> IF d = k THEN NextRound(r, E_[k - 1]) ELSE E_[d]]
              G == [d \in 0..k |-> IF d = 0 THEN Outset(r) ELSE NextRound(r, F[d - 1])]
  <2>4. ASSUME NEW d \in 0..k PROVE F[d] = IF d = 0 THEN Outset(r) ELSE NextRound(r, F[d - 1])
    <3>0. k \in Nat
      OBVIOUS
    <3>1. CASE d = 0
      <4>1. F[d] = E_[0] /\ 0 \in 0..k - 1
        BY <1>3, <2>1, <3>1
      <4>. HIDE DEF F
      <4>. QED  BY <2>3, <3>1, <4>1
    <3>2. CASE d # 0
      <4>1. d - 1 \in 0..k /\ d - 1 # k /\ F[d - 1] = E_[d - 1]
        BY <3>0, <3>2
      <4>2. CASE d = k
        <5>1. F[d] = NextRound(r, E_[k - 1])
          BY <4>2
        <5>. HIDE DEF F
        <5>. QED  BY <3>2, <4>1, <4>2, <5>1
      <4>3. CASE d # k
        <5>1. d \in 0..k - 1 /\ F[d] = E_[d]
          BY <4>3
        <5>. HIDE DEF F
        <5>. QED  BY <2>3, <3>2, <4>1, <5>1
      <4>. QED  BY <4>2, <4>3
    <3>. QED  BY <3>1, <3>2
  <2>5. F = G
    <3>1. \A d \in 0..k : F[d] = G[d]
      BY <2>4
    <3>. QED  BY <3>1
  <2>6. Unrolled(F, r, k)
    <3>. HIDE DEF F
    <3>. QED  BY <2>5 DEF Unrolled
  <2>. QED  BY <1>1, <2>6
<1>. QED  BY <1>2, <1>3

(* What can be said of the one that CHOOSE finds.                          *)
LEMMA UnrolledFacts ==
  ASSUME NEW r, NEW m \in Nat, NEW F, F = CHOOSE G : Unrolled(G, r, m)
  PROVE  F[0] = Outset(r) /\ \A k \in 1..m : F[k] = NextRound(r, F[k - 1])
<1>1. Unrolled(F, r, m)
  BY UnrolledExists
<1>. DEFINE H == [k \in 0..m |-> IF k = 0 THEN Outset(r) ELSE NextRound(r, F[k - 1])]
<1>2. H[0] = Outset(r) /\ \A k \in 1..m : H[k] = NextRound(r, F[k - 1])
  OBVIOUS
<1>3. F = H
  BY <1>1 DEF Unrolled
<1>. HIDE DEF H
<1>. QED  BY <1>2, <1>3

LEMMA PhrasesIs ==
  ASSUME NEW toks, NEW ctx
  PROVE  E!Phrases(toks, ctx)
           = (CHOOSE F : F = [n \in 0..Len(toks) |-> IF n = 0 THEN {} ELSE Formed(toks, ctx, F[n - 1])])[Len(toks)]
BY DEF E!Phrases, Formed

LEMMA ChainIs ==
  ASSUME NEW toks, NEW ops, NEW next, NEW i
  PROVE  E!Chain(toks, ops, next, i)
           = (CHOOSE F : F = [n \in 0..Len(toks) |-> IF n = 0 THEN next[i] ELSE Linked(toks, ops, next, F[n - 1])])[Len(toks)]
BY DEF E!Chain, Linked

LEMMA ParserIs ==
  ASSUME NEW toks, NEW ctx
  PROVE  E!Parser(toks, ctx)
           = (CHOOSE F : F = [d \in 0..Len(toks) + 1 |->
                IF d = 0 THEN [unary |-> Failing(toks), or |-> Failing(toks)]
                ELSE [unary |-> UnaryOf(toks, ctx, F[d - 1]), or |-> OrOf(toks, ctx, F[d - 1])]])[Len(toks) + 1].or[1]
BY DEF E!Parser, Failing, UnaryOf, OrOf, AndOf, EqualityOf, ChainOf, Span
------------------------------------------------------------------------------
(* The phrases of a sequence of tokens                                     *)

IsAtom(toks, ctx, p) == p \in E!Literals(toks) \/ p \in E!Paths(toks, ctx) \/ p \in E!Functions(toks, ctx)
IsBracket(toks, p, q) ==
  /\ p = E!Phrase(0, q.from - 1, q.to + 1, q.v)
  /\ E!Kind(toks, q.from - 1) = "lparen" /\ E!Kind(toks, q.to) = "rparen"
IsNegation(toks, p, q) ==
  /\ p = E!Phrase(1, q.from - 1, q.to, E!Str(~ E!Truthy(q.v)))
  /\ q.level <= 1 /\ E!At(toks, q.from - 1) = E!Op("!")
IsJoin(toks, p, l, r) ==
  /\ p = E!Phrase(E!Strength(E!At(toks, l.to)), l.from, r.to, E!Apply(E!At(toks, l.to), l.v, r.v))
  /\ r.from = l.to + 1 /\ l.level <= E!Strength(E!At(toks, l.to)) /\ r.level < E!Strength(E!At(toks, l.to))

LEMMA FormedCases ==
  ASSUME NEW toks, NEW ctx, NEW S, NEW p
  PROVE  p \in Formed(toks, ctx, S)
           <=> \/ IsAtom(toks, ctx, p)
               \/ \E q \in S : IsBracket(toks, p, q)
               \/ \E q \in S : IsNegation(toks, p, q)
               \/ \E l, r \in S : IsJoin(toks, p, l, r)
<1>1. p \in E!Bracketed(toks, S) <=> \E q \in S : IsBracket(toks, p, q)
  BY DEF E!Bracketed, IsBracket
<1>2. p \in E!Negated(toks, S) <=> \E q \in S : IsNegation(toks, p, q)
  BY DEF E!Negated, IsNegation
<1>3. p \in E!Joined(toks, S) <=> \E l, r \in S : IsJoin(toks, p, l, r)
  BY DEF E!Joined, IsJoin
<1>. QED  BY <1>1, <1>2, <1>3 DEF Formed, IsAtom

(* A phrase has a place among the tokens.                                  *)
Spanned(toks, p) ==
  /\ p = E!Phrase(p.level, p.from, p.to, p.v)
  /\ p.level \in 0..4 /\ p.from \in 1..Len(toks) /\ p.to \in 2..Len(toks) + 1 /\ p.from < p.to

LEMMA PhraseFields ==
  ASSUME NEW a, NEW b, NEW c, NEW v
  PROVE  /\ E!Phrase(a, b, c, v).level = a /\ E!Phrase(a, b, c, v).from = b
         /\ E!Phrase(a, b, c, v).to = c /\ E!Phrase(a, b, c, v).v = v
BY DEF E!Phrase

LEMMA AtFacts ==
  ASSUME NEW toks, IsSequence(toks)
  PROVE  /\ Len(toks) \in Nat /\ DOMAIN toks = 1..Len(toks)
         /\ \A i \in 1..Len(toks) : E!At(toks, i) = toks[i]
         /\ \A i : i \notin 1..Len(toks) => E!At(toks, i) = <<"eof", "">> /\ E!Kind(toks, i) = "eof"
<1>1. Len(toks) \in Nat /\ DOMAIN toks = 1..Len(toks)
  BY SequenceFacts
<1>. QED  BY <1>1 DEF E!At, E!Kind

(* The places of a phrase are numbers.                                     *)
LEMMA SpannedFacts ==
  ASSUME NEW toks, IsSequence(toks), NEW p, Spanned(toks, p)
  PROVE  /\ p.level \in 0..4 /\ p.from \in Nat /\ p.to \in Nat /\ Len(toks) \in Nat
         /\ 1 <= p.from /\ p.from < p.to /\ p.to <= Len(toks) + 1 /\ p.from <= Len(toks)
<1>. DEFINE n == Len(toks)
<1>1. n \in Nat
  BY SequenceFacts
<1>2. p.level \in 0..4 /\ p.from \in 1..n /\ p.to \in 2..n + 1 /\ p.from < p.to
  BY DEF Spanned
<1>. HIDE DEF n
<1>3. /\ p.level \in 0..4 /\ p.from \in Nat /\ p.to \in Nat /\ n \in Nat
      /\ 1 <= p.from /\ p.from < p.to /\ p.to <= n + 1 /\ p.from <= n
  BY <1>1, <1>2
<1>. QED  BY <1>3 DEF n

(* Operators are all different, and have a strength or none.               *)
LEMMA StrengthFacts ==
  ASSUME NEW t
  PROVE  /\ E!Strength(t) \in {0, 2, 3, 4}
         /\ E!Strength(t) = 4 <=> t = E!Op("||")
         /\ E!Strength(t) = 3 <=> t = E!Op("&&")
         /\ E!Strength(t) = 2 <=> t \in {E!Op("=="), E!Op("!=")}
         /\ E!Strength(t) # 0 => t[1] = "op" /\ t # E!Op(".") /\ t # E!Op("!")
BY DEF E!Strength, E!Op

LEMMA AtomSpanned ==
  ASSUME NEW toks, IsSequence(toks), NEW ctx, NEW p, IsAtom(toks, ctx, p)
  PROVE  Spanned(toks, p) /\ p.level = 0
<1>. DEFINE n == Len(toks)
<1>0. n \in Nat /\ DOMAIN toks = 1..n /\ 0 \in 0..4
  BY SequenceFacts
<1>00. \A i : E!Kind(toks, i) # "eof" => i \in 1..n
  BY AtFacts
<1>9. n = Len(toks)
  OBVIOUS
<1>. HIDE DEF n
<1>1. CASE p \in E!Literals(toks)
  <2>1. PICK i \in 1..n : p = E!Phrase(0, i, i + 1, toks[i][2])
    BY <1>0, <1>1 DEF E!Literals
  <2>. DEFINE b == i + 1
  <2>2. b \in 2..n + 1 /\ i < b /\ p = E!Phrase(0, i, b, toks[i][2])
    BY <1>0, <2>1
  <2>. HIDE DEF b
  <2>3. p.level = 0 /\ p.from = i /\ p.to = b /\ p.v = toks[i][2]
    BY <2>2, PhraseFields
  <2>. QED  BY <1>0, <1>9, <2>1, <2>2, <2>3 DEF Spanned
<1>2. CASE p \in E!Paths(toks, ctx)
  <2>1. PICK i \in DOMAIN toks, d \in 0..Len(toks) :
          p = E!Phrase(0, i, i + 2 * d + 1, E!LookUp(ctx, E!Names(toks, i, d))) /\ E!IsPath(toks, i, d)
    BY <1>2 DEF E!Paths
  <2>2. d \in Nat /\ i \in 1..n /\ d \in 0..d
    BY <1>0, <2>1 DEF n
  <2>3. E!Kind(toks, i + 2 * d) = "ident"
    BY <2>1, <2>2 DEF E!IsPath
  <2>4. i + 2 * d \in 1..n
    BY <1>00, <2>3
  <2>. DEFINE b == i + 2 * d + 1
  <2>5. b \in 2..n + 1 /\ i < b
    BY <1>0, <2>2, <2>4
  <2>6. p = E!Phrase(0, i, b, E!LookUp(ctx, E!Names(toks, i, d)))
    BY <2>1
  <2>. HIDE DEF b
  <2>7. p.level = 0 /\ p.from = i /\ p.to = b /\ p.v = E!LookUp(ctx, E!Names(toks, i, d))
    BY <2>6, PhraseFields
  <2>. QED  BY <1>0, <1>9, <2>2, <2>5, <2>6, <2>7 DEF Spanned
<1>3. CASE p \in E!Functions(toks, ctx)
  <2>1. PICK i \in 1..n : E!Kind(toks, i + 2) = "rparen" /\ \E v : p = E!Phrase(0, i, i + 3, v)
    BY <1>0, <1>3 DEF E!Functions
  <2>2. PICK v : p = E!Phrase(0, i, i + 3, v)
    BY <2>1
  <2>3. i + 2 \in 1..n
    BY <1>00, <2>1
  <2>. DEFINE b == i + 3
  <2>4. b \in 2..n + 1 /\ i < b /\ p = E!Phrase(0, i, b, v)
    BY <1>0, <2>2, <2>3
  <2>. HIDE DEF b
  <2>5. p.level = 0 /\ p.from = i /\ p.to = b /\ p.v = v
    BY <2>4, PhraseFields
  <2>. QED  BY <1>0, <1>9, <2>1, <2>4, <2>5 DEF Spanned
<1>. QED  BY <1>1, <1>2, <1>3 DEF IsAtom

(* A phrase is longer than those that it is made of.                       *)
LEMMA PartsShorter ==
  ASSUME NEW toks, IsSequence(toks), NEW p
  PROVE  /\ \A q : Spanned(toks, q) /\ (IsBracket(toks, p, q) \/ IsNegation(toks, p, q))
                     => Spanned(toks, p) /\ q.to - q.from < p.to - p.from
         /\ \A l, r : Spanned(toks, l) /\ Spanned(toks, r) /\ IsJoin(toks, p, l, r)
                        => Spanned(toks, p) /\ l.to - l.from < p.to - p.from /\ r.to - r.from < p.to - p.from
<1>. DEFINE n == Len(toks)
<1>0. n \in Nat /\ 0 \in 0..4 /\ 1 \in 0..4
  BY SequenceFacts
<1>00. \A i : E!Kind(toks, i) # "eof" \/ E!At(toks, i) = E!Op("!") => i \in 1..n
  <2>1. E!Op("!") # <<"eof", "">>
    BY DEF E!Op
  <2>. QED  BY <2>1, AtFacts
<1>9. n = Len(toks)
  OBVIOUS
<1>. HIDE DEF n
<1>1. ASSUME NEW q, Spanned(toks, q), IsBracket(toks, p, q)
      PROVE  Spanned(toks, p) /\ q.to - q.from < p.to - p.from
  <2>. DEFINE a == q.from
              b == q.to
              v == q.v
  <2>0. a \in Nat /\ b \in Nat /\ a < b
    BY <1>1, SpannedFacts
  <2>1. a - 1 \in 1..n /\ b \in 1..n /\ p = E!Phrase(0, a - 1, b + 1, v)
    BY <1>1, <1>00 DEF IsBracket
  <2>. HIDE DEF a, b, v
  <2>2. b + 1 \in 2..n + 1 /\ a - 1 < b + 1 /\ b - a < (b + 1) - (a - 1)
    BY <1>0, <2>0, <2>1
  <2>3. Spanned(toks, p) /\ p.from = a - 1 /\ p.to = b + 1
    <3>. DEFINE c == a - 1
                d == b + 1
    <3>1. c \in 1..n /\ d \in 2..n + 1 /\ c < d /\ p = E!Phrase(0, c, d, v)
      BY <2>1, <2>2
    <3>. HIDE DEF c, d
    <3>2. Spanned(toks, p) /\ p.from = c /\ p.to = d
      <4>1. p.level = 0 /\ p.from = c /\ p.to = d /\ p.v = v
        BY <3>1, PhraseFields
      <4>. QED  BY <1>0, <1>9, <3>1, <4>1 DEF Spanned
    <3>. QED  BY <3>2 DEF c, d
  <2>. QED  BY <2>2, <2>3 DEF a, b
<1>2. ASSUME NEW q, Spanned(toks, q), IsNegation(toks, p, q)
      PROVE  Spanned(toks, p) /\ q.to - q.from < p.to - p.from
  <2>. DEFINE a == q.from
              b == q.to
              v == E!Str(~ E!Truthy(q.v))
  <2>0. a \in Nat /\ b \in Nat /\ a < b /\ b <= n + 1
    BY <1>2, SpannedFacts DEF n
  <2>1. a - 1 \in 1..n /\ p = E!Phrase(1, a - 1, b, v)
    BY <1>2, <1>00 DEF IsNegation
  <2>. HIDE DEF a, b, v
  <2>2. b \in 2..n + 1 /\ a - 1 < b /\ b - a < b - (a - 1)
    BY <1>0, <2>0, <2>1
  <2>3. Spanned(toks, p) /\ p.from = a - 1 /\ p.to = b
    <3>. DEFINE c == a - 1
    <3>1. c \in 1..n /\ c < b /\ p = E!Phrase(1, c, b, v)
      BY <2>1, <2>2
    <3>. HIDE DEF c
    <3>2. Spanned(toks, p) /\ p.from = c /\ p.to = b
      <4>1. p.level = 1 /\ p.from = c /\ p.to = b /\ p.v = v
        BY <3>1, PhraseFields
      <4>. QED  BY <1>0, <1>9, <2>2, <3>1, <4>1 DEF Spanned
    <3>. QED  BY <3>2 DEF c
  <2>. QED  BY <2>2, <2>3 DEF a, b
<1>3. ASSUME NEW l, NEW r, Spanned(toks, l), Spanned(toks, r), IsJoin(toks, p, l, r)
      PROVE  Spanned(toks, p) /\ l.to - l.from < p.to - p.from /\ r.to - r.from < p.to - p.from
  <2>. DEFINE s == E!Strength(E!At(toks, l.to))
              a == l.from
              m == l.to
              b == r.to
              v == E!Apply(E!At(toks, l.to), l.v, r.v)
  <2>1. s \in 0..4
    BY StrengthFacts
  <2>2. p = E!Phrase(s, a, b, v) /\ r.from = m + 1
    BY <1>3 DEF IsJoin
  <2>3. a \in Nat /\ m \in Nat /\ b \in Nat /\ 1 <= a /\ a <= n /\ a < m /\ b <= n + 1
    BY <1>3, SpannedFacts DEF n
  <2>4. r.from < r.to
    BY <1>3, SpannedFacts
  <2>. HIDE DEF s, a, m, b, v
  <2>5. m + 1 < b
    BY <2>2, <2>4 DEF b
  <2>6. a \in 1..n /\ b \in 2..n + 1 /\ a < b /\ m - a < b - a /\ b - (m + 1) < b - a
    BY <1>0, <2>3, <2>5
  <2>7. Spanned(toks, p) /\ p.from = a /\ p.to = b
    <3>1. p.level = s /\ p.from = a /\ p.to = b /\ p.v = v
      BY <2>2, PhraseFields
    <3>. QED  BY <1>9, <2>1, <2>2, <2>6, <3>1 DEF Spanned
  <2>. QED  BY <2>2, <2>6, <2>7 DEF a, b, m
<1>. QED  BY <1>1, <1>2, <1>3
LEMMA FormedFacts ==
  ASSUME NEW toks, IsSequence(toks), NEW ctx, NEW S, \A q \in S : Spanned(toks, q), NEW p \in Formed(toks, ctx, S)
  PROVE  /\ Spanned(toks, p)
         /\ p \in Formed(toks, ctx, {q \in S : q.to - q.from < p.to - p.from})
<1>. DEFINE T == {q \in S : q.to - q.from < p.to - p.from}
<1>1. CASE IsAtom(toks, ctx, p)
  <2>1. Spanned(toks, p)
    BY <1>1, AtomSpanned
  <2>. HIDE DEF T
  <2>2. p \in Formed(toks, ctx, T)
    BY <1>1, FormedCases
  <2>. QED  BY <2>1, <2>2 DEF T
<1>2. CASE \E q \in S : IsBracket(toks, p, q) \/ IsNegation(toks, p, q)
  <2>1. PICK q \in S : IsBracket(toks, p, q) \/ IsNegation(toks, p, q)
    BY <1>2
  <2>2. Spanned(toks, p) /\ q \in T
    BY <2>1, PartsShorter
  <2>. HIDE DEF T
  <2>3. p \in Formed(toks, ctx, T)
    BY <2>1, <2>2, FormedCases
  <2>. QED  BY <2>2, <2>3 DEF T
<1>3. CASE \E l, r \in S : IsJoin(toks, p, l, r)
  <2>1. PICK l \in S, r \in S : IsJoin(toks, p, l, r)
    BY <1>3
  <2>2. Spanned(toks, p) /\ l \in T /\ r \in T
    BY <2>1, PartsShorter
  <2>. HIDE DEF T
  <2>3. p \in Formed(toks, ctx, T)
    BY <2>1, <2>2, FormedCases
  <2>. QED  BY <2>2, <2>3 DEF T
<1>. QED  BY <1>1, <1>2, <1>3, FormedCases

LEMMA FormedMonotone ==
  ASSUME NEW toks, NEW ctx, NEW S, NEW T, S \subseteq T
  PROVE  Formed(toks, ctx, S) \subseteq Formed(toks, ctx, T)
<1>. SUFFICES ASSUME NEW p \in Formed(toks, ctx, S) PROVE p \in Formed(toks, ctx, T)
  OBVIOUS
<1>. QED  BY FormedCases

(* The phrases are the least set that holds whatever is formed from it.    *)
LEMMA PhrasesFacts ==
  ASSUME NEW toks, IsSequence(toks), NEW ctx
  PROVE  /\ \A p \in E!Phrases(toks, ctx) : Spanned(toks, p)
         /\ E!Phrases(toks, ctx) = Formed(toks, ctx, E!Phrases(toks, ctx))
<1>. DEFINE n == Len(toks)
            F == CHOOSE G : G = [k \in 0..Len(toks) |-> IF k = 0 THEN {} ELSE Formed(toks, ctx, G[k - 1])]
            run == [of |-> "phrases", toks |-> toks, ctx |-> ctx]
<1>0. n \in Nat /\ E!Phrases(toks, ctx) = F[n]
  BY SequenceFacts, PhrasesIs
<1>1. F[0] = {} /\ \A k \in 1..n : F[k] = Formed(toks, ctx, F[k - 1])
  <2>1. Outset(run) = {} /\ \A x : NextRound(run, x) = Formed(toks, ctx, x)
    BY DEF Outset, NextRound
  <2>. HIDE DEF run
  <2>2. \A G : Unrolled(G, run, n) <=> G = [k \in 0..Len(toks) |-> IF k = 0 THEN {} ELSE Formed(toks, ctx, G[k - 1])]
    BY <2>1 DEF Unrolled
  <2>3. F = CHOOSE G : Unrolled(G, run, n)
    BY <2>2
  <2>. HIDE DEF F, n
  <2>. QED  BY <1>0, <2>1, <2>3, UnrolledFacts
<1>9. n = Len(toks)
  OBVIOUS
<1>. HIDE DEF F, n
<1>2. \A k \in 0..n : \A p \in F[k] : Spanned(toks, p)
  <2>. DEFINE P == {k \in 0..n : \A p \in F[k] : Spanned(toks, p)}
  <2>1. 0 \in P
    BY <1>0, <1>1
  <2>2. ASSUME NEW k \in 1..n, k - 1 \in P PROVE k \in P
    <3>1. \A p \in Formed(toks, ctx, F[k - 1]) : Spanned(toks, p)
      BY <2>2, FormedFacts
    <3>. QED  BY <1>0, <1>1, <3>1
  <2>3. \A k \in 0..n : k \in P
    <3>. HIDE DEF P
    <3>. QED  BY <1>0, <2>1, <2>2, InductionTo
  <2>. QED  BY <2>3
<1>3. \A k \in 1..n : F[k - 1] \subseteq F[k]
  <2>. DEFINE P == {k \in 0..n : k # 0 => F[k - 1] \subseteq F[k]}
  <2>1. 0 \in P
    BY <1>0
  <2>2. ASSUME NEW k \in 1..n, k - 1 \in P PROVE k \in P
    <3>0. k \in 0..n /\ (k # 1 => k - 1 \in 1..n)
      BY <1>0
    <3>1. CASE k = 1
      BY <1>1, <3>0, <3>1
    <3>2. CASE k # 1
      <4>1. F[k - 1 - 1] \subseteq F[k - 1]
        BY <2>2, <3>0, <3>2
      <4>2. Formed(toks, ctx, F[k - 1 - 1]) \subseteq Formed(toks, ctx, F[k - 1])
        BY <4>1, FormedMonotone
      <4>. QED  BY <1>1, <3>0, <3>2, <4>2
    <3>. QED  BY <3>1, <3>2
  <2>3. \A k \in 0..n : k \in P
    <3>. HIDE DEF P
    <3>. QED  BY <1>0, <2>1, <2>2, InductionTo
  <2>. QED  BY <1>0, <2>3
<1>4. \A k \in 0..n : \A j \in 0..k : F[j] \subseteq F[k]
  <2>. DEFINE P == {k \in 0..n : \A j \in 0..k : F[j] \subseteq F[k]}
  <2>1. 0 \in P
    BY <1>0
  <2>2. ASSUME NEW k \in 1..n, k - 1 \in P PROVE k \in P
    <3>1. \A j \in 0..k : j = k \/ j \in 0..k - 1
      BY <1>0
    <3>2. F[k - 1] \subseteq F[k] /\ k \in 0..n
      BY <1>0, <1>3
    <3>. QED  BY <2>2, <3>1, <3>2
  <2>3. \A k \in 0..n : k \in P
    <3>. HIDE DEF P
    <3>. QED  BY <1>0, <2>1, <2>2, InductionTo
  <2>. QED  BY <2>3
<1>5. ASSUME NEW S, \A q \in S : Spanned(toks, q) /\ q \in F[q.to - q.from], NEW p \in Formed(toks, ctx, S)
      PROVE  p.to - p.from \in 1..n /\ p \in F[p.to - p.from]
  <2>. DEFINE r == p.to - p.from
              T == {q \in S : q.to - q.from < p.to - p.from}
  <2>1. Spanned(toks, p) /\ p \in Formed(toks, ctx, T)
    BY <1>5, FormedFacts
  <2>2. r \in 1..n
    BY <1>9, <2>1, SpannedFacts
  <2>3. T \subseteq F[r - 1]
    <3>. SUFFICES ASSUME NEW q \in T PROVE q \in F[r - 1]
      OBVIOUS
    <3>1. q.to - q.from < r /\ Spanned(toks, q) /\ q \in F[q.to - q.from]
      BY <1>5
    <3>2. q.to - q.from \in 0..r - 1 /\ r - 1 \in 0..n
      BY <1>0, <2>2, <3>1, SpannedFacts
    <3>. HIDE DEF r, T
    <3>. QED  BY <1>4, <3>1, <3>2
  <2>. HIDE DEF r, T
  <2>4. p \in Formed(toks, ctx, F[r - 1])
    BY <2>1, <2>3, FormedMonotone
  <2>5. p \in F[r]
    BY <1>1, <2>2, <2>4
  <2>. QED  BY <2>2, <2>5 DEF r
<1>6. \A k \in 0..n : \A p \in F[k] : p \in F[p.to - p.from]
  <2>. DEFINE P == {k \in 0..n : \A p \in F[k] : p \in F[p.to - p.from]}
  <2>1. 0 \in P
    BY <1>0, <1>1
  <2>2. ASSUME NEW k \in 1..n, k - 1 \in P PROVE k \in P
    <3>1. k \in 0..n /\ k - 1 \in 0..n
      BY <1>0
    <3>2. \A q \in F[k - 1] : Spanned(toks, q) /\ q \in F[q.to - q.from]
      BY <1>2, <2>2, <3>1
    <3>3. \A p \in Formed(toks, ctx, F[k - 1]) : p \in F[p.to - p.from]
      BY <1>5, <3>2
    <3>. QED  BY <1>1, <3>1, <3>3
  <2>3. \A k \in 0..n : k \in P
    <3>. HIDE DEF P
    <3>. QED  BY <1>0, <2>1, <2>2, InductionTo
  <2>. QED  BY <2>3
<1>7. n \in 0..n
  BY <1>0
<1>8. F[n] \subseteq Formed(toks, ctx, F[n])
  <2>1. CASE n = 0
    BY <1>1, <2>1
  <2>2. CASE n # 0
    <3>1. n \in 1..n
      BY <1>0, <2>2
    <3>2. Formed(toks, ctx, F[n - 1]) \subseteq Formed(toks, ctx, F[n])
      BY <1>3, <3>1, FormedMonotone
    <3>. QED  BY <1>1, <3>1, <3>2
  <2>. QED  BY <2>1, <2>2
<1>10. Formed(toks, ctx, F[n]) \subseteq F[n]
  <2>. SUFFICES ASSUME NEW p \in Formed(toks, ctx, F[n]) PROVE p \in F[n]
    OBVIOUS
  <2>1. \A q \in F[n] : Spanned(toks, q) /\ q \in F[q.to - q.from]
    BY <1>2, <1>6, <1>7
  <2>2. p.to - p.from \in 1..n /\ p \in F[p.to - p.from]
    BY <1>5, <2>1
  <2>. DEFINE r == p.to - p.from
  <2>3. r \in 0..n /\ p \in F[r]
    BY <1>0, <2>2
  <2>. HIDE DEF r
  <2>. QED  BY <1>4, <1>7, <2>3
<1>. QED  BY <1>0, <1>2, <1>7, <1>8, <1>10
------------------------------------------------------------------------------
(* The parser makes phrases                                                *)

LEMMA ValueFacts ==
  /\ E!Error.ok = FALSE
  /\ \A v, k : E!Value(v, k).ok = TRUE /\ E!Value(v, k).v = v /\ E!Value(v, k).pos = k
BY DEF E!Error, E!Value

LEMMA PathFacts ==
  ASSUME NEW toks, IsSequence(toks), NEW ctx, NEW i \in 1..Len(toks),
         E!Kind(toks, i) = "ident", E!At(toks, i)[2] \notin {"true", "false"}
  PROVE  /\ E!Path(toks, ctx, i).ok
              => E!Phrase(0, i, E!Path(toks, ctx, i).pos, E!Path(toks, ctx, i).v) \in E!Paths(toks, ctx)
         /\ \A d \in 0..Len(toks) : E!IsPath(toks, i, d) /\ E!At(toks, i + 2 * d + 1) # E!Op(".") =>
              E!Path(toks, ctx, i) = E!Value(E!LookUp(ctx, E!Names(toks, i, d)), i + 2 * d + 1)
<1>. DEFINE DotAt(m) == E!At(toks, i + 2 * m + 1) = E!Op(".")
            NoMore(m) == ~ DotAt(m) /\ \A k \in 0..m - 1 : DotAt(k)
            n == Len(toks)
            dots == CHOOSE m \in 0..n : NoMore(m)
            path == E!Path(toks, ctx, i)
<1>0. n \in Nat /\ DOMAIN toks = 1..n /\ i \in Nat
  BY SequenceFacts
<1>1. path = IF \A m \in 1..dots : E!Kind(toks, i + 2 * m) = "ident"
               THEN E!Value(E!LookUp(ctx, E!Names(toks, i, dots)), i + 2 * dots + 1) ELSE E!Error
  BY DEF E!Path
<1>2. dots \in 0..n /\ NoMore(dots)
  <2>. DEFINE P == {m \in 0..n : ~ DotAt(m)}
  <2>1. n \in P
    <3>1. i + 2 * n + 1 \notin 1..n
      BY <1>0
    <3>2. E!Op(".") # <<"eof", "">>
      BY DEF E!Op
    <3>3. ~ DotAt(n)
      BY <3>1, <3>2, AtFacts
    <3>. HIDE DEF DotAt, n
    <3>. QED  BY <1>0, <3>3
  <2>. HIDE DEF DotAt, n
  <2>2. PICK m \in P : \A y \in P : ~ (y < m)
    <3>1. P \in SUBSET Nat /\ P # {}
      BY <1>0, <2>1
    <3>. HIDE DEF P
    <3>. QED  BY <3>1, LeastOfNat, Zenon
  <2>3. NoMore(m) /\ m \in 0..n
    BY <1>0, <2>2
  <2>. HIDE DEF NoMore
  <2>. QED  BY <2>3 DEF dots
<1>. HIDE DEF n, path
<1>3. ASSUME path.ok PROVE E!Phrase(0, i, path.pos, path.v) \in E!Paths(toks, ctx)
  <2>1. /\ \A m \in 1..dots : E!Kind(toks, i + 2 * m) = "ident"
        /\ path = E!Value(E!LookUp(ctx, E!Names(toks, i, dots)), i + 2 * dots + 1)
    <3>. HIDE DEF dots
    <3>. QED  BY <1>1, <1>3, ValueFacts
  <2>2. path.pos = i + 2 * dots + 1 /\ path.v = E!LookUp(ctx, E!Names(toks, i, dots))
    <3>. HIDE DEF dots
    <3>. QED  BY <2>1, ValueFacts
  <2>. HIDE DEF dots
  <2>3. E!IsPath(toks, i, dots)
    <3>1. \A m \in 0..dots : E!Kind(toks, i + 2 * m) = "ident"
      <4>. SUFFICES ASSUME NEW m \in 0..dots PROVE E!Kind(toks, i + 2 * m) = "ident"
        OBVIOUS
      <4>1. CASE m = 0
        <5>1. i + 2 * m = i
          BY <1>0, <4>1
        <5>. QED  BY <5>1
      <4>2. CASE m # 0
        BY <1>2, <2>1, <4>2
      <4>. QED  BY <4>1, <4>2
    <3>2. \A m \in 1..dots : E!At(toks, i + 2 * m - 1) = E!Op(".")
      <4>. SUFFICES ASSUME NEW m \in 1..dots PROVE E!At(toks, i + 2 * m - 1) = E!Op(".")
        OBVIOUS
      <4>1. m - 1 \in 0..dots - 1 /\ i + 2 * (m - 1) + 1 = i + 2 * m - 1
        BY <1>0, <1>2
      <4>2. DotAt(m - 1)
        <5>. HIDE DEF DotAt
        <5>. QED  BY <1>2, <4>1
      <4>. QED  BY <4>1, <4>2
    <3>3. ~ E!Named(toks, i, {"true", "false"})
      BY DEF E!Named
    <3>. QED  BY <3>1, <3>2, <3>3 DEF E!IsPath
  <2>. QED  BY <1>0, <1>2, <2>2, <2>3 DEF E!Paths, n
<1>4. ASSUME NEW d \in 0..n, E!IsPath(toks, i, d), E!At(toks, i + 2 * d + 1) # E!Op(".")
      PROVE  path = E!Value(E!LookUp(ctx, E!Names(toks, i, d)), i + 2 * d + 1)
  <2>1. NoMore(d)
    <3>1. ASSUME NEW k \in 0..d - 1 PROVE DotAt(k)
      <4>1. k + 1 \in 1..d /\ i + 2 * (k + 1) - 1 = i + 2 * k + 1
        BY <1>0
      <4>2. E!At(toks, i + 2 * (k + 1) - 1) = E!Op(".")
        BY <1>4, <4>1 DEF E!IsPath
      <4>. QED  BY <4>1, <4>2
    <3>. QED  BY <1>4, <3>1
  <2>2. dots = d
    <3>. HIDE DEF DotAt, dots
    <3>1. ~ (dots < d)
      BY <1>0, <1>2, <2>1
    <3>2. ~ (d < dots)
      BY <1>0, <1>2, <2>1
    <3>. QED  BY <1>0, <1>2, <3>1, <3>2
  <2>3. \A m \in 1..d : E!Kind(toks, i + 2 * m) = "ident"
    BY <1>4 DEF E!IsPath
  <2>. HIDE DEF dots
  <2>. QED  BY <1>1, <2>2, <2>3
<1>. QED  BY <1>3, <1>4 DEF n, path
(* Whatever a function of the parser returns is a phrase of its level.     *)
MakesPhrases(toks, ctx, level, T) ==
  \A i \in Span(toks) : T[i].ok => \E p \in E!Phrases(toks, ctx) :
                                      p.level <= level /\ p.from = i /\ p.to = T[i].pos /\ p.v = T[i].v

LEMMA PhraseOf ==
  ASSUME NEW toks, IsSequence(toks), NEW ctx
  PROVE  /\ \A p : IsAtom(toks, ctx, p) => p \in E!Phrases(toks, ctx)
         /\ \A p : \A q \in E!Phrases(toks, ctx) :
              IsBracket(toks, p, q) \/ IsNegation(toks, p, q) => p \in E!Phrases(toks, ctx)
         /\ \A p : \A l, r \in E!Phrases(toks, ctx) : IsJoin(toks, p, l, r) => p \in E!Phrases(toks, ctx)
<1>1. E!Phrases(toks, ctx) = Formed(toks, ctx, E!Phrases(toks, ctx))
  BY PhrasesFacts
<1>. QED  BY <1>1, FormedCases

LEMMA PrimaryMakes ==
  ASSUME NEW toks, IsSequence(toks), NEW ctx, NEW next, MakesPhrases(toks, ctx, 4, next.or),
         NEW i \in Span(toks), NEW u, u = E!Primary(toks, ctx, next, i), u.ok
  PROVE  E!Phrase(0, i, u.pos, u.v) \in E!Phrases(toks, ctx)
<1>. DEFINE n == Len(toks)
            p == E!Phrase(0, i, u.pos, u.v)
<1>0. n \in Nat /\ DOMAIN toks = 1..n /\ Span(toks) = 1..n + 1
  BY SequenceFacts DEF Span
<1>1. \A k : E!Kind(toks, k) # "eof" => k \in 1..n
  BY AtFacts
<1>2. \A k \in 1..n : E!At(toks, k) = toks[k]
  BY AtFacts
<1>. HIDE DEF n
<1>3. CASE E!Kind(toks, i) = "lparen"
  <2>. DEFINE r == next.or[i + 1]
  <2>1. u = IF r.ok /\ E!Kind(toks, r.pos) = "rparen" THEN E!Value(r.v, r.pos + 1) ELSE E!Error
    BY <1>3 DEF E!Primary
  <2>2. i \in 1..n /\ i + 1 \in Span(toks) /\ i + 1 - 1 = i
    BY <1>0, <1>1, <1>3
  <2>3. r.ok /\ E!Kind(toks, r.pos) = "rparen" /\ u.pos = r.pos + 1 /\ u.v = r.v
    <3>. HIDE DEF r
    <3>. QED  BY <2>1, ValueFacts
  <2>4. PICK q \in E!Phrases(toks, ctx) : q.from = i + 1 /\ q.to = r.pos /\ q.v = r.v
    BY <2>2, <2>3 DEF MakesPhrases
  <2>. HIDE DEF r
  <2>5. IsBracket(toks, p, q)
    BY <1>3, <2>2, <2>3, <2>4 DEF IsBracket
  <2>. HIDE DEF p
  <2>6. p \in E!Phrases(toks, ctx)
    BY <2>5, PhraseOf
  <2>. QED  BY <2>6 DEF p
<1>4. CASE E!Kind(toks, i) = "string" \/ E!Named(toks, i, {"true", "false"})
  <2>0. E!Named(toks, i, {"true", "false"}) => E!Kind(toks, i) = "ident" /\ E!At(toks, i)[2] \in {"true", "false"}
    BY DEF E!Named
  <2>1. u = E!Value(E!At(toks, i)[2], i + 1)
    BY <1>4, <2>0 DEF E!Primary
  <2>2. i \in 1..n
    BY <1>1, <1>4, <2>0
  <2>3. u.pos = i + 1 /\ u.v = toks[i][2]
    BY <1>2, <2>1, <2>2, ValueFacts
  <2>4. p \in E!Literals(toks)
    BY <1>0, <1>4, <2>2, <2>3 DEF E!Literals
  <2>. HIDE DEF p
  <2>5. p \in E!Phrases(toks, ctx)
    BY <2>4, PhraseOf DEF IsAtom
  <2>. QED  BY <2>5 DEF p
<1>5. CASE E!Kind(toks, i) = "ident" /\ E!At(toks, i)[2] \notin {"true", "false"} /\ E!Kind(toks, i + 1) = "lparen"
  <2>1. u = E!Call(toks, ctx, i)
    BY <1>5 DEF E!Primary
  <2>2. i \in 1..n
    BY <1>1, <1>5
  <2>. DEFINE name == E!At(toks, i)[2]
              value == E!Str(CASE name = "success" -> ctx.success [] name = "failure" -> ctx.failure
                               [] name = "always" -> TRUE)
  <2>3. /\ E!Kind(toks, i + 2) = "rparen" /\ name \in {"success", "failure", "always"}
        /\ u = E!Value(value, i + 3)
    <3>1. E!Str(TRUE) = "true"
      BY DEF E!Str
    <3>2. E!Error.ok = FALSE
      BY ValueFacts
    <3>. QED  BY <2>1, <3>1, <3>2 DEF E!Call
  <2>4. E!Named(toks, i, {"success", "failure", "always"})
    BY <1>5, <2>3 DEF E!Named
  <2>5. u.pos = i + 3 /\ u.v = value
    <3>. HIDE DEF value
    <3>. QED  BY <2>3, ValueFacts
  <2>6. name = toks[i][2]
    BY <1>2, <2>2
  <2>7. p \in E!Functions(toks, ctx)
    BY <1>0, <1>5, <2>2, <2>3, <2>4, <2>5, <2>6 DEF E!Functions
  <2>. HIDE DEF p
  <2>8. p \in E!Phrases(toks, ctx)
    BY <2>7, PhraseOf DEF IsAtom
  <2>. QED  BY <2>8 DEF p
<1>6. CASE E!Kind(toks, i) = "ident" /\ E!At(toks, i)[2] \notin {"true", "false"} /\ E!Kind(toks, i + 1) # "lparen"
  <2>1. u = E!Path(toks, ctx, i)
    BY <1>6 DEF E!Primary
  <2>2. i \in 1..Len(toks)
    BY <1>1, <1>6 DEF n
  <2>3. p \in E!Paths(toks, ctx)
    BY <1>6, <2>1, <2>2, PathFacts
  <2>. HIDE DEF p
  <2>4. p \in E!Phrases(toks, ctx)
    BY <2>3, PhraseOf DEF IsAtom
  <2>. QED  BY <2>4 DEF p
<1>7. CASE E!Kind(toks, i) \notin {"lparen", "string", "ident"}
  <2>1. u = E!Error
    BY <1>7 DEF E!Primary
  <2>. QED  BY <2>1, ValueFacts
<1>. QED  BY <1>3, <1>4, <1>5, <1>6, <1>7 DEF E!Named

LEMMA UnaryMakes ==
  ASSUME NEW toks, IsSequence(toks), NEW ctx, NEW next,
         MakesPhrases(toks, ctx, 1, next.unary), MakesPhrases(toks, ctx, 4, next.or)
  PROVE  MakesPhrases(toks, ctx, 1, UnaryOf(toks, ctx, next))
<1>. SUFFICES ASSUME NEW i \in Span(toks), NEW u, u = E!Unary(toks, ctx, next, i), u.ok
              PROVE  \E p \in E!Phrases(toks, ctx) : p.level <= 1 /\ p.from = i /\ p.to = u.pos /\ p.v = u.v
  BY DEF MakesPhrases, UnaryOf
<1>. DEFINE n == Len(toks)
<1>0. n \in Nat /\ Span(toks) = 1..n + 1
  BY SequenceFacts DEF Span
<1>1. CASE E!At(toks, i) # E!Op("!")
  <2>1. u = E!Primary(toks, ctx, next, i)
    BY <1>1 DEF E!Unary
  <2>2. E!Phrase(0, i, u.pos, u.v) \in E!Phrases(toks, ctx)
    BY <2>1, PrimaryMakes
  <2>. DEFINE p == E!Phrase(0, i, u.pos, u.v)
  <2>3. p.level = 0 /\ p.from = i /\ p.to = u.pos /\ p.v = u.v
    BY PhraseFields
  <2>4. 0 <= 1
    OBVIOUS
  <2>5. p.level <= 1
    BY <2>3
  <2>. QED  BY <2>2, <2>3, <2>5
<1>2. CASE E!At(toks, i) = E!Op("!")
  <2>. DEFINE r == next.unary[i + 1]
  <2>1. u = IF r.ok THEN E!Value(E!Str(~ E!Truthy(r.v)), r.pos) ELSE E!Error
    BY <1>2 DEF E!Unary
  <2>2. i \in 1..n
    <3>1. E!Op("!") # <<"eof", "">>
      BY DEF E!Op
    <3>. QED  BY <1>2, <3>1, AtFacts
  <2>3. i + 1 \in Span(toks) /\ i + 1 - 1 = i
    <3>. HIDE DEF n
    <3>. QED  BY <1>0, <2>2
  <2>4. r.ok /\ u.pos = r.pos /\ u.v = E!Str(~ E!Truthy(r.v))
    <3>. HIDE DEF r
    <3>. QED  BY <2>1, ValueFacts
  <2>5. PICK q \in E!Phrases(toks, ctx) : q.level <= 1 /\ q.from = i + 1 /\ q.to = r.pos /\ q.v = r.v
    BY <2>3, <2>4 DEF MakesPhrases
  <2>. HIDE DEF r
  <2>. DEFINE p == E!Phrase(1, i, r.pos, E!Str(~ E!Truthy(r.v)))
  <2>6. IsNegation(toks, p, q)
    <3>1. q.from - 1 = i
      <4>. HIDE DEF n
      <4>. QED  BY <1>0, <2>2, <2>5
    <3>2. p = E!Phrase(1, q.from - 1, q.to, E!Str(~ E!Truthy(q.v)))
      BY <2>5, <3>1
    <3>. HIDE DEF p
    <3>. QED  BY <1>2, <2>5, <3>1, <3>2 DEF IsNegation
  <2>7. p.level = 1 /\ p.from = i /\ p.to = r.pos /\ p.v = E!Str(~ E!Truthy(r.v))
    BY PhraseFields
  <2>8. p.level <= 1
    BY <2>7
  <2>. HIDE DEF p
  <2>9. p \in E!Phrases(toks, ctx)
    BY <2>6, PhraseOf
  <2>. QED  BY <2>4, <2>7, <2>8, <2>9
<1>. QED  BY <1>1, <1>2
(* The operators of a level of the parser.                                 *)
OpsOf(level) == CASE level = 2 -> E!Levels.equality [] level = 3 -> E!Levels.and [] level = 4 -> E!Levels.or

LEMMA OpsFacts ==
  ASSUME NEW level \in 2..4, NEW t
  PROVE  t \in OpsOf(level) <=> E!Strength(t) = level
<1>1. level = 2 \/ level = 3 \/ level = 4
  OBVIOUS
<1>2. OpsOf(level) = IF level = 2 THEN E!Levels.equality ELSE IF level = 3 THEN E!Levels.and ELSE E!Levels.or
  BY <1>1 DEF OpsOf
<1>3. /\ E!Levels.equality = {E!Op("=="), E!Op("!=")}
      /\ E!Levels.and = {E!Op("&&")} /\ E!Levels.or = {E!Op("||")}
  BY DEF E!Levels
<1>. QED  BY <1>1, <1>2, <1>3, StrengthFacts

(* The loop of a chain.                                                    *)
LEMMA ChainFacts ==
  ASSUME NEW toks, IsSequence(toks), NEW ops, NEW next, NEW i
  PROVE  \E F : /\ E!Chain(toks, ops, next, i) = F[Len(toks)]
                /\ F[0] = next[i]
                /\ \A k \in 1..Len(toks) : F[k] = Linked(toks, ops, next, F[k - 1])
<1>. DEFINE n == Len(toks)
            F == CHOOSE G : G = [k \in 0..Len(toks) |-> IF k = 0 THEN next[i] ELSE Linked(toks, ops, next, G[k - 1])]
            run == [of |-> "chain", toks |-> toks, ops |-> ops, next |-> next, i |-> i]
<1>0. n \in Nat /\ E!Chain(toks, ops, next, i) = F[n]
  BY SequenceFacts, ChainIs
<1>1. Outset(run) = next[i] /\ \A x : NextRound(run, x) = Linked(toks, ops, next, x)
  BY DEF Outset, NextRound
<1>. HIDE DEF run
<1>2. \A G : Unrolled(G, run, n)
               <=> G = [k \in 0..Len(toks) |-> IF k = 0 THEN next[i] ELSE Linked(toks, ops, next, G[k - 1])]
  BY <1>1 DEF Unrolled
<1>3. F = CHOOSE G : Unrolled(G, run, n)
  BY <1>2, ZenonT(40)
<1>4. n = Len(toks)
  OBVIOUS
<1>. HIDE DEF F, n
<1>5. F[0] = Outset(run) /\ \A k \in 1..n : F[k] = NextRound(run, F[k - 1])
  BY <1>0, <1>3, UnrolledFacts
<1>. QED  BY <1>0, <1>1, <1>4, <1>5

LEMMA ChainMakes ==
  ASSUME NEW toks, IsSequence(toks), NEW ctx, NEW level \in 2..4, NEW next,
         MakesPhrases(toks, ctx, level - 1, next)
  PROVE  MakesPhrases(toks, ctx, level, ChainOf(toks, OpsOf(level), next))
<1>. SUFFICES ASSUME NEW i \in Span(toks), E!Chain(toks, OpsOf(level), next, i).ok
              PROVE  \E p \in E!Phrases(toks, ctx) :
                       /\ p.level <= level /\ p.from = i
                       /\ p.to = E!Chain(toks, OpsOf(level), next, i).pos
                       /\ p.v = E!Chain(toks, OpsOf(level), next, i).v
  BY DEF MakesPhrases, ChainOf
<1>. DEFINE n == Len(toks)
            ops == OpsOf(level)
<1>0. n \in Nat /\ Span(toks) = 1..n + 1
  BY SequenceFacts DEF Span
<1>1. PICK F : /\ E!Chain(toks, ops, next, i) = F[n]
               /\ F[0] = next[i] /\ \A k \in 1..n : F[k] = Linked(toks, ops, next, F[k - 1])
  BY ChainFacts
<1>. DEFINE Made(r) == r.ok => \E p \in E!Phrases(toks, ctx) :
                                 p.level <= level /\ p.from = i /\ p.to = r.pos /\ p.v = r.v
            P == {k \in 0..n : Made(F[k])}
<1>9. n = Len(toks)
  OBVIOUS
<1>. HIDE DEF n, ops
<1>2. 0 \in P
  <2>1. ASSUME next[i].ok PROVE Made(next[i])
    <3>1. PICK p \in E!Phrases(toks, ctx) : p.level <= level - 1 /\ p.from = i /\ p.to = next[i].pos /\ p.v = next[i].v
      BY <2>1 DEF MakesPhrases
    <3>2. p.level \in 0..4
      BY PhrasesFacts, SpannedFacts
    <3>3. p.level <= level
      BY <3>1, <3>2
    <3>. QED  BY <3>1, <3>3
  <2>. QED  BY <1>0, <1>1, <2>1
<1>3. ASSUME NEW k \in 1..n, k - 1 \in P PROVE k \in P
  <2>. DEFINE left == F[k - 1]
              op == E!At(toks, left.pos)
              right == next[left.pos + 1]
  <2>1. Made(left) /\ k \in 0..n
    BY <1>0, <1>3
  <2>2. F[k] = IF ~ left.ok \/ op \notin ops THEN left
               ELSE IF right.ok THEN E!Value(E!Apply(op, left.v, right.v), right.pos) ELSE E!Error
    BY <1>1 DEF Linked
  <2>. HIDE DEF left
  <2>3. CASE ~ left.ok \/ op \notin ops
    <3>1. F[k] = left
      BY <2>2, <2>3
    <3>. QED  BY <2>1, <3>1
  <2>4. CASE left.ok /\ op \in ops /\ ~ right.ok
    <3>1. F[k] = E!Error
      BY <2>2, <2>4
    <3>. QED  BY <2>1, <3>1, ValueFacts
  <2>5. CASE left.ok /\ op \in ops /\ right.ok
    <3>1. PICK l \in E!Phrases(toks, ctx) : l.level <= level /\ l.from = i /\ l.to = left.pos /\ l.v = left.v
      BY <2>1, <2>5
    <3>2. E!Strength(op) = level
      BY <2>5, OpsFacts DEF ops
    <3>3. left.pos + 1 \in Span(toks)
      <4>1. E!Strength(<<"eof", "">>) = 0
        BY DEF E!Strength, E!Op
      <4>2. E!At(toks, left.pos) # <<"eof", "">>
        <5>1. level # 0
          OBVIOUS
        <5>. HIDE DEF op
        <5>2. op # <<"eof", "">>
          BY <3>2, <4>1, <5>1, Zenon
        <5>. QED  BY <5>2 DEF op
      <4>3. left.pos \in 1..n
        BY <1>9, <4>2, AtFacts
      <4>. QED  BY <1>0, <4>3
    <3>4. PICK r \in E!Phrases(toks, ctx) :
            r.level <= level - 1 /\ r.from = left.pos + 1 /\ r.to = right.pos /\ r.v = right.v
      BY <2>5, <3>3 DEF MakesPhrases
    <3>5. r.level \in 0..4
      BY PhrasesFacts, SpannedFacts
    <3>6. r.level < level
      BY <3>4, <3>5
    <3>. DEFINE p == E!Phrase(level, i, right.pos, E!Apply(op, left.v, right.v))
    <3>. HIDE DEF right
    <3>7. op = E!At(toks, l.to)
      BY <3>1
    <3>. HIDE DEF op
    <3>8. IsJoin(toks, p, l, r)
      <4>1. p = E!Phrase(E!Strength(op), l.from, r.to, E!Apply(op, l.v, r.v))
        BY <3>1, <3>2, <3>4
      <4>. HIDE DEF p
      <4>. QED  BY <3>1, <3>2, <3>4, <3>6, <3>7, <4>1 DEF IsJoin
    <3>9. p.level = level /\ p.from = i /\ p.to = right.pos /\ p.v = E!Apply(op, left.v, right.v)
      BY PhraseFields
    <3>. HIDE DEF p
    <3>10. p \in E!Phrases(toks, ctx)
      BY <3>8, PhraseOf
    <3>11. F[k] = E!Value(E!Apply(op, left.v, right.v), right.pos)
      BY <2>2, <2>5
    <3>12. F[k].pos = p.to /\ F[k].v = p.v
      BY <3>9, <3>11, ValueFacts
    <3>13. level <= level
      OBVIOUS
    <3>. QED  BY <2>1, <3>9, <3>10, <3>12, <3>13
  <2>. QED  BY <2>3, <2>4, <2>5
<1>4. n \in P
  <2>. HIDE DEF P
  <2>1. n \in 0..n
    BY <1>0
  <2>. QED  BY <1>0, <1>2, <1>3, <2>1, InductionTo
<1>. QED  BY <1>1, <1>4 DEF ops
(* The token at k is not one that a phrase of the level would go on with.  *)
Stops(toks, k, level) ==
  /\ E!Kind(toks, k) # "lparen" /\ E!At(toks, k) # E!Op(".")
  /\ E!Strength(E!At(toks, k)) = 0 \/ E!Strength(E!At(toks, k)) > level

(* A function of the parser finds every phrase of its level up to this     *)
(* length.                                                                 *)
FindsPhrases(toks, ctx, level, m, T) ==
  \A p \in E!Phrases(toks, ctx) :
    p.level <= level /\ p.to - p.from <= m /\ Stops(toks, p.to, level) => T[p.from] = E!Value(p.v, p.to)

LEMMA PhraseCases ==
  ASSUME NEW toks, IsSequence(toks), NEW ctx, NEW p \in E!Phrases(toks, ctx)
  PROVE  /\ Spanned(toks, p)
         /\ \/ IsAtom(toks, ctx, p) /\ p.level = 0
            \/ p.level = 0 /\ \E q \in E!Phrases(toks, ctx) : Spanned(toks, q) /\ IsBracket(toks, p, q)
            \/ p.level = 1 /\ \E q \in E!Phrases(toks, ctx) : Spanned(toks, q) /\ IsNegation(toks, p, q)
            \/ /\ p.level \in 2..4
               /\ \E l, r \in E!Phrases(toks, ctx) : Spanned(toks, l) /\ Spanned(toks, r) /\ IsJoin(toks, p, l, r)
<1>. DEFINE all == E!Phrases(toks, ctx)
<1>1. p \in Formed(toks, ctx, all) /\ \A q \in all : Spanned(toks, q)
  BY PhrasesFacts
<1>2. ASSUME NEW q \in all, IsBracket(toks, p, q) PROVE p.level = 0
  BY <1>2, PhraseFields DEF IsBracket
<1>3. ASSUME NEW q \in all, IsNegation(toks, p, q) PROVE p.level = 1
  BY <1>3, PhraseFields DEF IsNegation
<1>4. ASSUME NEW l \in all, NEW r \in all, IsJoin(toks, p, l, r) PROVE p.level \in 2..4
  <2>. DEFINE s == E!Strength(E!At(toks, l.to))
  <2>1. p.level = s /\ r.level < s
    BY <1>4, PhraseFields DEF IsJoin
  <2>2. s \in {0, 2, 3, 4}
    BY StrengthFacts
  <2>3. r.level \in 0..4
    BY <1>1, SpannedFacts
  <2>. HIDE DEF s
  <2>. QED  BY <2>1, <2>2, <2>3
<1>5. IsAtom(toks, ctx, p) => p.level = 0
  BY AtomSpanned
<1>. HIDE DEF all
<1>6. \/ IsAtom(toks, ctx, p)
      \/ \E q \in all : IsBracket(toks, p, q)
      \/ \E q \in all : IsNegation(toks, p, q)
      \/ \E l, r \in all : IsJoin(toks, p, l, r)
  BY <1>1, FormedCases
<1>7. Spanned(toks, p)
  BY <1>1 DEF all
<1>. QED  BY <1>1, <1>2, <1>3, <1>4, <1>5, <1>6, <1>7 DEF all

LEMMA PrimaryFinds ==
  ASSUME NEW toks, IsSequence(toks), NEW ctx, NEW next, NEW m \in Nat, FindsPhrases(toks, ctx, 4, m, next.or),
         NEW p \in E!Phrases(toks, ctx), p.level = 0, p.to - p.from <= m + 1, Stops(toks, p.to, 1)
  PROVE  /\ E!Primary(toks, ctx, next, p.from) = E!Value(p.v, p.to)
         /\ E!At(toks, p.from) # E!Op("!")
<1>. DEFINE n == Len(toks)
            i == p.from
<1>0. n \in Nat /\ DOMAIN toks = 1..n /\ i \in 1..n
  <2>1. Spanned(toks, p)
    BY PhrasesFacts
  <2>. QED  BY <2>1, SequenceFacts DEF Spanned
<1>1. E!At(toks, i) = toks[i]
  BY <1>0, AtFacts
<1>2. \A k : E!At(toks, k) = E!Op("!") \/ E!At(toks, k) = E!Op(".") => E!Kind(toks, k) = "op"
  BY DEF E!Op, E!Kind
<1>. HIDE DEF n
<1>3. CASE p \in E!Literals(toks)
  <2>1. PICK k \in 1..n : /\ p = E!Phrase(0, k, k + 1, toks[k][2])
                          /\ E!Kind(toks, k) = "string" \/ E!Named(toks, k, {"true", "false"})
    BY <1>0, <1>3 DEF E!Literals
  <2>2. i = k /\ p.to = k + 1 /\ p.v = toks[k][2]
    BY <2>1, PhraseFields
  <2>. HIDE DEF i
  <2>3. \/ E!Kind(toks, i) = "string"
        \/ E!Kind(toks, i) = "ident" /\ E!At(toks, i)[2] \in {"true", "false"}
    BY <2>1, <2>2 DEF E!Named
  <2>4. E!Primary(toks, ctx, next, i) = E!Value(E!At(toks, i)[2], i + 1)
    BY <2>3 DEF E!Primary
  <2>. QED  BY <1>1, <1>2, <2>2, <2>3, <2>4 DEF i
<1>4. CASE p \in E!Paths(toks, ctx)
  <2>1. PICK k \in 1..n, d \in 0..n : /\ p = E!Phrase(0, k, k + 2 * d + 1, E!LookUp(ctx, E!Names(toks, k, d)))
                                      /\ E!IsPath(toks, k, d)
    BY <1>0, <1>4 DEF E!Paths, n
  <2>2. i = k /\ p.to = k + 2 * d + 1 /\ p.v = E!LookUp(ctx, E!Names(toks, k, d))
    BY <2>1, PhraseFields
  <2>. HIDE DEF i
  <2>3. E!Kind(toks, k) = "ident" /\ E!At(toks, k)[2] \notin {"true", "false"}
    <3>1. 0 \in 0..d /\ k + 2 * 0 = k
      BY <1>0
    <3>2. E!Kind(toks, k + 2 * 0) = "ident"
      BY <2>1, <3>1 DEF E!IsPath
    <3>3. E!Kind(toks, k) = "ident"
      BY <3>1, <3>2
    <3>. QED  BY <2>1, <3>3 DEF E!IsPath, E!Named
  <2>4. E!At(toks, k + 2 * d + 1) # E!Op(".")
    BY <2>2 DEF Stops
  <2>5. E!Path(toks, ctx, k) = E!Value(E!LookUp(ctx, E!Names(toks, k, d)), k + 2 * d + 1)
    <3>. USE DEF n
    <3>. QED  BY <2>1, <2>3, <2>4, PathFacts
  <2>6. E!Kind(toks, k + 1) # "lparen"
    <3>1. CASE d = 0
      <4>1. k + 1 = p.to
        BY <1>0, <2>2, <3>1
      <4>. QED  BY <4>1 DEF Stops
    <3>2. CASE d # 0
      <4>1. 1 \in 1..d /\ k + 2 * 1 - 1 = k + 1
        BY <1>0, <3>2
      <4>2. E!At(toks, k + 2 * 1 - 1) = E!Op(".")
        BY <2>1, <4>1 DEF E!IsPath
      <4>3. E!At(toks, k + 1) = E!Op(".")
        BY <4>1, <4>2
      <4>. QED  BY <1>2, <4>3
    <3>. QED  BY <3>1, <3>2
  <2>7. E!Primary(toks, ctx, next, k) = E!Path(toks, ctx, k)
    BY <2>3, <2>6 DEF E!Primary
  <2>. QED  BY <1>2, <2>2, <2>3, <2>5, <2>7 DEF i
<1>5. CASE p \in E!Functions(toks, ctx)
  <2>. DEFINE Given(name) == E!Str(CASE name = "success" -> ctx.success [] name = "failure" -> ctx.failure
                                     [] name = "always" -> TRUE)
  <2>1. PICK k \in 1..n : /\ p = E!Phrase(0, k, k + 3, Given(toks[k][2]))
                          /\ E!Named(toks, k, {"success", "failure", "always"})
                          /\ E!Kind(toks, k + 1) = "lparen" /\ E!Kind(toks, k + 2) = "rparen"
    BY <1>0, <1>5 DEF E!Functions
  <2>2. i = k /\ p.to = k + 3 /\ p.v = Given(toks[k][2])
    <3>. HIDE DEF Given
    <3>. QED  BY <2>1, PhraseFields
  <2>. HIDE DEF i
  <2>. DEFINE name == E!At(toks, i)[2]
  <2>3. E!Kind(toks, i) = "ident" /\ name \in {"success", "failure", "always"}
    BY <2>1, <2>2 DEF E!Named
  <2>4. E!Primary(toks, ctx, next, i) = E!Call(toks, ctx, i)
    BY <2>1, <2>2, <2>3 DEF E!Primary
  <2>5. E!Call(toks, ctx, i) = E!Value(Given(name), i + 3)
    <3>1. E!Str(TRUE) = "true"
      BY DEF E!Str
    <3>. HIDE DEF name
    <3>2. E!Kind(toks, i + 2) = "rparen"
      BY <2>1, <2>2
    <3>. QED  BY <2>3, <3>1, <3>2 DEF E!Call, name
  <2>6. name = toks[k][2]
    BY <1>1, <2>2
  <2>. HIDE DEF Given, name
  <2>. QED  BY <1>2, <2>2, <2>3, <2>4, <2>5, <2>6 DEF i
<1>6. CASE \E q \in E!Phrases(toks, ctx) : Spanned(toks, q) /\ IsBracket(toks, p, q)
  <2>1. PICK q \in E!Phrases(toks, ctx) : Spanned(toks, q) /\ IsBracket(toks, p, q)
    BY <1>6
  <2>2. i = q.from - 1 /\ p.to = q.to + 1 /\ p.v = q.v
    BY <2>1, PhraseFields DEF IsBracket
  <2>3. E!Kind(toks, i) = "lparen" /\ E!Kind(toks, q.to) = "rparen"
    BY <2>1, <2>2 DEF IsBracket
  <2>4. q.from \in Nat /\ q.to \in Nat /\ q.level \in 0..4
    BY <2>1, SpannedFacts
  <2>. HIDE DEF i
  <2>5. i + 1 = q.from /\ q.level <= 4
    BY <2>2, <2>4
  <2>6. q.to - q.from <= m
    <3>1. p.to - i <= m + 1
      BY DEF i
    <3>. QED  BY <2>2, <2>4, <3>1
  <2>7. Stops(toks, q.to, 4)
    <3>1. E!At(toks, q.to)[1] = "rparen"
      BY <2>3 DEF E!Kind
    <3>2. E!Op(".")[1] = "op"
      BY DEF E!Op
    <3>3. E!Strength(E!At(toks, q.to)) = 0
      BY <3>1, StrengthFacts
    <3>. QED  BY <2>3, <3>1, <3>2, <3>3 DEF Stops
  <2>8. next.or[i + 1] = E!Value(q.v, q.to)
    BY <2>5, <2>6, <2>7 DEF FindsPhrases
  <2>. DEFINE r == next.or[i + 1]
  <2>9. r.ok /\ r.v = q.v /\ r.pos = q.to
    BY <2>8, ValueFacts
  <2>10. E!Primary(toks, ctx, next, i)
           = IF r.ok /\ E!Kind(toks, r.pos) = "rparen" THEN E!Value(r.v, r.pos + 1) ELSE E!Error
    BY <2>3 DEF E!Primary
  <2>. HIDE DEF r
  <2>11. E!Primary(toks, ctx, next, i) = E!Value(q.v, q.to + 1)
    BY <2>3, <2>9, <2>10
  <2>. QED  BY <1>2, <2>2, <2>3, <2>11 DEF i
<1>. QED  BY <1>3, <1>4, <1>5, <1>6, PhraseCases DEF IsAtom
LEMMA UnaryFinds ==
  ASSUME NEW toks, IsSequence(toks), NEW ctx, NEW next, NEW m \in Nat,
         FindsPhrases(toks, ctx, 1, m, next.unary), FindsPhrases(toks, ctx, 4, m, next.or)
  PROVE  FindsPhrases(toks, ctx, 1, m + 1, UnaryOf(toks, ctx, next))
<1>. SUFFICES ASSUME NEW p \in E!Phrases(toks, ctx), p.level <= 1, p.to - p.from <= m + 1, Stops(toks, p.to, 1)
              PROVE  UnaryOf(toks, ctx, next)[p.from] = E!Value(p.v, p.to)
  BY DEF FindsPhrases
<1>. DEFINE i == p.from
<1>1. Spanned(toks, p) /\ p.level \in 0..4
  BY PhraseCases, SpannedFacts
<1>2. i \in Span(toks)
  <2>. DEFINE n == Len(toks)
  <2>1. n \in Nat /\ i \in 1..n
    BY <1>1, SequenceFacts DEF Spanned
  <2>2. Span(toks) = 1..n + 1
    BY DEF Span
  <2>. HIDE DEF n, i
  <2>. QED  BY <2>1, <2>2
<1>3. UnaryOf(toks, ctx, next)[i] = E!Unary(toks, ctx, next, i)
  BY <1>2 DEF UnaryOf
<1>4. CASE p.level = 0
  <2>1. E!Primary(toks, ctx, next, i) = E!Value(p.v, p.to) /\ E!At(toks, i) # E!Op("!")
    BY <1>4, PrimaryFinds
  <2>. QED  BY <1>3, <2>1 DEF E!Unary
<1>5. CASE p.level = 1
  <2>1. PICK q \in E!Phrases(toks, ctx) : Spanned(toks, q) /\ IsNegation(toks, p, q)
    BY <1>5, PhraseCases
  <2>2. i = q.from - 1 /\ p.to = q.to /\ p.v = E!Str(~ E!Truthy(q.v))
    BY <2>1, PhraseFields DEF IsNegation
  <2>3. E!At(toks, i) = E!Op("!") /\ q.level <= 1
    BY <2>1, <2>2 DEF IsNegation
  <2>4. q.from \in Nat /\ q.to \in Nat
    BY <2>1, SpannedFacts
  <2>5. p.to - i <= m + 1
    OBVIOUS
  <2>. HIDE DEF i
  <2>6. i + 1 = q.from /\ q.to - q.from <= m
    BY <2>2, <2>4, <2>5
  <2>7. next.unary[i + 1] = E!Value(q.v, q.to)
    BY <2>2, <2>3, <2>6 DEF FindsPhrases
  <2>. DEFINE r == next.unary[i + 1]
  <2>8. r.ok /\ r.v = q.v /\ r.pos = q.to
    BY <2>7, ValueFacts
  <2>9. E!Unary(toks, ctx, next, i) = IF r.ok THEN E!Value(E!Str(~ E!Truthy(r.v)), r.pos) ELSE E!Error
    BY <2>3 DEF E!Unary
  <2>. HIDE DEF r
  <2>10. E!Unary(toks, ctx, next, i) = E!Value(p.v, p.to)
    BY <2>2, <2>8, <2>9
  <2>. QED  BY <1>3, <2>10 DEF i
<1>. QED  BY <1>1, <1>4, <1>5

(* A turn that takes the chain from a to b, at position i.                 *)
LEMMA OneTurnMore ==
  ASSUME NEW n \in Nat, NEW i \in Nat, NEW a \in Nat, NEW b \in Nat, NEW k \in Nat,
         1 <= i, k <= a - i, a + 1 < b, b <= n + 1
  PROVE  k + 1 \in 1..n /\ k + 1 \in 0..n /\ k + 1 <= b - i /\ k + 1 - 1 = k
OBVIOUS

(* A chain is found from the left: after some turns of the loop, what has  *)
(* been parsed is the phrase, if it ends where the level below stops.      *)
LEMMA ChainFinds ==
  ASSUME NEW toks, IsSequence(toks), NEW ctx, NEW level \in 2..4, NEW next, NEW m \in Nat,
         FindsPhrases(toks, ctx, level - 1, m, next)
  PROVE  FindsPhrases(toks, ctx, level, m, ChainOf(toks, OpsOf(level), next))
<1>. DEFINE n == Len(toks)
            ops == OpsOf(level)
            all == E!Phrases(toks, ctx)
<1>0. n \in Nat /\ Span(toks) = 1..n + 1
  BY SequenceFacts DEF Span
<1>. SUFFICES ASSUME NEW p \in all, p.level <= level, p.to - p.from <= m, Stops(toks, p.to, level)
              PROVE  ChainOf(toks, ops, next)[p.from] = E!Value(p.v, p.to)
  BY DEF FindsPhrases
<1>. DEFINE i == p.from
<1>1. PICK F : /\ E!Chain(toks, ops, next, i) = F[n]
               /\ F[0] = next[i] /\ \A k \in 1..n : F[k] = Linked(toks, ops, next, F[k - 1])
  <2>. HIDE DEF ops, i
  <2>. QED  BY ChainFacts
<1>9. n = Len(toks)
  OBVIOUS
<1>2. \A q \in all : /\ q.level \in 0..4 /\ q.from \in Nat /\ q.to \in Nat /\ q.from < q.to /\ 1 <= q.from
                     /\ q.from <= n /\ q.to <= n + 1
  BY PhrasesFacts, SpannedFacts
<1>. DEFINE Found(q) == \E k \in 0..n : k <= q.to - i /\ F[k] = E!Value(q.v, q.to)
            P == {r \in 0..m : \A q \in all :
                    q.from = i /\ q.level <= level /\ q.to - i <= r /\ Stops(toks, q.to, level - 1) => Found(q)}
<1>. HIDE DEF n, ops, all, i
<1>3. 0 \in P
  <2>1. ASSUME NEW q \in all, q.from = i, q.to - i <= 0 PROVE FALSE
    BY <1>2, <2>1
  <2>. QED  BY <2>1
<1>4. ASSUME NEW r \in 1..m, r - 1 \in P PROVE r \in P
  <2>. SUFFICES ASSUME NEW q \in all, q.from = i, q.level <= level, q.to - i <= r, Stops(toks, q.to, level - 1)
                PROVE  Found(q)
    OBVIOUS
  <2>0. q.level \in 0..4 /\ q.to \in Nat /\ i \in Nat /\ i < q.to /\ q.to <= n + 1 /\ 1 <= i
    BY <1>2
  <2>1. CASE q.level <= level - 1
    <3>1. q.to - q.from <= m
      BY <2>0
    <3>2. next[i] = E!Value(q.v, q.to)
      BY <2>1, <3>1 DEF FindsPhrases, all
    <3>3. 0 \in 0..n /\ 0 <= q.to - i
      BY <1>0, <2>0
    <3>. QED  BY <1>1, <3>2, <3>3
  <2>2. CASE q.level = level
    <3>1. PICK l \in all, t \in all : IsJoin(toks, q, l, t)
      BY <2>2, PhraseCases DEF all
    <3>. DEFINE op == E!At(toks, l.to)
    <3>2. /\ q.level = E!Strength(op) /\ q.from = l.from /\ q.to = t.to /\ q.v = E!Apply(op, l.v, t.v)
          /\ t.from = l.to + 1 /\ l.level <= E!Strength(op) /\ t.level < E!Strength(op)
      BY <3>1, PhraseFields DEF IsJoin
    <3>3. /\ l.level \in 0..4 /\ l.to \in Nat /\ l.from < l.to
          /\ t.level \in 0..4 /\ t.to \in Nat /\ t.from \in Nat /\ t.from < t.to
      BY <1>2
    <3>4. Stops(toks, l.to, level - 1) /\ op \in ops
      <4>1. E!Strength(op) # 0 /\ E!Strength(op) > level - 1 /\ E!Strength(op) = level
        BY <2>2, <3>2
      <4>2. op[1] = "op" /\ op # E!Op(".")
        BY <4>1, StrengthFacts
      <4>3. op \in ops
        BY <4>1, OpsFacts DEF ops
      <4>. QED  BY <4>1, <4>2, <4>3 DEF Stops, E!Kind
    <3>. HIDE DEF op
    <3>5. l.from = i /\ l.level <= level /\ l.to - i <= r - 1
      BY <2>0, <2>2, <3>2, <3>3
    <3>6. PICK k \in 0..n : k <= l.to - i /\ F[k] = E!Value(l.v, l.to)
      <4>1. Found(l)
        BY <1>4, <3>4, <3>5
      <4>. QED  BY <4>1
    <3>7. next[l.to + 1] = E!Value(t.v, t.to)
      <4>1. t.level <= level - 1 /\ t.to - t.from <= m /\ Stops(toks, t.to, level - 1)
        BY <2>0, <2>2, <3>2, <3>3, <3>5
      <4>. QED  BY <3>2, <4>1 DEF FindsPhrases, all
    <3>8. k + 1 \in 1..n /\ k + 1 \in 0..n /\ k + 1 <= q.to - i /\ k + 1 - 1 = k
      <4>1. l.to + 1 < q.to /\ l.to \in Nat /\ k \in Nat /\ k <= l.to - i
        BY <3>2, <3>3, <3>6
      <4>. QED  BY <1>0, <2>0, <4>1, OneTurnMore, SMTT(30)
    <3>9. F[k + 1] = Linked(toks, ops, next, F[k])
      BY <1>1, <3>8
    <3>10. Linked(toks, ops, next, E!Value(l.v, l.to)) = E!Value(E!Apply(op, l.v, t.v), t.to)
      <4>1. E!Value(l.v, l.to).ok /\ E!Value(l.v, l.to).v = l.v /\ E!Value(l.v, l.to).pos = l.to
        BY ValueFacts
      <4>2. E!Value(t.v, t.to).ok /\ E!Value(t.v, t.to).v = t.v /\ E!Value(t.v, t.to).pos = t.to
        BY ValueFacts
      <4>. QED  BY <3>4, <3>7, <4>1, <4>2 DEF Linked, op
    <3>11. F[k + 1] = E!Value(q.v, q.to)
      BY <3>2, <3>6, <3>9, <3>10
    <3>. QED  BY <3>8, <3>11
  <2>. QED  BY <2>0, <2>1, <2>2
<1>5. p.from = i /\ p.to \in Nat /\ i \in Nat /\ i < p.to /\ i <= n /\ 1 <= i
  BY <1>2 DEF i
<1>6. Stops(toks, p.to, level - 1)
  <2>. DEFINE s == E!Strength(E!At(toks, p.to))
  <2>1. s \in {0, 2, 3, 4}
    BY StrengthFacts
  <2>2. s = 0 \/ s > level
    BY DEF Stops
  <2>. HIDE DEF s
  <2>3. s = 0 \/ s > level - 1
    BY <2>1, <2>2
  <2>. QED  BY <2>3 DEF Stops, s
<1>7. Found(p)
  <2>1. m \in P
    <3>1. m \in 0..m
      OBVIOUS
    <3>. HIDE DEF P
    <3>. QED  BY <1>3, <1>4, <3>1, InductionTo
  <2>. QED  BY <1>5, <1>6, <2>1
<1>8. PICK k \in 0..n : F[k] = E!Value(p.v, p.to)
  BY <1>7
<1>10. Linked(toks, ops, next, E!Value(p.v, p.to)) = E!Value(p.v, p.to)
  <2>1. E!At(toks, p.to) \notin ops
    <3>1. E!Strength(E!At(toks, p.to)) # level
      BY DEF Stops
    <3>. QED  BY <3>1, OpsFacts DEF ops
  <2>2. E!Value(p.v, p.to).pos = p.to
    BY ValueFacts
  <2>. QED  BY <2>1, <2>2 DEF Linked
<1>11. F[n] = E!Value(p.v, p.to)
  <2>. DEFINE Q == {j \in 0..n : j >= k => F[j] = E!Value(p.v, p.to)}
  <2>1. 0 \in Q
    BY <1>0, <1>8
  <2>2. ASSUME NEW j \in 1..n, j - 1 \in Q PROVE j \in Q
    <3>1. j \in 0..n /\ F[j] = Linked(toks, ops, next, F[j - 1])
      BY <1>0, <1>1
    <3>2. CASE j - 1 >= k
      BY <1>10, <2>2, <3>1, <3>2
    <3>3. CASE ~ (j - 1 >= k)
      <4>1. j >= k => j = k
        BY <3>3
      <4>. QED  BY <1>8, <3>1, <4>1
    <3>. QED  BY <3>2, <3>3
  <2>3. n \in Q
    <3>1. n \in 0..n
      BY <1>0
    <3>. HIDE DEF Q
    <3>. QED  BY <1>0, <2>1, <2>2, <3>1, InductionTo
  <2>. QED  BY <1>0, <2>3
<1>12. i \in Span(toks)
  BY <1>0, <1>5
<1>13. ChainOf(toks, ops, next)[i] = E!Chain(toks, ops, next, i)
  BY <1>12 DEF ChainOf
<1>. QED  BY <1>1, <1>5, <1>11, <1>13
(* What is returned from the functions of the parser when calls are nested *)
(* at most d deep: phrases, and each of up to d tokens.                    *)
LEMMA ParserFacts ==
  ASSUME NEW toks, IsSequence(toks), NEW ctx
  PROVE  \E T : /\ E!Parser(toks, ctx) = T[1]
                /\ MakesPhrases(toks, ctx, 4, T)
                /\ FindsPhrases(toks, ctx, 4, Len(toks) + 1, T)
<1>. DEFINE n == Len(toks) + 1
            run == [of |-> "calls", toks |-> toks, ctx |-> ctx]
            Rec(x) == [unary |-> UnaryOf(toks, ctx, x), or |-> OrOf(toks, ctx, x)]
            none == [unary |-> Failing(toks), or |-> Failing(toks)]
            F == CHOOSE G : G = [d \in 0..n |-> IF d = 0 THEN none ELSE Rec(G[d - 1])]
<1>0. n \in Nat /\ E!Parser(toks, ctx) = F[n].or[1]
  BY SequenceFacts, ParserIs
<1>1. Outset(run) = none /\ \A x : NextRound(run, x) = Rec(x)
  BY DEF Outset, NextRound
<1>9. \A x : Rec(x).unary = UnaryOf(toks, ctx, x) /\ Rec(x).or = OrOf(toks, ctx, x)
  OBVIOUS
<1>8. none.unary = Failing(toks) /\ none.or = Failing(toks)
  OBVIOUS
<1>10. n = Len(toks) + 1
  OBVIOUS
<1>. HIDE DEF run, n, none, Rec
<1>2. \A G : Unrolled(G, run, n) <=> G = [d \in 0..n |-> IF d = 0 THEN none ELSE Rec(G[d - 1])]
  <2>. SUFFICES ASSUME NEW G
                PROVE  Unrolled(G, run, n) <=> G = [d \in 0..n |-> IF d = 0 THEN none ELSE Rec(G[d - 1])]
    OBVIOUS
  <2>1. [d \in 0..n |-> IF d = 0 THEN Outset(run) ELSE NextRound(run, G[d - 1])]
          = [d \in 0..n |-> IF d = 0 THEN none ELSE Rec(G[d - 1])]
    BY <1>1
  <2>. QED  BY <2>1 DEF Unrolled
<1>3. F = CHOOSE G : Unrolled(G, run, n)
  BY <1>2
<1>. HIDE DEF F
<1>4. F[0] = none /\ \A d \in 1..n : F[d] = Rec(F[d - 1])
  BY <1>0, <1>1, <1>3, UnrolledFacts
<1>. DEFINE Good(d) == /\ MakesPhrases(toks, ctx, 1, F[d].unary) /\ MakesPhrases(toks, ctx, 4, F[d].or)
                       /\ FindsPhrases(toks, ctx, 1, d, F[d].unary) /\ FindsPhrases(toks, ctx, 4, d, F[d].or)
            P == {d \in 0..n : Good(d)}
<1>5. 0 \in P
  <2>1. F[0].unary = Failing(toks) /\ F[0].or = Failing(toks)
    BY <1>4, <1>8
  <2>2. \A level : MakesPhrases(toks, ctx, level, Failing(toks))
    BY ValueFacts DEF MakesPhrases, Failing
  <2>3. \A level, T : FindsPhrases(toks, ctx, level, 0, T)
    <3>1. \A p \in E!Phrases(toks, ctx) : ~ (p.to - p.from <= 0)
      BY PhrasesFacts, SpannedFacts
    <3>. QED  BY <3>1 DEF FindsPhrases
  <2>4. Good(0)
    BY <2>1, <2>2, <2>3
  <2>. HIDE DEF Good
  <2>. QED  BY <1>0, <2>4
<1>6. ASSUME NEW d \in 1..n, d - 1 \in P PROVE d \in P
  <2>. DEFINE next == F[d - 1]
  <2>0. d \in 0..n /\ d - 1 \in Nat /\ d \in Nat /\ d - 1 + 1 = d
    BY <1>0
  <2>1. /\ MakesPhrases(toks, ctx, 1, next.unary) /\ MakesPhrases(toks, ctx, 4, next.or)
        /\ FindsPhrases(toks, ctx, 1, d - 1, next.unary) /\ FindsPhrases(toks, ctx, 4, d - 1, next.or)
    BY <1>6
  <2>2. F[d].unary = UnaryOf(toks, ctx, next) /\ F[d].or = OrOf(toks, ctx, next)
    BY <1>4, <1>9
  <2>. HIDE DEF next
  <2>3. MakesPhrases(toks, ctx, 1, UnaryOf(toks, ctx, next)) /\ FindsPhrases(toks, ctx, 1, d, UnaryOf(toks, ctx, next))
    <3>. DEFINE e == d - 1
    <3>1. e \in Nat /\ e + 1 = d
      BY <2>0
    <3>2. FindsPhrases(toks, ctx, 1, e, next.unary) /\ FindsPhrases(toks, ctx, 4, e, next.or)
      BY <2>1
    <3>. HIDE DEF e
    <3>3. FindsPhrases(toks, ctx, 1, e + 1, UnaryOf(toks, ctx, next))
      BY <3>1, <3>2, UnaryFinds
    <3>. QED  BY <2>1, <3>1, <3>3, UnaryMakes
  <2>4. 2 \in 2..4 /\ 3 \in 2..4 /\ 4 \in 2..4 /\ 2 - 1 = 1 /\ 3 - 1 = 2 /\ 4 - 1 = 3
    OBVIOUS
  <2>5. OpsOf(2) = E!Levels.equality /\ OpsOf(3) = E!Levels.and /\ OpsOf(4) = E!Levels.or
    BY DEF OpsOf
  <2>6. /\ MakesPhrases(toks, ctx, 2, EqualityOf(toks, ctx, next))
        /\ FindsPhrases(toks, ctx, 2, d, EqualityOf(toks, ctx, next))
    BY <2>0, <2>3, <2>4, <2>5, ChainMakes, ChainFinds DEF EqualityOf
  <2>7. /\ MakesPhrases(toks, ctx, 3, AndOf(toks, ctx, next))
        /\ FindsPhrases(toks, ctx, 3, d, AndOf(toks, ctx, next))
    BY <2>0, <2>4, <2>5, <2>6, ChainMakes, ChainFinds DEF AndOf
  <2>8. /\ MakesPhrases(toks, ctx, 4, OrOf(toks, ctx, next))
        /\ FindsPhrases(toks, ctx, 4, d, OrOf(toks, ctx, next))
    BY <2>0, <2>4, <2>5, <2>7, ChainMakes, ChainFinds DEF OrOf
  <2>9. Good(d)
    BY <2>2, <2>3, <2>8
  <2>. HIDE DEF Good
  <2>. QED  BY <2>0, <2>9
<1>7. Good(n)
  <2>1. n \in P
    <3>1. n \in 0..n
      BY <1>0
    <3>. HIDE DEF P
    <3>. QED  BY <1>0, <1>5, <1>6, <3>1, InductionTo
  <2>. QED  BY <2>1
<1>. QED  BY <1>0, <1>7 DEF n

(* The parser and the grammar agree, whatever the tokens are.              *)
LEMMA ParserAgrees ==
  ASSUME NEW toks, IsSequence(toks), NEW ctx
  PROVE  E!Agrees(toks, ctx)
<1>. DEFINE n == Len(toks)
            all == E!Phrases(toks, ctx)
            r == E!Eval(toks, ctx)
            values == {p.v : p \in {q \in all : q.from = 1 /\ q.to = n + 1}}
<1>1. PICK T : /\ E!Parser(toks, ctx) = T[1]
               /\ MakesPhrases(toks, ctx, 4, T) /\ FindsPhrases(toks, ctx, 4, n + 1, T)
  BY ParserFacts
<1>2. n \in Nat /\ Span(toks) = 1..n + 1
  BY SequenceFacts DEF Span
<1>3. r = IF T[1].pos = n + 1 THEN T[1] ELSE E!Error
  BY <1>1 DEF E!Eval
<1>4. \A q \in all : q.level \in 0..4 /\ q.from \in Nat /\ q.to \in Nat
  BY PhrasesFacts, SpannedFacts
<1>5. Stops(toks, n + 1, 4)
  <2>1. E!At(toks, n + 1) = <<"eof", "">> /\ E!Kind(toks, n + 1) = "eof"
    <3>1. n + 1 \notin 1..n
      BY <1>2
    <3>. QED  BY <3>1, AtFacts
  <2>2. E!Strength(<<"eof", "">>) = 0 /\ E!Op(".") # <<"eof", "">>
    BY DEF E!Strength, E!Op
  <2>. QED  BY <2>1, <2>2 DEF Stops
<1>6. ASSUME NEW q \in all, q.from = 1, q.to = n + 1 PROVE r.ok /\ r.v = q.v
  <2>1. q.level <= 4 /\ q.to - q.from <= n + 1
    <3>. HIDE DEF n, all, values
    <3>. QED  BY <1>2, <1>4, <1>6
  <2>2. Stops(toks, q.to, 4)
    BY <1>5, <1>6
  <2>3. T[q.from] = E!Value(q.v, q.to)
    BY <1>1, <2>1, <2>2 DEF FindsPhrases
  <2>4. T[1] = E!Value(q.v, n + 1)
    BY <1>6, <2>3
  <2>. HIDE DEF r, n
  <2>5. r = E!Value(q.v, n + 1)
    BY <1>3, <2>4, ValueFacts
  <2>. QED  BY <2>5, ValueFacts
<1>7. ASSUME r.ok PROVE \E q \in all : q.from = 1 /\ q.to = n + 1 /\ q.v = r.v
  <2>. HIDE DEF r
  <2>1. T[1].pos = n + 1 /\ r = T[1]
    BY <1>3, <1>7, ValueFacts
  <2>2. 1 \in Span(toks)
    BY <1>2
  <2>. QED  BY <1>1, <1>7, <2>1, <2>2 DEF MakesPhrases
<1>8. values = IF r.ok THEN {r.v} ELSE {}
  <2>. HIDE DEF r, all, n
  <2>1. CASE r.ok
    BY <1>6, <1>7, <2>1
  <2>2. CASE ~ r.ok
    BY <1>6, <2>2
  <2>. QED  BY <2>1, <2>2
<1>. QED  BY <1>8 DEF E!Agrees

------------------------------------------------------------------------------
(* What is selected                                                        *)

LEMMA SubgraphFacts ==
  ASSUME NEW jobs, Checked(jobs), NEW id \in Ids(jobs)
  PROVE  /\ id \in Subgraph(jobs, id) /\ Subgraph(jobs, id) \subseteq Ids(jobs)
         /\ \A j \in ToSet(jobs) : j.id \in Subgraph(jobs, id) => ToSet(j.needs) \subseteq Subgraph(jobs, id)
<1>. DEFINE next == [x \in Ids(jobs) |-> ToSet(Needs(jobs, x))]
            S == Subgraph(jobs, id)
<1>1. next \in [Ids(jobs) -> SUBSET Ids(jobs)]
  BY NeedsTyped
<1>2. S = Reachable(next, {id})
  BY DEF Subgraph
<1>3. \A j \in ToSet(jobs) : next[j.id] = ToSet(j.needs)
  BY NeedsIs
<1>4. IsFiniteSet(Ids(jobs))
  BY IdsFinite DEF Checked
<1>. HIDE DEF next
<1>5. {id} \subseteq S /\ S \subseteq Ids(jobs) /\ \A x \in S : next[x] \subseteq S
  BY <1>1, <1>2, <1>4, ReachableFacts
<1>. HIDE DEF S
<1>6. id \in S /\ S \subseteq Ids(jobs) /\ \A j \in ToSet(jobs) : j.id \in S => ToSet(j.needs) \subseteq S
  BY <1>3, <1>5
<1>. QED  BY <1>6 DEF S

LEMMA AffectedFacts ==
  ASSUME NEW jobs, Checked(jobs), NEW direct \in SUBSET Ids(jobs)
  PROVE  /\ direct \subseteq Affected(jobs, direct) /\ Affected(jobs, direct) \subseteq Ids(jobs)
         /\ \A j \in ToSet(jobs) : ToSet(j.needs) \cap Affected(jobs, direct) # {} => j.id \in Affected(jobs, direct)
<1>. DEFINE next == [x \in Ids(jobs) |-> ToSet(Dependents(jobs, x))]
            S == Affected(jobs, direct)
<1>0. PlanTyped(jobs)
  BY DEF Checked
<1>1. \A x : ToSet(Dependents(jobs, x)) = {j.id : j \in {y \in ToSet(jobs) : x \in ToSet(y.needs)}}
  BY <1>0, DependentsAre
<1>2. \A j \in ToSet(jobs) : j.id \in Ids(jobs)
  BY DEF ToSet, Ids
<1>3. next \in [Ids(jobs) -> SUBSET Ids(jobs)]
  BY <1>1, <1>2
<1>4. S = Reachable(next, direct)
  BY DEF Affected
<1>5. IsFiniteSet(Ids(jobs))
  BY <1>0, IdsFinite
<1>6. \A x \in Ids(jobs) : next[x] = ToSet(Dependents(jobs, x))
  OBVIOUS
<1>. HIDE DEF next
<1>7. direct \subseteq S /\ S \subseteq Ids(jobs) /\ \A x \in S : next[x] \subseteq S
  BY <1>3, <1>4, <1>5, ReachableFacts
<1>. HIDE DEF S
<1>8. ASSUME NEW j \in ToSet(jobs), ToSet(j.needs) \cap S # {} PROVE j.id \in S
  <2>1. PICK x \in S : x \in ToSet(j.needs)
    BY <1>8
  <2>2. j.id \in ToSet(Dependents(jobs, x))
    BY <1>1, <2>1
  <2>. QED  BY <1>6, <1>7, <2>1, <2>2
<1>9. direct \subseteq S /\ S \subseteq Ids(jobs) /\ \A j \in ToSet(jobs) : ToSet(j.needs) \cap S # {} => j.id \in S
  BY <1>7, <1>8
<1>. QED  BY <1>9 DEF S

(* What is below a directory begins with its name.                         *)
LEMMA CleanMatches ==
  ASSUME NEW f, NEW g, NEW longer, IsSequence(f), IsSequence(g.prefix), g.deep,
         Len(f) >= Len(g.prefix), SubSeq(f, 1, Len(g.prefix)) = g.prefix
  PROVE  HasPrefix(f, g.prefix, longer)
<1>. DEFINE p == g.prefix
            n == Len(p)
<1>1. f \in Seq(ToSet(f)) /\ Len(f) \in Nat /\ p \in Seq(ToSet(p)) /\ n \in Nat
  BY SequenceFacts
<1>2. CASE p = <<>>
  BY <1>2 DEF HasPrefix
<1>3. CASE p # <<>>
  <2>0. n # 0
    BY <1>1, <1>3, EmptySeq
  <2>1. \A i \in 1..n : p[i] = f[i]
    <3>1. \A i \in 1..n : f[i] \in ToSet(f)
      BY <1>1 DEF ToSet
    <3>2. \A i \in 1..n : SubSeq(f, 1, n)[i] = f[i]
      BY <1>1, <3>1
    <3>. QED  BY <3>2
  <2>2. Front(p) = SubSeq(p, 1, n - 1)
    BY DEF Front
  <2>3. SubSeq(p, 1, n - 1) = SubSeq(f, 1, n - 1)
    BY <1>1, <2>0, <2>1
  <2>4. f[n] = Last(p)
    BY <1>1, <2>0, <2>1 DEF Last
  <2>. QED  BY <1>1, <2>2, <2>3, <2>4 DEF HasPrefix
<1>. QED  BY <1>2, <1>3

(* Where no slash is doubled, the two readings of what follows "**" agree. *)
LEMMA SuffixMatches ==
  ASSUME NEW suffix, NEW name, IsSequence(suffix), MatchSuffix(suffix, name),
         suffix # <<>> => suffix[1] # Empty
  PROVE  suffix = <<>> \/ MatchPath(suffix, <<name>>)
<1>. SUFFICES ASSUME suffix # <<>> PROVE MatchPath(suffix, <<name>>)
  OBVIOUS
<1>1. suffix \in Seq(ToSet(suffix)) /\ Len(suffix) \in Nat
  BY SequenceFacts
<1>2. Len(suffix) # 0
  BY <1>1, EmptySeq
<1>3. PICK n \in 0..Len(suffix) :
        /\ \A i \in 1..n : suffix[i] = Empty
        /\ n = Len(suffix) \/ MatchPath(SubSeq(suffix, n + 1, Len(suffix)), <<name>>)
  BY DEF MatchSuffix
<1>4. n = 0
  BY <1>1, <1>3
<1>5. SubSeq(suffix, 1, Len(suffix)) = suffix
  BY <1>1
<1>6. MatchPath(SubSeq(suffix, n + 1, Len(suffix)), <<name>>)
  BY <1>1, <1>2, <1>3, <1>4
<1>7. SubSeq(suffix, n + 1, Len(suffix)) = suffix
  BY <1>4, <1>5
<1>. QED  BY <1>6, <1>7

(* A path with one more segment.                                           *)
LEMMA OneMore ==
  ASSUME NEW U, NEW d \in Seq(U), NEW p \in Seq(U), Len(p) = 1
  PROVE  Len(d \o p) = Len(d) + 1 /\ (d \o p)[Len(d) + 1] = p[1]
<1>1. Len(d) \in Nat
  OBVIOUS
<1>2. Len(d \o p) = Len(d) + Len(p)
  BY ConcatProperties
<1>3. \A i \in 1..Len(d) + Len(p) : (d \o p)[i] = IF i <= Len(d) THEN d[i] ELSE p[i - Len(d)]
  BY ConcatProperties
<1>4. /\ Len(d) + 1 \in 1..Len(d) + Len(p)
      /\ ~ (Len(d) + 1 <= Len(d)) /\ (Len(d) + 1) - Len(d) = 1
  BY <1>1
<1>. QED  BY <1>2, <1>3, <1>4

(* A file whose content counts for a glob matches it, if the glob is       *)
(* written as git writes names.                                            *)
LEMMA CountedMatches ==
  ASSUME NEW g, NEW longer, NEW f \in ExpandGlob(case.tree, case.dir, g, case.pruned), AsGitNames(g),
         IsSequence(case.dir), IsSequence(f), IsSequence(g.prefix), IsSequence(g.suffix)
  PROVE  MatchGlob(f, g, longer)
<1>. DEFINE base == Cleaned(case.dir, g.prefix)
<1>1. CASE g.deep
  <2>1. /\ Len(f) >= Len(base) /\ SubSeq(f, 1, Len(base)) = base
        /\ MatchSuffix(g.suffix, Last(f))
    BY <1>1 DEF ExpandGlob
  <2>2. g.suffix = <<>> \/ MatchPath(g.suffix, <<Last(f)>>)
    BY <2>1, SuffixMatches DEF AsGitNames
  <2>3. g.prefix = <<>> \/ base = g.prefix
    BY <1>1 DEF AsGitNames
  <2>4. HasPrefix(f, g.prefix, longer)
    <3>1. CASE g.prefix = <<>>
      BY <3>1 DEF HasPrefix
    <3>2. CASE base = g.prefix
      BY <1>1, <2>1, <3>2, CleanMatches
    <3>. QED  BY <2>3, <3>1, <3>2
  <2>. QED  BY <1>1, <2>2, <2>4 DEF MatchGlob
<1>2. CASE ~ g.deep
  <2>1. MatchPath(base, f)
    BY <1>2 DEF ExpandGlob
  <2>2. CASE base = g.prefix
    BY <1>2, <2>1, <2>2 DEF MatchGlob
  <2>3. CASE Len(g.prefix) = 1 /\ base = case.dir \o g.prefix
    <3>. DEFINE d == case.dir
                p == g.prefix
    <3>1. /\ d \in Seq(ToSet(d)) /\ p \in Seq(ToSet(p)) /\ Len(d) \in Nat
          /\ f \in Seq(ToSet(f)) /\ Len(f) \in Nat /\ DOMAIN f = 1..Len(f)
      BY SequenceFacts
    <3>2. Len(d \o p) = Len(d) + 1 /\ (d \o p)[Len(d) + 1] = p[1]
      <4>. DEFINE U == ToSet(d) \cup ToSet(p)
      <4>1. d \in Seq(U) /\ p \in Seq(U)
        BY <3>1
      <4>. HIDE DEF U, d, p
      <4>2. Len(p) = 1
        BY <2>3 DEF p
      <4>. QED  BY <4>1, <4>2, OneMore
    <3>3. Len(f) = Len(d) + 1 /\ Match(p[1], f[Len(f)])
      <4>1. Len(base) = Len(f) /\ \A i \in DOMAIN f : Match(base[i], f[i])
        BY <2>1 DEF MatchPath
      <4>2. Len(f) = Len(d) + 1
        BY <2>3, <3>2, <4>1
      <4>3. Len(f) \in DOMAIN f
        BY <3>1, <4>2
      <4>. QED  BY <2>3, <3>2, <4>1, <4>2, <4>3
    <3>4. MatchPath(p, <<Last(f)>>)
      <4>1. Len(p) = 1 /\ Len(<<Last(f)>>) = 1 /\ DOMAIN <<Last(f)>> = {1} /\ <<Last(f)>>[1] = f[Len(f)]
        BY <2>3 DEF Last
      <4>. QED  BY <3>3, <4>1 DEF MatchPath
    <3>. QED  BY <1>2, <3>4 DEF MatchGlob
  <2>4. base = g.prefix \/ (Len(g.prefix) = 1 /\ base = case.dir \o g.prefix)
    BY <1>2 DEF AsGitNames
  <2>. QED  BY <2>2, <2>3, <2>4
<1>. QED  BY <1>1, <1>2

(* The plan of a case is expanded from its jobs, and accepted when it is   *)
(* acted upon.                                                             *)
Accepted == {"mode", "select", "start", "run", "notify", "report"}
Selecting == {"select", "start", "run", "notify", "report"}

PlanInv ==
  /\ case \in Cases
  /\ pc \in {"load", "validate", "exit"} \cup Accepted
  /\ pc \notin {"load", "exit"} => plan = ExpandMatrix(case.jobs)
  /\ pc \in Accepted => Validate(plan) = {}
  /\ pc \in Selecting => ~ opts.compile /\ ~ opts.graph

LEMMA CaseFacts ==
  ASSUME case \in Cases
  PROVE  /\ WellFormed(case.jobs) /\ PlanTyped(ExpandMatrix(case.jobs))
         /\ IsSequence(case.dir) /\ \A f \in case.tree : IsSequence(f)
         /\ ~ opts.compile /\ ~ opts.graph => Ids(ExpandMatrix(case.jobs)) \subseteq Jobs
<1>1. WellFormed(case.jobs)
  BY CasesAssumption DEF WellFormed
<1>2. PlanTyped(ExpandMatrix(case.jobs))
  BY <1>1, ExpandedTyped
<1>. QED  BY <1>1, <1>2, CasesAssumption DEF opts

LEMMA PlanIsChecked ==
  ASSUME PlanInv, pc \in Accepted
  PROVE  Checked(plan)
<1>1. PlanTyped(plan) /\ Validate(plan) = {}
  BY CaseFacts DEF PlanInv, Accepted
<1>. QED  BY <1>1, ValidChecked

LEMMA PlanNext ==
  ASSUME PlanInv, [Next]_vars
  PROVE  PlanInv'
<1>. USE DEF PlanInv, Accepted, Selecting, opts
<1>1. CASE Load
  BY <1>1, Zenon DEF Load, Goto, Exit
<1>2. CASE ValidatePlan
  <2>1. CASE Validate(plan) = {}
    BY <1>2, <2>1 DEF ValidatePlan, Goto
  <2>2. CASE Validate(plan) # {}
    BY <1>2, <2>2 DEF ValidatePlan, Exit
  <2>. QED  BY <2>1, <2>2
<1>3. CASE Mode
  <2>0. pc = "mode" /\ UNCHANGED <<case, plan>>
    BY <1>3 DEF Mode
  <2>1. CASE opts.compile \/ opts.graph
    <3>1. pc' = "exit"
      BY <1>3, <2>1 DEF Mode, Exit
    <3>. QED  BY <2>0, <3>1
  <2>2. CASE ~ (opts.compile \/ opts.graph)
    <3>1. pc' = "select"
      BY <1>3, <2>2 DEF Mode, Goto
    <3>. QED  BY <2>0, <2>2, <3>1
  <2>. QED  BY <2>1, <2>2
<1>4. CASE Select
  <2>1. pc = "select" /\ pc' \in {"start", "exit"} /\ UNCHANGED <<case, plan>>
    BY <1>4 DEF Select, Goto, Exit
  <2>. QED  BY <2>1
<1>5. CASE Start
  BY <1>5 DEF Start, Goto
<1>6. CASE Launch
  BY <1>6 DEF Launch
<1>7. CASE Return
  BY <1>7 DEF Return, Goto
<1>8. ASSUME NEW id \in active, Settle(id) \/ Finish(id) \/ Tell(id) PROVE PlanInv'
  BY <1>8 DEF Settle, Finish, Tell
<1>9. CASE Notify
  BY <1>9 DEF Notify, Goto
<1>10. CASE Report
  BY <1>10 DEF Report, Exit
<1>11. ASSUME NEW m \in flight, Deliver(m) PROVE PlanInv'
  BY <1>11 DEF Deliver
<1>12. CASE Interrupt
  <2>1. pc' \in {pc, "exit"} /\ UNCHANGED <<case, plan>>
    BY <1>12 DEF Interrupt, Exit
  <2>. QED  BY <2>1
<1>13. CASE UNCHANGED vars
  BY <1>13 DEF vars
<1>. QED  BY <1>1, <1>2, <1>3, <1>4, <1>5, <1>6, <1>7, <1>8, <1>9, <1>10, <1>11, <1>12, <1>13 DEF Next, Over

(* What --changed leaves out and what --job builds on.                     *)
LEMMA SelectCovers ==
  ASSUME PlanInv, Select
  PROVE  SelectionCovers'
<1>. DEFINE files == ChangedFiles
<1>1. pc = "select" /\ UNCHANGED <<case, plan>> /\ Checked(plan)
  BY PlanIsChecked DEF Select, Accepted
<1>2. CASE pc' # "start"
  BY <1>2 DEF SelectionCovers
<1>3. CASE pc' = "start"
  <2>1. CASE opts.job # {}
    <3>. DEFINE S == UNION {Subgraph(plan, id) : id \in opts.job}
    <3>1. opts.job \subseteq Ids(plan) /\ active' = S
      BY <1>3, <2>1 DEF Select, Only, Goto, Exit
    <3>2. \A id \in opts.job :
            /\ id \in Subgraph(plan, id)
            /\ \A j \in ToSet(plan) : j.id \in Subgraph(plan, id) => ToSet(j.needs) \subseteq Subgraph(plan, id)
      BY <1>1, <3>1, SubgraphFacts
    <3>3. opts.job \subseteq S
      BY <3>2
    <3>4. \A j \in ToSet(plan) : j.id \in S => ToSet(j.needs) \subseteq S
      BY <3>2
    <3>. HIDE DEF S
    <3>. QED  BY <1>1, <2>1, <3>1, <3>3, <3>4 DEF SelectionCovers, opts
  <2>2. CASE opts.job = {} /\ opts.changed
    <3>. DEFINE direct == {j.id : j \in {x \in ToSet(plan) : Touched(x, files, case.longer)}}
    <3>1. active' = Affected(plan, direct)
      BY <1>3, <2>2 DEF Select, Only, Goto, Exit, AffectedJobs
    <3>2. direct \subseteq Ids(plan)
      BY DEF Ids, ToSet
    <3>3. \A j \in ToSet(plan) : Touched(j, files, case.longer) => j.id \in direct
      OBVIOUS
    <3>. HIDE DEF direct
    <3>4. direct \subseteq active' /\ \A j \in ToSet(plan) : ToSet(j.needs) \cap active' # {} => j.id \in active'
      BY <1>1, <3>1, <3>2, AffectedFacts
    <3>5. ASSUME NEW j \in ToSet(plan), j.inputs = {} \/ \E f \in files : Consumes(j, f)
          PROVE  Touched(j, files, case.longer)
      <4>1. CASE j.inputs = {}
        BY <4>1 DEF Touched
      <4>2. CASE j.inputs # {}
        <5>1. PICK f \in files : \E g \in j.inputs : AsGitNames(g) /\ f \in ExpandGlob(case.tree, case.dir, g, case.pruned)
          BY <3>5, <4>2 DEF Consumes
        <5>2. PICK g \in j.inputs : AsGitNames(g) /\ f \in ExpandGlob(case.tree, case.dir, g, case.pruned)
          BY <5>1
        <5>3. f \in case.tree
          BY <5>2 DEF ExpandGlob
        <5>4. IsSequence(f) /\ IsSequence(case.dir)
          BY <5>3, CaseFacts DEF PlanInv
        <5>6. IsSequence(g.prefix) /\ IsSequence(g.suffix)
          BY <1>1, <5>2 DEF Checked, PlanTyped
        <5>5. MatchGlob(f, g, case.longer)
          BY <5>2, <5>4, <5>6, CountedMatches
        <5>. QED  BY <5>5 DEF Touched
      <4>. QED  BY <4>1, <4>2
    <3>6. files' = files /\ opts' = opts /\ \A j, f : Consumes(j, f)' = Consumes(j, f)
      BY <1>1 DEF ChangedFiles, opts, Consumes, AsGitNames
    <3>7. \A j \in ToSet(plan) : (j.inputs = {} \/ \E f \in files : Consumes(j, f)) => j.id \in active'
      BY <3>3, <3>4, <3>5
    <3>8. (\A j \in ToSet(plan) : (j.inputs = {} \/ \E f \in ChangedFiles : Consumes(j, f)) => j.id \in active)'
      <4>1. \A j \in ToSet(plan) :
              j.inputs = {} \/ (\E f \in ChangedFiles : \E g \in j.inputs :
                                      AsGitNames(g) /\ f \in ExpandGlob(case.tree, case.dir, g, case.pruned))
                => j.id \in active'
        BY <3>7 DEF Consumes
      <4>. QED  BY <1>1, <4>1 DEF Consumes, AsGitNames, ChangedFiles
    <3>. QED  BY <1>1, <2>2, <3>4, <3>8 DEF SelectionCovers, opts
  <2>3. CASE opts.job = {} /\ ~ opts.changed
    BY <1>1, <2>3 DEF SelectionCovers, opts
  <2>. QED  BY <2>1, <2>2, <2>3
<1>. QED  BY <1>2, <1>3

LEMMA SelectionNext ==
  ASSUME PlanInv, SelectionCovers, [Next]_vars
  PROVE  SelectionCovers'
<1>1. CASE Select
  BY <1>1, SelectCovers
<1>2. CASE pc' # "start"
  BY <1>2 DEF SelectionCovers
<1>3. CASE UNCHANGED <<case, pc, plan, active>>
  <2>1. UNCHANGED <<opts, ChangedFiles>>
    BY <1>3 DEF opts, ChangedFiles
  <2>. QED  BY <1>3, <2>1 DEF SelectionCovers, Consumes, AsGitNames
<1>4. CASE Load \/ ValidatePlan \/ Mode \/ Start \/ Return \/ Notify \/ Report
  <2>1. pc' # "start"
    BY <1>4 DEF Load, ValidatePlan, Mode, Start, Return, Notify, Report, Goto, Exit
  <2>. QED  BY <1>2, <2>1
<1>5. CASE Launch
  <2>1. UNCHANGED <<case, pc, plan, active>>
    BY <1>5 DEF Launch, D!Advance
  <2>. QED  BY <1>3, <2>1
<1>6. ASSUME NEW id \in active, Settle(id) \/ Finish(id) \/ Tell(id) PROVE SelectionCovers'
  <2>1. UNCHANGED <<case, pc, plan, active>>
    BY <1>6 DEF Settle, Finish, Tell, D!End, runVars
  <2>. QED  BY <1>3, <2>1
<1>7. ASSUME NEW m \in flight, Deliver(m) PROVE SelectionCovers'
  BY <1>3, <1>7 DEF Deliver, runVars
<1>8. CASE Interrupt
  <2>1. pc' # "start" \/ UNCHANGED <<case, pc, plan, active>>
    BY <1>8 DEF Interrupt, Exit, runVars
  <2>. QED  BY <1>2, <1>3, <2>1
<1>9. CASE UNCHANGED vars
  BY <1>3, <1>9 DEF vars, runVars
<1>. QED  BY <1>1, <1>4, <1>5, <1>6, <1>7, <1>8, <1>9 DEF Next, Over

(* What --changed leaves out could not have changed, as far as its globs   *)
(* are written as git writes names, and --job brings whatever the jobs     *)
(* build on: for every plan that the validator accepts.                    *)
THEOREM SelectionIsCovered == Spec => []SelectionCovers
<1>1. Init => PlanInv /\ SelectionCovers
  BY DEF Init, PlanInv, SelectionCovers, Accepted, Selecting
<1>2. PlanInv /\ SelectionCovers /\ [Next]_vars => (PlanInv /\ SelectionCovers)'
  BY PlanNext, SelectionNext
<1>. QED  BY <1>1, <1>2, PTL DEF Spec

LEMMA PlanIsAccepted ==
  ASSUME PlanInv
  PROVE  AcceptedRuns
<1>1. WellFormed(case.jobs) /\ PlanTyped(ExpandMatrix(case.jobs))
  BY CaseFacts DEF PlanInv
<1>2. ASSUME pc = "validate" PROVE (Validate(plan) = {}) = Sound(plan) /\ CyclesAreReal(plan)
  <2>1. PlanTyped(plan)
    BY <1>1, <1>2 DEF PlanInv
  <2>2. Validate(plan) = {} <=> Sound(plan)
    BY <2>1, ValidateFacts
  <2>3. (Validate(plan) = {}) = Sound(plan)
    BY <2>2 DEF Sound
  <2>. QED  BY <2>1, <2>3, PlanNodes, JobCycleFacts
<1>3. ASSUME pc = "mode" PROVE Ordered(plan) /\ NeedsCarriedOver(case.jobs)
  <2>1. plan = ExpandMatrix(case.jobs) /\ Validate(plan) = {}
    BY <1>3 DEF PlanInv, Accepted
  <2>2. Checked(plan) /\ Grounded(plan)
    BY <1>1, <2>1, ValidChecked, ValidateFacts DEF Sound
  <2>. QED  BY <1>1, <2>1, <2>2, OrderedIfGrounded, CarriedOver
<1>. QED  BY <1>2, <1>3 DEF AcceptedRuns

(* The validator rejects a plan exactly if it must, and the graph of one   *)
(* that it accepts can be executed, for plans of any size and shape.       *)
THEOREM RunsAreAccepted == Spec => []AcceptedRuns
<1>1. Init => PlanInv
  BY DEF Init, PlanInv, Accepted, Selecting
<1>2. PlanInv /\ [Next]_vars => PlanInv'
  BY PlanNext
<1>3. PlanInv => AcceptedRuns
  BY PlanIsAccepted
<1>. QED  BY <1>1, <1>2, <1>3, PTL DEF Spec

(* The parser of conditions computes what the grammar says, for conditions *)
(* of any length, in any context.                                          *)
THEOREM ConditionsAgree == Spec => []EvalAgrees
<1>1. Init => PlanInv
  BY DEF Init, PlanInv, Accepted, Selecting
<1>2. PlanInv /\ [Next]_vars => PlanInv'
  BY PlanNext
<1>3. PlanInv => EvalAgrees
  <2>. SUFFICES ASSUME PlanInv, NEW j \in ToSet(case.jobs), NEW ctx \in Probes PROVE E!Agrees(j.cond, ctx)
    BY DEF EvalAgrees
  <2>1. IsSequence(j.cond)
    BY CaseFacts DEF PlanInv, WellFormed
  <2>. QED  BY <2>1, ParserAgrees
<1>. QED  BY <1>1, <1>2, <1>3, PTL DEF Spec

------------------------------------------------------------------------------
(* The graph of what is run                                                *)

(* In every set of selected jobs there is one that needs none of the set.  *)
Acyclic ==
  /\ active \subseteq Jobs
  /\ needs \in [Jobs -> SUBSET Jobs]
  /\ \A id \in active : needs[id] \subseteq active
  /\ \A S \in SUBSET active : S # {} => \E id \in S : needs[id] \cap S = {}

GraphInv ==
  /\ pc \in {"mode", "select"} => Grounded(plan)
  /\ pc = "select" => ToSet(TopoOrder(plan)) = Ids(plan)
  /\ pc = "start" => active \subseteq ToSet(TopoOrder(plan))
  /\ Acyclic

LEMMA OnlyIsAcyclic ==
  ASSUME Acyclic, Checked(plan), Grounded(plan), Ids(plan) \subseteq Jobs,
         NEW ids \in SUBSET Ids(plan), Only(ids)
  PROVE  Acyclic'
<1>1. active' = ids /\ needs' = [id \in Jobs |-> IF id \in ids THEN ToSet(Needs(plan, id)) \cap ids ELSE {}]
  BY DEF Only
<1>2. active' \subseteq Jobs /\ needs' \in [Jobs -> SUBSET Jobs]
  BY <1>1
<1>3. \A id \in ids : needs'[id] = ToSet(Needs(plan, id)) \cap ids
  BY <1>1
<1>4. ASSUME NEW S \in SUBSET ids, S # {} PROVE \E id \in S : needs'[id] \cap S = {}
  <2>1. S \in (SUBSET Ids(plan)) \ {{}}
    BY <1>4
  <2>2. PICK id \in S : \A i \in DOMAIN plan : plan[i].id = id => ToSet(plan[i].needs) \cap S = {}
    BY <2>1 DEF Grounded
  <2>3. PICK i \in DOMAIN plan : plan[i].id = id
    BY DEF Ids
  <2>4. Needs(plan, id) = plan[i].needs
    BY <2>3, NeedsIs DEF ToSet
  <2>5. needs'[id] \cap S = {}
    BY <1>3, <2>2, <2>3, <2>4
  <2>. QED  BY <2>5
<1>. QED  BY <1>1, <1>2, <1>3, <1>4 DEF Acyclic

LEMMA SelectGraph ==
  ASSUME PlanInv, GraphInv, Select
  PROVE  GraphInv'
<1>1. pc = "select" /\ UNCHANGED <<case, plan>> /\ Checked(plan) /\ Grounded(plan) /\ ToSet(TopoOrder(plan)) = Ids(plan)
  BY PlanIsChecked DEF Select, Accepted, GraphInv
<1>2. Ids(plan) \subseteq Jobs
  BY <1>1, CaseFacts DEF PlanInv, Selecting
<1>3. \/ pc' = "exit" /\ UNCHANGED runVars
      \/ pc' = "start" /\ \E ids \in SUBSET Ids(plan) : Only(ids)
  <2>1. CASE opts.job # {}
    <3>. DEFINE S == UNION {Subgraph(plan, id) : id \in opts.job}
    <3>1. CASE opts.job \subseteq Ids(plan)
      <4>1. Only(S) /\ pc' = "start"
        BY <2>1, <3>1 DEF Select, Goto
      <4>2. S \subseteq Ids(plan)
        BY <1>1, <3>1, SubgraphFacts
      <4>. HIDE DEF S
      <4>. QED  BY <4>1, <4>2
    <3>2. CASE ~ (opts.job \subseteq Ids(plan))
      BY <2>1, <3>2 DEF Select, Exit
    <3>. QED  BY <3>1, <3>2
  <2>2. CASE opts.job = {} /\ opts.changed
    <3>. DEFINE direct == {j.id : j \in {x \in ToSet(plan) : Touched(x, ChangedFiles, case.longer)}}
                S == AffectedJobs(plan, ChangedFiles, case.longer)
    <3>1. S = Affected(plan, direct)
      BY DEF AffectedJobs
    <3>2. direct \subseteq Ids(plan)
      BY DEF Ids, ToSet
    <3>. HIDE DEF direct
    <3>3. S \subseteq Ids(plan)
      BY <1>1, <3>1, <3>2, AffectedFacts
    <3>4. \/ pc' = "exit" /\ UNCHANGED runVars
          \/ pc' = "start" /\ Only(S)
      BY <2>2 DEF Select, Goto, Exit
    <3>. HIDE DEF S
    <3>. QED  BY <3>3, <3>4
  <2>3. CASE opts.job = {} /\ ~ opts.changed
    BY <2>3 DEF Select, Goto
  <2>. QED  BY <2>1, <2>2, <2>3
<1>4. CASE pc' = "exit" /\ UNCHANGED runVars
  BY <1>4 DEF GraphInv, Acyclic, runVars
<1>5. CASE pc' = "start" /\ \E ids \in SUBSET Ids(plan) : Only(ids)
  <2>1. PICK ids \in SUBSET Ids(plan) : Only(ids)
    BY <1>5
  <2>2. Acyclic'
    BY <1>1, <1>2, <2>1, OnlyIsAcyclic DEF GraphInv
  <2>3. active' \subseteq ToSet(TopoOrder(plan))
    BY <1>1, <2>1 DEF Only
  <2>. QED  BY <1>1, <1>5, <2>2, <2>3 DEF GraphInv
<1>. QED  BY <1>3, <1>4, <1>5

LEMMA GraphNext ==
  ASSUME PlanInv, GraphInv, [Next]_vars
  PROVE  GraphInv'
<1>1. CASE Select
  BY <1>1, SelectGraph
<1>2. CASE UNCHANGED <<plan, active, needs>> /\ (pc' = pc \/ pc' \in {"exit", "run", "notify", "report"})
  <2>1. Acyclic'
    BY <1>2 DEF GraphInv, Acyclic
  <2>. QED  BY <1>2, <2>1 DEF GraphInv
<1>3. CASE Load
  <2>1. UNCHANGED <<active, needs>> /\ pc' \in {"validate", "exit"}
    BY <1>3 DEF Load, Goto, Exit, runVars
  <2>. QED  BY <2>1 DEF GraphInv, Acyclic
<1>4. CASE ValidatePlan
  <2>1. UNCHANGED <<plan, active, needs>> /\ pc = "validate" /\ pc' \in {"mode", "exit"}
        /\ (pc' = "mode" => Validate(plan) = {})
    BY <1>4 DEF ValidatePlan, Goto, Exit, runVars
  <2>2. pc' = "mode" => Grounded(plan)
    BY <2>1, PlanIsAccepted DEF AcceptedRuns, Sound
  <2>. QED  BY <2>1, <2>2 DEF GraphInv, Acyclic
<1>5. CASE Mode
  <2>1. UNCHANGED <<plan, active, needs>> /\ pc = "mode" /\ pc' \in {"select", "exit"}
    BY <1>5 DEF Mode, Goto, Exit, runVars
  <2>2. ToSet(TopoOrder(plan)) = Ids(plan)
    BY <2>1, PlanIsAccepted DEF AcceptedRuns, Ordered
  <2>. QED  BY <2>1, <2>2 DEF GraphInv, Acyclic
<1>6. CASE Start \/ Return \/ Notify \/ Report
  <2>1. UNCHANGED <<plan, active, needs>> /\ pc' \in {"exit", "run", "notify", "report"}
    BY <1>6 DEF Start, Return, Notify, Report, D!Return, Goto, Exit, runVars
  <2>. QED  BY <1>2, <2>1
<1>7. CASE Launch
  BY <1>2, <1>7 DEF Launch, D!Advance
<1>8. ASSUME NEW id \in active, Settle(id) \/ Finish(id) \/ Tell(id) PROVE GraphInv'
  <2>1. UNCHANGED <<plan, pc, active, needs>>
    BY <1>8 DEF Settle, Finish, Tell, D!End, runVars
  <2>. QED  BY <1>2, <2>1
<1>9. ASSUME NEW m \in flight, Deliver(m) PROVE GraphInv'
  BY <1>2, <1>9 DEF Deliver, runVars
<1>10. CASE Interrupt
  BY <1>2, <1>10 DEF Interrupt, Exit, runVars
<1>11. CASE UNCHANGED vars
  BY <1>2, <1>11 DEF vars, runVars
<1>. QED  BY <1>1, <1>3, <1>4, <1>5, <1>6, <1>7, <1>8, <1>9, <1>10, <1>11 DEF Next, Over

------------------------------------------------------------------------------
(* The run and what is said about it                                       *)

Early == {"load", "validate", "mode", "select", "start"}
Undecided == {"nothing", "running"}

(* What the observer may have been told last of a job with this status.    *)
Told(s) == CASE s = "waiting"  -> {"nothing"}
             [] s = "running"  -> Undecided
             [] s = "blocked"  -> {"skipped"}
             [] s \in D!Ended  -> Undecided \cup {Final(s)}

Typed ==
  /\ status \in [Jobs -> D!Statuses]
  /\ told \in [Jobs -> Undecided \cup {"ok", "skipped", "failed"}]
  /\ verdict \in {"none", "passed", "failed"}
  /\ interrupted \in BOOLEAN

Phases ==
  /\ pc \in Early \cup {"run"} => verdict = "none"
  /\ pc \in {"notify", "report"} => verdict # "none"
  /\ pc \in Early => /\ \A id \in Jobs : status[id] = "waiting" /\ told[id] = "nothing"
                     /\ digest = <<>>

JobsInv ==
  /\ \A id \in Jobs : told[id] \in Told(status[id])
  /\ \A id \in Jobs \ active : status[id] = "waiting"
  /\ \A id \in active : status[id] = "blocked" => \E n \in needs[id] : status[n] \in D!Bad

DigestInv ==
  /\ digest \in Seq(Jobs)
  /\ \A id \in Jobs : id \in ToSet(digest) <=> told[id] = "failed"
  /\ IsFiniteSet(ToSet(digest)) /\ Cardinality(ToSet(digest)) = Len(digest)

(* The dashboard, once there is one.                                       *)
Display == [id \in active |-> IF told[id] = "nothing" THEN "pending" ELSE told[id]]
Displayed == pc \in {"run", "notify", "report"} \/ verdict # "none"
DisplayInv == opts.tui /\ Displayed => shown = Display

(* What holds from the return of the scheduler on.                         *)
SettledInv ==
  verdict # "none" =>
    /\ \A id \in Jobs : status[id] # "running"
    /\ D!Startable = {}
    /\ \A id \in active : status[id] \in D!Ended => told[id] \notin Undecided
    /\ verdict = IF \E id \in Jobs : status[id] \in D!Bad THEN "failed" ELSE "passed"

ReportInv ==
  /\ pc = "exit" /\ verdict # "none" => exit = IF verdict = "failed" THEN 1 ELSE 0
  /\ pc \in {"report", "exit"} /\ verdict # "none" => FinalAttempted

RunInv == Typed /\ Phases /\ JobsInv /\ DigestInv /\ DisplayInv /\ SettledInv /\ ReportInv

(* The steps of the run: a job ends, or the observer is told of one.       *)
Ends(id, how) ==
  /\ pc = "run" /\ id \in active /\ status[id] = "running" /\ how \in D!Ended
  /\ status' = [status EXCEPT ![id] = how]
  /\ UNCHANGED <<case, pc, plan, active, needs, verdict, reportVars, interrupted, exit>>

Hears(id, what) ==
  /\ pc = "run" /\ id \in active /\ told[id] \in Undecided
  /\ \/ what = "running" /\ status[id] = "running"
     \/ status[id] \in D!Ended /\ what = Final(status[id])
  /\ Observe(id, what)
  /\ UNCHANGED <<case, pc, plan, runVars, delivered, refused, interrupted, exit>>

LEMMA StepsOfTheRun ==
  ASSUME NEW id \in active, Settle(id) \/ Finish(id) \/ Tell(id)
  PROVE  \E x : Ends(id, x) \/ Hears(id, x)
<1>1. CASE Settle(id)
  <2>1. /\ pc = "run" /\ status[id] = "running" /\ told[id] = "nothing"
        /\ UNCHANGED <<case, pc, plan, delivered, refused, interrupted, exit>>
    BY <1>1 DEF Settle, Running
  <2>2. \/ \E how \in D!Ended : D!End(id, how) /\ TellNothing
        \/ Observe(id, "running") /\ UNCHANGED runVars
    BY <1>1 DEF Settle, D!Ended, D!Satisfied
  <2>3. ASSUME NEW how \in D!Ended, D!End(id, how), TellNothing PROVE Ends(id, how)
    BY <2>1, <2>3 DEF Ends, D!End, TellNothing, reportVars
  <2>4. CASE Observe(id, "running") /\ UNCHANGED runVars
    <3>1. Hears(id, "running")
      BY <2>1, <2>4 DEF Hears, Undecided
    <3>. QED  BY <3>1
  <2>. QED  BY <2>2, <2>3, <2>4
<1>2. CASE Finish(id)
  <2>1. /\ pc = "run" /\ status[id] = "running"
        /\ UNCHANGED <<case, pc, plan, reportVars, interrupted, exit>>
    BY <1>2 DEF Finish, Running
  <2>2. \E how \in D!Ended : D!End(id, how)
    BY <1>2 DEF Finish, D!Ended, D!Satisfied
  <2>3. ASSUME NEW how \in D!Ended, D!End(id, how) PROVE Ends(id, how)
    BY <2>1, <2>3 DEF Ends, D!End
  <2>. QED  BY <2>2, <2>3
<1>3. CASE Tell(id)
  <2>1. Hears(id, Final(status[id]))
    BY <1>3 DEF Tell, Hears, Undecided
  <2>. QED  BY <2>1
<1>. QED  BY <1>1, <1>2, <1>3

LEMMA ToldFacts ==
  /\ Told("waiting") = {"nothing"} /\ Told("running") = Undecided /\ Told("blocked") = {"skipped"}
  /\ \A s \in D!Ended : Told(s) = Undecided \cup {Final(s)} /\ Final(s) \in {"ok", "skipped", "failed"}
<1>1. D!Ended = {"succeeded", "tolerated", "skipped", "failed"}
  BY DEF D!Ended, D!Satisfied
<1>2. \A s \in D!Ended : Final(s) \in {"ok", "skipped", "failed"}
  BY DEF Final
<1>. QED  BY <1>1, <1>2 DEF Told

LEMMA EndsKeeps ==
  ASSUME RunInv, GraphInv, NEW id, NEW how, Ends(id, how)
  PROVE  RunInv'
<1>. DEFINE s == status[id]
<1>1. /\ pc = "run" /\ id \in Jobs /\ id \in active /\ status[id] = "running" /\ how \in D!Ended
      /\ status' = [status EXCEPT ![id] = how]
      /\ UNCHANGED <<case, pc, plan, active, needs, verdict, told, shown, digest, flight, delivered, refused, interrupted, exit>>
  BY DEF Ends, reportVars, GraphInv, Acyclic
<1>2. /\ status \in [Jobs -> D!Statuses] /\ status'[id] = how
      /\ \A x \in Jobs : x # id => status'[x] = status[x]
  BY <1>1 DEF RunInv, Typed
<1>3. verdict = "none"
  BY <1>1 DEF RunInv, Phases
<1>4. how \in D!Statuses /\ how \notin {"waiting", "running", "blocked"}
  BY <1>1 DEF D!Statuses, D!Ended, D!Satisfied
<1>5. Typed'
  BY <1>1, <1>2, <1>4 DEF RunInv, Typed
<1>6. Phases'
  BY <1>1, <1>3 DEF Phases, Early
<1>7. JobsInv'
  <2>1. told[id] \in Told(how)
    <3>1. told[id] \in Undecided
      BY <1>1, ToldFacts DEF RunInv, JobsInv
    <3>2. Told(how) = Undecided \cup {Final(how)}
      BY <1>1, ToldFacts
    <3>. QED  BY <3>1, <3>2
  <2>2. \A x \in Jobs : told'[x] \in Told(status'[x])
    BY <1>1, <1>2, <2>1 DEF RunInv, JobsInv
  <2>3. \A x \in Jobs \ active : status'[x] = "waiting"
    BY <1>1, <1>2 DEF RunInv, JobsInv
  <2>4. ASSUME NEW x \in active, status'[x] = "blocked" PROVE \E n \in needs[x] : status'[n] \in D!Bad
    <3>1. x # id /\ x \in Jobs /\ status[x] = "blocked"
      BY <1>2, <1>4, <2>4 DEF GraphInv, Acyclic
    <3>2. PICK n \in needs[x] : status[n] \in D!Bad
      BY <3>1 DEF RunInv, JobsInv
    <3>3. n \in Jobs /\ n # id
      BY <1>1, <3>1, <3>2 DEF D!Bad, GraphInv, Acyclic
    <3>. QED  BY <1>2, <3>2, <3>3
  <2>. QED  BY <1>1, <2>2, <2>3, <2>4 DEF JobsInv
<1>8. DigestInv'
  BY <1>1 DEF RunInv, DigestInv
<1>9. DisplayInv'
  BY <1>1 DEF RunInv, DisplayInv, Display, Displayed, opts
<1>10. SettledInv' /\ ReportInv'
  BY <1>1, <1>3 DEF SettledInv, ReportInv
<1>. QED  BY <1>5, <1>6, <1>7, <1>8, <1>9, <1>10 DEF RunInv

LEMMA HearsKeeps ==
  ASSUME RunInv, GraphInv, NEW id, NEW what, Hears(id, what)
  PROVE  RunInv'
<1>1. /\ pc = "run" /\ id \in Jobs /\ id \in active /\ told[id] \in Undecided
      /\ told' = [told EXCEPT ![id] = what] /\ shown' = Show(id, what)
      /\ digest' = IF what = "failed" THEN Append(digest, id) ELSE digest
      /\ UNCHANGED <<case, pc, plan, active, needs, status, verdict, delivered, refused, interrupted, exit>>
  BY DEF Hears, Observe, runVars, GraphInv, Acyclic
<1>2. /\ told \in [Jobs -> Undecided \cup {"ok", "skipped", "failed"}]
  BY DEF RunInv, Typed
<1>3. verdict = "none"
  BY <1>1 DEF RunInv, Phases
<1>4. what \in Undecided \cup {"ok", "skipped", "failed"} /\ what # "nothing" /\ what \in Told(status[id])
  <2>1. CASE what = "running" /\ status[id] = "running"
    BY <2>1 DEF Told, Undecided
  <2>2. CASE status[id] \in D!Ended /\ what = Final(status[id])
    <3>1. what \in {"ok", "skipped", "failed"}
      BY <2>2 DEF Final
    <3>2. status[id] \notin {"waiting", "running", "blocked"}
      BY <2>2 DEF D!Ended, D!Satisfied
    <3>3. what \in Told(status[id])
      BY <2>2, <3>2 DEF Told
    <3>. QED  BY <3>1, <3>3
  <2>. QED  BY <2>1, <2>2 DEF Hears
<1>5. told'[id] = what /\ \A x \in Jobs : x # id => told'[x] = told[x]
  BY <1>1, <1>2
<1>6. Typed'
  BY <1>1, <1>2, <1>4 DEF RunInv, Typed
<1>7. Phases'
  BY <1>1, <1>3 DEF Phases, Early
<1>8. JobsInv'
  <2>1. \A x \in Jobs : told'[x] \in Told(status[x])
    BY <1>4, <1>5 DEF RunInv, JobsInv
  <2>. QED  BY <1>1, <2>1 DEF RunInv, JobsInv
<1>9. DigestInv'
  <2>1. /\ digest \in Seq(Jobs) /\ \A x \in Jobs : x \in ToSet(digest) <=> told[x] = "failed"
        /\ IsFiniteSet(ToSet(digest)) /\ Cardinality(ToSet(digest)) = Len(digest)
    BY DEF RunInv, DigestInv
  <2>2. CASE what = "failed"
    <3>1. digest' = Append(digest, id)
      BY <1>1, <2>2
    <3>2. digest' \in Seq(Jobs) /\ Len(digest') = Len(digest) + 1
      BY <1>1, <2>1, <3>1
    <3>3. ToSet(digest') = ToSet(digest) \cup {id}
      BY <1>1, <2>1, <3>1 DEF ToSet
    <3>4. id \notin ToSet(digest)
      BY <1>1, <2>1 DEF Undecided
    <3>5. IsFiniteSet(ToSet(digest')) /\ Cardinality(ToSet(digest')) = Cardinality(ToSet(digest)) + 1
      BY <2>1, <3>3, <3>4, FS_AddElement
    <3>6. \A x \in Jobs : x \in ToSet(digest') <=> told'[x] = "failed"
      BY <1>5, <2>1, <2>2, <3>3
    <3>. QED  BY <2>1, <3>2, <3>5, <3>6 DEF DigestInv
  <2>3. CASE what # "failed"
    <3>1. digest' = digest
      BY <1>1, <2>3
    <3>2. told[id] # "failed" /\ told'[id] # "failed"
      BY <1>1, <1>5, <2>3 DEF Undecided
    <3>. QED  BY <1>5, <2>1, <3>1, <3>2 DEF DigestInv
  <2>. QED  BY <2>2, <2>3
<1>10. DisplayInv'
  <2>. SUFFICES ASSUME opts.tui PROVE shown' = Display'
    BY <1>1 DEF DisplayInv, opts
  <2>1. shown = Display
    BY <1>1 DEF RunInv, DisplayInv, Displayed
  <2>2. shown' = [x \in active \cup {id} |-> IF x = id THEN what ELSE shown[x]]
    BY <1>1, <2>1 DEF Show, Display
  <2>3. active \cup {id} = active
    BY <1>1
  <2>4. \A x \in active : (IF x = id THEN what ELSE shown[x]) = IF told'[x] = "nothing" THEN "pending" ELSE told'[x]
    <3>1. \A x \in active : x \in Jobs
      BY DEF GraphInv, Acyclic
    <3>. QED  BY <1>4, <1>5, <2>1, <3>1 DEF Display
  <2>. QED  BY <1>1, <2>2, <2>3, <2>4 DEF Display
<1>11. SettledInv' /\ ReportInv'
  BY <1>1, <1>3 DEF SettledInv, ReportInv
<1>. QED  BY <1>6, <1>7, <1>8, <1>9, <1>10, <1>11 DEF RunInv

(* Jobs are started, and others marked as blocked and told of.             *)
LEMMA LaunchKeeps ==
  ASSUME RunInv, GraphInv, Launch
  PROVE  RunInv'
<1>. DEFINE marked == {id \in active : status'[id] = "blocked" /\ status[id] # "blocked"}
<1>1. /\ pc = "run" /\ verdict = "none"
      /\ told' = [id \in Jobs |-> IF id \in marked THEN "skipped" ELSE told[id]]
      /\ shown' = IF opts.tui THEN [id \in (DOMAIN shown) \cup marked |->
                                      IF id \in marked THEN "skipped" ELSE shown[id]]
                              ELSE shown
      /\ UNCHANGED <<case, pc, plan, active, needs, verdict, digest, flight, delivered, refused, interrupted, exit>>
  BY DEF Launch, D!Advance
<1>2. PICK B \in SUBSET (D!Waiting \ D!Startable) :
        /\ \A j \in B : \E n \in needs[j] : status[n] \in D!Bad \/ n \in B
        /\ status' = [j \in Jobs |-> CASE j \in D!Startable -> "running"
                                       [] j \in B           -> "blocked"
                                       [] OTHER             -> status[j]]
  BY DEF Launch, D!Advance
<1>3. active \subseteq Jobs /\ \A id \in active : needs[id] \subseteq active
  BY DEF GraphInv, Acyclic
<1>4. /\ D!Startable \subseteq active /\ B \subseteq active /\ B \cap D!Startable = {}
      /\ \A j \in D!Startable \cup B : status[j] = "waiting"
  BY DEF D!Startable, D!Waiting
<1>5. \A j \in Jobs : /\ j \in D!Startable => status'[j] = "running"
                      /\ j \in B => status'[j] = "blocked"
                      /\ j \notin D!Startable \cup B => status'[j] = status[j]
  BY <1>2, <1>4
<1>6. marked = B
  <2>1. \A j \in B : j \in marked
    BY <1>3, <1>4, <1>5
  <2>2. \A j \in marked : j \in B
    BY <1>3, <1>4, <1>5
  <2>. HIDE DEF marked
  <2>. QED  BY <2>1, <2>2, <1>4
<1>. HIDE DEF marked
<1>7. /\ status \in [Jobs -> D!Statuses] /\ told \in [Jobs -> Undecided \cup {"ok", "skipped", "failed"}]
      /\ \A j \in Jobs : told[j] \in Told(status[j])
  BY DEF RunInv, Typed, JobsInv
<1>8. \A j \in D!Startable \cup B : told[j] = "nothing"
  BY <1>3, <1>4, <1>7, ToldFacts
<1>9. \A j \in Jobs : told'[j] = IF j \in B THEN "skipped" ELSE told[j]
  BY <1>1, <1>6
<1>10. Typed'
  <2>1. "running" \in D!Statuses /\ "blocked" \in D!Statuses
    BY DEF D!Statuses, D!Ended, D!Satisfied
  <2>2. status' = [j \in Jobs |-> status'[j]]
    BY <1>2
  <2>3. \A j \in Jobs : status'[j] \in D!Statuses
    BY <1>5, <1>7, <2>1
  <2>4. status' \in [Jobs -> D!Statuses]
    BY <2>2, <2>3
  <2>5. told' \in [Jobs -> Undecided \cup {"ok", "skipped", "failed"}]
    <3>1. told' = [j \in Jobs |-> told'[j]]
      BY <1>1
    <3>. QED  BY <1>7, <1>9, <3>1
  <2>. QED  BY <1>1, <2>4, <2>5 DEF RunInv, Typed
<1>11. Phases'
  BY <1>1 DEF Phases, Early
<1>12. JobsInv'
  <2>1. ASSUME NEW j \in Jobs PROVE told'[j] \in Told(status'[j])
    <3>1. CASE j \in B
      BY <1>5, <1>9, <3>1, ToldFacts
    <3>2. CASE j \in D!Startable
      <4>1. told'[j] = "nothing" /\ status'[j] = "running"
        BY <1>4, <1>5, <1>8, <1>9, <3>2
      <4>. QED  BY <4>1, ToldFacts DEF Undecided
    <3>3. CASE j \notin D!Startable \cup B
      BY <1>5, <1>7, <1>9, <3>3
    <3>. QED  BY <3>1, <3>2, <3>3
  <2>2. \A j \in Jobs \ active : status'[j] = "waiting"
    BY <1>4, <1>5 DEF RunInv, JobsInv
  <2>3. ASSUME NEW j \in active, status'[j] = "blocked" PROVE \E n \in needs[j] : status'[n] \in D!Bad
    <3>1. \A n \in Jobs : status[n] \in D!Bad => status'[n] \in D!Bad
      <4>1. \A n \in D!Startable \cup B : status[n] \notin D!Bad
        BY <1>4 DEF D!Bad
      <4>. QED  BY <1>5, <4>1
    <3>2. \A n \in B : status'[n] \in D!Bad
      BY <1>3, <1>4, <1>5 DEF D!Bad
    <3>3. PICK n \in needs[j] : status[n] \in D!Bad \/ n \in B
      <4>1. CASE j \in B
        BY <1>2, <4>1
      <4>2. CASE j \notin B
        <5>1. status[j] = "blocked"
          BY <1>3, <1>5, <2>3, <4>2
        <5>. QED  BY <5>1 DEF RunInv, JobsInv
      <4>. QED  BY <4>1, <4>2
    <3>4. n \in Jobs
      BY <1>3, <3>3
    <3>. QED  BY <3>1, <3>2, <3>3, <3>4
  <2>. QED  BY <1>1, <2>1, <2>2, <2>3 DEF JobsInv
<1>13. DigestInv'
  <2>1. \A j \in Jobs : told'[j] = "failed" <=> told[j] = "failed"
    BY <1>3, <1>4, <1>8, <1>9
  <2>. QED  BY <1>1, <2>1 DEF RunInv, DigestInv
<1>14. DisplayInv'
  <2>. SUFFICES ASSUME opts.tui PROVE shown' = Display'
    BY <1>1 DEF DisplayInv, opts
  <2>1. shown = Display
    BY <1>1 DEF RunInv, DisplayInv, Displayed
  <2>2. DOMAIN shown = active /\ active \cup B = active
    BY <1>4, <2>1 DEF Display
  <2>3. shown' = [j \in active |-> IF j \in B THEN "skipped" ELSE shown[j]]
    BY <1>1, <1>6, <2>2
  <2>4. \A j \in active : (IF j \in B THEN "skipped" ELSE shown[j]) = IF told'[j] = "nothing" THEN "pending" ELSE told'[j]
    BY <1>3, <1>9, <2>1 DEF Display
  <2>. QED  BY <1>1, <2>3, <2>4 DEF Display
<1>15. SettledInv' /\ ReportInv'
  BY <1>1 DEF SettledInv, ReportInv
<1>. QED  BY <1>10, <1>11, <1>12, <1>13, <1>14, <1>15 DEF RunInv

LEMMA ReturnKeeps ==
  ASSUME RunInv, GraphInv, Return
  PROVE  RunInv'
<1>1. /\ pc = "run" /\ pc' = "notify" /\ UNCHANGED exit
      /\ \A id \in active : status[id] \in D!Ended => told[id] \notin Undecided
      /\ verdict = "none" /\ \A id \in Jobs : status[id] # "running"
      /\ D!Startable = {}
      /\ verdict' = IF \E id \in Jobs : status[id] \in D!Bad THEN "failed" ELSE "passed"
      /\ UNCHANGED <<case, plan, active, needs, status, told, shown, digest, flight, delivered, refused, interrupted>>
  BY DEF Return, D!Return, Goto, Undecided, reportVars
<1>2. Typed' /\ Phases'
  BY <1>1 DEF RunInv, Typed, Phases, Early
<1>3. JobsInv' /\ DigestInv'
  BY <1>1 DEF RunInv, JobsInv, DigestInv
<1>4. DisplayInv'
  BY <1>1 DEF RunInv, DisplayInv, Displayed, Display, opts
<1>5. SettledInv'
  <2>1. D!Startable' = D!Startable
    BY <1>1 DEF D!Startable, D!Waiting
  <2>. QED  BY <1>1, <2>1 DEF SettledInv
<1>6. ReportInv'
  BY <1>1 DEF ReportInv
<1>. QED  BY <1>2, <1>3, <1>4, <1>5, <1>6 DEF RunInv

(* Whatever leaves the run and what is said of it alone.                   *)
LEMMA RunFrame ==
  ASSUME RunInv, UNCHANGED <<case, active, needs, status, verdict, told, shown, digest>>,
         pc' = pc \/ pc' = "exit" \/ (pc \in Early /\ pc' \in Early)
         \/ (pc \in {"notify", "report"} /\ pc' \in {"notify", "report"}),
         interrupted' \in BOOLEAN, ReportInv'
  PROVE  RunInv'
<1>1. Typed' /\ JobsInv' /\ DigestInv'
  BY DEF RunInv, Typed, JobsInv, DigestInv
<1>2. Phases'
  BY DEF RunInv, Phases, Early
<1>3. DisplayInv'
  <2>1. Displayed' => Displayed
    BY DEF Displayed, Early
  <2>. QED  BY <2>1 DEF RunInv, DisplayInv, Display, opts
<1>4. SettledInv'
  <2>1. D!Startable' = D!Startable
    BY DEF D!Startable, D!Waiting
  <2>. QED  BY <2>1 DEF RunInv, SettledInv
<1>. QED  BY <1>1, <1>2, <1>3, <1>4 DEF RunInv

LEMMA SelectKeeps ==
  ASSUME RunInv, GraphInv', Select
  PROVE  RunInv'
<1>1. /\ pc = "select" /\ pc' \in {"start", "exit"}
      /\ UNCHANGED <<case, plan, status, verdict, told, shown, digest, flight, delivered, refused, interrupted>>
  BY DEF Select, Only, Goto, Exit, runVars, reportVars
<1>2. verdict = "none" /\ \A id \in Jobs : status[id] = "waiting" /\ told[id] = "nothing"
  BY <1>1 DEF RunInv, Phases, Early
<1>3. Typed' /\ DigestInv' /\ SettledInv' /\ ReportInv'
  BY <1>1, <1>2 DEF RunInv, Typed, DigestInv, SettledInv, ReportInv
<1>4. Phases'
  BY <1>1, <1>2 DEF RunInv, Phases, Early
<1>5. JobsInv'
  <2>1. active' \subseteq Jobs
    BY DEF GraphInv, Acyclic
  <2>. QED  BY <1>1, <1>2, <2>1, ToldFacts DEF JobsInv
<1>6. DisplayInv'
  BY <1>1, <1>2 DEF DisplayInv, Displayed
<1>. QED  BY <1>3, <1>4, <1>5, <1>6 DEF RunInv

LEMMA StartKeeps ==
  ASSUME RunInv, GraphInv, Start
  PROVE  RunInv'
<1>1. /\ pc = "start" /\ pc' = "run"
      /\ shown' = IF opts.tui THEN [id \in ToSet(TopoOrder(plan)) \cap active |-> "pending"] ELSE shown
      /\ UNCHANGED <<case, plan, active, needs, status, verdict, told, digest, delivered, refused, interrupted>>
  BY DEF Start, Goto, runVars
<1>2. verdict = "none" /\ \A id \in Jobs : told[id] = "nothing"
  BY <1>1 DEF RunInv, Phases, Early
<1>3. Typed' /\ JobsInv' /\ DigestInv' /\ SettledInv' /\ ReportInv'
  BY <1>1, <1>2 DEF RunInv, Typed, JobsInv, DigestInv, SettledInv, ReportInv
<1>4. Phases'
  BY <1>1, <1>2 DEF Phases, Early
<1>5. DisplayInv'
  <2>. SUFFICES ASSUME opts.tui PROVE shown' = Display'
    BY <1>1 DEF DisplayInv, opts
  <2>1. ToSet(TopoOrder(plan)) \cap active = active /\ active \subseteq Jobs
    BY <1>1 DEF GraphInv, Acyclic
  <2>2. shown' = [id \in active |-> "pending"]
    BY <1>1, <2>1
  <2>3. \A id \in active : told'[id] = "nothing"
    BY <1>1, <1>2, <2>1
  <2>. QED  BY <1>1, <2>2, <2>3 DEF Display
<1>. QED  BY <1>3, <1>4, <1>5 DEF RunInv

LEMMA RunNext ==
  ASSUME PlanInv, RunInv, GraphInv, GraphInv', [Next]_vars
  PROVE  RunInv'
<1>0. interrupted \in BOOLEAN
  BY DEF RunInv, Typed
<1>1. CASE Load \/ ValidatePlan \/ Mode
  <2>1. /\ pc \in Early /\ pc' \in Early \cup {"exit"}
        /\ UNCHANGED <<case, active, needs, status, verdict, told, shown, digest, interrupted>>
    BY <1>1 DEF Load, ValidatePlan, Mode, Goto, Exit, Early, runVars, reportVars
  <2>2. verdict = "none"
    BY <2>1 DEF RunInv, Phases
  <2>3. ReportInv'
    BY <2>1, <2>2 DEF ReportInv
  <2>. QED  BY <1>0, <2>1, <2>3, RunFrame
<1>2. CASE Select
  BY <1>2, SelectKeeps
<1>3. CASE Start
  BY <1>3, StartKeeps
<1>4. CASE Launch
  BY <1>4, LaunchKeeps
<1>5. CASE Return
  BY <1>5, ReturnKeeps
<1>6. ASSUME NEW id \in active, Settle(id) \/ Finish(id) \/ Tell(id) PROVE RunInv'
  BY <1>6, StepsOfTheRun, EndsKeeps, HearsKeeps
<1>7. CASE Notify
  <2>1. /\ pc = "notify" /\ pc' = "report"
        /\ opts.notify # {} => <<"final", verdict>> \in delivered' \cup refused'
        /\ UNCHANGED <<case, active, needs, status, verdict, told, shown, digest, interrupted>>
    BY <1>7 DEF Notify, Received, Dropped, Goto, runVars
  <2>2. FinalAttempted'
    BY <2>1 DEF FinalAttempted, opts
  <2>3. ReportInv'
    BY <2>1, <2>2 DEF ReportInv
  <2>. QED  BY <1>0, <2>1, <2>3, RunFrame
<1>8. CASE Report
  <2>1. /\ pc = "report" /\ pc' = "exit" /\ exit' = IF verdict = "failed" THEN 1 ELSE 0
        /\ UNCHANGED <<case, active, needs, status, verdict, told, shown, digest, delivered, refused, interrupted>>
    BY <1>8 DEF Report, Exit, runVars, reportVars
  <2>2. verdict # "none" => FinalAttempted
    BY <2>1 DEF RunInv, ReportInv
  <2>3. FinalAttempted' <=> FinalAttempted
    BY <2>1 DEF FinalAttempted, opts
  <2>4. ReportInv'
    BY <2>1, <2>2, <2>3 DEF ReportInv
  <2>. QED  BY <1>0, <2>1, <2>4, RunFrame
<1>9. ASSUME NEW m \in flight, Deliver(m) PROVE RunInv'
  <2>1. /\ pc # "exit" /\ delivered \subseteq delivered' /\ refused \subseteq refused'
        /\ UNCHANGED <<case, pc, active, needs, status, verdict, told, shown, digest, interrupted, exit>>
    BY <1>9 DEF Deliver, Received, Dropped, runVars
  <2>2. FinalAttempted => FinalAttempted'
    BY <2>1 DEF FinalAttempted, opts
  <2>3. ReportInv'
    BY <2>1, <2>2 DEF RunInv, ReportInv
  <2>. QED  BY <1>0, <2>1, <2>3, RunFrame
<1>10. CASE Interrupt
  <2>1. /\ pc # "exit"
        /\ UNCHANGED <<case, active, needs, status, verdict, told, shown, digest, delivered, refused>>
        /\ \/ interrupted' = TRUE /\ pc' = pc /\ exit' = exit
           \/ pc \notin {"run", "notify", "report"} /\ pc' = "exit" /\ interrupted' = interrupted
    BY <1>10 DEF Interrupt, Exit, runVars, reportVars
  <2>2. CASE interrupted' = TRUE /\ pc' = pc /\ exit' = exit
    <3>1. FinalAttempted => FinalAttempted'
      BY <2>1 DEF FinalAttempted, opts
    <3>2. ReportInv'
      BY <2>1, <2>2, <3>1 DEF RunInv, ReportInv
    <3>. QED  BY <2>1, <2>2, <3>2, RunFrame
  <2>3. CASE pc \notin {"run", "notify", "report"} /\ pc' = "exit" /\ interrupted' = interrupted
    <3>1. pc \in Early => verdict = "none"
      BY DEF RunInv, Phases
    <3>2. pc \in Early \cup {"run", "notify", "report", "exit"}
      BY DEF PlanInv, Accepted, Early
    <3>3. verdict = "none"
      BY <2>1, <2>3, <3>1, <3>2
    <3>4. ReportInv'
      BY <2>1, <3>3 DEF ReportInv
    <3>. QED  BY <1>0, <2>1, <2>3, <3>4, RunFrame
  <2>. QED  BY <2>1, <2>2, <2>3
<1>11. CASE UNCHANGED vars
  <2>1. UNCHANGED <<case, pc, active, needs, status, verdict, told, shown, digest, delivered, refused, interrupted, exit>>
    BY <1>11 DEF vars, runVars, reportVars
  <2>2. FinalAttempted' <=> FinalAttempted
    BY <2>1 DEF FinalAttempted, opts
  <2>3. ReportInv'
    BY <2>1, <2>2 DEF RunInv, ReportInv
  <2>. QED  BY <1>0, <2>1, <2>3, RunFrame
<1>. QED  BY <1>1, <1>2, <1>3, <1>4, <1>5, <1>6, <1>7, <1>8, <1>9, <1>10, <1>11 DEF Next, Over

------------------------------------------------------------------------------
(* The outcome                                                             *)

(* At the end, if nothing has failed then no selected job waits: one that  *)
(* needs none of those that do could start.  And if one is blocked then    *)
(* one has failed: a blocked one that needs no other needs it.             *)
LEMMA AtTheEnd ==
  ASSUME RunInv, GraphInv, verdict # "none"
  PROVE  /\ \A id \in active : status[id] \in D!Ended \cup {"waiting", "blocked"}
         /\ (\A id \in active : status[id] \notin D!Bad) => \A id \in active : status[id] \in D!Satisfied
         /\ (\E id \in active : status[id] \in D!Bad) => \E id \in active : status[id] = "failed"
<1>1. /\ active \subseteq Jobs /\ \A id \in active : needs[id] \subseteq active
      /\ \A S \in SUBSET active : S # {} => \E id \in S : needs[id] \cap S = {}
  BY DEF GraphInv, Acyclic
<1>2. /\ status \in [Jobs -> D!Statuses] /\ D!Startable = {}
      /\ \A id \in Jobs : status[id] # "running"
      /\ \A id \in Jobs \ active : status[id] = "waiting"
      /\ \A id \in active : status[id] = "blocked" => \E n \in needs[id] : status[n] \in D!Bad
  BY DEF RunInv, Typed, SettledInv, JobsInv
<1>3. ASSUME NEW id \in active, status[id] = "blocked" PROVE \E x \in active : status[x] = "failed"
  <2>. DEFINE S == {x \in active : status[x] = "blocked"}
  <2>1. S \in SUBSET active /\ S # {}
    BY <1>3
  <2>2. PICK x \in S : needs[x] \cap S = {}
    <3>. HIDE DEF S
    <3>. QED  BY <1>1, <2>1
  <2>3. PICK n \in needs[x] : status[n] \in D!Bad
    BY <1>2, <2>2
  <2>4. n \in active /\ n \notin S
    BY <1>1, <2>2, <2>3
  <2>5. status[n] = "failed"
    BY <2>3, <2>4 DEF D!Bad
  <2>. QED  BY <2>4, <2>5
<1>4. \A id \in active : status[id] \in D!Ended \cup {"waiting", "blocked"}
  BY <1>1, <1>2 DEF D!Statuses
<1>5. ASSUME \A id \in active : status[id] \notin D!Bad
      PROVE  \A id \in active : status[id] \in D!Satisfied
  <2>. DEFINE W == {id \in active : status[id] = "waiting"}
  <2>1. \A id \in active \ W : status[id] \in D!Satisfied
    BY <1>4, <1>5 DEF D!Ended, D!Bad
  <2>2. ASSUME W # {} PROVE FALSE
    <3>1. PICK id \in W : needs[id] \cap W = {}
      BY <1>1, <2>2
    <3>2. PICK n \in needs[id] : status[n] \notin D!Satisfied
      <4>1. id \in D!Waiting
        BY DEF D!Waiting
      <4>. QED  BY <1>2, <4>1 DEF D!Startable
    <3>3. n \in active \ W
      BY <1>1, <3>1, <3>2
    <3>. QED  BY <2>1, <3>2, <3>3
  <2>. QED  BY <2>1, <2>2
<1>6. ASSUME NEW id \in active, status[id] \in D!Bad PROVE \E x \in active : status[x] = "failed"
  BY <1>3, <1>6 DEF D!Bad
<1>. QED  BY <1>4, <1>5, <1>6

LEMMA TheOutcome ==
  ASSUME RunInv, GraphInv
  PROVE  OutcomeReported
<1>. SUFFICES ASSUME pc = "exit", verdict # "none"
              PROVE  ExitHonest /\ DigestComplete /\ DashboardAgrees /\ FinalAttempted
  BY DEF OutcomeReported
<1>1. /\ \A id \in active : id \in Jobs
      /\ \A id \in Jobs \ active : status[id] = "waiting"
      /\ \A id \in Jobs : told[id] \in Told(status[id])
  BY DEF GraphInv, Acyclic, RunInv, JobsInv
<1>2. /\ exit = IF verdict = "failed" THEN 1 ELSE 0
      /\ verdict = IF \E id \in Jobs : status[id] \in D!Bad THEN "failed" ELSE "passed"
      /\ \A id \in active : status[id] \in D!Ended => told[id] \notin Undecided
  BY DEF RunInv, ReportInv, SettledInv
<1>3. (\E id \in Jobs : status[id] \in D!Bad) <=> \E id \in active : status[id] \in D!Bad
  BY <1>1 DEF D!Bad
<1>4. \A s \in D!Satisfied : s \notin D!Bad
  BY DEF D!Satisfied, D!Bad
<1>5. (exit = 0) <=> \A id \in active : status[id] \in D!Satisfied
  BY <1>2, <1>3, <1>4, AtTheEnd
<1>6. \A id \in active : /\ status[id] \in D!Ended => told[id] = Final(status[id])
                         /\ status[id] = "blocked" => told[id] = "skipped"
                         /\ status[id] = "waiting" => told[id] = "nothing"
  BY <1>1, <1>2, ToldFacts
<1>7. /\ \A id \in active : status[id] \in D!Ended \cup {"waiting", "blocked"}
      /\ "waiting" \notin D!Ended /\ "blocked" \notin D!Ended
      /\ "failed" \in D!Ended /\ "tolerated" \in D!Ended
  BY AtTheEnd DEF D!Ended, D!Satisfied
<1>8. \A s \in D!Ended : Final(s) = "failed" <=> s \in {"failed", "tolerated"}
  BY DEF Final, D!Ended, D!Satisfied
<1>9. ExitHonest
  <2>. DEFINE good == \A id \in active : status[id] \in D!Satisfied
  <2>1. (exit = 0) = good
    BY <1>5
  <2>. QED  BY <2>1 DEF ExitHonest
<1>10. DigestComplete
  <2>1. /\ digest \in Seq(Jobs) /\ \A id \in Jobs : id \in ToSet(digest) <=> told[id] = "failed"
        /\ Cardinality(ToSet(digest)) = Len(digest)
    BY DEF RunInv, DigestInv
  <2>2. ToSet(digest) \subseteq Jobs
    BY <2>1 DEF ToSet
  <2>3. ASSUME NEW id \in Jobs
        PROVE  told[id] = "failed" <=> id \in active /\ status[id] \in {"failed", "tolerated"}
    <3>1. CASE id \notin active
      <4>1. told[id] = "nothing"
        BY <1>1, <3>1, ToldFacts
      <4>. QED  BY <3>1, <4>1
    <3>2. CASE id \in active /\ status[id] \in D!Ended
      BY <1>6, <1>8, <3>2
    <3>3. CASE id \in active /\ status[id] \notin D!Ended
      BY <1>6, <1>7, <3>3
    <3>. QED  BY <3>1, <3>2, <3>3
  <2>4. ToSet(digest) = {id \in active : status[id] \in {"failed", "tolerated"}}
    BY <1>1, <2>1, <2>2, <2>3
  <2>5. exit = 1 => digest # <<>>
    <3>. SUFFICES ASSUME exit = 1, digest = <<>> PROVE FALSE
      OBVIOUS
    <3>1. \E id \in active : status[id] \in D!Bad
      BY <1>2, <1>3
    <3>2. PICK id \in active : status[id] = "failed"
      BY <3>1, AtTheEnd
    <3>3. id \in ToSet(digest)
      BY <2>4, <3>2
    <3>4. ToSet(<<>>) = {}
      BY DEF ToSet
    <3>. QED  BY <3>3, <3>4
  <2>. QED  BY <2>1, <2>4, <2>5 DEF DigestComplete
<1>11. DashboardAgrees
  <2>. SUFFICES ASSUME opts.tui PROVE DOMAIN shown = active /\ \A id \in active : shown[id] = Mark(status[id])
    BY DEF DashboardAgrees
  <2>1. shown = Display
    BY DEF RunInv, DisplayInv, Displayed
  <2>2. DOMAIN shown = active /\ \A id \in active : shown[id] = IF told[id] = "nothing" THEN "pending" ELSE told[id]
    BY <2>1 DEF Display
  <2>3. ASSUME NEW id \in active PROVE shown[id] = Mark(status[id])
    <3>1. CASE status[id] \in D!Ended
      <4>1. Mark(status[id]) = Final(status[id]) /\ Final(status[id]) # "nothing"
        <5>1. Mark(status[id]) = Final(status[id])
          BY <1>7, <3>1 DEF Mark
        <5>. QED  BY <3>1, <5>1, ToldFacts
      <4>. QED  BY <1>6, <2>2, <3>1, <4>1
    <3>2. CASE status[id] = "blocked"
      <4>1. Mark("blocked") = "skipped"
        BY <1>7 DEF Mark
      <4>. QED  BY <1>6, <2>2, <3>2, <4>1
    <3>3. CASE status[id] = "waiting"
      <4>1. Mark("waiting") = "pending"
        BY <1>7 DEF Mark
      <4>. QED  BY <1>6, <2>2, <3>3, <4>1
    <3>. QED  BY <1>7, <3>1, <3>2, <3>3
  <2>. QED  BY <2>2, <2>3
<1>12. FinalAttempted
  BY DEF RunInv, ReportInv
<1>. QED  BY <1>9, <1>10, <1>11, <1>12

(* What the exit code, the digest and the dashboard say at the end of a    *)
(* run is what has happened, and those who want to be notified have been   *)
(* asked to take the outcome.                                              *)
THEOREM OutcomeIsReported == Spec => []OutcomeReported
<1>1. Init => PlanInv /\ GraphInv /\ RunInv
  <2>. SUFFICES ASSUME Init PROVE PlanInv /\ GraphInv /\ RunInv
    OBVIOUS
  <2>1. PlanInv
    BY DEF Init, PlanInv, Accepted, Selecting
  <2>2. GraphInv
    BY DEF Init, GraphInv, Acyclic
  <2>3. Typed /\ Phases
    BY DEF Init, Typed, Phases, Early, Undecided, D!Statuses
  <2>4. JobsInv
    BY ToldFacts DEF Init, JobsInv
  <2>5. DigestInv
    <3>1. ToSet(<<>>) = {}
      BY DEF ToSet
    <3>2. <<>> \in Seq(Jobs) /\ Len(<<>>) = 0
      OBVIOUS
    <3>3. IsFiniteSet({}) /\ Cardinality({}) = 0
      BY FS_EmptySet
    <3>. QED  BY <3>1, <3>2, <3>3 DEF Init, DigestInv
  <2>6. DisplayInv /\ SettledInv /\ ReportInv
    BY DEF Init, DisplayInv, Displayed, SettledInv, ReportInv
  <2>. QED  BY <2>1, <2>2, <2>3, <2>4, <2>5, <2>6 DEF RunInv
<1>2. PlanInv /\ GraphInv /\ RunInv /\ [Next]_vars => (PlanInv /\ GraphInv /\ RunInv)'
  BY PlanNext, GraphNext, RunNext
<1>3. PlanInv /\ GraphInv /\ RunInv => OutcomeReported
  BY TheOutcome
<1>. QED  BY <1>1, <1>2, <1>3, PTL DEF Spec

=============================================================================
