--------------------------- MODULE LogPipeProofs ---------------------------
(***************************************************************************)
(* Proofs of the safety properties of LogPipe, for any steps, scripts and  *)
(* sizes of pipe, line and tail.  The first part says what the recursions  *)
(* behind Lines and FlattenSeq compute when one more element is appended.  *)
(***************************************************************************)
EXTENDS LogPipe, SequenceTheorems, WellFoundedInduction, TLAPS

Pieces == [step : Steps, no : Nat, nl : BOOLEAN]

------------------------------------------------------------------------------
(* Sequences                                                               *)

(* A set of natural numbers has a least one.                               *)
LEMMA LeastOfNat ==
  ASSUME NEW P \in SUBSET Nat, P # {}
  PROVE  \E x \in P : \A y \in P : ~ (y < x)
<1>1. \E x \in P : \A y \in P : ~ (<<y, x>> \in OpToRel(<, Nat))
  BY NatLessThanWellFounded, WFMin
<1>. QED  BY <1>1 DEF OpToRel

(* Lines: one step of the recursion, from the lines of the first n - 1     *)
(* pieces of q to those of the first n; and a solution of it up to m.      *)
Grow(q, n, ls) ==
  CASE n = 0                            -> <<>>
    [] n > 0 /\ (n = 1 \/ q[n - 1].nl) -> Append(ls, <<q[n]>>)
    [] OTHER -> [ls EXCEPT ![Len(ls)] = Append(@, q[n])]
Solves(F, q, m) == DOMAIN F = 0..m /\ \A n \in 0..m : F[n] = Grow(q, n, F[n - 1])
Solution(F, q, m) == F = [n \in 0..m |-> Grow(q, n, F[n - 1])]

LEMMA SolutionSolves ==
  ASSUME NEW q, NEW m \in Nat, NEW F, Solution(F, q, m)
  PROVE  Solves(F, q, m)
<1>. DEFINE G == [n \in 0..m |-> Grow(q, n, F[n - 1])]
<1>1. F = G
  BY DEF Solution
<1>2. DOMAIN G = 0..m /\ \A n \in 0..m : G[n] = Grow(q, n, F[n - 1])
  OBVIOUS
<1>. HIDE DEF G
<1>. QED  BY <1>1, <1>2 DEF Solves

LEMMA SolutionExists ==
  ASSUME NEW q, NEW m \in Nat
  PROVE  \E F : Solution(F, q, m)
<1>. DEFINE P == {k \in Nat : ~ \E F : Solution(F, q, k)}
<1>. SUFFICES ASSUME P # {} PROVE FALSE
  OBVIOUS
<1>1. PICK k \in P : \A y \in P : ~ (y < k)
  BY LeastOfNat, Zenon
<1>2. CASE k = 0
  <2>. DEFINE F == [n \in 0..0 |-> <<>>]
  <2>1. F = [n \in 0..0 |-> Grow(q, n, F[n - 1])]
    BY DEF Grow
  <2>. QED  BY <1>2, <2>1 DEF Solution
<1>3. CASE k # 0
  <2>1. k - 1 \in Nat /\ k - 1 \notin P
    BY <1>1, <1>3
  <2>2. PICK E : Solution(E, q, k - 1)
    BY <2>1
  <2>3. Solves(E, q, k - 1)
    BY <2>1, <2>2, SolutionSolves
  <2>. DEFINE F == [n \in 0..k |-> IF n = k THEN Grow(q, k, E[k - 1]) ELSE E[n]]
  <2>4. ASSUME NEW n \in 0..k PROVE F[n] = Grow(q, n, F[n - 1])
    <3>1. CASE n = k
      <4>1. F[k - 1] = E[k - 1]
        BY <2>1
      <4>. QED  BY <3>1, <4>1
    <3>2. CASE n # k /\ n # 0
      <4>1. n \in 0..k - 1 /\ n - 1 \in 0..k /\ n - 1 # k
        BY <3>2
      <4>2. F[n] = E[n] /\ F[n - 1] = E[n - 1]
        BY <3>2, <4>1
      <4>. QED  BY <2>3, <4>1, <4>2 DEF Solves
    <3>3. CASE n = 0
      <4>1. F[n] = E[n] /\ E[n] = Grow(q, 0, E[n - 1])
        BY <1>3, <2>1, <2>3, <3>3 DEF Solves
      <4>. HIDE DEF F
      <4>. QED  BY <3>3, <4>1 DEF Grow
    <3>. QED  BY <3>1, <3>2, <3>3
  <2>5. F = [n \in 0..k |-> Grow(q, n, F[n - 1])]
    <3>. DEFINE G == [n \in 0..k |-> Grow(q, n, F[n - 1])]
    <3>1. \A n \in 0..k : F[n] = G[n]
      <4>. HIDE DEF F
      <4>. QED  BY <2>4
    <3>. QED  BY <3>1
  <2>. HIDE DEF F
  <2>. QED  BY <1>1, <2>5 DEF Solution
<1>. QED  BY <1>2, <1>3

Alike(q, r, m) == \A n \in 1..m : q[n] = r[n]

(* Solutions for sequences that begin alike begin alike.                   *)
LEMMA SolutionsAgree ==
  ASSUME NEW q, NEW r, NEW m \in Nat, NEW l \in Nat, m <= l,
         Alike(q, r, m),
         NEW F, NEW G, Solves(F, q, m), Solves(G, r, l)
  PROVE  F[m] = G[m]
<1>. DEFINE P == {k \in 0..m : F[k] # G[k]}
<1>. SUFFICES ASSUME P # {} PROVE FALSE
  OBVIOUS
<1>0. P \in SUBSET Nat
  OBVIOUS
<1>1. PICK k \in P : \A y \in P : ~ (y < k)
  <2>. HIDE DEF P
  <2>. QED  BY <1>0, LeastOfNat, Zenon
<1>2. F[k] = Grow(q, k, F[k - 1]) /\ G[k] = Grow(r, k, G[k - 1])
  BY DEF Solves
<1>3. CASE k = 0
  BY <1>2, <1>3 DEF Grow
<1>4. CASE k # 0
  <2>1. F[k - 1] = G[k - 1]
    BY <1>1, <1>4
  <2>2. q[k] = r[k] /\ (k # 1 => q[k - 1] = r[k - 1])
    BY <1>4 DEF Alike
  <2>. QED  BY <1>2, <1>4, <2>1, <2>2 DEF Grow
<1>. QED  BY <1>3, <1>4

LEMMA LinesSolve ==
  ASSUME NEW q, Len(q) \in Nat
  PROVE  \E F : Solves(F, q, Len(q)) /\ Lines(q) = F[Len(q)]
<1>. DEFINE F == CHOOSE F : F = [n \in 0..Len(q) |-> Grow(q, n, F[n - 1])]
<1>1. Solution(F, q, Len(q))
  BY SolutionExists DEF Solution
<1>2. Lines(q) = F[Len(q)]
  BY DEF Lines, Grow
<1>. HIDE DEF F
<1>. QED  BY <1>1, <1>2, SolutionSolves

(* The lines of q with one more piece.                                     *)
LEMMA LinesOfAppend ==
  ASSUME NEW q \in Seq(Pieces), NEW p \in Pieces
  PROVE  Lines(Append(q, p)) =
           IF q = <<>> \/ q[Len(q)].nl THEN Append(Lines(q), <<p>>)
           ELSE [Lines(q) EXCEPT ![Len(Lines(q))] = Append(@, p)]
<1>. DEFINE r == Append(q, p)
            l == Len(q)
<1>1. r \in Seq(Pieces) /\ Len(r) = l + 1 /\ l \in Nat /\ r[l + 1] = p /\ \A n \in 1..l : r[n] = q[n]
  BY AppendProperties
<1>2. q = <<>> <=> l = 0
  BY EmptySeq
<1>. HIDE DEF r
<1>3. PICK F : Solves(F, q, l) /\ Lines(q) = F[l]
  BY <1>1, LinesSolve
<1>4. PICK G : Solves(G, r, l + 1) /\ Lines(r) = G[l + 1]
  BY <1>1, LinesSolve
<1>. HIDE DEF l
<1>5. F[l] = G[l]
  <2>1. Alike(q, r, l)
    BY <1>1 DEF Alike
  <2>2. l <= l + 1 /\ l + 1 \in Nat
    BY <1>1
  <2>. QED  BY <1>1, <1>3, <1>4, <2>1, <2>2, SolutionsAgree
<1>6. Lines(r) = Grow(r, l + 1, Lines(q))
  BY <1>1, <1>3, <1>4, <1>5 DEF Solves
<1>7. l # 0 => r[l] = q[l]
  BY <1>1
<1>8. CASE q = <<>> \/ q[l].nl
  <2>1. l + 1 > 0 /\ (l + 1 = 1 \/ r[l + 1 - 1].nl) /\ l + 1 # 0
    BY <1>1, <1>2, <1>7, <1>8
  <2>2. Lines(r) = Append(Lines(q), <<p>>)
    BY <1>1, <1>6, <2>1 DEF Grow
  <2>. QED  BY <1>8, <2>2 DEF r, l
<1>9. CASE ~ (q = <<>> \/ q[l].nl)
  <2>1. l + 1 # 0 /\ ~ (l + 1 > 0 /\ (l + 1 = 1 \/ r[l + 1 - 1].nl))
    BY <1>1, <1>2, <1>7, <1>9
  <2>2. Lines(r) = [Lines(q) EXCEPT ![Len(Lines(q))] = Append(@, p)]
    BY <1>1, <1>6, <2>1 DEF Grow
  <2>. QED  BY <1>9, <2>2 DEF r, l
<1>. QED  BY <1>8, <1>9

LEMMA LinesOfNothing == Lines(<<>>) = <<>>
<1>1. PICK F : Solves(F, <<>>, 0) /\ Lines(<<>>) = F[0]
  <2>1. Len(<<>>) = 0
    OBVIOUS
  <2>. QED  BY <2>1, LinesSolve
<1>. QED  BY <1>1 DEF Solves, Grow

(* FlattenSeq: the same for the sequences that are joined.                 *)
Join(q, n, r) == IF n = 1 THEN q[n] ELSE r \o q[n]
Joins(F, q, m) == DOMAIN F = 1..m /\ \A n \in 1..m : F[n] = Join(q, n, F[n - 1])
Joining(F, q, m) == F = [n \in 1..m |-> Join(q, n, F[n - 1])]

LEMMA JoiningJoins ==
  ASSUME NEW q, NEW m \in Nat, NEW F, Joining(F, q, m)
  PROVE  Joins(F, q, m)
<1>. DEFINE G == [n \in 1..m |-> Join(q, n, F[n - 1])]
<1>1. F = G
  BY DEF Joining
<1>2. DOMAIN G = 1..m /\ \A n \in 1..m : G[n] = Join(q, n, F[n - 1])
  OBVIOUS
<1>. HIDE DEF G
<1>. QED  BY <1>1, <1>2 DEF Joins

LEMMA JoiningExists ==
  ASSUME NEW q, NEW m \in Nat
  PROVE  \E F : Joining(F, q, m)
<1>. DEFINE P == {k \in Nat : ~ \E F : Joining(F, q, k)}
<1>. SUFFICES ASSUME P # {} PROVE FALSE
  OBVIOUS
<1>1. PICK k \in P : \A y \in P : ~ (y < k)
  BY LeastOfNat, Zenon
<1>2. CASE k = 0
  <2>. DEFINE F == [n \in 1..0 |-> <<>>]
  <2>1. F = [n \in 1..0 |-> Join(q, n, F[n - 1])]
    OBVIOUS
  <2>. QED  BY <1>2, <2>1 DEF Joining
<1>3. CASE k # 0
  <2>1. k - 1 \in Nat /\ k - 1 \notin P
    BY <1>1, <1>3
  <2>2. PICK E : Joining(E, q, k - 1)
    BY <2>1
  <2>3. Joins(E, q, k - 1)
    BY <2>1, <2>2, JoiningJoins
  <2>. DEFINE F == [n \in 1..k |-> IF n = k THEN Join(q, k, E[k - 1]) ELSE E[n]]
  <2>4. ASSUME NEW n \in 1..k PROVE F[n] = Join(q, n, F[n - 1])
    <3>1. CASE n = 1
      <4>1. F[n] = q[n]
        <5>1. CASE k = 1
          BY <3>1, <5>1 DEF Join
        <5>2. CASE k # 1
          <6>1. 1 \in 1..k - 1 /\ F[n] = E[1]
            BY <1>3, <3>1, <5>2
          <6>2. E[1] = Join(q, 1, E[1 - 1])
            BY <2>3, <6>1 DEF Joins
          <6>. QED  BY <3>1, <6>1, <6>2 DEF Join
        <5>. QED  BY <5>1, <5>2
      <4>. HIDE DEF F
      <4>. QED  BY <3>1, <4>1 DEF Join
    <3>2. CASE n # 1
      <4>1. n - 1 \in 1..k /\ n - 1 # k /\ F[n - 1] = E[n - 1]
        BY <3>2
      <4>2. CASE n = k
        BY <4>1, <4>2
      <4>3. CASE n # k
        <5>1. n \in 1..k - 1 /\ F[n] = E[n]
          BY <4>3
        <5>. QED  BY <2>3, <4>1, <5>1 DEF Joins
      <4>. QED  BY <4>2, <4>3
    <3>. QED  BY <3>1, <3>2
  <2>5. F = [n \in 1..k |-> Join(q, n, F[n - 1])]
    <3>. DEFINE G == [n \in 1..k |-> Join(q, n, F[n - 1])]
    <3>1. \A n \in 1..k : F[n] = G[n]
      <4>. HIDE DEF F
      <4>. QED  BY <2>4
    <3>. QED  BY <3>1
  <2>. HIDE DEF F
  <2>. QED  BY <1>1, <2>5 DEF Joining
<1>. QED  BY <1>2, <1>3

LEMMA JoinsAgree ==
  ASSUME NEW q, NEW r, NEW m \in Nat, NEW l \in Nat, m # 0, m <= l,
         Alike(q, r, m),
         NEW F, NEW G, Joins(F, q, m), Joins(G, r, l)
  PROVE  F[m] = G[m]
<1>. DEFINE P == {k \in 1..m : F[k] # G[k]}
<1>. SUFFICES ASSUME P # {} PROVE FALSE
  OBVIOUS
<1>0. P \in SUBSET Nat
  OBVIOUS
<1>1. PICK k \in P : \A y \in P : ~ (y < k)
  <2>. HIDE DEF P
  <2>. QED  BY <1>0, LeastOfNat, Zenon
<1>2. F[k] = Join(q, k, F[k - 1]) /\ G[k] = Join(r, k, G[k - 1])
  BY DEF Joins
<1>3. q[k] = r[k]
  BY DEF Alike
<1>4. CASE k = 1
  BY <1>2, <1>3, <1>4 DEF Join
<1>5. CASE k # 1
  <2>1. F[k - 1] = G[k - 1]
    BY <1>1, <1>5
  <2>. QED  BY <1>2, <1>3, <1>5, <2>1 DEF Join
<1>. QED  BY <1>4, <1>5

LEMMA FlattenJoins ==
  ASSUME NEW q, Len(q) \in Nat, Len(q) # 0
  PROVE  \E F : Joins(F, q, Len(q)) /\ Q!FlattenSeq(q) = F[Len(q)]
<1>. DEFINE F == CHOOSE F : F = [n \in 1..Len(q) |-> Join(q, n, F[n - 1])]
<1>1. Joining(F, q, Len(q))
  BY JoiningExists DEF Joining
<1>2. Q!FlattenSeq(q) = F[Len(q)]
  BY DEF Q!FlattenSeq, Join
<1>. HIDE DEF F
<1>. QED  BY <1>1, <1>2, JoiningJoins

(* One more sequence of pieces is joined to the end.                       *)
LEMMA FlattenOfAppend ==
  ASSUME NEW q \in Seq(Seq(Pieces)), NEW p \in Seq(Pieces)
  PROVE  Q!FlattenSeq(Append(q, p)) = Q!FlattenSeq(q) \o p
<1>. DEFINE r == Append(q, p)
            l == Len(q)
<1>1. r \in Seq(Seq(Pieces)) /\ Len(r) = l + 1 /\ l \in Nat /\ r[l + 1] = p /\ \A n \in 1..l : r[n] = q[n]
  BY AppendProperties
<1>2. q = <<>> <=> l = 0
  BY EmptySeq
<1>. HIDE DEF r
<1>3. PICK G : Joins(G, r, l + 1) /\ Q!FlattenSeq(r) = G[l + 1]
  BY <1>1, FlattenJoins
<1>4. CASE l = 0
  <2>1. Q!FlattenSeq(r) = p
    BY <1>1, <1>3, <1>4 DEF Joins, Join
  <2>2. Q!FlattenSeq(q) = <<>>
    BY <1>2, <1>4 DEF Q!FlattenSeq
  <2>3. <<>> \o p = p
    BY ConcatEmptySeq
  <2>. QED  BY <2>1, <2>2, <2>3 DEF r
<1>5. CASE l # 0
  <2>1. PICK F : Joins(F, q, l) /\ Q!FlattenSeq(q) = F[l]
    BY <1>1, <1>5, FlattenJoins
  <2>. HIDE DEF l
  <2>2. F[l] = G[l]
    <3>1. Alike(q, r, l)
      BY <1>1 DEF Alike
    <3>. QED  BY <1>1, <1>3, <1>5, <2>1, <3>1, JoinsAgree
  <2>3. Q!FlattenSeq(r) = Join(r, l + 1, Q!FlattenSeq(q))
    BY <1>1, <1>3, <2>1, <2>2 DEF Joins
  <2>. QED  BY <1>1, <1>5, <2>3 DEF Join, r
<1>. QED  BY <1>4, <1>5

------------------------------------------------------------------------------
(* What is carried                                                         *)

(* A piece of another step does not count.                                 *)
LEMMA CarriesOthers ==
  ASSUME NEW q \in Seq(Pieces), NEW p \in Pieces, NEW s \in Steps, p.step # s, NEW n \in Nat, Carries(q, s, n)
  PROVE  Carries(Append(q, p), s, n)
<1>. DEFINE r == Append(q, p)
            at(x) == {i \in DOMAIN x : x[i].step = s}
<1>1. r \in Seq(Pieces) /\ DOMAIN r = 1..Len(q) + 1 /\ Len(q) \in Nat /\ r[Len(q) + 1] = p
  BY AppendProperties
<1>2. DOMAIN q = 1..Len(q) /\ \A i \in 1..Len(q) : r[i] = q[i]
  BY AppendProperties
<1>. HIDE DEF r
<1>3. at(r) = at(q)
  BY <1>1, <1>2
<1>4. \A i \in at(q) : r[i] = q[i]
  BY <1>2
<1>. HIDE DEF at
<1>5. {q[i] : i \in at(q)} = {Piece(s, k) : k \in 1..n} /\ \A i, k \in at(q) : i < k => q[i].no < q[k].no
  BY DEF Carries, at
<1>6. {r[i] : i \in at(r)} = {q[i] : i \in at(q)}
  BY <1>3, <1>4
<1>7. {r[i] : i \in at(r)} = {Piece(s, k) : k \in 1..n} /\ \A i, k \in at(r) : i < k => r[i].no < r[k].no
  <2>1. \A i, k \in at(r) : i < k => r[i].no < r[k].no
    BY <1>3, <1>4, <1>5
  <2>. QED  BY <1>5, <1>6, <2>1
<1>. QED  BY <1>7 DEF Carries, at, r

(* The next piece of s does.                                               *)
LEMMA CarriesNext ==
  ASSUME NEW q \in Seq(Pieces), NEW s \in Steps, NEW n \in Nat, Carries(q, s, n),
         Piece(s, n + 1) \in Pieces
  PROVE  Carries(Append(q, Piece(s, n + 1)), s, n + 1)
<1>. DEFINE p == Piece(s, n + 1)
            r == Append(q, p)
            at(x) == {i \in DOMAIN x : x[i].step = s}
            l == Len(q) + 1
<1>1. r \in Seq(Pieces) /\ DOMAIN r = 1..l /\ l \in Nat \ {0} /\ r[l] = p
  BY AppendProperties
<1>2. DOMAIN q = 1..l - 1 /\ \A i \in 1..l - 1 : r[i] = q[i]
  BY AppendProperties
<1>0. p.step = s /\ p.no = n + 1 /\ \A k \in 1..n : Piece(s, k).no = k
  BY DEF Piece
<1>. HIDE DEF r, p, l
<1>3. at(r) = at(q) \cup {l} /\ l \notin at(q) /\ \A i \in at(q) : i < l
  BY <1>0, <1>1, <1>2
<1>4. \A i \in at(q) : r[i] = q[i]
  BY <1>2
<1>. HIDE DEF at
<1>5. {q[i] : i \in at(q)} = {Piece(s, k) : k \in 1..n} /\ \A i, k \in at(q) : i < k => q[i].no < q[k].no
  BY DEF Carries, at
<1>6. {r[i] : i \in at(r)} = {q[i] : i \in at(q)} \cup {p}
  BY <1>1, <1>3, <1>4
<1>7. {Piece(s, k) : k \in 1..n + 1} = {Piece(s, k) : k \in 1..n} \cup {p}
  <2>1. 1..n + 1 = (1..n) \cup {n + 1}
    OBVIOUS
  <2>. QED  BY <2>1 DEF p
<1>8. \A i \in at(q) : q[i].no < n + 1
  <2>. SUFFICES ASSUME NEW i \in at(q) PROVE q[i].no < n + 1
    OBVIOUS
  <2>1. PICK k \in 1..n : q[i] = Piece(s, k)
    BY <1>5
  <2>. QED  BY <1>0, <2>1
<1>9. ASSUME NEW i \in at(r), NEW k \in at(r), i < k PROVE r[i].no < r[k].no
  <2>1. i \in at(q)
    <3>1. l \in Nat /\ (k = l \/ k < l)
      BY <1>1, <1>3
    <3>2. at(r) \subseteq Nat
      BY <1>1 DEF at
    <3>. QED  BY <1>3, <1>9, <3>1, <3>2
  <2>2. CASE k \in at(q)
    BY <1>4, <1>5, <1>9, <2>1, <2>2
  <2>3. CASE k = l
    BY <1>0, <1>1, <1>4, <1>8, <2>1, <2>3
  <2>. QED  BY <1>3, <2>2, <2>3
<1>10. {r[i] : i \in at(r)} = {Piece(s, k) : k \in 1..n + 1} /\ \A i, k \in at(r) : i < k => r[i].no < r[k].no
  BY <1>5, <1>6, <1>7, <1>9
<1>. QED  BY <1>10 DEF Carries, at, r, p

------------------------------------------------------------------------------
(* The invariants                                                           *)

LinesOfPieces == Seq(Pieces) \ {<<>>}

(* The types that the proofs need.                                         *)
Typed ==
  /\ script \in [Steps -> Seq(BOOLEAN)]
  /\ proc \in [Steps -> {"none", "running", "exited", "killed", "broken"}]
  /\ written \in [Steps -> Nat]
  /\ fd \in [Steps -> Seq(Pieces)]
  /\ copier \in [Steps -> {"none", "read", "pipe", "file", "ended", "failed"}]
  /\ held \in [Steps -> Pieces \cup {None}]
  /\ tail \in [Steps -> [lines : Seq(Seq(Pieces)), partial : Seq(Pieces)]]
  /\ file \in Seq(Pieces)
  /\ writer \in Steps \cup {None}
  /\ reader \in {"scan", "print", "stopped"}
  /\ buf \in Seq(Pieces)
  /\ printed \in Seq(Seq(Pieces)) /\ Q!FlattenSeq(printed) \in Seq(Pieces)
  /\ pc \in [Steps -> {"start", "select", "reap", "returned"}]

(* The pieces that the copier of s has read; of those, what the console    *)
(* has taken, and what is in the file.                                     *)
Taken(s) == written[s] - Len(fd[s])
InConsole(s) == IF copier[s] = "pipe" THEN Taken(s) - 1 ELSE Taken(s)
InFile(s) == IF copier[s] \in {"pipe", "file"} THEN Taken(s) - 1 ELSE Taken(s)

(* The pipe of the kernel has the last pieces that were written, and the   *)
(* copier holds the one before them.                                       *)
Flow(s) ==
  /\ written[s] <= Len(script[s])
  /\ Taken(s) \in Nat
  /\ \A i \in DOMAIN fd[s] : fd[s][i] = Piece(s, Taken(s) + i)
  /\ copier[s] \in {"pipe", "file"} => Taken(s) # 0 /\ held[s] = Piece(s, Taken(s))

Lifecycle(s) ==
  /\ pc[s] = "start" => proc[s] = "none"
  /\ proc[s] = "none" => copier[s] = "none" /\ written[s] = 0
  /\ proc[s] = "none" => pc[s] \in {"start", "returned"}
  /\ pc[s] = "returned" /\ proc[s] # "none" => Waited(s)
  /\ copier[s] = "ended" => fd[s] = <<>> /\ Closed(s)

PipeInv == Typed /\ \A s \in Steps : Flow(s) /\ Lifecycle(s)

Console_ == Q!FlattenSeq(printed) \o buf

Output(s) ==
  /\ copier[s] # "failed" => Carries(file, s, InFile(s))
  /\ Carries(Console_, s, InConsole(s))

(* The console reader has no newline in its buffer but at the end of a     *)
(* line that it is about to print.                                         *)
Buffer ==
  /\ writer # None => copier[writer] = "pipe"
  /\ \A i \in DOMAIN buf : buf[i].nl => reader = "print"
  /\ Lines(buf) \in Seq(Seq(Pieces)) /\ Len(Lines(buf)) = IF buf = <<>> THEN 0 ELSE 1

OutputInv == Buffer /\ \A s \in Steps : Output(s)

(* The tail has the last MaxTail lines of what the copier has read, less   *)
(* the text after the last newline, which is apart.                        *)
Read_(s) == Lines(All(s, Taken(s)))
AtLineEnd(s) == Taken(s) = 0 \/ Piece(s, Taken(s)).nl

TailKept(s) ==
  /\ Read_(s) \in Seq(LinesOfPieces)
  /\ Read_(s) = <<>> <=> Taken(s) = 0
  /\ AtLineEnd(s) => /\ tail[s].partial = <<>>
                     /\ tail[s].lines = Last(Read_(s), MaxTail)
  /\ ~AtLineEnd(s) => /\ tail[s].partial = Read_(s)[Len(Read_(s))]
                      /\ tail[s].lines = Last(SubSeq(Read_(s), 1, Len(Read_(s)) - 1), MaxTail)

TailInv == \A s \in Steps : TailKept(s)

LEMMA PieceTyped ==
  ASSUME Typed, NEW s \in Steps, NEW n \in 1..Len(script[s])
  PROVE  Piece(s, n) \in Pieces /\ Piece(s, n).step = s /\ Piece(s, n).no = n
<1>1. script[s] \in Seq(BOOLEAN)
  BY DEF Typed
<1>2. script[s][n] \in BOOLEAN
  BY <1>1, ElementOfSeq
<1>3. n \in Nat
  BY <1>1
<1>. QED  BY <1>2, <1>3 DEF Piece, Pieces

(* A step that leaves t alone.                                             *)
Untouched(t) ==
  /\ script' = script
  /\ written'[t] = written[t] /\ fd'[t] = fd[t] /\ copier'[t] = copier[t] /\ held'[t] = held[t]
  /\ proc'[t] = proc[t] /\ pc'[t] = pc[t]

LEMMA UntouchedPipe ==
  ASSUME NEW t \in Steps, Untouched(t), Flow(t), Lifecycle(t)
  PROVE  Flow(t)' /\ Lifecycle(t)'
BY DEF Untouched, Flow, Lifecycle, Taken, Piece, Waited, Closed

LEMMA InitPipe == Init => PipeInv
<1>. SUFFICES ASSUME Init PROVE PipeInv
  OBVIOUS
<1>1. <<>> \in Seq(Pieces) /\ <<>> \in Seq(Seq(Pieces))
  BY EmptySeq
<1>2. Q!FlattenSeq(<<>>) = <<>>
  BY DEF Q!FlattenSeq
<1>3. Typed
  BY <1>1, <1>2, ScriptsAssumption DEF Init, Typed
<1>4. ASSUME NEW s \in Steps PROVE Flow(s) /\ Lifecycle(s)
  <2>1. Len(script[s]) \in Nat
    BY <1>3 DEF Typed
  <2>2. written[s] = 0 /\ fd[s] = <<>> /\ Len(<<>>) = 0 /\ DOMAIN fd[s] = {}
    BY DEF Init
  <2>. QED  BY <2>1, <2>2 DEF Init, Flow, Lifecycle, Taken
<1>. QED  BY <1>3, <1>4 DEF PipeInv

LEMMA WritePipe ==
  ASSUME PipeInv, NEW s \in Steps, Write(s)
  PROVE  PipeInv' /\ \A t \in Steps : Taken(t)' = Taken(t)
<1>. USE DEF PipeInv
<1>1. ASSUME NEW t \in Steps, t # s PROVE Flow(t)' /\ Lifecycle(t)'
  <2>1. Untouched(t)
    BY <1>1 DEF Write, Untouched, Typed, copyVars, runVars
  <2>. QED  BY <2>1, UntouchedPipe
<1>3. ASSUME NEW t \in Steps, t # s PROVE Taken(t)' = Taken(t)
  BY <1>3 DEF Write, Taken, Typed
<1>2. CASE /\ copier[s] # "failed" /\ Len(fd[s]) < FdSize
           /\ written' = [written EXCEPT ![s] = @ + 1]
           /\ fd' = [fd EXCEPT ![s] = Append(@, Piece(s, written[s] + 1))]
           /\ UNCHANGED proc
  <2>. DEFINE p == Piece(s, written[s] + 1)
  <2>1. Len(script[s]) \in Nat /\ written[s] \in Nat /\ fd[s] \in Seq(Pieces)
    BY DEF Typed
  <2>2. p \in Pieces
    <3>1. written[s] + 1 \in 1..Len(script[s])
      BY <2>1 DEF Write
    <3>. QED  BY <3>1, PieceTyped
  <2>. HIDE DEF p
  <2>3. /\ Append(fd[s], p) \in Seq(Pieces) /\ Len(Append(fd[s], p)) = Len(fd[s]) + 1
        /\ \A i \in 1..Len(fd[s]) : Append(fd[s], p)[i] = fd[s][i]
        /\ Append(fd[s], p)[Len(fd[s]) + 1] = p
    BY <2>1, <2>2, AppendProperties
  <2>4. fd'[s] = Append(fd[s], p) /\ written'[s] = written[s] + 1
    BY <1>2 DEF Typed, p
  <2>5. Typed'
    <3>1. fd' \in [Steps -> Seq(Pieces)] /\ written' \in [Steps -> Nat]
      <4>1. fd \in [Steps -> Seq(Pieces)] /\ written \in [Steps -> Nat]
        BY DEF Typed
      <4>2. written' \in [Steps -> Nat]
        BY <1>2, <4>1
      <4>3. PICK q \in Seq(Pieces) : q = Append(fd[s], p)
        BY <2>3
      <4>4. fd' = [fd EXCEPT ![s] = q]
        BY <1>2, <4>1, <4>3 DEF p
      <4>5. fd' \in [Steps -> Seq(Pieces)]
        BY <4>1, <4>4
      <4>. QED  BY <4>2, <4>5
    <3>2. /\ proc' = proc /\ script' = script /\ copier' = copier /\ held' = held /\ tail' = tail
          /\ file' = file /\ writer' = writer /\ reader' = reader /\ buf' = buf /\ printed' = printed /\ pc' = pc
      BY <1>2 DEF Write, copyVars, consoleVars, runVars
    <3>3. Q!FlattenSeq(printed)' = Q!FlattenSeq(printed)
      BY <3>2
    <3>. QED  BY <3>1, <3>2, <3>3 DEF Typed
  <2>6. Taken(s)' = Taken(s)
    BY <2>1, <2>3, <2>4 DEF Taken
  <2>7. Flow(s)'
    <3>1. written'[s] <= Len(script'[s])
      BY <2>1, <2>4 DEF Write
    <3>2. \A i \in DOMAIN fd'[s] : fd'[s][i] = Piece(s, Taken(s) + i)
      <4>. SUFFICES ASSUME NEW i \in 1..Len(fd[s]) + 1 PROVE fd'[s][i] = Piece(s, Taken(s) + i)
        BY <2>3, <2>4
      <4>1. CASE i \in 1..Len(fd[s])
        BY <2>1, <2>3, <2>4, <4>1 DEF Flow
      <4>2. CASE i = Len(fd[s]) + 1
        <5>1. Taken(s) + i = written[s] + 1
          BY <2>1, <4>2 DEF Taken
        <5>. QED  BY <2>3, <2>4, <4>2, <5>1 DEF p
      <4>. QED  BY <2>1, <4>1, <4>2
    <3>3. script' = script /\ copier' = copier /\ held' = held
      BY DEF Write, copyVars
    <3>. QED  BY <2>6, <3>1, <3>2, <3>3 DEF Flow, Piece
  <2>8. Lifecycle(s)'
    BY <1>2 DEF Write, Lifecycle, copyVars, runVars, Waited, Closed
  <2>. QED  BY <1>1, <1>3, <2>5, <2>6, <2>7, <2>8
<1>4. CASE proc' = [proc EXCEPT ![s] = "broken"] /\ UNCHANGED <<written, fd>>
  <2>1. Typed'
    BY <1>4 DEF Write, Typed, copyVars, consoleVars, runVars
  <2>2. Flow(s)'
    BY <1>4 DEF Write, Flow, Taken, Piece, copyVars
  <2>3. proc[s] = "running" /\ proc'[s] = "broken"
    BY <1>4 DEF Write, Typed
  <2>4. Lifecycle(s)'
    BY <1>4, <2>3 DEF Write, Lifecycle, Waited, Closed, copyVars, runVars
  <2>. QED  BY <1>1, <1>4, <2>1, <2>2, <2>4 DEF Taken
<1>. QED  BY <1>2, <1>4 DEF Write

LEMMA ExitPipe ==
  ASSUME PipeInv, NEW s \in Steps, Exit(s)
  PROVE  PipeInv' /\ \A t \in Steps : Taken(t)' = Taken(t)
<1>. USE DEF PipeInv
<1>1. Typed'
  BY DEF Exit, Typed, copyVars, consoleVars, runVars
<1>2. ASSUME NEW t \in Steps, t # s PROVE Flow(t)' /\ Lifecycle(t)'
  <2>1. Untouched(t)
    BY <1>2 DEF Exit, Untouched, Typed, copyVars, runVars
  <2>. QED  BY <2>1, UntouchedPipe
<1>3. Flow(s)'
  BY DEF Exit, Flow, Taken, Piece, copyVars
<1>4. proc[s] = "running" /\ proc'[s] = "exited"
  BY DEF Exit, Typed
<1>5. Lifecycle(s)'
  BY <1>4 DEF Exit, Lifecycle, Waited, Closed, copyVars, runVars
<1>6. \A t \in Steps : Taken(t)' = Taken(t)
  BY DEF Exit, Taken
<1>. QED  BY <1>1, <1>2, <1>3, <1>5, <1>6

LEMMA ReadPipe ==
  ASSUME PipeInv, NEW s \in Steps, Read(s)
  PROVE  /\ PipeInv' /\ Taken(s)' = Taken(s) + 1 /\ \A t \in Steps \ {s} : Taken(t)' = Taken(t)
         /\ Head(fd[s]) = Piece(s, Taken(s) + 1) /\ Head(fd[s]) \in Pieces
<1>. USE DEF PipeInv
<1>0. fd[s] \in Seq(Pieces) /\ fd[s] # <<>>
  BY DEF Read, Typed
<1>1. /\ Tail(fd[s]) \in Seq(Pieces) /\ Len(Tail(fd[s])) = Len(fd[s]) - 1
      /\ \A i \in 1..Len(Tail(fd[s])) : Tail(fd[s])[i] = fd[s][i + 1]
      /\ Head(fd[s]) \in Pieces /\ Head(fd[s]) = fd[s][1] /\ Len(fd[s]) \in Nat \ {0}
  BY <1>0, HeadTailProperties
<1>2. fd'[s] = Tail(fd[s]) /\ held'[s] = Head(fd[s]) /\ copier'[s] = "pipe" /\ copier[s] = "read"
  BY DEF Read, Typed
<1>3. written' = written /\ written[s] \in Nat /\ script' = script
  BY DEF Read, procVars, Typed
<1>4. Taken(s)' = Taken(s) + 1
  BY <1>1, <1>2, <1>3 DEF Taken
<1>5. Head(fd[s]) = Piece(s, Taken(s) + 1)
  BY <1>1 DEF Flow
<1>6. Typed'
  <2>1. tail' \in [Steps -> [lines : Seq(Seq(Pieces)), partial : Seq(Pieces)]]
    <3>. DEFINE p == Head(fd[s])
    <3>1. tail[s].lines \in Seq(Seq(Pieces)) /\ tail[s].partial \in Seq(Pieces)
      BY DEF Typed
    <3>2. Append(tail[s].partial, p) \in Seq(Pieces) /\ <<>> \in Seq(Pieces)
      BY <1>1, <3>1, AppendProperties
    <3>3. PICK q \in Seq(Seq(Pieces)) : q = Append(tail[s].lines, Append(tail[s].partial, p))
      BY <3>1, <3>2, AppendProperties
    <3>4. Last(q, MaxTail) \in Seq(Seq(Pieces))
      <4>1. Len(q) \in Nat /\ MaxTail \in Nat \ {0}
        BY SizesAssumption
      <4>2. \A i \in 1..Len(q) + 1 : SubSeq(q, i, Len(q)) \in Seq(Seq(Pieces))
        BY SubSeqProperties
      <4>3. Last(q, MaxTail) = SubSeq(q, IF Len(q) > MaxTail THEN Len(q) - MaxTail + 1 ELSE 1, Len(q))
        BY DEF Last
      <4>4. (IF Len(q) > MaxTail THEN Len(q) - MaxTail + 1 ELSE 1) \in 1..Len(q) + 1
        BY <4>1
      <4>. QED  BY <4>2, <4>3, <4>4
    <3>5. Push(tail[s].lines, Append(tail[s].partial, p)) \in Seq(Seq(Pieces))
      BY <3>3, <3>4 DEF Push
    <3>6. Tee(tail[s], p) \in [lines : Seq(Seq(Pieces)), partial : Seq(Pieces)]
      <4>. HIDE DEF p
      <4>. QED  BY <3>1, <3>2, <3>5 DEF Tee, Typed
    <3>. QED  BY <3>6 DEF Read, Typed
  <2>2. /\ fd' \in [Steps -> Seq(Pieces)] /\ held' \in [Steps -> Pieces \cup {None}]
        /\ copier' \in [Steps -> {"none", "read", "pipe", "file", "ended", "failed"}]
    BY <1>1 DEF Read, Typed
  <2>. QED  BY <2>1, <2>2 DEF Read, Typed, procVars, consoleVars, runVars
<1>7. ASSUME NEW t \in Steps, t # s PROVE Flow(t)' /\ Lifecycle(t)'
  <2>1. Untouched(t)
    BY <1>7 DEF Read, Untouched, Typed, procVars, runVars
  <2>. QED  BY <2>1, UntouchedPipe
<1>8. Flow(s)'
  <2>1. \A i \in DOMAIN fd'[s] : fd'[s][i] = Piece(s, Taken(s) + 1 + i)
    <3>. SUFFICES ASSUME NEW i \in 1..Len(fd[s]) - 1 PROVE Tail(fd[s])[i] = Piece(s, Taken(s) + 1 + i)
      BY <1>1, <1>2
    <3>1. Tail(fd[s])[i] = fd[s][i + 1] /\ i + 1 \in DOMAIN fd[s]
      BY <1>1
    <3>2. Taken(s) + (i + 1) = Taken(s) + 1 + i
      BY DEF Flow
    <3>. QED  BY <3>1, <3>2 DEF Flow
  <2>2. Taken(s) \in Nat /\ Taken(s) + 1 # 0
    BY DEF Flow
  <2>3. written'[s] <= Len(script'[s])
    BY <1>3 DEF Flow
  <2>. QED  BY <1>2, <1>3, <1>4, <1>5, <2>1, <2>2, <2>3 DEF Flow, Piece
<1>9. Lifecycle(s)'
  BY <1>2, <1>3 DEF Read, Lifecycle, procVars, runVars, Waited, Closed
<1>10. ASSUME NEW t \in Steps \ {s} PROVE Taken(t)' = Taken(t)
  BY <1>3 DEF Read, Taken, Typed
<1>. QED  BY <1>1, <1>4, <1>5, <1>6, <1>7, <1>8, <1>9, <1>10

(* The copier passes its piece on, or ends: what it has read stays.        *)
LEMMA CopyPipe ==
  ASSUME PipeInv, NEW s \in Steps, ToConsole(s) \/ ToFile(s) \/ EndOfFile(s)
  PROVE  PipeInv' /\ \A t \in Steps : Taken(t)' = Taken(t)
<1>. USE DEF PipeInv
<1>0. written' = written /\ fd' = fd /\ script' = script /\ proc' = proc /\ pc' = pc
  BY DEF ToConsole, ToFile, EndOfFile, procVars, runVars
<1>1. Typed'
  <2>1. CASE ToConsole(s)
    BY <2>1 DEF ToConsole, Typed, procVars, copyVars, runVars
  <2>2. CASE ToFile(s)
    <3>1. held[s] \in Pieces
      <4>1. Taken(s) \in 1..Len(script[s])
        <5>1. fd[s] \in Seq(Pieces) /\ written[s] \in Nat /\ Len(fd[s]) \in Nat /\ Len(script[s]) \in Nat
          BY DEF Typed
        <5>. QED  BY <2>2, <5>1 DEF ToFile, Flow, Taken
      <4>. QED  BY <2>2, <4>1, PieceTyped DEF ToFile, Flow
    <3>2. Append(file, held[s]) \in Seq(Pieces)
      BY <3>1, AppendProperties DEF Typed
    <3>3. file' \in Seq(Pieces) /\ held' \in [Steps -> Pieces \cup {None}]
          /\ copier' \in [Steps -> {"none", "read", "pipe", "file", "ended", "failed"}]
      BY <2>2, <3>2 DEF ToFile, Typed
    <3>. QED  BY <2>2, <3>3 DEF ToFile, Typed, procVars, consoleVars, runVars
  <2>3. CASE EndOfFile(s)
    BY <2>3 DEF EndOfFile, Typed, procVars, consoleVars, runVars
  <2>. QED  BY <2>1, <2>2, <2>3
<1>2. ASSUME NEW t \in Steps, t # s PROVE Flow(t)' /\ Lifecycle(t)'
  <2>1. Untouched(t)
    BY <1>0, <1>2 DEF ToConsole, ToFile, EndOfFile, Untouched, Typed, copyVars
  <2>. QED  BY <2>1, UntouchedPipe
<1>3. CASE ToConsole(s)
  <2>1. Untouched(s)
    BY <1>0, <1>3 DEF ToConsole, Untouched, copyVars
  <2>. QED  BY <1>0, <1>1, <1>2, <2>1, UntouchedPipe DEF Taken
<1>4. CASE ToFile(s)
  <2>1. copier[s] = "file" /\ copier'[s] \in {"read", "failed"}
    BY <1>4 DEF ToFile, Typed
  <2>2. Flow(s)'
    BY <1>0, <2>1 DEF Flow, Taken, Piece
  <2>3. Lifecycle(s)'
    BY <1>0, <2>1 DEF Lifecycle, Waited, Closed
  <2>. QED  BY <1>0, <1>1, <1>2, <2>2, <2>3 DEF Taken
<1>5. CASE EndOfFile(s)
  <2>1. copier[s] = "read" /\ copier'[s] = "ended" /\ fd[s] = <<>> /\ Closed(s)
    BY <1>5 DEF EndOfFile, Typed
  <2>2. Flow(s)'
    BY <1>0, <2>1 DEF Flow, Taken, Piece
  <2>3. Lifecycle(s)'
    BY <1>0, <2>1 DEF Lifecycle, Waited, Closed
  <2>. QED  BY <1>0, <1>1, <1>2, <2>2, <2>3 DEF Taken
<1>. QED  BY <1>3, <1>4, <1>5

LEMMA ConsolePipe ==
  ASSUME PipeInv, Buffer, Console
  PROVE  PipeInv' /\ \A t \in Steps : Taken(t)' = Taken(t)
<1>. USE DEF PipeInv
<1>0. /\ written' = written /\ fd' = fd /\ script' = script /\ proc' = proc /\ pc' = pc
      /\ held' = held /\ tail' = tail /\ file' = file
  BY DEF Console, Scan, PrintLine, TooLong, procVars, copyVars, runVars
<1>1. CASE Scan
  <2>. DEFINE w == writer
  <2>1. w \in Steps /\ copier[w] = "pipe" /\ copier'[w] = "file"
    BY <1>1 DEF Scan, Buffer, Typed
  <2>2. held[w] \in Pieces
    <3>1. fd[w] \in Seq(Pieces) /\ written[w] \in Nat /\ Len(fd[w]) \in Nat /\ Len(script[w]) \in Nat
      BY <2>1 DEF Typed
    <3>2. Taken(w) \in 1..Len(script[w]) /\ held[w] = Piece(w, Taken(w))
      BY <2>1, <3>1 DEF Flow, Taken
    <3>. QED  BY <2>1, <3>2, PieceTyped
  <2>3. Append(buf, held[w]) \in Seq(Pieces)
    BY <2>2, AppendProperties DEF Typed
  <2>4. Typed'
    BY <1>0, <1>1, <2>3 DEF Scan, Typed
  <2>5. ASSUME NEW t \in Steps PROVE Flow(t)' /\ Lifecycle(t)'
    <3>1. CASE t = w
      BY <1>0, <2>1, <3>1 DEF Flow, Lifecycle, Taken, Piece, Waited, Closed
    <3>2. CASE t # w
      <4>1. Untouched(t)
        BY <1>0, <1>1, <3>2 DEF Scan, Untouched, Typed
      <4>. QED  BY <4>1, UntouchedPipe
    <3>. QED  BY <3>1, <3>2
  <2>. QED  BY <1>0, <2>4, <2>5 DEF Taken
<1>2. CASE PrintLine \/ TooLong
  <2>1. copier' = copier
    BY <1>2 DEF PrintLine, TooLong, copyVars
  <2>2. ASSUME NEW t \in Steps PROVE Flow(t)' /\ Lifecycle(t)'
    <3>1. Untouched(t)
      BY <1>0, <2>1 DEF Untouched
    <3>. QED  BY <3>1, UntouchedPipe
  <2>3. Typed'
    <3>1. CASE PrintLine
      <4>1. Append(printed, buf) \in Seq(Seq(Pieces)) /\ <<>> \in Seq(Pieces)
        BY AppendProperties DEF Typed
      <4>2. Q!FlattenSeq(Append(printed, buf)) = Q!FlattenSeq(printed) \o buf
        BY FlattenOfAppend DEF Typed
      <4>3. Q!FlattenSeq(printed) \o buf \in Seq(Pieces)
        BY ConcatProperties DEF Typed
      <4>4. printed' \in Seq(Seq(Pieces)) /\ Q!FlattenSeq(printed)' \in Seq(Pieces)
        BY <3>1, <4>1, <4>2, <4>3 DEF PrintLine
      <4>. QED  BY <1>0, <2>1, <3>1, <4>1, <4>4 DEF PrintLine, Typed
    <3>2. CASE TooLong
      <4>1. Q!FlattenSeq(printed)' = Q!FlattenSeq(printed)
        BY <3>2 DEF TooLong
      <4>. QED  BY <1>0, <2>1, <3>2, <4>1 DEF TooLong, Typed
    <3>. QED  BY <1>2, <3>1, <3>2
  <2>. QED  BY <1>0, <2>2, <2>3 DEF Taken
<1>. QED  BY <1>1, <1>2 DEF Console

LEMMA RunPipe ==
  ASSUME PipeInv, NEW s \in Steps, Run(s)
  PROVE  PipeInv' /\ \A t \in Steps : Taken(t)' = Taken(t)
<1>. USE DEF PipeInv
<1>0. written' = written /\ fd' = fd /\ script' = script /\ held' = held /\ tail' = tail /\ file' = file
      /\ UNCHANGED consoleVars
  BY DEF Run, StartCmd, WaitDone, KillGroup, Reap, procVars, copyVars, consoleVars
<1>1. Typed'
  <2>1. Q!FlattenSeq(printed)' = Q!FlattenSeq(printed)
    BY <1>0 DEF consoleVars
  <2>2. pc' \in [Steps -> {"start", "select", "reap", "returned"}]
    <3>1. pc \in [Steps -> {"start", "select", "reap", "returned"}]
      BY DEF Typed
    <3>2. \E x \in {"select", "reap", "returned"} : pc' = [pc EXCEPT ![s] = x]
      BY DEF Run, StartCmd, WaitDone, KillGroup, Reap
    <3>. QED  BY <3>1, <3>2
  <2>3. /\ proc' \in [Steps -> {"none", "running", "exited", "killed", "broken"}]
        /\ copier' \in [Steps -> {"none", "read", "pipe", "file", "ended", "failed"}]
    <3>0. /\ proc \in [Steps -> {"none", "running", "exited", "killed", "broken"}]
          /\ copier \in [Steps -> {"none", "read", "pipe", "file", "ended", "failed"}]
      BY DEF Typed
    <3>1. CASE StartCmd(s)
      BY <3>0, <3>1 DEF StartCmd
    <3>2. CASE WaitDone(s) \/ KillGroup(s) \/ Reap(s)
      <4>1. copier' = copier /\ (proc' = proc \/ proc' = [proc EXCEPT ![s] = "killed"])
        BY <3>2 DEF WaitDone, KillGroup, Reap, procVars, copyVars
      <4>. QED  BY <3>0, <4>1
    <3>. QED  BY <3>1, <3>2 DEF Run
  <2>4. writer' = writer /\ reader' = reader /\ buf' = buf /\ printed' = printed
    BY <1>0 DEF consoleVars
  <2>5. proc' \in [Steps -> {"none", "running", "exited", "killed", "broken"}]
    BY <2>3
  <2>6. copier' \in [Steps -> {"none", "read", "pipe", "file", "ended", "failed"}]
    BY <2>3
  <2>. QED  BY <1>0, <2>1, <2>2, <2>4, <2>5, <2>6 DEF Typed
<1>2. ASSUME NEW t \in Steps, t # s PROVE Flow(t)' /\ Lifecycle(t)'
  <2>1. Untouched(t)
    BY <1>0, <1>2 DEF Run, StartCmd, WaitDone, KillGroup, Reap, Untouched, Typed, procVars, copyVars
  <2>. QED  BY <2>1, UntouchedPipe
<1>3. CASE StartCmd(s)
  <2>1. pc[s] = "start" /\ proc[s] = "none" /\ copier[s] = "none"
    BY <1>3 DEF StartCmd, Lifecycle
  <2>2. \/ pc'[s] = "select" /\ proc'[s] = "running" /\ copier'[s] = "read"
        \/ pc'[s] = "returned" /\ proc'[s] = "none" /\ copier'[s] = "none"
    BY <1>3, <2>1 DEF StartCmd, Typed
  <2>3. Flow(s)'
    BY <1>0, <2>1, <2>2 DEF Flow, Taken, Piece
  <2>4. Lifecycle(s)'
    BY <1>0, <2>1, <2>2 DEF Lifecycle, Waited, Closed
  <2>. QED  BY <1>0, <1>1, <1>2, <2>3, <2>4 DEF Taken
<1>4. CASE WaitDone(s) \/ Reap(s)
  <2>1. Waited(s) /\ pc'[s] = "returned" /\ proc' = proc /\ copier' = copier
    BY <1>4 DEF WaitDone, Reap, Typed, procVars, copyVars
  <2>2. Flow(s)'
    BY <1>0, <2>1 DEF Flow, Taken, Piece
  <2>3. Lifecycle(s)'
    BY <1>0, <2>1 DEF Lifecycle, Waited, Closed
  <2>. QED  BY <1>0, <1>1, <1>2, <2>2, <2>3 DEF Taken
<1>5. CASE KillGroup(s)
  <2>1. pc[s] = "select" /\ pc'[s] = "reap" /\ proc'[s] = "killed" /\ copier' = copier
    BY <1>5 DEF KillGroup, Typed, copyVars
  <2>2. Flow(s)'
    BY <1>0, <2>1 DEF Flow, Taken, Piece
  <2>3. Lifecycle(s)'
    BY <1>0, <2>1 DEF Lifecycle, Waited, Closed
  <2>. QED  BY <1>0, <1>1, <1>2, <2>2, <2>3 DEF Taken
<1>. QED  BY <1>3, <1>4, <1>5 DEF Run

LEMMA StutterPipe ==
  ASSUME PipeInv, Cancel \/ UNCHANGED vars
  PROVE  PipeInv'
<1>. USE DEF PipeInv
<1>1. /\ UNCHANGED <<script, procVars, fd, copyVars, consoleVars, pc>>
  BY DEF Cancel, vars, runVars
<1>2. Q!FlattenSeq(printed)' = Q!FlattenSeq(printed)
  BY <1>1 DEF consoleVars
<1>3. Typed'
  BY <1>1, <1>2 DEF Typed, procVars, copyVars, consoleVars
<1>4. ASSUME NEW t \in Steps PROVE Flow(t)' /\ Lifecycle(t)'
  <2>1. Untouched(t)
    BY <1>1 DEF Untouched, procVars, copyVars
  <2>. QED  BY <2>1, UntouchedPipe
<1>. QED  BY <1>3, <1>4

------------------------------------------------------------------------------
(* The output is complete                                                  *)

LEMMA CarriesNothing ==
  ASSUME NEW s \in Steps
  PROVE  Carries(<<>>, s, 0)
<1>1. DOMAIN <<>> = {} /\ 1..0 = {}
  OBVIOUS
<1>2. \A i \in {i \in DOMAIN <<>> : (<<>>)[i].step = s} : FALSE
  BY <1>1
<1>3. {(<<>>)[i] : i \in {i \in DOMAIN <<>> : (<<>>)[i].step = s}} = {Piece(s, k) : k \in 1..0}
  BY <1>1
<1>. QED  BY <1>2, <1>3 DEF Carries

LEMMA InitOutput == Init => OutputInv
<1>. SUFFICES ASSUME Init PROVE OutputInv
  OBVIOUS
<1>1. Q!FlattenSeq(<<>>) = <<>> /\ <<>> \o <<>> = <<>>
  BY DEF Q!FlattenSeq
<1>2. Buffer
  <2>1. Lines(buf) = <<>> /\ <<>> \in Seq(Seq(Pieces)) /\ Len(<<>>) = 0 /\ DOMAIN buf = {}
    BY LinesOfNothing DEF Init
  <2>2. writer = None /\ buf = <<>>
    BY DEF Init
  <2>. QED  BY <2>1, <2>2 DEF Buffer
<1>3. ASSUME NEW s \in Steps PROVE Output(s)
  <2>1. InFile(s) = 0 /\ InConsole(s) = 0
    <3>1. written[s] = 0 /\ Len(fd[s]) = 0 /\ copier[s] = "none"
      BY DEF Init
    <3>2. Taken(s) = 0
      BY <3>1 DEF Taken
    <3>3. copier[s] # "pipe" /\ copier[s] # "file"
      BY <3>1
    <3>. QED  BY <3>2, <3>3 DEF InFile, InConsole
  <2>2. file = <<>> /\ Console_ = <<>>
    BY <1>1 DEF Init, Console_
  <2>. QED  BY <2>1, <2>2, CarriesNothing DEF Output
<1>. QED  BY <1>2, <1>3 DEF OutputInv

LEMMA OutputNext ==
  ASSUME NEW s \in Steps, script' = script,
         NEW f, f = file', NEW c, c = Console_', NEW i, i = InFile(s)', NEW k, k = InConsole(s)',
         copier'[s] # "failed" => Carries(f, s, i),
         Carries(c, s, k)
  PROVE  Output(s)'
BY DEF Output, Carries, Piece

(* The buffer of the console reader, by what happens to it.                *)
LEMMA LinesKept ==
  ASSUME buf' = buf
  PROVE  Lines(buf)' = Lines(buf)
BY DEF Lines

LEMMA BufferKept ==
  ASSUME Buffer, UNCHANGED <<writer, reader, buf>>, writer # None => copier'[writer] = "pipe"
  PROVE  Buffer'
<1>1. Lines(buf)' = Lines(buf)
  BY LinesKept
<1>. QED  BY <1>1 DEF Buffer

LEMMA OutputKept ==
  ASSUME NEW s \in Steps, Output(s), script' = script, file' = file, Console_' = Console_,
         InConsole(s)' = InConsole(s),
         copier'[s] # "failed" => copier[s] # "failed" /\ InFile(s)' = InFile(s)
  PROVE  Output(s)'
<1>1. Carries(Console_, s, InConsole(s)')
  BY DEF Output
<1>2. copier'[s] # "failed" => Carries(file, s, InFile(s)')
  BY DEF Output
<1>3. PICK f, c, i, k : f = file' /\ c = Console_' /\ i = InFile(s)' /\ k = InConsole(s)'
  OBVIOUS
<1>4. Carries(c, s, k) /\ (copier'[s] # "failed" => Carries(f, s, i))
  BY <1>1, <1>2, <1>3
<1>. QED  BY <1>3, <1>4, OutputNext

LEMMA ConsoleKept ==
  ASSUME UNCHANGED consoleVars
  PROVE  Console_' = Console_
BY DEF consoleVars, Console_

(* The command writes or ends, and the copier reads, ends or is started.   *)
LEMMA OutputAlong ==
  ASSUME PipeInv, OutputInv, NEW s \in Steps, Write(s) \/ Exit(s) \/ Read(s) \/ EndOfFile(s) \/ Run(s)
  PROVE  OutputInv'
<1>. USE DEF PipeInv, OutputInv
<1>1. UNCHANGED consoleVars /\ script' = script /\ file' = file
  BY DEF Write, Exit, Read, EndOfFile, Run, StartCmd, WaitDone, KillGroup, Reap, copyVars, consoleVars
<1>2. ASSUME NEW t \in Steps
      PROVE  /\ InConsole(t)' = InConsole(t) /\ InFile(t)' = InFile(t)
             /\ copier[t] = "pipe" => copier'[t] = "pipe"
             /\ copier'[t] # "failed" => copier[t] # "failed"
  <2>1. CASE Write(s) \/ Exit(s)
    <3>1. Taken(t)' = Taken(t) /\ copier' = copier
      BY <2>1, WritePipe, ExitPipe DEF Write, Exit, copyVars
    <3>. QED  BY <3>1 DEF InConsole, InFile
  <2>2. CASE Read(s)
    <3>1. copier[s] = "read" /\ copier' = [copier EXCEPT ![s] = "pipe"] /\ copier \in [Steps -> {"none", "read", "pipe", "file", "ended", "failed"}]
      BY <2>2 DEF Read, Typed
    <3>2. CASE t = s
      <4>1. Taken(s)' = Taken(s) + 1 /\ Taken(s) \in Nat
        BY <2>2, ReadPipe DEF Flow
      <4>. QED  BY <3>1, <3>2, <4>1 DEF InConsole, InFile
    <3>3. CASE t # s
      <4>1. Taken(t)' = Taken(t)
        BY <2>2, <3>3, ReadPipe
      <4>. QED  BY <3>1, <3>3, <4>1 DEF InConsole, InFile
    <3>. QED  BY <3>2, <3>3
  <2>3. CASE EndOfFile(s)
    <3>1. copier[s] = "read" /\ copier' = [copier EXCEPT ![s] = "ended"] /\ copier \in [Steps -> {"none", "read", "pipe", "file", "ended", "failed"}]
      BY <2>3 DEF EndOfFile, Typed
    <3>2. Taken(t)' = Taken(t)
      BY <2>3, CopyPipe
    <3>. QED  BY <3>1, <3>2 DEF InConsole, InFile
  <2>4. CASE Run(s)
    <3>1. Taken(t)' = Taken(t)
      BY <2>4, RunPipe
    <3>2. copier' = copier \/ (copier[s] = "none" /\ copier' = [copier EXCEPT ![s] = "read"])
      BY <2>4 DEF Run, StartCmd, WaitDone, KillGroup, Reap, copyVars, Lifecycle
    <3>3. copier \in [Steps -> {"none", "read", "pipe", "file", "ended", "failed"}]
      BY DEF Typed
    <3>. QED  BY <3>1, <3>2, <3>3 DEF InConsole, InFile
  <2>. QED  BY <2>1, <2>2, <2>3, <2>4
<1>3. Buffer'
  <2>1. writer # None => copier'[writer] = "pipe"
    BY <1>2 DEF Buffer, Typed
  <2>. QED  BY <1>1, <2>1, BufferKept DEF consoleVars
<1>4. ASSUME NEW t \in Steps PROVE Output(t)'
  BY <1>1, <1>2, ConsoleKept, OutputKept
<1>. QED  BY <1>3, <1>4

LEMMA OutputToFile ==
  ASSUME PipeInv, OutputInv, NEW s \in Steps, ToConsole(s) \/ ToFile(s)
  PROVE  OutputInv'
<1>. USE DEF PipeInv, OutputInv
<1>0. script' = script /\ \A t \in Steps : Taken(t)' = Taken(t)
  <2>1. script' = script
    BY DEF ToConsole, ToFile
  <2>. QED  BY <2>1, CopyPipe
<1>1. CASE ToConsole(s)
  <2>1. /\ copier' = copier /\ file' = file /\ writer' = s /\ copier[s] = "pipe"
        /\ UNCHANGED <<reader, buf, printed>>
    BY <1>1 DEF ToConsole, copyVars
  <2>2. Buffer'
    <3>1. Lines(buf)' = Lines(buf)
      BY <2>1, LinesKept
    <3>. QED  BY <2>1, <3>1 DEF Buffer
  <2>3. Console_' = Console_
    BY <2>1 DEF Console_
  <2>4. ASSUME NEW t \in Steps PROVE Output(t)'
    <3>1. InConsole(t)' = InConsole(t) /\ InFile(t)' = InFile(t)
      BY <1>0, <2>1 DEF InConsole, InFile
    <3>. QED  BY <1>0, <2>1, <2>3, <3>1, OutputKept
  <2>. QED  BY <2>2, <2>4
<1>2. CASE ToFile(s)
  <2>1. UNCHANGED consoleVars /\ copier[s] = "file"
    BY <1>2 DEF ToFile
  <2>2. copier \in [Steps -> {"none", "read", "pipe", "file", "ended", "failed"}]
    BY DEF Typed
  <2>3. copier' = [copier EXCEPT ![s] = "read"] \/ copier' = [copier EXCEPT ![s] = "failed"]
    BY <1>2 DEF ToFile
  <2>4. Console_' = Console_
    BY <2>1, ConsoleKept
  <2>5. Buffer'
    <3>1. writer # None => copier'[writer] = "pipe"
      BY <2>1, <2>2, <2>3 DEF Buffer, Typed
    <3>. QED  BY <2>1, <3>1, BufferKept DEF consoleVars
  <2>6. \A t \in Steps : InConsole(t)' = InConsole(t)
    BY <1>0, <2>1, <2>2, <2>3 DEF InConsole
  <2>7. CASE file' = file /\ copier' = [copier EXCEPT ![s] = "failed"]
    <3>1. ASSUME NEW t \in Steps PROVE Output(t)'
      <4>1. copier'[t] # "failed" => copier[t] # "failed" /\ InFile(t)' = InFile(t)
        BY <1>0, <2>2, <2>7 DEF InFile
      <4>. QED  BY <1>0, <2>4, <2>6, <2>7, <4>1, OutputKept
    <3>. QED  BY <2>5, <3>1
  <2>8. CASE file' = Append(file, held[s]) /\ copier' = [copier EXCEPT ![s] = "read"]
    <3>. DEFINE n == Taken(s) - 1
                p == held[s]
    <3>1. fd[s] \in Seq(Pieces) /\ written[s] \in Nat /\ Len(fd[s]) \in Nat /\ Len(script[s]) \in Nat
      BY DEF Typed
    <3>2. n \in Nat /\ n + 1 = Taken(s) /\ Taken(s) \in 1..Len(script[s]) /\ p = Piece(s, n + 1)
      BY <2>1, <3>1 DEF Flow, Taken
    <3>3. p \in Pieces /\ p.step = s
      BY <3>2, PieceTyped
    <3>4. InFile(s) = n /\ InFile(s)' = n + 1
      BY <1>0, <2>1, <2>2, <2>8, <3>2 DEF InFile
    <3>. HIDE DEF n, p
    <3>5. Carries(Append(file, p), s, n + 1)
      <4>1. Carries(file, s, n) /\ file \in Seq(Pieces)
        BY <2>1, <3>4 DEF Output, Typed
      <4>. QED  BY <3>2, <3>3, <4>1, CarriesNext
    <3>6. ASSUME NEW t \in Steps PROVE Output(t)'
      <4>1. CASE t = s
        <5>1. PICK f, c, i, k : f = file' /\ c = Console_' /\ i = InFile(s)' /\ k = InConsole(s)'
          OBVIOUS
        <5>2. Carries(c, s, k)
          BY <2>4, <2>6, <5>1 DEF Output
        <5>3. Carries(f, s, i)
          BY <2>8, <3>4, <3>5, <5>1 DEF p
        <5>. QED  BY <1>0, <4>1, <5>1, <5>2, <5>3, OutputNext
      <4>2. CASE t # s
        <5>1. PICK f, c, i, k : f = file' /\ c = Console_' /\ i = InFile(t)' /\ k = InConsole(t)'
          OBVIOUS
        <5>2. Carries(c, t, k)
          BY <2>4, <2>6, <5>1 DEF Output
        <5>3. copier'[t] = copier[t] /\ i = InFile(t)
          BY <1>0, <2>2, <2>8, <4>2, <5>1 DEF InFile
        <5>4. copier'[t] # "failed" => Carries(f, t, i)
          <6>1. InFile(t) \in Nat
            BY <2>2 DEF InFile, Flow
          <6>2. copier[t] # "failed" => Carries(file, t, i) /\ file \in Seq(Pieces)
            BY <5>3 DEF Output, Typed
          <6>3. copier[t] # "failed" => Carries(Append(file, p), t, i)
            BY <3>3, <4>2, <5>3, <6>1, <6>2, CarriesOthers
          <6>. QED  BY <2>8, <5>1, <5>3, <6>3 DEF p
        <5>. QED  BY <1>0, <5>1, <5>2, <5>4, OutputNext
      <4>. QED  BY <4>1, <4>2
    <3>. QED  BY <2>5, <3>6
  <2>. QED  BY <1>2, <2>7, <2>8 DEF ToFile
<1>. QED  BY <1>1, <1>2

LEMMA OutputScan ==
  ASSUME PipeInv, OutputInv, Scan
  PROVE  OutputInv'
<1>. USE DEF PipeInv, OutputInv
<1>w. PICK w \in Steps : w = writer
  BY DEF Scan, Typed
<1>. DEFINE p == held[w]
            n == Taken(w) - 1
<1>0. script' = script /\ \A t \in Steps : Taken(t)' = Taken(t)
  <2>1. script' = script
    BY DEF Scan
  <2>. QED  BY <2>1, ConsolePipe DEF Console
<1>1. copier[w] = "pipe" /\ copier' = [copier EXCEPT ![w] = "file"] /\ writer' = None
  BY <1>w DEF Scan, Buffer, Typed
<1>2. fd[w] \in Seq(Pieces) /\ written[w] \in Nat /\ Len(fd[w]) \in Nat /\ Len(script[w]) \in Nat
  BY <1>1 DEF Typed
<1>3. n \in Nat /\ n + 1 = Taken(w) /\ Taken(w) \in 1..Len(script[w]) /\ p = Piece(w, n + 1)
  BY <1>1, <1>2 DEF Flow, Taken
<1>4. p \in Pieces /\ p.step = w
  BY <1>1, <1>3, PieceTyped
<1>5. /\ buf' = Append(buf, p) /\ reader = "scan" /\ reader' = IF p.nl THEN "print" ELSE "scan"
      /\ printed' = printed /\ file' = file
  BY <1>w DEF Scan
<1>6. copier \in [Steps -> {"none", "read", "pipe", "file", "ended", "failed"}] /\ buf \in Seq(Pieces)
      /\ Q!FlattenSeq(printed) \in Seq(Pieces)
  BY DEF Typed
<1>7. InConsole(w) = n /\ InConsole(w)' = n + 1 /\ \A t \in Steps : InFile(t)' = InFile(t)
  <2>1. InConsole(w) = n
    BY <1>1 DEF InConsole
  <2>2. copier'[w] = "file"
    BY <1>1, <1>6
  <2>3. InConsole(w)' = n + 1
    BY <1>0, <1>1, <1>3, <2>2 DEF InConsole
  <2>4. ASSUME NEW t \in Steps PROVE InFile(t)' = InFile(t)
    <3>1. copier'[t] \in {"pipe", "file"} <=> copier[t] \in {"pipe", "file"}
      BY <1>1, <1>6
    <3>. QED  BY <1>0, <3>1 DEF InFile
  <2>. QED  BY <2>1, <2>3, <2>4
<1>. HIDE DEF p, n
<1>8. Console_' = Append(Console_, p) /\ Console_ \in Seq(Pieces)
  <2>1. PICK q \in Seq(Pieces) : q = Q!FlattenSeq(printed)
    BY <1>6
  <2>2. q \o Append(buf, p) = Append(q \o buf, p)
    <3>1. <<p>> \in Seq(Pieces) /\ q \o buf \in Seq(Pieces)
      BY <1>4, <1>6, <2>1, ConcatProperties
    <3>2. Append(buf, p) = buf \o <<p>>
      BY <1>4, <1>6, AppendIsConcat
    <3>3. Append(q \o buf, p) = (q \o buf) \o <<p>>
      BY <1>4, <3>1, AppendIsConcat
    <3>. QED  BY <1>6, <2>1, <3>1, <3>2, <3>3, ConcatAssociative
  <2>3. Q!FlattenSeq(printed)' = q
    BY <1>5, <2>1
  <2>4. q \o buf \in Seq(Pieces)
    BY <1>6, ConcatProperties
  <2>. QED  BY <1>5, <2>1, <2>2, <2>3, <2>4 DEF Console_
<1>9. Buffer'
  <2>1. \A i \in DOMAIN buf : ~ buf[i].nl
    BY <1>5, <1>6 DEF Buffer, Pieces
  <2>2. /\ DOMAIN buf' = 1..Len(buf) + 1 /\ buf'[Len(buf) + 1] = p /\ \A i \in 1..Len(buf) : buf'[i] = buf[i]
        /\ DOMAIN buf = 1..Len(buf) /\ Len(buf) \in Nat /\ buf' # <<>>
    <3>1. Append(buf, p) # <<>>
      BY <1>4, <1>6, AppendProperties
    <3>. QED  BY <1>4, <1>5, <1>6, <3>1, AppendProperties
  <2>3. \A i \in DOMAIN buf' : buf'[i].nl => reader' = "print"
    <3>. SUFFICES ASSUME NEW i \in 1..Len(buf) + 1, buf'[i].nl PROVE reader' = "print"
      BY <2>2
    <3>1. i \notin 1..Len(buf)
      BY <2>1, <2>2
    <3>2. i = Len(buf) + 1
      BY <2>2, <3>1
    <3>. QED  BY <1>5, <2>2, <3>2
  <2>4. Lines(buf') \in Seq(Seq(Pieces)) /\ Len(Lines(buf')) = 1
    <3>1. PICK ls \in Seq(Seq(Pieces)) : ls = Lines(buf) /\ Len(ls) = IF buf = <<>> THEN 0 ELSE 1
      BY DEF Buffer
    <3>2. CASE buf = <<>>
      <4>1. Lines(buf') = Append(ls, <<p>>)
        BY <1>4, <1>5, <1>6, <3>1, <3>2, LinesOfAppend
      <4>2. <<p>> \in Seq(Pieces)
        BY <1>4
      <4>. QED  BY <3>1, <3>2, <4>1, <4>2, AppendProperties
    <3>3. CASE buf # <<>>
      <4>1. ~ buf[Len(buf)].nl
        <5>1. Len(buf) # 0
          BY <1>6, <3>3, EmptySeq
        <5>2. Len(buf) \in DOMAIN buf
          BY <2>2, <5>1
        <5>. QED  BY <2>1, <5>2
      <4>2. Lines(buf') = [ls EXCEPT ![Len(ls)] = Append(@, p)]
        BY <1>4, <1>5, <1>6, <3>1, <3>3, <4>1, LinesOfAppend
      <4>3. Len(ls) = 1 /\ ls[1] \in Seq(Pieces)
        BY <3>1, <3>3, ElementOfSeq
      <4>4. Append(ls[1], p) \in Seq(Pieces)
        BY <1>4, <4>3, AppendProperties
      <4>5. Lines(buf') = [ls EXCEPT ![1] = Append(ls[1], p)]
        BY <4>2, <4>3
      <4>7. 1 \in 1..Len(ls)
        BY <4>3
      <4>6. [ls EXCEPT ![1] = Append(ls[1], p)] \in Seq(Seq(Pieces)) /\ Len([ls EXCEPT ![1] = Append(ls[1], p)]) = 1
        BY <3>1, <4>3, <4>4, <4>7, ExceptSeq
      <4>. QED  BY <4>5, <4>6
    <3>. QED  BY <3>2, <3>3
  <2>5. Lines(buf)' \in Seq(Seq(Pieces)) /\ Len(Lines(buf)') = 1
    <3>1. Lines(buf)' = Lines(buf')
      BY DEF Lines
    <3>. QED  BY <2>4, <3>1
  <2>. QED  BY <1>1, <2>2, <2>3, <2>5 DEF Buffer
<1>10. ASSUME NEW t \in Steps PROVE Output(t)'
  <2>1. PICK f, c, i, k : f = file' /\ c = Console_' /\ i = InFile(t)' /\ k = InConsole(t)'
    OBVIOUS
  <2>2. copier'[t] # "failed" => Carries(f, t, i)
    <3>1. copier'[t] # "failed" => copier[t] # "failed"
      BY <1>1, <1>6
    <3>. QED  BY <1>5, <1>7, <2>1, <3>1 DEF Output
  <2>3. Carries(c, t, k)
    <3>1. CASE t = w
      <4>1. Carries(Console_, w, n)
        BY <1>1, <1>7 DEF Output
      <4>2. Carries(Append(Console_, p), w, n + 1)
        BY <1>1, <1>3, <1>4, <1>8, <4>1, CarriesNext
      <4>3. k = n + 1
        BY <1>7, <2>1, <3>1
      <4>. QED  BY <1>8, <2>1, <3>1, <4>2, <4>3
    <3>2. CASE t # w
      <4>1. InConsole(t)' = InConsole(t) /\ InConsole(t) \in Nat
        <5>1. copier'[t] = copier[t] /\ Taken(t) \in Nat
          BY <1>1, <1>6, <3>2 DEF Flow
        <5>. QED  BY <1>0, <5>1 DEF InConsole, Flow
      <4>2. Carries(Console_, t, InConsole(t))
        BY DEF Output
      <4>3. Carries(Append(Console_, p), t, InConsole(t))
        BY <1>4, <1>8, <3>2, <4>1, <4>2, CarriesOthers
      <4>. QED  BY <1>8, <2>1, <4>1, <4>3
    <3>. QED  BY <3>1, <3>2
  <2>. QED  BY <1>0, <2>1, <2>2, <2>3, OutputNext
<1>. QED  BY <1>9, <1>10

(* A line is printed, the reader stops, or nothing happens.                *)
LEMMA OutputStays ==
  ASSUME PipeInv, OutputInv, PrintLine \/ TooLong \/ Cancel \/ UNCHANGED vars
  PROVE  OutputInv'
<1>. USE DEF PipeInv, OutputInv
<1>1. script' = script /\ file' = file /\ copier' = copier /\ written' = written /\ fd' = fd /\ writer' = writer
  BY DEF PrintLine, TooLong, Cancel, vars, copyVars, consoleVars, procVars, runVars
<1>2. Console_' = Console_
  <2>1. CASE PrintLine
    <3>1. Q!FlattenSeq(Append(printed, buf)) = Q!FlattenSeq(printed) \o buf
      BY FlattenOfAppend DEF Typed
    <3>2. (Q!FlattenSeq(printed) \o buf) \o <<>> = Q!FlattenSeq(printed) \o buf
      <4>1. Q!FlattenSeq(printed) \o buf \in Seq(Pieces)
        BY ConcatProperties DEF Typed
      <4>. QED  BY <4>1, ConcatEmptySeq
    <3>3. Q!FlattenSeq(printed)' = Q!FlattenSeq(printed) \o buf /\ buf' = <<>>
      BY <2>1, <3>1 DEF PrintLine
    <3>. QED  BY <3>2, <3>3 DEF Console_
  <2>2. CASE TooLong \/ Cancel \/ UNCHANGED vars
    <3>1. printed' = printed /\ buf' = buf
      BY <2>2 DEF TooLong, Cancel, vars, consoleVars
    <3>. QED  BY <3>1 DEF Console_
  <2>. QED  BY <2>1, <2>2
<1>3. Buffer'
  <2>1. CASE PrintLine
    <3>1. buf' = <<>> /\ DOMAIN buf' = {} /\ Lines(buf)' = <<>> /\ <<>> \in Seq(Seq(Pieces)) /\ Len(<<>>) = 0
      <4>1. Lines(buf)' = Lines(buf')
        BY DEF Lines
      <4>. QED  BY <2>1, <4>1, LinesOfNothing DEF PrintLine
    <3>2. Lines(buf)' \in Seq(Seq(Pieces)) /\ Len(Lines(buf)') = 0
      BY <3>1
    <3>3. writer' # None => copier'[writer'] = "pipe"
      BY <1>1 DEF Buffer
    <3>. HIDE DEF Buffer
    <3>. QED  BY <3>1, <3>2, <3>3 DEF Buffer
  <2>2. CASE TooLong
    <3>1. buf' = buf /\ reader = "scan" /\ reader' = "stopped"
      BY <2>2 DEF TooLong
    <3>2. \A i \in DOMAIN buf : ~ buf[i].nl
      BY <3>1 DEF Buffer, Typed, Pieces
    <3>3. Lines(buf)' = Lines(buf)
      BY <3>1, LinesKept
    <3>4. writer' # None => copier'[writer'] = "pipe"
      BY <1>1 DEF Buffer
    <3>5. /\ Lines(buf)' \in Seq(Seq(Pieces))
          /\ Len(Lines(buf)') = IF buf' = <<>> THEN 0 ELSE 1
      BY <3>1, <3>3 DEF Buffer
    <3>. QED  BY <3>1, <3>2, <3>4, <3>5 DEF Buffer
  <2>3. CASE Cancel \/ UNCHANGED vars
    <3>1. UNCHANGED <<writer, reader, buf>>
      BY <2>3 DEF Cancel, vars, consoleVars
    <3>2. writer # None => copier'[writer] = "pipe"
      BY <1>1 DEF Buffer
    <3>. QED  BY <3>1, <3>2, BufferKept
  <2>. QED  BY <2>1, <2>2, <2>3
<1>4. ASSUME NEW t \in Steps PROVE Output(t)'
  <2>1. InConsole(t)' = InConsole(t) /\ InFile(t)' = InFile(t)
    BY <1>1 DEF InConsole, InFile, Taken
  <2>. QED  BY <1>1, <1>2, <2>1, OutputKept
<1>. QED  BY <1>3, <1>4

LEMMA NextOutput == PipeInv /\ OutputInv /\ [Next]_vars => PipeInv' /\ OutputInv'
<1>. SUFFICES ASSUME PipeInv, OutputInv, [Next]_vars PROVE PipeInv' /\ OutputInv'
  OBVIOUS
<1>1. CASE \E s \in Steps : Write(s)
  BY <1>1, WritePipe, OutputAlong
<1>2. CASE \E s \in Steps : Exit(s)
  BY <1>2, ExitPipe, OutputAlong
<1>3. CASE \E s \in Steps : Read(s)
  BY <1>3, ReadPipe, OutputAlong
<1>4. CASE \E s \in Steps : EndOfFile(s)
  BY <1>4, CopyPipe, OutputAlong
<1>5. CASE \E s \in Steps : ToConsole(s) \/ ToFile(s)
  BY <1>5, CopyPipe, OutputToFile
<1>6. CASE \E s \in Steps : Run(s)
  BY <1>6, RunPipe, OutputAlong
<1>7. CASE Scan
  BY <1>7, ConsolePipe, OutputScan DEF OutputInv, Console
<1>8. CASE PrintLine \/ TooLong
  BY <1>8, ConsolePipe, OutputStays DEF OutputInv, Console
<1>9. CASE Cancel \/ UNCHANGED vars
  BY <1>9, StutterPipe, OutputStays
<1>. QED
  BY <1>1, <1>2, <1>3, <1>4, <1>5, <1>6, <1>7, <1>8, <1>9 DEF Next, Copy, Console, Elsewhere

LEMMA OutputHolds == PipeInv /\ OutputInv => OutputComplete
<1>. SUFFICES ASSUME PipeInv, OutputInv, NEW s \in Steps, Complete(s)
     PROVE  /\ Carries(file, s, written[s])
            /\ Carries(Q!FlattenSeq(printed) \o buf, s, written[s])
            /\ Len(Lines(buf)) <= 1
  BY DEF OutputComplete
<1>1. Waited(s) /\ copier[s] = "ended" /\ fd[s] = <<>>
  BY DEF PipeInv, Lifecycle, Complete, Waited
<1>2. written[s] \in Nat /\ Len(<<>>) = 0
  BY DEF PipeInv, Typed
<1>3. Taken(s) = written[s]
  BY <1>1, <1>2 DEF Taken
<1>4. InFile(s) = written[s] /\ InConsole(s) = written[s]
  BY <1>1, <1>2, <1>3 DEF InFile, InConsole
<1>5. Len(Lines(buf)) <= 1
  BY DEF OutputInv, Buffer
<1>. QED  BY <1>1, <1>4, <1>5 DEF OutputInv, Output, Console_

(* A step that has returned has left what its command wrote before it      *)
(* ended in the log file and on the console (or in the reader's buffer),   *)
(* in order, once, and unmixed within the step, however many steps share   *)
(* the console pipe and the file, and however the step ended.              *)
THEOREM OutputIsComplete == Spec => []OutputComplete
BY InitPipe, InitOutput, NextOutput, OutputHolds, PTL DEF Spec

------------------------------------------------------------------------------
(* The tail is honest                                                      *)

LEMMA LastProperties ==
  ASSUME NEW S, NEW q \in Seq(S), NEW n \in Nat \ {0}
  PROVE  /\ Last(q, n) \in Seq(S)
         /\ Len(q) <= n => Last(q, n) = q
         /\ Len(q) > n => /\ Len(Last(q, n)) = n
                          /\ \A i \in 1..n : Last(q, n)[i] = q[Len(q) - n + i]
<1>1. Len(q) \in Nat
  OBVIOUS
<1>2. CASE Len(q) <= n
  <2>0. ~ (Len(q) > n)
    BY <1>1, <1>2
  <2>1. Last(q, n) = SubSeq(q, 1, Len(q))
    BY <2>0, Zenon DEF Last
  <2>2. SubSeq(q, 1, Len(q)) = q
    BY SubSeqFull
  <2>. QED  BY <2>0, <2>1, <2>2
<1>3. CASE Len(q) > n
  <2>. DEFINE m == Len(q) - n + 1
              l == Len(q)
  <2>1. Last(q, n) = SubSeq(q, m, l)
    BY <1>1, <1>3 DEF Last
  <2>2. m \in Nat /\ 1 <= m /\ m <= l /\ l - m + 1 = n /\ m \in 1..l + 1 /\ l \in Nat /\ l = Len(q)
    BY <1>1, <1>3
  <2>3. \A i \in 1..n : m + i - 1 = l - n + i
    BY <1>1, <1>3
  <2>. HIDE DEF m, l
  <2>4. SubSeq(q, m, l) \in Seq(S) /\ Len(SubSeq(q, m, l)) = n
    BY <2>2, SubSeqProperties
  <2>5. \A i \in 1..n : SubSeq(q, m, l)[i] = q[m + i - 1]
    BY <2>2, SubSeqProperties
  <2>. QED  BY <1>1, <1>3, <2>1, <2>2, <2>3, <2>4, <2>5
<1>. QED  BY <1>1, <1>2, <1>3

LEMMA LastTwice ==
  ASSUME NEW S, NEW q \in Seq(S), NEW n \in Nat \ {0}
  PROVE  Last(Last(q, n), n) = Last(q, n)
<1>1. Len(q) \in Nat
  OBVIOUS
<1>2. CASE Len(q) <= n
  BY <1>2, LastProperties
<1>3. CASE Len(q) > n
  <2>1. Last(q, n) \in Seq(S) /\ Len(Last(q, n)) = n
    BY <1>3, LastProperties
  <2>2. Len(Last(q, n)) <= n
    BY <2>1
  <2>. QED  BY <2>1, <2>2, LastProperties
<1>. QED  BY <1>1, <1>2, <1>3

(* Cutting before an element is appended does not matter.                  *)
LEMMA LastOfAppend ==
  ASSUME NEW S, NEW q \in Seq(S), NEW x \in S, NEW n \in Nat \ {0}
  PROVE  Last(Append(Last(q, n), x), n) = Last(Append(q, x), n)
<1>1. Len(q) \in Nat
  OBVIOUS
<1>2. CASE Len(q) <= n
  BY <1>2, LastProperties
<1>3. CASE Len(q) > n
  <2>. DEFINE p == Last(q, n)
              px == Append(p, x)
              qx == Append(q, x)
              u == Last(px, n)
              v == Last(qx, n)
  <2>1. p \in Seq(S) /\ Len(p) = n /\ \A i \in 1..n : p[i] = q[Len(q) - n + i]
    BY <1>3, LastProperties
  <2>. HIDE DEF p
  <2>2. px \in Seq(S) /\ Len(px) = n + 1 /\ px[n + 1] = x /\ \A i \in 1..n : px[i] = p[i]
    BY <2>1, AppendProperties
  <2>3. qx \in Seq(S) /\ Len(qx) = Len(q) + 1 /\ qx[Len(q) + 1] = x /\ \A i \in 1..Len(q) : qx[i] = q[i]
    BY AppendProperties
  <2>. HIDE DEF px, qx
  <2>4. u \in Seq(S) /\ Len(u) = n /\ \A i \in 1..n : u[i] = px[Len(px) - n + i]
    <3>1. px \in Seq(S) /\ Len(px) > n
      BY <2>2
    <3>. QED  BY <3>1, LastProperties
  <2>5. v \in Seq(S) /\ Len(v) = n /\ \A i \in 1..n : v[i] = qx[Len(qx) - n + i]
    <3>1. qx \in Seq(S) /\ Len(qx) > n
      BY <1>1, <1>3, <2>3
    <3>. QED  BY <3>1, LastProperties
  <2>. HIDE DEF u, v
  <2>6. ASSUME NEW i \in 1..n PROVE u[i] = v[i]
    <3>1. u[i] = px[i + 1]
      <4>1. Len(px) - n + i = i + 1
        BY <2>2
      <4>. QED  BY <2>4, <4>1
    <3>2. v[i] = qx[Len(q) - n + (i + 1)]
      <4>1. Len(qx) - n + i = Len(q) - n + (i + 1)
        BY <1>1, <2>3
      <4>. QED  BY <2>5, <4>1
    <3>3. CASE i = n
      <4>1. Len(q) - n + (i + 1) = Len(q) + 1
        BY <1>1, <3>3
      <4>. QED  BY <2>2, <2>3, <3>1, <3>2, <3>3, <4>1
    <3>4. CASE i # n
      <4>1. i + 1 \in 1..n /\ Len(q) - n + (i + 1) \in 1..Len(q)
        BY <1>1, <1>3, <3>4
      <4>2. px[i + 1] = p[i + 1] /\ p[i + 1] = q[Len(q) - n + (i + 1)]
        BY <2>1, <2>2, <4>1
      <4>3. qx[Len(q) - n + (i + 1)] = q[Len(q) - n + (i + 1)]
        BY <2>3, <4>1
      <4>. QED  BY <3>1, <3>2, <4>2, <4>3
    <3>. QED  BY <3>3, <3>4
  <2>7. u = v
    BY <2>4, <2>5, <2>6, SeqEqual
  <2>. QED  BY <2>7 DEF u, v, px, qx, p
<1>. QED  BY <1>1, <1>2, <1>3

LEMMA AllNext ==
  ASSUME Typed, NEW s \in Steps, NEW n \in Nat, n <= Len(script[s])
  PROVE  /\ All(s, n) \in Seq(Pieces) /\ Len(All(s, n)) = n /\ \A i \in 1..n : All(s, n)[i] = Piece(s, i)
         /\ n + 1 <= Len(script[s]) => All(s, n + 1) = Append(All(s, n), Piece(s, n + 1))
<1>0. Len(script[s]) \in Nat
  BY DEF Typed
<1>1. \A k \in Nat : k <= Len(script[s]) => /\ All(s, k) \in Seq(Pieces) /\ Len(All(s, k)) = k
                                            /\ \A i \in 1..k : All(s, k)[i] = Piece(s, i)
  <2>. SUFFICES ASSUME NEW k \in Nat, k <= Len(script[s])
                PROVE  /\ All(s, k) \in Seq(Pieces) /\ Len(All(s, k)) = k
                       /\ \A i \in 1..k : All(s, k)[i] = Piece(s, i)
    OBVIOUS
  <2>1. \A i \in 1..k : Piece(s, i) \in Pieces
    BY <1>0, PieceTyped
  <2>. QED  BY <2>1 DEF All
<1>2. ASSUME n + 1 <= Len(script[s]) PROVE All(s, n + 1) = Append(All(s, n), Piece(s, n + 1))
  <2>1. PICK q \in Seq(Pieces) : q = All(s, n) /\ Len(q) = n /\ \A i \in 1..n : q[i] = Piece(s, i)
    BY <1>1
  <2>2. PICK r \in Seq(Pieces) : r = All(s, n + 1) /\ Len(r) = n + 1 /\ \A i \in 1..n + 1 : r[i] = Piece(s, i)
    BY <1>1, <1>2
  <2>3. Piece(s, n + 1) \in Pieces
    BY <1>0, <1>2, PieceTyped
  <2>. DEFINE t == Append(q, Piece(s, n + 1))
  <2>4. /\ t \in Seq(Pieces) /\ Len(t) = n + 1 /\ t[n + 1] = Piece(s, n + 1)
        /\ \A i \in 1..n : t[i] = q[i]
    BY <2>1, <2>3, AppendProperties
  <2>. HIDE DEF t
  <2>5. \A i \in 1..n + 1 : r[i] = t[i]
    BY <2>1, <2>2, <2>4
  <2>6. r = t
    BY <2>2, <2>4, <2>5, SeqEqual
  <2>. QED  BY <2>1, <2>2, <2>6 DEF t
<1>. QED  BY <1>1, <1>2

LEMMA InitTail == Init => TailInv
<1>. SUFFICES ASSUME Init, NEW s \in Steps PROVE TailKept(s)
  BY DEF TailInv
<1>1. PipeInv
  BY InitPipe
<1>2. Taken(s) = 0
  <2>1. written[s] = 0 /\ Len(fd[s]) = 0
    BY DEF Init
  <2>. QED  BY <2>1 DEF Taken
<1>3. All(s, 0) = <<>>
  <2>1. 0 <= Len(script[s])
    BY <1>1 DEF PipeInv, Typed
  <2>2. All(s, 0) \in Seq(Pieces) /\ Len(All(s, 0)) = 0
    BY <1>1, <2>1, AllNext DEF PipeInv
  <2>. QED  BY <2>2, EmptySeq
<1>4. Read_(s) = <<>> /\ <<>> \in Seq(LinesOfPieces) /\ Len(<<>>) = 0
  BY <1>2, <1>3, LinesOfNothing DEF Read_
<1>5. Last(<<>>, MaxTail) = <<>>
  <2>1. <<>> \in Seq(Pieces) /\ MaxTail \in Nat \ {0} /\ Len(<<>>) <= MaxTail
    BY SizesAssumption, EmptySeq
  <2>. QED  BY <2>1, LastProperties
<1>6. tail[s] = [lines |-> <<>>, partial |-> <<>>]
  BY DEF Init
<1>. QED  BY <1>2, <1>4, <1>5, <1>6 DEF TailKept, AtLineEnd

(* What a step must leave alone for the tail of s.                         *)
LEMMA TailStays ==
  ASSUME NEW s \in Steps, TailKept(s), tail'[s] = tail[s], Taken(s)' = Taken(s), script' = script
  PROVE  TailKept(s)'
<1>1. Read_(s)' = Read_(s)
  BY DEF Read_, All, Piece, Lines
<1>2. AtLineEnd(s)' = AtLineEnd(s)
  BY DEF AtLineEnd, Piece
<1>. QED  BY <1>1, <1>2 DEF TailKept

(* The copier reads one more piece.                                        *)
LEMMA TailRead ==
  ASSUME PipeInv, TailInv, NEW s \in Steps, Read(s)
  PROVE  TailKept(s)'
<1>. USE DEF PipeInv
<1>1. PICK n \in Nat : n = Taken(s)
  BY DEF Flow
<1>2. PICK p \in Pieces : p = Head(fd[s]) /\ p = Piece(s, n + 1)
  BY <1>1, ReadPipe
<1>3. Taken(s)' = n + 1 /\ script' = script /\ tail'[s] = Tee(tail[s], p)
  <2>1. Taken(s)' = n + 1
    BY <1>1, ReadPipe
  <2>2. script' = script
    BY DEF Read
  <2>3. tail'[s] = Tee(tail[s], p)
    BY <1>2 DEF Read, Typed
  <2>. QED  BY <2>1, <2>2, <2>3
<1>4. n + 1 <= Len(script[s])
  <2>1. fd[s] \in Seq(Pieces) /\ fd[s] # <<>> /\ written[s] \in Nat /\ Len(script[s]) \in Nat
    BY DEF Read, Typed
  <2>2. Len(fd[s]) \in Nat \ {0}
    BY <2>1, EmptySeq
  <2>. QED  BY <1>1, <2>1, <2>2 DEF Taken, Flow
<1>5. PICK q \in Seq(Pieces) : /\ q = All(s, n) /\ Len(q) = n /\ \A i \in 1..n : q[i] = Piece(s, i)
                               /\ All(s, n + 1) = Append(q, p)
  <2>1. n <= Len(script[s])
    BY <1>4 DEF Typed
  <2>. QED  BY <1>2, <1>4, <2>1, AllNext
<1>6. PICK ls \in Seq(LinesOfPieces) : ls = Lines(q) /\ (ls = <<>> <=> n = 0)
  BY <1>1, <1>5 DEF TailInv, TailKept, Read_
<1>0. \A x \in LinesOfPieces : x \in Seq(Pieces) /\ x # <<>>
  BY DEF LinesOfPieces
<1>7. PICK b \in BOOLEAN : b = AtLineEnd(s) /\ b = (q = <<>> \/ q[Len(q)].nl)
  <2>1. q = <<>> <=> n = 0
    BY <1>5, EmptySeq
  <2>2. n # 0 => q[Len(q)] = Piece(s, n)
    BY <1>5
  <2>. QED  BY <1>1, <2>1, <2>2 DEF AtLineEnd
<1>8. PICK part \in Seq(Pieces), kept \in Seq(Seq(Pieces)) :
        /\ tail[s] = [lines |-> kept, partial |-> part]
        /\ b => part = <<>> /\ kept = Last(ls, MaxTail)
        /\ ~b => part = ls[Len(ls)] /\ kept = Last(SubSeq(ls, 1, Len(ls) - 1), MaxTail)
  <2>1. tail[s] \in [lines : Seq(Seq(Pieces)), partial : Seq(Pieces)]
    BY DEF Typed
  <2>. QED  BY <1>1, <1>5, <1>6, <1>7, <2>1 DEF TailInv, TailKept, Read_
(* The lines afterwards: front, of whole lines, and last, the line of p.   *)
<1>9. PICK front \in Seq(LinesOfPieces), new \in LinesOfPieces, before \in LinesOfPieces \cup {<<>>} :
        /\ Lines(All(s, n + 1)) = Append(front, new)
        /\ new = Append(before, p) /\ before = part /\ kept = Last(front, MaxTail)
  <2>1. CASE b
    <3>1. Lines(All(s, n + 1)) = Append(ls, <<p>>)
      BY <1>5, <1>6, <1>7, <2>1, LinesOfAppend
    <3>2. <<p>> = Append(<<>>, p) /\ <<p>> \in LinesOfPieces
      BY DEF LinesOfPieces
    <3>3. part = <<>> /\ kept = Last(ls, MaxTail)
      BY <1>8, <2>1
    <3>. QED  BY <3>1, <3>2, <3>3
  <2>2. CASE ~b
    <3>1. PICK l \in Nat : l = Len(ls) /\ l # 0
      <4>1. n # 0
        BY <1>5, <1>7, <2>2, EmptySeq
      <4>. QED  BY <1>6, <4>1, EmptySeq
    <3>2. Lines(All(s, n + 1)) = [ls EXCEPT ![l] = Append(@, p)]
      <4>1. ~ (q = <<>> \/ q[Len(q)].nl)
        BY <1>7, <2>2
      <4>2. All(s, n + 1) = Append(q, p) /\ ls = Lines(q) /\ l = Len(Lines(q))
        BY <1>5, <1>6, <3>1
      <4>. QED  BY <4>1, <4>2, LinesOfAppend
    <3>3. ls[l] \in LinesOfPieces /\ l \in 1..Len(ls)
      BY <3>1, ElementOfSeq
    <3>. DEFINE x == Append(ls[l], p)
                f == SubSeq(ls, 1, l - 1)
                r == [ls EXCEPT ![l] = x]
                t == Append(f, x)
    <3>4. x \in LinesOfPieces
      <4>1. PICK y \in Seq(Pieces) : y = ls[l]
        BY <1>0, <3>3
      <4>2. Append(y, p) \in Seq(Pieces) /\ Append(y, p) # <<>>
        BY AppendProperties
      <4>. QED  BY <4>1, <4>2 DEF LinesOfPieces
    <3>. HIDE DEF x
    <3>5. f \in Seq(LinesOfPieces) /\ Len(f) = l - 1 /\ \A i \in 1..l - 1 : f[i] = ls[i]
      <4>1. \A i \in 1..l - 1 : 1 + i - 1 = i
        BY <3>1
      <4>2. \A i \in 1..l - 1 : ls[i] \in LinesOfPieces
        BY <3>1
      <4>3. l - 1 \in Int /\ 1 \in Int /\ l - 1 - 1 + 1 = l - 1 /\ l - 1 \in Nat
        BY <3>1
      <4>4. f \in Seq(LinesOfPieces) /\ \A i \in 1..l - 1 : f[i] = ls[i]
        BY <4>1, <4>2, <4>3, SubSeqProperties
      <4>5. Len(f) = IF 1 <= l - 1 THEN l - 1 - 1 + 1 ELSE 0
        BY <4>2, <4>3, SubSeqProperties
      <4>6. Len(f) = l - 1
        BY <4>3, <4>5
      <4>. QED  BY <4>4, <4>6
    <3>. HIDE DEF f
    <3>6. r \in Seq(LinesOfPieces) /\ Len(r) = l /\ r[l] = x /\ \A i \in 1..l - 1 : r[i] = ls[i]
      BY <3>1, <3>3, <3>4, ExceptSeq
    <3>7. t \in Seq(LinesOfPieces) /\ Len(t) = l /\ t[l] = x /\ \A i \in 1..l - 1 : t[i] = f[i]
      <4>1. Len(f) + 1 = l
        BY <3>1, <3>5
      <4>. QED  BY <3>1, <3>4, <3>5, <4>1, AppendProperties
    <3>8. Lines(All(s, n + 1)) = r
      BY <3>2 DEF x
    <3>. HIDE DEF r, t
    <3>9. r = t
      <4>1. \A i \in 1..l : r[i] = t[i]
        <5>. SUFFICES ASSUME NEW i \in 1..l PROVE r[i] = t[i]
          OBVIOUS
        <5>1. CASE i = l
          BY <3>6, <3>7, <5>1
        <5>2. CASE i # l
          <6>1. i \in 1..l - 1
            BY <3>1, <5>2
          <6>. QED  BY <3>5, <3>6, <3>7, <6>1
        <5>. QED  BY <5>1, <5>2
      <4>. QED  BY <3>6, <3>7, <4>1, SeqEqual
    <3>10. Lines(All(s, n + 1)) = Append(f, x) /\ x = Append(part, p) /\ part \in LinesOfPieces
      BY <1>8, <2>2, <3>1, <3>3, <3>8, <3>9 DEF x, t
    <3>11. kept = Last(f, MaxTail)
      BY <1>8, <2>2, <3>1 DEF f
    <3>. QED  BY <3>4, <3>5, <3>10, <3>11
  <2>. QED  BY <2>1, <2>2
<1>. DEFINE after == Append(front, new)
<1>10. /\ after \in Seq(LinesOfPieces) /\ Len(after) = Len(front) + 1 /\ after # <<>>
       /\ after[Len(front) + 1] = new /\ \A i \in 1..Len(front) : after[i] = front[i]
  BY AppendProperties
<1>16. after = Append(front, new) /\ after[Len(after)] = new
  BY <1>10
<1>. HIDE DEF after
<1>11. Read_(s)' = after
  <2>1. Read_(s)' = Lines(All(s, n + 1))
    BY <1>3 DEF Read_, All, Piece, Lines
  <2>. QED  BY <1>9, <1>16, <2>1
<1>12. AtLineEnd(s)' <=> p.nl
  <2>1. n + 1 # 0
    OBVIOUS
  <2>2. AtLineEnd(s)' <=> Piece(s, n + 1)'.nl
    BY <1>3, <2>1 DEF AtLineEnd, Piece
  <2>3. Piece(s, n + 1)' = p
    BY <1>2, <1>3 DEF Piece
  <2>. QED  BY <2>2, <2>3
<1>13. MaxTail \in Nat \ {0}
  BY SizesAssumption
<1>14. CASE p.nl
  <2>1. tail'[s] = [lines |-> Push(kept, new), partial |-> <<>>]
    BY <1>3, <1>8, <1>9, <1>14 DEF Tee
  <2>2. Push(kept, new) = Last(after, MaxTail)
    <3>1. Last(Append(Last(front, MaxTail), new), MaxTail) = Last(Append(front, new), MaxTail)
      BY <1>13, LastOfAppend
    <3>. QED  BY <1>9, <1>16, <3>1 DEF Push
  <2>3. tail'[s].partial = <<>> /\ tail'[s].lines = Last(after, MaxTail)
    BY <2>1, <2>2
  <2>4. Taken(s)' # 0
    BY <1>3
  <2>. QED  BY <1>10, <1>11, <1>12, <1>14, <2>3, <2>4 DEF TailKept
<1>15. CASE ~p.nl
  <2>1. tail'[s].lines = kept /\ tail'[s].partial = new
    BY <1>3, <1>8, <1>9, <1>15 DEF Tee
  <2>2. SubSeq(after, 1, Len(after) - 1) = front
    <3>1. PICK m \in Nat : m = Len(front)
      OBVIOUS
    <3>2. Len(after) - 1 = m
      BY <1>10, <3>1
    <3>. DEFINE c == SubSeq(after, 1, m)
    <3>3. c \in Seq(LinesOfPieces) /\ Len(c) = m /\ \A i \in 1..m : c[i] = after[i]
      <4>1. 1 \in Int /\ m \in Int /\ m - 1 + 1 = m /\ \A i \in 1..m : 1 + i - 1 = i
        BY <3>1
      <4>2. \A i \in 1..m : after[i] \in LinesOfPieces
        BY <1>10, <3>1
      <4>3. c \in Seq(LinesOfPieces) /\ \A i \in 1..m : c[i] = after[i]
        BY <4>1, <4>2, SubSeqProperties
      <4>4. Len(c) = IF 1 <= m THEN m - 1 + 1 ELSE 0
        BY <4>1, <4>2, SubSeqProperties
      <4>5. Len(c) = m
        BY <4>1, <4>4
      <4>. QED  BY <4>3, <4>5
    <3>. HIDE DEF c
    <3>4. c = front
      <4>1. \A i \in 1..m : c[i] = front[i]
        BY <1>10, <3>1, <3>3
      <4>. QED  BY <3>1, <3>3, <4>1, SeqEqual
    <3>. QED  BY <3>2, <3>4 DEF c
  <2>3. tail'[s].partial = after[Len(after)] /\ tail'[s].lines = Last(SubSeq(after, 1, Len(after) - 1), MaxTail)
    BY <1>9, <1>16, <2>1, <2>2
  <2>4. Taken(s)' # 0
    BY <1>3
  <2>. QED  BY <1>10, <1>11, <1>12, <1>15, <2>3, <2>4 DEF TailKept
<1>. QED  BY <1>14, <1>15 DEF Pieces

LEMMA NextTail == PipeInv /\ OutputInv /\ TailInv /\ [Next]_vars => TailInv'
<1>. SUFFICES ASSUME PipeInv, OutputInv, TailInv, [Next]_vars, NEW t \in Steps PROVE TailKept(t)'
  BY DEF TailInv
<1>0. TailKept(t)
  BY DEF TailInv
<1>1. CASE \E s \in Steps : Write(s)
  <2>1. Taken(t)' = Taken(t)
    BY <1>1, WritePipe
  <2>. QED  BY <1>0, <1>1, <2>1, TailStays DEF Write, copyVars
<1>2. CASE \E s \in Steps : Exit(s)
  <2>1. Taken(t)' = Taken(t)
    BY <1>2, ExitPipe
  <2>. QED  BY <1>0, <1>2, <2>1, TailStays DEF Exit, copyVars
<1>3. CASE \E s \in Steps : Read(s)
  <2>1. PICK s \in Steps : Read(s)
    BY <1>3
  <2>2. CASE t = s
    BY <2>1, <2>2, TailRead
  <2>3. CASE t # s
    <3>1. Taken(t)' = Taken(t)
      BY <2>1, <2>3, ReadPipe
    <3>2. tail'[t] = tail[t] /\ script' = script
      BY <2>1, <2>3 DEF Read, PipeInv, Typed
    <3>. QED  BY <1>0, <3>1, <3>2, TailStays
  <2>. QED  BY <2>2, <2>3
<1>4. CASE \E s \in Steps : ToConsole(s) \/ ToFile(s) \/ EndOfFile(s)
  <2>1. Taken(t)' = Taken(t)
    BY <1>4, CopyPipe
  <2>. QED  BY <1>0, <1>4, <2>1, TailStays DEF ToConsole, ToFile, EndOfFile, copyVars
<1>5. CASE \E s \in Steps : Run(s)
  <2>1. Taken(t)' = Taken(t)
    BY <1>5, RunPipe
  <2>. QED  BY <1>0, <1>5, <2>1, TailStays DEF Run, StartCmd, WaitDone, KillGroup, Reap, copyVars
<1>6. CASE Console
  <2>1. Taken(t)' = Taken(t)
    BY <1>6, ConsolePipe DEF OutputInv
  <2>. QED  BY <1>0, <1>6, <2>1, TailStays DEF Console, Scan, PrintLine, TooLong, copyVars
<1>7. CASE Cancel \/ UNCHANGED vars
  <2>1. Taken(t)' = Taken(t) /\ tail'[t] = tail[t] /\ script' = script
    BY <1>7 DEF Cancel, vars, Taken, procVars, copyVars
  <2>. QED  BY <1>0, <2>1, TailStays
<1>. QED
  BY <1>1, <1>2, <1>3, <1>4, <1>5, <1>6, <1>7 DEF Next, Copy, Elsewhere

LEMMA TailHolds == PipeInv /\ TailInv => TailHonest
<1>. SUFFICES ASSUME PipeInv, TailInv, NEW s \in Steps, Complete(s)
     PROVE  Tail_(tail[s]) = Last(Lines(All(s, written[s])), MaxTail)
  BY DEF TailHonest
<1>1. Waited(s) /\ copier[s] = "ended" /\ fd[s] = <<>>
  BY DEF PipeInv, Lifecycle, Complete, Waited
<1>2. Taken(s) = written[s]
  <2>1. written[s] \in Nat /\ Len(<<>>) = 0
    BY DEF PipeInv, Typed
  <2>. QED  BY <1>1, <2>1 DEF Taken
<1>3. PICK ls \in Seq(LinesOfPieces) : ls = Read_(s) /\ ls = Lines(All(s, written[s]))
  BY <1>2 DEF TailInv, TailKept, Read_
<1>4. MaxTail \in Nat \ {0}
  BY SizesAssumption
<1>5. CASE AtLineEnd(s)
  <2>1. tail[s].partial = <<>> /\ tail[s].lines = Last(ls, MaxTail)
    BY <1>3, <1>5 DEF TailInv, TailKept
  <2>2. Last(Last(ls, MaxTail), MaxTail) = Last(ls, MaxTail)
    BY <1>4, LastTwice
  <2>. QED  BY <1>3, <2>1, <2>2 DEF Tail_
<1>6. CASE ~ AtLineEnd(s)
  <2>. DEFINE l == Len(ls)
              x == ls[l]
              f == SubSeq(ls, 1, l - 1)
  <2>1. l \in Nat /\ l # 0
    <3>1. ls # <<>>
      BY <1>3, <1>6 DEF TailInv, TailKept, AtLineEnd
    <3>. QED  BY <3>1, EmptySeq
  <2>2. tail[s].partial = x /\ tail[s].lines = Last(f, MaxTail)
    BY <1>3, <1>6 DEF TailInv, TailKept
  <2>3. x \in LinesOfPieces /\ x # <<>>
    <3>1. x \in LinesOfPieces
      BY <2>1, ElementOfSeq
    <3>. QED  BY <3>1 DEF LinesOfPieces
  <2>4. f \in Seq(LinesOfPieces) /\ Len(f) = l - 1 /\ \A i \in 1..l - 1 : f[i] = ls[i]
    <3>1. \A i \in 1..l - 1 : 1 + i - 1 = i
      BY <2>1
    <3>2. \A i \in 1..l - 1 : ls[i] \in LinesOfPieces
      BY <2>1
    <3>3. l - 1 \in Int /\ 1 \in Int /\ l - 1 - 1 + 1 = l - 1 /\ l - 1 \in Nat
      BY <2>1
    <3>. HIDE DEF l
    <3>4. f \in Seq(LinesOfPieces) /\ \A i \in 1..l - 1 : f[i] = ls[i]
      BY <3>1, <3>2, <3>3, SubSeqProperties
    <3>5. Len(f) = IF 1 <= l - 1 THEN l - 1 - 1 + 1 ELSE 0
      BY <3>2, <3>3, SubSeqProperties
    <3>6. Len(f) = l - 1
      BY <3>3, <3>5
    <3>. QED  BY <3>4, <3>6
  <2>5. l = Len(ls)
    OBVIOUS
  <2>. HIDE DEF x, f, l
  <2>. DEFINE t == Append(f, x)
  <2>6. t \in Seq(LinesOfPieces) /\ Len(t) = Len(f) + 1 /\ t[Len(f) + 1] = x /\ \A i \in 1..Len(f) : t[i] = f[i]
    BY <2>3, <2>4, AppendProperties
  <2>7. t = Append(f, x) /\ x = ls[l]
    BY DEF x
  <2>. HIDE DEF t
  <2>8. t = ls
    <3>1. Len(t) = l /\ t[l] = ls[l]
      BY <2>1, <2>4, <2>6, <2>7
    <3>2. \A i \in 1..l - 1 : t[i] = ls[i]
      BY <2>4, <2>6
    <3>3. ASSUME NEW i \in 1..l PROVE t[i] = ls[i]
      <4>1. CASE i = l
        BY <3>1, <4>1
      <4>2. CASE i # l
        <5>1. i \in 1..l - 1
          BY <2>1, <4>2
        <5>. QED  BY <3>2, <5>1
      <4>. QED  BY <4>1, <4>2
    <3>. QED  BY <2>5, <2>6, <3>1, <3>3, SeqEqual
  <2>9. Last(Append(Last(f, MaxTail), x), MaxTail) = Last(Append(f, x), MaxTail)
    BY <1>4, <2>3, <2>4, LastOfAppend
  <2>. QED  BY <1>3, <2>2, <2>3, <2>7, <2>8, <2>9 DEF Tail_
<1>. QED  BY <1>5, <1>6

(* The lines that are reported for a failed step are the last MaxTail      *)
(* lines that its command has written, an unfinished one included: the     *)
(* window that is cut as the lines come in loses none of them, and no line *)
(* of another step gets in.                                                *)
THEOREM TailsAreHonest == Spec => []TailHonest
BY InitPipe, InitOutput, NextOutput, InitTail, NextTail, TailHolds, PTL DEF Spec

=============================================================================
