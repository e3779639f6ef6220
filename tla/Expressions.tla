---------------------------- MODULE Expressions ----------------------------
(***************************************************************************)
(* The evaluator of `if` expressions, internal/expr/expr.go, on tokens:    *)
(* EvalValue and its recursive-descent parser, which computes values while *)
(* it parses, and, for comparison, the grammar of its header comment.      *)
(*                                                                         *)
(* A value is a bool, a string, a number or missing.  All that the program *)
(* ever asks of one is toStr and truthy, and truthy(v) can be told from    *)
(* toStr(v); so a value is represented by toStr of it.                     *)
(***************************************************************************)
EXTENDS Naturals, Sequences

(* Tokens.                                                                 *)
Op(x) == <<"op", x>>
Lparen == <<"lparen", "(">>
Rparen == <<"rparen", ")">>
Ident(x) == <<"ident", x>>
Text(x) == <<"string", x>>    \* a string, or a number that parses

Str(b) == IF b THEN "true" ELSE "false"
Truthy(v) == v \notin {"", "false", "0"}

Apply(op, a, b) ==
  Str(CASE op = Op("||") -> Truthy(a) \/ Truthy(b)
        [] op = Op("&&") -> Truthy(a) /\ Truthy(b)
        [] op = Op("==") -> a = b
        [] op = Op("!=") -> a # b)

(* A context tells what success(), failure() and always() return, and what *)
(* the paths stand for that Lookup knows; any other path is "".            *)
LookUp(ctx, path) == IF path \in DOMAIN ctx.paths THEN ctx.paths[path] ELSE ""

At(toks, i) == IF i \in DOMAIN toks THEN toks[i] ELSE <<"eof", "">>
Kind(toks, i) == At(toks, i)[1]

Named(toks, i, names) == Kind(toks, i) = "ident" /\ At(toks, i)[2] \in names

(* The identifiers of a path with so many dots.                            *)
Names(toks, i, dots) == [m \in 1..dots + 1 |-> At(toks, i + 2 * (m - 1))[2]]

------------------------------------------------------------------------------
(* The parser: the results of parsing toks from position i on.             *)

Error == [ok |-> FALSE, v |-> "", pos |-> 1]
Value(v, pos) == [ok |-> TRUE, v |-> v, pos |-> pos]

(* The name of a function at i, and "(" after it.                          *)
Call(toks, ctx, i) ==
  IF Kind(toks, i + 2) # "rparen" THEN Error
  ELSE CASE At(toks, i)[2] = "success" -> Value(Str(ctx.success), i + 3)
         [] At(toks, i)[2] = "failure" -> Value(Str(ctx.failure), i + 3)
         [] At(toks, i)[2] = "always"  -> Value("true", i + 3)
         [] OTHER                      -> Error

Path(toks, ctx, i) ==
  LET Dot(n) == At(toks, i + 2 * n + 1) = Op(".")
      dots == CHOOSE n \in 0..Len(toks) : ~Dot(n) /\ \A m \in 0..n - 1 : Dot(m)
  IN  IF \A m \in 1..dots : Kind(toks, i + 2 * m) = "ident"
        THEN Value(LookUp(ctx, Names(toks, i, dots)), i + 2 * dots + 1) ELSE Error

(* next is what the calls return that a function makes.                    *)
Primary(toks, ctx, next, i) ==
  CASE Kind(toks, i) = "lparen" ->
         LET r == next.or[i + 1]
         IN  IF r.ok /\ Kind(toks, r.pos) = "rparen" THEN Value(r.v, r.pos + 1) ELSE Error
    [] Kind(toks, i) = "string" -> Value(At(toks, i)[2], i + 1)
    [] Kind(toks, i) = "ident" ->
         IF At(toks, i)[2] \in {"true", "false"} THEN Value(At(toks, i)[2], i + 1)
         ELSE IF Kind(toks, i + 1) = "lparen" THEN Call(toks, ctx, i)
         ELSE Path(toks, ctx, i)
    [] OTHER -> Error

Unary(toks, ctx, next, i) ==
  IF At(toks, i) # Op("!") THEN Primary(toks, ctx, next, i)
  ELSE LET r == next.unary[i + 1]
       IN  IF r.ok THEN Value(Str(~Truthy(r.v)), r.pos) ELSE Error

(* parseOr, parseAnd and parseEquality: a loop that makes calls of the     *)
(* function for the next level.                                            *)
Chain(toks, ops, next, i) ==
  LET More[n \in 0..Len(toks)] ==
        IF n = 0 THEN next[i]
        ELSE LET left == More[n - 1]
                 op == At(toks, left.pos)
                 right == next[left.pos + 1]
             IN  IF ~left.ok \/ op \notin ops THEN left
                 ELSE IF right.ok THEN Value(Apply(op, left.v, right.v), right.pos) ELSE Error
  IN  More[Len(toks)]

(* The operators of each level.  (Slip: && binds no tighter than ||.)      *)
FlatLevels == [or |-> {Op("||"), Op("&&")}, and |-> {}, equality |-> {Op("=="), Op("!=")}]
Levels == [or |-> {Op("||")}, and |-> {Op("&&")}, equality |-> {Op("=="), Op("!=")}]

(* Calls are nested at most as deep as there are tokens.                   *)
Parser(toks, ctx) ==
  LET Span == 1..Len(toks) + 1
      Calls[d \in 0..Len(toks) + 1] ==
        IF d = 0 THEN [unary |-> [i \in Span |-> Error], or |-> [i \in Span |-> Error]]
        ELSE LET unary == [i \in Span |-> Unary(toks, ctx, Calls[d - 1], i)]
                 equality == [i \in Span |-> Chain(toks, Levels.equality, unary, i)]
                 and == [i \in Span |-> Chain(toks, Levels.and, equality, i)]
             IN  [unary |-> unary, or |-> [i \in Span |-> Chain(toks, Levels.or, and, i)]]
  IN  Calls[Len(toks) + 1].or[1]

(* EvalValue: everything must be consumed.                                 *)
Eval(toks, ctx) ==
  LET r == Parser(toks, ctx)
  IN  IF r.pos = Len(toks) + 1 THEN r ELSE Error

------------------------------------------------------------------------------
(* The grammar.  A phrase is what the tokens from one position up to, but  *)
(* not with, another can be derived from and what they then denote; its    *)
(* level is that of its last operator:                                     *)
(*                                                                         *)
(*   4  or       := and ( "||" and )*                                      *)
(*   3  and      := equality ( "&&" equality )*                            *)
(*   2  equality := unary ( ( "==" | "!=" ) unary )*                       *)
(*   1  unary    := "!" unary | primary                                    *)
(*   0  primary  := literal | ident-path | call | "(" or ")"               *)
Phrase(level, from, to, v) == [level |-> level, from |-> from, to |-> to, v |-> v]

Strength(token) == CASE token = Op("||") -> 4
                     [] token = Op("&&") -> 3
                     [] token \in {Op("=="), Op("!=")} -> 2
                     [] OTHER -> 0

IsPath(toks, i, dots) ==
  /\ \A m \in 0..dots : Kind(toks, i + 2 * m) = "ident"
  /\ \A m \in 1..dots : At(toks, i + 2 * m - 1) = Op(".")
  /\ ~Named(toks, i, {"true", "false"})

Literals(toks) ==
  {Phrase(0, i, i + 1, toks[i][2]) :
     i \in {x \in DOMAIN toks : Kind(toks, x) = "string" \/ Named(toks, x, {"true", "false"})}}
Paths(toks, ctx) ==
  UNION {{Phrase(0, i, i + 2 * dots + 1, LookUp(ctx, Names(toks, i, dots))) :
            dots \in {n \in 0..Len(toks) : IsPath(toks, i, n)}} : i \in DOMAIN toks}
Functions(toks, ctx) ==
  LET Returned(name) == Str(CASE name = "success" -> ctx.success [] name = "failure" -> ctx.failure
                              [] name = "always" -> TRUE)
  IN  {Phrase(0, i, i + 3, Returned(toks[i][2])) :
         i \in {x \in DOMAIN toks : /\ Named(toks, x, {"success", "failure", "always"})
                                   /\ Kind(toks, x + 1) = "lparen" /\ Kind(toks, x + 2) = "rparen"}}

(* What can be made of phrases that are in D.                              *)
Bracketed(toks, D) ==
  {Phrase(0, p.from - 1, p.to + 1, p.v) :
     p \in {q \in D : Kind(toks, q.from - 1) = "lparen" /\ Kind(toks, q.to) = "rparen"}}
Negated(toks, D) ==
  {Phrase(1, p.from - 1, p.to, Str(~Truthy(p.v))) : p \in {q \in D : q.level <= 1 /\ At(toks, q.from - 1) = Op("!")}}
Joined(toks, D) ==
  UNION {LET op == At(toks, l.to)
         IN  {Phrase(Strength(op), l.from, r.to, Apply(op, l.v, r.v)) :
                r \in {x \in D : x.from = l.to + 1 /\ l.level <= Strength(op) /\ x.level < Strength(op)}} : l \in D}

(* A phrase is longer than those that it is made of.                       *)
Phrases(toks, ctx) ==
  LET Upto[n \in 0..Len(toks)] ==
        IF n = 0 THEN {}
        ELSE Literals(toks) \cup Paths(toks, ctx) \cup Functions(toks, ctx)
             \cup Bracketed(toks, Upto[n - 1]) \cup Negated(toks, Upto[n - 1]) \cup Joined(toks, Upto[n - 1])
  IN  Upto[Len(toks)]

(* The parser accepts what the grammar derives, no more and no less, and   *)
(* the value it computes on the way is that of the derivation.             *)
Agrees(toks, ctx) ==
  LET r == Eval(toks, ctx)
  IN  {p.v : p \in {q \in Phrases(toks, ctx) : q.from = 1 /\ q.to = Len(toks) + 1}} = IF r.ok THEN {r.v} ELSE {}

=============================================================================
