------------------------------ MODULE MCCliRun ------------------------------
(***************************************************************************)
(* Small invocations: graphs of three jobs, right and wrong; matrices;     *)
(* conditions; selections; and runs with a dashboard and notifications.    *)
(***************************************************************************)
EXTENDS CliRun, TLC

a == Id("a")
b == Id("b")
c == Id("c")
names == {a, b, c}

Step(id, on) == [id |-> id, needs |-> on]
Job(id, on) == [id |-> id, dims |-> <<>>, env |-> <<>>, needs |-> on, steps |-> <<Step("s", <<>>)>>,
                inputs |-> {}, flaws |-> {}, cond |-> <<>>, tolerant |-> FALSE]

Opts == [job |-> {}, changed |-> FALSE, compile |-> FALSE, graph |-> FALSE,
         tui |-> FALSE, notify |-> {}, resume |-> FALSE]
Case(jobs) == [jobs |-> jobs, opts |-> Opts, tree |-> {}, dir |-> <<>>, committed |-> None, uncommitted |-> None,
               longer |-> {}, pruned |-> {}, signals |-> FALSE]
GraphOnly(jobs) == [Case(jobs) EXCEPT !.opts.graph = TRUE]

------------------------------------------------------------------------------
(* Every graph of three jobs, and the same with needs written twice, with  *)
(* an unknown job and with an id that occurs twice.                        *)
Lists == {<<>>, <<a>>, <<b>>, <<c>>, <<a, b>>, <<c, a>>, <<b, c>>, <<b, b, c>>, <<a, b, c>>, <<Id("z")>>}
Graphs == {<<Job(a, x), Job(b, y), Job(c, z)>> : x, y, z \in Lists}
          \cup {<<Job(a, x), Job(a, y)>> : x, y \in {<<>>, <<a>>}} \cup {<<>>}

(* Steps, and what else may be wrong with a job.                           *)
Stepped(steps) == <<[Job(a, <<>>) EXCEPT !.steps = steps]>>
Steppings ==
  {Stepped(<<Step("s", x), Step("t", y)>>) : x, y \in {<<>>, <<"s">>, <<"t">>, <<"u">>, <<"s", "t">>}}
  \cup {Stepped(<<>>), Stepped(<<Step("s", <<>>), Step("s", <<"s">>)>>)}
  \cup {<<[Job(a, <<>>) EXCEPT !.flaws = {f}]>> : f \in {"no runs-on", "no run command", "secret without a name"}}

(* A matrix job between two others; x-y is a value with a dash in it.      *)
x1 == <<"x">>
y1 == <<"y">>
xy == <<"x", "y">>
Dims == {<<>>} \cup {<<u>> : u \in {<<x1>>, <<x1, y1>>, <<>>}}
        \cup {<<u, v>> : u, v \in {<<x1>>, <<y1>>, <<x1, y1>>, <<x1, xy>>, <<xy>>, <<>>}}
Matrices ==
  {<<Job(a, <<>>), [Job(b, <<a>>) EXCEPT !.dims = d], Job(c, n)>> :
     d \in Dims, n \in {<<b>>, <<a, b>>, <<a>>, <<[name |-> "b", suffix |-> x1]>>}}
  \cup {<<[Job(a, <<b>>) EXCEPT !.dims = d], [Job(b, <<a>>) EXCEPT !.dims = d]>> : d \in Dims}

------------------------------------------------------------------------------
(* Conditions: every sequence of up to four tokens, and longer ones that   *)
(* precedence makes a difference for.                                      *)
Op(s) == E!Op(s)
Alphabet == {Op("||"), Op("&&"), Op("=="), Op("!"), Op("."), E!Lparen, E!Rparen,
             E!Ident("x"), E!Ident("success"), E!Text("0")}
Operands == {E!Ident("x"), E!Text("0"), E!Ident("true")}
Infix == {Op("||"), Op("&&"), Op("=="), Op("!=")}
Expressions ==
  UNION {[1..n -> Alphabet] : n \in 1..4}
  \cup {<<u, o, v, p, w>> : u, v, w \in Operands, o, p \in Infix}
  \cup {<<u, o, E!Lparen, v, p, w, E!Rparen>> : u, v, w \in {E!Ident("x"), E!Text("0")}, o, p \in Infix}

MCProbes == {[success |-> TRUE, failure |-> FALSE, paths |-> <<"x">> :> "true"],
             [success |-> FALSE, failure |-> TRUE, paths |-> <<"x">> :> "0"]}

Conditional(toks) == <<[Job(a, <<>>) EXCEPT !.cond = toks]>>

------------------------------------------------------------------------------
(* Selections.  src/m.go, srcgen/n.go and doc.md; n.go is in a directory   *)
(* whose name begins with src.  What the plan says of its inputs is said   *)
(* in the top directory, and in src.                                       *)
src == <<"src", "">>
srcgen == <<"srcgen", "">>
go == <<"*", "go">>
md == <<"*", "md">>
files == {<<src, <<"m", "go">>>>, <<srcgen, <<"n", "go">>>>, <<<<"doc", "md">>>>}
Deep(p, s) == [deep |-> TRUE, prefix |-> p, suffix |-> s]
Flat(p) == [deep |-> FALSE, prefix |-> p, suffix |-> <<>>]
Globs == {Deep(<<>>, <<go>>), Deep(<<src>>, <<>>), Deep(<<src>>, <<md>>), Flat(<<md>>), Flat(<<src, <<"*", "*">>>>)}
Crooked == {Deep(<<Dot, src>>, <<>>), Deep(<<src, Empty>>, <<>>), Deep(<<src>>, <<Empty, go>>), Flat(<<Dot, md>>),
            Deep(<<src, DotDot, srcgen>>, <<>>)}
FromBelow == {Deep(<<>>, <<go>>), Deep(<<>>, <<>>), Flat(<<go>>), Deep(<<DotDot>>, <<md>>), Deep(<<DotDot, src>>, <<>>),
              Flat(<<DotDot, md>>)}

Pipeline(x, y) == <<[Job(a, <<>>) EXCEPT !.inputs = x], [Job(b, <<a>>) EXCEPT !.inputs = y],
                    [Job(c, <<b>>) EXCEPT !.inputs = {Flat(<<<<"doc", "md">>>>)}]>>

Selection(jobs, dir, committed, uncommitted) ==
  [Case(jobs) EXCEPT !.opts.changed = TRUE, !.tree = files, !.dir = dir, !.committed = committed,
     !.uncommitted = uncommitted, !.longer = {<<src, srcgen>>}, !.pruned = {srcgen}]

Selections ==
  {Selection(Pipeline({g}, {h}), <<>>, f, None) : g \in Globs, h \in Globs \cup Crooked, f \in SUBSET files}
  \cup {Selection(Pipeline({g}, {h}), <<src>>, f, None) : g, h \in FromBelow, f \in SUBSET files}
  \cup {Selection(Pipeline({}, {Deep(<<src>>, <<>>)}), <<>>, None, f) : f \in (SUBSET files) \cup {None}}
  \cup {[Case(Pipeline({}, {})) EXCEPT !.opts.job = {j}] : j \in {a, b, c, Id("z")}}

------------------------------------------------------------------------------
(* Runs.                                                                   *)
Needing(id, s) == <<E!Ident("needs"), Op("."), E!Ident(id), Op("."), E!Ident("result"), Op("=="), E!Text(s)>>
Failure == <<E!Ident("failure"), E!Lparen, E!Rparen>>

Live(jobs, notify) == [Case(jobs) EXCEPT !.opts.tui = TRUE, !.opts.notify = notify, !.signals = TRUE]

Runs ==
  {Live(<<Job(a, <<>>), [Job(b, <<a>>) EXCEPT !.tolerant = TRUE],
          [Job(c, <<b>>) EXCEPT !.cond = Needing("b", "failure")]>>, {"job"}),
   Live(<<[Job(c, <<b>>) EXCEPT !.cond = Failure], [Job(b, <<>>) EXCEPT !.tolerant = TRUE], Job(a, <<>>)>>,
        {"start"}),
   [Live(<<[Job(a, <<>>) EXCEPT !.dims = <<<<x1, y1>>>>], Job(b, <<a>>)>>, {"final"}) EXCEPT !.opts.resume = TRUE],
   [Case(<<Job(a, <<>>)>>) EXCEPT !.opts.compile = TRUE]}

MCCases == {GraphOnly(p) : p \in Graphs \cup Steppings \cup Matrices}
           \cup {Case(Conditional(e)) : e \in Expressions} \cup Selections \cup Runs

MCJobs == names \cup {[name |-> "a", suffix |-> s] : s \in {x1, y1}}

=============================================================================
