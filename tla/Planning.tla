------------------------------ MODULE Planning ------------------------------
(***************************************************************************)
(* What is done with a plan before it is run: matrix expansion             *)
(* (internal/compiler/matrix.go and, for the Go DSL, flow/lower.go),       *)
(* validation (internal/validator), the graph (internal/graph/dag.go) and  *)
(* the selection of jobs from changed files (internal/changed/git.go).     *)
(*                                                                         *)
(* A job is a record with, among other fields,                             *)
(*   id       a name and, for an expansion of a matrix job, a suffix       *)
(*   dims     the values of each dimension of its matrix, by sorted key    *)
(*   needs    a sequence of ids                                            *)
(*   steps    a sequence of records [id, needs]                            *)
(*   inputs   the input globs of its steps                                 *)
(*   flaws    what else it has that Validate looks at: "no runs-on",       *)
(*            "no run command", "secret without a name"                    *)
(* A value of a matrix, and a suffix, is the sequence of what the dashes   *)
(* in it separate, so that "-" is concatenation.                           *)
(***************************************************************************)
EXTENDS Integers, FiniteSets, SequencesExt

Id(name) == [name |-> name, suffix |-> <<>>]
IdOf(job, values) == [name |-> job.id.name, suffix |-> FlattenSeq(values)]

------------------------------------------------------------------------------
(* Matrix expansion                                                        *)

(* One sequence of values per combination; a dimension without values      *)
(* leaves none.                                                            *)
Cartesian(dims) ==
  LET Upto[d \in 0..Len(dims)] ==
        IF d = 0 THEN << <<>> >>
        ELSE LET combos == Upto[d - 1]
                 Extended(c) == [v \in DOMAIN dims[d] |-> Append(combos[c], dims[d][v])]
             IN  FlattenSeq([c \in DOMAIN combos |-> Extended(c)])
  IN  Upto[Len(dims)]

(* expandedIDs[id]; empty when the map has no such key.                    *)
Expansions(jobs, id) ==
  LET IdsOf(j) == [c \in DOMAIN Cartesian(j.dims) |-> IdOf(j, Cartesian(j.dims)[c])]
      Upto[i \in 0..Len(jobs)] ==
        CASE i = 0                                              -> <<>>
          [] i > 0 /\ jobs[i].id # id                           -> Upto[i - 1]
          [] i > 0 /\ jobs[i].id = id /\ jobs[i].dims = <<>>    -> <<id>>
          [] OTHER                                              -> Upto[i - 1] \o IdsOf(jobs[i])
  IN  Upto[Len(jobs)]

Resolve(jobs, needs) ==
  FlattenSeq([n \in DOMAIN needs |-> LET ids == Expansions(jobs, needs[n])
                                     IN  IF ids # <<>> THEN ids ELSE <<needs[n]>>])

ExpandMatrix(jobs) ==
  LET Expanded(j) ==
        LET job == [j EXCEPT !.needs = Resolve(jobs, j.needs)]
            combos == Cartesian(j.dims)
        IN  IF j.dims = <<>> THEN <<job>>
            ELSE [c \in DOMAIN combos |-> [job EXCEPT !.id = IdOf(j, combos[c]), !.env = combos[c]]]
  IN  FlattenSeq([i \in DOMAIN jobs |-> Expanded(jobs[i])])

------------------------------------------------------------------------------
(* Validation                                                              *)

Ids(nodes) == {nodes[i].id : i \in DOMAIN nodes}

Those(list, S) == FlattenSeq([k \in DOMAIN list |-> IF list[k] \in S THEN <<list[k]>> ELSE <<>>])

(* adj: the needs of all nodes with an id, one after the other, as far as  *)
(* they are edges.                                                         *)
Adjacency(nodes, edges) ==
  [u \in Ids(nodes) |->
     FlattenSeq([i \in DOMAIN nodes |-> IF nodes[i].id = u THEN Those(nodes[i].needs, edges[u]) ELSE <<>>])]

(* findCycle and findGraphCycle: a depth-first search that stops at the    *)
(* first edge back to the stack; the cycle is what lies on the stack from  *)
(* there on.  A call of dfs looks at the edges from u one by one; visit is *)
(* what the calls do that it makes.                                        *)
Dfs(visit, adj, u, color, stack) ==
  LET path == Append(stack, u)
      Look[i \in 0..Len(adj[u])] ==
        IF i = 0 THEN [cycle |-> <<>>, color |-> [color EXCEPT ![u] = "gray"]]
        ELSE LET acc == Look[i - 1]
                 v == adj[u][i]
                 start == SelectInSeq(path, LAMBDA x : x = v)
             IN  CASE acc.cycle # <<>> \/ acc.color[v] = "black" -> acc
                   [] acc.cycle = <<>> /\ acc.color[v] = "white" -> visit[v][acc.color][path]
                   [] acc.cycle = <<>> /\ acc.color[v] = "gray" ->
                      [acc EXCEPT !.cycle = Append(SubSeq(path, start, Len(path)), v)]
      end == Look[Len(adj[u])]
  IN  IF end.cycle = <<>> THEN [end EXCEPT !.color[u] = "black"] ELSE end

(* Calls are nested at most as deep as there are white nodes.              *)
FindCycle(nodes, adj) ==
  LET U == DOMAIN adj
      depth == Cardinality(U)
      Visit[d \in 0..depth] ==
        [u \in U |-> [color \in [U -> {"white", "gray", "black"}] |-> [stack \in Seq(U) |->
           IF d = 0 THEN [cycle |-> <<>>, color |-> color] ELSE Dfs(Visit[d - 1], adj, u, color, stack)]]]
      From[i \in 0..Len(nodes)] ==
        IF i = 0 THEN [cycle |-> <<>>, color |-> [u \in U |-> "white"]]
        ELSE LET acc == From[i - 1]
             IN  IF acc.cycle = <<>> /\ acc.color[nodes[i].id] = "white"
                   THEN Visit[depth][nodes[i].id][acc.color][<<>>] ELSE acc
  IN  From[Len(nodes)].cycle

JobCycle(jobs) == FindCycle(jobs, Adjacency(jobs, [u \in Ids(jobs) |-> Ids(jobs)]))

ValidateStepGraph(j) ==
  {<<"step needs itself", j.id, s.id>> : s \in {t \in ToSet(j.steps) : t.id \in ToSet(t.needs)}}
  \cup {<<"step needs unknown step", j.id, s.id>> :
          s \in {t \in ToSet(j.steps) : ~(ToSet(t.needs) \subseteq Ids(j.steps))}}
  \cup (IF FindCycle(j.steps, Adjacency(j.steps, [u \in Ids(j.steps) |-> Ids(j.steps) \ {u}])) = <<>>
          THEN {} ELSE {<<"step cycle", j.id>>})

ValidateJob(jobs, j) ==
  {<<flaw, j.id>> : flaw \in j.flaws}
  \cup (IF j.steps = <<>> THEN {<<"no steps", j.id>>} ELSE {})
  \cup ValidateStepGraph(j)
  \cup (IF j.id \in ToSet(j.needs) THEN {<<"needs itself", j.id>>} ELSE {})
  \cup {<<"unknown job", n>> : n \in ToSet(j.needs) \ (Ids(jobs) \cup {j.id})}

(* The diagnostics; none, and the plan is accepted.                        *)
Validate(jobs) ==
  IF jobs = <<>> THEN {<<"no jobs">>}
  ELSE {<<"duplicate job id", jobs[i].id>> : i \in {k \in DOMAIN jobs : \E m \in 1..k - 1 : jobs[m].id = jobs[k].id}}
       \cup (UNION {ValidateJob(jobs, jobs[i]) : i \in DOMAIN jobs})
       \cup (IF JobCycle(jobs) = <<>> THEN {} ELSE {<<"dependency cycle">>})

------------------------------------------------------------------------------
(* The graph of an accepted plan                                           *)

Needs(jobs, id) == jobs[CHOOSE i \in DOMAIN jobs : jobs[i].id = id].needs

Dependents(jobs, id) ==
  FlattenSeq([i \in DOMAIN jobs |->
    FlattenSeq([k \in DOMAIN jobs[i].needs |-> IF jobs[i].needs[k] = id THEN <<jobs[i].id>> ELSE <<>>])])

(* What the walks of Subgraph and Affected keep.                           *)
Reachable(next, start) ==
  LET Reach[k \in 0..Cardinality(DOMAIN next)] ==
        IF k = 0 THEN start
        ELSE LET before == Reach[k - 1] IN before \cup UNION {next[id] : id \in before}
  IN  Reach[Cardinality(DOMAIN next)]

Subgraph(jobs, id) == Reachable([x \in Ids(jobs) |-> ToSet(Needs(jobs, x))], {id})

Affected(jobs, direct) == Reachable([x \in Ids(jobs) |-> ToSet(Dependents(jobs, x))], direct)

(* Kahn's algorithm on a queue, which a job enters once.  (Slip: a need is *)
(* counted once although it is written, and released, twice.)              *)
Released(s, deps) ==
  LET Upto[i \in 0..Len(deps)] ==
        IF i = 0 THEN s
        ELSE LET before == Upto[i - 1]
                 d == deps[i]
             IN  [before EXCEPT !.indeg[d] = @ - 1,
                                !.queue = IF before.indeg[d] = 1 THEN Append(@, d) ELSE @]
  IN  Upto[Len(deps)]

Sorted(jobs, indegrees) ==
  LET roots == {id \in Ids(jobs) : indegrees[id] = 0}
      Turn[k \in 0..Len(jobs)] ==
        IF k = 0 THEN [queue |-> Those([i \in DOMAIN jobs |-> jobs[i].id], roots), order |-> <<>>, indeg |-> indegrees]
        ELSE LET s == Turn[k - 1]
             IN  IF s.queue = <<>> THEN s
                 ELSE Released([s EXCEPT !.queue = Tail(@), !.order = Append(@, Head(s.queue))],
                               Dependents(jobs, Head(s.queue)))
  IN  Turn[Len(jobs)].order
TopoOrderOfSets(jobs) == Sorted(jobs, [id \in Ids(jobs) |-> Cardinality(ToSet(Needs(jobs, id)))])
TopoOrder(jobs) == Sorted(jobs, [id \in Ids(jobs) |-> Len(Needs(jobs, id))])

------------------------------------------------------------------------------
(* Files and globs.  The name of a file or a directory is <<stem, ext>>,   *)
(* and so is a segment of a pattern, in which "*" stands for anything.  A  *)
(* path is a sequence of names from the top of the repository on, as git   *)
(* prints it.  A glob is a record [deep, prefix, suffix] of the segments   *)
(* as they are written in the plan; deep are those with "**" between       *)
(* prefix and suffix, in the others all segments are in prefix.            *)

Empty == <<"", "">>
Dot == <<".", "">>
DotDot == <<"..", "">>

(* filepath.Join, which cleans: dir is the path of the working directory.  *)
(* What leaves the repository keeps its "..": no file of it is there.      *)
Cleaned(dir, segments) ==
  LET Enter(path, s) ==
        CASE s \in {Empty, Dot}                                    -> path
          [] s = DotDot /\ path # <<>> /\ Last(path) # DotDot      -> Front(path)
          [] OTHER                                                 -> Append(path, s)
  IN  FoldLeft(Enter, dir, segments)

Match(pattern, name) == \A x \in {1, 2} : pattern[x] \in {"*", name[x]}
MatchPath(patterns, path) ==
  Len(patterns) = Len(path) /\ \A i \in DOMAIN path : Match(patterns[i], path[i])

(* strings.HasPrefix, for a prefix that may end inside of a name; longer   *)
(* tells of a name which names begin like it, and all do like none.        *)
HasPrefix(path, prefix, longer) ==
  \/ prefix = <<>>
  \/ /\ Len(prefix) <= Len(path)
     /\ Front(prefix) = SubSeq(path, 1, Len(prefix) - 1)
     /\ \/ Last(prefix) \in {Empty, path[Len(prefix)]}
        \/ <<Last(prefix), path[Len(prefix)]>> \in longer

(* changed.matchGlob: the glob as it is written, and the name that git     *)
(* prints.  (Slip: the suffix is compared with the whole rest of the       *)
(* path.)                                                                  *)
MatchGlobRest(path, g, longer) ==
  IF g.deep
    THEN HasPrefix(path, g.prefix, longer)
         /\ (g.suffix = <<>> \/ MatchPath(g.suffix, SubSeq(path, Len(g.prefix) + 1, Len(path))))
    ELSE MatchPath(g.prefix, path) \/ MatchPath(g.prefix, <<Last(path)>>)
MatchGlob(path, g, longer) ==
  IF g.deep
    THEN HasPrefix(path, g.prefix, longer) /\ (g.suffix = <<>> \/ MatchPath(g.suffix, <<Last(path)>>))
    ELSE MatchPath(g.prefix, path) \/ MatchPath(g.prefix, <<Last(path)>>)

(* cache.expandGlobs for one glob: the files whose content counts for the  *)
(* key of a step and the fingerprint of a job that is run in dir;          *)
(* directories with a pruned name are passed over.  All slashes after "**" *)
(* are dropped, where matchGlob drops one.                                 *)
MatchSuffix(suffix, name) ==
  \E n \in 0..Len(suffix) :
    /\ \A i \in 1..n : suffix[i] = Empty
    /\ n = Len(suffix) \/ MatchPath(SubSeq(suffix, n + 1, Len(suffix)), <<name>>)

ExpandGlob(tree, dir, g, pruned) ==
  LET base == Cleaned(dir, g.prefix)
  IN  IF g.deep
        THEN {f \in tree : /\ Len(f) >= Len(base) /\ SubSeq(f, 1, Len(base)) = base
                           /\ \A i \in DOMAIN Front(f) : i >= Len(base) => f[i] \notin pruned
                           /\ MatchSuffix(g.suffix, Last(f))}
        ELSE {f \in tree : MatchPath(base, f)}

(* AffectedJobs: the jobs that a changed file matches, and those that      *)
(* declare no inputs, with all that need them.                             *)
Touched(j, files, longer) == j.inputs = {} \/ \E f \in files, g \in j.inputs : MatchGlob(f, g, longer)
AffectedJobs(jobs, files, longer) ==
  Affected(jobs, {j.id : j \in {x \in ToSet(jobs) : Touched(x, files, longer)}})

------------------------------------------------------------------------------
(* What these algorithms are for                                           *)

(* Nodes in no cycle: every set of them has one that needs none of the set.*)
Grounded(nodes) ==
  \A S \in (SUBSET Ids(nodes)) \ {{}} : \E id \in S :
    \A i \in DOMAIN nodes : nodes[i].id = id => ToSet(nodes[i].needs) \cap S = {}

Sound(jobs) ==
  /\ jobs # <<>>
  /\ Cardinality(Ids(jobs)) = Len(jobs)
  /\ Grounded(jobs)
  /\ \A j \in ToSet(jobs) : /\ j.flaws = {} /\ j.steps # <<>>
                            /\ ToSet(j.needs) \subseteq Ids(jobs)
                            /\ Grounded(j.steps)
                            /\ \A t \in ToSet(j.steps) : ToSet(t.needs) \subseteq Ids(j.steps)

(* The path that is printed for a cycle is one.                            *)
CyclesAreReal(jobs) ==
  LET c == JobCycle(jobs)
  IN  c # <<>> => /\ c[1] = Last(c) /\ Len(c) > 1
                  /\ \A i \in 1..Len(c) - 1 : \E j \in ToSet(jobs) : j.id = c[i] /\ c[i + 1] \in ToSet(j.needs)

(* Each job comes once, and after everything that it needs.                *)
Ordered(jobs) ==
  LET order == TopoOrder(jobs)
  IN  /\ Len(order) = Len(jobs) /\ ToSet(order) = Ids(jobs)
      /\ \A k \in DOMAIN order : ToSet(Needs(jobs, order[k])) \subseteq {order[m] : m \in 1..k - 1}

(* "Dependents on a matrix job depend on all of its expansions", and there *)
(* is at least one, if each name is given to one job.                      *)
NeedsCarriedOver(raw) ==
  (\A i, k \in DOMAIN raw : raw[i].id.name = raw[k].id.name => i = k) =>
  \A j \in ToSet(raw), c \in ToSet(ExpandMatrix(raw)) : c.id.name = j.id.name =>
    \A n \in ToSet(j.needs) : n \in Ids(raw) =>
      LET ids == {x.id : x \in {y \in ToSet(ExpandMatrix(raw)) : y.id.name = n.name}}
      IN  ids # {} /\ ids \subseteq ToSet(c.needs)

=============================================================================
