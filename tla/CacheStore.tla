----------------------------- MODULE CacheStore -----------------------------
(***************************************************************************)
(* The store of results of steps and jobs on disk: internal/cache/store.go *)
(* and gc.go, and its users, execStep and runJob of the scheduler.         *)
(*                                                                         *)
(* A store is a directory of objects and an index.  Every process loads    *)
(* the index when it opens the store and works on its copy.  A worker is a *)
(* goroutine of a run: it looks a key up, and either restores the object,  *)
(* or runs its command and saves the result.  The pruner is the command    *)
(* "ship cache prune".  There is no lock, neither between the processes    *)
(* nor between the workers of one, and each call of the file system is a   *)
(* step.  A process may die at any time.                                   *)
(***************************************************************************)
EXTENDS Integers, Sequences, FiniteSets, FiniteSetsExt, Functions

CONSTANTS
  Keys,     \* the keys of steps (HashInputs) and of jobs (JobFingerprint)
  NoKey,    \* none of them
  Runs,     \* the processes that execute pipelines
  Workers,  \* their goroutines
  Homes,    \* the ways in which workers may belong to runs
  Pruner,   \* the process that prunes, and its one goroutine
  Parts,    \* the length of an object, in the files that were put in it
  Limits,   \* the size limits to prune to
  MaxOpens  \* bound on how often the store is opened

ASSUME NamesAssumption ==
  Homes \subseteq [Workers -> Runs] /\ Pruner \notin Runs \cup Workers /\ NoKey \notin Keys
ASSUME BoundsAssumption == Parts \in Nat /\ Limits \subseteq Nat \ {0} /\ MaxOpens \in Nat
ASSUME FiniteAssumption == IsFiniteSet(Keys) /\ IsFiniteSet(Workers)

Procs == Runs \cup {Pruner}
Actors == Workers \cup {Pruner}

(* Files that had one name, one after the other, are told apart by number; *)
(* 0 is none.  Whoever creates a file has none open: a number is free.     *)
Files == 1..Cardinality(Workers)

VARIABLES
  home,       \* the process of each worker; never changes
  dir,        \* the object file of each key
  data,       \* the parts that each file of a key holds
  recent,     \* the keys of the objects, least recently written first
  index,      \* the content of index.json
  memory,     \* the keys in each process's copy of the index
  pc,         \* what each actor is about to do
  key,        \* the key a worker is concerned with ...
  file,       \* ... the file it has open ...
  part,       \* ... and the parts it has written or restored
  buffer,     \* the index as an actor is about to write it
  listed,     \* the pruner's list of objects, oldest first: key and size ...
  old,        \* ... how many at its head are too old ...
  limit,      \* ... the size to prune to, 0 for none ...
  at,         \* ... the number of objects done ...
  removed,    \* ... those removed ...
  left,       \* ... and the size that it reckons is left
  completed,  \* history: keys an object was saved for
  disturbed,  \* history: keys whose object was removed, cut short or read while
              \* written, since one worker alone last saved it whole
  sequential, \* history: whether the operations so far did not overlap
  opens       \* how often the store was opened

diskVars == <<dir, data, recent>>
fileVars == <<key, file, part>>
pruneVars == <<listed, old, limit, at, removed, left>>
historyVars == <<completed, disturbed, sequential>>
vars == <<home, diskVars, index, memory, pc, fileVars, buffer, pruneVars, historyVars, opens>>

Whole == 1..Parts
Proc(x) == IF x = Pruner THEN Pruner ELSE home[x]

WorkerPlaces == {"off", "idle", "open", "read", "hit", "command", "create", "write",
                 "marshal", "truncate", "flush", "over"}
PrunerPlaces == {"off", "list", "prune", "drop", "marshal", "truncate", "flush", "over"}

Up(p) == \E x \in Actors : Proc(x) = p /\ pc[x] # "off"
Busy(x) == pc[x] \notin {"off", "idle", "hit", "over"}
Goto(x, place) == pc' = [pc EXCEPT ![x] = place]

(* The file system gives back a file that is neither named nor open.       *)
Swept == data' = [k \in Keys |-> [f \in Files |->
  IF dir'[k] = f \/ \E w \in Workers : key'[w] = k /\ file'[w] = f THEN data[k][f] ELSE {}]]

Holds(w, k, f) == key[w] = k /\ file[w] = f
Size(k) == IF data[k][dir[k]] = {} THEN 0 ELSE Max(data[k][dir[k]])
TotalSize(objects) == FoldFunction(LAMBDA o, n : o.size + n, 0, objects)

(* The content of index.json, with the keys that json.Unmarshal, whose     *)
(* error Open ignores, takes from it.                                      *)
Empty == [form |-> "empty", keys |-> {}]
Garbage == [form |-> "garbage", keys |-> {}]
Json(K) == [form |-> "json", keys |-> K]

------------------------------------------------------------------------------
(* Processes                                                               *)

(* Open, by scheduler.Run or by the command.                               *)
Open(p) ==
  /\ ~Up(p) /\ opens < MaxOpens
  /\ opens' = opens + 1
  /\ memory' = [memory EXCEPT ![p] = index.keys]
  /\ pc' = [x \in Actors |-> IF Proc(x) # p THEN pc[x]
                             ELSE IF p = Pruner THEN "list" ELSE "idle"]
  /\ sequential' = (sequential /\ \A q \in Procs : ~Up(q))
  /\ UNCHANGED <<home, diskVars, index, fileVars, buffer, pruneVars, completed, disturbed>>

Forgotten == listed' = <<>> /\ old' = 0 /\ limit' = 0 /\ at' = 0 /\ removed' = {} /\ left' = 0

(* The process is gone, and with it what its actors had in memory.         *)
Gone(p) ==
  LET mine == {w \in Workers : home[w] = p}
  IN  /\ pc' = [x \in Actors |-> IF Proc(x) = p THEN "off" ELSE pc[x]]
      /\ memory' = [memory EXCEPT ![p] = {}]
      /\ buffer' = [x \in Actors |-> IF Proc(x) = p THEN {} ELSE buffer[x]]
      /\ file' = [w \in Workers |-> IF w \in mine THEN 0 ELSE file[w]]
      /\ part' = [w \in Workers |-> IF w \in mine THEN 0 ELSE part[w]]
      /\ key' = [w \in Workers |-> IF w \in mine THEN NoKey ELSE key[w]]
      /\ UNCHANGED <<dir, recent>> /\ Swept
      /\ IF p = Pruner THEN Forgotten ELSE UNCHANGED pruneVars

Exit(p) ==
  /\ Up(p) /\ \A x \in Actors : Proc(x) = p => ~Busy(x)
  /\ Gone(p)
  /\ UNCHANGED <<home, index, historyVars, opens>>

(* The process is killed, or dies because two of its workers were in the   *)
(* index map at a time.                                                    *)
Crash(p) ==
  /\ \E x \in Actors : Proc(x) = p /\ Busy(x)
  /\ Gone(p)
  /\ disturbed' = disturbed \cup {key[w] : w \in {v \in Workers : home[v] = p /\ pc[v] = "write"}}
  /\ sequential' = FALSE
  /\ UNCHANGED <<home, index, completed, opens>>

------------------------------------------------------------------------------
(* A worker                                                                *)

(* Has: the index in memory has the key, and the object can be found.      *)
Has(p, k) == k \in memory[p] /\ dir[k] # 0

Lookup(w) ==
  /\ pc[w] = "idle"
  /\ \E k \in Keys :
       /\ key' = [key EXCEPT ![w] = k]
       /\ Goto(w, IF Has(home[w], k) THEN "open" ELSE "command")
  /\ sequential' = (sequential /\ \A x \in Actors : ~Busy(x))
  /\ UNCHANGED <<home, diskVars, index, memory, file, part, buffer, pruneVars, completed, disturbed, opens>>

(* Restore: an error, here or later, ends it and is ignored by its caller. *)
OpenObject(w) ==
  /\ pc[w] = "open"
  /\ file' = [file EXCEPT ![w] = dir[key[w]]]
  /\ Goto(w, IF dir[key[w]] = 0 THEN "hit" ELSE "read")
  /\ disturbed' = IF \E v \in Workers : pc[v] = "write" /\ Holds(v, key[w], dir[key[w]])
                  THEN disturbed \cup {key[w]} ELSE disturbed
  /\ UNCHANGED <<home, diskVars, index, memory, key, part, buffer, pruneVars, completed, sequential, opens>>

(* The file is closed.                                                     *)
Close(w) == file' = [file EXCEPT ![w] = 0]

(* The next part is written to the working tree.  Where the file has a     *)
(* gap, the reader sees the end of the archive, or an error.               *)
RestorePart(w) ==
  /\ pc[w] = "read" /\ part[w] + 1 \in data[key[w]][file[w]]
  /\ part' = [part EXCEPT ![w] = @ + 1]
  /\ UNCHANGED <<home, diskVars, index, memory, pc, key, file, buffer, pruneVars, historyVars, opens>>

RestoreEnds(w) ==
  /\ pc[w] = "read" /\ part[w] + 1 \notin data[key[w]][file[w]]
  /\ Close(w)
  /\ UNCHANGED <<dir, recent, key>> /\ Swept
  /\ Goto(w, "hit")
  /\ UNCHANGED <<home, index, memory, part, buffer, pruneVars, historyVars, opens>>

(* The command fails, or its outputs cannot be listed, or it ends well.    *)
Command(w) ==
  /\ pc[w] = "command"
  /\ \/ Goto(w, "create") /\ UNCHANGED key
     \/ Goto(w, "over") /\ key' = [key EXCEPT ![w] = NoKey]
  /\ UNCHANGED <<home, diskVars, index, memory, file, part, buffer, pruneVars, historyVars, opens>>

Place(k) == CHOOSE i \in DOMAIN recent : recent[i] = k
Without(k) ==
  IF k \notin Range(recent) THEN recent
  ELSE [i \in 1..Len(recent) - 1 |-> recent[IF i < Place(k) THEN i ELSE i + 1]]
Touched(k) == Append(Without(k), k)

(* Save: os.Create makes the file or truncates the one there is.           *)
Create(w) ==
  LET k == key[w]
      f == IF dir[k] = 0 THEN CHOOSE n \in Files : \A v \in Workers : ~Holds(v, k, n) ELSE dir[k]
  IN  /\ pc[w] = "create"
      /\ dir' = [dir EXCEPT ![k] = f]
      /\ data' = [data EXCEPT ![k][f] = {}]
      /\ recent' = Touched(k)
      /\ file' = [file EXCEPT ![w] = f]
      /\ Goto(w, "write")
      /\ disturbed' = IF \E v \in Workers : pc[v] = "read" /\ Holds(v, k, f)
                      THEN disturbed \cup {k} ELSE disturbed
      /\ UNCHANGED <<home, index, memory, key, part, buffer, pruneVars, completed, sequential, opens>>

WritePart(w) ==
  /\ pc[w] = "write" /\ part[w] < Parts
  /\ data' = [data EXCEPT ![key[w]][file[w]] = @ \cup {part[w] + 1}]
  /\ part' = [part EXCEPT ![w] = @ + 1]
  /\ recent' = IF dir[key[w]] = file[w] THEN Touched(key[w]) ELSE recent
  /\ UNCHANGED <<home, dir, index, memory, pc, key, file, buffer, pruneVars, historyVars, opens>>

(* The worker is done with the object.                                     *)
Closes(w) ==
  /\ key' = [key EXCEPT ![w] = NoKey]
  /\ Close(w)
  /\ part' = [part EXCEPT ![w] = 0]
  /\ UNCHANGED <<dir, recent>> /\ Swept

(* Slip: a file that cannot be added is skipped.                           *)
SaveSkips(w) ==
  /\ pc[w] = "write" /\ part[w] < Parts
  /\ part' = [part EXCEPT ![w] = @ + 1]
  /\ UNCHANGED <<home, diskVars, index, memory, pc, key, file, buffer, pruneVars, historyVars, opens>>

(* addFile returns an error: a file is gone, unreadable or has grown.      *)
SaveFails(w) ==
  /\ pc[w] = "write" /\ part[w] < Parts
  /\ Closes(w)
  /\ Goto(w, "over")
  /\ disturbed' = disturbed \cup {key[w]}
  /\ UNCHANGED <<home, index, memory, buffer, pruneVars, completed, sequential, opens>>

(* All files have been added.  (Slip: the first is enough.)                *)
Begun(w) == pc[w] = "write" /\ part[w] > 0
Written(w) == pc[w] = "write" /\ part[w] = Parts

(* The entry is made.  It may be lost when another worker of the process   *)
(* is making one.                                                          *)
Register(w) ==
  /\ Written(w)
  /\ \/ memory' = [memory EXCEPT ![home[w]] = @ \cup {key[w]}]
     \/ (\E v \in Workers \ {w} : home[v] = home[w] /\ Written(v)) /\ UNCHANGED memory
  /\ Closes(w)
  /\ completed' = IF part[w] = Parts THEN completed \cup {key[w]} ELSE completed
  /\ disturbed' = IF /\ dir[key[w]] = file[w] /\ data[key[w]][file[w]] = Whole
                     /\ \A v \in Workers \ {w} : key[v] # key[w]
                  THEN disturbed \ {key[w]} ELSE disturbed
  /\ Goto(w, "marshal")
  /\ UNCHANGED <<home, index, buffer, pruneVars, sequential, opens>>

------------------------------------------------------------------------------
(* flush                                                                   *)

Marshal(x) ==
  /\ pc[x] = "marshal"
  /\ buffer' = [buffer EXCEPT ![x] = memory[Proc(x)]]
  /\ Goto(x, "truncate")
  /\ UNCHANGED <<home, diskVars, index, memory, fileVars, pruneVars, historyVars, opens>>

(* os.WriteFile opens the index with O_TRUNC ...                           *)
Truncate(x) ==
  /\ pc[x] = "truncate"
  /\ index' = Empty
  /\ Goto(x, "flush")
  /\ UNCHANGED <<home, diskVars, memory, fileVars, buffer, pruneVars, historyVars, opens>>

(* ... and writes at its start.  What another has written there since may  *)
(* be longer: it may have more keys, or as many with those of jobs, which  *)
(* are longer, among them.                                                 *)
Flush(x) ==
  /\ pc[x] = "flush"
  /\ \/ /\ \/ index = Garbage
           \/ index.keys # buffer[x] /\ Cardinality(index.keys) >= Cardinality(buffer[x])
        /\ index' = Garbage
     \/ /\ Cardinality(index.keys) <= Cardinality(buffer[x])
        /\ index' = Json(buffer[x])
  /\ buffer' = [buffer EXCEPT ![x] = {}]
  /\ Goto(x, "over")
  /\ UNCHANGED <<home, diskVars, memory, fileVars, pruneVars, historyVars, opens>>

------------------------------------------------------------------------------
(* The pruner                                                              *)

(* listObjects; the age limit makes some of the oldest too old.            *)
List ==
  /\ pc[Pruner] = "list"
  /\ listed' = [i \in DOMAIN recent |-> [key |-> recent[i], size |-> Size(recent[i])]]
  /\ old' \in 0..Len(recent)
  /\ limit' \in {0} \cup Limits
  /\ at' = 0 /\ removed' = {}
  /\ left' = TotalSize(listed')
  /\ Goto(Pruner, "prune")
  /\ UNCHANGED <<home, diskVars, index, memory, fileVars, buffer, historyVars, opens>>

(* What the two passes of Prune remove next: first what is too old, then,  *)
(* while too much is left, the oldest of the others.                       *)
Excess == at < Len(listed) /\ (at < old \/ (limit > 0 /\ left > limit))

(* What counts as left when an object of that size has been removed.       *)
(* (Slip: only the second pass counts.)                                    *)
LessInSecondPass(size) == IF at < old THEN left ELSE left - size
Less(size) == left - size

(* os.Remove, by name; it fails if another pruner was faster.              *)
Remove ==
  LET k == listed[at+1].key
  IN  /\ pc[Pruner] = "prune" /\ Excess
      /\ at' = at + 1
      /\ removed' = IF dir[k] = 0 THEN removed ELSE removed \cup {k}
      /\ left' = IF dir[k] = 0 THEN left ELSE Less(listed[at+1].size)
      /\ dir' = [dir EXCEPT ![k] = 0]
      /\ recent' = Without(k)
      /\ UNCHANGED <<key, file>> /\ Swept
      /\ disturbed' = disturbed \cup {k}
      /\ UNCHANGED <<home, index, memory, pc, part, buffer, listed, old, limit, completed, sequential, opens>>

PruneEnds ==
  /\ pc[Pruner] = "prune" /\ ~Excess
  /\ IF removed = {} THEN Goto(Pruner, "over") /\ Forgotten
                      ELSE Goto(Pruner, "drop") /\ UNCHANGED pruneVars
  /\ UNCHANGED <<home, diskVars, index, memory, fileVars, buffer, historyVars, opens>>

(* The entries that a prune leaves.  (Slip: it leaves all.)                *)
AllEntries == memory[Pruner]
EntriesLeft == memory[Pruner] \ removed

DropIndexRefs ==
  /\ pc[Pruner] = "drop"
  /\ memory' = [memory EXCEPT ![Pruner] = EntriesLeft]
  /\ Goto(Pruner, "marshal") /\ Forgotten
  /\ UNCHANGED <<home, diskVars, index, fileVars, buffer, historyVars, opens>>

------------------------------------------------------------------------------
Init ==
  /\ home \in Homes
  /\ dir = [k \in Keys |-> 0] /\ data = [k \in Keys |-> [f \in Files |-> {}]] /\ recent = <<>>
  /\ index = Empty /\ memory = [p \in Procs |-> {}]
  /\ pc = [x \in Actors |-> "off"]
  /\ key = [w \in Workers |-> NoKey] /\ file = [w \in Workers |-> 0] /\ part = [w \in Workers |-> 0]
  /\ buffer = [x \in Actors |-> {}]
  /\ listed = <<>> /\ old = 0 /\ limit = 0 /\ at = 0 /\ removed = {} /\ left = 0
  /\ completed = {} /\ disturbed = {} /\ sequential = TRUE
  /\ opens = 0

Work(w) ==
  \/ Lookup(w) \/ OpenObject(w) \/ RestorePart(w) \/ RestoreEnds(w)
  \/ Command(w) \/ Create(w) \/ WritePart(w) \/ SaveFails(w) \/ Register(w)
Prune == List \/ Remove \/ PruneEnds \/ DropIndexRefs

Finished == opens = MaxOpens /\ \A p \in Procs : ~Up(p)

Next ==
  \/ \E p \in Procs : Open(p) \/ Exit(p) \/ Crash(p)
  \/ \E w \in Workers : Work(w)
  \/ \E x \in Actors : Marshal(x) \/ Truncate(x) \/ Flush(x)
  \/ Prune
  \/ Finished /\ UNCHANGED vars

Spec == Init /\ [][Next]_vars

------------------------------------------------------------------------------
(* Properties                                                              *)

TypeOK ==
  /\ home \in Homes
  /\ dir \in [Keys -> Files \cup {0}] /\ data \in [Keys -> [Files -> SUBSET Whole]]
  /\ recent \in Seq(Keys) /\ Range(recent) = {k \in Keys : dir[k] # 0} /\ IsInjective(recent)
  /\ index \in {Empty, Garbage} \cup {Json(K) : K \in SUBSET Keys}
  /\ memory \in [Procs -> SUBSET Keys]
  /\ \A w \in Workers : pc[w] \in WorkerPlaces
  /\ pc[Pruner] \in PrunerPlaces
  /\ key \in [Workers -> Keys \cup {NoKey}] /\ part \in [Workers -> 0..Parts]
  /\ \A w \in Workers : IF pc[w] \in {"read", "write"} THEN file[w] \in Files ELSE file[w] = 0
  /\ buffer \in [Actors -> SUBSET Keys]
  /\ old \in 0..Len(listed) /\ at \in 0..Len(listed) /\ limit \in Limits \cup {0}
  /\ removed \subseteq Keys /\ left \in Nat
  /\ completed \subseteq Keys /\ disturbed \subseteq Keys /\ sequential \in BOOLEAN
  /\ opens \in 0..MaxOpens

(* Whatever overlaps or dies, an index on disk or in memory names only     *)
(* keys for which a whole object was once written: a hit is never on a key *)
(* whose step did not succeed.                                             *)
EntriesCompleted ==
  /\ index.keys \subseteq completed
  /\ \A p \in Procs : memory[p] \subseteq completed
  /\ \A x \in Actors : buffer[x] \subseteq completed

(* A step that counts as cached has got less than what was saved for it    *)
(* only if, since it was last saved by one worker alone, the object was    *)
(* removed by the pruner, a worker that saved it again failed or died, or  *)
(* did so while it was read.                                               *)
HitsIntact == \A w \in Workers :
  pc[w] = "hit" /\ part[w] < Parts => key[w] \in disturbed

(* As long as operations do not overlap and none is cut short by a crash,  *)
(* nothing is lost and nothing dangles: between operations, the index      *)
(* names the whole objects of the directory, also after a prune and after  *)
(* saves that failed.                                                      *)
IndexMatchesObjects ==
  sequential /\ (\A x \in Actors : ~Busy(x)) =>
    index.keys = {k \in Keys : dir[k] # 0 /\ data[k][dir[k]] = Whole}

(* Prune removes what is too old; beyond that it removes no more than is   *)
(* needed for what is left of its list to fit the limit, and no less,      *)
(* unless others remove objects at the same time.                          *)
PruneIsExact ==
  pc[Pruner] = "drop" =>
    LET kept == {i \in DOMAIN listed : listed[i].key \notin removed}
        more == {i \in DOMAIN listed : i > old /\ i \notin kept}
        size(I) == MapThenSumSet(LAMBDA i : listed[i].size, I)
    IN  /\ limit > 0 => size(kept) <= limit \/ at = Len(listed)
        /\ more # {} => limit > 0 /\ size(kept \cup {Max(more)}) > limit
        /\ \A i \in more, j \in kept : j > old => i < j

(* SPEC 7.1: "Hit: restore declared Outputs, skip execution, mark cached." *)
(* The error of Restore is ignored, and an object may go, or be rewritten, *)
(* between the look at it and its use.                                     *)
HitsRestore == \A w \in Workers : pc[w] = "hit" => part[w] = Parts

=============================================================================
