-------------------------- MODULE CacheStoreProofs --------------------------
(***************************************************************************)
(* Proofs about module CacheStore, for every set of keys, every finite     *)
(* number of processes and workers, and every length of objects.           *)
(*                                                                         *)
(* A hit is intact because of an argument about three actors: the worker   *)
(* that last truncated an object writes all of it; until it has, it is     *)
(* still at it, or the key is disturbed; and a reader finds its file whole *)
(* when it opens it, and until somebody disturbs it.                       *)
(*                                                                         *)
(* The index is exact and a pruning run removes no more than it must as    *)
(* long as one process is up at a time and one of its actors is busy       *)
(* (Sequential): then the index, the process' copy of it and the objects   *)
(* on disk differ by at most what the busy actor is at.                    *)
(***************************************************************************)
EXTENDS CacheStore, FiniteSetTheorems, WellFoundedInduction, SequenceTheorems, TLAPS

(* The variables that the argument is about have the right types.          *)
StoreTyped ==
  /\ home \in [Workers -> Runs]
  /\ dir \in [Keys -> Files \cup {0}]
  /\ data \in [Keys -> [Files -> SUBSET Whole]]
  /\ pc \in [Actors -> WorkerPlaces \cup PrunerPlaces]
  /\ key \in [Workers -> Keys \cup {NoKey}]
  /\ file \in [Workers -> Files \cup {0}]
  /\ part \in [Workers -> 0..Parts]

(* What the place of a worker says of its key, its file and its offset.    *)
PlacesCoherent == \A w \in Workers :
  /\ pc[w] \in {"open", "read", "hit", "command", "create", "write"} => key[w] \in Keys
  /\ IF pc[w] \in {"read", "write"} THEN file[w] \in Files ELSE file[w] = 0
  /\ pc[w] \in {"off", "idle", "open", "command", "create"} => part[w] = 0

(* A worker is at writing the file, and all that it has written is there.  *)
Writes(w, k, f) ==
  pc[w] = "write" /\ Holds(w, k, f) /\ 1..part[w] \subseteq data[k][f]

(* An object that nobody has disturbed is whole, or a worker is at it.     *)
ObjectsSound == \A k \in Keys : dir[k] # 0 /\ k \notin disturbed =>
  data[k][dir[k]] = Whole \/ \E w \in Workers : Writes(w, k, dir[k])

(* A reader whose key is not disturbed finds the object and all its parts. *)
ReadersSound == \A w \in Workers : key[w] \notin disturbed =>
  /\ pc[w] = "open" => dir[key[w]] # 0
  /\ pc[w] = "read" => data[key[w]][file[w]] = Whole
  /\ pc[w] = "hit" => part[w] = Parts

IInv == StoreTyped /\ PlacesCoherent /\ ObjectsSound /\ ReadersSound

------------------------------------------------------------------------------
(* Swept leaves alone the files that are named or open.                    *)
LEMMA SweptKeeps ==
  ASSUME StoreTyped, Swept
  PROVE  /\ data' \in [Keys -> [Files -> SUBSET Whole]]
         /\ \A k \in Keys, f \in Files :
              dir'[k] = f \/ (\E w \in Workers : Holds(w, k, f)') => data'[k][f] = data[k][f]
BY DEF StoreTyped, Swept, Holds

(* A worker that has no file open leaves a number for the file it creates. *)
LEMMA FileIsFree ==
  ASSUME StoreTyped, NEW w \in Workers, file[w] = 0, NEW k
  PROVE  \E n \in Files : \A v \in Workers : ~Holds(v, k, n)
<1> DEFINE others == Workers \ {w}
           f == [v \in others |-> file[v]]
           held == {file[v] : v \in others}
<1>1. IsFiniteSet(others) /\ Cardinality(others) = Cardinality(Workers) - 1 /\ Cardinality(Workers) \in Nat
  BY FS_RemoveElement, FS_CardinalityType, FiniteAssumption
<1>2. f \in Surjection(others, held)
  BY DEF Surjection
<1>3. IsFiniteSet(held) /\ Cardinality(held) <= Cardinality(others) /\ Cardinality(held) \in Nat
  BY <1>1, <1>2, FS_Surjection, FS_CardinalityType
<1>4. Cardinality(Files) = Cardinality(Workers)
  BY <1>1, FS_Interval DEF Files
<1>5. ~(Files \subseteq held)
  BY <1>1, <1>3, <1>4, FS_Subset
<1>6. PICK n \in Files : n \notin held
  BY <1>5
<1>7. n # 0
  BY DEF Files
<1>. QED  BY <1>6, <1>7 DEF Holds

(* The pruner is not a worker, and what a worker does is not its doing.    *)
LEMMA ActorsApart ==
  ASSUME StoreTyped
  PROVE  /\ Pruner \notin Workers
         /\ \A w \in Workers : Proc(w) = home[w] /\ w \in Actors
BY NamesAssumption DEF StoreTyped, Proc, Actors

(* Steps that concern neither objects nor workers that read or write.      *)
LEMMA QuietKeeps ==
  ASSUME IInv, UNCHANGED <<home, dir, data, file, part, disturbed>>,
         pc' \in [Actors -> WorkerPlaces \cup PrunerPlaces],
         \A w \in Workers :
           \/ pc'[w] = pc[w] /\ key'[w] = key[w]
           \/ /\ pc[w] \notin {"read", "write"}
              /\ \/ pc'[w] = "idle" /\ part[w] = 0
                 \/ pc'[w] \in {"truncate", "flush", "over"},
         key' \in [Workers -> Keys \cup {NoKey}]
  PROVE  IInv'
<1>1. StoreTyped'
  BY DEF IInv, StoreTyped
<1>2. PlacesCoherent'
  BY DEF IInv, PlacesCoherent
<1>3. ObjectsSound'
  BY DEF IInv, ObjectsSound, Writes, Holds
<1>4. ReadersSound'
  BY DEF IInv, ReadersSound
<1>. QED  BY <1>1, <1>2, <1>3, <1>4 DEF IInv

------------------------------------------------------------------------------
(* Processes *)

LEMMA OpenKeeps == ASSUME IInv, NEW p \in Procs, Open(p) PROVE IInv'
<1>1. \A w \in Workers : pc'[w] = pc[w] \/ (pc[w] = "off" /\ pc'[w] = "idle")
  BY ActorsApart, NamesAssumption DEF IInv, Open, Up, Procs, StoreTyped, Proc, Actors
<1>2. pc' \in [Actors -> WorkerPlaces \cup PrunerPlaces]
  BY DEF IInv, Open, StoreTyped, WorkerPlaces, PrunerPlaces
<1>3. UNCHANGED <<home, dir, data, key, file, part, disturbed>>
  BY DEF Open, diskVars, fileVars
<1>4. \A w \in Workers : pc[w] = "off" => part[w] = 0
  BY DEF IInv, PlacesCoherent
<1>5. "idle" \in WorkerPlaces
  BY DEF WorkerPlaces
<1>. QED  BY <1>1, <1>2, <1>3, <1>4, <1>5, QuietKeeps DEF IInv, StoreTyped

(* A process may go when no writer of an object goes with it, or when the  *)
(* keys of those that do are disturbed.                                    *)
LEMMA GoneKeeps ==
  ASSUME IInv, NEW p \in Procs, Gone(p), home' = home, disturbed \subseteq disturbed',
         \A w \in Workers : home[w] = p /\ pc[w] = "write" => key[w] \in disturbed'
  PROVE  IInv'
<1>1. \A w \in Workers :
        \/ /\ home[w] = p /\ pc'[w] = "off" /\ key'[w] = NoKey /\ file'[w] = 0 /\ part'[w] = 0
        \/ /\ home[w] # p /\ pc'[w] = pc[w] /\ key'[w] = key[w] /\ file'[w] = file[w] /\ part'[w] = part[w]
  BY ActorsApart DEF IInv, Gone, StoreTyped
<1>2. dir' = dir /\ Swept
  BY DEF Gone
<1>3. /\ data' \in [Keys -> [Files -> SUBSET Whole]]
      /\ \A k \in Keys, f \in Files :
           dir'[k] = f \/ (\E w \in Workers : Holds(w, k, f)') => data'[k][f] = data[k][f]
  BY <1>2, SweptKeeps DEF IInv
<1>4. StoreTyped'
  <2>1. pc' \in [Actors -> WorkerPlaces \cup PrunerPlaces]
    BY DEF IInv, Gone, StoreTyped, WorkerPlaces
  <2>2. /\ key' \in [Workers -> Keys \cup {NoKey}]
        /\ file' \in [Workers -> Files \cup {0}]
        /\ part' \in [Workers -> 0..Parts]
    BY BoundsAssumption DEF IInv, Gone, StoreTyped
  <2>. QED  BY <1>2, <1>3, <2>1, <2>2 DEF IInv, StoreTyped
<1>5. PlacesCoherent'
  BY <1>1 DEF IInv, PlacesCoherent
<1>6. ObjectsSound'
  <2> SUFFICES ASSUME NEW k \in Keys, dir[k] # 0, k \notin disturbed'
               PROVE  data'[k][dir[k]] = Whole \/ \E w \in Workers : Writes(w, k, dir[k])'
    BY <1>2 DEF ObjectsSound, Writes, Holds
  <2>1. dir[k] \in Files /\ data'[k][dir[k]] = data[k][dir[k]] /\ k \notin disturbed
    BY <1>2, <1>3 DEF IInv, StoreTyped
  <2>2. CASE data[k][dir[k]] = Whole
    BY <2>1, <2>2
  <2>3. ASSUME NEW w \in Workers, Writes(w, k, dir[k]) PROVE Writes(w, k, dir[k])'
    BY <1>1, <1>2, <2>1, <2>3 DEF Writes, Holds
  <2>. QED  BY <2>1, <2>2, <2>3 DEF IInv, ObjectsSound
<1>7. ReadersSound'
  <2> SUFFICES ASSUME NEW w \in Workers, home[w] # p, key[w] \notin disturbed'
               PROVE  /\ pc[w] = "open" => dir[key[w]] # 0
                      /\ pc[w] = "read" => data'[key[w]][file[w]] = Whole
                      /\ pc[w] = "hit" => part[w] = Parts
    BY <1>1, <1>2 DEF ReadersSound
  <2>1. key[w] \notin disturbed
    OBVIOUS
  <2>2. pc[w] = "read" => data'[key[w]][file[w]] = data[key[w]][file[w]]
    BY <1>1, <1>3 DEF IInv, PlacesCoherent, Holds
  <2>. QED  BY <2>1, <2>2 DEF IInv, ReadersSound
<1>. QED  BY <1>4, <1>5, <1>6, <1>7 DEF IInv

LEMMA ExitKeeps == ASSUME IInv, NEW p \in Procs, Exit(p) PROVE IInv'
<1>1. \A w \in Workers : home[w] = p => pc[w] # "write"
  BY ActorsApart DEF IInv, Exit, Busy
<1>. QED  BY <1>1, GoneKeeps DEF Exit, historyVars

LEMMA CrashKeeps == ASSUME IInv, NEW p \in Procs, Crash(p) PROVE IInv'
<1>1. \A w \in Workers : home[w] = p /\ pc[w] = "write" => key[w] \in disturbed'
  BY DEF Crash
<1>. QED  BY <1>1, GoneKeeps DEF Crash

------------------------------------------------------------------------------
(* A worker that looks a key up or runs its command has no file open.      *)
LEMMA LookupKeeps == ASSUME IInv, NEW w \in Workers, Lookup(w) PROVE IInv'
<1>1. PICK k \in Keys : /\ key' = [key EXCEPT ![w] = k]
                        /\ Goto(w, IF Has(home[w], k) THEN "open" ELSE "command")
  BY DEF Lookup
<1>2. UNCHANGED <<home, dir, data, file, part, disturbed>>
  BY DEF Lookup, diskVars
<1>3. /\ pc'[w] \in {"open", "command"} /\ (pc'[w] = "open" => dir[k] # 0)
      /\ key'[w] = k /\ \A v \in Workers \ {w} : pc'[v] = pc[v] /\ key'[v] = key[v]
      /\ pc[w] = "idle"
  BY <1>1, ActorsApart DEF IInv, StoreTyped, Goto, Has, Lookup
<1>4. StoreTyped'
  BY <1>1, <1>2 DEF IInv, StoreTyped, Goto, WorkerPlaces
<1>5. PlacesCoherent'
  BY <1>1, <1>2, <1>3 DEF IInv, PlacesCoherent
<1>6. ObjectsSound'
  BY <1>2, <1>3 DEF IInv, ObjectsSound, Writes, Holds
<1>7. ReadersSound'
  BY <1>1, <1>2, <1>3 DEF IInv, ReadersSound
<1>. QED  BY <1>4, <1>5, <1>6, <1>7 DEF IInv

LEMMA CommandKeeps == ASSUME IInv, NEW w \in Workers, Command(w) PROVE IInv'
<1>1. UNCHANGED <<home, dir, data, file, part, disturbed>>
  BY DEF Command, diskVars, historyVars
<1>2. /\ \/ pc'[w] = "create" /\ key'[w] = key[w]
         \/ pc'[w] = "over" /\ key'[w] = NoKey
      /\ pc[w] = "command"
      /\ \A v \in Workers \ {w} : pc'[v] = pc[v] /\ key'[v] = key[v]
  BY ActorsApart DEF IInv, StoreTyped, Goto, Command
<1>3. StoreTyped'
  BY <1>1 DEF IInv, StoreTyped, Goto, Command, WorkerPlaces
<1>4. PlacesCoherent'
  BY <1>1, <1>2 DEF IInv, PlacesCoherent
<1>5. ObjectsSound'
  BY <1>1, <1>2 DEF IInv, ObjectsSound, Writes, Holds
<1>6. ReadersSound'
  BY <1>1, <1>2 DEF IInv, ReadersSound
<1>. QED  BY <1>3, <1>4, <1>5, <1>6 DEF IInv

(* If the key is not disturbed, nobody writes to the object that is opened *)
(* and it is whole.                                                        *)
LEMMA OpenObjectKeeps == ASSUME IInv, NEW w \in Workers, OpenObject(w) PROVE IInv'
<1>1. UNCHANGED <<home, dir, data, key, part>> /\ disturbed \subseteq disturbed'
  BY DEF OpenObject, diskVars
<1>2. /\ pc[w] = "open" /\ key[w] \in Keys /\ file[w] = 0
      /\ file'[w] = dir[key[w]] /\ pc'[w] = (IF dir[key[w]] = 0 THEN "hit" ELSE "read")
      /\ \A v \in Workers \ {w} : pc'[v] = pc[v] /\ file'[v] = file[v]
  BY ActorsApart DEF IInv, StoreTyped, PlacesCoherent, Goto, OpenObject
<1>3. dir[key[w]] \in Files \cup {0}
  BY <1>2 DEF IInv, StoreTyped
<1>4. StoreTyped'
  BY <1>1, <1>3 DEF IInv, StoreTyped, Goto, OpenObject, WorkerPlaces
<1>5. PlacesCoherent'
  BY <1>1, <1>2, <1>3 DEF IInv, PlacesCoherent
<1>6. ObjectsSound'
  BY <1>1, <1>2 DEF IInv, ObjectsSound, Writes, Holds
<1>7. ReadersSound'
  <2>1. ASSUME key[w] \notin disturbed'
        PROVE  pc'[w] = "read" /\ data[key[w]][dir[key[w]]] = Whole
    <3>1. key[w] \notin disturbed /\ dir[key[w]] # 0
      BY <1>1, <1>2, <2>1 DEF IInv, ReadersSound
    <3>2. \A v \in Workers : ~(pc[v] = "write" /\ Holds(v, key[w], dir[key[w]]))
      BY <2>1 DEF OpenObject
    <3>. QED  BY <1>2, <3>1, <3>2 DEF IInv, ObjectsSound, Writes
  <2>. QED  BY <1>1, <1>2, <2>1 DEF IInv, ReadersSound
<1>. QED  BY <1>4, <1>5, <1>6, <1>7 DEF IInv

LEMMA RestorePartKeeps == ASSUME IInv, NEW w \in Workers, RestorePart(w) PROVE IInv'
<1>1. UNCHANGED <<home, dir, data, pc, key, file, disturbed>>
  BY DEF RestorePart, diskVars, historyVars
<1>2. /\ pc[w] = "read" /\ part' = [part EXCEPT ![w] = part[w] + 1]
      /\ part[w] + 1 \in data[key[w]][file[w]]
  BY DEF RestorePart
<1>3. key[w] \in Keys /\ file[w] \in Files
  BY <1>2 DEF IInv, PlacesCoherent
<1>4. part[w] + 1 \in 0..Parts
  BY <1>2, <1>3 DEF IInv, StoreTyped, Whole
<1>5. StoreTyped'
  BY <1>1, <1>2, <1>4 DEF IInv, StoreTyped
<1>6. PlacesCoherent'
  BY <1>1, <1>2 DEF IInv, PlacesCoherent, StoreTyped
<1>7. ObjectsSound'
  BY <1>1, <1>2 DEF IInv, ObjectsSound, Writes, Holds, StoreTyped
<1>8. ReadersSound'
  BY <1>1, <1>2 DEF IInv, ReadersSound, StoreTyped
<1>. QED  BY <1>5, <1>6, <1>7, <1>8 DEF IInv

(* A reader of a whole object stops only when it has read all of it.       *)
LEMMA RestoreEndsKeeps == ASSUME IInv, NEW w \in Workers, RestoreEnds(w) PROVE IInv'
<1>1. UNCHANGED <<home, dir, key, part, disturbed>> /\ Swept
  BY DEF RestoreEnds, historyVars
<1>2. /\ pc[w] = "read" /\ key[w] \in Keys /\ part[w] + 1 \notin data[key[w]][file[w]]
      /\ pc'[w] = "hit" /\ file'[w] = 0
      /\ \A v \in Workers \ {w} : pc'[v] = pc[v] /\ file'[v] = file[v]
  BY ActorsApart DEF IInv, StoreTyped, PlacesCoherent, Goto, RestoreEnds, Close
<1>3. /\ data' \in [Keys -> [Files -> SUBSET Whole]]
      /\ \A k \in Keys, f \in Files :
           dir'[k] = f \/ (\E v \in Workers : Holds(v, k, f)') => data'[k][f] = data[k][f]
  BY <1>1, SweptKeeps DEF IInv
<1>4. StoreTyped'
  BY <1>1, <1>3 DEF IInv, StoreTyped, Goto, RestoreEnds, WorkerPlaces, Close
<1>5. PlacesCoherent'
  BY <1>1, <1>2 DEF IInv, PlacesCoherent
<1>6. ObjectsSound'
  <2> SUFFICES ASSUME NEW k \in Keys, dir[k] # 0, k \notin disturbed
               PROVE  data'[k][dir[k]] = Whole \/ \E v \in Workers : Writes(v, k, dir[k])'
    BY <1>1 DEF ObjectsSound, Writes, Holds
  <2>1. dir[k] \in Files /\ data'[k][dir[k]] = data[k][dir[k]]
    BY <1>1, <1>3 DEF IInv, StoreTyped
  <2>. QED  BY <1>1, <1>2, <2>1 DEF IInv, ObjectsSound, Writes, Holds
<1>7. ReadersSound'
  <2>1. key[w] \notin disturbed => part[w] = Parts
    BY <1>2, BoundsAssumption DEF IInv, ReadersSound, StoreTyped, Whole
  <2>2. ASSUME NEW v \in Workers, v # w, pc[v] = "read"
        PROVE  data'[key[v]][file[v]] = data[key[v]][file[v]]
    BY <1>1, <1>2, <1>3, <2>2 DEF IInv, PlacesCoherent, Holds
  <2>. QED  BY <1>1, <1>2, <2>1, <2>2 DEF IInv, ReadersSound
<1>. QED  BY <1>4, <1>5, <1>6, <1>7 DEF IInv

------------------------------------------------------------------------------
(* Whoever creates an object is the one to make it whole.  A reader that   *)
(* has the file open when it is truncated is disturbed.                    *)
LEMMA CreateKeeps == ASSUME IInv, NEW w \in Workers, Create(w) PROVE IInv'
<1> DEFINE k == key[w]
           f == IF dir[k] = 0 THEN CHOOSE n \in Files : \A v \in Workers : ~Holds(v, k, n) ELSE dir[k]
<1>1. /\ pc[w] = "create" /\ k \in Keys /\ file[w] = 0 /\ part[w] = 0
      /\ UNCHANGED <<home, key, part>> /\ disturbed \subseteq disturbed'
      /\ dir' = [dir EXCEPT ![k] = f] /\ data' = [data EXCEPT ![k][f] = {}]
      /\ file' = [file EXCEPT ![w] = f] /\ Goto(w, "write")
  BY DEF IInv, PlacesCoherent, Create
<1>2. f \in Files /\ (dir[k] = 0 => \A v \in Workers : ~Holds(v, k, f))
  <2>1. CASE dir[k] = 0
    <3>1. \E n \in Files : \A v \in Workers : ~Holds(v, k, n)
      BY <1>1, FileIsFree DEF IInv
    <3>. QED  BY <2>1, <3>1
  <2>2. CASE dir[k] # 0
    BY <1>1, <2>2 DEF IInv, StoreTyped
  <2>. QED  BY <2>1, <2>2
<1> HIDE DEF f
<1>3. ASSUME NEW v \in Workers, pc[v] = "read", Holds(v, k, f) PROVE k \in disturbed'
  BY <1>2, <1>3 DEF Create, f
<1>4. /\ pc'[w] = "write" /\ file'[w] = f
      /\ \A v \in Workers \ {w} : pc'[v] = pc[v] /\ file'[v] = file[v]
  BY <1>1, ActorsApart DEF IInv, StoreTyped, Goto
<1>5. /\ dir'[k] = f /\ data'[k][f] = {}
      /\ \A l \in Keys, g \in Files : l # k \/ g # f => data'[l][g] = data[l][g]
      /\ \A l \in Keys \ {k} : dir'[l] = dir[l]
  BY <1>1, <1>2 DEF IInv, StoreTyped
<1>6. StoreTyped'
  BY <1>1, <1>2 DEF IInv, StoreTyped, Goto, WorkerPlaces
<1>7. PlacesCoherent'
  BY <1>1, <1>2, <1>4 DEF IInv, PlacesCoherent
<1>8. ObjectsSound'
  <2> SUFFICES ASSUME NEW l \in Keys, NEW d, d = dir'[l], d # 0, l \notin disturbed'
               PROVE  data'[l][d] = Whole \/ \E v \in Workers : Writes(v, l, d)'
    BY DEF ObjectsSound, Writes, Holds
  <2>1. CASE l = k
    <3>1. 1..part'[w] = {}
      BY <1>1
    <3>. QED  BY <1>1, <1>4, <1>5, <2>1, <3>1 DEF Writes, Holds
  <2>2. CASE l # k
    <3>1. d = dir[l] /\ data'[l][d] = data[l][d] /\ l \notin disturbed
      BY <1>1, <1>5, <2>2 DEF IInv, StoreTyped
    <3>2. \A v \in Workers : Writes(v, l, d) => Writes(v, l, d)'
      BY <1>1, <1>4, <3>1 DEF Writes, Holds
    <3>. QED  BY <3>1, <3>2 DEF IInv, ObjectsSound
  <2>. QED  BY <2>1, <2>2
<1>9. ReadersSound'
  <2> SUFFICES ASSUME NEW v \in Workers, v # w, key[v] \notin disturbed'
               PROVE  /\ pc[v] = "open" => dir'[key[v]] # 0
                      /\ pc[v] = "read" => data'[key[v]][file[v]] = Whole
                      /\ pc[v] = "hit" => part[v] = Parts
    BY <1>1, <1>4 DEF ReadersSound
  <2>1. pc[v] = "read" => data'[key[v]][file[v]] = data[key[v]][file[v]]
    BY <1>3, <1>5 DEF IInv, PlacesCoherent, Holds
  <2>2. pc[v] = "open" => key[v] \in Keys /\ (dir[key[v]] # 0 => dir'[key[v]] # 0)
    BY <1>2, <1>5 DEF IInv, PlacesCoherent, Files
  <2>. QED  BY <1>1, <2>1, <2>2 DEF IInv, ReadersSound
<1>. QED  BY <1>6, <1>7, <1>8, <1>9 DEF IInv

LEMMA WritePartKeeps == ASSUME IInv, NEW w \in Workers, WritePart(w) PROVE IInv'
<1>1. /\ pc[w] = "write" /\ part[w] < Parts
      /\ UNCHANGED <<home, dir, pc, key, file, disturbed>>
      /\ data' = [data EXCEPT ![key[w]][file[w]] = @ \cup {part[w] + 1}]
      /\ part' = [part EXCEPT ![w] = @ + 1]
  BY DEF WritePart, historyVars
<1>2. key[w] \in Keys /\ file[w] \in Files /\ part[w] \in 0..Parts /\ part[w] + 1 \in Whole
  BY <1>1, BoundsAssumption DEF IInv, PlacesCoherent, StoreTyped, Whole
<1>3. /\ data' \in [Keys -> [Files -> SUBSET Whole]]
      /\ \A k \in Keys, f \in Files : data[k][f] \subseteq data'[k][f]
      /\ \A k \in Keys, f \in Files : data[k][f] = Whole => data'[k][f] = Whole
      /\ part[w] + 1 \in data'[key[w]][file[w]]
  BY <1>1, <1>2 DEF IInv, StoreTyped
<1>4. /\ part'[w] = part[w] + 1 /\ part'[w] \in 0..Parts
      /\ \A v \in Workers \ {w} : part'[v] = part[v]
  BY <1>1, <1>2, BoundsAssumption DEF IInv, StoreTyped
<1>5. StoreTyped'
  BY <1>1, <1>3, <1>4 DEF IInv, StoreTyped
<1>6. PlacesCoherent'
  BY <1>1, <1>4 DEF IInv, PlacesCoherent
<1>7. ObjectsSound'
  <2> SUFFICES ASSUME NEW k \in Keys, dir[k] # 0, k \notin disturbed
               PROVE  data'[k][dir[k]] = Whole \/ \E v \in Workers : Writes(v, k, dir[k])'
    BY <1>1 DEF ObjectsSound, Writes, Holds
  <2>1. dir[k] \in Files
    BY DEF IInv, StoreTyped
  <2>2. ASSUME NEW v \in Workers \ {w}, Writes(v, k, dir[k]) PROVE Writes(v, k, dir[k])'
    BY <1>1, <1>3, <1>4, <2>1, <2>2 DEF Writes, Holds
  <2>3. ASSUME Writes(w, k, dir[k]) PROVE Writes(w, k, dir[k])'
    <3>1. 1..part'[w] = 1..part[w] \cup {part[w] + 1}
      BY <1>2, <1>4
    <3>. QED  BY <1>1, <1>3, <2>1, <2>3, <3>1 DEF Writes, Holds
  <2>. QED  BY <1>3, <2>1, <2>2, <2>3 DEF IInv, ObjectsSound
<1>8. ReadersSound'
  <2>1. \A v \in Workers : pc[v] = "read" => key[v] \in Keys /\ file[v] \in Files
    BY DEF IInv, PlacesCoherent
  <2>. QED  BY <1>1, <1>3, <1>4, <2>1 DEF IInv, ReadersSound
<1>. QED  BY <1>5, <1>6, <1>7, <1>8 DEF IInv

(* A worker that closes the object it was at leaves the files of the       *)
(* others as they are.                                                     *)
LEMMA ClosesKeeps ==
  ASSUME IInv, NEW w \in Workers, pc[w] = "write", Closes(w), home' = home,
         NEW p \in {"marshal", "over"}, Goto(w, p)
  PROVE  /\ StoreTyped' /\ PlacesCoherent' /\ dir' = dir /\ key'[w] = NoKey /\ pc'[w] = p
         /\ \A k \in Keys : dir[k] # 0 => data'[k][dir[k]] = data[k][dir[k]]
         /\ \A v \in Workers \ {w} :
              /\ pc'[v] = pc[v] /\ key'[v] = key[v] /\ file'[v] = file[v] /\ part'[v] = part[v]
              /\ pc[v] = "read" => data'[key[v]][file[v]] = data[key[v]][file[v]]
<1>1. dir' = dir /\ Swept
  BY DEF Closes
<1>2. /\ data' \in [Keys -> [Files -> SUBSET Whole]]
      /\ \A k \in Keys, f \in Files :
           dir'[k] = f \/ (\E v \in Workers : Holds(v, k, f)') => data'[k][f] = data[k][f]
  BY <1>1, SweptKeeps DEF IInv
<1>3. /\ pc'[w] = p /\ key'[w] = NoKey /\ file'[w] = 0 /\ part'[w] = 0
      /\ \A v \in Workers \ {w} :
           pc'[v] = pc[v] /\ key'[v] = key[v] /\ file'[v] = file[v] /\ part'[v] = part[v]
  BY ActorsApart DEF IInv, StoreTyped, Closes, Goto, Close
<1>4. StoreTyped'
  <2>1. pc' \in [Actors -> WorkerPlaces \cup PrunerPlaces]
    BY DEF IInv, StoreTyped, Goto, WorkerPlaces
  <2>2. /\ key' \in [Workers -> Keys \cup {NoKey}]
        /\ file' \in [Workers -> Files \cup {0}]
        /\ part' \in [Workers -> 0..Parts]
    BY BoundsAssumption DEF IInv, StoreTyped, Closes, Close
  <2>. QED  BY <1>1, <1>2, <2>1, <2>2 DEF IInv, StoreTyped
<1>5. PlacesCoherent'
  BY <1>3 DEF IInv, PlacesCoherent
<1>6. \A k \in Keys : dir[k] # 0 => data'[k][dir[k]] = data[k][dir[k]]
  BY <1>1, <1>2 DEF IInv, StoreTyped
<1>7. ASSUME NEW v \in Workers \ {w}, pc[v] = "read"
      PROVE  data'[key[v]][file[v]] = data[key[v]][file[v]]
  BY <1>2, <1>3, <1>7 DEF IInv, PlacesCoherent, Holds
<1>. QED  BY <1>1, <1>3, <1>4, <1>5, <1>6, <1>7

LEMMA SaveFailsKeeps == ASSUME IInv, NEW w \in Workers, SaveFails(w) PROVE IInv'
<1>1. pc[w] = "write" /\ Closes(w) /\ Goto(w, "over") /\ home' = home /\ disturbed' = disturbed \cup {key[w]}
  BY DEF SaveFails
<1>2. /\ StoreTyped' /\ PlacesCoherent' /\ dir' = dir /\ key'[w] = NoKey /\ pc'[w] = "over"
      /\ \A k \in Keys : dir[k] # 0 => data'[k][dir[k]] = data[k][dir[k]]
      /\ \A v \in Workers \ {w} :
           /\ pc'[v] = pc[v] /\ key'[v] = key[v] /\ file'[v] = file[v] /\ part'[v] = part[v]
           /\ pc[v] = "read" => data'[key[v]][file[v]] = data[key[v]][file[v]]
  BY <1>1, ClosesKeeps
<1>3. ObjectsSound'
  BY <1>1, <1>2 DEF IInv, ObjectsSound, Writes, Holds
<1>4. ReadersSound'
  BY <1>1, <1>2 DEF IInv, ReadersSound
<1>. QED  BY <1>2, <1>3, <1>4 DEF IInv

(* A key is undisturbed when its object is whole and no other worker is    *)
(* concerned with it.                                                      *)
LEMMA RegisterKeeps == ASSUME IInv, NEW w \in Workers, Register(w) PROVE IInv'
<1>1. /\ pc[w] = "write" /\ part[w] = Parts /\ Closes(w) /\ Goto(w, "marshal") /\ home' = home
      /\ \/ disturbed' = disturbed
         \/ /\ disturbed' = disturbed \ {key[w]}
            /\ dir[key[w]] = file[w] /\ data[key[w]][file[w]] = Whole
            /\ \A v \in Workers \ {w} : key[v] # key[w]
  BY DEF Register, Written
<1>2. /\ StoreTyped' /\ PlacesCoherent' /\ dir' = dir /\ key'[w] = NoKey /\ pc'[w] = "marshal"
      /\ \A k \in Keys : dir[k] # 0 => data'[k][dir[k]] = data[k][dir[k]]
      /\ \A v \in Workers \ {w} :
           /\ pc'[v] = pc[v] /\ key'[v] = key[v] /\ file'[v] = file[v] /\ part'[v] = part[v]
           /\ pc[v] = "read" => data'[key[v]][file[v]] = data[key[v]][file[v]]
  BY <1>1, ClosesKeeps
<1>3. ObjectsSound'
  <2> SUFFICES ASSUME NEW k \in Keys, dir[k] # 0, k \notin disturbed'
               PROVE  data[k][dir[k]] = Whole \/ \E v \in Workers : Writes(v, k, dir[k])'
    BY <1>2 DEF ObjectsSound, Writes, Holds
  <2>1. CASE k \in disturbed
    BY <1>1, <2>1
  <2>2. ASSUME NEW v \in Workers \ {w}, Writes(v, k, dir[k]) PROVE Writes(v, k, dir[k])'
    BY <1>2, <2>2 DEF Writes, Holds
  <2>3. ASSUME Writes(w, k, dir[k]) PROVE data[k][dir[k]] = Whole
    <3>1. Whole \subseteq data[k][dir[k]]
      BY <1>1, <2>3 DEF Writes, Whole
    <3>2. data[k][dir[k]] \subseteq Whole
      BY DEF IInv, StoreTyped
    <3>. QED  BY <3>1, <3>2
  <2>. QED  BY <2>1, <2>2, <2>3 DEF IInv, ObjectsSound
<1>4. ReadersSound'
  <2>1. \A v \in Workers \ {w} : key[v] \notin disturbed' => key[v] \notin disturbed
    BY <1>1
  <2>. QED  BY <1>2, <2>1 DEF IInv, ReadersSound
<1>. QED  BY <1>2, <1>3, <1>4 DEF IInv

------------------------------------------------------------------------------
(* The pruner disturbs what it removes.                                    *)
LEMMA RemoveKeeps == ASSUME IInv, Remove PROVE IInv'
<1> DEFINE r == listed[at+1].key
<1>1. /\ UNCHANGED <<home, pc, key, file, part>> /\ Swept
      /\ dir' = [dir EXCEPT ![r] = 0] /\ disturbed' = disturbed \cup {r}
  BY DEF Remove
<1>2. /\ data' \in [Keys -> [Files -> SUBSET Whole]]
      /\ \A k \in Keys, f \in Files :
           dir'[k] = f \/ (\E w \in Workers : Holds(w, k, f)') => data'[k][f] = data[k][f]
  BY <1>1, SweptKeeps DEF IInv
<1> HIDE DEF r
<1>3. \A k \in Keys : k # r => dir'[k] = dir[k]
  BY <1>1 DEF IInv, StoreTyped
<1>4. StoreTyped'
  BY <1>1, <1>2 DEF IInv, StoreTyped
<1>5. PlacesCoherent'
  BY <1>1 DEF IInv, PlacesCoherent
<1>6. ObjectsSound'
  <2> SUFFICES ASSUME NEW k \in Keys, NEW d, d = dir'[k], d # 0, k \notin disturbed'
               PROVE  data'[k][d] = Whole \/ \E w \in Workers : Writes(w, k, d)'
    BY DEF ObjectsSound, Writes, Holds
  <2>1. d = dir[k] /\ k \notin disturbed /\ d \in Files
    BY <1>1, <1>3 DEF IInv, StoreTyped
  <2>2. data'[k][d] = data[k][d]
    BY <1>2, <2>1
  <2>. QED  BY <1>1, <2>1, <2>2 DEF IInv, ObjectsSound, Writes, Holds
<1>7. ReadersSound'
  <2> SUFFICES ASSUME NEW w \in Workers, key[w] \notin disturbed'
               PROVE  /\ pc[w] = "open" => dir'[key[w]] # 0
                      /\ pc[w] = "read" => data'[key[w]][file[w]] = Whole
                      /\ pc[w] = "hit" => part[w] = Parts
    BY <1>1 DEF ReadersSound
  <2>1. pc[w] = "read" => data'[key[w]][file[w]] = data[key[w]][file[w]]
    BY <1>1, <1>2 DEF IInv, PlacesCoherent, Holds
  <2>2. pc[w] = "open" => dir'[key[w]] = dir[key[w]]
    BY <1>1, <1>3 DEF IInv, PlacesCoherent
  <2>. QED  BY <1>1, <2>1, <2>2 DEF IInv, ReadersSound
<1>. QED  BY <1>4, <1>5, <1>6, <1>7 DEF IInv

------------------------------------------------------------------------------
LEMMA PrunerKeeps == ASSUME IInv, List \/ PruneEnds \/ DropIndexRefs PROVE IInv'
<1>1. UNCHANGED <<home, dir, data, key, file, part, disturbed>>
  BY DEF List, PruneEnds, DropIndexRefs, diskVars, fileVars, historyVars
<1>2. \A w \in Workers : pc'[w] = pc[w]
  BY ActorsApart DEF IInv, StoreTyped, List, PruneEnds, DropIndexRefs, Goto
<1>3. pc' \in [Actors -> WorkerPlaces \cup PrunerPlaces]
  BY DEF IInv, StoreTyped, List, PruneEnds, DropIndexRefs, Goto, PrunerPlaces
<1>. QED  BY <1>1, <1>2, <1>3, QuietKeeps DEF IInv, StoreTyped

LEMMA IndexKeeps ==
  ASSUME IInv, NEW x \in Actors, Marshal(x) \/ Truncate(x) \/ Flush(x)
  PROVE  IInv'
<1>1. UNCHANGED <<home, dir, data, key, file, part, disturbed>>
  BY DEF Marshal, Truncate, Flush, diskVars, fileVars, historyVars
<1>2. PICK p \in {"truncate", "flush", "over"} :
        Goto(x, p) /\ pc[x] \in {"marshal", "truncate", "flush"}
  BY DEF Marshal, Truncate, Flush
<1>3. \A w \in Workers : pc'[w] = pc[w] \/ (pc[w] \notin {"read", "write"} /\ pc'[w] = p)
  BY <1>2, ActorsApart DEF IInv, StoreTyped, Goto
<1>4. pc' \in [Actors -> WorkerPlaces \cup PrunerPlaces]
  BY <1>2 DEF IInv, StoreTyped, Goto, WorkerPlaces
<1>. QED  BY <1>1, <1>2, <1>3, <1>4, QuietKeeps DEF IInv, StoreTyped, WorkerPlaces

LEMMA InitIInv == Init => IInv
<1> SUFFICES ASSUME Init PROVE IInv
  OBVIOUS
<1>1. home \in [Workers -> Runs]
  BY NamesAssumption DEF Init
<1>2. StoreTyped
  BY <1>1, BoundsAssumption DEF Init, StoreTyped, WorkerPlaces
<1>3. PlacesCoherent /\ ObjectsSound /\ ReadersSound
  BY ActorsApart, <1>2 DEF Init, PlacesCoherent, ObjectsSound, ReadersSound
<1>. QED  BY <1>2, <1>3 DEF IInv

LEMMA StepIInv == IInv /\ [Next]_vars => IInv'
<1> SUFFICES ASSUME IInv, [Next]_vars PROVE IInv'
  OBVIOUS
<1>1. ASSUME NEW p \in Procs, Open(p) \/ Exit(p) \/ Crash(p) PROVE IInv'
  BY <1>1, OpenKeeps, ExitKeeps, CrashKeeps
<1>2. ASSUME NEW w \in Workers, Work(w) PROVE IInv'
  BY <1>2, LookupKeeps, OpenObjectKeeps, RestorePartKeeps, RestoreEndsKeeps, CommandKeeps,
     CreateKeeps, WritePartKeeps, SaveFailsKeeps, RegisterKeeps DEF Work
<1>3. ASSUME NEW x \in Actors, Marshal(x) \/ Truncate(x) \/ Flush(x) PROVE IInv'
  BY <1>3, IndexKeeps
<1>4. CASE Prune
  BY <1>4, RemoveKeeps, PrunerKeeps DEF Prune
<1>5. CASE UNCHANGED vars
  BY <1>5 DEF vars, diskVars, fileVars, historyVars, IInv, StoreTyped, PlacesCoherent,
     ObjectsSound, ReadersSound, Writes, Holds
<1>. QED  BY <1>1, <1>2, <1>3, <1>4, <1>5 DEF Next

(* Whatever overlaps and whatever dies, a step that counts as cached has   *)
(* got all that was saved for it, unless its object was removed, cut short *)
(* or rewritten since one worker alone last saved it (execStep, Restore).  *)
THEOREM HitsAreIntact == Spec => []HitsIntact
<1>1. IInv => HitsIntact
  BY BoundsAssumption DEF IInv, StoreTyped, ReadersSound, HitsIntact
<1>. QED  BY InitIInv, StepIInv, <1>1, PTL DEF Spec

------------------------------------------------------------------------------
(* The index, on disk, in memory and about to be written.                  *)
EntriesTyped ==
  /\ index \in {Empty, Garbage} \cup {Json(K) : K \in SUBSET Keys}
  /\ memory \in [Procs -> SUBSET Keys]
  /\ buffer \in [Actors -> SUBSET Keys]

EntriesInv == IInv /\ EntriesTyped /\ EntriesCompleted

LEMMA EntriesStep == EntriesInv /\ [Next]_vars => EntriesInv'
<1> SUFFICES ASSUME EntriesInv, [Next]_vars PROVE EntriesInv'
  OBVIOUS
<1> USE DEF EntriesInv, EntriesTyped, EntriesCompleted
<1>1. IInv'
  BY StepIInv
<1>2. index.keys \in SUBSET Keys
  BY DEF Empty, Garbage, Json
<1>3. ASSUME NEW p \in Procs, Open(p) PROVE EntriesTyped' /\ EntriesCompleted'
  BY <1>2, <1>3 DEF Open
<1>4. ASSUME NEW p \in Procs, Gone(p), UNCHANGED <<index, completed>>
      PROVE  EntriesTyped' /\ EntriesCompleted'
  BY <1>2, <1>4 DEF Gone
<1>5. ASSUME NEW w \in Workers, Work(w) PROVE EntriesTyped' /\ EntriesCompleted'
  <2>1. CASE Register(w)
    <3>1. key[w] \in Keys
      BY <2>1 DEF Register, IInv, PlacesCoherent, Written
    <3>2. memory' \in [Procs -> SUBSET Keys] /\ \A p \in Procs : memory'[p] \subseteq memory[p] \cup {key[w]}
      BY <2>1, <3>1 DEF Register
    <3>. QED  BY <2>1, <3>2 DEF Register, Written
  <2>2. CASE UNCHANGED <<index, memory, buffer, completed>>
    BY <2>2
  <2>. QED
    BY <1>5, <2>1, <2>2 DEF Work, Lookup, OpenObject, RestorePart, RestoreEnds, Command, Create,
       WritePart, SaveFails, historyVars
<1>6. ASSUME NEW x \in Actors, Marshal(x) PROVE EntriesTyped' /\ EntriesCompleted'
  <2>1. Proc(x) \in Procs
    BY NamesAssumption DEF Proc, Procs, Actors, IInv, StoreTyped
  <2>. QED  BY <1>6, <2>1 DEF Marshal, historyVars
<1>7. ASSUME NEW x \in Actors, Truncate(x) PROVE EntriesTyped' /\ EntriesCompleted'
  BY <1>7 DEF Truncate, historyVars, Empty
<1>8. ASSUME NEW x \in Actors, Flush(x) PROVE EntriesTyped' /\ EntriesCompleted'
  <2>1. \/ index' = Garbage
        \/ \E K \in SUBSET Keys : K = buffer[x] /\ index' = Json(K)
    BY <1>8 DEF Flush
  <2>2. index' \in {Empty, Garbage} \cup {Json(K) : K \in SUBSET Keys} /\ index'.keys \subseteq completed
    BY <2>1 DEF Garbage, Json
  <2>. QED  BY <1>8, <2>2 DEF Flush, historyVars
<1>9. CASE Prune
  <2>1. memory' \in [Procs -> SUBSET Keys] /\ \A p \in Procs : memory'[p] \subseteq memory[p]
    BY <1>9 DEF Prune, List, Remove, PruneEnds, DropIndexRefs, EntriesLeft
  <2>2. UNCHANGED <<index, buffer, completed>>
    BY <1>9 DEF Prune, List, Remove, PruneEnds, DropIndexRefs, historyVars
  <2>. QED  BY <1>1, <2>1, <2>2
<1>10. CASE UNCHANGED vars
  <2>1. UNCHANGED <<index, memory, buffer, completed>>
    BY <1>10 DEF vars, historyVars
  <2>. QED  BY <1>1, <2>1
<1>. QED
  BY <1>1, <1>3, <1>4, <1>5, <1>6, <1>7, <1>8, <1>9, <1>10 DEF Next, Exit, Crash, historyVars

(* An index names only keys for which a whole object was once written:     *)
(* flush and Open carry entries about, but only Save makes one, at its end.*)
THEOREM EntriesAreCompleted == Spec => []EntriesCompleted
<1>1. Init => EntriesInv
  BY InitIInv DEF Init, EntriesInv, EntriesTyped, EntriesCompleted, Empty
<1>2. EntriesInv => EntriesCompleted
  BY DEF EntriesInv
<1>. QED  BY <1>1, <1>2, EntriesStep, PTL DEF Spec


------------------------------------------------------------------------------
(* Executions in which operations do not overlap and nothing dies          *)

(* The keys whose object is there and whole.                               *)
Kept == {k \in Keys : dir[k] # 0 /\ data[k][dir[k]] = Whole}

(* One process is up at a time, and one of its actors busy.                *)
OneProcess == \A x, y \in Actors : pc[x] # "off" /\ pc[y] # "off" => Proc(x) = Proc(y)
OneActor == \A x, y \in Actors : Busy(x) /\ Busy(y) => x = y

(* What the place of the busy actor says of the index, of its process's    *)
(* copy M of it, and of the objects.                                       *)
Restores == {"open", "read", "list"}
BetweenFlushes(x, M) ==
  /\ pc[x] \notin {"truncate", "flush", "marshal"} => index.keys = M
  /\ pc[x] \in Restores => M = Kept
  /\ pc[x] \in {"command", "create"} => M = Kept /\ key[x] \notin Kept
  /\ pc[x] = "write" =>
       /\ M = Kept \ {key[x]} /\ dir[key[x]] = file[x]
       /\ data[key[x]][file[x]] = 1..part[x]
  /\ pc[x] \in {"prune", "drop"} => Kept = M \ removed
Flushing(x, M) ==
  /\ pc[x] \in {"marshal", "truncate", "flush"} => M = Kept
  /\ pc[x] \in {"truncate", "flush"} => buffer[x] = M
  /\ pc[x] = "flush" => index = Empty
Agrees(x) == BetweenFlushes(x, memory[Proc(x)]) /\ Flushing(x, memory[Proc(x)])

(* And when nobody is busy: a process that is up has the index in memory.  *)
AllAgree ==
  /\ index.keys = Kept
  /\ \A x \in Actors : pc[x] # "off" => memory[Proc(x)] = Kept

SequentialInv == sequential =>
  /\ OneProcess /\ OneActor
  /\ \A x \in Actors : Busy(x) => Agrees(x)
  /\ (\A x \in Actors : ~Busy(x)) => AllAgree

(* What an actor that is busy does, the others being idle.                 *)
LEMMA BusyStep ==
  ASSUME StoreTyped, SequentialInv, sequential, NEW x \in Actors, Busy(x),
         NEW q, pc' = [pc EXCEPT ![x] = q], q # "off", home' = home,
         Busy(x)' => Agrees(x)',
         ~Busy(x)' => index'.keys = Kept' /\ memory'[Proc(x)] = Kept'
  PROVE  SequentialInv'
<1>1. /\ pc'[x] = q /\ \A y \in Actors \ {x} : pc'[y] = pc[y]
      /\ pc[x] # "off" /\ \A y \in Actors : Proc(y)' = Proc(y)
  BY DEF StoreTyped, Proc, Busy
<1>2. OneProcess /\ OneActor
  BY DEF SequentialInv
<1>3. \A y \in Actors : pc'[y] # "off" => pc[y] # "off"
  BY <1>1
<1>4. OneProcess'
  BY <1>1, <1>2, <1>3 DEF OneProcess
<1>5. \A y \in Actors : Busy(y)' => y = x
  BY <1>1, <1>2 DEF OneActor, Busy
<1>6. OneActor'
  BY <1>5 DEF OneActor
<1>7. ASSUME ~Busy(x)' PROVE AllAgree'
  <2>1. \A y \in Actors : pc'[y] # "off" => Proc(y)' = Proc(x)
    BY <1>1, <1>2, <1>3 DEF OneProcess
  <2>. QED  BY <1>7, <2>1 DEF AllAgree
<1>. QED  BY <1>4, <1>5, <1>6, <1>7 DEF SequentialInv

(* What closing a file leaves of the objects.                              *)
LEMMA KeptStays ==
  ASSUME StoreTyped, dir' = dir, data' = data \/ Swept
  PROVE  Kept' = Kept /\ \A k \in Keys : dir[k] # 0 => data'[k][dir[k]] = data[k][dir[k]]
<1>1. \A k \in Keys : dir[k] # 0 => data'[k][dir[k]] = data[k][dir[k]]
  <2>1. CASE data' = data
    BY <2>1
  <2>2. CASE Swept
    BY <2>2, SweptKeeps DEF StoreTyped
  <2>. QED  BY <2>1, <2>2
<1>. QED  BY <1>1 DEF Kept

(* What holds of a worker that is busy.                                    *)
LEMMA WorkerFacts ==
  ASSUME IInv, SequentialInv, sequential, NEW w \in Workers, Busy(w)
  PROVE  /\ w \in Actors /\ Proc(w) = home[w] /\ Agrees(w) /\ home[w] \in Procs
         /\ \A x \in Actors : Busy(x) => x = w
<1>1. w \in Actors /\ Proc(w) = home[w] /\ home[w] \in Procs
  BY ActorsApart DEF IInv, StoreTyped, Procs
<1>. QED  BY <1>1 DEF SequentialInv, OneActor

(* A worker that restores changes no object.                               *)
LEMMA RestoreSequential ==
  ASSUME IInv, SequentialInv, sequential', NEW w \in Workers, OpenObject(w) \/ RestorePart(w) \/ RestoreEnds(w)
  PROVE  SequentialInv'
<1>1. /\ pc[w] \in {"open", "read"} /\ UNCHANGED <<home, dir, index, memory, sequential>>
      /\ data' = data \/ Swept
  BY DEF OpenObject, RestorePart, RestoreEnds, diskVars, historyVars
<1>2. PICK q \in {"hit", "read"} : pc' = [pc EXCEPT ![w] = q]
  <2>1. CASE RestorePart(w)
    <3>1. pc' = pc /\ pc[w] = "read" /\ w \in Actors
      BY <2>1, ActorsApart DEF RestorePart, IInv
    <3>. QED  BY <3>1 DEF IInv, StoreTyped
  <2>. QED  BY <2>1 DEF OpenObject, RestoreEnds, Goto
<1>3. Busy(w)
  BY <1>1 DEF Busy
<1>4. /\ w \in Actors /\ Proc(w) = home[w] /\ Agrees(w)
  BY <1>1, <1>3, WorkerFacts
<1>5. Kept' = Kept
  BY <1>1, KeptStays DEF IInv
<1>6. index.keys = Kept /\ memory[Proc(w)] = Kept
  BY <1>1, <1>4 DEF Agrees, BetweenFlushes, Restores
<1>7. Proc(w)' = Proc(w) /\ pc'[w] = q
  BY <1>1, <1>2, <1>4 DEF Proc, IInv, StoreTyped
<1>8. Agrees(w)'
  BY <1>1, <1>5, <1>6, <1>7 DEF Agrees, BetweenFlushes, Flushing
<1>. QED  BY <1>1, <1>2, <1>3, <1>4, <1>5, <1>6, <1>8, BusyStep DEF IInv

(* Nor does one that runs its command.                                     *)
LEMMA CommandSequential ==
  ASSUME IInv, SequentialInv, sequential', NEW w \in Workers, Command(w)
  PROVE  SequentialInv'
<1>1. pc[w] = "command" /\ UNCHANGED <<home, dir, data, index, memory, sequential>>
  BY DEF Command, diskVars, historyVars
<1>2. PICK q \in {"create", "over"} : pc' = [pc EXCEPT ![w] = q] /\ (q = "create" => key' = key)
  BY DEF Command, Goto
<1>3. Busy(w)
  BY <1>1 DEF Busy
<1>4. /\ w \in Actors /\ Proc(w) = home[w] /\ Agrees(w)
  BY <1>1, <1>3, WorkerFacts
<1>5. Kept' = Kept
  BY <1>1 DEF Kept
<1>6. index.keys = Kept /\ memory[Proc(w)] = Kept /\ key[w] \notin Kept
  BY <1>1, <1>4 DEF Agrees, BetweenFlushes, Restores
<1>7. Proc(w)' = Proc(w) /\ pc'[w] = q
  BY <1>1, <1>2, <1>4 DEF Proc, IInv, StoreTyped
<1>8. Busy(w)' => Agrees(w)'
  BY <1>1, <1>2, <1>5, <1>6, <1>7 DEF Agrees, BetweenFlushes, Flushing, Restores, Busy
<1>. QED  BY <1>1, <1>2, <1>3, <1>4, <1>5, <1>6, <1>8, BusyStep DEF IInv

(* Create truncates an object that the index does not name, a miss.        *)
LEMMA CreateSequential ==
  ASSUME IInv, SequentialInv, sequential', NEW w \in Workers, Create(w)
  PROVE  SequentialInv'
<1>1. /\ pc[w] = "create" /\ UNCHANGED <<home, key, part, index, memory, sequential>>
      /\ pc' = [pc EXCEPT ![w] = "write"]
  BY DEF Create, Goto
<1>2. Busy(w)
  BY <1>1 DEF Busy
<1>3. /\ w \in Actors /\ Proc(w) = home[w] /\ Agrees(w)
  BY <1>1, <1>2, WorkerFacts
<1>4. key[w] \in Keys /\ part[w] = 0
  BY <1>1 DEF IInv, PlacesCoherent
<1>5. PICK f \in Files :
        /\ dir' = [dir EXCEPT ![key[w]] = f] /\ data' = [data EXCEPT ![key[w]][f] = {}]
        /\ file' = [file EXCEPT ![w] = f]
  <2>. DEFINE f == IF dir[key[w]] = 0 THEN CHOOSE n \in Files : \A v \in Workers : ~Holds(v, key[w], n)
                   ELSE dir[key[w]]
  <2>1. f \in Files
    <3>1. CASE dir[key[w]] = 0
      <4>1. \E n \in Files : \A v \in Workers : ~Holds(v, key[w], n)
        BY <1>1, FileIsFree DEF IInv, PlacesCoherent
      <4>. QED  BY <3>1, <4>1
    <3>2. CASE dir[key[w]] # 0
      BY <1>4, <3>2 DEF IInv, StoreTyped
    <3>. QED  BY <3>1, <3>2
  <2>. QED  BY <2>1 DEF Create
<1>6. index.keys = Kept /\ memory[Proc(w)] = Kept /\ key[w] \notin Kept
  BY <1>1, <1>3 DEF Agrees, BetweenFlushes, Restores
<1>7. /\ dir'[key[w]] = f /\ file'[w] = f /\ data'[key[w]][f] = {} /\ f # 0
      /\ \A k \in Keys \ {key[w]} : dir'[k] = dir[k] /\ data'[k] = data[k]
  <2>1. f # 0
    BY DEF Files
  <2>2. /\ dir \in [Keys -> Files \cup {0}] /\ data \in [Keys -> [Files -> SUBSET Whole]]
        /\ file \in [Workers -> Files \cup {0}]
    BY DEF IInv, StoreTyped
  <2>3. dir'[key[w]] = f /\ file'[w] = f
    BY <1>4, <1>5, <2>2
  <2>4. data'[key[w]][f] = {} /\ \A k \in Keys \ {key[w]} : data'[k] = data[k]
    BY <1>4, <1>5, <2>2
  <2>5. \A k \in Keys \ {key[w]} : dir'[k] = dir[k]
    BY <1>4, <1>5, <2>2
  <2>. QED  BY <2>1, <2>3, <2>4, <2>5
<1>8. Kept' \ {key[w]} = Kept
  BY <1>6, <1>7 DEF Kept
<1>9. Proc(w)' = Proc(w) /\ pc'[w] = "write" /\ key'[w] = key[w] /\ 1..part'[w] = {}
  BY <1>1, <1>3, <1>4 DEF Proc, IInv, StoreTyped
<1>10. Agrees(w)'
  BY <1>1, <1>6, <1>7, <1>8, <1>9 DEF Agrees, BetweenFlushes, Flushing, Restores
<1>11. Busy(w)'
  BY <1>9 DEF Busy
<1>. QED  BY <1>1, <1>2, <1>3, <1>10, <1>11, BusyStep DEF IInv

(* A worker that writes: its object, of which it alone has written.        *)
LEMMA WriterFacts ==
  ASSUME IInv, SequentialInv, sequential, NEW w \in Workers, pc[w] = "write"
  PROVE  /\ w \in Actors /\ Proc(w) = home[w] /\ home[w] \in Procs /\ Busy(w)
         /\ index.keys = Kept \ {key[w]} /\ memory[home[w]] = Kept \ {key[w]}
         /\ key[w] \in Keys /\ file[w] \in Files /\ part[w] \in 0..Parts /\ dir[key[w]] = file[w]
         /\ data[key[w]][file[w]] = 1..part[w]
         /\ \A v \in Workers : Busy(v) => v = w
<1>1. Busy(w)
  BY DEF Busy
<1>2. /\ w \in Actors /\ Proc(w) = home[w] /\ home[w] \in Procs /\ Agrees(w)
      /\ \A x \in Actors : Busy(x) => x = w
  BY <1>1, WorkerFacts
<1>3. \A v \in Workers : v \in Actors
  BY DEF Actors
<1>4. key[w] \in Keys /\ file[w] \in Files /\ part[w] \in 0..Parts
  BY DEF IInv, StoreTyped, PlacesCoherent
<1>. QED  BY <1>1, <1>2, <1>3, <1>4 DEF Agrees, BetweenFlushes

(* Until the writer closes its file, its object is not whole.              *)
LEMMA WritePartSequential ==
  ASSUME IInv, SequentialInv, sequential', NEW w \in Workers, WritePart(w)
  PROVE  SequentialInv'
<1>1. /\ pc[w] = "write" /\ part[w] < Parts /\ UNCHANGED <<home, dir, pc, key, file, index, memory, sequential>>
      /\ data' = [data EXCEPT ![key[w]][file[w]] = @ \cup {part[w] + 1}]
      /\ part' = [part EXCEPT ![w] = @ + 1]
  BY DEF WritePart, historyVars
<1>2. /\ w \in Actors /\ Proc(w) = home[w] /\ home[w] \in Procs /\ Busy(w)
      /\ index.keys = Kept \ {key[w]} /\ memory[home[w]] = Kept \ {key[w]}
      /\ key[w] \in Keys /\ file[w] \in Files /\ part[w] \in 0..Parts /\ dir[key[w]] = file[w]
      /\ data[key[w]][file[w]] = 1..part[w]
  BY <1>1, WriterFacts
<1>3. /\ part'[w] = part[w] + 1 /\ part[w] \in Nat
      /\ data'[key[w]][file[w]] = 1..part[w] \cup {part[w] + 1}
      /\ \A k \in Keys \ {key[w]} : data'[k] = data[k]
  BY <1>1, <1>2, BoundsAssumption DEF IInv, StoreTyped
<1>4. data'[key[w]][file[w]] = 1..part'[w]
  BY <1>3
<1>5. Kept' \ {key[w]} = Kept \ {key[w]}
  BY <1>1, <1>3 DEF Kept
<1>6. Proc(w)' = Proc(w) /\ pc' = [pc EXCEPT ![w] = "write"] /\ pc'[w] = "write"
  BY <1>1, <1>2 DEF Proc, IInv, StoreTyped
<1>7. Agrees(w)'
  BY <1>1, <1>2, <1>4, <1>5, <1>6 DEF Agrees, BetweenFlushes, Flushing, Restores
<1>8. Busy(w)'
  BY <1>6 DEF Busy
<1>. QED  BY <1>1, <1>2, <1>6, <1>7, <1>8, BusyStep DEF IInv

(* A save that fails leaves its object partial, or had made none.          *)
LEMMA SaveFailsSequential ==
  ASSUME IInv, SequentialInv, sequential', NEW w \in Workers, SaveFails(w)
  PROVE  SequentialInv'
<1>1. /\ pc[w] = "write" /\ part[w] < Parts /\ UNCHANGED <<home, dir, index, memory, sequential>>
      /\ Swept /\ pc' = [pc EXCEPT ![w] = "over"]
  BY DEF SaveFails, Closes, Goto
<1>2. /\ w \in Actors /\ Proc(w) = home[w] /\ home[w] \in Procs /\ Busy(w)
      /\ index.keys = Kept \ {key[w]} /\ memory[home[w]] = Kept \ {key[w]}
      /\ key[w] \in Keys /\ file[w] \in Files /\ part[w] \in 0..Parts /\ dir[key[w]] = file[w]
      /\ data[key[w]][file[w]] = 1..part[w]
  BY <1>1, WriterFacts
<1>3. Kept' = Kept
  BY <1>1, KeptStays DEF IInv
<1>4. 1..part[w] # Whole
  <2>1. Parts \in Whole /\ Parts \notin 1..part[w]
    BY <1>1, <1>2, BoundsAssumption DEF Whole
  <2>. QED  BY <2>1
<1>5. key[w] \notin Kept
  BY <1>2, <1>4 DEF Kept
<1>6. ~Busy(w)'
  BY <1>1, <1>2 DEF Busy, IInv, StoreTyped
<1>. QED  BY <1>1, <1>2, <1>3, <1>5, <1>6, BusyStep DEF IInv

(* A save that ends has made its object whole, and notes its key.          *)
LEMMA RegisterSequential ==
  ASSUME EntriesInv, SequentialInv, sequential', NEW w \in Workers, Register(w)
  PROVE  SequentialInv'
<1>1. /\ pc[w] = "write" /\ part[w] = Parts /\ UNCHANGED <<home, dir, index, sequential>>
      /\ Swept /\ pc' = [pc EXCEPT ![w] = "marshal"]
  BY DEF Register, Written, Closes, Goto
<1>2. /\ w \in Actors /\ Proc(w) = home[w] /\ home[w] \in Procs /\ Busy(w)
      /\ index.keys = Kept \ {key[w]} /\ memory[home[w]] = Kept \ {key[w]}
      /\ key[w] \in Keys /\ file[w] \in Files /\ part[w] \in 0..Parts /\ dir[key[w]] = file[w]
      /\ data[key[w]][file[w]] = 1..part[w]
      /\ \A v \in Workers : Busy(v) => v = w
  BY <1>1, WriterFacts DEF EntriesInv
<1>3. Kept' = Kept
  BY <1>1, KeptStays DEF EntriesInv, IInv
<1>4. key[w] \in Kept
  BY <1>1, <1>2 DEF Kept, Whole, Files
<1>5. \A v \in Workers \ {w} : ~Written(v)
  BY <1>2 DEF Written, Busy
<1>6. memory'[home[w]] = memory[home[w]] \cup {key[w]}
  BY <1>2, <1>5 DEF Register, EntriesInv, EntriesTyped
<1>7. memory'[home[w]] = Kept'
  BY <1>2, <1>3, <1>4, <1>6
<1>8. Proc(w)' = Proc(w) /\ pc'[w] = "marshal"
  BY <1>1, <1>2 DEF Proc, EntriesInv, IInv, StoreTyped
<1>9. Agrees(w)' /\ Busy(w)'
  BY <1>2, <1>7, <1>8 DEF Agrees, BetweenFlushes, Flushing, Restores, Busy
<1>. QED  BY <1>1, <1>2, <1>9, BusyStep DEF EntriesInv, IInv

(* A flush brings the index on disk up to the process' copy.               *)
LEMMA FlushSequential ==
  ASSUME EntriesInv, SequentialInv, sequential', NEW x \in Actors, Marshal(x) \/ Truncate(x) \/ Flush(x)
  PROVE  SequentialInv'
<1>1. /\ UNCHANGED <<home, dir, data, memory, sequential>>
      /\ pc[x] \in {"marshal", "truncate", "flush"}
  BY DEF Marshal, Truncate, Flush, diskVars, historyVars
<1>2. Busy(x) /\ StoreTyped
  BY <1>1 DEF Busy, EntriesInv, IInv
<1>3. Agrees(x) /\ Proc(x)' = Proc(x) /\ Proc(x) \in Procs
  BY <1>1, <1>2, NamesAssumption DEF SequentialInv, Proc, Procs, Actors, StoreTyped
<1>4. Kept' = Kept
  BY <1>1 DEF Kept
<1>5. memory[Proc(x)] = Kept
  BY <1>1, <1>3 DEF Agrees, Flushing
<1>6. CASE Marshal(x)
  <2>1. pc[x] = "marshal" /\ buffer'[x] = memory[Proc(x)] /\ pc' = [pc EXCEPT ![x] = "truncate"]
    BY <1>6 DEF Marshal, Goto, EntriesInv, EntriesTyped
  <2>2. pc'[x] = "truncate"
    BY <1>2, <2>1 DEF StoreTyped
  <2>3. Agrees(x)' /\ Busy(x)'
    BY <1>1, <1>3, <1>4, <1>5, <2>1, <2>2 DEF Agrees, BetweenFlushes, Flushing, Restores, Busy
  <2>. QED  BY <1>1, <1>2, <2>1, <2>3, BusyStep
<1>7. CASE Truncate(x)
  <2>1. /\ pc[x] = "truncate" /\ buffer' = buffer /\ index' = Empty /\ pc' = [pc EXCEPT ![x] = "flush"]
    BY <1>7 DEF Truncate, Goto
  <2>2. pc'[x] = "flush"
    BY <1>2, <2>1 DEF StoreTyped
  <2>3. Agrees(x)' /\ Busy(x)'
    BY <1>1, <1>3, <1>4, <1>5, <2>1, <2>2 DEF Agrees, BetweenFlushes, Flushing, Restores, Busy
  <2>. QED  BY <1>1, <1>2, <2>1, <2>3, BusyStep
<1>8. CASE Flush(x)
  <2>1. /\ pc[x] = "flush" /\ pc' = [pc EXCEPT ![x] = "over"]
    BY <1>8 DEF Flush, Goto
  <2>2. index = Empty /\ buffer[x] = Kept
    BY <1>3, <1>5, <2>1 DEF Agrees, Flushing
  <2>3. IsFiniteSet(Kept) /\ Cardinality(Kept) \in Nat /\ (Cardinality(Kept) = 0 <=> Kept = {})
    <3>1. Kept \subseteq Keys
      BY DEF Kept
    <3>. QED  BY <3>1, FiniteAssumption, FS_Subset, FS_CardinalityType, FS_EmptySet
  <2>4. index # Garbage /\ index.keys = {} /\ Cardinality(index.keys) = 0
    BY <2>2, FS_EmptySet DEF Empty, Garbage
  <2>5. ~ (index.keys # buffer[x] /\ Cardinality(index.keys) >= Cardinality(buffer[x]))
    BY <2>2, <2>3, <2>4
  <2>6. index' = Json(Kept)
    BY <1>8, <2>2, <2>4, <2>5 DEF Flush
  <2>7. index'.keys = Kept'
    BY <1>4, <2>6 DEF Json
  <2>8. ~Busy(x)'
    BY <1>2, <2>1 DEF StoreTyped, Busy
  <2>. QED  BY <1>1, <1>2, <1>4, <1>5, <2>1, <2>7, <2>8, BusyStep
<1>. QED  BY <1>6, <1>7, <1>8

(* The pruner forgets what it removes.                                     *)
LEMMA PruneSequential ==
  ASSUME EntriesInv, SequentialInv, sequential', Prune
  PROVE  SequentialInv'
<1>1. /\ UNCHANGED <<home, index, sequential>> /\ pc[Pruner] \in {"list", "prune", "drop"}
  BY DEF Prune, List, Remove, PruneEnds, DropIndexRefs, historyVars
<1>2. Pruner \in Actors /\ Busy(Pruner) /\ Proc(Pruner) = Pruner /\ Pruner \in Procs /\ StoreTyped
  BY <1>1 DEF Actors, Busy, Proc, Procs, EntriesInv, IInv
<1>3. Agrees(Pruner) /\ Proc(Pruner)' = Pruner
  BY <1>1, <1>2 DEF SequentialInv, Proc
<1>4. \A q : pc' = [pc EXCEPT ![Pruner] = q] => pc'[Pruner] = q
  BY <1>2 DEF StoreTyped
<1>5. CASE List
  <2>1. /\ pc[Pruner] = "list" /\ UNCHANGED <<dir, data, memory>> /\ removed' = {}
        /\ pc' = [pc EXCEPT ![Pruner] = "prune"]
    BY <1>5 DEF List, diskVars, Goto
  <2>2. index.keys = Kept /\ memory[Pruner] = Kept /\ Kept' = Kept
    BY <1>2, <1>3, <2>1 DEF Agrees, BetweenFlushes, Restores, Kept
  <2>3. pc'[Pruner] = "prune"
    BY <1>4, <2>1
  <2>4. Agrees(Pruner)' /\ Busy(Pruner)'
    BY <1>1, <1>3, <2>1, <2>2, <2>3 DEF Agrees, BetweenFlushes, Flushing, Restores, Busy
  <2>. QED  BY <1>1, <1>2, <2>1, <2>4, BusyStep
<1>6. CASE Remove
  <2>. PICK k : k = listed[at+1].key
    OBVIOUS
  <2>1. /\ pc[Pruner] = "prune" /\ pc' = pc /\ memory' = memory /\ Swept
        /\ dir' = [dir EXCEPT ![k] = 0]
        /\ removed' = IF dir[k] = 0 THEN removed ELSE removed \cup {k}
    BY <1>6 DEF Remove
  <2>2. index.keys = memory[Pruner] /\ Kept = memory[Pruner] \ removed
    BY <1>2, <1>3, <2>1 DEF Agrees, BetweenFlushes
  <2>3. /\ \A l \in Keys : l # k => dir'[l] = dir[l]
        /\ k \in Keys => dir'[k] = 0
    BY <1>2, <2>1 DEF StoreTyped
  <2>4. \A l \in Keys : l # k /\ dir[l] # 0 => data'[l][dir[l]] = data[l][dir[l]]
    BY <1>2, <2>1, <2>3, SweptKeeps DEF StoreTyped
  <2>5. Kept' = Kept \ {k}
    BY <2>3, <2>4 DEF Kept
  <2>6. dir[k] = 0 => k \notin Kept
    BY DEF Kept
  <2>7. Kept' = memory[Pruner] \ removed'
    BY <2>1, <2>2, <2>5, <2>6
  <2>8. pc' = [pc EXCEPT ![Pruner] = "prune"] /\ pc'[Pruner] = "prune"
    BY <1>2, <2>1 DEF StoreTyped
  <2>9. Agrees(Pruner)' /\ Busy(Pruner)'
    BY <1>1, <1>3, <2>1, <2>2, <2>7, <2>8 DEF Agrees, BetweenFlushes, Flushing, Restores, Busy
  <2>. QED  BY <1>1, <1>2, <2>8, <2>9, BusyStep
<1>7. CASE PruneEnds
  <2>1. /\ pc[Pruner] = "prune" /\ UNCHANGED <<dir, data, memory>>
        /\ \/ removed = {} /\ pc' = [pc EXCEPT ![Pruner] = "over"]
           \/ removed' = removed /\ pc' = [pc EXCEPT ![Pruner] = "drop"]
    BY <1>7 DEF PruneEnds, diskVars, Goto, pruneVars
  <2>2. index.keys = memory[Pruner] /\ Kept = memory[Pruner] \ removed /\ Kept' = Kept
    BY <1>2, <1>3, <2>1 DEF Agrees, BetweenFlushes, Kept
  <2>3. CASE removed = {} /\ pc' = [pc EXCEPT ![Pruner] = "over"]
    <3>1. ~Busy(Pruner)'
      BY <1>4, <2>3 DEF Busy
    <3>. QED  BY <1>1, <1>2, <2>1, <2>2, <2>3, <3>1, BusyStep
  <2>4. CASE removed' = removed /\ pc' = [pc EXCEPT ![Pruner] = "drop"]
    <3>1. pc'[Pruner] = "drop"
      BY <1>4, <2>4
    <3>2. Agrees(Pruner)' /\ Busy(Pruner)'
      BY <1>1, <1>3, <2>1, <2>2, <2>4, <3>1 DEF Agrees, BetweenFlushes, Flushing, Restores, Busy
    <3>. QED  BY <1>1, <1>2, <2>4, <3>2, BusyStep
  <2>. QED  BY <2>1, <2>3, <2>4
<1>8. CASE DropIndexRefs
  <2>1. /\ pc[Pruner] = "drop" /\ UNCHANGED <<dir, data>>
        /\ memory' = [memory EXCEPT ![Pruner] = memory[Pruner] \ removed]
        /\ pc' = [pc EXCEPT ![Pruner] = "marshal"]
    BY <1>8 DEF DropIndexRefs, diskVars, Goto, EntriesLeft
  <2>2. Kept = memory[Pruner] \ removed /\ Kept' = Kept
    BY <1>2, <1>3, <2>1 DEF Agrees, BetweenFlushes, Kept
  <2>3. pc'[Pruner] = "marshal" /\ memory'[Pruner] = Kept'
    BY <1>2, <1>4, <2>1, <2>2 DEF EntriesInv, EntriesTyped
  <2>4. Agrees(Pruner)' /\ Busy(Pruner)'
    BY <1>1, <1>3, <2>3 DEF Agrees, BetweenFlushes, Flushing, Restores, Busy
  <2>. QED  BY <1>1, <1>2, <2>1, <2>4, BusyStep
<1>. QED  BY <1>5, <1>6, <1>7, <1>8 DEF Prune

(* Steps that are taken when nobody is busy.                               *)
LEMMA LookupSequential ==
  ASSUME EntriesInv, SequentialInv, sequential', NEW w \in Workers, Lookup(w)
  PROVE  SequentialInv'
<1>1. /\ sequential /\ pc[w] = "idle" /\ \A x \in Actors : ~Busy(x)
      /\ UNCHANGED <<home, dir, data, index, memory>>
  BY DEF Lookup, diskVars
<1>2. w \in Actors /\ Proc(w) = home[w] /\ StoreTyped
  BY ActorsApart DEF EntriesInv, IInv
<1>3. AllAgree /\ OneProcess
  BY <1>1 DEF SequentialInv
<1>4. index.keys = Kept /\ memory[home[w]] = Kept /\ Kept' = Kept
  BY <1>1, <1>2, <1>3 DEF AllAgree, Kept
<1>5. PICK k \in Keys : /\ key' = [key EXCEPT ![w] = k]
                        /\ pc' = [pc EXCEPT ![w] = IF Has(home[w], k) THEN "open" ELSE "command"]
  BY DEF Lookup, Goto
<1>6. /\ key'[w] = k /\ pc'[w] \in {"open", "command"} /\ (pc'[w] = "command" => ~Has(home[w], k))
      /\ \A y \in Actors \ {w} : pc'[y] = pc[y]
  BY <1>2, <1>5 DEF StoreTyped
<1>7. pc'[w] = "command" => key'[w] \notin Kept'
  BY <1>4, <1>6 DEF Has, Kept
<1>8. \A y \in Actors : Proc(y)' = Proc(y)
  BY <1>1 DEF Proc
<1>9. OneProcess'
  <2>1. \A y \in Actors : pc'[y] # "off" => pc[y] # "off"
    BY <1>1, <1>6
  <2>. QED  BY <1>3, <1>8, <2>1 DEF OneProcess
<1>10. \A y \in Actors : Busy(y)' => y = w
  BY <1>1, <1>6 DEF Busy
<1>11. Agrees(w)' /\ Busy(w)'
  BY <1>1, <1>2, <1>4, <1>6, <1>7, <1>8 DEF Agrees, BetweenFlushes, Flushing, Restores, Busy
<1>. QED  BY <1>2, <1>9, <1>10, <1>11 DEF SequentialInv, OneActor

(* A process that opens the store reads the index that is there.           *)
LEMMA OpenSequential ==
  ASSUME EntriesInv, SequentialInv, sequential', NEW p \in Procs, Open(p)
  PROVE  SequentialInv'
<1>1. /\ sequential /\ \A q \in Procs : ~Up(q)
      /\ UNCHANGED <<home, dir, data, index>> /\ memory' = [memory EXCEPT ![p] = index.keys]
      /\ pc' = [x \in Actors |-> IF Proc(x) # p THEN pc[x] ELSE IF p = Pruner THEN "list" ELSE "idle"]
  BY DEF Open, diskVars
<1>2. \A x \in Actors : Proc(x) \in Procs /\ Proc(x)' = Proc(x)
  BY <1>1, NamesAssumption DEF EntriesInv, IInv, StoreTyped, Proc, Procs, Actors
<1>3. \A x \in Actors : pc[x] = "off"
  BY <1>1, <1>2 DEF Up
<1>4. \A x \in Actors : ~Busy(x)
  BY <1>3 DEF Busy
<1>5. index.keys = Kept /\ Kept' = Kept
  BY <1>1, <1>4 DEF SequentialInv, AllAgree, Kept
<1>6. \A x \in Actors : pc'[x] # "off" => Proc(x)' = p /\ pc'[x] = IF p = Pruner THEN "list" ELSE "idle"
  BY <1>1, <1>2, <1>3
<1>7. memory'[p] = Kept'
  BY <1>1, <1>5 DEF EntriesInv, EntriesTyped
<1>8. OneProcess'
  BY <1>6 DEF OneProcess
<1>9. \A x \in Actors : Busy(x)' => x = Pruner /\ pc'[x] = "list"
  <2>1. \A x \in Workers : Proc(x) # Pruner
    BY NamesAssumption DEF EntriesInv, IInv, StoreTyped, Proc
  <2>. QED  BY <1>2, <1>6, <2>1 DEF Busy, Actors
<1>10. OneActor'
  BY <1>9 DEF OneActor
<1>11. \A x \in Actors : Busy(x)' => Agrees(x)'
  BY <1>1, <1>5, <1>6, <1>7, <1>9 DEF Agrees, BetweenFlushes, Flushing, Restores, Busy
<1>12. AllAgree'
  BY <1>1, <1>5, <1>6, <1>7 DEF AllAgree
<1>. QED  BY <1>8, <1>10, <1>11, <1>12 DEF SequentialInv

(* One that exits leaves the index flushed.                                *)
LEMMA ExitSequential ==
  ASSUME EntriesInv, SequentialInv, sequential', NEW p \in Procs, Exit(p)
  PROVE  SequentialInv'
<1>1. /\ sequential /\ Up(p) /\ \A x \in Actors : Proc(x) = p => ~Busy(x)
      /\ UNCHANGED <<home, dir, index>> /\ Swept
      /\ pc' = [x \in Actors |-> IF Proc(x) = p THEN "off" ELSE pc[x]]
  BY DEF Exit, Gone, historyVars
<1>2. OneProcess
  BY <1>1 DEF SequentialInv
<1>3. \A x \in Actors : pc[x] # "off" => Proc(x) = p
  BY <1>1, <1>2 DEF Up, OneProcess
<1>4. \A x \in Actors : ~Busy(x)
  BY <1>1, <1>3 DEF Busy
<1>5. index.keys = Kept /\ Kept' = Kept
  BY <1>1, <1>4, KeptStays DEF SequentialInv, AllAgree, EntriesInv, IInv
<1>6. \A x \in Actors : pc'[x] = "off"
  BY <1>1, <1>3
<1>. QED  BY <1>1, <1>5, <1>6 DEF SequentialInv, OneProcess, OneActor, AllAgree, Busy

(* No step of a store used sequentially loses the agreement.               *)
LEMMA SequentialStep ==
  ASSUME EntriesInv, SequentialInv, [Next]_vars
  PROVE  SequentialInv'
<1>. SUFFICES ASSUME sequential' PROVE SequentialInv'
  BY DEF SequentialInv
<1>. IInv
  BY DEF EntriesInv
<1>1. ASSUME NEW p \in Procs, Open(p) \/ Exit(p) \/ Crash(p) PROVE SequentialInv'
  BY <1>1, OpenSequential, ExitSequential DEF Crash
<1>2. ASSUME NEW w \in Workers, Work(w) PROVE SequentialInv'
  <2>1. CASE Lookup(w)
    BY <2>1, LookupSequential
  <2>2. CASE ~Lookup(w)
    <3>1. sequential' = sequential
      BY <1>2, <2>2 DEF Work, OpenObject, RestorePart, RestoreEnds, Command, Create, WritePart, SaveFails,
         Register, historyVars
    <3>. QED  BY <1>2, <2>2, <3>1, RestoreSequential, CommandSequential, CreateSequential,
              WritePartSequential, SaveFailsSequential, RegisterSequential DEF Work
  <2>. QED  BY <2>1, <2>2
<1>3. ASSUME NEW x \in Actors, Marshal(x) \/ Truncate(x) \/ Flush(x) PROVE SequentialInv'
  BY <1>3, FlushSequential
<1>4. CASE Prune
  BY <1>4, PruneSequential
<1>5. CASE UNCHANGED vars
  BY <1>5 DEF vars, diskVars, fileVars, pruneVars, historyVars, SequentialInv, OneProcess, OneActor, AllAgree,
     Agrees, BetweenFlushes, Flushing, Kept, Busy, Proc
<1>. QED  BY <1>1, <1>2, <1>3, <1>4, <1>5 DEF Next

(* As long as operations do not overlap and none is cut short by a crash,  *)
(* the index names, between operations, just the whole objects: Save makes *)
(* its entry after it has written, the pruner drops what it has removed,   *)
(* and only an object that the index does not name is ever truncated.      *)
THEOREM TheIndexMatches == Spec => []IndexMatchesObjects
<1>1. Init => EntriesInv /\ SequentialInv
  <2>. SUFFICES ASSUME Init PROVE EntriesInv /\ SequentialInv
    OBVIOUS
  <2>1. EntriesInv
    BY InitIInv DEF Init, EntriesInv, EntriesTyped, EntriesCompleted, Empty
  <2>2. /\ \A x \in Actors : pc[x] = "off"
        /\ index.keys = {} /\ \A k \in Keys : dir[k] = 0
    BY DEF Init, Empty
  <2>. QED  BY <2>1, <2>2 DEF SequentialInv, OneProcess, OneActor, AllAgree, Busy, Kept
<1>2. EntriesInv /\ SequentialInv /\ [Next]_vars => EntriesInv' /\ SequentialInv'
  BY EntriesStep, SequentialStep
<1>3. SequentialInv => IndexMatchesObjects
  BY DEF SequentialInv, IndexMatchesObjects, AllAgree, Kept
<1>. QED  BY <1>1, <1>2, <1>3, PTL DEF Spec

------------------------------------------------------------------------------
(* Sums over finite sets                                                   *)

Chosen(s) == CHOOSE x \in s : TRUE

(* g is the sum of f over every subset of S, taken as a fold takes it.     *)
Sums(g, S, f) ==
  g \in [SUBSET S -> Int] /\
  \A s \in SUBSET S : g[s] = IF s = {} THEN 0 ELSE f[Chosen(s)] + g[s \ {Chosen(s)}]

(* A chosen member is one.                                                 *)
LEMMA ChosenOne == \A s : s # {} => Chosen(s) \in s
BY DEF Chosen

(* A property of some subset of a finite set is one of a least subset.     *)
LEMMA LeastSet ==
  ASSUME NEW S, IsFiniteSet(S), NEW P \in SUBSET (SUBSET S), P # {}
  PROVE  \E T \in P : \A U \in SUBSET T : U # T => U \notin P
<1>1. P \subseteq FiniteSubsetsOf(S)
  BY FS_Subset DEF FiniteSubsetsOf
<1>2. \E T \in P : \A U \in P : ~ (<<U, T>> \in StrictSubsetOrdering(S))
  BY <1>1, FS_StrictSubsetOrderingWellFounded, WFMin
<1>3. PICK T \in P : \A U \in P : ~ (<<U, T>> \in StrictSubsetOrdering(S))
  BY <1>2
<1>4. ASSUME NEW U \in SUBSET T, U # T, U \in P PROVE FALSE
  <2>1. <<U, T>> \in StrictSubsetOrdering(S)
    BY <1>4 DEF StrictSubsetOrdering
  <2>. QED  BY <1>3, <1>4, <2>1
<1>. QED  BY <1>4

(* The recursion of a sum has at most one solution,                        *)
LEMMA SumsAgree ==
  ASSUME NEW S, IsFiniteSet(S), NEW f \in [S -> Int], NEW g, NEW R \in SUBSET S, NEW h,
         Sums(g, S, f), Sums(h, R, f)
  PROVE  \A s \in SUBSET R : g[s] = h[s]
<1>. DEFINE P == {s \in SUBSET R : g[s] # h[s]}
<1>. SUFFICES ASSUME P # {} PROVE FALSE
  OBVIOUS
<1>1. IsFiniteSet(R) /\ P \in SUBSET (SUBSET R)
  BY FS_Subset
<1>2. PICK T \in P : \A U \in SUBSET T : U # T => U \notin P
  <2>. HIDE DEF P
  <2>. QED  BY <1>1, LeastSet
<1>3. T \in SUBSET R /\ T \in SUBSET S /\ g[T] # h[T]
  OBVIOUS
<1>4. T # {}
  BY <1>3 DEF Sums
<1>. PICK x : x = Chosen(T)
  OBVIOUS
<1>5. x \in T
  BY <1>4, ChosenOne
<1>6. T \ {x} \in SUBSET T /\ T \ {x} # T
  BY <1>5
<1>7. T \ {x} \notin P
  BY <1>2, <1>6
<1>8. g[T \ {x}] = h[T \ {x}]
  BY <1>3, <1>7
<1>9. g[T] = f[x] + g[T \ {x}] /\ h[T] = f[x] + h[T \ {x}]
  BY <1>3, <1>4 DEF Sums
<1>. QED  BY <1>3, <1>8, <1>9

(* which solves it on every subset,                                        *)
LEMMA SumsRestrict ==
  ASSUME NEW S, NEW f, NEW g, NEW R \in SUBSET S, Sums(g, S, f)
  PROVE  Sums([s \in SUBSET R |-> g[s]], R, f)
<1>1. \A s \in SUBSET R : s \in SUBSET S /\ s \ {Chosen(s)} \in SUBSET R
  OBVIOUS
<1>. QED  BY <1>1 DEF Sums

(* and it has one, by extending solutions one member at a time.            *)
LEMMA SumsExist ==
  ASSUME NEW S, IsFiniteSet(S), NEW f \in [S -> Int]
  PROVE  \E g : Sums(g, S, f)
<1>. DEFINE P == {T \in SUBSET S : ~ \E g : Sums(g, T, f)}
<1>. SUFFICES ASSUME P # {} PROVE FALSE
  OBVIOUS
<1>1. PICK T \in P : \A U \in SUBSET T : U # T => U \notin P
  <2>1. P \in SUBSET (SUBSET S)
    OBVIOUS
  <2>. HIDE DEF P
  <2>. QED  BY <2>1, LeastSet
<1>2. T \in SUBSET S /\ ~ \E g : Sums(g, T, f)
  OBVIOUS
<1>. DEFINE h(U) == CHOOSE g : Sums(g, U, f)
            Below == {U \in SUBSET T : U # T}
<1>3. \A U \in Below : Sums(h(U), U, f)
  <2>1. \A U \in Below : \E g : Sums(g, U, f)
    BY <1>1, <1>2
  <2>. QED  BY <2>1
<1>. HIDE DEF h, P
<1>4. ASSUME NEW U \in Below, NEW R \in SUBSET U PROVE h(U)[R] = h(R)[R] /\ h(R)[R] \in Int
  <2>1. R \in Below /\ U \in SUBSET S
    BY <1>2
  <2>2. Sums(h(U), U, f) /\ Sums(h(R), R, f)
    BY <1>3, <2>1
  <2>3. IsFiniteSet(U) /\ [x \in U |-> f[x]] \in [U -> Int]
    BY <2>1, FS_Subset
  <2>. PICK e : e = [x \in U |-> f[x]]
    OBVIOUS
  <2>4. Sums(h(U), U, e) /\ Sums(h(R), R, e)
    <3>1. \A s \in SUBSET U : s # {} => Chosen(s) \in U
      BY ChosenOne
    <3>. QED  BY <2>2, <3>1 DEF Sums
  <2>5. h(U)[R] = h(R)[R]
    BY <2>3, <2>4, SumsAgree
  <2>. QED  BY <2>2, <2>5 DEF Sums
<1>. DEFINE Sum(s) == IF s = {} THEN 0 ELSE f[Chosen(s)] + h(s \ {Chosen(s)})[s \ {Chosen(s)}]
            G == [s \in SUBSET T |-> Sum(s)]
<1>5. ASSUME NEW s \in SUBSET T, s # {}
      PROVE  s \ {Chosen(s)} \in Below /\ Chosen(s) \in S
  BY <1>2, <1>5, ChosenOne
<1>6. G \in [SUBSET T -> Int]
  <2>1. ASSUME NEW s \in SUBSET T PROVE Sum(s) \in Int
    <3>1. CASE s = {}
      BY <3>1
    <3>2. CASE s # {}
      <4>. PICK R : R = s \ {Chosen(s)}
        OBVIOUS
      <4>1. R \in Below /\ f[Chosen(s)] \in Int
        BY <1>5, <3>2
      <4>2. h(R)[R] \in Int
        BY <1>4, <4>1
      <4>. QED  BY <3>2, <4>1, <4>2
    <3>. QED  BY <3>1, <3>2
  <2>. HIDE DEF Sum
  <2>. QED  BY <2>1
<1>7. ASSUME NEW U \in Below PROVE G[U] = h(U)[U]
  <2>1. Sums(h(U), U, f)
    BY <1>3
  <2>2. CASE U = {}
    BY <2>1, <2>2 DEF Sums
  <2>3. CASE U # {}
    <3>. PICK R : R = U \ {Chosen(U)}
      OBVIOUS
    <3>1. h(U)[U] = f[Chosen(U)] + h(U)[R]
      BY <2>1, <2>3 DEF Sums
    <3>2. h(U)[R] = h(R)[R]
      BY <1>4
    <3>. QED  BY <2>3, <3>1, <3>2
  <2>. QED  BY <2>2, <2>3
<1>8. ASSUME NEW s \in SUBSET T PROVE G[s] = IF s = {} THEN 0 ELSE f[Chosen(s)] + G[s \ {Chosen(s)}]
  <2>1. CASE s = {}
    BY <2>1
  <2>2. CASE s # {}
    <3>. PICK R : R = s \ {Chosen(s)}
      OBVIOUS
    <3>1. G[R] = h(R)[R]
      BY <1>5, <1>7, <2>2
    <3>2. G[s] = f[Chosen(s)] + h(R)[R]
      BY <2>2
    <3>. QED  BY <2>2, <3>1, <3>2
  <2>. QED  BY <2>1, <2>2
<1>. HIDE DEF G
<1>9. Sums(G, T, f)
  BY <1>6, <1>8 DEF Sums
<1>. QED  BY <1>2, <1>9

(* Any element of a set may be taken from its sum.                         *)
Takes(g, S, f) == \A T \in SUBSET S : \A m \in T : g[T] = f[m] + g[T \ {m}]

(* The solution does not depend on which member is taken first.            *)
LEMMA SumsTake ==
  ASSUME NEW S, IsFiniteSet(S), NEW f \in [S -> Int], NEW g, Sums(g, S, f)
  PROVE  Takes(g, S, f)
<1>. USE DEF Takes
<1>. DEFINE Good(T) == \A m \in T : g[T] = f[m] + g[T \ {m}]
            P == {T \in SUBSET S : ~ Good(T)}
<1>. SUFFICES ASSUME P # {} PROVE FALSE
  OBVIOUS
<1>1. PICK T \in P : \A U \in SUBSET T : U # T => U \notin P
  <2>1. P \in SUBSET (SUBSET S)
    OBVIOUS
  <2>. HIDE DEF P
  <2>. QED  BY <2>1, LeastSet
<1>2. T \in SUBSET S /\ ~ Good(T)
  OBVIOUS
<1>3. PICK m \in T : ~ (g[T] = f[m] + g[T \ {m}])
  BY <1>2
<1>. PICK x : x = Chosen(T)
  OBVIOUS
<1>4. x \in T /\ g[T] = f[x] + g[T \ {x}]
  BY <1>2, ChosenOne DEF Sums
<1>5. x # m
  BY <1>3, <1>4
<1>6. \A U \in SUBSET T : U # T => Good(U)
  BY <1>1, <1>2
<1>. HIDE DEF P
<1>7. g[T \ {x}] = f[m] + g[(T \ {x}) \ {m}] /\ g[T \ {m}] = f[x] + g[(T \ {m}) \ {x}]
  BY <1>4, <1>5, <1>6
<1>8. (T \ {x}) \ {m} = (T \ {m}) \ {x}
  OBVIOUS
<1>9. f[x] \in Int /\ f[m] \in Int /\ g[(T \ {m}) \ {x}] \in Int
  BY <1>2, <1>4 DEF Sums
<1>. PICK a, b, c, U : a = f[x] /\ b = f[m] /\ c = g[U] /\ U = (T \ {m}) \ {x}
  OBVIOUS
<1>10. a \in Int /\ b \in Int /\ c \in Int
  BY <1>9
<1>11. g[T] = a + (b + c) /\ g[T \ {m}] = a + c
  BY <1>4, <1>7, <1>8
<1>12. a + (b + c) = b + (a + c)
  BY <1>10
<1>. QED  BY <1>3, <1>11, <1>12

(* The sum of f over I.                                                    *)
SumOver(f, I) == (CHOOSE g : Sums(g, I, f))[I]

(* A sum over a set is the value there of any solution.                    *)
LEMMA SumOverIs ==
  ASSUME NEW S, IsFiniteSet(S), NEW f \in [S -> Int], NEW g, Sums(g, S, f)
  PROVE  \A I \in SUBSET S : SumOver(f, I) = g[I]
<1>. SUFFICES ASSUME NEW I \in SUBSET S PROVE SumOver(f, I) = g[I]
  OBVIOUS
<1>1. Sums([s \in SUBSET I |-> g[s]], I, f)
  BY SumsRestrict
<1>2. \E h : Sums(h, I, f)
  BY <1>1
<1>. PICK h : h = CHOOSE k : Sums(k, I, f)
  OBVIOUS
<1>3. Sums(h, I, f)
  BY <1>2
<1>4. g[I] = h[I]
  BY <1>3, SumsAgree
<1>. QED  BY <1>4 DEF SumOver

(* A sum over a set looks at no values elsewhere.                          *)
LEMMA SumOverThat ==
  ASSUME NEW I, IsFiniteSet(I), NEW f, NEW e, e = [i \in I |-> f[i]], e \in [I -> Int],
         NEW g, Sums(g, I, f)
  PROVE  SumOver(f, I) = g[I]
<1>2. ASSUME NEW h PROVE Sums(h, I, e) <=> Sums(h, I, f)
  <2>1. \A s \in SUBSET I : s # {} => e[Chosen(s)] = f[Chosen(s)]
    BY ChosenOne
  <2>. QED  BY <2>1 DEF Sums
<1>. PICK h : h = CHOOSE k : Sums(k, I, f)
  OBVIOUS
<1>3. Sums(h, I, f)
  OBVIOUS
<1>4. g[I] = h[I]
  BY <1>2, <1>3, SumsAgree
<1>. QED  BY <1>4 DEF SumOver

Summing(f, S) ==
  /\ \A I \in SUBSET S : SumOver(f, I) \in Int
  /\ SumOver(f, {}) = 0
  /\ \A I \in SUBSET S : \A m \in I : SumOver(f, I) = f[m] + SumOver(f, I \ {m})

(* Sums are numbers, and taking a member out takes its value off.          *)
LEMMA SumFacts ==
  ASSUME NEW S, IsFiniteSet(S), NEW f \in [S -> Int]
  PROVE  Summing(f, S)
<1>. USE DEF Summing
<1>1. PICK g : Sums(g, S, f)
  BY SumsExist
<1>2. \A I \in SUBSET S : SumOver(f, I) = g[I]
  BY <1>1, SumOverIs
<1>3. \A I \in SUBSET S : \A m \in I : g[I] = f[m] + g[I \ {m}]
  <2>1. Takes(g, S, f)
    BY <1>1, SumsTake
  <2>. QED  BY <2>1 DEF Takes
<1>4. \A I \in SUBSET S : \A m \in I : I \ {m} \in SUBSET S
  OBVIOUS
<1>. QED  BY <1>1, <1>2, <1>3, <1>4 DEF Sums

(* The folds of the model are such sums.                                   *)
Sizes(objects) == [i \in DOMAIN objects |-> objects[i].size]

IsFold(g, objects, I) ==
  g = [s \in SUBSET I |-> IF s = {} THEN 0
                          ELSE objects[CHOOSE x \in s : TRUE].size + g[s \ {CHOOSE x \in s : TRUE}]]

(* The community modules' fold is that recursion with sizes.               *)
LEMMA FoldsAgree ==
  ASSUME NEW I, IsFiniteSet(I), NEW objects, NEW g, NEW h, IsFold(g, objects, I), IsFold(h, objects, I)
  PROVE  g[I] = h[I]
<1>. DEFINE P == {s \in SUBSET I : g[s] # h[s]}
<1>. SUFFICES ASSUME P # {} PROVE FALSE
  OBVIOUS
<1>1. PICK T \in P : \A U \in SUBSET T : U # T => U \notin P
  <2>1. P \in SUBSET (SUBSET I)
    OBVIOUS
  <2>. HIDE DEF P
  <2>. QED  BY <2>1, LeastSet
<1>2. T \in SUBSET I /\ g[T] # h[T]
  OBVIOUS
<1>3. T # {}
  BY <1>2 DEF IsFold
<1>. PICK x : x = CHOOSE y \in T : TRUE
  OBVIOUS
<1>4. x \in T /\ T \ {x} \in SUBSET T /\ T \ {x} # T
  BY <1>3
<1>5. g[T \ {x}] = h[T \ {x}]
  BY <1>1, <1>2, <1>4
<1>. HIDE DEF P
<1>6. g[T] = objects[x].size + g[T \ {x}] /\ h[T] = objects[x].size + h[T \ {x}]
  BY <1>2, <1>3 DEF IsFold
<1>. QED  BY <1>2, <1>5, <1>6

(* The fold of sizes is the sum of sizes.                                  *)
LEMMA FoldIsSum ==
  ASSUME NEW objects, IsFiniteSet(DOMAIN objects), \A i \in DOMAIN objects : objects[i].size \in Int,
         NEW I \in SUBSET (DOMAIN objects)
  PROVE  (CHOOSE g : IsFold(g, objects, I))[I] = SumOver(Sizes(objects), I)
<1>. PICK f : f = Sizes(objects)
  OBVIOUS
<1>1. f \in [DOMAIN objects -> Int] /\ \A i \in DOMAIN objects : f[i] = objects[i].size
  BY DEF Sizes
<1>2. PICK h : Sums(h, DOMAIN objects, f)
  BY <1>1, SumsExist
<1>. DEFINE k == [s \in SUBSET I |-> h[s]]
<1>3. Sums(k, I, f)
  BY <1>2, SumsRestrict
<1>4. \A s \in SUBSET I : s # {} => Chosen(s) \in DOMAIN objects
  BY ChosenOne
<1>5. ASSUME NEW g, g \in [SUBSET I -> Int] PROVE IsFold(g, objects, I) <=> Sums(g, I, f)
  BY <1>1, <1>4, <1>5 DEF IsFold, Sums, Chosen
<1>6. k \in [SUBSET I -> Int]
  BY <1>3 DEF Sums
<1>. HIDE DEF k
<1>7. IsFold(k, objects, I)
  BY <1>3, <1>5, <1>6
<1>. PICK g : g = CHOOSE l : IsFold(l, objects, I)
  OBVIOUS
<1>8. IsFold(g, objects, I)
  BY <1>7
<1>9. IsFiniteSet(I) /\ I \in SUBSET I
  BY FS_Subset
<1>10. g[I] = k[I]
  BY <1>7, <1>8, <1>9, FoldsAgree
<1>11. SumOver(f, I) = k[I]
  <2>. PICK e : e = [i \in I |-> f[i]]
    OBVIOUS
  <2>1. e \in [I -> Int]
    BY <1>1
  <2>. QED  BY <1>3, <1>9, <2>1, SumOverThat
<1>. QED  BY <1>10, <1>11

(* The total that Prune starts from is the sum of what it has listed.      *)
LEMMA TotalSizeIs ==
  ASSUME NEW objects, IsFiniteSet(DOMAIN objects), \A i \in DOMAIN objects : objects[i].size \in Int
  PROVE  TotalSize(objects) = SumOver(Sizes(objects), DOMAIN objects)
<1>1. TotalSize(objects) = (CHOOSE g : IsFold(g, objects, DOMAIN objects))[DOMAIN objects]
  BY DEF TotalSize, FoldFunction, FoldFunctionOnSet, MapThenFoldSet, IsFold
<1>. QED  BY <1>1, FoldIsSum

(* And so are the sums that the property speaks of.                        *)
LEMMA ListedSumIs ==
  ASSUME IsFiniteSet(DOMAIN listed), \A i \in DOMAIN listed : listed[i].size \in Int,
         NEW I \in SUBSET (DOMAIN listed)
  PROVE  MapThenSumSet(LAMBDA i : listed[i].size, I) = SumOver(Sizes(listed), I)
<1>1. MapThenSumSet(LAMBDA i : listed[i].size, I) = (CHOOSE g : IsFold(g, listed, I))[I]
  BY DEF MapThenSumSet, MapThenFoldSet, IsFold
<1>. QED  BY <1>1, FoldIsSum

------------------------------------------------------------------------------
(* The order of the objects                                                *)
RecentInv ==
  recent \in Seq(Keys) /\ IsInjective(recent) /\ Range(recent) = {k \in Keys : dir[k] # 0}

(* Taking a key out of the list by recency leaves the others, in order.    *)
LEMMA WithoutFacts ==
  ASSUME recent \in Seq(Keys), IsInjective(recent), NEW k \in Keys
  PROVE  Without(k) \in Seq(Keys) /\ IsInjective(Without(k)) /\ Range(Without(k)) = Range(recent) \ {k}
<1>. PICK n \in Nat : n = Len(recent)
  OBVIOUS
<1>0. DOMAIN recent = 1..n /\ \A i \in 1..n : recent[i] \in Keys
  OBVIOUS
<1>1. CASE k \notin Range(recent)
  BY <1>1 DEF Without
<1>2. CASE k \in Range(recent)
  <2>. PICK p : p = Place(k)
    OBVIOUS
  <2>1. p \in 1..n /\ recent[p] = k
    <3>1. \E i \in DOMAIN recent : recent[i] = k
      BY <1>2 DEF Range
    <3>. QED  BY <1>0, <3>1 DEF Place
  <2>. DEFINE at_(i) == IF i < p THEN i ELSE i + 1
              W == [i \in 1..n - 1 |-> recent[at_(i)]]
  <2>2. Without(k) = W
    BY <1>2 DEF Without
  <2>3. \A i \in 1..n - 1 : at_(i) \in 1..n /\ at_(i) # p
    BY <2>1
  <2>4. \A i, j \in 1..n - 1 : at_(i) = at_(j) => i = j
    BY <2>1
  <2>5. \A m \in 1..n : m # p => \E i \in 1..n - 1 : at_(i) = m
    <3>. SUFFICES ASSUME NEW m \in 1..n, m # p PROVE \E i \in 1..n - 1 : at_(i) = m
      OBVIOUS
    <3>1. CASE m < p
      BY <2>1, <3>1
    <3>2. CASE m > p
      <4>1. m - 1 \in 1..n - 1 /\ at_(m - 1) = m
        BY <2>1, <3>2
      <4>. QED  BY <4>1
    <3>. QED  BY <2>1, <3>1, <3>2
  <2>. HIDE DEF at_
  <2>6. W \in Seq(Keys)
    <3>1. n - 1 \in Nat /\ W \in [1..n - 1 -> Keys]
      BY <1>0, <2>1, <2>3
    <3>. QED  BY <3>1
  <2>7. IsInjective(W)
    <3>1. \A i, j \in 1..n : recent[i] = recent[j] => i = j
      BY <1>0 DEF IsInjective
    <3>2. \A i, j \in 1..n - 1 : W[i] = W[j] => i = j
      BY <2>3, <2>4, <3>1
    <3>. QED  BY <3>2 DEF IsInjective
  <2>8. Range(W) = Range(recent) \ {k}
    <3>1. \A i \in 1..n - 1 : W[i] \in Range(recent) /\ W[i] # k
      BY <1>0, <2>1, <2>3 DEF Range, IsInjective
    <3>2. \A l \in Range(recent) : l # k => \E i \in 1..n - 1 : W[i] = l
      <4>. SUFFICES ASSUME NEW l \in Range(recent), l # k PROVE \E i \in 1..n - 1 : W[i] = l
        OBVIOUS
      <4>1. PICK m \in 1..n : recent[m] = l
        BY <1>0 DEF Range
      <4>2. m # p
        BY <2>1, <4>1
      <4>3. PICK i \in 1..n - 1 : at_(i) = m
        BY <2>5, <4>2
      <4>. QED  BY <4>1, <4>3
    <3>3. Range(W) = {W[i] : i \in 1..n - 1}
      BY DEF Range
    <3>. HIDE DEF W
    <3>. QED  BY <3>1, <3>2, <3>3
  <2>. QED  BY <2>2, <2>6, <2>7, <2>8
<1>. QED  BY <1>1, <1>2

(* Touching a key puts it last.                                            *)
LEMMA TouchedFacts ==
  ASSUME recent \in Seq(Keys), IsInjective(recent), NEW k \in Keys
  PROVE  Touched(k) \in Seq(Keys) /\ IsInjective(Touched(k)) /\ Range(Touched(k)) = Range(recent) \cup {k}
<1>. PICK s : s = Without(k)
  OBVIOUS
<1>1. s \in Seq(Keys) /\ IsInjective(s) /\ Range(s) = Range(recent) \ {k}
  BY WithoutFacts
<1>. PICK t : t = Append(s, k)
  OBVIOUS
<1>. PICK n \in Nat : n = Len(s)
  BY <1>1
<1>2. t \in Seq(Keys) /\ DOMAIN s = 1..n /\ DOMAIN t = 1..n + 1 /\ t[n + 1] = k /\ \A i \in 1..n : t[i] = s[i]
  BY <1>1
<1>3. \A i \in 1..n : s[i] \in Range(s)
  BY <1>2 DEF Range
<1>4. \A i \in 1..n : s[i] # k
  BY <1>1, <1>3
<1>5. IsInjective(t)
  <2>. SUFFICES ASSUME NEW i \in 1..n + 1, NEW j \in 1..n + 1, t[i] = t[j] PROVE i = j
    BY <1>2 DEF IsInjective
  <2>1. (i \in 1..n \/ i = n + 1) /\ (j \in 1..n \/ j = n + 1)
    OBVIOUS
  <2>2. \A a, b \in 1..n : s[a] = s[b] => a = b
    BY <1>1, <1>2 DEF IsInjective
  <2>. QED  BY <1>2, <1>4, <2>1, <2>2
<1>6. Range(t) = Range(s) \cup {k}
  <2>1. Range(t) = {t[i] : i \in 1..n + 1} /\ Range(s) = {s[i] : i \in 1..n}
    BY <1>2 DEF Range
  <2>2. 1..n + 1 = 1..n \cup {n + 1}
    OBVIOUS
  <2>3. ASSUME NEW l PROVE l \in Range(t) <=> l \in Range(s) \/ l = k
    BY <1>2, <2>1, <2>2
  <2>. QED  BY <2>3
<1>. QED  BY <1>1, <1>2, <1>5, <1>6 DEF Touched

(* A prune under way has removed the objects at the head of its list.      *)
Rest(l, i) == SumOver(Sizes(l), i..Len(l))

Objects == [key : Keys, size : Nat]

(* What is listed of an object.                                            *)
LEMMA ObjectTyped == \A o \in Objects : o.key \in Keys /\ o.size \in Nat /\ o.size \in Int
BY DEF Objects

ListTyped ==
  /\ listed \in Seq(Objects)
  /\ \A i, j \in DOMAIN listed : listed[i].key = listed[j].key => i = j
  /\ at \in 0..Len(listed) /\ old \in 0..Len(listed) /\ limit \in Nat

PruneInv == pc[Pruner] \in {"prune", "drop"} =>
  /\ ListTyped
  /\ removed = {listed[i].key : i \in 1..at}
  /\ \A i \in at + 1..Len(listed) : dir[listed[i].key] # 0
  /\ left = Rest(listed, at + 1)
  /\ at > old => limit > 0 /\ Rest(listed, at) > limit
  /\ pc[Pruner] = "drop" => ~Excess

(* The greatest of a finite set of numbers.                                *)
LEMMA MaxIs ==
  ASSUME NEW S \in SUBSET Int, NEW m \in S, \A y \in S : y <= m
  PROVE  Max(S) = m
<1>. PICK x : x = Max(S)
  OBVIOUS
<1>1. \E z \in S : \A y \in S : z >= y
  OBVIOUS
<1>2. x \in S /\ \A y \in S : x >= y
  BY <1>1 DEF Max
<1>. QED  BY <1>2

(* Sizes are numbers.                                                      *)
LEMMA SizeTyped ==
  ASSUME StoreTyped, NEW k \in Keys, dir[k] # 0
  PROVE  Size(k) \in Nat
<1>. PICK D : D = data[k][dir[k]]
  OBVIOUS
<1>1. D \in SUBSET (1..Parts)
  BY DEF StoreTyped, Whole
<1>2. CASE D = {}
  BY <1>2 DEF Size
<1>3. CASE D # {}
  <2>. DEFINE P == {n \in 0..Parts : \A d \in D : d <= n}
  <2>1. Parts \in P /\ P \in SUBSET Nat
    BY <1>1, BoundsAssumption
  <2>2. PICK n \in P : \A m \in P : ~ (m < n)
    <3>1. P # {} /\ P \in SUBSET Nat
      BY <2>1
    <3>. HIDE DEF P
    <3>2. \E x \in P : \A y \in P : ~ (<<y, x>> \in OpToRel(<, Nat))
      BY <3>1, NatLessThanWellFounded, WFMin
    <3>. QED  BY <3>1, <3>2 DEF OpToRel
  <2>3. n \in D
    <3>. SUFFICES ASSUME n \notin D PROVE FALSE
      OBVIOUS
    <3>1. \A d \in D : d <= n /\ d # n /\ d \in Nat /\ d >= 1
      BY <1>1, BoundsAssumption
    <3>2. n - 1 \in P
      BY <1>1, <1>3, <3>1, BoundsAssumption
    <3>. QED  BY <2>2, <3>2
  <2>4. Max(D) = n
    <3>1. D \in SUBSET Int /\ \A d \in D : d <= n
      BY <1>1
    <3>. QED  BY <2>3, <3>1, MaxIs
  <2>. QED  BY <1>3, <2>4 DEF Size
<1>. QED  BY <1>2, <1>3

(* Every step keeps the list by recency a list of the objects.             *)
LEMMA RecentStep ==
  ASSUME IInv, RecentInv, [Next]_vars
  PROVE  RecentInv'
<1>. USE DEF RecentInv
<1>0. StoreTyped /\ PlacesCoherent
  BY DEF IInv
<1>1. CASE UNCHANGED <<recent, dir>>
  BY <1>1
<1>2. ASSUME NEW w \in Workers, Create(w) PROVE RecentInv'
  <2>1. key[w] \in Keys
    BY <1>0, <1>2 DEF PlacesCoherent, Create
  <2>2. PICK f \in Files : dir' = [dir EXCEPT ![key[w]] = f]
    <3>1. dir[key[w]] = 0 => \E n \in Files : \A v \in Workers : ~Holds(v, key[w], n)
      BY <1>0, <1>2, FileIsFree DEF PlacesCoherent, Create
    <3>2. dir[key[w]] # 0 => dir[key[w]] \in Files
      BY <1>0, <2>1 DEF StoreTyped
    <3>. QED  BY <1>2, <3>1, <3>2 DEF Create
  <2>3. f # 0
    BY DEF Files
  <2>4. recent' = Touched(key[w])
    BY <1>2 DEF Create
  <2>5. {k \in Keys : dir'[k] # 0} = {k \in Keys : dir[k] # 0} \cup {key[w]}
    BY <1>0, <2>1, <2>2, <2>3 DEF StoreTyped
  <2>. QED  BY <2>1, <2>4, <2>5, TouchedFacts
<1>3. ASSUME NEW w \in Workers, WritePart(w) PROVE RecentInv'
  <2>1. key[w] \in Keys /\ file[w] \in Files /\ dir' = dir
    BY <1>0, <1>3 DEF PlacesCoherent, WritePart
  <2>2. CASE dir[key[w]] = file[w]
    <3>1. recent' = Touched(key[w]) /\ dir[key[w]] # 0
      BY <1>3, <2>1, <2>2 DEF WritePart, Files
    <3>. QED  BY <2>1, <3>1, TouchedFacts
  <2>3. CASE dir[key[w]] # file[w]
    BY <1>3, <2>1, <2>3 DEF WritePart
  <2>. QED  BY <2>2, <2>3
<1>4. ASSUME Remove, listed[at + 1].key \in Keys PROVE RecentInv'
  <2>. PICK k \in Keys : k = listed[at + 1].key
    BY <1>4
  <2>1. recent' = Without(k) /\ dir' = [dir EXCEPT ![k] = 0]
    BY <1>4 DEF Remove
  <2>2. {l \in Keys : dir'[l] # 0} = {l \in Keys : dir[l] # 0} \ {k}
    BY <1>0, <2>1 DEF StoreTyped
  <2>. QED  BY <2>1, <2>2, WithoutFacts
<1>5. ASSUME Remove, listed[at + 1].key \notin Keys PROVE RecentInv'
  <2>. PICK k : k = listed[at + 1].key
    OBVIOUS
  <2>1. recent' = Without(k) /\ dir' = [dir EXCEPT ![k] = 0] /\ k \notin Keys
    BY <1>5 DEF Remove
  <2>2. k \notin Range(recent)
    BY <2>1
  <2>. QED  BY <1>0, <2>1, <2>2 DEF Without, StoreTyped
<1>6. ASSUME NEW p \in Procs, Open(p) \/ Exit(p) \/ Crash(p) PROVE UNCHANGED <<recent, dir>>
  BY <1>6 DEF Open, Exit, Crash, Gone, diskVars
<1>7. ASSUME NEW w \in Workers, Work(w) PROVE Create(w) \/ WritePart(w) \/ UNCHANGED <<recent, dir>>
  BY <1>7 DEF Work, Lookup, OpenObject, RestorePart, RestoreEnds, Command, SaveFails, Register, Closes, diskVars
<1>8. ASSUME NEW x \in Actors, Marshal(x) \/ Truncate(x) \/ Flush(x) PROVE UNCHANGED <<recent, dir>>
  BY <1>8 DEF Marshal, Truncate, Flush, diskVars
<1>9. ASSUME Prune PROVE Remove \/ UNCHANGED <<recent, dir>>
  BY <1>9 DEF Prune, List, PruneEnds, DropIndexRefs, diskVars
<1>10. CASE UNCHANGED vars
  BY <1>10 DEF vars, diskVars
<1>. QED  BY <1>1, <1>2, <1>3, <1>4, <1>5, <1>6, <1>7, <1>8, <1>9, <1>10 DEF Next

(* While the pruner is at it, others leave its variables and all objects.  *)
LEMMA PruneFrame ==
  ASSUME PruneInv,
         \/ pc'[Pruner] \notin {"prune", "drop"}
         \/ /\ pc'[Pruner] = pc[Pruner] /\ UNCHANGED pruneVars
            /\ \A k \in Keys : dir[k] # 0 => dir'[k] # 0
  PROVE  PruneInv'
<1>. SUFFICES ASSUME pc[Pruner] \in {"prune", "drop"}, pc'[Pruner] = pc[Pruner], UNCHANGED pruneVars,
                     \A k \in Keys : dir[k] # 0 => dir'[k] # 0
              PROVE  PruneInv'
  BY DEF PruneInv
<1>1. UNCHANGED <<listed, old, limit, at, removed, left>>
  BY DEF pruneVars
<1>2. ListTyped /\ ListTyped'
  BY <1>1 DEF PruneInv, ListTyped
<1>3. \A i \in at + 1..Len(listed) : listed[i].key \in Keys
  <2>1. \A i \in at + 1..Len(listed) : listed[i] \in Objects
    BY <1>2 DEF ListTyped
  <2>. QED  BY <2>1, ObjectTyped
<1>4. \A i \in at + 1..Len(listed) : dir'[listed[i].key] # 0
  BY <1>3 DEF PruneInv
<1>6. Excess' = Excess
  BY <1>1 DEF Excess
<1>7. left' = Rest(listed', at' + 1) /\ (at' > old' => limit' > 0 /\ Rest(listed', at') > limit')
  BY <1>1 DEF PruneInv
<1>8. removed' = {listed'[i].key : i \in 1..at'}
  BY <1>1 DEF PruneInv
<1>. QED  BY <1>1, <1>2, <1>4, <1>6, <1>7, <1>8 DEF PruneInv

(* The sizes of what is listed add up.                                     *)
LEMMA RestFacts ==
  ASSUME NEW l \in Seq(Objects)
  PROVE  /\ IsFiniteSet(DOMAIN l) /\ \A i \in DOMAIN l : l[i].size \in Int
         /\ Sizes(l) \in [DOMAIN l -> Int]
         /\ \A i \in 1..Len(l) + 1 : Rest(l, i) \in Int
         /\ \A i \in 1..Len(l) : Rest(l, i) = l[i].size + Rest(l, i + 1)
<1>. PICK n \in Nat : n = Len(l)
  OBVIOUS
<1>1. DOMAIN l = 1..n /\ \A i \in 1..n : l[i].size \in Int
  <2>1. DOMAIN l = 1..n /\ \A i \in 1..n : l[i] \in Objects
    OBVIOUS
  <2>. QED  BY <2>1, ObjectTyped
<1>2. IsFiniteSet(DOMAIN l)
  BY <1>1, FS_Interval
<1>. PICK f : f = Sizes(l)
  OBVIOUS
<1>3. f \in [1..n -> Int] /\ \A i \in 1..n : f[i] = l[i].size
  BY <1>1 DEF Sizes
<1>a. IsFiniteSet(1..n)
  BY <1>1, <1>2
<1>4. /\ \A I \in SUBSET (1..n) : SumOver(f, I) \in Int
      /\ \A I \in SUBSET (1..n) : \A m \in I : SumOver(f, I) = f[m] + SumOver(f, I \ {m})
  <2>1. Summing(f, 1..n)
    BY <1>3, <1>a, SumFacts
  <2>. QED  BY <2>1 DEF Summing
<1>5. \A i \in 1..n + 1 : i..n \in SUBSET (1..n)
  OBVIOUS
<1>6. \A i \in 1..n + 1 : Rest(l, i) \in Int
  BY <1>4, <1>5 DEF Rest
<1>7. ASSUME NEW i \in 1..n PROVE Rest(l, i) = l[i].size + Rest(l, i + 1)
  <2>1. i \in i..n /\ (i..n) \ {i} = i + 1..n /\ i..n \in SUBSET (1..n)
    OBVIOUS
  <2>2. SumOver(f, i..n) = f[i] + SumOver(f, i + 1..n)
    BY <1>4, <2>1
  <2>. QED  BY <1>3, <2>2 DEF Rest
<1>. QED  BY <1>1, <1>2, <1>3, <1>6, <1>7

(* The list is made: nothing is removed, everything is left.               *)
LEMMA ListPrune ==
  ASSUME StoreTyped, RecentInv, List
  PROVE  PruneInv'
<1>1. /\ listed' = [i \in DOMAIN recent |-> [key |-> recent[i], size |-> Size(recent[i])]]
      /\ old' \in 0..Len(recent) /\ limit' \in {0} \cup Limits /\ at' = 0 /\ removed' = {}
      /\ left' = TotalSize(listed') /\ dir' = dir /\ pc' = [pc EXCEPT ![Pruner] = "prune"]
  BY DEF List, diskVars, Goto
<1>. PICK n \in Nat : n = Len(recent)
  BY DEF RecentInv
<1>2. DOMAIN recent = 1..n /\ \A i \in 1..n : recent[i] \in Keys
  BY DEF RecentInv
<1>3. \A i \in 1..n : dir[recent[i]] # 0
  BY <1>2 DEF RecentInv, Range
<1>4. \A i \in 1..n : Size(recent[i]) \in Nat
  BY <1>2, <1>3, SizeTyped
<1>5. /\ listed' \in Seq(Objects) /\ Len(listed') = n /\ DOMAIN listed' = 1..n
      /\ \A i \in 1..n : listed'[i].key = recent[i]
  <2>1. \A i \in 1..n : [key |-> recent[i], size |-> Size(recent[i])] \in Objects
    BY <1>2, <1>4 DEF Objects
  <2>. QED  BY <1>1, <1>2, <2>1
<1>6. ListTyped'
  <2>1. \A i, j \in 1..n : listed'[i].key = listed'[j].key => i = j
    BY <1>2, <1>5 DEF RecentInv, IsInjective
  <2>2. limit' \in Nat /\ at' \in 0..n /\ old' \in 0..n
    BY <1>1, BoundsAssumption
  <2>. QED  BY <1>5, <2>1, <2>2 DEF ListTyped
<1>7. removed' = {listed'[i].key : i \in 1..at'}
  BY <1>1
<1>8. \A i \in at' + 1..Len(listed') : dir'[listed'[i].key] # 0
  BY <1>1, <1>3, <1>5
<1>9. left' = Rest(listed', at' + 1)
  <2>. PICK l : l = listed'
    OBVIOUS
  <2>1. IsFiniteSet(DOMAIN l) /\ \A i \in DOMAIN l : l[i].size \in Int
    <3>1. DOMAIN l = 1..n /\ IsFiniteSet(1..n)
      BY <1>5, FS_Interval
    <3>2. \A i \in 1..n : l[i].size \in Int
      BY <1>5, ObjectTyped
    <3>. QED  BY <3>1, <3>2
  <2>2. TotalSize(l) = SumOver(Sizes(l), DOMAIN l)
    BY <2>1, TotalSizeIs
  <2>3. at' + 1..Len(l) = DOMAIN l
    BY <1>1, <1>5
  <2>. QED  BY <1>1, <2>2, <2>3 DEF Rest
<1>10. ~ (at' > old')
  BY <1>1
<1>11. pc'[Pruner] = "prune"
  BY <1>1 DEF StoreTyped, Actors
<1>. QED  BY <1>6, <1>7, <1>8, <1>9, <1>10, <1>11 DEF PruneInv

(* One more is removed: what is left loses its size.                       *)
LEMMA RemovePrune ==
  ASSUME StoreTyped, PruneInv, Remove
  PROVE  PruneInv'
<1>1. /\ pc[Pruner] = "prune" /\ pc' = pc /\ Excess /\ UNCHANGED <<listed, old, limit>>
      /\ at' = at + 1 /\ dir' = [dir EXCEPT ![listed[at+1].key] = 0]
      /\ removed' = IF dir[listed[at+1].key] = 0 THEN removed ELSE removed \cup {listed[at+1].key}
      /\ left' = IF dir[listed[at+1].key] = 0 THEN left ELSE left - listed[at+1].size
  BY DEF Remove, Less
<1>2. /\ ListTyped /\ removed = {listed[i].key : i \in 1..at} /\ left = Rest(listed, at + 1)
      /\ \A i \in at + 1..Len(listed) : dir[listed[i].key] # 0
  BY <1>1 DEF PruneInv
<1>. PICK n \in Nat, m \in Nat : n = Len(listed) /\ m = at + 1
  BY <1>2 DEF ListTyped
<1>3. /\ listed \in Seq(Objects) /\ DOMAIN listed = 1..n /\ at \in 0..n /\ at = m - 1
      /\ m \in 1..n /\ old \in 0..n /\ limit \in Nat
      /\ \A i, j \in 1..n : listed[i].key = listed[j].key => i = j
      /\ \A i \in 1..n : listed[i].key \in Keys /\ listed[i].size \in Nat
  <2>1. \A i \in 1..n : listed[i] \in Objects
    BY <1>2 DEF ListTyped
  <2>2. at \in 0..n /\ at < n /\ m = at + 1
    BY <1>1, <1>2 DEF ListTyped, Excess
  <2>3. at = m - 1 /\ m \in 1..n
    BY <2>2
  <2>4. \A i \in 1..n : listed[i].key \in Keys /\ listed[i].size \in Nat
    BY <2>1, ObjectTyped
  <2>5. DOMAIN listed = 1..n /\ listed \in Seq(Objects) /\ old \in 0..n /\ limit \in Nat
    BY <1>2 DEF ListTyped
  <2>6. \A i, j \in 1..n : listed[i].key = listed[j].key => i = j
    BY <1>2, <2>5 DEF ListTyped
  <2>. QED  BY <2>2, <2>3, <2>4, <2>5, <2>6
<1>4. dir[listed[m].key] # 0
  BY <1>2, <1>3
<1>5. ListTyped'
  BY <1>1, <1>3 DEF ListTyped
<1>6. removed' = {listed[i].key : i \in 1..m}
  <2>1. 1..m = 1..at \cup {m}
    BY <1>3
  <2>2. removed' = removed \cup {listed[m].key}
    BY <1>1, <1>4
  <2>. QED  BY <1>2, <2>1, <2>2
<1>7. \A i \in m + 1..n : dir'[listed[i].key] # 0
  <2>. SUFFICES ASSUME NEW i \in m + 1..n PROVE dir'[listed[i].key] # 0
    OBVIOUS
  <2>1. i \in 1..n /\ i # m /\ listed[i].key # listed[m].key
    BY <1>3
  <2>2. dir[listed[i].key] # 0 /\ listed[i].key \in Keys
    BY <1>2, <1>3, <2>1
  <2>. QED  BY <1>1, <2>1, <2>2 DEF StoreTyped
<1>8. /\ Rest(listed, m) \in Int /\ Rest(listed, m + 1) \in Int /\ Rest(listed, m) = listed[m].size + Rest(listed, m + 1)
      /\ listed[m].size \in Nat
  BY <1>3, RestFacts
<1>9. left = Rest(listed, m) /\ left' = left - listed[m].size
  BY <1>1, <1>2, <1>4
<1>. PICK a, b, c : a = Rest(listed, m) /\ b = Rest(listed, m + 1) /\ c = listed[m].size
  OBVIOUS
<1>10. left' = Rest(listed, m + 1)
  <2>1. a \in Int /\ b \in Int /\ c \in Int /\ a = c + b /\ left' = a - c
    BY <1>8, <1>9
  <2>2. a - c = b
    BY <2>1
  <2>. QED  BY <2>1, <2>2
<1>11. m > old => limit > 0 /\ Rest(listed, m) > limit
  <2>1. m > old => ~ (at < old)
    BY <1>3
  <2>. QED  BY <1>1, <1>9, <2>1 DEF Excess
<1>13. pc'[Pruner] = "prune" /\ at' = m /\ Len(listed') = n
  BY <1>1
<1>14. left' = Rest(listed', at' + 1) /\ (at' > old' => limit' > 0 /\ Rest(listed', at') > limit')
  BY <1>1, <1>10, <1>11, <1>13
<1>. QED  BY <1>1, <1>5, <1>6, <1>7, <1>13, <1>14 DEF PruneInv

(* Every step keeps what is removed a prefix, and what is left its rest.   *)
LEMMA PruneStep ==
  ASSUME IInv, RecentInv, PruneInv, [Next]_vars
  PROVE  PruneInv'
<1>0. StoreTyped /\ Pruner \in Actors
  BY DEF IInv, Actors
<1>1. ASSUME NEW p \in Procs, Open(p) \/ Exit(p) \/ Crash(p) PROVE PruneInv'
  <2>1. Proc(Pruner) = Pruner
    BY DEF Proc
  <2>2. p = Pruner => pc'[Pruner] \notin {"prune", "drop"}
    BY <1>0, <1>1, <2>1 DEF Open, Exit, Crash, Gone
  <2>3. p # Pruner => pc'[Pruner] = pc[Pruner] /\ UNCHANGED pruneVars
    BY <1>0, <1>1, <2>1 DEF Open, Exit, Crash, Gone
  <2>4. dir' = dir
    BY <1>1 DEF Open, Exit, Crash, Gone, diskVars
  <2>. QED  BY <2>2, <2>3, <2>4, PruneFrame
<1>2. ASSUME NEW w \in Workers, Work(w) PROVE PruneInv'
  <2>1. w # Pruner
    BY NamesAssumption
  <2>2. pc'[Pruner] = pc[Pruner] /\ UNCHANGED pruneVars
    BY <1>0, <1>2, <2>1 DEF Work, Lookup, OpenObject, RestorePart, RestoreEnds, Command, Create, WritePart,
       SaveFails, Register, Goto, StoreTyped
  <2>3. \A k \in Keys : dir[k] # 0 => dir'[k] # 0
    <3>1. CASE Create(w)
      <4>1. \E f : dir' = [dir EXCEPT ![key[w]] = f] /\ (dir[key[w]] # 0 => f = dir[key[w]])
        BY <3>1 DEF Create
      <4>. QED  BY <1>0, <4>1 DEF StoreTyped
    <3>2. CASE dir' = dir
      BY <3>2
    <3>. QED  BY <1>2, <3>1, <3>2 DEF Work, Lookup, OpenObject, RestorePart, RestoreEnds, Command, WritePart,
              SaveFails, Register, Closes, diskVars
  <2>. QED  BY <2>2, <2>3, PruneFrame
<1>3. ASSUME NEW x \in Actors, Marshal(x) \/ Truncate(x) \/ Flush(x) PROVE PruneInv'
  <2>1. PICK q \in {"truncate", "flush", "over"} : pc' = [pc EXCEPT ![x] = q]
    BY <1>3 DEF Marshal, Truncate, Flush, Goto
  <2>2. dir' = dir /\ UNCHANGED pruneVars
    BY <1>3 DEF Marshal, Truncate, Flush, diskVars
  <2>3. x = Pruner => pc'[Pruner] \notin {"prune", "drop"}
    BY <1>0, <2>1 DEF StoreTyped
  <2>4. x # Pruner => pc'[Pruner] = pc[Pruner]
    BY <1>0, <2>1 DEF StoreTyped
  <2>. QED  BY <2>2, <2>3, <2>4, PruneFrame
<1>4. CASE List
  BY <1>0, <1>4, ListPrune
<1>5. CASE Remove
  BY <1>0, <1>5, RemovePrune
<1>6. CASE PruneEnds
  <2>1. /\ pc[Pruner] = "prune" /\ ~Excess /\ dir' = dir
        /\ \/ pc' = [pc EXCEPT ![Pruner] = "over"]
           \/ pc' = [pc EXCEPT ![Pruner] = "drop"] /\ UNCHANGED pruneVars
    BY <1>6 DEF PruneEnds, Goto, diskVars
  <2>2. CASE pc' = [pc EXCEPT ![Pruner] = "over"]
    <3>1. pc'[Pruner] = "over"
      BY <1>0, <2>2 DEF StoreTyped
    <3>. QED  BY <3>1 DEF PruneInv
  <2>3. CASE pc' = [pc EXCEPT ![Pruner] = "drop"] /\ UNCHANGED pruneVars
    <3>1. UNCHANGED <<listed, old, limit, at, removed, left, dir>>
      BY <2>1, <2>3 DEF pruneVars
    <3>2. ~Excess'
      BY <2>1, <3>1 DEF Excess
    <3>3. ListTyped'
      BY <2>1, <3>1 DEF PruneInv, ListTyped
    <3>4. left' = Rest(listed', at' + 1) /\ (at' > old' => limit' > 0 /\ Rest(listed', at') > limit')
      BY <2>1, <3>1 DEF PruneInv
    <3>5. /\ removed' = {listed'[i].key : i \in 1..at'}
          /\ \A i \in at' + 1..Len(listed') : dir'[listed'[i].key] # 0
      BY <2>1, <3>1 DEF PruneInv
    <3>. QED  BY <3>2, <3>3, <3>4, <3>5 DEF PruneInv
  <2>. QED  BY <2>1, <2>2, <2>3
<1>7. CASE DropIndexRefs
  <2>1. pc' = [pc EXCEPT ![Pruner] = "marshal"]
    BY <1>7 DEF DropIndexRefs, Goto
  <2>2. pc'[Pruner] = "marshal"
    BY <1>0, <2>1 DEF StoreTyped
  <2>. QED  BY <2>2 DEF PruneInv
<1>8. CASE UNCHANGED vars
  BY <1>8, PruneFrame DEF vars, diskVars
<1>. QED  BY <1>1, <1>2, <1>3, <1>4, <1>5, <1>6, <1>7, <1>8 DEF Next, Prune

(* Prune removes the objects at the head of its list, those that are too   *)
(* old and then as many as the limit takes: what is left fits, and with    *)
(* the last one that it removed for its size it would not have.            *)
THEOREM PrunesAreExact == Spec => []PruneIsExact
<1>1. Init => IInv /\ RecentInv /\ PruneInv
  <2>. SUFFICES ASSUME Init PROVE RecentInv /\ PruneInv
    BY InitIInv
  <2>1. recent = <<>> /\ \A k \in Keys : dir[k] = 0
    BY DEF Init
  <2>2. RecentInv
    BY <2>1 DEF RecentInv, IsInjective, Range
  <2>3. pc[Pruner] = "off"
    BY DEF Init, Actors
  <2>. QED  BY <2>2, <2>3 DEF PruneInv
<1>2. IInv /\ RecentInv /\ PruneInv /\ [Next]_vars => IInv' /\ RecentInv' /\ PruneInv'
  BY StepIInv, RecentStep, PruneStep
<1>3. PruneInv => PruneIsExact
  <2>. SUFFICES ASSUME PruneInv, pc[Pruner] = "drop" PROVE PruneIsExact
    BY DEF PruneIsExact
  <2>1. /\ ListTyped /\ removed = {listed[i].key : i \in 1..at} /\ left = Rest(listed, at + 1)
        /\ at > old => limit > 0 /\ Rest(listed, at) > limit
        /\ ~Excess
    BY DEF PruneInv
  <2>. PICK n \in Nat : n = Len(listed)
    BY <2>1 DEF ListTyped
  <2>2. /\ listed \in Seq(Objects) /\ DOMAIN listed = 1..n /\ at \in 0..n /\ old \in 0..n /\ limit \in Nat
        /\ \A i, j \in 1..n : listed[i].key = listed[j].key => i = j
    BY <2>1 DEF ListTyped
  <2>. DEFINE kept == {i \in DOMAIN listed : listed[i].key \notin removed}
              more == {i \in DOMAIN listed : i > old /\ i \notin kept}
  <2>3. kept = at + 1..n
    <3>1. \A i \in 1..n : listed[i].key \in removed <=> i \in 1..at
      BY <2>1, <2>2
    <3>. QED  BY <2>2, <3>1
  <2>4. more = old + 1..at
    <3>. HIDE DEF kept
    <3>. QED  BY <2>2, <2>3
  <2>. HIDE DEF kept, more
  <2>5. ASSUME NEW I \in SUBSET (1..n)
        PROVE  MapThenSumSet(LAMBDA i : listed[i].size, I) = SumOver(Sizes(listed), I)
    BY <2>2, RestFacts, ListedSumIs
  <2>6. MapThenSumSet(LAMBDA i : listed[i].size, kept) = left
    <3>1. kept \in SUBSET (1..n)
      BY <2>2, <2>3
    <3>. QED  BY <2>1, <2>3, <2>5, <3>1 DEF Rest
  <2>7. limit > 0 => left <= limit \/ at = n
    <3>1. left \in Int
      BY <2>1, <2>2, RestFacts
    <3>. QED  BY <2>1, <2>2, <3>1 DEF Excess
  <2>8. ASSUME more # {}
        PROVE  limit > 0 /\ MapThenSumSet(LAMBDA i : listed[i].size, kept \cup {Max(more)}) > limit
    <3>1. at > old
      BY <2>2, <2>4, <2>8
    <3>2. Max(more) = at
      <4>1. more \in SUBSET Int /\ at \in more /\ \A y \in more : y <= at
        BY <2>2, <2>4, <3>1
      <4>. QED  BY <4>1, MaxIs
    <3>3. kept \cup {at} = at..n /\ at..n \in SUBSET (1..n)
      BY <2>2, <2>3, <3>1
    <3>4. MapThenSumSet(LAMBDA i : listed[i].size, at..n) = Rest(listed, at)
      BY <2>5, <3>3 DEF Rest
    <3>. QED  BY <2>1, <3>1, <3>2, <3>3, <3>4
  <2>9. \A i \in more, j \in kept : j > old => i < j
    BY <2>2, <2>3, <2>4
  <2>. QED  BY <2>6, <2>7, <2>8, <2>9 DEF PruneIsExact, kept, more
<1>. QED  BY <1>1, <1>2, <1>3, PTL DEF Spec

=============================================================================
