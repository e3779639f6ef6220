--------------------------- MODULE ServicesProofs ---------------------------
(***************************************************************************)
(* Proofs of the safety properties of Services, for any jobs, runs, names  *)
(* and services.                                                           *)
(***************************************************************************)
EXTENDS Services, TLAPS

(* The users whose Stop has not begun.                                     *)
Building == Starting \cup {"idle", "up"}

(* The types that the proofs need.                                         *)
Types ==
  /\ netOf \in [Users -> Networks]
  /\ networks \subseteq Networks
  /\ owner \in [Containers -> Users \cup {None}]
  /\ pc \in [Users -> Places]
  /\ next \in [Users -> Nat \ {0}]
  /\ \A u \in Users : pc[u] \in {"running", "probe", "hung"} => next[u] \in DOMAIN Specs[u]
  /\ ids \in [Users -> Seq(Containers)] /\ left \in [Users -> Seq(Containers)]

(* A user starts and removes only containers of its network, and removes   *)
(* only what it has started.                                               *)
OwnNames ==
  \A u \in Users :
    /\ \A i \in DOMAIN ids[u] : ids[u][i][1] = netOf[u] /\ <<u, ids[u][i]>> \in started
    /\ \A i \in DOMAIN left[u] : left[u][i][1] = netOf[u] /\ <<u, left[u][i]>> \in started

(* A container is on the network of its owner, which is there.             *)
Attached ==
  \A c \in Containers : owner[c] # None => c[1] \in networks /\ c[1] = netOf[owner[c]]

(* UpIntact from the moment a service is started.                          *)
Kept ==
  \A u \in Users : pc[u] \in Building => \A i \in DOMAIN ids[u] :
    LET c == ids[u][i]
    IN  owner[c] = u \/ <<u, c>> \in died \/ \E v \in Users \ {u} : <<v, c>> \in started

(* Whoever has a container knows it, until it is removed, unless it is an  *)
(* orphan or the user was killed.                                          *)
Accounted ==
  \A u \in Users : \A c \in Containers : owner[c] = u =>
    \/ <<u, c>> \in orphans
    \/ pc[u] \in Starting \cup {"up", "stop"} /\ \E i \in DOMAIN ids[u] : ids[u][i] = c
    \/ pc[u] = "down" /\ \E i \in DOMAIN left[u] : left[u][i] = c
    \/ pc[u] = "killed" /\ netOf[u] \in tainted

OrphansTaint == \A u \in Users, c \in Containers : <<u, c>> \in orphans => c[1] \in tainted

(* A network is there because somebody is, or nobody is to remove it.      *)
Held ==
  \A n \in networks : n \in tainted \/ \E u \in Users : netOf[u] = n /\ pc[u] \in Active

IInv == Types /\ OwnNames /\ Attached /\ Kept /\ Accounted /\ OrphansTaint /\ Held

-----------------------------------------------------------------------------
(* A name of a service in hand is that of a container.                     *)
LEMMA NameType ==
  ASSUME Types, NEW u \in Users, next[u] \in DOMAIN Specs[u]
  PROVE  Name(u) \in Containers /\ Name(u)[1] = netOf[u]
BY SpecsAssumption DEF Types, Name, Containers

(* What is removed first, and what is left then.                           *)
LEMMA HeadTail ==
  ASSUME NEW S, NEW s \in Seq(S), s # <<>>
  PROVE  /\ Head(s) \in S /\ Tail(s) \in Seq(S)
         /\ Head(s) = s[1] /\ 1 \in DOMAIN s
         /\ \A i \in DOMAIN Tail(s) : i + 1 \in DOMAIN s /\ Tail(s)[i] = s[i + 1]
         /\ \A i \in DOMAIN s : s[i] = Head(s) \/ \E k \in DOMAIN Tail(s) : Tail(s)[k] = s[i]
<1>1. /\ Head(s) \in S /\ Tail(s) \in Seq(S)
      /\ Head(s) = s[1] /\ 1 \in DOMAIN s
      /\ \A i \in DOMAIN Tail(s) : i + 1 \in DOMAIN s /\ Tail(s)[i] = s[i + 1]
  OBVIOUS
<1>2. ASSUME NEW i \in DOMAIN s, s[i] # Head(s)
      PROVE  \E k \in DOMAIN Tail(s) : Tail(s)[k] = s[i]
  <2>1. i - 1 \in DOMAIN Tail(s) /\ Tail(s)[i - 1] = s[i]
    BY <1>2
  <2> QED BY <2>1
<1> QED BY <1>1, <1>2

LEMMA Appended ==
  ASSUME NEW S, NEW s \in Seq(S), NEW e \in S
  PROVE  /\ Append(s, e) \in Seq(S)
         /\ \A i \in DOMAIN s : i \in DOMAIN Append(s, e) /\ Append(s, e)[i] = s[i]
         /\ \A i \in DOMAIN Append(s, e) :
              Append(s, e)[i] = e \/ (i \in DOMAIN s /\ Append(s, e)[i] = s[i])
         /\ \E i \in DOMAIN Append(s, e) : Append(s, e)[i] = e
<1>1. Append(s, e) \in Seq(S) /\ DOMAIN Append(s, e) = 1..(Len(s) + 1) /\ DOMAIN s = 1..Len(s)
  OBVIOUS
<1>2. /\ Append(s, e)[Len(s) + 1] = e /\ Len(s) \in Nat
      /\ \A i \in 1..Len(s) : Append(s, e)[i] = s[i]
  OBVIOUS
<1>3. \E i \in DOMAIN Append(s, e) : Append(s, e)[i] = e
  <2>1. Len(s) + 1 \in DOMAIN Append(s, e)
    BY <1>1, <1>2
  <2> QED BY <2>1, <1>2
<1>4. \A i \in 1..(Len(s) + 1) : i = Len(s) + 1 \/ i \in 1..Len(s)
  BY <1>2
<1>5. \A i \in DOMAIN s : i \in DOMAIN Append(s, e) /\ Append(s, e)[i] = s[i]
  BY <1>1, <1>2
<1>6. \A i \in DOMAIN Append(s, e) :
        Append(s, e)[i] = e \/ (i \in DOMAIN s /\ Append(s, e)[i] = s[i])
  <2> SUFFICES ASSUME NEW i \in DOMAIN Append(s, e)
               PROVE  Append(s, e)[i] = e \/ (i \in DOMAIN s /\ Append(s, e)[i] = s[i])
    OBVIOUS
  <2>1. CASE i = Len(s) + 1
    BY <2>1, <1>2
  <2>2. CASE i \in 1..Len(s)
    BY <2>2, <1>1, <1>2
  <2> QED BY <2>1, <2>2, <1>1, <1>4
<1> QED BY <1>1, <1>3, <1>5, <1>6

LEMMA InitHolds == Init => IInv
<1> SUFFICES ASSUME Init PROVE IInv
  OBVIOUS
<1>1. Types
  BY NamingsAssumption, <<>> \in Seq(Containers) DEF Init, Types, Places
<1>2. \A c \in Containers : owner[c] = None
  BY DEF Init
<1>3. \A u \in Users : ids[u] = <<>> /\ left[u] = <<>> /\ pc[u] = "idle"
  BY DEF Init
<1>4. OwnNames
  BY <1>3 DEF OwnNames
<1>5. Attached /\ Accounted
  BY <1>2, NoneAssumption DEF Attached, Accounted
<1>6. Kept
  BY <1>3 DEF Kept, Building, Starting
<1>7. OrphansTaint /\ Held
  BY DEF Init, OrphansTaint, Held
<1> QED BY <1>1, <1>4, <1>5, <1>6, <1>7 DEF IInv

-----------------------------------------------------------------------------
(* The kinds of steps.                                                     *)

(* Nothing that concerns the invariant happens.                            *)
Rests == UNCHANGED <<netOf, networks, owner, pc, next, ids, left, started, died, orphans, tainted>>

(* StartServices goes on; it may have made the network, or removed one     *)
(* that nobody uses.                                                       *)
Walks(u) ==
  /\ pc[u] \in Starting \cup {"idle"}
  /\ \E p \in Starting \cup {"up"} : Goto(u, p) /\ (p \in {"running", "probe", "hung"} => next'[u] \in DOMAIN Specs[u])
  /\ \E k \in Nat \ {0} : next' = [next EXCEPT ![u] = k]
  /\ networks' \in {networks, networks \cup {Net(u)}, Without(Net(u))}
  /\ UNCHANGED <<netOf, owner, ids, left, started, died, orphans, tainted>>

(* It gives up, or the job ends.                                           *)
Leaves(u) ==
  /\ pc[u] \in Building
  /\ \E p \in {"stop", "down"} : GoStop(u, p)
  /\ networks' \in {networks, networks \cup {Net(u)}}
  /\ UNCHANGED <<netOf, owner, next, ids, started, died, orphans, tainted>>

LEMMA StepCases ==
  ASSUME Types, [Next]_vars
  PROVE  \/ Rests
         \/ \E u \in Users :
              Walks(u) \/ Leaves(u) \/ Running(u) \/ RunOrphans(u) \/ StopOne(u) \/ StopNetwork(u)
         \/ \E c \in Containers : Dies(c)
         \/ \E r \in Runs : Kill(r)
<1> USE DEF Types
<1>1. ASSUME NEW u \in Users, Start(u) \/ RemoveStale(u) \/ Created(u) \/ ProbeHangs(u) \/ ProbeKilled(u)
      PROVE  Walks(u)
  <2>1. \E p \in Starting \cup {"up"} : Goto(u, p) /\ (p \in {"running", "probe", "hung"} => next[u] \in DOMAIN Specs[u])
    BY <1>1 DEF Start, RemoveStale, Created, ProbeHangs, ProbeKilled, At, Building, Starting
  <2>2. pc[u] \in Starting \cup {"idle"}
    BY <1>1 DEF Start, RemoveStale, Created, ProbeHangs, ProbeKilled, At, Starting
  <2>3. next' = next /\ next' = [next EXCEPT ![u] = next[u]] /\ next[u] \in Nat \ {0}
    BY <1>1 DEF Start, RemoveStale, Created, ProbeHangs, ProbeKilled, userVars
  <2>4. /\ networks' \in {networks, networks \cup {Net(u)}, Without(Net(u))}
        /\ UNCHANGED <<netOf, owner, ids, left, started, died, orphans, tainted>>
    BY <1>1 DEF Start, RemoveStale, Created, ProbeHangs, ProbeKilled, engineVars, userVars, historyVars
  <2> QED BY <2>1, <2>2, <2>3, <2>4 DEF Walks
<1>2. ASSUME NEW u \in Users, Probed(u)
      PROVE  Walks(u)
  <2>1. \E p \in Starting \cup {"up"} : Goto(u, p) /\ p \notin {"running", "probe", "hung"}
    BY <1>2 DEF Probed, Starting
  <2>2. next[u] + 1 \in Nat \ {0} /\ next' = [next EXCEPT ![u] = next[u] + 1]
    BY <1>2 DEF Probed
  <2>3. pc[u] \in Starting \cup {"idle"}
    BY <1>2 DEF Probed, At, Starting
  <2>4. networks' = networks /\ UNCHANGED <<netOf, owner, ids, left, started, died, orphans, tainted>>
    BY <1>2 DEF Probed, engineVars
  <2> QED BY <2>1, <2>2, <2>3, <2>4 DEF Walks
<1>3. ASSUME NEW u \in Users, Create(u) \/ Run(u)
      PROVE  Walks(u) \/ Leaves(u)
  <2>1. CASE Create(u) /\ Canceled(u)
    BY <2>1 DEF Create, Leaves, At, Building, Starting, engineVars, historyVars
  <2>2. CASE Create(u) /\ ~Canceled(u)
    BY <2>2 DEF Create, Walks, At, Building, Starting, engineVars, historyVars
  <2>3. CASE Run(u) /\ ~AllStarted(u) /\ Canceled(u)
    BY <2>3 DEF Run, Leaves, At, Building, Starting, engineVars, historyVars
  <2>4. CASE Run(u) /\ AllStarted(u)
    BY <2>4 DEF Run, Walks, At, Building, Starting, engineVars, historyVars
  <2>5. CASE Run(u) /\ ~AllStarted(u) /\ ~Canceled(u)
    <3>1. next[u] \in DOMAIN Specs[u]
      BY <2>5, SpecsAssumption DEF AllStarted
    <3> QED BY <2>5, <3>1 DEF Run, Walks, At, Building, Starting, engineVars, historyVars
  <2> QED BY <1>3, <2>1, <2>2, <2>3, <2>4, <2>5
<1>4. ASSUME NEW u \in Users, CreateFails(u) \/ RunFails(u) \/ ProbeFails(u) \/ JobEnds(u)
      PROVE  Leaves(u)
  BY <1>4 DEF CreateFails, RunFails, ProbeFails, JobEnds, Leaves, At, Building, Starting,
              engineVars, historyVars
<1>5. ASSUME (\E u \in Users : Expire(u)) \/ (\E r \in Runs : Cancel(r)) \/ Finished \/ UNCHANGED vars
      PROVE  Rests
  BY <1>5 DEF Expire, Cancel, Finished, Rests, vars, engineVars, userVars, historyVars
<1>6. \A c \in Mortal : c \in Containers
  BY MortalAssumption
<1> QED BY <1>1, <1>2, <1>3, <1>4, <1>5, <1>6 DEF Next, Advance

-----------------------------------------------------------------------------
(* Each kind of step keeps the invariant.                                  *)

LEMMA RestsKeeps == IInv /\ Rests => IInv'
<1> SUFFICES ASSUME IInv, Rests PROVE IInv'
  OBVIOUS
<1>1. Types' /\ OwnNames'
  BY DEF Rests, IInv, Types, OwnNames
<1>2. Attached' /\ Kept'
  BY DEF Rests, IInv, Attached, Kept
<1>3. Accounted' /\ OrphansTaint' /\ Held'
  BY DEF Rests, IInv, Accounted, OrphansTaint, Held
<1> QED BY <1>1, <1>2, <1>3 DEF IInv

LEMMA WalksKeeps ==
  ASSUME IInv, NEW u \in Users, Walks(u)
  PROVE  IInv'
<1> USE DEF Walks, Goto
<1>0. PICK p \in Starting \cup {"up"} : pc' = [pc EXCEPT ![u] = p]
  OBVIOUS
<1>1. Types'
  BY DEF IInv, Types, Building, Starting, Places, Active, Net, Without
<1>2. OwnNames' /\ OrphansTaint'
  BY DEF IInv, OwnNames, OrphansTaint
<1>3. \A c \in Containers : owner[c] # None => c[1] \in networks'
  BY DEF IInv, Attached, Without, On
<1>4. Attached'
  BY <1>3 DEF IInv, Attached
<1>5. \A v \in Users : pc'[v] \in Building => pc[v] \in Building
  BY <1>0 DEF IInv, Types, Building
<1>6. Kept'
  BY <1>5 DEF IInv, Kept
<1>7. \A v \in Users : pc'[v] = pc[v] \/ (pc[v] \in Starting \cup {"idle"} /\ pc'[v] \in Starting \cup {"up"})
  BY <1>0 DEF IInv, Types
<1>8. Accounted'
  BY <1>7 DEF IInv, Accounted, Starting
<1>9. pc'[u] \in Active /\ \A v \in Users : v # u => pc'[v] = pc[v]
  BY <1>0 DEF IInv, Types, Active
<1>10. \A n \in networks' : n \in networks \/ n = netOf[u]
  BY DEF Without, Net
<1>11. Held'
  BY <1>9, <1>10 DEF IInv, Held
<1> QED BY <1>1, <1>2, <1>4, <1>6, <1>8, <1>11 DEF IInv

LEMMA LeavesKeeps ==
  ASSUME IInv, NEW u \in Users, Leaves(u)
  PROVE  IInv'
<1> USE DEF Leaves, GoStop, Goto
<1>0. PICK p \in {"stop", "down"} : pc' = [pc EXCEPT ![u] = p] /\ left' = [left EXCEPT ![u] = ids[u]]
  OBVIOUS
<1>1. Types'
  BY <1>0 DEF IInv, Types, Places, Active, Net
<1>2. OwnNames' /\ OrphansTaint'
  BY <1>0 DEF IInv, Types, OwnNames, OrphansTaint
<1>3. Attached'
  BY DEF IInv, Attached
<1>4. Kept'
  <2>1. \A v \in Users : pc'[v] \in Building => pc[v] \in Building
    BY <1>0 DEF IInv, Types, Building, Starting
  <2> QED BY <2>1 DEF IInv, Kept
<1>5. Accounted'
  <2>1. ASSUME NEW v \in Users, NEW c \in Containers, owner[c] = v, v # u
        PROVE  pc'[v] = pc[v] /\ left'[v] = left[v]
    BY <2>1, <1>0 DEF IInv, Types
  <2>2. pc[u] \in Building /\ pc'[u] \in {"stop", "down"} /\ left'[u] = ids[u]
    BY <1>0 DEF IInv, Types
  <2>3. /\ \A v \in Users, c \in Containers : owner'[c] = v <=> owner[c] = v
        /\ UNCHANGED <<netOf, ids, orphans, tainted>>
    OBVIOUS
  <2>4. \A c \in Containers : owner[c] = u =>
          <<u, c>> \in orphans \/ \E i \in DOMAIN ids[u] : ids[u][i] = c
    BY <2>2 DEF IInv, Accounted, Building, Starting
  <2>5. \A c \in Containers : owner'[c] = u =>
          \/ <<u, c>> \in orphans'
          \/ pc'[u] \in Starting \cup {"up", "stop"} /\ \E i \in DOMAIN ids'[u] : ids'[u][i] = c
          \/ pc'[u] = "down" /\ \E i \in DOMAIN left'[u] : left'[u][i] = c
    BY <2>2, <2>3, <2>4
  <2> QED BY <2>1, <2>3, <2>5 DEF IInv, Accounted
<1>6. pc'[u] \in Active /\ \A v \in Users : v # u => pc'[v] = pc[v]
  BY <1>0 DEF IInv, Types, Active
<1>7. Held'
  BY <1>6 DEF IInv, Held, Net
<1> QED BY <1>1, <1>2, <1>3, <1>4, <1>5, <1>7 DEF IInv

LEMMA RunningKeeps ==
  ASSUME IInv, NEW u \in Users, Running(u)
  PROVE  IInv'
<1> USE DEF Running, Goto
<1> DEFINE name == Name(u)
<1>0. /\ name \in Containers /\ name[1] = netOf[u] /\ owner[name] = None
      /\ next[u] \in DOMAIN Specs[u] /\ netOf[u] \in networks
  BY NameType DEF IInv, Types, At, Startable, Net
<1>1. /\ pc' = [pc EXCEPT ![u] = "probe"]
      /\ owner' = [owner EXCEPT ![name] = u]
      /\ ids' = [ids EXCEPT ![u] = Append(ids[u], name)]
      /\ started' = started \cup {<<u, name>>}
      /\ UNCHANGED <<netOf, networks, next, left, died, orphans, tainted>>
  BY DEF Noted
<1>a. pc[u] = "running"
  BY DEF At
<1> HIDE DEF name, Running
<1>2. /\ Append(ids[u], name) \in Seq(Containers)
      /\ \A i \in DOMAIN ids[u] : /\ i \in DOMAIN Append(ids[u], name)
                                  /\ Append(ids[u], name)[i] = ids[u][i]
      /\ \A i \in DOMAIN Append(ids[u], name) :
           Append(ids[u], name)[i] = name \/ (i \in DOMAIN ids[u] /\ Append(ids[u], name)[i] = ids[u][i])
      /\ \E i \in DOMAIN Append(ids[u], name) : Append(ids[u], name)[i] = name
  <2>1. ids[u] \in Seq(Containers)
    BY DEF IInv, Types
  <2>2. name \in Containers
    BY <1>0
  <2> QED BY <2>1, <2>2, Appended
<1>3. /\ ids'[u] = Append(ids[u], name)
      /\ \A v \in Users : v # u => ids'[v] = ids[v] /\ pc'[v] = pc[v]
      /\ pc'[u] = "probe" /\ pc[u] = "running"
      /\ owner'[name] = u
      /\ \A c \in Containers : c # name => owner'[c] = owner[c]
  BY <1>0, <1>1, <1>a DEF IInv, Types
<1>4. Types'
  BY <1>0, <1>1, <1>2 DEF IInv, Types, Places, Active, Starting
<1>5. OwnNames' /\ OrphansTaint'
  <2>1. \A i \in DOMAIN ids'[u] : ids'[u][i][1] = netOf[u] /\ <<u, ids'[u][i]>> \in started'
    BY <1>0, <1>1, <1>2, <1>3 DEF IInv, OwnNames
  <2>2. ASSUME NEW v \in Users, v # u, NEW i \in DOMAIN ids'[v]
        PROVE  ids'[v][i][1] = netOf[v] /\ <<v, ids'[v][i]>> \in started'
    <3>1. ids'[v] = ids[v]
      BY <2>2, <1>3
    <3>2. ids[v][i][1] = netOf[v] /\ <<v, ids[v][i]>> \in started
      BY <2>2, <3>1 DEF IInv, OwnNames
    <3> QED BY <3>1, <3>2, <1>1
  <2>3. \A v \in Users : \A i \in DOMAIN left[v] :
          left[v][i][1] = netOf[v] /\ <<v, left[v][i]>> \in started'
    BY <1>1 DEF IInv, OwnNames
  <2> QED BY <2>1, <2>2, <2>3, <1>1 DEF IInv, OwnNames, OrphansTaint
<1>6. Attached'
  BY <1>0, <1>1, <1>3 DEF IInv, Attached
<1>7. Kept'
  <2>1. ASSUME NEW v \in Users, pc'[v] \in Building, NEW i \in DOMAIN ids'[v], NEW c, c = ids'[v][i]
        PROVE  owner'[c] = v \/ <<v, c>> \in died \/ \E w \in Users \ {v} : <<w, c>> \in started'
    <3>0. (v = u /\ c = name) \/ (i \in DOMAIN ids[v] /\ c = ids[v][i])
      BY <2>1, <1>2, <1>3
    <3>1. CASE v = u /\ c = name
      BY <3>1, <1>3
    <3>2. CASE i \in DOMAIN ids[v] /\ c = ids[v][i] /\ c # name
      <4>1. pc[v] \in Building /\ c \in Containers
        BY <2>1, <3>2, <1>3 DEF IInv, Types, Building, Starting
      <4> QED BY <3>2, <4>1, <1>1, <1>3 DEF IInv, Kept
    <3>3. CASE v # u /\ i \in DOMAIN ids[v] /\ c = ids[v][i] /\ c = name
      BY <3>3, <1>1
    <3> QED BY <3>0, <3>1, <3>2, <3>3
  <2>2. ASSUME NEW v \in Users, pc'[v] \in Building, NEW i \in DOMAIN ids'[v]
        PROVE  LET d == ids'[v][i]
               IN  owner'[d] = v \/ <<v, d>> \in died' \/ \E w \in Users \ {v} : <<w, d>> \in started'
    BY <2>1, <2>2, <1>1
  <2> QED BY <2>2 DEF Kept
<1>8. Accounted'
  <2>1. ASSUME NEW v \in Users, NEW c \in Containers, owner'[c] = v, c # name
        PROVE  owner[c] = v
    BY <2>1, <1>3
  <2>2. \A c \in Containers : owner'[c] = u =>
          <<u, c>> \in orphans' \/ \E i \in DOMAIN ids'[u] : ids'[u][i] = c
    BY <2>1, <1>1, <1>2, <1>3 DEF IInv, Accounted
  <2> QED BY <2>1, <2>2, <1>1, <1>3 DEF IInv, Accounted, Building, Starting
<1>9. Held'
  BY <1>1, <1>3 DEF IInv, Held, Active, Starting
<1> QED BY <1>4, <1>5, <1>6, <1>7, <1>8, <1>9 DEF IInv

LEMMA RunOrphansKeeps ==
  ASSUME IInv, NEW u \in Users, RunOrphans(u)
  PROVE  IInv'
<1> DEFINE name == Name(u)
<1>0. /\ name \in Containers /\ name[1] = netOf[u] /\ owner[name] = None /\ netOf[u] \in networks
  BY NameType DEF RunOrphans, IInv, Types, At, Startable, Net
<1>1. /\ pc' = [pc EXCEPT ![u] = "stop"] /\ pc[u] = "running"
      /\ left' = [left EXCEPT ![u] = ids[u]]
      /\ owner' = [owner EXCEPT ![name] = u]
      /\ orphans' = orphans \cup {<<u, name>>}
      /\ tainted' = tainted \cup {netOf[u]}
      /\ UNCHANGED <<netOf, networks, next, ids, started, died>>
  BY DEF RunOrphans, GoStop, Goto, At, Net
<1> HIDE DEF name
<1>2. /\ \A v \in Users : v # u => left'[v] = left[v] /\ pc'[v] = pc[v]
      /\ pc'[u] = "stop" /\ left'[u] = ids[u]
      /\ owner'[name] = u
      /\ \A c \in Containers : c # name => owner'[c] = owner[c]
  BY <1>0, <1>1 DEF IInv, Types
<1>3. Types'
  BY <1>0, <1>1 DEF IInv, Types, Places, Active
<1>4. OwnNames'
  BY <1>1, <1>2 DEF IInv, OwnNames
<1>5. OrphansTaint'
  BY <1>0, <1>1 DEF IInv, OrphansTaint
<1>6. Attached'
  BY <1>0, <1>1, <1>2 DEF IInv, Attached
<1>7. Kept'
  <2>1. ASSUME NEW v \in Users, pc'[v] \in Building, NEW i \in DOMAIN ids[v], NEW c, c = ids[v][i]
        PROVE  owner'[c] = v \/ <<v, c>> \in died \/ \E w \in Users \ {v} : <<w, c>> \in started
    <3>1. pc[v] \in Building /\ c \in Containers
      BY <2>1, <1>2 DEF IInv, Types, Building, Starting
    <3>2. owner[c] = v \/ <<v, c>> \in died \/ \E w \in Users \ {v} : <<w, c>> \in started
      BY <2>1, <3>1 DEF IInv, Kept
    <3>3. owner[c] = v => owner'[c] = v
      BY <3>1, <1>0, <1>2, NoneAssumption
    <3> QED BY <3>2, <3>3
  <2>2. ASSUME NEW v \in Users, pc'[v] \in Building, NEW i \in DOMAIN ids'[v]
        PROVE  LET d == ids'[v][i]
               IN  owner'[d] = v \/ <<v, d>> \in died' \/ \E w \in Users \ {v} : <<w, d>> \in started'
    BY <2>1, <2>2, <1>1
  <2> QED BY <2>2 DEF Kept
<1>8. Accounted'
  <2>1. ASSUME NEW v \in Users, NEW c \in Containers, owner'[c] = v, <<v, c>> \notin orphans'
        PROVE  owner[c] = v
    BY <2>1, <1>1, <1>2
  <2>2. \A c \in Containers : owner'[c] = u =>
          <<u, c>> \in orphans' \/ \E i \in DOMAIN ids[u] : ids[u][i] = c
    BY <2>1, <1>1 DEF IInv, Accounted
  <2>3. \A v \in Users, c \in Containers : v # u /\ owner'[c] = v => owner[c] = v
    BY <1>2
  <2> QED BY <2>2, <2>3, <1>1, <1>2 DEF IInv, Accounted
<1>9. Held'
  BY <1>1, <1>2 DEF IInv, Held, Active
<1> QED BY <1>3, <1>4, <1>5, <1>6, <1>7, <1>8, <1>9 DEF IInv

LEMMA StopOneKeeps ==
  ASSUME IInv, NEW u \in Users, StopOne(u)
  PROVE  IInv'
<1> DEFINE first == Head(left[u])
<1>0. /\ first \in Containers /\ Tail(left[u]) \in Seq(Containers)
      /\ first = left[u][1] /\ 1 \in DOMAIN left[u]
      /\ \A i \in DOMAIN Tail(left[u]) : i + 1 \in DOMAIN left[u] /\ Tail(left[u])[i] = left[u][i + 1]
      /\ \A i \in DOMAIN left[u] :
           left[u][i] = first \/ \E k \in DOMAIN Tail(left[u]) : Tail(left[u])[k] = left[u][i]
  <2>1. left[u] \in Seq(Containers) /\ left[u] # <<>>
    BY DEF StopOne, IInv, Types
  <2> QED BY <2>1, HeadTail
<1>1. /\ pc[u] \in {"stop", "down"}
      /\ left' = [left EXCEPT ![u] = Tail(left[u])]
      /\ owner' = owner \/ owner' = [owner EXCEPT ![first] = None]
      /\ pc[u] = "down" => owner' = [owner EXCEPT ![first] = None]
      /\ UNCHANGED <<netOf, pc, networks, next, ids, started, died, orphans, tainted>>
  BY DEF StopOne, Effective, historyVars
<1> HIDE DEF first
<1>2. /\ \A v \in Users : v # u => left'[v] = left[v]
      /\ left'[u] = Tail(left[u])
      /\ \A c \in Containers : owner'[c] = owner[c] \/ (owner'[c] = None /\ c = first)
      /\ pc[u] = "down" => owner'[first] = None
  BY <1>0, <1>1 DEF IInv, Types
<1>3. first[1] = netOf[u] /\ <<u, first>> \in started
  BY <1>0 DEF IInv, OwnNames
<1>4. Types'
  BY <1>0, <1>1 DEF IInv, Types
<1>5. OwnNames'
  <2>1. \A i \in DOMAIN Tail(left[u]) :
          Tail(left[u])[i][1] = netOf[u] /\ <<u, Tail(left[u])[i]>> \in started
    <3> SUFFICES ASSUME NEW i \in DOMAIN Tail(left[u]), NEW e, e = Tail(left[u])[i]
                 PROVE  e[1] = netOf[u] /\ <<u, e>> \in started
      OBVIOUS
    <3>1. \E k \in DOMAIN left[u] : e = left[u][k]
      BY <1>0
    <3> QED BY <3>1 DEF IInv, OwnNames
  <2>2. \A v \in Users : \A i \in DOMAIN left'[v] :
          left'[v][i][1] = netOf[v] /\ <<v, left'[v][i]>> \in started
    <3>1. \A v \in Users : v # u => \A i \in DOMAIN left[v] :
            left[v][i][1] = netOf[v] /\ <<v, left[v][i]>> \in started
      BY DEF IInv, OwnNames
    <3> SUFFICES ASSUME NEW v \in Users, NEW s, s = left'[v], NEW i \in DOMAIN s
                 PROVE  s[i][1] = netOf[v] /\ <<v, s[i]>> \in started
      OBVIOUS
    <3>2. CASE v = u
      BY <3>2, <2>1, <1>2
    <3>3. CASE v # u
      BY <3>3, <3>1, <1>2
    <3> QED BY <3>2, <3>3
  <2> QED BY <2>2, <1>1 DEF IInv, OwnNames
<1>6. Attached' /\ OrphansTaint' /\ Held'
  <2>1. Attached'
    BY <1>1, <1>2 DEF IInv, Attached
  <2> QED BY <2>1, <1>1 DEF IInv, OrphansTaint, Held
<1>7. Kept'
  <2>1. ASSUME NEW v \in Users, pc[v] \in Building, NEW i \in DOMAIN ids[v], NEW c, c = ids[v][i]
        PROVE  owner'[c] = v \/ <<v, c>> \in died \/ \E w \in Users \ {v} : <<w, c>> \in started
    <3>1. v # u /\ c \in Containers
      BY <2>1, <1>1 DEF IInv, Types, Building, Starting
    <3>2. owner[c] = v \/ <<v, c>> \in died \/ \E w \in Users \ {v} : <<w, c>> \in started
      BY <2>1 DEF IInv, Kept
    <3> QED BY <3>1, <3>2, <1>2, <1>3
  <2>2. ASSUME NEW v \in Users, pc'[v] \in Building, NEW i \in DOMAIN ids'[v]
        PROVE  LET d == ids'[v][i]
               IN  owner'[d] = v \/ <<v, d>> \in died' \/ \E w \in Users \ {v} : <<w, d>> \in started'
    BY <2>1, <2>2, <1>1
  <2> QED BY <2>2 DEF Kept
<1>8. Accounted'
  <2>1. \A v \in Users, c \in Containers : owner'[c] = v => owner[c] = v
    BY <1>2, NoneAssumption
  <2>2. ASSUME pc[u] = "down", NEW c \in Containers, owner'[c] = u
        PROVE  <<u, c>> \in orphans \/ \E k \in DOMAIN Tail(left[u]) : Tail(left[u])[k] = c
    <3>1. c # first /\ owner[c] = u
      BY <2>1, <2>2, <1>2, NoneAssumption
    <3>2. <<u, c>> \in orphans \/ \E i \in DOMAIN left[u] : left[u][i] = c
      BY <2>2, <3>1 DEF IInv, Accounted, Building, Starting
    <3> QED BY <3>1, <3>2, <1>0
  <2>3. pc[u] # "killed"
    BY <1>1
  <2> QED BY <2>1, <2>2, <2>3, <1>1, <1>2 DEF IInv, Accounted
<1> QED BY <1>4, <1>5, <1>6, <1>7, <1>8 DEF IInv

LEMMA StopNetworkKeeps ==
  ASSUME IInv, NEW u \in Users, StopNetwork(u)
  PROVE  IInv'
<1>0. /\ left[u] = <<>>
      /\ \/ pc[u] = "stop" /\ pc' = [pc EXCEPT ![u] = "down"] /\ left' = [left EXCEPT ![u] = ids[u]]
         \/ pc[u] = "down" /\ pc' = [pc EXCEPT ![u] = "over"] /\ left' = left
      /\ networks' = networks \/ networks' = Without(netOf[u])
      /\ pc[u] = "down" => networks' = Without(netOf[u])
      /\ UNCHANGED <<netOf, owner, next, ids, started, died, orphans, tainted>>
  BY DEF StopNetwork, GoStop, Goto, At, Effective, Net, historyVars
<1>1. /\ \A v \in Users : v # u => left'[v] = left[v] /\ pc'[v] = pc[v]
      /\ \/ pc[u] = "stop" /\ pc'[u] = "down" /\ left'[u] = ids[u]
         \/ pc[u] = "down" /\ pc'[u] = "over" /\ left'[u] = left[u]
  BY <1>0 DEF IInv, Types
<1>2. networks' \subseteq networks /\ \A n \in networks \ networks' : n = netOf[u] /\ On(n) = {}
  BY <1>0 DEF Without
<1>3. Types'
  BY <1>0, <1>2 DEF IInv, Types, Places, Active
<1>4. OwnNames' /\ OrphansTaint'
  <2>1. \A v \in Users : left'[v] = left[v] \/ left'[v] = ids[v]
    BY <1>1
  <2>2. OwnNames'
    BY <2>1, <1>0 DEF IInv, OwnNames
  <2> QED BY <2>2, <1>0 DEF IInv, OrphansTaint
<1>5. Attached'
  BY <1>0, <1>2 DEF IInv, Attached, On
<1>6. Kept'
  <2>1. \A v \in Users : pc'[v] \in Building => pc[v] \in Building
    BY <1>1 DEF Building, Starting
  <2> QED BY <2>1, <1>0 DEF IInv, Kept
<1>7. Accounted'
  <2>1. \A c \in Containers : pc[u] = "down" /\ owner[c] = u => <<u, c>> \in orphans
    BY <1>0 DEF IInv, Accounted, Building, Starting
  <2>2. \A c \in Containers : pc[u] = "stop" /\ owner[c] = u =>
          <<u, c>> \in orphans \/ \E i \in DOMAIN ids[u] : ids[u][i] = c
    BY DEF IInv, Accounted
  <2> QED BY <2>1, <2>2, <1>0, <1>1 DEF IInv, Accounted
<1>8. Held'
  <2>1. CASE pc[u] = "stop"
    BY <2>1, <1>0, <1>1, <1>2 DEF IInv, Held, Active
  <2>2. ASSUME pc[u] = "down", NEW n \in networks', n \notin tainted
        PROVE  \E v \in Users : netOf[v] = n /\ pc'[v] \in Active
    <3>1. CASE n # netOf[u]
      <4>1. PICK v \in Users : netOf[v] = n /\ pc[v] \in Active
        BY <2>2, <1>2 DEF IInv, Held
      <4>2. pc'[v] = pc[v]
        BY <3>1, <4>1, <1>1
      <4> QED BY <4>1, <4>2
    (* Somebody else's container keeps the network of u from being removed. *)
    <3>2. CASE n = netOf[u]
      <4>1. PICK c \in Containers : c[1] = n /\ owner[c] # None
        BY <2>2, <3>2, <1>0 DEF Without, On
      <4>2. PICK v \in Users : owner[c] = v
        BY <4>1 DEF IInv, Types
      <4>3. netOf[v] = n
        BY <4>1, <4>2 DEF IInv, Attached
      <4>4. <<v, c>> \notin orphans
        BY <2>2, <4>1 DEF IInv, OrphansTaint
      <4>5. v # u
        BY <4>2, <4>4, <2>2, <1>0 DEF IInv, Accounted, Building, Starting
      <4>6. pc[v] \in Active \cup {"idle"}
        BY <4>2, <4>3, <4>4, <2>2 DEF IInv, Accounted, Building, Active
      <4>7. pc[v] # "idle"
        BY <4>2, <4>4 DEF IInv, Accounted, Starting
      <4> QED BY <4>3, <4>5, <4>6, <4>7, <1>1
    <3> QED BY <3>1, <3>2
  <2> QED BY <2>1, <2>2, <1>0 DEF Held
<1> QED BY <1>3, <1>4, <1>5, <1>6, <1>7, <1>8 DEF IInv

LEMMA DiesKeeps ==
  ASSUME IInv, NEW c \in Containers, Dies(c)
  PROVE  IInv'
<1>1. /\ owner' = [owner EXCEPT ![c] = None]
      /\ died' = died \cup {<<owner[c], c>>}
      /\ UNCHANGED <<netOf, pc, networks, next, ids, left, started, orphans, tainted>>
  BY DEF Dies, userVars
<1>2. /\ owner'[c] = None
      /\ \A d \in Containers : d # c => owner'[d] = owner[d]
  BY <1>1 DEF IInv, Types
<1>3. Types'
  BY <1>1 DEF IInv, Types
<1>4. OwnNames' /\ OrphansTaint' /\ Held'
  BY <1>1 DEF IInv, OwnNames, OrphansTaint, Held
<1>5. Attached'
  BY <1>1, <1>2 DEF IInv, Attached
<1>6. Kept'
  <2>1. ASSUME NEW v \in Users, pc[v] \in Building, NEW i \in DOMAIN ids[v], NEW d, d = ids[v][i]
        PROVE  owner'[d] = v \/ <<v, d>> \in died' \/ \E w \in Users \ {v} : <<w, d>> \in started
    <3>1. owner[d] = v \/ <<v, d>> \in died \/ \E w \in Users \ {v} : <<w, d>> \in started
      BY <2>1 DEF IInv, Kept
    <3>2. d \in Containers
      BY <2>1 DEF IInv, Types
    <3>3. owner[d] = v => owner'[d] = v \/ <<v, d>> \in died'
      BY <3>2, <1>1, <1>2
    <3> QED BY <3>1, <3>3, <1>1
  <2>2. ASSUME NEW v \in Users, pc'[v] \in Building, NEW i \in DOMAIN ids'[v]
        PROVE  LET d == ids'[v][i]
               IN  owner'[d] = v \/ <<v, d>> \in died' \/ \E w \in Users \ {v} : <<w, d>> \in started'
    BY <2>1, <2>2, <1>1
  <2> QED BY <2>2 DEF Kept
<1>7. Accounted'
  <2>1. \A v \in Users, d \in Containers : owner'[d] = v => owner[d] = v
    BY <1>2, NoneAssumption
  <2> QED BY <2>1, <1>1 DEF IInv, Accounted
<1> QED BY <1>3, <1>4, <1>5, <1>6, <1>7 DEF IInv

LEMMA KillKeeps ==
  ASSUME IInv, NEW r \in Runs, Kill(r)
  PROVE  IInv'
<1>1. /\ UNCHANGED <<netOf, networks, owner, next, ids, left, started, died, orphans>>
      /\ pc' \in [Users -> Places] /\ tainted \subseteq tainted'
      /\ \A u \in Users :
           \/ pc'[u] = pc[u]
           \/ pc'[u] = "killed" /\ pc[u] = "idle"
           \/ pc'[u] = "killed" /\ netOf[u] \in tainted'
  BY DEF Kill, IInv, Types, Places, engineVars, userVars, Net
<1>2. Types'
  BY <1>1 DEF IInv, Types
<1>3. OwnNames' /\ OrphansTaint' /\ Attached'
  BY <1>1 DEF IInv, OwnNames, OrphansTaint, Attached
<1>4. Kept'
  <2>1. \A v \in Users : pc'[v] \in Building => pc[v] \in Building
    BY <1>1 DEF Building, Starting
  <2> QED BY <2>1, <1>1 DEF IInv, Kept
<1>5. Accounted'
  <2>1. \A u \in Users, c \in Containers : pc[u] = "idle" /\ owner[c] = u => <<u, c>> \in orphans
    BY DEF IInv, Accounted, Starting
  <2> QED BY <2>1, <1>1 DEF IInv, Accounted
<1>6. Held'
  BY <1>1 DEF IInv, Held, Active, Starting
<1> QED BY <1>2, <1>3, <1>4, <1>5, <1>6 DEF IInv

-----------------------------------------------------------------------------
LEMMA NextHolds == IInv /\ [Next]_vars => IInv'
<1> SUFFICES ASSUME IInv, [Next]_vars PROVE IInv'
  OBVIOUS
<1>1. Types
  BY DEF IInv
<1> QED BY <1>1, StepCases, RestsKeeps, WalksKeeps, LeavesKeeps, RunningKeeps, RunOrphansKeeps,
           StopOneKeeps, StopNetworkKeeps, DiesKeeps, KillKeeps

THEOREM Invariance == Spec => []IInv
BY InitHolds, NextHolds, PTL DEF Spec

(* While the steps of a job run, its services and its network are there,   *)
(* unless one has ended by itself, or another job has started a service of *)
(* the very same name: however many jobs and runs start, fail, are         *)
(* canceled, killed or stop around it.                                     *)
THEOREM ServicesStayUp == Spec => []UpIntact
<1>1. IInv => UpIntact
  <2> SUFFICES ASSUME IInv, NEW u \in Users, pc[u] = "up", NEW i \in DOMAIN ids[u], NEW c, c = ids[u][i]
               PROVE  \/ owner[c] = u /\ netOf[u] \in networks
                      \/ <<u, c>> \in died
                      \/ \E v \in Users \ {u} : <<v, c>> \in started
    BY DEF UpIntact
  <2>1. owner[c] = u \/ <<u, c>> \in died \/ \E v \in Users \ {u} : <<v, c>> \in started
    BY DEF IInv, Kept, Building
  <2>2. owner[c] = u => netOf[u] \in networks
    <3>1. c \in Containers /\ c[1] = netOf[u]
      <4>1. c \in Containers
        BY DEF IInv, Types
      <4>2. ids[u][i][1] = netOf[u]
        BY DEF IInv, OwnNames
      <4> QED BY <4>1, <4>2
    <3> QED BY <3>1, NoneAssumption DEF IInv, Attached
  <2> QED BY <2>1, <2>2
<1> QED BY <1>1, Invariance, PTL

(* A job that is over has left no container behind but those whose client  *)
(* was killed, whichever way it took through StartServices and Stop.       *)
THEOREM NothingElseLeft == Spec => []OnlyOrphansLeft
<1>1. IInv => OnlyOrphansLeft
  BY DEF IInv, Accounted, OnlyOrphansLeft, Starting
<1> QED BY <1>1, Invariance, PTL

(* The last of the jobs that share a network removes it, whatever order    *)
(* they come and go in, if nothing was killed.                             *)
THEOREM NetworksAreRemoved == Spec => []NetworkRemoved
<1>1. IInv => NetworkRemoved
  BY DEF IInv, Held, NetworkRemoved, Active, Starting
<1> QED BY <1>1, Invariance, PTL

=============================================================================
