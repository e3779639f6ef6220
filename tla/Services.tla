------------------------------ MODULE Services ------------------------------
(***************************************************************************)
(* The sidecar services of jobs: StartServices, waitHealthy and Stop of    *)
(* internal/runner/services.go, as runJob calls them, and the container    *)
(* engine they talk to.                                                    *)
(*                                                                         *)
(* A user is the goroutine of a job that has services.  It makes a         *)
(* network and starts the services on it one after the other; the network  *)
(* and the containers have names, derived from that of the job, which      *)
(* other jobs and other runs on the machine may derive as well.  The       *)
(* commands of StartServices are killed when the context of the run is     *)
(* canceled; those of the teardown at the end are not.                     *)
(*                                                                         *)
(* Of the engine only this is assumed: names are unique, a network with a  *)
(* container on it is not removed, a container that ends is removed        *)
(* (--rm), and what is asked to be removed, is.                            *)
(***************************************************************************)
EXTENDS Naturals, Sequences, FiniteSets

CONSTANTS
  Users,     \* the jobs with services, of all runs
  Runs,      \* the processes
  RunOf,     \* the run that a user belongs to
  Networks,  \* names of networks
  Namings,   \* the functions from users to the names of their networks that
             \* are looked at: "ship-net-" and sanitizeName of the job id
  Sidecars,  \* names of services
  Specs,     \* JobPlan.Services of each user
  Checked,   \* the services with a Health command
  Mortal,    \* the containers that may end by themselves
  None       \* no user

ASSUME RunOfAssumption == RunOf \in [Users -> Runs]
ASSUME NamingsAssumption == Namings \subseteq [Users -> Networks]
ASSUME SpecsAssumption == Specs \in [Users -> Seq(Sidecars) \ {<<>>}]
ASSUME NoneAssumption == None \notin Users

Containers == Networks \X Sidecars

ASSUME MortalAssumption == Mortal \subseteq Containers

VARIABLES
  netOf,     \* the names in use; never changes
  networks,  \* the networks of the engine
  owner,     \* for each name of a container, the user who started it, if any
  pc,        \* where each user is
  next,      \* the service that StartServices is at
  ids,       \* Services.ids
  left,      \* the containers that Stop has yet to remove
  expired,   \* the users in waitHealthy whose deadline has passed
  canceled,  \* the runs whose context is canceled
  started,   \* history: <<user, container>>, it was started,
  answered,  \*   its health command succeeded,
  died,      \*   it ended by itself,
  orphans,   \*   it was started by a client that was killed;
  tainted    \*   the networks that a killed process or client left behind

engineVars == <<networks, owner>>
userVars == <<next, ids, left, expired>>
historyVars == <<started, answered, died, orphans, tainted>>
vars == <<netOf, pc, canceled, engineVars, userVars, historyVars>>

Starting == {"stale", "create", "creating", "run", "running", "probe", "hung"}
Active == Starting \cup {"stop", "up", "down"}
Places == Active \cup {"idle", "over", "killed"}

Canceled(u) == RunOf[u] \in canceled
Net(u) == netOf[u]
Name(u) == <<netOf[u], Specs[u][next[u]]>>

On(n) == {c \in Containers : c[1] = n /\ owner[c] # None}

At(u, place) == pc[u] = place
Goto(u, place) == pc' = [pc EXCEPT ![u] = place]

(* To Stop, in StartServices ("stop") or in runJob ("down").  (Slip: it    *)
(* removes everything that has the name of a service of the job.)          *)
GoStopAll(u, place) ==
  Goto(u, place) /\ left' = [left EXCEPT ![u] = [i \in DOMAIN Specs[u] |-> <<netOf[u], Specs[u][i]>>]]
GoStop(u, place) == Goto(u, place) /\ left' = [left EXCEPT ![u] = ids[u]]

(* network rm, when it is carried out.                                     *)
Without(n) == IF On(n) = {} THEN networks \ {n} ELSE networks

------------------------------------------------------------------------------
(* StartServices                                                           *)

Start(u) ==
  /\ At(u, "idle") /\ Goto(u, "stale")
  /\ UNCHANGED <<netOf, canceled, engineVars, userVars, historyVars>>

(* network rm; its failure is ignored.                                     *)
RemoveStale(u) ==
  /\ At(u, "stale") /\ Goto(u, "create")
  /\ networks' = IF Canceled(u) THEN networks ELSE Without(Net(u))
  /\ UNCHANGED <<netOf, owner, canceled, userVars, historyVars>>

(* A command is not begun if the context is canceled already.              *)
Create(u) ==
  /\ At(u, "create")
  /\ IF Canceled(u) THEN GoStop(u, "down") ELSE Goto(u, "creating") /\ UNCHANGED left
  /\ UNCHANGED <<netOf, canceled, engineVars, next, ids, expired, historyVars>>

Created(u) ==
  /\ At(u, "creating") /\ Net(u) \notin networks
  /\ Goto(u, "run")
  /\ networks' = networks \cup {Net(u)}
  /\ UNCHANGED <<netOf, owner, canceled, userVars, historyVars>>

(* The engine refuses, or the client is killed, perhaps too late.  There   *)
(* is no Stop here: runJob does it.                                        *)
CreateFails(u) ==
  /\ At(u, "creating")
  /\ GoStop(u, "down")
  /\ networks' \in {networks} \cup (IF Canceled(u) THEN {networks \cup {Net(u)}} ELSE {})
  /\ UNCHANGED <<netOf, owner, canceled, next, ids, expired, historyVars>>

AllStarted(u) == next[u] > Len(Specs[u])

(* The head of the loop over the services, and after it the job runs.      *)
Run(u) ==
  /\ At(u, "run")
  /\ \/ AllStarted(u) /\ Goto(u, "up") /\ UNCHANGED left
     \/ ~AllStarted(u) /\ Canceled(u) /\ GoStop(u, "stop")
     \/ ~AllStarted(u) /\ ~Canceled(u) /\ Goto(u, "running") /\ UNCHANGED left
  /\ UNCHANGED <<netOf, canceled, engineVars, next, ids, expired, historyVars>>

Startable(u) == owner[Name(u)] = None /\ Net(u) \in networks

(* Slip: a service that was started is not noted.                          *)
NotNoted(u) == ids[u]
Noted(u) == Append(ids[u], Name(u))

(* run -d                                                                  *)
Running(u) ==
  /\ At(u, "running") /\ Startable(u)
  /\ Goto(u, "probe")
  /\ owner' = [owner EXCEPT ![Name(u)] = u]
  /\ ids' = [ids EXCEPT ![u] = Noted(u)]
  /\ started' = started \cup {<<u, Name(u)>>}
  /\ UNCHANGED <<netOf, networks, canceled, next, left, expired, answered, died, orphans, tainted>>

RunFails(u) ==
  /\ At(u, "running") /\ GoStop(u, "stop")
  /\ UNCHANGED <<netOf, canceled, engineVars, next, ids, expired, historyVars>>

(* The client is killed when the engine has got the command already.       *)
RunOrphans(u) ==
  /\ At(u, "running") /\ Canceled(u) /\ Startable(u)
  /\ GoStop(u, "stop")
  /\ owner' = [owner EXCEPT ![Name(u)] = u]
  /\ orphans' = orphans \cup {<<u, Name(u)>>}
  /\ tainted' = tainted \cup {Net(u)}
  /\ UNCHANGED <<netOf, networks, canceled, next, ids, expired, started, answered, died>>

(* waitHealthy: the command exits with 0, or there is none.                *)
Healthy(u) ==
  \/ Specs[u][next[u]] \notin Checked
  \/ owner[Name(u)] # None /\ ~Canceled(u)

Probed(u) ==
  /\ At(u, "probe") /\ Healthy(u)
  /\ Goto(u, "run")
  /\ next' = [next EXCEPT ![u] = @ + 1]
  /\ answered' = IF owner[Name(u)] # None THEN answered \cup {<<u, Name(u)>>} ELSE answered
  /\ expired' = expired \ {u}
  /\ UNCHANGED <<netOf, canceled, engineVars, ids, left, started, died, orphans, tainted>>

(* A poll has failed; otherwise there is another one, one second later.    *)
GivesUp(u) == u \in expired \/ Canceled(u)

ProbeFails(u) ==
  /\ At(u, "probe") /\ Specs[u][next[u]] \in Checked
  /\ GivesUp(u)
  /\ GoStop(u, "stop")
  /\ expired' = expired \ {u}
  /\ UNCHANGED <<netOf, canceled, engineVars, next, ids, historyVars>>

(* The health command does not return; nothing but the end of its          *)
(* container or of the context makes it.  (Slip: it is run without the     *)
(* context.)                                                               *)
ReleasedByEnd(u) == owner[Name(u)] = None
Released(u) == Canceled(u) \/ owner[Name(u)] = None

ProbeHangs(u) ==
  /\ At(u, "probe") /\ Specs[u][next[u]] \in Checked
  /\ owner[Name(u)] # None /\ ~Canceled(u)
  /\ Goto(u, "hung")
  /\ UNCHANGED <<netOf, canceled, engineVars, userVars, historyVars>>
ProbeKilled(u) ==
  /\ At(u, "hung") /\ Released(u)
  /\ Goto(u, "probe")
  /\ UNCHANGED <<netOf, canceled, engineVars, userVars, historyVars>>

Expire(u) ==
  /\ pc[u] \in {"probe", "hung"} /\ u \notin expired
  /\ expired' = expired \cup {u}
  /\ UNCHANGED <<netOf, pc, canceled, engineVars, next, ids, left, historyVars>>

------------------------------------------------------------------------------
(* Stop, once with the context of the run and once with another            *)

(* Slip: runJob passes its own context.                                    *)
EffectiveInRun(u) == ~Canceled(u)
Effective(u) == pc[u] = "down" \/ ~Canceled(u)

StopOne(u) ==
  /\ pc[u] \in {"stop", "down"} /\ left[u] # <<>>
  /\ left' = [left EXCEPT ![u] = Tail(@)]
  /\ owner' = IF Effective(u) THEN [owner EXCEPT ![Head(left[u])] = None] ELSE owner
  /\ UNCHANGED <<netOf, pc, networks, canceled, next, ids, expired, historyVars>>

(* Then the network; after the Stop in StartServices comes that in runJob. *)
StopNetwork(u) ==
  /\ pc[u] \in {"stop", "down"} /\ left[u] = <<>>
  /\ networks' = IF Effective(u) THEN Without(Net(u)) ELSE networks
  /\ IF At(u, "stop") THEN GoStop(u, "down") ELSE Goto(u, "over") /\ UNCHANGED left
  /\ UNCHANGED <<netOf, owner, canceled, next, ids, expired, historyVars>>

(* The job has ended, in whatever way: the deferred Stop.                  *)
JobEnds(u) ==
  /\ At(u, "up") /\ GoStop(u, "down")
  /\ UNCHANGED <<netOf, canceled, engineVars, next, ids, expired, historyVars>>

------------------------------------------------------------------------------
(* The world                                                               *)

(* A service ends by itself, or somebody stops it.                         *)
Dies(c) ==
  /\ owner[c] # None
  /\ owner' = [owner EXCEPT ![c] = None]
  /\ died' = died \cup {<<owner[c], c>>}
  /\ UNCHANGED <<netOf, pc, networks, canceled, userVars, started, answered, orphans, tainted>>

Cancel(r) ==
  /\ r \notin canceled /\ canceled' = canceled \cup {r}
  /\ UNCHANGED <<netOf, pc, engineVars, userVars, historyVars>>

(* The process is killed.  What it has asked of the engine has come to an  *)
(* end, one way or the other.                                              *)
Kill(r) ==
  LET victims == {u \in Users : RunOf[u] = r /\ pc[u] \notin {"over", "killed"}}
      Idle == {u \in victims : pc[u] = "idle"}
  IN  /\ victims # {}
      /\ pc' = [u \in Users |-> IF u \in victims THEN "killed" ELSE pc[u]]
      /\ tainted' = tainted \cup {Net(u) : u \in victims \ Idle}
      /\ UNCHANGED <<netOf, canceled, engineVars, userVars, started, answered, died, orphans>>

Init ==
  /\ netOf \in Namings
  /\ networks = {} /\ owner = [c \in Containers |-> None]
  /\ pc = [u \in Users |-> "idle"]
  /\ next = [u \in Users |-> 1]
  /\ ids = [u \in Users |-> <<>>] /\ left = [u \in Users |-> <<>>]
  /\ expired = {} /\ canceled = {}
  /\ started = {} /\ answered = {} /\ died = {} /\ orphans = {} /\ tainted = {}

Advance(u) ==
  \/ RemoveStale(u) \/ Create(u) \/ Created(u) \/ CreateFails(u)
  \/ Run(u) \/ Running(u) \/ RunFails(u) \/ RunOrphans(u)
  \/ Probed(u) \/ ProbeFails(u) \/ ProbeKilled(u)
  \/ StopOne(u) \/ StopNetwork(u) \/ JobEnds(u)

Finished == (\A u \in Users : pc[u] \in {"over", "killed"}) /\ UNCHANGED vars

Next ==
  \/ \E u \in Users : Start(u) \/ Advance(u) \/ ProbeHangs(u) \/ Expire(u)
  \/ \E c \in Mortal : Dies(c)
  \/ \E r \in Runs : Cancel(r) \/ Kill(r)
  \/ Finished

(* Goroutines go on, engine commands end, a client that is killed is gone, *)
(* and the steps of a job end.  A health command need not return, nor a    *)
(* deadline pass.                                                          *)
Fairness == \A u \in Users : WF_vars(Advance(u))

Spec == Init /\ [][Next]_vars /\ Fairness

------------------------------------------------------------------------------
(* Properties                                                              *)

TypeOK ==
  /\ netOf \in Namings
  /\ networks \subseteq Networks
  /\ owner \in [Containers -> Users \cup {None}]
  /\ pc \in [Users -> Places]
  /\ next \in [Users -> Nat \ {0}]
  /\ \A u \in Users : pc[u] \in {"running", "probe", "hung"} => next[u] \in DOMAIN Specs[u]
  /\ ids \in [Users -> Seq(Containers)] /\ left \in [Users -> Seq(Containers)]
  /\ expired \subseteq Users /\ canceled \subseteq Runs
  /\ started \subseteq Users \X Containers /\ answered \subseteq started
  /\ died \subseteq Users \X Containers /\ orphans \subseteq Users \X Containers
  /\ tainted \subseteq Networks

(* The steps of a job begin when all its services have been started and    *)
(* all that can be asked have answered, however slow the others on the     *)
(* machine are and whenever the run is canceled.                           *)
ServedWhenUp ==
  \A u \in Users : pc[u] = "up" => \A i \in DOMAIN Specs[u] :
    LET c == <<netOf[u], Specs[u][i]>>
    IN  <<u, c>> \in started /\ (Specs[u][i] \in Checked => <<u, c>> \in answered)

(* Nobody takes the services or the network of a job away while its steps  *)
(* run: not a job that starts, fails to start or stops, even one of        *)
(* another run with the same names, unless it had started a service of     *)
(* that very name itself.                                                  *)
UpIntact ==
  \A u \in Users : pc[u] = "up" => \A i \in DOMAIN ids[u] :
    LET c == ids[u][i]
    IN  \/ owner[c] = u /\ netOf[u] \in networks
        \/ <<u, c>> \in died
        \/ \E v \in Users \ {u} : <<v, c>> \in started

(* A job that is over has left no container behind, whether it ran or its  *)
(* start failed or was canceled half-way, but for those whose client was   *)
(* killed before it could say that they were there.                        *)
OnlyOrphansLeft ==
  \A u \in Users : pc[u] = "over" =>
    \A c \in Containers : owner[c] = u => <<u, c>> \in orphans

(* When none of the jobs that share a network is around, the network is    *)
(* gone, in whatever order they came and went, if nothing was killed.      *)
NetworkRemoved ==
  \A n \in networks :
    (\A u \in Users : netOf[u] = n => pc[u] \in {"idle", "over"}) => n \in tainted

(* The start of services ends when the run is canceled, and all is torn    *)
(* down, also if a health command hangs.                                   *)
CancelEnds ==
  \A u \in Users : (pc[u] \in Active /\ Canceled(u)) ~> pc[u] \in {"over", "killed"}

==============================================================================
