---------------------------- MODULE GrainCluster ----------------------------
(***************************************************************************)
(* Several nodes: the configuration each one is loaded with, the grains    *)
(* that are activated on it and its registry of them, and the list of all  *)
(* grains of the cluster that /api/actor/instances puts together from the  *)
(* nodes.                                                                  *)
(*                                                                         *)
(* Placing grains is the business of protoactor-go and its identity        *)
(* lookup: a grain may be activated on any node and stopped at any time,   *)
(* and for a while be active on two nodes that disagree on the members.    *)
(* Likewise a node's list of members may be out of date in any way.        *)
(*                                                                         *)
(* Of a configuration the fields are modelled that decide where a node is  *)
(* found.  0 and None are what the YAML decoder leaves in a missing field  *)
(* and what an environment variable that is not set amounts to.  A third   *)
(* port, 10000 above the first, is opened for Prometheus (server.go:37).   *)
(* No node looks for another there, and it is left out.                    *)
(***************************************************************************)
EXTENDS Integers, FiniteSets

CONSTANTS
  Nodes,        \* processes, each with a file and an environment
  Grains,       \* kind and identity
  FileHosts,    \* values of host in a file, None for a missing one
  EnvHosts,     \* values of HOST in an environment
  DefaultHost,  \* 127.0.0.1
  DefaultPort,  \* 8080
  Offset,       \* 100, what lies between the two ports of a node
  MaxPort,      \* 65535
  FilePorts,    \* values of port in a file
  EnvPorts,     \* values of PORT in an environment
  HTTPPorts,    \* values of health_check_port in a file
  None,         \* no host, no node
  MaxCrashes    \* bound: processes that end

ASSUME GrainClusterAssumption ==
  /\ DefaultHost # None /\ None \notin Nodes
  /\ DefaultPort \in Nat \ {0} /\ Offset \in Nat \ {0} /\ MaxPort \in Nat
  /\ FilePorts \subseteq Int /\ EnvPorts \subseteq Int /\ HTTPPorts \subseteq Int
  /\ MaxCrashes \in Nat

-----------------------------------------------------------------------------
(* Configurations.                                                         *)

File   == [host : FileHosts, port : FilePorts, http : HTTPPorts]
Env    == [host : EnvHosts, port : EnvPorts]

\* A PORT that is no number is passed over, as one that is not set.
applyEnvOverride(cfg, env) ==
  [cfg EXCEPT !.host = IF env.host = None THEN @ ELSE env.host,
              !.port = IF env.port = 0 THEN @ ELSE env.port]

setDefaults(cfg) ==
  LET port == IF cfg.port = 0 THEN DefaultPort ELSE cfg.port IN
  [host |-> IF cfg.host = None THEN DefaultHost ELSE cfg.host,
   port |-> port,
   http |-> IF cfg.http = 0 THEN port + Offset ELSE cfg.http]

\* Mutant: no upper bound.
validateLow(cfg) == 0 < cfg.port

\* The HTTP port is not looked at.
validate(cfg) == 0 < cfg.port /\ cfg.port <= MaxPort

Load(file, env) == setDefaults(applyEnvOverride(file, env))

-----------------------------------------------------------------------------
VARIABLES
  files,     \* the file of each node ...
  envs,      \* ... and its environment
  up,        \* the processes that run
  active,    \* active[n]: the grains that are active on n
  registry,  \* registry[n]: GlobalRegistry of n
  ran,       \* history: the grains that have ever been activated on n
  crashes,   \* counts the processes that have ended
  asker,     \* the node that puts a list together, or None
  todo,      \* the members it has not asked yet
  list,      \* what it has got: <<g, n>> says that g is on n
  due        \* history: what it has to get, as no process or call failed

conf    == <<files, envs>>
listing == <<asker, todo, list, due>>
vars    == <<conf, up, active, registry, ran, crashes, listing>>

Cfg(n) == Load(files[n], envs[n])

\* A node that cannot listen on its HTTP port runs on without.
Serves(n) == n \in up /\ Cfg(n).http <= MaxPort

-----------------------------------------------------------------------------
(* Processes and grains.                                                   *)

\* config.Load, NewServer and Start; registries are in memory.
StartNode(n) ==
  /\ n \notin up /\ validate(Cfg(n))
  /\ up' = up \cup {n}
  /\ UNCHANGED <<conf, active, registry, ran, crashes, listing>>

\* A process ends: on a signal, or otherwise.
StopNode(n) ==
  /\ n \in up /\ crashes < MaxCrashes
  /\ up' = up \ {n}
  /\ crashes' = crashes + 1
  /\ active' = [active EXCEPT ![n] = {}]
  /\ registry' = [registry EXCEPT ![n] = {}]
  /\ IF asker = n
     THEN asker' = None /\ todo' = {} /\ list' = {} /\ due' = {}
     ELSE due' = {d \in due : d[2] # n} /\ UNCHANGED <<asker, todo, list>>
  /\ UNCHANGED <<conf, ran>>

\* BaseGrain.onStarted; a new activation of a name replaces its entry.
Activate(n, g) ==
  /\ n \in up /\ g \notin active[n]
  /\ active' = [active EXCEPT ![n] = @ \cup {g}]
  /\ registry' = [registry EXCEPT ![n] = @ \cup {g}]
  /\ ran' = [ran EXCEPT ![n] = @ \cup {g}]
  /\ UNCHANGED <<conf, up, crashes, listing>>

\* A grain is stopped, to be activated elsewhere.  Receive does nothing about
\* it and nobody calls Unregister.
Passivate(n, g) ==
  /\ n \in up /\ g \in active[n]
  /\ active' = [active EXCEPT ![n] = @ \ {g}]
  /\ UNCHANGED <<conf, up, registry, ran, crashes, listing>>

-----------------------------------------------------------------------------
(* getActorInstances                                                       *)

\* What GetMembers of node n says of member m: m's gRPC port, on n's own host.
Address(n, m) == [host |-> Cfg(n).host, port |-> Cfg(m).port]

\* Mutant: the port of the default configuration is taken.
grpcToHTTPAddressFixed(address) == [address EXCEPT !.port = DefaultPort + Offset]

grpcToHTTPAddress(address) == [address EXCEPT !.port = @ + Offset]

\* The nodes whose HTTP server a call to this address reaches: one or none.
At(address) == {t \in Nodes : Serves(t) /\ Cfg(t).host = address.host /\ Cfg(t).http = address.port}

\* What a call to member m may rely on: the file of m leaves the HTTP port to
\* its default, there is such a port, and m is on the host of n.
Follows(n, m) ==
  /\ files[m].http = 0
  /\ Cfg(m).port + Offset <= MaxPort
  /\ Cfg(m).host = Cfg(n).host

ListBegins(n) ==
  /\ n \in up /\ asker = None
  /\ asker' = n
  /\ todo' \in SUBSET Nodes
  /\ list' = {}
  /\ due' = UNION {registry[m] \X {m} : m \in {k \in todo' \cap up : Follows(n, k)}}
  /\ UNCHANGED <<conf, up, active, registry, ran, crashes>>

\* fetchNodeInstances: whoever answers gives its registry, and what it answers
\* is put under the name of the member.
Fetch(m) ==
  /\ asker # None /\ m \in todo
  /\ \E t \in At(grpcToHTTPAddress(Address(asker, m))) : list' = list \cup (registry[t] \X {m})
  /\ todo' = todo \ {m}
  /\ UNCHANGED <<conf, up, active, registry, ran, crashes, asker, due>>

\* Mutant: one node that fails ends the list.
FetchFailsForAll(m) ==
  /\ asker # None /\ m \in todo
  /\ todo' = {}
  /\ due' = {d \in due : d[2] # m}
  /\ UNCHANGED <<conf, up, active, registry, ran, crashes, asker, list>>

\* Mutant: a call has no time limit.
FetchFailsAtOnce(m) ==
  /\ asker # None /\ m \in todo /\ At(grpcToHTTPAddress(Address(asker, m))) = {}
  /\ todo' = todo \ {m}
  /\ UNCHANGED <<conf, up, active, registry, ran, crashes, asker, list, due>>

\* Nobody is there, or no answer comes in three seconds: the member is skipped.
FetchFails(m) ==
  /\ asker # None /\ m \in todo
  /\ todo' = todo \ {m}
  /\ due' = IF At(grpcToHTTPAddress(Address(asker, m))) = {} THEN due
            ELSE {d \in due : d[2] # m}
  /\ UNCHANGED <<conf, up, active, registry, ran, crashes, asker, list>>

ListEnds ==
  /\ asker # None /\ todo = {}
  /\ asker' = None /\ list' = {} /\ due' = {}
  /\ UNCHANGED <<conf, up, active, registry, ran, crashes, todo>>

-----------------------------------------------------------------------------
\* Nodes have addresses of their own: no two of them listen on one.
Sockets(n) == {<<Cfg(n).host, Cfg(n).port>>, <<Cfg(n).host, Cfg(n).http>>}

Init ==
  /\ files \in [Nodes -> File] /\ envs \in [Nodes -> Env]
  /\ \A n \in Nodes : Cardinality(Sockets(n)) = 2
  /\ \A m, n \in Nodes : m # n => Sockets(m) \cap Sockets(n) = {}
  /\ up = {}
  /\ active = [n \in Nodes |-> {}]
  /\ registry = [n \in Nodes |-> {}]
  /\ ran = [n \in Nodes |-> {}]
  /\ crashes = 0
  /\ asker = None /\ todo = {} /\ list = {} /\ due = {}

Node(n) ==
  \/ StartNode(n) \/ StopNode(n) \/ ListBegins(n)
  \/ \E g \in Grains : Activate(n, g) \/ Passivate(n, g)

Next ==
  \/ \E n \in Nodes : Node(n) \/ Fetch(n) \/ FetchFails(n)
  \/ ListEnds

\* The three seconds pass, and the handler goes on.  No node has to answer.
Fairness == WF_vars(ListEnds) /\ \A m \in Nodes : WF_vars(FetchFails(m))

Spec     == Init /\ [][Next]_vars
FairSpec == Spec /\ Fairness

-----------------------------------------------------------------------------
(* Properties.                                                             *)

\* Every variable has its type, and no process runs with a port that is none.
TypeOK ==
  /\ files \in [Nodes -> File] /\ envs \in [Nodes -> Env]
  /\ up \in SUBSET Nodes
  /\ active \in [Nodes -> SUBSET Grains]
  /\ registry \in [Nodes -> SUBSET Grains]
  /\ ran \in [Nodes -> SUBSET Grains]
  /\ crashes \in 0 .. MaxCrashes
  /\ asker \in up \cup {None}
  /\ todo \in SUBSET Nodes
  /\ list \in SUBSET (Grains \X Nodes) /\ due \in SUBSET (Grains \X Nodes)
  /\ \A n \in up : Cfg(n).port \in 1 .. MaxPort

\* A list has every grain that was registered, when it was begun, on a member
\* that has answered or should have: one that ran on, whose HTTP port is the
\* default one, on the host of the node that asks, and that was not too slow.
\* That other members fail changes nothing about it.
ListComplete == asker # None /\ todo = {} => due \subseteq list

\* What is listed under a node whose port and host are such has run there.
ListedRan == \A e \in list : Follows(asker, e[2]) => e[1] \in ran[e[2]]

\* Every list is finished, whoever crashes or hangs, unless its node ends.
ListReturns == \A n \in Nodes : asker = n ~> asker = None

\* actor_handlers.go:99: every instance is under the right name of its node.
ListedOnItsNode == \A e \in list : e[1] \in ran[e[2]]
=============================================================================
