------------------------- MODULE GrainClusterProof -------------------------
(***************************************************************************)
(* The list of all grains of the cluster, for every number of nodes, every *)
(* choice of their configurations and whatever nodes end or hang: what is  *)
(* listed under a node that is found by its address has run there, and a   *)
(* list that is finished has everything it should.                         *)
(*                                                                         *)
(* Both rest on addresses.  No two nodes share one (Apart), and a member   *)
(* whose HTTP port is left to its default has it where grpcToHTTPAddress   *)
(* looks for it, so that nobody else answers for this member (Answers).    *)
(* LInv adds that a registry never holds what has not run on its node, and *)
(* that what is due is registered with a running member which has still to *)
(* be asked or is on the list.                                             *)
(***************************************************************************)
EXTENDS GrainCluster, TLAPS

Apart == \A m, n \in Nodes : m # n => Sockets(m) \cap Sockets(n) = {}

Ran == \A n \in Nodes : registry[n] \subseteq ran[n]

Due ==
  asker # None =>
    \A d \in due :
      /\ d[2] \in up /\ Follows(asker, d[2]) /\ d[1] \in registry[d[2]]
      /\ d[2] \in todo \/ d \in list

Idle == asker = None => list = {} /\ due = {}

LInv == TypeOK /\ Apart /\ Ran /\ Due /\ Idle /\ ListedRan

\* Defaults and overrides give a node ports that are numbers, and one that
\* leaves its HTTP port out has it next to the other one.
LEMMA Defaults ==
  ASSUME TypeOK, NEW n \in Nodes
  PROVE  /\ Cfg(n).port \in Int
         /\ files[n].http = 0 => Cfg(n).http = Cfg(n).port + Offset
<1>1. files[n] \in File /\ envs[n] \in Env
  BY DEF TypeOK
<1>2. files[n].port \in Int /\ envs[n].port \in Int
  BY <1>1, GrainClusterAssumption DEF File, Env
<1> DEFINE cfg == applyEnvOverride(files[n], envs[n])
<1>3. cfg.port \in Int /\ cfg.http = files[n].http
  BY <1>1, <1>2 DEF applyEnvOverride, File
<1> HIDE DEF cfg
<1>4. /\ setDefaults(cfg).port \in Int
      /\ files[n].http = 0 => setDefaults(cfg).http = setDefaults(cfg).port + Offset
  BY <1>3, GrainClusterAssumption DEF setDefaults
<1>5. QED
  BY <1>4 DEF Cfg, Load, cfg

\* Whoever answers for such a member is the member, and it answers if it runs.
LEMMA Answers ==
  ASSUME LInv, NEW n \in Nodes, NEW m \in Nodes, Follows(n, m)
  PROVE  /\ At(grpcToHTTPAddress(Address(n, m))) \subseteq {m}
         /\ m \in up => m \in At(grpcToHTTPAddress(Address(n, m)))
<1> DEFINE a == grpcToHTTPAddress(Address(n, m))
<1>1. a.host = Cfg(n).host /\ a.port = Cfg(m).port + Offset
  BY DEF grpcToHTTPAddress, Address
<1> HIDE DEF a
<1>2. /\ Cfg(m).host = Cfg(n).host /\ Cfg(m).http = Cfg(m).port + Offset
      /\ Cfg(m).http <= MaxPort
  BY Defaults DEF LInv, Follows
<1>3. ASSUME NEW t \in At(a)
      PROVE  t = m
  <2>1. t \in Nodes /\ Cfg(t).host = Cfg(m).host /\ Cfg(t).http = Cfg(m).http
    BY <1>1, <1>2 DEF At
  <2>2. <<Cfg(m).host, Cfg(m).http>> \in Sockets(m) \cap Sockets(t)
    BY <2>1 DEF Sockets
  <2>3. QED
    BY <2>1, <2>2 DEF LInv, Apart
<1>4. m \in up => m \in At(a)
  BY <1>1, <1>2 DEF At, Serves
<1>5. QED
  BY <1>3, <1>4 DEF a

\* At first no process runs.
LEMMA Initially == Init => LInv
<1> SUFFICES ASSUME Init PROVE LInv
  OBVIOUS
<1>1. TypeOK
  BY GrainClusterAssumption DEF Init, TypeOK
<1>2. QED
  BY <1>1 DEF Init, LInv, Apart, Ran, Due, Idle, ListedRan

\* Every step of a process, a grain or a list keeps the invariant.
LEMMA Inductive == LInv /\ [Next]_vars => LInv'
<1> SUFFICES ASSUME LInv, [Next]_vars PROVE LInv'
  OBVIOUS
<1> USE DEF conf, listing
<1>1. files' = files /\ envs' = envs
  BY DEF Next, Node, StartNode, StopNode, Activate, Passivate, ListBegins, Fetch, FetchFails,
         ListEnds, vars
<1>2. \A n \in Nodes : Cfg(n)' = Cfg(n) /\ \A k \in Nodes : Follows(k, n)' = Follows(k, n)
  BY <1>1 DEF Cfg, Follows
<1>3. Apart'
  BY <1>1 DEF LInv, Apart, Sockets, Cfg
<1>4. None \notin Nodes /\ (asker # None => asker \in Nodes)
  BY GrainClusterAssumption DEF LInv, TypeOK
<1>5. ASSUME NEW n \in Nodes, StartNode(n)
      PROVE  LInv'
  <2>1. Cfg(n).port \in 1 .. MaxPort
    BY <1>5, Defaults, GrainClusterAssumption DEF StartNode, validate, LInv
  <2>2. TypeOK'
    BY <1>2, <1>5, <2>1 DEF StartNode, LInv, TypeOK
  <2>3. Due'
    BY <1>2, <1>4, <1>5 DEF StartNode, LInv, Due, TypeOK
  <2>4. ListedRan'
    BY <1>2, <1>4, <1>5 DEF StartNode, LInv, Idle, ListedRan, TypeOK
  <2>5. QED
    BY <1>3, <1>5, <2>2, <2>3, <2>4 DEF StartNode, LInv, Ran, Idle
<1>6. ASSUME NEW n \in Nodes, StopNode(n)
      PROVE  LInv'
  <2>1. TypeOK'
    BY <1>2, <1>4, <1>6, GrainClusterAssumption DEF StopNode, LInv, TypeOK
  <2>2. Ran'
    BY <1>6 DEF StopNode, LInv, TypeOK, Ran
  <2>3. Due' /\ Idle' /\ ListedRan'
    <3>1. CASE asker = n
      BY <1>6, <3>1 DEF StopNode, Due, Idle, ListedRan
    <3>2. CASE asker # n
      <4>1. /\ up' = up \ {n} /\ due' = {d \in due : d[2] # n}
            /\ asker' = asker /\ todo' = todo /\ list' = list /\ ran' = ran
            /\ \A m \in Nodes \ {n} : registry'[m] = registry[m]
        BY <1>6, <3>2 DEF StopNode, LInv, TypeOK
      <4>2. \A d \in due : d[2] \in Nodes
        BY DEF LInv, TypeOK
      <4>3. Due'
        BY <1>2, <1>4, <4>1, <4>2 DEF LInv, Due
      <4>4. ListedRan'
        BY <1>2, <1>4, <4>1 DEF LInv, Idle, ListedRan, TypeOK
      <4>5. Idle'
        BY <4>1 DEF LInv, Idle
      <4>6. QED
        BY <4>3, <4>4, <4>5
    <3>3. QED
      BY <3>1, <3>2
  <2>4. QED
    BY <1>3, <2>1, <2>2, <2>3 DEF LInv
<1>7. ASSUME NEW n \in Nodes, NEW g \in Grains, Activate(n, g) \/ Passivate(n, g)
      PROVE  LInv'
  <2>1. TypeOK'
    BY <1>2, <1>7 DEF Activate, Passivate, LInv, TypeOK
  <2>2. /\ UNCHANGED <<up, listing>>
        /\ \A m \in Nodes : registry[m] \subseteq registry'[m] /\ ran[m] \subseteq ran'[m]
    BY <1>7 DEF Activate, Passivate, LInv, TypeOK
  <2>3. Ran'
    BY <1>7 DEF Activate, Passivate, LInv, TypeOK, Ran
  <2>4. Due' /\ Idle' /\ ListedRan'
    BY <1>2, <1>4, <2>2 DEF LInv, Due, Idle, ListedRan, TypeOK
  <2>5. QED
    BY <1>3, <2>1, <2>3, <2>4 DEF LInv
<1>8. ASSUME NEW n \in Nodes, ListBegins(n)
      PROVE  LInv'
  <2>1. TypeOK'
    BY <1>2, <1>8 DEF ListBegins, LInv, TypeOK
  <2>2. Due'
    BY <1>2, <1>8 DEF ListBegins, LInv, TypeOK, Due
  <2>3. QED
    BY <1>3, <1>4, <1>8, <2>1, <2>2 DEF ListBegins, LInv, TypeOK, Ran, Idle, ListedRan
<1>9. ASSUME NEW m \in Nodes, Fetch(m)
      PROVE  LInv'
  <2>1. asker \in Nodes /\ asker # None /\ m \in todo
    BY <1>4, <1>9 DEF Fetch
  <2>2. PICK t \in At(grpcToHTTPAddress(Address(asker, m))) :
          list' = list \cup (registry[t] \X {m})
    BY <1>9 DEF Fetch
  <2>3. t \in Nodes /\ (Follows(asker, m) => t = m)
    BY <2>1, <2>2, Answers DEF At
  <2>4. todo' = todo \ {m} /\ UNCHANGED <<up, active, registry, ran, crashes, asker, due>>
    BY <1>9 DEF Fetch
  <2>5. TypeOK'
    BY <1>1, <1>2, <2>2, <2>3, <2>4 DEF LInv, TypeOK
  <2>6. Due'
    BY <1>2, <2>1, <2>2, <2>3, <2>4 DEF LInv, Due, TypeOK
  <2>7. ListedRan'
    BY <1>2, <2>1, <2>2, <2>3, <2>4 DEF LInv, Ran, ListedRan, TypeOK
  <2>8. QED
    BY <1>3, <2>1, <2>4, <2>5, <2>6, <2>7 DEF LInv, Ran, Idle
<1>10. ASSUME NEW m \in Nodes, FetchFails(m)
       PROVE  LInv'
  <2>1. asker \in Nodes /\ asker # None /\ m \in todo
    BY <1>4, <1>10 DEF FetchFails
  <2>2. /\ todo' = todo \ {m} /\ UNCHANGED <<up, active, registry, ran, crashes, asker, list>>
        /\ due' \subseteq due
    BY <1>10 DEF FetchFails
  <2>3. \A d \in due' : d[2] # m
    <3>1. CASE At(grpcToHTTPAddress(Address(asker, m))) = {}
      <4>1. \A d \in due : d[2] # m
        BY <2>1, <3>1, Answers DEF LInv, Due
      <4>2. QED
        BY <2>2, <4>1 DEF LInv, TypeOK
    <3>2. CASE At(grpcToHTTPAddress(Address(asker, m))) # {}
      BY <1>10, <3>2 DEF FetchFails
    <3>3. QED
      BY <3>1, <3>2
  <2>4. TypeOK'
    BY <1>1, <1>2, <2>2 DEF LInv, TypeOK
  <2>5. Due'
    BY <1>2, <2>1, <2>2, <2>3 DEF LInv, Due, TypeOK
  <2>6. ListedRan'
    BY <1>2, <2>1, <2>2 DEF LInv, ListedRan, TypeOK
  <2>7. QED
    BY <1>3, <2>1, <2>2, <2>4, <2>5, <2>6 DEF LInv, Ran, Idle
<1>11. CASE ListEnds
  BY <1>2, <1>3, <1>11 DEF ListEnds, LInv, TypeOK, Ran, Due, Idle, ListedRan
<1>12. CASE UNCHANGED vars
  BY <1>2, <1>3, <1>4, <1>12 DEF vars, LInv, TypeOK, Ran, Due, Idle, ListedRan
<1>13. QED
  BY <1>5, <1>6, <1>7, <1>8, <1>9, <1>10, <1>11, <1>12 DEF Next, Node

\* The types, and that no process runs with a port that is none.
THEOREM TypeCorrect == Spec => []TypeOK
<1>1. Spec => []LInv
  BY Initially, Inductive, PTL DEF Spec
<1>2. LInv => TypeOK
  BY DEF LInv
<1>3. QED
  BY <1>1, <1>2, PTL

\* Whoever is listed under a node that is found by its address has run there.
THEOREM ListedHaveRun == Spec => []ListedRan
<1>1. Spec => []LInv
  BY Initially, Inductive, PTL DEF Spec
<1>2. LInv => ListedRan
  BY DEF LInv
<1>3. QED
  BY <1>1, <1>2, PTL

\* A finished list has all it should have, whatever other members do.
THEOREM ListsAreComplete == Spec => []ListComplete
<1>1. Spec => []LInv
  BY Initially, Inductive, PTL DEF Spec
<1>2. LInv => ListComplete
  BY DEF LInv, Due, ListComplete, TypeOK
<1>3. QED
  BY <1>1, <1>2, PTL

-----------------------------------------------------------------------------
(* What the list lacks to be right is configuration only.                  *)

\* The deployment that the address translation is written for: nodes on one
\* host, which leave their HTTP ports out of their files.
OneHost ==
  \A m, n \in Nodes : files[m].http = 0 /\ Cfg(m).host = Cfg(n).host

\* Whoever answers for a member is this member.
LEMMA OnlyTheMember ==
  ASSUME LInv, OneHost, NEW n \in Nodes, NEW m \in Nodes
  PROVE  At(grpcToHTTPAddress(Address(n, m))) \subseteq {m}
<1> DEFINE a == grpcToHTTPAddress(Address(n, m))
<1>1. a.host = Cfg(n).host /\ a.port = Cfg(m).port + Offset
  BY DEF grpcToHTTPAddress, Address
<1> HIDE DEF a
<1>2. Cfg(m).host = Cfg(n).host /\ Cfg(m).http = Cfg(m).port + Offset
  BY Defaults DEF LInv, OneHost
<1>3. ASSUME NEW t \in At(a)
      PROVE  t = m
  <2>1. t \in Nodes /\ Cfg(t).host = Cfg(m).host /\ Cfg(t).http = Cfg(m).http
    BY <1>1, <1>2 DEF At
  <2>2. <<Cfg(m).host, Cfg(m).http>> \in Sockets(m) \cap Sockets(t)
    BY <2>1 DEF Sockets
  <2>3. QED
    BY <2>1, <2>2 DEF LInv, Apart
<1>4. QED
  BY <1>3 DEF a

\* So every step keeps each entry of the list under the name of its node.
LEMMA ListedThere ==
  LInv /\ OneHost /\ ListedOnItsNode /\ [Next]_vars => OneHost' /\ ListedOnItsNode'
<1> SUFFICES ASSUME LInv, OneHost, ListedOnItsNode, [Next]_vars
             PROVE  OneHost' /\ ListedOnItsNode'
  OBVIOUS
<1> USE DEF conf, listing
<1>1. OneHost'
  <2>1. files' = files /\ envs' = envs
    BY DEF Next, Node, StartNode, StopNode, Activate, Passivate, ListBegins, Fetch, FetchFails,
           ListEnds, vars
  <2>2. QED
    BY <2>1 DEF OneHost, Cfg
<1>2. \A n \in Nodes : ran[n] \subseteq ran'[n]
  BY DEF Next, Node, StartNode, StopNode, Activate, Passivate, ListBegins, Fetch, FetchFails,
         ListEnds, vars, LInv, TypeOK
<1>3. ASSUME NEW m \in Nodes, Fetch(m)
      PROVE  ListedOnItsNode'
  <2>1. asker \in Nodes
    BY <1>3 DEF Fetch, LInv, TypeOK
  <2>2. PICK t \in At(grpcToHTTPAddress(Address(asker, m))) :
          list' = list \cup (registry[t] \X {m})
    BY <1>3 DEF Fetch
  <2>3. t = m
    BY <2>1, <2>2, OnlyTheMember
  <2>4. registry[m] \subseteq ran[m] /\ ran' = ran
    BY <1>3 DEF Fetch, LInv, Ran
  <2>5. QED
    BY <2>2, <2>3, <2>4 DEF ListedOnItsNode
<1>4. CASE list' \subseteq list
  <2>1. \A e \in list : e[2] \in Nodes
    BY DEF LInv, TypeOK
  <2>2. QED
    BY <1>1, <1>2, <1>4, <2>1 DEF ListedOnItsNode
<1>5. list' \subseteq list \/ \E m \in Nodes : Fetch(m)
  BY DEF Next, Node, StartNode, StopNode, Activate, Passivate, ListBegins, FetchFails, ListEnds,
         vars
<1>6. QED
  BY <1>1, <1>3, <1>4, <1>5

\* Where all nodes are on one host and take the default HTTP ports, all that is
\* listed is under a node it has run on, as actor_handlers.go:99 has it: what
\* the violation of ListedOnItsNode needs is a second host or a port of its own.
THEOREM ListedRightOnOneHost == Spec /\ OneHost => []ListedOnItsNode
<1>1. Spec => []LInv
  BY Initially, Inductive, PTL DEF Spec
<1>2. Init => ListedOnItsNode
  BY DEF Init, ListedOnItsNode
<1>3. QED
  BY <1>1, <1>2, ListedThere, PTL DEF Spec
=============================================================================
