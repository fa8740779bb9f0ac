------------------------ MODULE ServerLifecycleProof ------------------------
(***************************************************************************)
(* What holds of ServerLifecycle for any set of requests.                  *)
(***************************************************************************)
EXTENDS ServerLifecycle, TLAPS

\* What the state of the server is at each place of main: when it serves, is in
\* the cluster, has an HTTP server, and that whoever gets past Shutdown without
\* its context being done leaves no active request behind.
Serving == {"running", "listen", "ready", "signalled", "kvstop", "http", "shutdown",
            "cluster", "closing"}
Member  == {"member", "kvstart", "running", "listen", "ready", "signalled", "kvstop",
            "http", "shutdown", "cluster"}

Places ==
  Alive => /\ isRunning <=> main \in Serving
           /\ cluster = "up" <=> main \in Member
           /\ http = "none" <=> main \in {"new", "member", "kvstart", "running"}
           /\ main \in {"shutdown", "cluster", "closing", "stopped"} => http = "closed"

Drained == main \in {"cluster", "closing", "stopped"} /\ ~expired => Active = {}

IInv == TypeOK /\ Places /\ Drained

-----------------------------------------------------------------------------
\* The steps of main outside Shutdown, and those of the clock and the listener.
LEMMA MainStep ==
  ASSUME IInv,
         StartMember \/ StartKV \/ StartEnds \/ StartHTTPServer \/ Notify \/ Listen \/ Expire
           \/ StopBegins \/ StopKV \/ ShutdownBegins \/ ClusterShutdown \/ StopEnds
  PROVE  IInv'
<1> USE DEF IInv, TypeOK, Places, Drained, Alive, Active, MainPCs, Clusters, Servers, Fates,
            Serving, Member
<1>1. CASE StartMember
  BY <1>1 DEF StartMember
<1>2. CASE StartKV
  BY <1>2 DEF StartKV
<1>3. CASE StartEnds
  BY <1>3 DEF StartEnds
<1>4. CASE StartHTTPServer
  BY <1>4 DEF StartHTTPServer
<1>5. CASE Notify
  BY <1>5 DEF Notify, server
<1>6. CASE Listen
  BY <1>6 DEF Listen
<1>7. CASE Expire
  BY <1>7 DEF Expire, server
<1>8. CASE StopBegins
  BY <1>8 DEF StopBegins
<1>9. CASE StopKV
  BY <1>9 DEF StopKV
<1>10. CASE ShutdownBegins
  BY <1>10 DEF ShutdownBegins
<1>11. CASE ClusterShutdown
  BY <1>11 DEF ClusterShutdown
<1>12. CASE StopEnds
  BY <1>12 DEF StopEnds
<1>13. QED
  BY <1>1, <1>2, <1>3, <1>4, <1>5, <1>6, <1>7, <1>8, <1>9, <1>10, <1>11, <1>12

\* Shutdown returns with no active request, or with its context done.
LEMMA ShutdownStep ==
  ASSUME IInv, ShutdownEnds
  PROVE  IInv'
BY DEF IInv, TypeOK, Places, Drained, Alive, Active, MainPCs, Clusters, Servers, Fates,
       Serving, Member, ShutdownEnds, server

\* Requests: none becomes active once the HTTP server has been closed.
LEMMA RequestStep ==
  ASSUME IInv, NEW r \in Requests, Accept(r) \/ Handle(r) \/ IsRunning(r)
  PROVE  IInv'
<1> USE DEF IInv, TypeOK, Places, Drained, Alive, Active, MainPCs, Clusters, Servers, Fates,
            Serving, Member
<1>1. CASE Accept(r)
  BY <1>1 DEF Accept, server
<1>2. CASE Handle(r)
  BY <1>2 DEF Handle, server
<1>3. CASE IsRunning(r)
  BY <1>3 DEF IsRunning, server
<1>4. QED
  BY <1>1, <1>2, <1>3

\* A signal, and the end of the process, which cuts off what is active.
LEMMA EndStep ==
  ASSUME IInv, Interrupt \/ Exit
  PROVE  IInv'
<1> USE DEF IInv, TypeOK, Places, Drained, Alive, Active, MainPCs, Clusters, Servers, Fates,
            Serving, Member
<1>1. CASE Exit
  BY <1>1 DEF Exit, server
<1>2. CASE Interrupt
  <2>1. CASE main = "ready"
    BY <1>2, <2>1 DEF Interrupt, server
  <2>2. CASE main \in {"new", "member", "kvstart", "running", "listen"}
    BY <1>2, <2>2 DEF Interrupt, server
  <2>3. QED
    BY <1>2, <2>1, <2>2 DEF Interrupt
<1>3. QED
  BY <1>1, <1>2

LEMMA Invariance == Spec => []IInv
<1>1. Init => IInv
  BY DEF Init, IInv, TypeOK, Places, Drained, Alive, Active, MainPCs, Clusters, Servers,
         Fates, Serving, Member
<1>2. IInv /\ [Next]_vars => IInv'
  <2> SUFFICES ASSUME IInv, [Next]_vars
               PROVE  IInv'
    OBVIOUS
  <2>1. CASE Next
    BY <2>1, MainStep, ShutdownStep, RequestStep, EndStep DEF Next, Main
  <2>2. CASE UNCHANGED vars
    BY <2>2 DEF vars, IInv, TypeOK, Places, Drained, Alive, Active
  <2>3. QED
    BY <2>1, <2>2
<1>3. QED
  BY <1>1, <1>2, PTL DEF Spec

-----------------------------------------------------------------------------
\* Every variable has its type, and s.mu is held in Start and in Stop only.
THEOREM TypeCorrect == Spec => []TypeOK
<1>1. IInv => TypeOK
  BY DEF IInv
<1>2. QED
  BY <1>1, Invariance, PTL

\* A health check that says healthy has found the lock free and the node in
\* the cluster, for any number of requests.
THEOREM HealthTellsTheTruth == Spec => HealthyWhileUp
<1> DEFINE Healthy == \A r \in Requests : answered'[r] /\ ~answered[r] =>
             cluster = "up" /\ main \notin {"kvstop", "http", "shutdown", "cluster", "closing"}
<1>1. IInv /\ [Next]_vars => [Healthy]_vars
  <2> SUFFICES ASSUME IInv, Next, NEW r \in Requests, answered'[r], ~answered[r]
               PROVE  cluster = "up" /\ main \notin {"kvstop", "http", "shutdown", "cluster", "closing"}
    OBVIOUS
  <2>1. answered' # answered
    OBVIOUS
  <2>2. PICK q \in Requests : IsRunning(q)
    BY <2>1 DEF Next, Main, StartMember, StartKV, StartEnds, StartHTTPServer, Notify, Listen,
                Interrupt, Expire, StopBegins, StopKV, ShutdownBegins, ShutdownEnds,
                ClusterShutdown, StopEnds, Exit, Accept, Handle
  <2>3. q = r /\ isRunning
    BY <2>2 DEF IsRunning, IInv, TypeOK
  <2>4. QED
    BY <2>2, <2>3 DEF IsRunning, IInv, TypeOK, Places, Alive, Serving, Member
<1>2. QED
  BY <1>1, Invariance, PTL DEF Spec, HealthyWhileUp

\* When main returns from Stop, requests are still active only if the context
\* of Stop was done.
THEOREM CutByDeadline == Spec => CutOnlyByDeadline
<1> DEFINE Cut == main = "stopped" /\ main' = "exited" /\ Active # {} => expired
<1>1. IInv /\ [Next]_vars => [Cut]_vars
  BY DEF IInv, Drained
<1>2. QED
  BY <1>1, Invariance, PTL DEF Spec, CutOnlyByDeadline

-----------------------------------------------------------------------------
\* The order in which Server.Stop takes the node apart: once it has left the
\* cluster its KV store is stopped, its HTTP server is closed, and no request is
\* active that had time to end.
LeavesLast == cluster = "left" => ~kv /\ http = "closed" /\ (expired \/ Active = {})

\* With what it rests on: the KV store is stopped first and stays so, and
\* nothing but the end of Stop follows the departure.
Leaving ==
  /\ main \in {"http", "shutdown", "cluster", "closing", "stopped"} => ~kv
  /\ cluster = "left" => main \in {"closing", "stopped", "exited"}
  /\ LeavesLast

\* No step of main, of a request or of the clock disturbs that order.
LEMMA LeavingStep ==
  ASSUME IInv, Leaving, Next
  PROVE  Leaving'
<1> USE DEF IInv, TypeOK, Places, Drained, Leaving, LeavesLast, Alive, Active, Member
<1>1. CASE StartMember \/ StartKV \/ StartEnds \/ StartHTTPServer \/ Notify
  BY <1>1 DEF StartMember, StartKV, StartEnds, StartHTTPServer, Notify, server
<1>2. CASE StopBegins \/ StopKV \/ ShutdownBegins \/ ShutdownEnds
  BY <1>2 DEF StopBegins, StopKV, ShutdownBegins, ShutdownEnds, server
<1>3. CASE ClusterShutdown
  BY <1>3 DEF ClusterShutdown
<1>4. CASE StopEnds
  BY <1>4 DEF StopEnds
<1>5. CASE Exit
  BY <1>5 DEF Exit, server
<1>6. CASE Listen \/ Expire
  BY <1>6 DEF Listen, Expire, server
<1>7. CASE Interrupt
  BY <1>7 DEF Interrupt, server
<1>8. ASSUME NEW r \in Requests, Accept(r) \/ Handle(r) \/ IsRunning(r)
      PROVE  Leaving'
  BY <1>8 DEF Accept, Handle, IsRunning, server
<1>9. QED
  BY <1>1, <1>2, <1>3, <1>4, <1>5, <1>6, <1>7, <1>8 DEF Next, Main

\* A node that has left the cluster has nothing left to serve, for any number
\* of requests and whenever the context of Stop runs out.
THEOREM ClusterLeftLast == Spec => []LeavesLast
<1>1. Init => Leaving
  BY DEF Init, Leaving, LeavesLast
<1>2. IInv /\ Leaving /\ [Next]_vars => Leaving'
  <2> SUFFICES ASSUME IInv, Leaving, [Next]_vars
               PROVE  Leaving'
    OBVIOUS
  <2>1. CASE UNCHANGED vars
    BY <2>1 DEF vars, Leaving, LeavesLast, Active
  <2>2. QED
    BY <2>1, LeavingStep
<1>3. Leaving => LeavesLast
  BY DEF Leaving
<1>4. QED
  BY <1>1, <1>2, <1>3, Invariance, PTL DEF Spec
=============================================================================
