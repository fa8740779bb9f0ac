--------------------------- MODULE ServerLifecycle ---------------------------
(***************************************************************************)
(* A node from main() to its exit: internal/server/server.go in the order  *)
(* in which main.go calls it, and the HTTP requests that come meanwhile.   *)
(*                                                                         *)
(* main runs through Start, StartHTTPServer and, after a signal, Stop;     *)
(* Start and Stop hold s.mu from their first line to their last.  Each     *)
(* request has a goroutine of its own.  Some handlers (health, info) call  *)
(* IsRunning, which needs s.mu, too; a WebSocket takes its connection over *)
(* from the HTTP server, which forgets it.  The library of the cluster,    *)
(* net/http and the KV cache appear by what Start and Stop do to them.     *)
(***************************************************************************)
EXTENDS Integers

CONSTANT Requests  \* the HTTP requests that may come

VARIABLES
  main,       \* where main is
  mu,         \* s.mu is held, by main
  isRunning,  \* s.isRunning
  cluster,    \* StartMember and Shutdown
  kv,         \* s.kvStore.isRunning
  http,       \* s.httpServer and its listener
  expired,    \* the context of Stop is done
  req,        \* what has become of each request
  answered    \* what isRunning was when a health handler read it

vars   == <<main, mu, isRunning, cluster, kv, http, expired, req, answered>>
server == <<mu, isRunning, cluster, kv, http>>

MainPCs  == {"new", "member", "kvstart", "running", "listen", "ready", "signalled",
             "kvstop", "http", "shutdown", "cluster", "closing", "stopped", "exited"}
Clusters == {"none", "up", "left"}
Servers  == {"none", "made", "open", "failed", "closed"}
Fates    == {"none", "plain", "locking", "socket", "done", "cut"}

Alive  == main # "exited"
Active == {r \in Requests : req[r] \in {"plain", "locking"}}

-----------------------------------------------------------------------------
(* Server.Start                                                            *)

\* StartMember joins the cluster, with s.mu held.
StartMember ==
  /\ main = "new"
  /\ main' = "member"
  /\ mu' = TRUE /\ cluster' = "up"
  /\ UNCHANGED <<isRunning, kv, http, expired, req, answered>>

\* An error of kvStore.Start is logged, and the server starts without.
StartKV ==
  /\ main = "member"
  /\ main' = "kvstart"
  /\ kv' \in BOOLEAN
  /\ UNCHANGED <<mu, isRunning, cluster, http, expired, req, answered>>

StartEnds ==
  /\ main = "kvstart"
  /\ main' = "running"
  /\ mu' = FALSE /\ isRunning' = TRUE
  /\ UNCHANGED <<cluster, kv, http, expired, req, answered>>

-----------------------------------------------------------------------------
(* The HTTP server, whose goroutine listens some time later.               *)

StartHTTPServer ==
  /\ main = "running"
  /\ main' = "listen"
  /\ http' = "made"
  /\ UNCHANGED <<mu, isRunning, cluster, kv, expired, req, answered>>

\* The address may be taken: that is logged, and main waits all the same.
Listen ==
  /\ Alive /\ http = "made"
  /\ http' \in {"open", "failed"}
  /\ UNCHANGED <<main, mu, isRunning, cluster, kv, expired, req, answered>>

\* The router gives a request to its handler.
Accept(r) ==
  /\ Alive /\ http = "open" /\ req[r] = "none"
  /\ req' \in {[req EXCEPT ![r] = kind] : kind \in {"plain", "locking", "socket"}}
  /\ UNCHANGED <<main, server, expired, answered>>

\* Handlers that do not ask IsRunning, and a socket that its client closes.
Handle(r) ==
  /\ Alive /\ req[r] \in {"plain", "socket"}
  /\ req' = [req EXCEPT ![r] = "done"]
  /\ UNCHANGED <<main, server, expired, answered>>

\* Mutant: isRunning is read without the lock.
IsRunningUnlocked(r) ==
  /\ Alive /\ req[r] = "locking"
  /\ req' = [req EXCEPT ![r] = "done"]
  /\ answered' = [answered EXCEPT ![r] = isRunning]
  /\ UNCHANGED <<main, server, expired>>

\* healthCheck and getClusterInfo: as long as Start or Stop is at work they wait.
IsRunning(r) ==
  /\ Alive /\ req[r] = "locking" /\ ~mu
  /\ req' = [req EXCEPT ![r] = "done"]
  /\ answered' = [answered EXCEPT ![r] = isRunning]
  /\ UNCHANGED <<main, server, expired>>

-----------------------------------------------------------------------------
(* The signal, and Server.Stop                                             *)

Notify ==
  /\ main = "listen"
  /\ main' = "ready"
  /\ UNCHANGED <<server, expired, req, answered>>

\* A signal ends the process if signal.Notify has not been called yet.
Interrupt ==
  /\ Alive
  /\ main' = CASE main \in {"new", "member", "kvstart", "running", "listen"} -> "exited"
               [] main = "ready" -> "signalled"
               [] OTHER -> main
  /\ main' # main
  /\ req' = IF main' = "exited"
            THEN [r \in Requests |-> IF req[r] \in {"none", "done"} THEN req[r] ELSE "cut"]
            ELSE req
  /\ UNCHANGED <<server, expired, answered>>

\* Mutant: the context has no deadline.
ExpireNever == FALSE /\ UNCHANGED vars

\* The context is made before Stop is called, for 5000 nanoseconds.
Expire ==
  /\ main \in {"signalled", "kvstop", "http", "shutdown", "cluster", "closing", "stopped"}
  /\ ~expired
  /\ expired' = TRUE
  /\ UNCHANGED <<main, server, req, answered>>

StopBegins ==
  /\ main = "signalled"
  /\ main' = "kvstop"
  /\ mu' = TRUE
  /\ UNCHANGED <<isRunning, cluster, kv, http, expired, req, answered>>

\* The watchers of the KV store are told to stop; nobody waits for them.
StopKV ==
  /\ main = "kvstop"
  /\ main' = "http"
  /\ kv' = FALSE
  /\ UNCHANGED <<mu, isRunning, cluster, http, expired, req, answered>>

\* Mutant: the listener is left open until Shutdown has waited.
ShutdownBeginsOpen ==
  /\ main = "http"
  /\ main' = "shutdown"
  /\ UNCHANGED <<server, expired, req, answered>>

\* Shutdown closes the listener, or keeps ListenAndServe from opening it; ...
ShutdownBegins ==
  /\ main = "http"
  /\ main' = "shutdown"
  /\ http' = "closed"
  /\ UNCHANGED <<mu, isRunning, cluster, kv, expired, req, answered>>

\* ... it returns when no request is active, or when the context is done.
ShutdownEnds ==
  /\ main = "shutdown" /\ (Active = {} \/ expired)
  /\ main' = "cluster"
  /\ UNCHANGED <<server, expired, req, answered>>

ClusterShutdown ==
  /\ main = "cluster"
  /\ main' = "closing"
  /\ cluster' = "left"
  /\ UNCHANGED <<mu, isRunning, kv, http, expired, req, answered>>

\* Mutant: a return that does not give the lock back.
StopEndsHolding ==
  /\ main = "closing"
  /\ main' = "stopped"
  /\ isRunning' = FALSE
  /\ UNCHANGED <<mu, cluster, kv, http, expired, req, answered>>

\* close(stopCh), and Stop returns.
StopEnds ==
  /\ main = "closing"
  /\ main' = "stopped"
  /\ mu' = FALSE /\ isRunning' = FALSE
  /\ UNCHANGED <<cluster, kv, http, expired, req, answered>>

\* main returns, which ends every goroutine there is.
Exit ==
  /\ main = "stopped"
  /\ main' = "exited"
  /\ req' = [r \in Requests |-> IF req[r] \in {"none", "done"} THEN req[r] ELSE "cut"]
  /\ UNCHANGED <<server, expired, answered>>

-----------------------------------------------------------------------------
Init ==
  /\ main = "new"
  /\ mu = FALSE /\ isRunning = FALSE /\ cluster = "none" /\ kv = FALSE /\ http = "none"
  /\ expired = FALSE
  /\ req = [r \in Requests |-> "none"]
  /\ answered = [r \in Requests |-> FALSE]

Main ==
  \/ StartMember \/ StartKV \/ StartEnds \/ StartHTTPServer \/ Notify
  \/ StopBegins \/ StopKV \/ ShutdownBegins \/ ShutdownEnds
  \/ ClusterShutdown \/ StopEnds \/ Exit

Next ==
  \/ Main \/ Listen \/ Interrupt \/ Expire
  \/ \E r \in Requests : Accept(r) \/ Handle(r) \/ IsRunning(r)

\* main and the clock go on.  Nothing is assumed of the requests.
Fairness == WF_vars(Main) /\ WF_vars(Expire)

Spec     == Init /\ [][Next]_vars
FairSpec == Spec /\ Fairness

-----------------------------------------------------------------------------
(* Properties.                                                             *)

\* Every variable has its type, the lock is held in Start and Stop and nowhere
\* else, and an active request has come through an HTTP server.
TypeOK ==
  /\ main \in MainPCs /\ cluster \in Clusters /\ http \in Servers
  /\ mu \in BOOLEAN /\ isRunning \in BOOLEAN /\ kv \in BOOLEAN /\ expired \in BOOLEAN
  /\ req \in [Requests -> Fates]
  /\ answered \in [Requests -> BOOLEAN]
  /\ Alive => (mu <=> main \in {"member", "kvstart", "kvstop", "http", "shutdown", "cluster", "closing"})
  /\ Active # {} => http \in {"open", "closed"}

\* A health check says healthy only of a node that is in the cluster and has not
\* begun to stop (Stop holds the lock that IsRunning needs).
HealthyWhileUp ==
  [][\A r \in Requests : answered'[r] /\ ~answered[r]
       => cluster = "up" /\ main \notin {"kvstop", "http", "shutdown", "cluster", "closing"}]_vars

\* Stop gets to its end although it holds the lock that active requests wait
\* for and waits for active requests.
StopReturns == main = "signalled" ~> main = "exited"

\* Stop leaves a request that the HTTP server knows of without an answer only
\* if its context ran out (which main.go lets it do at once).
CutOnlyByDeadline ==
  [][main = "stopped" /\ main' = "exited" /\ Active # {} => expired]_vars
=============================================================================
