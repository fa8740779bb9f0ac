------------------------------ MODULE Gateway ------------------------------
(***************************************************************************)
(* The WebSocket gateway of one node (internal/api/websocket.go): one      *)
(* goroutine, readPump, per connection, all of them sharing the map        *)
(* wm.clients, and the grains they call through global.Rpc: the UserGrain  *)
(* of each user (internal/grains/user_grain.go) and the ChatGrain of each  *)
(* room, of which only the member set is kept here (see ChatRoom).         *)
(*                                                                         *)
(* A handler is several steps: clientsMu is held only around each use of   *)
(* wm.clients, and an RPC is a message to the grain's mailbox, its         *)
(* handling, and a reply - or five seconds without one, after which the    *)
(* handler goes on while the message may still be handled.  Requests of    *)
(* one node to one grain arrive in the order they are sent.  What a grain  *)
(* knows is in memory only: when the cluster activates it again, it starts *)
(* with nothing, and no gateway hears of it (Reactivate).                  *)
(*                                                                         *)
(* Handlers that change no state of the gateway (create, send, the lists)  *)
(* are left out, and so is topic delivery.                                 *)
(***************************************************************************)
EXTENDS Integers, Sequences

CONSTANTS
  Conns,   \* connections, each opened at most once
  Users,   \* user ids
  Rooms,   \* room ids
  None,    \* no connection, no user, no room, no reply
  MaxMail  \* bound: requests in a mailbox

Grains == Users \cup Rooms
Ops    == {"Login", "Logout", "Join", "Leave"}
Call   == [op : Ops, grain : Grains]

ASSUME GatewayAssumption ==
  /\ None \notin Conns \cup Users \cup Rooms \cup Call \cup {"ok", "refused"}
  /\ Users \cap Rooms = {}
  /\ MaxMail \in Nat

VARIABLES
  clients,      \* wm.clients: the connection each user is registered with
  userID,       \* client.userID
  currentRoom,  \* client.currentRoom
  pc,           \* where the goroutine of each connection is
  call,         \* the operation it is about to request or has requested
  reply,        \* the reply that has come back for it
  mailbox,      \* mailbox[g]: the requests grain g has not handled yet
  online,       \* UserGrain.isOnline
  members,      \* the keys of ChatGrain.members
  disturbed,    \* history variable: a request of the connection timed out, or
                \* its user had a second connection at the same time
  forgotten     \* history variable: <<c, g>> if grain g has been activated again
                \* since it last let c in

clientVars == <<userID, currentRoom>>
grainVars  == <<mailbox, online, members, forgotten>>
vars == <<clients, clientVars, pc, call, reply, grainVars, disturbed>>

\* from is None once the caller no longer waits.
Request == [op : Ops, user : Users, from : Conns \cup {None}]

PCs == {"new",        \* not connected yet
        "connected",  \* reading, nothing received yet
        "checked",    \* handleLogin has found the user not registered
        "registered", \* handleLogin has registered the user
        "waiting",    \* in global.Rpc
        "subscribing", \* handleJoinRoom is in SubscribeTopic
        "reading",    \* reading, a login has been received
        "leaving",    \* reading, a logout has been received
        "closed"}     \* readPump has returned

Reading == {"connected", "reading", "leaving"}
Open(c) == pc[c] \notin {"new", "closed"}

-----------------------------------------------------------------------------
(* global.Rpc                                                              *)

\* The request is sent to grain g; on the way to it, it may get lost.
Post(c, op, g, u) ==
  /\ call' = [call EXCEPT ![c] = [op |-> op, grain |-> g]]
  /\ pc' = [pc EXCEPT ![c] = "waiting"]
  /\ \/ /\ Len(mailbox[g]) < MaxMail
        /\ mailbox' = [mailbox EXCEPT ![g] = Append(@, [op |-> op, user |-> u, from |-> c])]
     \/ UNCHANGED mailbox

\* Grain g takes a request of this kind from its mailbox and answers it.
Take(g, op, outcome) ==
  /\ mailbox[g] # << >> /\ Head(mailbox[g]).op = op
  /\ mailbox' = [mailbox EXCEPT ![g] = Tail(@)]
  /\ reply' = [c \in Conns |-> IF c = Head(mailbox[g]).from THEN outcome ELSE reply[c]]
  /\ UNCHANGED <<clients, clientVars, pc, call, disturbed>>

\* Rpc returns to the handler, which goes on to state next.
Return(c, op, outcome, next) ==
  /\ pc[c] = "waiting" /\ call[c] # None /\ call[c].op = op /\ reply[c] = outcome
  /\ pc' = [pc EXCEPT ![c] = next]
  /\ call' = [call EXCEPT ![c] = None]
  /\ reply' = [reply EXCEPT ![c] = None]
  /\ UNCHANGED <<grainVars, disturbed>>

\* Mutant: the future of a request that timed out is not given up.
ForgetNot(c) == UNCHANGED mailbox

\* A reply to a request that timed out goes nowhere.
Forget(c) ==
  mailbox' = [g \in Grains |->
    [i \in 1 .. Len(mailbox[g]) |->
       IF mailbox[g][i].from = c THEN [mailbox[g][i] EXCEPT !.from = None] ELSE mailbox[g][i]]]

\* Mutant: RequestFuture waits for as long as it takes.
TimeOutNever(c) == FALSE /\ UNCHANGED vars

\* Five seconds have passed: whatever the operation, its handler reports an
\* error and leaves the gateway as it is.
TimeOut(c) ==
  /\ pc[c] = "waiting"
  /\ pc' = [pc EXCEPT ![c] = IF call[c].op = "Logout" THEN "leaving" ELSE "reading"]
  /\ call' = [call EXCEPT ![c] = None]
  /\ reply' = [reply EXCEPT ![c] = None]
  /\ Forget(c)
  /\ disturbed' = [disturbed EXCEPT ![c] = TRUE]
  /\ UNCHANGED <<clients, clientVars, online, members, forgotten>>

-----------------------------------------------------------------------------
(* The connections.                                                        *)

\* HandleWebSocket
Connect(c) ==
  /\ pc[c] = "new"
  /\ pc' = [pc EXCEPT ![c] = "connected"]
  /\ UNCHANGED <<clients, clientVars, call, reply, grainVars, disturbed>>

\* handleLogin, as user u, under the read lock: is u registered already?
LoginCheck(c, u) ==
  /\ pc[c] = "connected"
  /\ IF clients[u] = None
     THEN /\ pc' = [pc EXCEPT ![c] = "checked"]
          /\ call' = [call EXCEPT ![c] = [op |-> "Login", grain |-> u]]
     ELSE /\ pc' = [pc EXCEPT ![c] = "reading"]
          /\ UNCHANGED call
  /\ UNCHANGED <<clients, clientVars, reply, grainVars, disturbed>>

\* handleLogin, under the write lock: the connection is registered as u's.
LoginRegister(c) ==
  /\ pc[c] = "checked"
  /\ LET u == call[c].grain
         others == {d \in Conns \ {c} : Open(d) /\ userID[d] = u}
     IN /\ userID' = [userID EXCEPT ![c] = u]
        /\ clients' = [clients EXCEPT ![u] = c]
        /\ disturbed' = [d \in Conns |->
             disturbed[d] \/ d \in others \/ (d = c /\ others # {})]
  /\ pc' = [pc EXCEPT ![c] = "registered"]
  /\ UNCHANGED <<currentRoom, call, reply, grainVars>>

\* handleLogin: the request to the UserGrain.
LoginRequest(c) ==
  /\ pc[c] = "registered"
  /\ Post(c, "Login", userID[c], userID[c])
  /\ UNCHANGED <<clients, clientVars, reply, online, members, disturbed, forgotten>>

\* The other handlers, which ask for a login first: handleLogout, ...  It also
\* sends the grain the bare request, a message that BaseGrain.Receive only logs.
LogoutRequest(c) ==
  /\ pc[c] = "reading" /\ userID[c] # None
  /\ Post(c, "Logout", userID[c], userID[c])
  /\ UNCHANGED <<clients, clientVars, reply, online, members, disturbed, forgotten>>

\* ... handleJoinRoom, ...
JoinRequest(c, r) ==
  /\ pc[c] = "reading" /\ userID[c] # None
  /\ Post(c, "Join", r, userID[c])
  /\ UNCHANGED <<clients, clientVars, reply, online, members, disturbed, forgotten>>

\* ... handleLeaveRoom.
LeaveRequest(c) ==
  /\ pc[c] = "reading" /\ userID[c] # None /\ currentRoom[c] # None
  /\ Post(c, "Leave", currentRoom[c], userID[c])
  /\ UNCHANGED <<clients, clientVars, reply, online, members, disturbed, forgotten>>

\* unregisterClient: nobody asks whose entry it is that goes.
Unregister(c) ==
  clients' = IF userID[c] = None THEN clients ELSE [clients EXCEPT ![userID[c]] = None]

LoginReturn(c) ==
  /\ Return(c, "Login", "ok", "reading")
  /\ UNCHANGED <<clients, clientVars>>

\* Mutant: a successful logout does not unregister the client.
LogoutReturnKeeping(c) ==
  /\ Return(c, "Logout", "ok", "leaving")
  /\ UNCHANGED <<clients, clientVars>>

LogoutReturn(c) ==
  /\ Return(c, "Logout", "ok", "leaving")
  /\ Unregister(c)
  /\ UNCHANGED clientVars

\* The room is the current one before the topic has been asked for it, ...
JoinReturn(c) ==
  /\ Return(c, "Join", "ok", "subscribing")
  /\ currentRoom' = [currentRoom EXCEPT ![c] = call[c].grain]
  /\ UNCHANGED <<clients, userID>>

\* ... and stays it, whatever comes of that (see Delivery).
Subscribed(c) ==
  /\ pc[c] = "subscribing"
  /\ pc' = [pc EXCEPT ![c] = "reading"]
  /\ UNCHANGED <<clients, clientVars, call, reply, grainVars, disturbed>>

\* A room that is full refuses, which Rpc turns into an error.
JoinRefused(c) ==
  /\ Return(c, "Join", "refused", "reading")
  /\ UNCHANGED <<clients, clientVars>>

\* Mutant: the room that was left stays the current one.
LeaveReturnKeeping(c) ==
  /\ Return(c, "Leave", "ok", "reading")
  /\ UNCHANGED <<clients, clientVars>>

LeaveReturn(c) ==
  /\ Return(c, "Leave", "ok", "reading")
  /\ currentRoom' = [currentRoom EXCEPT ![c] = None]
  /\ UNCHANGED <<clients, userID>>

\* Mutant: readPump returns without unregistering its client.
DisconnectSilently(c) ==
  /\ pc[c] \in Reading
  /\ pc' = [pc EXCEPT ![c] = "closed"]
  /\ UNCHANGED <<clients, clientVars, call, reply, grainVars, disturbed>>

\* readPump finds the connection gone, and returns.  No grain is told.
Disconnect(c) ==
  /\ pc[c] \in Reading
  /\ pc' = [pc EXCEPT ![c] = "closed"]
  /\ Unregister(c)
  /\ UNCHANGED <<clientVars, call, reply, grainVars, disturbed>>

-----------------------------------------------------------------------------
(* The grains.                                                             *)

HandleLogin(u) ==
  /\ Take(u, "Login", "ok")
  /\ online' = [online EXCEPT ![u] = TRUE]
  /\ forgotten' = forgotten \ {<<Head(mailbox[u]).from, u>>}
  /\ UNCHANGED members

\* g.currentRoom is assigned nothing but "", so the room is never left.
HandleLogout(u) ==
  /\ Take(u, "Logout", "ok")
  /\ online' = [online EXCEPT ![u] = FALSE]
  /\ UNCHANGED <<members, forgotten>>

HandleJoin(r) ==
  /\ \/ /\ Take(r, "Join", "ok")
        /\ members' = [members EXCEPT ![r] = @ \cup {Head(mailbox[r]).user}]
        /\ forgotten' = forgotten \ {<<Head(mailbox[r]).from, r>>}
     \/ /\ Take(r, "Join", "refused")
        /\ UNCHANGED <<members, forgotten>>
  /\ UNCHANGED online

HandleLeave(r) ==
  /\ Take(r, "Leave", "ok")
  /\ members' = [members EXCEPT ![r] = @ \ {Head(mailbox[r]).user}]
  /\ UNCHANGED <<online, forgotten>>

\* A grain is activated again, on another node when its own has failed: with the
\* state its Init gives it, and without the requests it had.
Reactivate(g) ==
  /\ mailbox' = [mailbox EXCEPT ![g] = << >>]
  /\ online' = [u \in Users |-> online[u] /\ u # g]
  /\ members' = [r \in Rooms |-> IF r = g THEN {} ELSE members[r]]
  /\ forgotten' = forgotten \cup (Conns \X {g})
  /\ UNCHANGED <<clients, clientVars, pc, call, reply, disturbed>>

-----------------------------------------------------------------------------
Init ==
  /\ clients = [u \in Users |-> None]
  /\ userID = [c \in Conns |-> None]
  /\ currentRoom = [c \in Conns |-> None]
  /\ pc = [c \in Conns |-> "new"]
  /\ call = [c \in Conns |-> None]
  /\ reply = [c \in Conns |-> None]
  /\ mailbox = [g \in Grains |-> << >>]
  /\ online = [u \in Users |-> FALSE]
  /\ members = [r \in Rooms |-> {}]
  /\ disturbed = [c \in Conns |-> FALSE]
  /\ forgotten = {}

Returns(c) ==
  LoginReturn(c) \/ LogoutReturn(c) \/ JoinReturn(c) \/ JoinRefused(c) \/ LeaveReturn(c)

Handler(c) ==
  LoginRegister(c) \/ LoginRequest(c) \/ Returns(c) \/ Subscribed(c) \/ TimeOut(c)

Client(c) ==
  \/ Connect(c)
  \/ \E u \in Users : LoginCheck(c, u)
  \/ LogoutRequest(c)
  \/ \E r \in Rooms : JoinRequest(c, r)
  \/ LeaveRequest(c)
  \/ Disconnect(c)

Grain ==
  \/ \E u \in Users : HandleLogin(u) \/ HandleLogout(u)
  \/ \E r \in Rooms : HandleJoin(r) \/ HandleLeave(r)
  \/ \E g \in Grains : Reactivate(g)

\* Clients that behave as web/static/js/chat.js does: a connection logs in once.
Next == Grain \/ \E c \in Conns : Client(c) \/ Handler(c)

\* Goroutines run on and timers fire; of the grains nothing is expected.
Fairness == \A c \in Conns : WF_vars(Handler(c))

Spec     == Init /\ [][Next]_vars
FairSpec == Spec /\ Fairness

-----------------------------------------------------------------------------
(* Properties.                                                             *)

\* Every variable has its type; a call is noted, and a reply arrives, only for
\* a handler that is busy with one.
TypeOK ==
  /\ clients \in [Users -> Conns \cup {None}]
  /\ userID \in [Conns -> Users \cup {None}]
  /\ currentRoom \in [Conns -> Rooms \cup {None}]
  /\ pc \in [Conns -> PCs]
  /\ call \in [Conns -> Call \cup {None}]
  /\ reply \in [Conns -> {"ok", "refused", None}]
  /\ mailbox \in [Grains -> Seq(Request)]
  /\ online \in [Users -> BOOLEAN]
  /\ members \in [Rooms -> SUBSET Users]
  /\ disturbed \in [Conns -> BOOLEAN]
  /\ forgotten \in SUBSET (Conns \X Grains)
  /\ \A c \in Conns : reply[c] # None => pc[c] = "waiting"
  /\ \A c \in Conns : pc[c] \in {"checked", "registered", "waiting"} <=> call[c] # None

\* An entry of wm.clients never outlives its connection: whoever is registered
\* is connected and calls itself the user it is registered as.  However logins
\* and disconnects of one user overlap, nobody stays locked out as "online".
EntryIsLive ==
  \A u \in Users : clients[u] # None => userID[clients[u]] = u /\ Open(clients[u])

\* The connection and the room agree on where the user is, across the RPCs that
\* change first the one and then the other, unless one of these timed out, the
\* user has had two connections at once, or the room has been activated again
\* since the connection last joined it.
RoomViewExact ==
  \A c \in Conns : \A r \in Rooms :
    currentRoom[c] = r /\ pc[c] \in Reading /\ ~disturbed[c] /\ <<c, r>> \notin forgotten
      => userID[c] \in members[r]

\* Under the same conditions the registry of the gateway and the UserGrain agree
\* that the user is online, unless the UserGrain has been activated again since
\* the connection logged in: nothing tells it once more.
OnlineExact ==
  \A u \in Users :
    LET c == clients[u] IN
    c # None =>
      (pc[c] \in Reading /\ ~disturbed[c] /\ <<c, u>> \notin forgotten => online[u])

\* A handler always gets back to its connection, whatever becomes of requests
\* and replies: no grain can keep a reading goroutine.
HandlersReturn ==
  \A c \in Conns :
    pc[c] \in {"checked", "registered", "waiting", "subscribing"} ~> pc[c] \in Reading

-----------------------------------------------------------------------------
(* A statement of the source that the code does not keep.                  *)

\* websocket.go:656: IsUserOnline "checks whether the user is online".
OnlineIsRegistered ==
  \A c \in Conns : pc[c] = "reading" /\ userID[c] # None => clients[userID[c]] # None
=============================================================================
