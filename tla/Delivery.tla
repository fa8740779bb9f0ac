------------------------------ MODULE Delivery ------------------------------
(***************************************************************************)
(* How a message gets from one browser to the others: the handlers of      *)
(* internal/api/websocket.go that a logged in client calls, the ChatGrain  *)
(* of each room, the topic the room publishes to, and the WebSocketGrain   *)
(* that each login spawns and each join subscribes.                        *)
(*                                                                         *)
(* A client is one connection with its goroutine readPump.  The topic      *)
(* actor belongs to the framework and is external: it takes the batches of *)
(* a room one after the other and sends each to the subscribers it has by  *)
(* then.  Batches and single copies may get lost on the way.  When a node  *)
(* fails, its rooms and topics are activated on another and start empty.   *)
(* What happens behind the WebSocketGrain is the business of SendQueue;    *)
(* that a room may be full, of ChatRoom: here any join may be refused.     *)
(***************************************************************************)
EXTENDS Integers, Sequences

CONSTANTS
  Clients,  \* logged in connections, each of a user of its own
  Rooms,    \* room ids, which are the topics, too
  None,     \* no room, no call, no reply, no subscription
  MaxAsks,  \* bound: requests of all clients
  MaxMail,  \* bound: requests in a mailbox
  MaxSaid,  \* bound: text messages of a room
  MaxMoves  \* bound: activations on another node

Ops     == {"Create", "Join", "Leave", "Send", "Users"}
Call    == [op : Ops, room : Rooms]
Request == [op : Ops, from : Clients, live : BOOLEAN] \* live: its caller waits
Reply   == [ok : BOOLEAN, knows : BOOLEAN, n : Nat] \* knows: it counts the caller in
Sent(n) == [ok |-> TRUE, knows |-> TRUE, n |-> n]  \* n: the number of the message in it
Good    == Sent(0)
Empty   == [ok |-> TRUE, knows |-> FALSE, n |-> 0]
Refusal == [ok |-> FALSE, knows |-> FALSE, n |-> 0]

\* A frame new_message on the connection: message n, by one way or the other.
Frame == [way : {"topic", "reply"}, n : Nat]

ASSUME DeliveryAssumption ==
  /\ None \notin Rooms \cup Call \cup Reply \cup Nat
  /\ MaxAsks \in Nat /\ MaxMail \in Nat /\ MaxSaid \in Nat /\ MaxMoves \in Nat

VARIABLES
  grain,        \* has the login spawned a WebSocketGrain (client.pid)?
  currentRoom,  \* client.currentRoom
  pc,           \* where the goroutine of each client is
  call,         \* the request it is waiting for
  reply,        \* the reply that has come back
  asked,        \* counts the requests
  mailbox,      \* mailbox[r]: the requests ChatGrain r has not finished
  members,      \* the keys of ChatGrain.members
  log,          \* log[r]: the sender of each text message, in order
  busy,         \* busy[r]: the message r is publishing, 0 if none
  batches,      \* batches[r]: published, not yet taken by the topic actor
  subs,         \* subs[r]: the clients whose grain is subscribed
  wire,         \* wire[r][c]: copies from topic r to the grain of c
  heard,        \* heard[r][c]: the frames with messages of r that c has been sent
  since,        \* history: how many messages r had when c subscribed
  lost,         \* history: <<r, c, n>> if copy n got lost
  late,         \* history: a request of the client has timed out
  unknown,      \* history: <<c, r>> if c got an answer of r that does not count it in
  moved,        \* history: the rooms that have lost their members
  moves         \* counts the activations on another node

clientVars == <<grain, currentRoom>>
roomVars   == <<members, log, busy>>
topicVars  == <<batches, subs, wire, heard, since, lost>>
moveVars   == <<moved, moves>>
vars == <<clientVars, pc, call, reply, asked, mailbox, roomVars, topicVars, late, unknown, moveVars>>

PCs == {"new", "idle", "waiting", "subscribing"}

-----------------------------------------------------------------------------
(* global.Rpc, as in Gateway.                                              *)

Post(c, op, r) ==
  /\ pc[c] = "idle" /\ asked < MaxAsks
  /\ asked' = asked + 1
  /\ call' = [call EXCEPT ![c] = [op |-> op, room |-> r]]
  /\ pc' = [pc EXCEPT ![c] = "waiting"]
  /\ \/ /\ Len(mailbox[r]) < MaxMail
        /\ mailbox' = [mailbox EXCEPT ![r] = Append(@, [op |-> op, from |-> c, live |-> TRUE])]
     \/ UNCHANGED mailbox
  /\ UNCHANGED <<clientVars, reply, roomVars, topicVars, late, unknown, moveVars>>

\* Room r is at a request of this kind.
At(r, op) == busy[r] = 0 /\ mailbox[r] # << >> /\ Head(mailbox[r]).op = op

\* It is done with it.
Answer(r, outcome) ==
  /\ mailbox' = [mailbox EXCEPT ![r] = Tail(@)]
  /\ reply' = IF Head(mailbox[r]).live
              THEN [reply EXCEPT ![Head(mailbox[r]).from] = outcome] ELSE reply
  /\ UNCHANGED <<clientVars, pc, call, asked, late, unknown, moveVars>>

Return(c, op, outcome, next) ==
  /\ pc[c] = "waiting" /\ call[c].op = op /\ reply[c] = outcome
  /\ pc' = [pc EXCEPT ![c] = next]
  /\ reply' = [reply EXCEPT ![c] = None]
  /\ UNCHANGED <<grain, asked, mailbox, roomVars, batches, subs, wire, since, lost, late, moveVars>>

\* Mutant: the future of a request that timed out is not given up.
GiveUpNot(c) == UNCHANGED mailbox

\* The reply to a request that timed out goes nowhere.
GiveUp(c) ==
  mailbox' = [r \in Rooms |-> [i \in 1 .. Len(mailbox[r]) |->
    IF mailbox[r][i].from = c THEN [mailbox[r][i] EXCEPT !.live = FALSE] ELSE mailbox[r][i]]]

\* Five seconds have passed: every handler reports an error, and no more.
TimeOut(c) ==
  /\ pc[c] = "waiting"
  /\ pc' = [pc EXCEPT ![c] = "idle"]
  /\ call' = [call EXCEPT ![c] = None]
  /\ reply' = [reply EXCEPT ![c] = None]
  /\ late' = [late EXCEPT ![c] = TRUE]
  /\ GiveUp(c)
  /\ UNCHANGED <<clientVars, asked, roomVars, topicVars, unknown, moveVars>>

-----------------------------------------------------------------------------
(* The clients.                                                            *)

\* OnLogin spawns a WebSocketGrain; if the login RPC fails nobody calls it,
\* and the client is registered without.
Login(c) ==
  /\ pc[c] = "new"
  /\ pc' = [pc EXCEPT ![c] = "idle"]
  /\ grain' \in {grain, [grain EXCEPT ![c] = TRUE]}
  /\ UNCHANGED <<currentRoom, call, reply, asked, mailbox, roomVars, topicVars, late, unknown, moveVars>>

\* handleCreateRoom and handleJoinRoom take any room, ...
Ask(c, r) == \E op \in {"Create", "Join"} : Post(c, op, r)

\* ... handleLeaveRoom, handleSendMessage and handleGetRoomUsers the current one.
AskCurrent(c) ==
  /\ currentRoom[c] # None
  /\ \E op \in {"Leave", "Send", "Users"} : Post(c, op, currentRoom[c])

CreateReturn(c) ==
  /\ Return(c, "Create", Good, "idle")
  /\ call' = [call EXCEPT ![c] = None]
  /\ UNCHANGED <<currentRoom, heard, unknown>>

\* handleJoinRoom: the room becomes the current one, then comes the topic.
JoinReturn(c) ==
  /\ Return(c, "Join", Good, "subscribing")
  /\ currentRoom' = [currentRoom EXCEPT ![c] = call[c].room]
  /\ UNCHANGED <<call, heard, unknown>>

JoinRefused(c) ==
  /\ Return(c, "Join", Refusal, "idle")
  /\ call' = [call EXCEPT ![c] = None]
  /\ UNCHANGED <<currentRoom, heard, unknown>>

\* SubscribeTopic.  A grain is a subscriber once however often it subscribes;
\* an error, or a client without a grain, is passed over and the join stands.
Subscribe(c) ==
  /\ pc[c] = "subscribing"
  /\ LET r == call[c].room IN
     \/ /\ grain[c]
        /\ subs' = [subs EXCEPT ![r] = @ \cup {c}]
        /\ since' = IF since[r][c] = None
                    THEN [since EXCEPT ![r][c] = Len(log[r])] ELSE since
     \/ UNCHANGED <<subs, since>>
  /\ pc' = [pc EXCEPT ![c] = "idle"]
  /\ call' = [call EXCEPT ![c] = None]
  /\ UNCHANGED <<clientVars, reply, asked, mailbox, roomVars, batches, wire, heard, lost, late, unknown, moveVars>>

\* handleLeaveRoom: nothing is unsubscribed.
LeaveReturn(c) ==
  /\ Return(c, "Leave", Good, "idle")
  /\ currentRoom' = [currentRoom EXCEPT ![c] = None]
  /\ call' = [call EXCEPT ![c] = None]
  /\ UNCHANGED <<heard, unknown>>

\* handleSendMessage passes on the message in the reply, too: to the browser it
\* is a new_message like the copy from the topic, which may come before or after.
SendReturn(c) ==
  /\ reply[c] # None /\ reply[c].n # 0 /\ Return(c, "Send", reply[c], "idle")
  /\ heard' = [heard EXCEPT ![call[c].room][c] =
       Append(@, [way |-> "reply", n |-> reply[c].n])]
  /\ call' = [call EXCEPT ![c] = None]
  /\ UNCHANGED <<currentRoom, unknown>>

\* So it does the lack of a message, and handleGetRoomUsers the list of users.
Told(c) ==
  /\ \/ Return(c, "Users", Good, "idle") /\ UNCHANGED unknown
     \/ /\ \E op \in {"Send", "Users"} : Return(c, op, Empty, "idle")
        /\ unknown' = unknown \cup {<<c, call[c].room>>}
  /\ call' = [call EXCEPT ![c] = None]
  /\ UNCHANGED <<currentRoom, heard>>

-----------------------------------------------------------------------------
(* The ChatGrains.                                                         *)

\* Mutant: a room that is created over again starts with no members.
HandleCreateAfresh(r) ==
  /\ At(r, "Create")
  /\ Answer(r, Good)
  /\ members' = [members EXCEPT ![r] = {}]
  /\ UNCHANGED <<log, busy, topicVars>>

HandleCreate(r) ==
  /\ At(r, "Create")
  /\ Answer(r, Good)
  /\ UNCHANGED <<roomVars, topicVars>>

HandleJoin(r) ==
  /\ At(r, "Join")
  /\ \/ /\ Answer(r, Good)
        /\ members' = [members EXCEPT ![r] = @ \cup {Head(mailbox[r]).from}]
     \/ /\ Answer(r, Refusal)
        /\ UNCHANGED members
  /\ UNCHANGED <<log, busy, topicVars>>

HandleLeave(r) ==
  /\ At(r, "Leave")
  /\ Answer(r, Good)
  /\ members' = [members EXCEPT ![r] = @ \ {Head(mailbox[r]).from}]
  /\ UNCHANGED <<log, busy, topicVars>>

HandleUsers(r) ==
  /\ At(r, "Users")
  /\ Answer(r, IF Head(mailbox[r]).from \in members[r] THEN Good ELSE Empty)
  /\ UNCHANGED <<roomVars, topicVars>>

\* ChatSendMessageReq of somebody who is not in the room: code OK, no message.
HandleSendOutside(r) ==
  /\ At(r, "Send") /\ Head(mailbox[r]).from \notin members[r]
  /\ Answer(r, Empty)
  /\ UNCHANGED <<roomVars, topicVars>>

\* ChatSendMessageReq: the message is in the history, and Publish begins.
HandleSend(r) ==
  /\ At(r, "Send") /\ Head(mailbox[r]).from \in members[r] /\ Len(log[r]) < MaxSaid
  /\ log' = [log EXCEPT ![r] = Append(@, Head(mailbox[r]).from)]
  /\ busy' = [busy EXCEPT ![r] = Len(log[r]) + 1]
  /\ batches' = [batches EXCEPT ![r] = Append(@, Len(log[r]) + 1)]
  /\ UNCHANGED <<clientVars, pc, call, reply, asked, mailbox, members, subs, wire, heard,
                 since, lost, late, unknown, moveVars>>

\* Mutant: a message is published again when Publish has timed out.
PublishEndsRetrying(r) ==
  /\ busy[r] # 0
  /\ Answer(r, Sent(busy[r]))
  /\ busy' = [busy EXCEPT ![r] = 0]
  /\ batches' \in {batches, [batches EXCEPT ![r] = Append(@, busy[r])]}
  /\ UNCHANGED <<members, log, subs, wire, heard, since, lost>>

\* Publish returns: the topic has the batch, or it is lost, or ten seconds have
\* passed and it may still come.  The room does not look which, and answers
\* with the message.
PublishEnds(r) ==
  /\ busy[r] # 0
  /\ Answer(r, Sent(busy[r]))
  /\ busy' = [busy EXCEPT ![r] = 0]
  /\ UNCHANGED <<members, log, topicVars>>

-----------------------------------------------------------------------------
(* The topics, and the way to the clients.                                 *)

TopicStep == UNCHANGED <<clientVars, pc, call, reply, asked, mailbox, roomVars, subs, since, late, unknown, moveVars>>

\* Mutant: the sender is left out, as the parameter excludeUserId suggests.
DeliverToOthers(r) ==
  /\ batches[r] # << >>
  /\ batches' = [batches EXCEPT ![r] = Tail(@)]
  /\ wire' = [wire EXCEPT ![r] = [c \in Clients |->
       IF c \in subs[r] /\ c # log[r][Head(batches[r])]
       THEN Append(@[c], Head(batches[r])) ELSE @[c]]]
  /\ UNCHANGED <<heard, lost>> /\ TopicStep

\* The topic actor sends a batch to its subscribers, members or not.
Deliver(r) ==
  /\ batches[r] # << >>
  /\ batches' = [batches EXCEPT ![r] = Tail(@)]
  /\ wire' = [wire EXCEPT ![r] = [c \in Clients |->
       IF c \in subs[r] THEN Append(@[c], Head(batches[r])) ELSE @[c]]]
  /\ UNCHANGED <<heard, lost>> /\ TopicStep

LoseBatch(r) ==
  /\ batches[r] # << >>
  /\ batches' = [batches EXCEPT ![r] = Tail(@)]
  /\ lost' = lost \cup ({r} \X Clients \X {Head(batches[r])})
  /\ UNCHANGED <<wire, heard>> /\ TopicStep

\* Mutant: a grain passes on only what belongs to the client's current room.
ArriveIfCurrent(r, c) ==
  /\ wire[r][c] # << >>
  /\ wire' = [wire EXCEPT ![r][c] = Tail(@)]
  /\ heard' = IF currentRoom[c] = r
              THEN [heard EXCEPT ![r][c] = Append(@, [way |-> "topic", n |-> Head(wire[r][c])])]
              ELSE heard
  /\ UNCHANGED <<batches, lost>> /\ TopicStep

\* WebSocketGrain.ChatUserMessage: whatever room the client is in by now.
Arrive(r, c) ==
  /\ wire[r][c] # << >>
  /\ wire' = [wire EXCEPT ![r][c] = Tail(@)]
  /\ heard' = [heard EXCEPT ![r][c] = Append(@, [way |-> "topic", n |-> Head(wire[r][c])])]
  /\ UNCHANGED <<batches, lost>> /\ TopicStep

LoseCopy(r, c) ==
  /\ wire[r][c] # << >>
  /\ wire' = [wire EXCEPT ![r][c] = Tail(@)]
  /\ lost' = lost \cup {<<r, c, Head(wire[r][c])>>}
  /\ UNCHANGED <<batches, heard>> /\ TopicStep

\* The room is activated on another node, with no members and no requests.
MoveRoom(r) ==
  /\ moves < MaxMoves /\ moves' = moves + 1
  /\ moved' = moved \cup {r}
  /\ members' = [members EXCEPT ![r] = {}]
  /\ busy' = [busy EXCEPT ![r] = 0]
  /\ mailbox' = [mailbox EXCEPT ![r] = << >>]
  /\ UNCHANGED <<clientVars, pc, call, reply, asked, log, topicVars, late, unknown>>

\* So is a topic, with no subscribers; a client subscribes when it joins again.
MoveTopic(r) ==
  /\ moves < MaxMoves /\ moves' = moves + 1
  /\ subs' = [subs EXCEPT ![r] = {}]
  /\ since' = [since EXCEPT ![r] = [c \in Clients |-> None]]
  /\ batches' = [batches EXCEPT ![r] = << >>]
  /\ lost' = lost \cup ({r} \X Clients \X {batches[r][i] : i \in 1 .. Len(batches[r])})
  /\ UNCHANGED <<clientVars, pc, call, reply, asked, mailbox, roomVars, wire, heard, late, unknown, moved>>

-----------------------------------------------------------------------------
Init ==
  /\ grain = [c \in Clients |-> FALSE]
  /\ currentRoom = [c \in Clients |-> None]
  /\ pc = [c \in Clients |-> "new"]
  /\ call = [c \in Clients |-> None]
  /\ reply = [c \in Clients |-> None]
  /\ asked = 0
  /\ mailbox = [r \in Rooms |-> << >>]
  /\ members = [r \in Rooms |-> {}]
  /\ log = [r \in Rooms |-> << >>]
  /\ busy = [r \in Rooms |-> 0]
  /\ batches = [r \in Rooms |-> << >>]
  /\ subs = [r \in Rooms |-> {}]
  /\ wire = [r \in Rooms |-> [c \in Clients |-> << >>]]
  /\ heard = [r \in Rooms |-> [c \in Clients |-> << >>]]
  /\ since = [r \in Rooms |-> [c \in Clients |-> None]]
  /\ lost = {}
  /\ late = [c \in Clients |-> FALSE]
  /\ unknown = {} /\ moved = {} /\ moves = 0

Client(c) ==
  \/ Login(c) \/ AskCurrent(c) \/ \E r \in Rooms : Ask(c, r)
  \/ CreateReturn(c) \/ JoinReturn(c) \/ JoinRefused(c) \/ Subscribe(c)
  \/ LeaveReturn(c) \/ SendReturn(c) \/ Told(c) \/ TimeOut(c)

Room(r) ==
  \/ HandleCreate(r) \/ HandleJoin(r) \/ HandleLeave(r) \/ HandleUsers(r)
  \/ HandleSendOutside(r) \/ HandleSend(r) \/ PublishEnds(r)

Topic(r)   == Deliver(r) \/ LoseBatch(r)
Copy(r, c) == Arrive(r, c) \/ LoseCopy(r, c)

Next ==
  \/ \E c \in Clients : Client(c)
  \/ \E r \in Rooms :
       Room(r) \/ Topic(r) \/ MoveRoom(r) \/ MoveTopic(r) \/ \E c \in Clients : Copy(r, c)

\* The topic actor and the network do not stand still; they may lose things.
Fairness == \A r \in Rooms : WF_vars(Topic(r)) /\ \A c \in Clients : WF_vars(Copy(r, c))

Spec     == Init /\ [][Next]_vars
FairSpec == Spec /\ Fairness

-----------------------------------------------------------------------------
(* Properties.                                                             *)

Numbers(s) == {s[i] : i \in 1 .. Len(s)}

\* The messages that c has heard of r by one of the two ways.
By(way, s) == {s[i].n : i \in {j \in 1 .. Len(s) : s[j].way = way}}
Copies(r, c) == By("topic", heard[r][c])

\* Every variable has its type; a reply is there only for a client that waits,
\* and a room that publishes is at a send whose message is its last.
TypeOK ==
  /\ grain \in [Clients -> BOOLEAN]
  /\ currentRoom \in [Clients -> Rooms \cup {None}]
  /\ pc \in [Clients -> PCs]
  /\ call \in [Clients -> Call \cup {None}]
  /\ reply \in [Clients -> Reply \cup {None}]
  /\ asked \in Nat
  /\ mailbox \in [Rooms -> Seq(Request)]
  /\ members \in [Rooms -> SUBSET Clients]
  /\ log \in [Rooms -> Seq(Clients)]
  /\ busy \in [Rooms -> Nat]
  /\ batches \in [Rooms -> Seq(Nat)]
  /\ subs \in [Rooms -> SUBSET Clients]
  /\ wire \in [Rooms -> [Clients -> Seq(Nat)]]
  /\ heard \in [Rooms -> [Clients -> Seq(Frame)]]
  /\ since \in [Rooms -> [Clients -> Nat \cup {None}]]
  /\ lost \in SUBSET (Rooms \X Clients \X Nat)
  /\ late \in [Clients -> BOOLEAN]
  /\ unknown \in SUBSET (Clients \X Rooms)
  /\ moved \in SUBSET Rooms /\ moves \in Nat
  /\ \A c \in Clients : reply[c] # None => pc[c] = "waiting"
  /\ \A c \in Clients : call[c] # None <=> pc[c] \in {"waiting", "subscribing"}
  /\ \A r \in Rooms : busy[r] # 0 =>
       busy[r] = Len(log[r]) /\ mailbox[r] # << >> /\ Head(mailbox[r]).op = "Send"

\* Once a client has subscribed to a room it misses none of the messages that
\* are said from then on, whoever joins, leaves or publishes meanwhile: each is
\* on its way, has been heard, or was lost by the network.  What it may miss is
\* what is said between its join and its subscription.
NothingMissed ==
  \A r \in Rooms, c \in Clients : \A n \in 1 .. Len(log[r]) :
    since[r][c] # None /\ n > since[r][c] =>
      \/ n \in Numbers(batches[r]) \cup Numbers(wire[r][c]) \cup Copies(r, c)
      \/ <<r, c, n>> \in lost

\* A room gives an answer that does not count the client in (a message that is
\* none, a list of users without it) only if a request of the client timed out
\* or the room has started again on another node.
UnknownHasCause == \A p \in unknown : late[p[1]] \/ p[2] \in moved

\* What a client hears of a room by its topic is said there, in order, and each
\* message is heard once.  The client that said a message may hear it twice, once
\* by the topic and once in the reply, in either order and with others between;
\* the replies are in order, too, and nobody gets the reply to another's message.
F == INSTANCE Feed
FeedSpec == F!Spec

\* A published message gets to every client that is subscribed by then, even
\* to one that has left the room, unless the network loses it.
HeardOrLost ==
  \A r \in Rooms, c \in Clients : \A n \in 1 .. MaxSaid :
    c \in subs[r] /\ n \in Numbers(batches[r])
      ~> n \in Copies(r, c) \/ <<r, c, n>> \in lost
=============================================================================
