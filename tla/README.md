# Verification of cluster-actor

cluster-actor is a chat application on a cluster of Go nodes: virtual actors
("grains", protoactor-go) hold users and rooms, Consul provides membership and a
key-value store, browsers talk to any node over WebSocket.  This directory holds
TLA+ models of the parts that carry the program's own logic, TLC configurations
that check them on small instances, and TLAPS proofs of what matters most for
every instance.

Source references are relative to the repository (`src/`).  `PROJECT.json` maps
each definition to the lines it models and lists the hazards, runs, findings and
theorems.

## 1. The system

```
 chat.js ──WebSocket──► readPump (1 goroutine per connection) ──global.Rpc──► UserGrain(user)
                │            │ wm.clients (clientsMu)          └─global.Rpc──► ChatGrain(room)
                │            ▼                                                  │ g.mu
 chat.js ◄── writePump ◄── client.send (256) ◄── WebSocketGrain ◄── Publisher ◄─┘
                                                                  GlobalRoomRegistry (per node)
 HTTP API ──► KVStore (cache, k.mu; watchers, watchersMu) ◄──blocking List── Consul
```

| Component | State | Operations | What is hard | What makes it correct |
|---|---|---|---|---|
| Chat rooms `grains/chat_grain.go` | settings, members, message history | create, join, leave, send, page | messages of many users in any order; a create over a live room; a trim shared with untrimmed notices | members and history tell one story; pages lose nothing |
| Room registry `grains/grain_registry.go` | settings and member count per room | register, update count, list | a second copy of the rooms' state, updated by some handlers only, that outlives the rooms | a room that has told the list never has fewer members than it says |
| Grain registry `grains/grain_registry.go`, `base_grain.go` | activations per kind | register | never unregistered; one per node | what is listed on a node has run there |
| KV cache `kvstore/*.go` | cache, watchers with `lastIndex`, running flag | Start, Stop, Add/RemoveWatcher, one goroutine per watcher | late answers, failures, stop during a query, replacement of watchers | the cache is one moment of the store per prefix, or is so again with the next answer; it catches up |
| WebSocket gateway `api/websocket.go` | `wm.clients`; per connection `userID`, `currentRoom` | login, logout, join, leave, disconnect | handlers of several steps that interleave; RPCs that time out and still happen; grains that start again and know nothing | a registration never outlives its connection; gateway and grains agree |
| User grains `grains/user_grain.go` | `isOnline`, session | login, logout | told by gateways only | online means connected |
| RPC `global/global.go`, `grains/base_grain.go` | futures | request, reply, five second timeout | a request whose caller gave up | a handler always returns |
| Topic delivery `chat_grain.go` broadcast, `api/ws_grain.go`, `api/wsclient.go` | subscriptions, send channel | publish, subscribe, send, write | late subscription, late publishing, overflow, close while sending, activation elsewhere | the topic brings a client each message once and in order, and it misses only what the network lost |
| Consul provider `server/consul_provider.go` | members, event channel | watch, register, stop | dropped events, fields that are stored but not compared, close against send | the subscriber is shown later and later states, in the end the last |
| Server lifecycle `server/server.go`, `main.go` | `isRunning`, `s.mu`, HTTP server | Start, Stop, a signal | a lock held while requests that need it are waited for; a context of 5000 ns | Stop returns; health tells the truth |
| HTTP API `api/*_handlers.go` | none | health, lists, KV | a list put together from nodes that may be down; a guessed port | the list is complete for whoever can be reached |
| Configuration `config/*.go` | fields of the node | file, environment, defaults, validation | order of the three; ports that depend on each other | a node is found where it listens |
| Grain placement (library) | activations | activate, passivate, activate elsewhere | state lost on a move | gateways notice |
| Browser client `web/static/js/chat.js` | session, current room | connect, reconnect | reconnection before the old end is noticed | the user gets back in |
| Dashboard, telemetry, generated code | none that matters | | | |

`PROJECT.json` "components" says for each whether it is modelled, partly modelled
or not, and why.

## 2. Modules

| Module | What it is |
|---|---|
| `RoomLog` | abstract: a room is a log that is a membership protocol and only grows until the room starts again |
| `ChatRoom` | the ChatGrains, on any node, and the GlobalRoomRegistry of each; implements `RoomLog` |
| `SnapshotCache` | abstract: readers see one moment per prefix, and only later ones |
| `KVStore` | KVStore with its watchers against a Consul; implements `SnapshotCache` |
| `Gateway` | connections, `wm.clients`, RPCs, and the grains they reach |
| `Stream` | abstract: what comes of each sender comes in order, once, without a gap |
| `SendQueue` | one connection's send channel, its senders and writePump; implements `Stream` |
| `Feed` | abstract: what is heard of a room is said there; the topic brings it in order and once, replies bring their own message |
| `Delivery` | clients, RPCs, rooms, topics and WebSocketGrains together; implements `Feed` |
| `Observer` | abstract: a subscriber is shown later and later moments, when something changed |
| `ConsulProvider` | watchTopology, its event channel, Start and Stop, against a Consul; implements `Observer` |
| `ServerLifecycle` | main, Server.Start and Stop, a signal, and requests that come meanwhile |
| `GrainCluster` | several nodes: configurations, activations, registries, the list of all grains |
| `MC...` | small instances for TLC, one module per model |
| `...Proof` | theorems, one module per model that has any |

`ChatRoom`, `Gateway` and `SendQueue` each look closely at one part; `Delivery` composes what
they leave out of one another: several clients, the rooms they call and the topics they
hear.  The other three are about the node and the cluster around it.

### ChatRoom

A grain handles one message at a time under `g.mu`, so one handler is one action:
`Create` (ChatCreateRoomReq), `Join`, `Leave`, `Send` and, for the answer of
ChatGetMessagesReq, the operator `Page`.  `room[r]`, `members[r]`, `messages[r]` are
the grain's fields, `node[r]` is where it is active and `registry[n][r]` what node `n` lists
of it.  Each action makes every
call of its handler that changes state: `Send` trims, `Leave` updates the registry
and `Join` does not, `Create` registers the room with no members whatever it holds.
`Activate` is the room starting again, on the same node or another: its fields are those
of `ChatGrain.Init`, and the entries in the registries, which belong to the processes, stay.
Refused requests change nothing and have no action.  `now` is the clock the message
ids are taken from.  `log` and `told` are history variables: what was appended since the
room was activated, and the rooms that have written their entry since.

Left out: names, message contents, `joinedAt`/`createdAt`; broadcasting is in `Delivery`.

### KVStore

A value is represented by its ModifyIndex, a prefix by the set of keys under it.
Consul is external: `hist[i]` is the store at index *i*, so an answer is just an index,
namely a possible `X-Consul-Index` of a list of those keys (`IsLastIndex`).
`Put`/`Delete` are writes of this or another node.  Each watcher goroutine runs
`Poll → (Answer | TimeOut | Fail) → (Apply | Skip)`, with `WakeUp` after a failure;
the answer is computed in one step and applied in another, which is where watchers,
writers and Stop interleave.  `Start` holds `watchersMu` while it loads prefix
after prefix (`StartBegin`, `StartList`, `StartSync`, `StartListFails`, `StartEnd`);
`Stop`, `AddWatcher`, `RemoveWatcher` take the lock and wait for no goroutine.
NewKVStore installs one watcher; `Default` allows any set of disjoint prefixes,
which is what AddWatcher before Start gives.  `Next` is what `server.go` does with
the store, `NextAPI` adds the exported methods nobody calls yet.  `foreign` is a history
variable: whether another watcher has written under a watcher's prefix since it listed
the answer it applied last.

Left out: readers that hold a cached entry while it is updated, the result of a CAS, a
Consul that loses its data (section 6).

### Gateway

Each connection is opened at most once and has a `pc`.  `handleLogin` is
`LoginCheck` (read lock), `LoginRegister` (write lock), `LoginRequest`, `LoginReturn`;
logout, join and leave are a request and a return, and a join goes on to wait for the topic
(`JoinReturn`, `Subscribed`).  handleLogout also sends its request bare (`websocket.go:268`),
which BaseGrain.Receive only logs; that message is left out.  A request is put into the
mailbox of a grain or lost; the grain's `Handle…` takes it and answers; `TimeOut` ends
the handler after five seconds although the request may still be in the mailbox, in
which case its answer goes nowhere.  `Disconnect` can only be noticed by a goroutine
that is reading, not by one in an RPC.  Whether a room is full is `ChatRoom`'s
business; here a join may always be refused.  Requests of a node to one grain are
handled in the order they are sent: the remote stream of protoactor keeps it as
long as the grain does not move.  When a grain is activated again (`Reactivate`) its
requests, its members or its `isOnline` are gone, and the gateway is not told.  A client logs in
once on a connection, which is what `chat.js` does; the server would take a second login.

`disturbed` is a history variable.  It marks the connections of which a request
timed out or whose user had two connections at the same time: for those the gateway
and the grains may disagree.  `forgotten`, another one, has the connections and grains of
which the grain has been activated again since it last let the connection in.  The agreement
properties are about all others.

Left out: handlers that change nothing here (create room, send, lists); subscriptions
are in `Delivery`, the send channel in `SendQueue`.

### SendQueue

One connection, from `client.send` (`queue`, `closed`) to the browser (`got`).
Senders are the readPump, whose handlers answer requests, and the WebSocketGrains, which
pass room messages on; a login spawns one, so there may be several.  `Offer` is the
`select` of sendToClient and SendToClient, which does not block, and `CloseSend` its
default case: between the two another sender may do the same.  Neither looks whether
the channel is closed, so a later send or a second close panics (`Panic`): there is no
recover() in readPump, where it ends the process (`crashed`), while an actor is restarted
or stopped by its supervisor, which is the library's business and left open.
writePump is `Take`, `Count`, `More`, `Flush`: it counts the channel once and then receives
that many messages into the same frame; `WriteFails` and `EndOfQueue` are its returns.
`ReadFails` is the readPump's; it closes the connection and not the channel.
`PeerGone` is the client or the network.  `accepted` and `got` are history variables.

Left out: what the messages say, SendToUser (no caller), frames the client has
received without the end of the connection showing it to the server (they count as
not received only when the connection is down).

### Delivery

The way of a message from one browser to the others.  A client is a logged in connection
with its readPump (`pc`), which waits in one RPC at a time; `Ask` and `AskCurrent` are the
first halves of handleCreateRoom, handleJoinRoom, handleLeaveRoom, handleSendMessage and
handleGetRoomUsers, the `…Return` actions the second, `TimeOut` the five seconds.  A
ChatGrain has a `mailbox` and handles one request after the other; `HandleSend` puts the
message into the history and begins to publish, and until `PublishEnds` the room is `busy`:
Publish is called under the room's lock, and its result is not looked at.  A join is three
steps: the room's answer, `JoinReturn`, `Subscribe`.  `heard` are the frames `new_message` on
a connection: copies from the topic (`Arrive`), and the message in the reply to one's own
send, which handleSendMessage passes on in the same form (`SendReturn`).  Login may leave a client without a
WebSocketGrain (`grain`), when the RPC that comes first fails.

External: the topic actor of protoactor-go, which takes the batches of a room in order and
sends each to its subscribers (`Deliver`), the network, which may lose a batch or a copy,
and the activation of a room or a topic on another node after a failure, empty (`MoveRoom`,
`MoveTopic`).  `since`, `lost`, `late`, `unknown` and `moved` are history variables.

Left out: whether a room is full, pages and the registry (`ChatRoom`); disconnects and logouts
(`Gateway`); what is between the WebSocketGrain and the browser (`SendQueue`).

### ConsulProvider

Consul is external with an explicit history, so that a list of members is a number:
`members`, an event and what the subscriber has seen are indexes into `hist`.  Services
are registered with an address and a TTL check, kept passing by heartbeats, go critical and are
reaped, and may be registered again at any time, at another address.  updateTopology stores all
of a member and compares whether it is there and passing (`Changed`), so `Healths` is
what events can be held to; a changed address is stored and not announced.  The goroutine watchTopology is `Tick`, `Query` or `QueryFails`, `Diff` (which stores the
members under p.mu and finds out whether anything has changed), `Send` (which drops the
event if the channel is full), and back to its select (`Wait`).  `Stop` closes both channels;
a goroutine that is in an update by then, or on its way back from one (`caught`), may
still send, which is a panic.  `Start` may be called again
after a Stop, with the channels closed.

NewServer does not use this provider: it passes protoactor's own `consul.New()`, with that
package's default address, and so does not use the Consul address of the configuration
either.  The module is about the code that is there.

### ServerLifecycle

`main` runs Start (`StartMember`, `StartKV`, `StartEnds`), `StartHTTPServer`, `Notify`, and after
the signal Stop (`StopBegins`, `StopKV`, `ShutdownBegins`, `ShutdownEnds`, `ClusterShutdown`,
`StopEnds`) and `Exit`.  `mu` is s.mu, held through the whole of Start and of Stop.  Requests
are of three kinds: those that call IsRunning and wait for s.mu (health, info), sockets,
which the HTTP server forgets once they are taken over, and the rest.  `Interrupt` before
`Notify` ends the process.  `Expire` is the context of Stop, which main.go makes with
`5000`, that is nanoseconds.

### GrainCluster

A node is a process with a configuration, made of a file and an environment by
`Load` (`applyEnvOverride`, `setDefaults`, `validate`, in this order).  Only the fields that
decide where a node is found are modelled; nodes have addresses of their own, for they
could not run otherwise.  The port 10000 above the first, which `server.go:37` opens for
Prometheus, is left out.  `Activate` and `Passivate` are the library's doing; BaseGrain
registers on the first and does nothing on the second.  `ListBegins`, `Fetch`, `FetchFails`
and `ListEnds` are getActorInstances: member by member it asks the address that
GetMembers and grpcToHTTPAddress make up, and files what it gets under the member's name.
`due`, a history variable, is what the list has to have: the grains of members that can be
reached where they are looked for (`Follows`) and neither end nor answer too late.

## 3. What TLC checks

Passing runs:

| Run | Instance | Properties | What it shows |
|---|---|---|---|
| `rooms` | 1 room on 2 nodes, 2 users, capacities default and 1, limit 3, page 3, 7 events | `TypeOK` `PagesAreComplete` `Overshoot` `MembersMatchLog` `ListedNeverOverstates` `RoomLogSpec` | whatever trims and notices do, a page is exactly the last events; the history overshoots only by the notices since the last text; from its first entry after an activation the room list never shows too many members; ChatRoom implements RoomLog |
| `kv_cache` | 2 prefixes (2 keys, 1 key), 3 indexes, fair | `TypeOK` `CacheIsSnapshot` `SnapshotSpec` `CatchesUp` `StopsEventually` | loads, late answers, failures and stops never leave a mixture of two moments under a prefix; KVStore implements SnapshotCache; watched prefixes catch up again and again, told goroutines end |
| `kv_api` | 1 prefix, 2 keys, 2 watchers, 4 indexes | `PrefixIsSnapshot` | a watcher replaced while its query is out: under a watcher's prefix the cache is one moment of the store, unless another has written there since, and again with the first answer listed after that |
| `gateway` | 2 connections of 1 user, 1 room, fair | `TypeOK` `EntryIsLive` `RoomViewExact` `OnlineExact` `HandlersReturn` | no registration outlives its connection; room and user grain agree with undisturbed connections they have not forgotten; no grain can keep a reading goroutine |
| `send_queue` | readPump and 1 grain, channel of 2, 4 messages each, fair | `TypeOK` `FrameNeverWaits` `DrainedWhenClosed` `StreamSpec` `PumpsEnd` | overflow, close, panic, lost frames and a client that goes away leave what the client got an unbroken stream; a closed channel is written out before the connection ends; no frame waits for a message; the pumps end together |
| `delivery` | 2 clients, 1 room, 4 requests, 2 messages, 1 move, fair | `TypeOK` `NothingMissed` `UnknownHasCause` `FeedSpec` `HeardOrLost` | joins, leaves, sends and publishing overlap: after its subscription a client misses only what the network loses, hears by the topic each message once and in order, its own besides in the reply, and is not forgotten by a room without a cause; Delivery implements Feed |
| `topology` | 2 services with 2 addresses, channel of 1, 3 states of Consul, 2 starts, fair | `TypeOK` `MembersAnnounced` `CrashNeedsOverlap` `ObserverSpec` `ShowsTheLast` | members stored and members announced agree in names and health unless an event was dropped; the process comes down only when Stop meets an update or comes twice; the subscriber sees later and later states and in the end the last names and health, and the members stored are in the end right, addresses included; ConsulProvider implements Observer |
| `lifecycle` | 3 requests of any kind, fair | `TypeOK` `HealthyWhileUp` `CutOnlyByDeadline` `StopReturns` | Stop returns although it holds the lock that some of the requests it waits for need; it cuts requests off only when its context has run out; nobody is told "healthy" by a node that is not in the cluster or is stopping |
| `cluster` | 2 nodes with all configurations, 1 grain, 1 crash, fair | `TypeOK` `ListComplete` `ListedRan` `ListReturns` | the list of all grains is complete and right for members that can be reached where they are looked for, and is finished whoever fails |

Runs that must find a violation; each refutes a sentence of the source and is a
finding in `PROJECT.json`:

| Run | Statement refuted | What happens |
|---|---|---|
| `send_frames` | `chat.js:138` handle a message (`:142` parses the frame as one) | messages that wait together share a frame, and the client drops all of them |
| `gateway_online` | `websocket.go:656` is the user online | a connection unregisters another one's entry |
| `cluster_labels` | `actor_handlers.go:99` every instance has the right node name | a member on another host is asked for on the own host, and the answer is filed under its name |

Some behaviours of the code are in the models without a run that singles them out,
and the properties above are worded so as to allow them:

* Rooms: a join is not reported to the registry and a second create sets its count to 0, so
  the room list may show too few members.  A room that starts again has nobody, while the
  list of its node shows what its predecessor wrote, until it writes itself
  (`ListedNeverOverstates`: from then on never too many); the list of a node it has left does
  for good.  A second
  create may also set a capacity below the number of members.  A full history grows
  past 100 by join and leave notices (`Overshoot` says how far).  Two messages within a
  millisecond get the same id.
* The registry of rooms is one per node, so a list lacks the rooms of other nodes
  (`grain_registry.go:93`).
* Two senders that find a channel full close it twice, and readPump's panic ends the
  node (the theorem `ClosedWhenFull` says what it takes to get there).
* KV: an answer that is under way when KVStore stops is applied after Stop.  Stop also
  forgets the watchers, and a later Start has none to run.  `CatchesUp` is about `Spec` only:
  when a watcher is removed and its prefix added again, the late answer of the old one
  may delete a key the new one has copied, or bring back one that is gone, and nothing repairs
  it until the prefix changes.  `PrefixIsSnapshot` says that this is the only way to a
  mixture, and that the first answer that is listed afterwards and applied ends it.
* Gateway: two logins of one user may both pass the check, which is made under another lock
  than the registration.  A second login on one connection, which `chat.js` never sends,
  would leave the first user's entry behind.  A logout leaves the user in the room, because
  `UserGrain.currentRoom` is never given one; a disconnect without a logout leaves the
  user in the room and online.  A grain that is activated again has forgotten its user, who is
  still registered or in the room by the gateway's account; nothing but another login or
  join tells it (`OnlineExact` and `RoomViewExact` except it by `forgotten`).
* Delivery: leaving a room does not unsubscribe from its topic, so who has left goes on
  hearing it.  The sender gets its own message twice, by reply and by the topic, in either order
  and with messages of others between: with the reply first, it sees its own before older ones
  that are still on the way.  `Feed` keeps the two ways apart.  What is said
  between a join and its subscription is heard by nobody who joins.  A topic that is
  activated on another node has no subscribers until clients join again.
* Provider: a service that comes back at another address is stored under it, and no event says
  so; GetMemberByName answers the new address, and a subscriber keeps the old one until an event for
  another reason.  An event that was dropped is never repeated.  If the cluster then returns to
  what was shown last, the next event is what the subscriber has seen already.  A second
  Start finds its channels closed.
* Lifecycle: the context of Stop is 5000 ns, so `Expire` may come at once and a graceful
  shutdown cuts off whatever is being handled.
* Cluster: a `PORT` override together with a configured `health_check_port` puts a node where
  the listing does not look.  A derived HTTP port above 65535 is only logged, and the node
  runs without HTTP.

### Bounds

* `HistoryLimit` 3, `PageMax` 3, `PageDefault` 2 stand for 100, 50 and 20, `DefaultMax` 2
  for 50.  Only their order matters to the code.  Checking with `PageMax` equal to the
  limit is the hardest case for pages: no slack hides a lost message.
* `MaxLog` 7 is more than twice the limit, so that the history is trimmed, overshoots
  with notices and is trimmed again.  `MaxTime` 1: two messages in one millisecond and in
  different ones.
* `MaxIndex` 3 or 4: the initial store, then an update and a delete, or a delete and a
  key that comes back (with 4, one change more).
* `gateway`: of the UserGrain and the room only one at a time has forgotten anybody (`OneForgets`),
  since the two know nothing of each other; either may, as often as it likes.
* `MaxMail` 2: one more request behind one whose caller has given up.  A request
  that finds the mailbox at the bound is lost, which the network may do anyway.
* Two connections: a winner and a loser of the login race, or one that comes after the
  other has gone.  What three add to the invariants is left to their proofs.
* `Capacity` 2 stands for 256: a full, a half full and an empty channel, frames of one to
  three messages.  `MaxOffers` 4: more than fits, from either sender alone.
* `rooms`, 1 201 564 states up to symmetry, `kv_cache` 273 069, `kv_api` 1 023 520, `gateway` 511 466:
  two nodes are one to start again on and one whose list is left behind; the others as above.
* `delivery`, 885 658 states: `MaxAsks` 4 requests of two clients are two joins and two
  sends, or a join, a leave, another join and a send; `MaxSaid` 2 messages are what order and
  repetition need; `MaxMoves` 1 activation of room or topic elsewhere.
* `topology`, 803 912 states: `ChanCap` 1 stands for 10, empty and full.  `MaxHist` 3: a
  change, and another one that finds the channel full or takes the first one back, be it of
  health, address or both.  Every first state is among the histories.
  `MaxStarts` 2: two goroutines.
* `lifecycle`, 4595 states: one request of each kind, or several of one.
* `cluster`, 96 816 states: ports are scaled down (`DefaultPort` 3, `Offset` 2, `MaxPort` 9) so
  that a port in a file (8) leaves no room for the derived one, an override (10) is no port
  and another one (4) does not fit a configured HTTP port (5).  Two hosts, two nodes, one
  grain that may be active on both.

Symmetry is used in the ChatRoom run, over users, rooms and nodes; it checks no liveness.  The runs
that do leave out mirror images instead: `delivery` those of two clients of which one has no
WebSocketGrain (`GrainFirst`), `topology` those of the two addresses (`MCInit`).
Deadlock is checked for ChatRoom and KVStore.  The other systems may really stop: every
connection has come and gone, every message was sent, the bounds on requests, states or
crashes are reached, or the process has ended.

### Fairness

* `KVStore`: the goroutines and Start run on (weak); a query returns within its
  WaitTime (weak, part of `Goroutine`); and Consul does not fail a query it has news for
  every time it is repeated (strong, `Answer`).  Without the last a cut-off node need
  never catch up, and the code cannot do anything about it.  Writers, Stop and the
  callers of the API are not fair.
* `Gateway`: a handler goroutine runs on and its timer fires (weak).  Nothing is
  assumed of grains, clients or the network.
* `SendQueue`: the goroutines run on and an overflowing sender gets to its close (weak).
  That includes noticing a connection that is gone: readPump by its 60 s deadline or by
  the other pump's Close, writePump by its 30 s ping.  Nobody has to send anything.
* `Delivery`: the topic actor and the network go on (weak): what they have they deliver or
  lose.  Nothing is assumed of clients or rooms, which may hang.
* `ConsulProvider`: goroutines run on, with the ticker behind them, and the subscriber reads
  (weak); Consul does not fail every query (strong, `Query`).
* `ServerLifecycle`: main runs on and the clock does (weak).  No request has to end: it is the
  context that gets Stop past a handler that waits for Stop's own lock.
* `GrainCluster`: the three seconds of a call pass and the handler goes on (weak).  No node
  has to answer.

## 4. What is proved

All theorems hold for every value of the constants that satisfies the module's
ASSUME (`ChatRoomAssumption`, `KVStoreAssumption`, `GatewayAssumption`,
`SendQueueAssumption`, `DeliveryAssumption`, `ConsulProviderAssumption`,
`GrainClusterAssumption`: bounds are numbers, None is none of the values it stands
beside, and for KVStore the default prefixes are disjoint; `ServerLifecycle` assumes nothing).
TLC has checked every property below on a small instance first.

| Theorem | Statement | Argument |
|---|---|---|
| `ChatRoomProof!TypeCorrect` | `TypeOK` | inductive by itself; the only work is that a trim returns a sequence of messages |
| `PagesComplete` | `PagesAreComplete` | strengthened to "the history is a suffix of the log, no shorter than the limit unless it is the whole log": a page no longer than the limit then cannot tell the two apart |
| `HistoryOvershoot` | `Overshoot` | each event adds at most one message, a text message leaves at most the limit |
| `MembersFollowLog` | `MembersMatchLog` | how `Present` changes when one event is appended, by kind of event; an activation empties both |
| `ImplementsRoomLog` | `RoomLogSpec` | from `MembersMatchLog`, each handler's guard is the protocol's legality; Activate starts a log anew, Create and Tick stutter |
| `ListNeverOverstates` | `ListedNeverOverstates` | finiteness of the members; for a room that has told its node, joins raise only the right side, leaves set both equal, creates set the left to 0; an activation takes the room out of `told` |
| `SettingsAreListed` | `ListedSettings`: a room that has been created since it was activated is listed on its node, with the creator and maximum the grain has | a create writes both copies, a leave only the count, an activation leaves the grain without a creator |
| `KVStoreProof!TypeCorrect` | `TypeOK` | part of the inductive invariant below |
| `CacheAlwaysSnapshot` | `CacheIsSnapshot` | see below |
| `ImplementsSnapshotCache` | `SnapshotSpec` | a newer answer is `Advance`, writes are `Write`, everything else stutters |
| `PrefixAlwaysSnapshot` | `PrefixIsSnapshot`, for `SpecAPI` | see below |
| `WatchersStartOnce` | `OneGoroutine`, for `SpecAPI`: Start runs and loads only watchers that have no goroutine | `StartsIdle`: while Start holds the lock, and while the store is stopped, no installed watcher has one, and what it has not loaded is at index 0 |
| `CachedIsReal` | `CachedWasStored`, for `SpecAPI`: each cached entry was in the store at that version at some moment | `Origin`: the version an entry has at a moment is a moment at which it had that version |
| `GatewayProof!TypeCorrect` | `TypeOK` | part of the inductive invariant below |
| `EntriesAreLive` | `EntryIsLive` | see below |
| `RoomViewsAreExact`, `RegisteredAreOnline` | `RoomViewExact`, `OnlineExact` | see below |
| `LoggedInIsRegistered` | `RegistrationKept`: who has logged in undisturbed is the connection its user is registered with | see below |
| `RepliesMeetTheirCalls` | `Outstanding` | part of the inductive invariant below |
| `SendQueueProof!TypeCorrect` | `TypeOK` | part of the inductive invariant below |
| `FramesNeverWait` | `FrameNeverWaits` | writePump is the only receiver, so the channel does not shrink between its count and its receives; a close does not empty it |
| `ClosedWhenFull` | `ClosedOnlyWhenFull`: a closed channel has accepted as many messages as it holds | what is in the channel has been accepted |
| `NothingIsLost` | `NothingLost`: with the connection up, what was accepted is `got`, the frame and the queue, one after the other | see below |
| `DroppedOnlyDrained` | `DrainedWhenClosed` | from `NothingLost` and the close of a full channel |
| `ImplementsStream` | `StreamSpec` | see below |
| `DeliveryProof!TypeCorrect` | `TypeOK` | in three parts (clients, rooms, topics) that few steps share |
| `NoneMissed` | `NothingMissed` | see below |
| `ImplementsFeed` | `FeedSpec` | see below |
| `UnknownExplained` | `UnknownHasCause` | see below |
| `HeardInTheSameOrder` | `SameOrder`: two clients hear in the same order what both of them hear and neither of them said | what others say comes by the topic alone, and its copies are rising (`TInv`) |
| `ConsulProviderProof!TypeCorrect` | `TypeOK` | inductive with the rest |
| `MembersAreAnnounced` | `MembersAnnounced` | see below |
| `CrashByOverlap` | `CrashNeedsOverlap` | after a Stop, goroutines on their way through an update are those it found there (`Late`): one that waited in select is woken by the closed channel and ends |
| `ImplementsObserver` | `ObserverSpec` | see below |
| `StopIsForGood` | `StoppedForGood`: after a Stop that met no update members stay as they are and the channel only empties, whoever starts the provider again | `Late`, as above |
| `ServerLifecycleProof!TypeCorrect` | `TypeOK` | inductive with `Places` |
| `HealthTellsTheTruth` | `HealthyWhileUp` | `Places`: what isRunning, cluster and HTTP server are at each place of main; a handler that has the lock meets main outside Start and Stop |
| `CutByDeadline` | `CutOnlyByDeadline` | `Drained`: past Shutdown without a done context no request is active, and the listener is closed, so none is to come |
| `ClusterLeftLast` | `LeavesLast`: a node that has left the cluster has stopped its KV store, closed HTTP and answered what it could | `Leaving`: which of the three is done at each place of Stop |
| `GrainClusterProof!TypeCorrect` | `TypeOK` | inductive with the rest |
| `ListedHaveRun`, `ListsAreComplete` | `ListedRan`, `ListComplete` | see below |
| `ListedRightOnOneHost` | `ListedOnItsNode`, from `Spec /\ OneHost` | see below |

**The cache.** `CacheIsSnapshot` is not inductive: syncCache keeps an entry whose
ModifyIndex is not smaller than that of the answer, which is right only if versions
grow with the index.  The invariant adds `Versions` (the version of a key never falls
along the history except to "absent", and never exceeds the index) and `Lifecycle` (only
default watchers run, a watcher Start is about to load has not begun, an answer under
way is not 0).  A watcher that applies an index behind its own is excluded by the
comparison in watchOnce; a load by Start finds `lastIndex` 0 and the prefix empty.

**Watchers that overlap.** `PrefixIsSnapshot` is about watchers that are removed and added while
their goroutines go on, so that an answer may be applied to a cache that another has
written to.  syncCache keeps what is newer, so such an answer makes the prefix its own moment only if
nothing in the cache is newer than it (`Behind`).  `SeenIsAhead` says when that is so:
an answer that was listed after the last foreign write has all that the cache can
hold, since every cached version was in the store before (`CachedWasStored`, `Origin`).

**The registry.** `EntryIsLive` needs to know that a registration is never moved from
one user to another (`Anonymous`: no user before `LoginRegister`; this is where a second
login on a connection would break it), what kind of grain a call is to
(`CallsMatch`), and that a reply comes only to the handler that waits for it
(`Outstanding`: a request that names its caller is the caller's only one and has had no
reply).

**Gateway and grains agree.** `RoomViewExact` and `OnlineExact` speak of a connection that is
idle; the grain changes while the handler waits.  `View` says for each undisturbed connection
what holds in between: its current room has the user, or has been activated again since
(`Member`), unless the reply to its leave is back (`InRoom`), a room that has let it in has the
user already, and likewise for online (`Online`, `IsOnline`).  What could undo this is another request of the same user: in the mailbox
of its room and of its UserGrain all requests of the user are the connection's own (`Own`),
what it waits for is the last of them (`Last`), requests say whose they are (`Signed`), and a
second open connection of the user disturbs both (`Alone`).  A time out leaves an unsigned
request behind, which is why it must disturb.

**The stream.** `StreamSpec` is about `got` alone, which is written several messages at a
time.  The invariant follows the messages: `Chain` says that `queue`, the frame in progress
(`batch`) and `got` are consecutive pieces of `accepted`, with nothing between `got` and the
frame as long as the connection is up; `Numbered` says that `accepted` has no gap, because
while the channel is open the last message of an idle sender is in it (a sender that was
refused is on its way to close the channel).  `got`, a beginning of `accepted`, then has none
either, and a step of writePump only adds to it.

**Topics.** `DeliveryProof` has four invariants, one on top of the other.  `RInv`: types, and
again that a request somebody waits for is its only one.  `TInv`: what a room publishes, what
is on the wire to a client and what it has heard by the topic are each in rising order, one
below the other, and all in the log, so that the next copy is later than all before it; and once a client has subscribed, everything said since is in one of the three
or lost (`NothingMissed`).  `AInv` is about the replies: a message in the reply to a client, or that
the room is publishing for it, is its own and later than all that replies have brought it before;
with `TInv` that is `FeedSpec`.  `BInv` is about a client whose requests were never late and a room
that never moved: what it believes of its room is so, or the request that changes it is
on its way (`UnknownHasCause`).

**The topology.** `Ahead`: until the first Stop there is one goroutine (`Alone`), so that what
has been announced, the members stored and the answer under way are in the order of the
history, and an event about to be sent is news after the one before.  `Chain` says the same
of the events in the channel: each has a change between it and the one before, or
follows the last one shown.  Receiving the first is then a `Show`.  A goroutine of a
second Start never sends, since the channels are closed.

**The list.** No two nodes share an address (`Apart`, of all initial states, and files and
environments do not change).  A member that leaves its HTTP port to the default has it 100
above the other one, whatever order defaults and overrides come in (`Defaults`), so nobody
else answers where it is looked for (`Answers`).  A registry holds only what has run there
(`Ran`), and what is due is registered with a running member which has still to be asked,
or is on the list (`Due`).

Not provable with the prover used, and left to TLC: liveness under fairness
(`CatchesUp`, `StopsEventually`, `HandlersReturn`, `PumpsEnd`, `HeardOrLost`, `ShowsTheLast`,
`StopReturns`, `ListReturns`), anything with ENABLED, induction over data and RECURSIVE
operators (the modules use none).  Every safety property and every refinement that a
passing run checks is proved.

Two theorems say what is left of sentences that a run refutes.
`LoggedInIsRegistered`: for a user with one connection at a time, none of whose requests
timed out, the registration is kept until the connection logs out or ends; what
`gateway_online` needs is therefore a second connection or a late request.
`ListedRightOnOneHost`: where all members are on one host and leave their HTTP ports to
the default, no grain is filed under a node it never ran on; what
`cluster_labels` needs is therefore a second host or a port of its own.

Stated and proved, without a run of their own, are the properties the table gives in
words; they stand in the proof modules (`Outstanding` and `ListedOnItsNode` in those of the
components).  Their small instances are those of the runs of section 3.

Wall-clock claims are not among the theorems: message ids are times of day, and the model's
clock goes forward only because nothing in the code handles one that does not.

## 5. Hazards

`PROJECT.json` "hazards" lists what is hard to test in this code, at its line, with the
properties that cover it or the reason why none does.  They are of four kinds:

* several goroutines on one structure: the KV cache, `wm.clients`, the send channel, the
  provider's members and event channel, `s.mu` of the server;
* two parties with their own record of one thing: members and history, room and room list,
  gateway and grains, members stored and announced, registry and activations;
* things lost, late or repeated: RPCs, batches and copies of a topic, queries of Consul, calls
  from node to node, contexts that run out, grains that start again;
* limits: the history, the channels, mailboxes and ports.

The few that no property covers are in a model as a possible step (equal message ids, ghosts
after a disconnect, the second close of a full channel), or are in section 6.

## 6. Not modelled

* Readers of the KV cache that hold an entry while syncCache writes into it
  (`kvstore.go:103`): a data race of single fields, which only two handlers that print an entry
  can meet.
* The result of a CAS: `SetWithCAS` returns what Consul says, and nothing in the repository
  calls it.
* A Consul that loses its data and starts at a smaller index: the code takes the smaller
  index for no news and asks again; how soon the index has caught up is Consul's business.
* The reconnection of `chat.js`: timers and local state of a browser.  What the server owes
  it, that the old entry goes, is `EntryIsLive`.
* The dispatch in `BaseGrain.Receive` and its codes: it keeps no state, and the error it would
  swallow takes a message type the program does not have.
* A second Start of a server that was stopped, which main never does.
* HTTP handlers that read one value and format it, the dashboard that polls them, exporters of
  telemetry, generated code.
* The inside of protoactor-go and of Consul.  They appear as what this code sees of them: a
  mailbox in order, a future with a timeout, a topic with subscribers, activation anywhere, a
  store with an index.  Two assumptions about them are built in.  Requests of one node to one
  grain are handled in the order they were sent, as long as the grain stays where it is;
  and the batches that a failed node had under way for a topic arrive before those of the
  room's next activation, or are lost.  After a move the numbering of a room's messages goes on, as a
  history variable does, while the room itself is empty.
