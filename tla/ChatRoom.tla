------------------------------ MODULE ChatRoom ------------------------------
(***************************************************************************)
(* The chat rooms: ChatGrain (internal/grains/chat_grain.go), one virtual  *)
(* actor per room, and the GlobalRoomRegistry (grain_registry.go) of every *)
(* node, which the grains of the node write and its room list reads.       *)
(*                                                                         *)
(* A grain handles one message at a time and holds g.mu while it does, so  *)
(* one handler is one action.  Rooms interleave.  A room's grain exists    *)
(* from its first message on: Init is the state Init() gives it.  When the *)
(* cluster activates it again (Activate), here or on another node, nothing *)
(* of the grain is left, and the entries in the registries stay.           *)
(*                                                                         *)
(* Names, contents and creation times are left out.  A message keeps its   *)
(* id, its kind and the user it is about (the sender of a TEXT, the user   *)
(* the JOIN or LEAVE notice names).                                        *)
(***************************************************************************)
EXTENDS Integers, Sequences, FiniteSets

CONSTANTS
  Nodes,         \* the processes grains are activated in
  Rooms,         \* identities of the ChatGrains
  Users,         \* user ids
  None,          \* no creator yet
  Unlisted,      \* a room the registry does not hold
  Caps,          \* the max_members values create requests carry
  DefaultMax,    \* maxMembers before any create request (50)
  HistoryLimit,  \* how many messages a trim keeps (100)
  PageMax,       \* largest page ChatGetMessagesReq serves (50)
  PageDefault,   \* page it serves instead of an illegal one (20)
  MaxLog,        \* bound: events per activation of a room
  MaxTime        \* bound: clock ticks

RoomInfo == [creator : Users, maxMembers : Nat \ {0}, currentMembers : Nat]

ASSUME ChatRoomAssumption ==
  /\ IsFiniteSet(Users)
  /\ None \notin Users
  /\ Caps \subseteq Int
  /\ DefaultMax \in Nat \ {0}
  /\ HistoryLimit \in Nat \ {0}
  /\ PageMax \in 1 .. HistoryLimit
  /\ PageDefault \in 1 .. PageMax
  /\ MaxTime \in Nat
  /\ Unlisted \notin RoomInfo

VARIABLES
  now,       \* the wall clock, in milliseconds
  node,      \* node[r]: where the grain of room r is activated
  room,      \* room[r]: g.creatorId and g.maxMembers
  members,   \* members[r]: the keys of g.members
  messages,  \* messages[r]: g.messages
  registry,  \* registry[n][r]: rooms[r] of n's GlobalRoomRegistry, or Unlisted
  log,       \* history variable: every event since room r was activated
  told       \* history variable: rooms that have written their entry since then

vars == <<now, node, room, members, messages, registry, log, told>>

Kinds   == {"TEXT", "JOIN", "LEAVE"}
Message == [id : 0 .. MaxTime, kind : Kinds, user : Users]

-----------------------------------------------------------------------------
(* Helpers of the handlers.                                                *)

\* Mutant: the leave notice is copied from the join notice, type and all.
NewMessageJoinOnly(kind, u) ==
  [id |-> now, kind |-> IF kind = "LEAVE" THEN "JOIN" ELSE kind, user |-> u]

\* A new message; generateMsgId is the time of day to the millisecond.
NewMessage(kind, u) == [id |-> now, kind |-> kind, user |-> u]

\* The slice expressions s[len(s)-n:]: the last n elements of s.
LastN(s, n) == SubSeq(s, Len(s) - n + 1, Len(s))

\* Mutant: the trim slices one message too many off.
TrimShort(s) == IF Len(s) > HistoryLimit THEN LastN(s, HistoryLimit - 1) ELSE s

\* Mutant: the trim is forgotten.
TrimNever(s) == s

\* The trim at the end of ChatSendMessageReq.
Trim(s) == IF Len(s) > HistoryLimit THEN LastN(s, HistoryLimit) ELSE s

\* getRecentMessages
RecentMessages(s, limit) == IF Len(s) <= limit THEN s ELSE LastN(s, limit)

\* ChatGetMessagesReq: an illegal page size is replaced, before_timestamp ignored.
PageSize(limit) == IF limit <= 0 \/ limit > PageMax THEN PageDefault ELSE limit
Page(r, limit)  == RecentMessages(messages[r], PageSize(limit))

\* Mutant: ChatCreateRoomReq takes the requested maximum as it comes.
CapacityAsRequested(r, cap) == cap

\* ChatCreateRoomReq: the capacity after a create that asks for cap.
Capacity(r, cap) == IF cap > 0 THEN cap ELSE room[r].maxMembers

\* The entry of room r in the registry of the node the room is on.
Entry(r) == registry[node[r]][r]

\* The grain writes its entry: info.
SetEntry(r, info) ==
  /\ registry' = [registry EXCEPT ![node[r]] = [@ EXCEPT ![r] = info]]
  /\ told' = told \cup {r}

\* RoomRegistry.RegisterRoom, with the roomInfo ChatCreateRoomReq builds.
RegisterRoom(r, u, max) ==
  SetEntry(r, [creator |-> u, maxMembers |-> max, currentMembers |-> 0])

\* Mutant: the count is taken before the user is removed.
UpdateRoomMembersEarly(r, n) ==
  IF Entry(r) = Unlisted THEN UNCHANGED <<registry, told>>
  ELSE SetEntry(r, [Entry(r) EXCEPT !.currentMembers = n + 1])

\* RoomRegistry.UpdateRoomMembers: a room that is not listed stays so.
UpdateRoomMembers(r, n) ==
  IF Entry(r) = Unlisted THEN UNCHANGED <<registry, told>>
  ELSE SetEntry(r, [Entry(r) EXCEPT !.currentMembers = n])

\* ChatJoinRoomReq's first check passes: the room is not full.
HasRoom(r) == Cardinality(members[r]) < room[r].maxMembers

\* Mutant: the second check is dropped.
IsAnybody(r, u) == TRUE

\* ChatJoinRoomReq's second check passes: the user is not in the room.
IsOutsider(r, u) == u \notin members[r]

-----------------------------------------------------------------------------
\* What ChatGrain.Init makes of the settings.
Fresh == [creator |-> None, maxMembers |-> DefaultMax]

Init ==
  /\ now = 0
  /\ node \in [Rooms -> Nodes]
  /\ room = [r \in Rooms |-> Fresh]
  /\ members = [r \in Rooms |-> {}]
  /\ messages = [r \in Rooms |-> << >>]
  /\ registry = [n \in Nodes |-> [r \in Rooms |-> Unlisted]]
  /\ log = [r \in Rooms |-> << >>]
  /\ told = {}

\* The cluster activates room r on node n, again: after a failure of the node it
\* was on, or of the grain.  Its fields begin anew, and no registry hears of it.
Activate(r, n) ==
  /\ node' = [node EXCEPT ![r] = n]
  /\ room' = [room EXCEPT ![r] = Fresh]
  /\ members' = [members EXCEPT ![r] = {}]
  /\ messages' = [messages EXCEPT ![r] = << >>]
  /\ log' = [log EXCEPT ![r] = << >>]
  /\ told' = told \ {r}
  /\ UNCHANGED <<now, registry>>

\* ChatCreateRoomReq.  Nothing asks whether the room exists already: a second
\* create takes the room over and registers it anew, with no members.
Create(r, u, cap) ==
  /\ room' = [room EXCEPT ![r] = [creator |-> u, maxMembers |-> Capacity(r, cap)]]
  /\ RegisterRoom(r, u, Capacity(r, cap))
  /\ UNCHANGED <<now, node, members, messages, log>>

\* ChatJoinRoomReq of somebody who gets in.  The registry is not told, and the
\* notice is appended without a trim.
Join(r, u) ==
  /\ Len(log[r]) < MaxLog
  /\ HasRoom(r)
  /\ IsOutsider(r, u)
  /\ members' = [members EXCEPT ![r] = @ \cup {u}]
  /\ messages' = [messages EXCEPT ![r] = Append(@, NewMessage("JOIN", u))]
  /\ log' = [log EXCEPT ![r] = Append(@, NewMessage("JOIN", u))]
  /\ UNCHANGED <<now, node, room, registry, told>>

\* ChatLeaveRoomReq of a member.
Leave(r, u) ==
  /\ Len(log[r]) < MaxLog
  /\ u \in members[r]
  /\ members' = [members EXCEPT ![r] = @ \ {u}]
  /\ messages' = [messages EXCEPT ![r] = Append(@, NewMessage("LEAVE", u))]
  /\ log' = [log EXCEPT ![r] = Append(@, NewMessage("LEAVE", u))]
  /\ UpdateRoomMembers(r, Cardinality(members'[r]))
  /\ UNCHANGED <<now, node, room>>

\* ChatSendMessageReq of a member: append, broadcast, trim.
Send(r, u) ==
  /\ Len(log[r]) < MaxLog
  /\ u \in members[r]
  /\ messages' = [messages EXCEPT ![r] = Trim(Append(@, NewMessage("TEXT", u)))]
  /\ log' = [log EXCEPT ![r] = Append(@, NewMessage("TEXT", u))]
  /\ UNCHANGED <<now, node, room, members, registry, told>>

\* Time passes.
Tick ==
  /\ now < MaxTime
  /\ now' = now + 1
  /\ UNCHANGED <<node, room, members, messages, registry, log, told>>

Next ==
  \/ Tick
  \/ \E r \in Rooms, n \in Nodes : Activate(r, n)
  \/ \E r \in Rooms, u \in Users :
       \/ \E cap \in Caps : Create(r, u, cap)
       \/ Join(r, u)
       \/ Leave(r, u)
       \/ Send(r, u)

Spec == Init /\ [][Next]_vars

-----------------------------------------------------------------------------
(* Properties.                                                             *)

\* Every variable has its type.
TypeOK ==
  /\ now \in 0 .. MaxTime
  /\ node \in [Rooms -> Nodes]
  /\ room \in [Rooms -> [creator : Users \cup {None}, maxMembers : Nat \ {0}]]
  /\ members \in [Rooms -> SUBSET Users]
  /\ messages \in [Rooms -> Seq(Message)]
  /\ registry \in [Nodes -> [Rooms -> RoomInfo \cup {Unlisted}]]
  /\ log \in [Rooms -> Seq(Message)]
  /\ told \subseteq Rooms

\* Trims and untrimmed notices together never lose a message a page needs:
\* whatever page ChatGetMessagesReq serves of room r, it is exactly the last
\* events since the room was activated, all of them when a page holds them all.
PagesAreComplete ==
  \A r \in Rooms : \A limit \in 1 .. PageMax :
    Page(r, limit) = RecentMessages(log[r], limit)

\* JOIN and LEAVE notices are appended without a trim, so the history may pass
\* HistoryLimit - but only by the notices since the last text message, which
\* trimmed it.
Overshoot ==
  \A r \in Rooms : \A i \in 1 .. Len(log[r]) :
    log[r][i].kind = "TEXT" => Len(messages[r]) <= HistoryLimit + Len(log[r]) - i

\* The member map and the message log, two separate fields of the grain, tell
\* the same story: the members are those whose last JOIN no LEAVE follows.
RoomEvents == INSTANCE RoomLog WITH Ids <- 0 .. MaxTime
MembersMatchLog ==
  \A r \in Rooms : members[r] = {u \in Users : RoomEvents!Present(log[r], u)}

\* The room list of a room's own node promises no more company than the room
\* holds: joins do not reach the registry and creates reset it, so the count
\* lags, below.  What an earlier activation wrote may well be too high, on this
\* node until a create or a leave overwrites it, on another for good.
ListedNeverOverstates ==
  \A r \in told :
    /\ Entry(r) # Unlisted
    /\ Entry(r).currentMembers <= Cardinality(members[r])

\* Every room keeps the promise of RoomLog: the grains of all rooms, seen
\* through their logs, are a legal membership protocol on logs that only grow
\* from one activation to the next.
RoomLogSpec == RoomEvents!RoomLogSpec

=============================================================================
