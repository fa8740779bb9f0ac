--------------------------- MODULE ChatRoomProof ---------------------------
(***************************************************************************)
(* What ChatRoom guarantees for every number of nodes, rooms and users,    *)
(* every capacity and every history limit.                                 *)
(***************************************************************************)
EXTENDS ChatRoom, SequenceTheorems, FiniteSetTheorems, TLAPS

-----------------------------------------------------------------------------
(* Sequences.                                                              *)

\* Appending keeps the elements and adds one.
LEMMA AppendFacts ==
  ASSUME NEW S, NEW s \in Seq(S), NEW e \in S
  PROVE  /\ Append(s, e) \in Seq(S)
         /\ Len(s) \in Nat
         /\ Len(Append(s, e)) = Len(s) + 1
         /\ \A i \in 1 .. Len(s) : Append(s, e)[i] = s[i]
         /\ Append(s, e)[Len(s) + 1] = e
BY SMT

\* The last n elements of a sequence, one by one.
LEMMA LastNFacts ==
  ASSUME NEW S, NEW s \in Seq(S), NEW n \in 0 .. Len(s)
  PROVE  /\ LastN(s, n) \in Seq(S)
         /\ Len(LastN(s, n)) = n
         /\ \A i \in 1 .. n : LastN(s, n)[i] = s[Len(s) - n + i]
<1>1. Len(s) \in Nat
  OBVIOUS
<1>2. \A i \in Len(s) - n + 1 .. Len(s) : s[i] \in S
  BY <1>1
<1>3. LastN(s, n) = [i \in 1 .. n |-> s[i + (Len(s) - n + 1) - 1]]
  BY <1>1, SMT DEF LastN
<1>4. LastN(s, n) \in Seq(S)
  BY <1>1, <1>2, <1>3, SMT
<1>5. QED
  BY <1>1, <1>3, <1>4, SMT

\* A trim keeps a suffix that is no shorter than HistoryLimit unless it is all.
LEMMA TrimFacts ==
  ASSUME NEW S, NEW s \in Seq(S)
  PROVE  /\ Trim(s) \in Seq(S)
         /\ Len(Trim(s)) <= Len(s)
         /\ Len(Trim(s)) = Len(s) \/ Len(Trim(s)) = HistoryLimit
         /\ \A i \in 1 .. Len(Trim(s)) : Trim(s)[i] = s[Len(s) - Len(Trim(s)) + i]
<1>1. Len(s) \in Nat /\ HistoryLimit \in Nat
  BY ChatRoomAssumption
<1>2. CASE Len(s) > HistoryLimit
  <2>1. HistoryLimit \in 0 .. Len(s)
    BY <1>1, <1>2
  <2>2. Trim(s) = LastN(s, HistoryLimit)
    BY <1>2 DEF Trim
  <2>3. /\ LastN(s, HistoryLimit) \in Seq(S)
        /\ Len(LastN(s, HistoryLimit)) = HistoryLimit
        /\ \A i \in 1 .. HistoryLimit : LastN(s, HistoryLimit)[i] = s[Len(s) - HistoryLimit + i]
    BY <2>1, LastNFacts
  <2>4. QED
    BY <1>1, <1>2, <2>2, <2>3
<1>3. CASE ~(Len(s) > HistoryLimit)
  <2>1. Trim(s) = s
    BY <1>3 DEF Trim
  <2>2. QED
    BY <1>1, <2>1
<1>4. QED
  BY <1>2, <1>3

\* Somebody is present after an event iff the event is their JOIN, or they were
\* present and the event is not their LEAVE.
LEMMA PresentAppend ==
  ASSUME NEW l \in Seq(Message), NEW e \in Message, NEW u \in Users
  PROVE  RoomEvents!Present(Append(l, e), u) <=>
           \/ e.kind = "JOIN" /\ e.user = u
           \/ RoomEvents!Present(l, u) /\ ~(e.kind = "LEAVE" /\ e.user = u)
<1> DEFINE m == Append(l, e)
<1>1. /\ Len(l) \in Nat /\ Len(m) = Len(l) + 1
      /\ \A i \in 1 .. Len(l) : m[i] = l[i]
      /\ m[Len(l) + 1] = e
  BY AppendFacts
<1> HIDE DEF m
<1>2. ASSUME RoomEvents!Present(m, u), ~(e.kind = "JOIN" /\ e.user = u)
      PROVE  RoomEvents!Present(l, u) /\ ~(e.kind = "LEAVE" /\ e.user = u)
  <2>1. PICK j \in 1 .. Len(m) :
          /\ m[j].kind = "JOIN" /\ m[j].user = u
          /\ \A i \in j + 1 .. Len(m) : ~(m[i].kind = "LEAVE" /\ m[i].user = u)
    BY <1>2 DEF RoomEvents!Present
  <2>2. j \in 1 .. Len(l)
    BY <1>1, <1>2, <2>1
  <2>3. Len(m) \in j + 1 .. Len(m)
    BY <1>1, <2>2
  <2>4. \A i \in j + 1 .. Len(l) : i \in j + 1 .. Len(m) /\ m[i] = l[i]
    BY <1>1, <2>2
  <2>5. QED
    BY <1>1, <2>1, <2>2, <2>3, <2>4 DEF RoomEvents!Present
<1>3. ASSUME e.kind = "JOIN" /\ e.user = u
      PROVE  RoomEvents!Present(m, u)
  <2>1. Len(m) \in 1 .. Len(m) /\ Len(m) + 1 .. Len(m) = {}
    BY <1>1
  <2>2. m[Len(m)] = e
    BY <1>1
  <2>3. QED
    BY <1>3, <2>1, <2>2 DEF RoomEvents!Present
<1>4. ASSUME RoomEvents!Present(l, u), ~(e.kind = "LEAVE" /\ e.user = u)
      PROVE  RoomEvents!Present(m, u)
  <2>1. PICK j \in 1 .. Len(l) :
          /\ l[j].kind = "JOIN" /\ l[j].user = u
          /\ \A i \in j + 1 .. Len(l) : ~(l[i].kind = "LEAVE" /\ l[i].user = u)
    BY <1>4 DEF RoomEvents!Present
  <2>2. j \in 1 .. Len(m) /\ m[j] = l[j]
    BY <1>1, <2>1
  <2>3. ASSUME NEW i \in j + 1 .. Len(m)
        PROVE  ~(m[i].kind = "LEAVE" /\ m[i].user = u)
    <3>1. CASE i = Len(l) + 1
      BY <1>1, <1>4, <3>1
    <3>2. CASE i # Len(l) + 1
      <4>1. i \in j + 1 .. Len(l) /\ m[i] = l[i]
        BY <1>1, <2>1, <3>2
      <4>2. QED
        BY <2>1, <4>1
    <3>3. QED
      BY <3>1, <3>2
  <2>4. QED
    BY <2>1, <2>2, <2>3 DEF RoomEvents!Present
<1>5. QED
  BY <1>2, <1>3, <1>4 DEF m

-----------------------------------------------------------------------------
(* Types.                                                                  *)

\* A message a handler makes is well formed.
LEMMA NewMessageType ==
  ASSUME TypeOK, NEW u \in Users, NEW kind \in Kinds
  PROVE  /\ NewMessage(kind, u) \in Message
         /\ NewMessage(kind, u).kind = kind
         /\ NewMessage(kind, u).user = u
         /\ NewMessage(kind, u).id \in 0 .. MaxTime
BY DEF TypeOK, NewMessage, Message

\* The entry a grain writes lands in the registry of its node.
LEMMA EntryWritten ==
  ASSUME TypeOK, NEW r \in Rooms, NEW info \in RoomInfo, SetEntry(r, info)
  PROVE  /\ registry' \in [Nodes -> [Rooms -> RoomInfo \cup {Unlisted}]]
         /\ told' \subseteq Rooms
         /\ registry'[node[r]][r] = info
         /\ \A q \in Rooms \ {r} : registry'[node[q]][q] = Entry(q)
<1>1. node \in [Rooms -> Nodes] /\ registry \in [Nodes -> [Rooms -> RoomInfo \cup {Unlisted}]]
  BY DEF TypeOK
<1> DEFINE list == [registry[node[r]] EXCEPT ![r] = info]
<1>2. list \in [Rooms -> RoomInfo \cup {Unlisted}]
  BY <1>1
<1>3. list[r] = info /\ \A q \in Rooms \ {r} : list[q] = registry[node[r]][q]
  BY <1>1
<1>4. registry' = [registry EXCEPT ![node[r]] = list] /\ told' = told \cup {r}
  BY DEF SetEntry
<1> HIDE DEF list
<1>5. registry' \in [Nodes -> [Rooms -> RoomInfo \cup {Unlisted}]]
  BY <1>1, <1>2, <1>4
<1>6. \A n \in Nodes : registry'[n] = (IF n = node[r] THEN list ELSE registry[n])
  BY <1>1, <1>4
<1>7. told' \subseteq Rooms
  BY <1>4 DEF TypeOK
<1>8. registry'[node[r]][r] = info
  BY <1>1, <1>3, <1>6
<1>9. ASSUME NEW q \in Rooms \ {r}
      PROVE  registry'[node[q]][q] = Entry(q)
  <2>1. node[q] \in Nodes
    BY <1>1
  <2>2. CASE node[q] = node[r]
    BY <1>3, <1>6, <2>1, <2>2 DEF Entry
  <2>3. CASE node[q] # node[r]
    BY <1>6, <2>1, <2>3 DEF Entry
  <2>4. QED
    BY <2>2, <2>3
<1>10. QED
  BY <1>5, <1>7, <1>8, <1>9

\* What a leave writes: nothing for a room that is not listed, the count alone
\* for one that is.
LEMMA CountWritten ==
  ASSUME TypeOK, NEW r \in Rooms, NEW n \in Nat, UpdateRoomMembers(r, n)
  PROVE  \/ Entry(r) = Unlisted /\ UNCHANGED <<registry, told>>
         \/ \E info \in RoomInfo :
              /\ SetEntry(r, info)
              /\ Entry(r) \in RoomInfo
              /\ info.creator = Entry(r).creator
              /\ info.maxMembers = Entry(r).maxMembers
              /\ info.currentMembers = n
<1>1. CASE Entry(r) = Unlisted
  BY <1>1 DEF UpdateRoomMembers
<1>2. CASE Entry(r) # Unlisted
  <2>1. Entry(r) \in RoomInfo
    BY <1>2 DEF TypeOK, Entry
  <2> DEFINE info == [Entry(r) EXCEPT !.currentMembers = n]
  <2>2. /\ info \in RoomInfo
        /\ info.creator = Entry(r).creator
        /\ info.maxMembers = Entry(r).maxMembers
        /\ info.currentMembers = n
    BY <2>1 DEF RoomInfo
  <2>3. SetEntry(r, info)
    BY <1>2 DEF UpdateRoomMembers
  <2>4. QED
    BY <2>1, <2>2, <2>3
<1>3. QED
  BY <1>1, <1>2

\* Every handler keeps the types.
LEMMA TypeStep == TypeOK /\ [Next]_vars => TypeOK'
<1> SUFFICES ASSUME TypeOK, [Next]_vars PROVE TypeOK'
  OBVIOUS
<1> USE DEF TypeOK
<1>1. CASE Tick
  BY <1>1, ChatRoomAssumption DEF Tick
<1>2. ASSUME NEW r \in Rooms, NEW u \in Users, NEW cap \in Caps, Create(r, u, cap)
      PROVE  TypeOK'
  <2>1. Capacity(r, cap) \in Nat \ {0}
    BY ChatRoomAssumption DEF Capacity
  <2>2. room' \in [Rooms -> [creator : Users \cup {None}, maxMembers : Nat \ {0}]]
    BY <1>2, <2>1 DEF Create
  <2>3. [creator |-> u, maxMembers |-> Capacity(r, cap), currentMembers |-> 0] \in RoomInfo
    BY <2>1 DEF RoomInfo
  <2>4. /\ registry' \in [Nodes -> [Rooms -> RoomInfo \cup {Unlisted}]]
        /\ told' \subseteq Rooms
    BY <1>2, <2>3, EntryWritten DEF Create, RegisterRoom
  <2>5. QED
    BY <1>2, <2>2, <2>4 DEF Create
<1>3. ASSUME NEW r \in Rooms, NEW u \in Users, Join(r, u)
      PROVE  TypeOK'
  <2>1. NewMessage("JOIN", u) \in Message
    BY NewMessageType DEF Kinds
  <2>2. QED
    BY <1>3, <2>1, AppendFacts DEF Join
<1>4. ASSUME NEW r \in Rooms, NEW u \in Users, Leave(r, u)
      PROVE  TypeOK'
  <2>1. NewMessage("LEAVE", u) \in Message
    BY NewMessageType DEF Kinds
  <2>2. members' \in [Rooms -> SUBSET Users]
    BY <1>4 DEF Leave
  <2>3. Cardinality(members'[r]) \in Nat
    BY <2>2, ChatRoomAssumption, FS_Subset, FS_CardinalityType
  <2>4. /\ registry' \in [Nodes -> [Rooms -> RoomInfo \cup {Unlisted}]]
        /\ told' \subseteq Rooms
    BY <1>4, <2>3, CountWritten, EntryWritten DEF Leave
  <2>5. QED
    BY <1>4, <2>1, <2>2, <2>4, AppendFacts DEF Leave
<1>5. ASSUME NEW r \in Rooms, NEW u \in Users, Send(r, u)
      PROVE  TypeOK'
  <2>1. NewMessage("TEXT", u) \in Message
    BY NewMessageType DEF Kinds
  <2>2. Append(messages[r], NewMessage("TEXT", u)) \in Seq(Message)
    BY <2>1, AppendFacts
  <2>3. Trim(Append(messages[r], NewMessage("TEXT", u))) \in Seq(Message)
    BY <2>2, TrimFacts
  <2>4. QED
    BY <1>5, <2>1, <2>3, AppendFacts DEF Send
<1>6. ASSUME NEW r \in Rooms, NEW n \in Nodes, Activate(r, n)
      PROVE  TypeOK'
  <2>1. Fresh \in [creator : Users \cup {None}, maxMembers : Nat \ {0}]
    BY ChatRoomAssumption DEF Fresh
  <2>2. room' \in [Rooms -> [creator : Users \cup {None}, maxMembers : Nat \ {0}]]
    BY <1>6, <2>1 DEF Activate
  <2>3. << >> \in Seq(Message)
    OBVIOUS
  <2>4. messages' \in [Rooms -> Seq(Message)] /\ log' \in [Rooms -> Seq(Message)]
    BY <1>6, <2>3 DEF Activate
  <2>5. members' \in [Rooms -> SUBSET Users] /\ node' \in [Rooms -> Nodes]
    BY <1>6 DEF Activate
  <2>6. QED
    BY <1>6, <2>2, <2>4, <2>5 DEF Activate
<1>7. CASE UNCHANGED vars
  BY <1>7 DEF vars
<1>8. QED
  BY <1>1, <1>2, <1>3, <1>4, <1>5, <1>6, <1>7 DEF Next

\* The fields of every room's grain and of its listing have their types,
\* whatever the rooms are asked to do.
THEOREM TypeCorrect == Spec => []TypeOK
<1>1. Init => TypeOK
  BY ChatRoomAssumption DEF Init, Fresh, TypeOK
<1>2. QED
  BY <1>1, TypeStep, PTL DEF Spec

-----------------------------------------------------------------------------
(* History: messages[r] is a suffix of log[r], never shorter than          *)
(* HistoryLimit unless it is all of it.                                    *)

KeepsEnough(m, l) ==
  /\ Len(m) <= Len(l)
  /\ Len(m) = Len(l) \/ Len(m) >= HistoryLimit
  /\ \A i \in 1 .. Len(m) : m[i] = l[Len(l) - Len(m) + i]

HistoryInv == \A r \in Rooms : KeepsEnough(messages[r], log[r])

\* Appending the same message to the history and to the log.
LEMMA KeepsEnoughAppend ==
  ASSUME NEW m \in Seq(Message), NEW l \in Seq(Message), NEW e \in Message, KeepsEnough(m, l)
  PROVE  KeepsEnough(Append(m, e), Append(l, e))
<1> DEFINE m1 == Append(m, e)
           l1 == Append(l, e)
<1>1. /\ Len(m) \in Nat /\ Len(m1) = Len(m) + 1
      /\ \A i \in 1 .. Len(m) : m1[i] = m[i]
      /\ m1[Len(m) + 1] = e
  BY AppendFacts
<1>2. /\ Len(l) \in Nat /\ Len(l1) = Len(l) + 1
      /\ \A i \in 1 .. Len(l) : l1[i] = l[i]
      /\ l1[Len(l) + 1] = e
  BY AppendFacts
<1>3. HistoryLimit \in Nat
  BY ChatRoomAssumption
<1> HIDE DEF m1, l1
<1>4. ASSUME NEW i \in 1 .. Len(m1)
      PROVE  m1[i] = l1[Len(l1) - Len(m1) + i]
  <2>1. CASE i = Len(m) + 1
    <3>1. Len(l1) - Len(m1) + i = Len(l) + 1
      BY <1>1, <1>2, <2>1
    <3>2. QED
      BY <1>1, <1>2, <2>1, <3>1
  <2>2. CASE i # Len(m) + 1
    <3>1. /\ i \in 1 .. Len(m)
          /\ Len(l1) - Len(m1) + i = Len(l) - Len(m) + i
          /\ Len(l) - Len(m) + i \in 1 .. Len(l)
      BY <1>1, <1>2, <2>2 DEF KeepsEnough
    <3>2. m[i] = l[Len(l) - Len(m) + i]
      BY <3>1 DEF KeepsEnough
    <3>3. QED
      BY <1>1, <1>2, <3>1, <3>2
  <2>3. QED
    BY <2>1, <2>2
<1>5. Len(m1) <= Len(l1) /\ (Len(m1) = Len(l1) \/ Len(m1) >= HistoryLimit)
  BY <1>1, <1>2, <1>3 DEF KeepsEnough
<1>6. QED
  BY <1>4, <1>5 DEF KeepsEnough, m1, l1

\* Trimming the history.
LEMMA KeepsEnoughTrim ==
  ASSUME NEW m \in Seq(Message), NEW l \in Seq(Message), KeepsEnough(m, l)
  PROVE  KeepsEnough(Trim(m), l)
<1>1. /\ Trim(m) \in Seq(Message)
      /\ Len(Trim(m)) <= Len(m)
      /\ Len(Trim(m)) = Len(m) \/ Len(Trim(m)) = HistoryLimit
      /\ \A i \in 1 .. Len(Trim(m)) : Trim(m)[i] = m[Len(m) - Len(Trim(m)) + i]
  BY TrimFacts
<1>2. Len(m) \in Nat /\ Len(l) \in Nat /\ Len(Trim(m)) \in Nat /\ HistoryLimit \in Nat
  BY <1>1, ChatRoomAssumption
<1>3. ASSUME NEW i \in 1 .. Len(Trim(m))
      PROVE  Trim(m)[i] = l[Len(l) - Len(Trim(m)) + i]
  <2>1. Len(m) - Len(Trim(m)) + i \in 1 .. Len(m)
    BY <1>1, <1>2
  <2>2. m[Len(m) - Len(Trim(m)) + i] = l[Len(l) - Len(m) + (Len(m) - Len(Trim(m)) + i)]
    BY <2>1 DEF KeepsEnough
  <2>3. Len(l) - Len(m) + (Len(m) - Len(Trim(m)) + i) = Len(l) - Len(Trim(m)) + i
    BY <1>2
  <2>4. QED
    BY <1>1, <2>2, <2>3
<1>4. QED
  BY <1>1, <1>2, <1>3 DEF KeepsEnough

\* Every handler keeps enough history.
LEMMA HistoryStep == TypeOK /\ HistoryInv /\ [Next]_vars => HistoryInv'
<1> SUFFICES ASSUME TypeOK, HistoryInv, [Next]_vars, NEW q \in Rooms
             PROVE  KeepsEnough(messages[q], log[q])'
  BY DEF HistoryInv
<1>1. KeepsEnough(messages[q], log[q]) /\ messages[q] \in Seq(Message) /\ log[q] \in Seq(Message)
  BY DEF HistoryInv, TypeOK
<1>2. CASE UNCHANGED <<messages, log>>
  BY <1>1, <1>2 DEF KeepsEnough
<1>3. ASSUME NEW r \in Rooms, NEW u \in Users, NEW kind \in Kinds,
             messages' = [messages EXCEPT ![r] = Append(@, NewMessage(kind, u))],
             log' = [log EXCEPT ![r] = Append(@, NewMessage(kind, u))]
      PROVE  KeepsEnough(messages[q], log[q])'
  <2>1. NewMessage(kind, u) \in Message
    BY NewMessageType
  <2>2. KeepsEnough(Append(messages[q], NewMessage(kind, u)), Append(log[q], NewMessage(kind, u)))
    BY <1>1, <2>1, KeepsEnoughAppend
  <2>3. messages'[q] = (IF q = r THEN Append(messages[q], NewMessage(kind, u)) ELSE messages[q])
    BY <1>3 DEF TypeOK
  <2>4. log'[q] = (IF q = r THEN Append(log[q], NewMessage(kind, u)) ELSE log[q])
    BY <1>3 DEF TypeOK
  <2>5. QED
    BY <1>1, <2>2, <2>3, <2>4 DEF KeepsEnough
<1>4. ASSUME NEW r \in Rooms, NEW u \in Users, Send(r, u)
      PROVE  KeepsEnough(messages[q], log[q])'
  <2> DEFINE e == NewMessage("TEXT", u)
  <2>1. e \in Message
    BY NewMessageType DEF Kinds
  <2>2. Append(messages[q], e) \in Seq(Message) /\ Append(log[q], e) \in Seq(Message)
    BY <1>1, <2>1, AppendFacts
  <2>3. KeepsEnough(Append(messages[q], e), Append(log[q], e))
    BY <1>1, <2>1, KeepsEnoughAppend
  <2>4. KeepsEnough(Trim(Append(messages[q], e)), Append(log[q], e))
    BY <2>2, <2>3, KeepsEnoughTrim
  <2>5. messages'[q] = (IF q = r THEN Trim(Append(messages[q], e)) ELSE messages[q])
    BY <1>4 DEF TypeOK, Send
  <2>6. log'[q] = (IF q = r THEN Append(log[q], e) ELSE log[q])
    BY <1>4 DEF TypeOK, Send
  <2> HIDE DEF e
  <2>7. QED
    BY <1>1, <2>4, <2>5, <2>6 DEF KeepsEnough
<1>5. ASSUME NEW r \in Rooms, NEW n \in Nodes, Activate(r, n)
      PROVE  KeepsEnough(messages[q], log[q])'
  <2>1. messages'[q] = (IF q = r THEN << >> ELSE messages[q])
    BY <1>5 DEF TypeOK, Activate
  <2>2. log'[q] = (IF q = r THEN << >> ELSE log[q])
    BY <1>5 DEF TypeOK, Activate
  <2>3. KeepsEnough(<< >>, << >>)
    BY DEF KeepsEnough
  <2>4. QED
    BY <1>1, <2>1, <2>2, <2>3 DEF KeepsEnough
<1>6. QED
  BY <1>2, <1>3, <1>4, <1>5 DEF Next, Tick, Create, Join, Leave, vars, Kinds

\* Enough history is enough for every page.
LEMMA EnoughForPages == TypeOK /\ HistoryInv => PagesAreComplete
<1> SUFFICES ASSUME TypeOK, HistoryInv, NEW r \in Rooms, NEW limit \in 1 .. PageMax
             PROVE  Page(r, limit) = RecentMessages(log[r], limit)
  BY DEF PagesAreComplete
<1> DEFINE m == messages[r]
           l == log[r]
<1>1. PageSize(limit) = limit /\ limit \in Nat \ {0} /\ limit <= HistoryLimit /\ HistoryLimit \in Nat
  BY ChatRoomAssumption DEF PageSize
<1>2. /\ m \in Seq(Message) /\ l \in Seq(Message) /\ Len(m) \in Nat /\ Len(l) \in Nat
      /\ KeepsEnough(m, l)
  BY DEF TypeOK, HistoryInv
<1>3. Page(r, limit) = RecentMessages(m, limit)
  BY <1>1 DEF Page
<1> HIDE DEF m, l
<1>4. CASE Len(m) = Len(l)
  <2>1. \A i \in 1 .. Len(m) : m[i] = l[i]
    <3> SUFFICES ASSUME NEW i \in 1 .. Len(m) PROVE m[i] = l[i]
      OBVIOUS
    <3>1. Len(l) - Len(m) + i = i
      BY <1>2, <1>4
    <3>2. QED
      BY <1>2, <3>1 DEF KeepsEnough
  <2>2. m = l
    BY <1>2, <1>4, <2>1, SeqEqual
  <2>3. QED
    BY <1>3, <2>2 DEF l
<1>5. CASE Len(m) # Len(l)
  <2>1. HistoryLimit <= Len(m) /\ Len(m) < Len(l)
    BY <1>2, <1>5 DEF KeepsEnough
  <2>2. limit \in 0 .. Len(m) /\ limit \in 0 .. Len(l)
    BY <1>1, <1>2, <2>1
  <2>3. /\ LastN(m, limit) \in Seq(Message)
        /\ Len(LastN(m, limit)) = limit
        /\ \A i \in 1 .. limit : LastN(m, limit)[i] = m[Len(m) - limit + i]
    BY <1>2, <2>2, LastNFacts
  <2>4. /\ LastN(l, limit) \in Seq(Message)
        /\ Len(LastN(l, limit)) = limit
        /\ \A i \in 1 .. limit : LastN(l, limit)[i] = l[Len(l) - limit + i]
    BY <1>2, <2>2, LastNFacts
  <2>5. ASSUME NEW i \in 1 .. limit
        PROVE  m[Len(m) - limit + i] = l[Len(l) - limit + i]
    <3>1. Len(m) - limit + i \in 1 .. Len(m)
      BY <1>1, <1>2, <2>2
    <3>2. m[Len(m) - limit + i] = l[Len(l) - Len(m) + (Len(m) - limit + i)]
      BY <1>2, <3>1 DEF KeepsEnough
    <3>3. Len(l) - Len(m) + (Len(m) - limit + i) = Len(l) - limit + i
      BY <1>1, <1>2
    <3>4. QED
      BY <3>2, <3>3
  <2>6. LastN(m, limit) = LastN(l, limit)
    BY <2>3, <2>4, <2>5, SeqEqual
  <2>7. RecentMessages(l, limit) = LastN(l, limit)
    BY <1>1, <1>2, <2>1, <2>2 DEF RecentMessages
  <2>8. RecentMessages(m, limit) = LastN(m, limit)
    <3>1. CASE Len(m) <= limit
      <4>1. limit = Len(m)
        BY <1>1, <1>2, <2>2, <3>1
      <4>2. \A i \in 1 .. limit : LastN(m, limit)[i] = m[i]
        BY <1>1, <1>2, <2>3, <4>1
      <4>3. LastN(m, limit) = m
        BY <1>2, <2>3, <4>1, <4>2, SeqEqual
      <4>4. QED
        BY <3>1, <4>3 DEF RecentMessages
    <3>2. CASE ~(Len(m) <= limit)
      BY <3>2 DEF RecentMessages
    <3>3. QED
      BY <3>1, <3>2
  <2>9. QED
    BY <1>3, <2>6, <2>7, <2>8 DEF l
<1>6. QED
  BY <1>4, <1>5

\* The trims never cost a page a message: every page a room serves is exactly
\* the last events since the room was activated, for every history limit no
\* smaller than a page.
THEOREM PagesComplete == Spec => []PagesAreComplete
<1>1. Init => TypeOK /\ HistoryInv
  BY ChatRoomAssumption DEF Init, Fresh, TypeOK, HistoryInv, KeepsEnough
<1>2. QED
  BY <1>1, TypeStep, HistoryStep, EnoughForPages, PTL DEF Spec

\* Every handler keeps the history within HistoryLimit plus the notices since
\* the last text message.
LEMMA OvershootStep == TypeOK /\ Overshoot /\ [Next]_vars => Overshoot'
<1> SUFFICES ASSUME TypeOK, Overshoot, [Next]_vars, NEW q \in Rooms,
                    NEW i \in 1 .. Len(log'[q]), log'[q][i].kind = "TEXT"
             PROVE  Len(messages'[q]) <= HistoryLimit + Len(log'[q]) - i
  BY DEF Overshoot
<1>1. /\ messages[q] \in Seq(Message) /\ Len(messages[q]) \in Nat
      /\ log[q] \in Seq(Message) /\ Len(log[q]) \in Nat
      /\ HistoryLimit \in Nat
  BY ChatRoomAssumption DEF TypeOK
<1>2. i \in 1 .. Len(log[q]) /\ log[q][i].kind = "TEXT"
        => Len(messages[q]) <= HistoryLimit + Len(log[q]) - i
  BY DEF Overshoot
<1>3. CASE UNCHANGED <<messages, log>>
  BY <1>2, <1>3
<1>4. ASSUME NEW r \in Rooms, NEW u \in Users, NEW kind \in {"JOIN", "LEAVE"},
             messages' = [messages EXCEPT ![r] = Append(@, NewMessage(kind, u))],
             log' = [log EXCEPT ![r] = Append(@, NewMessage(kind, u))]
      PROVE  Len(messages'[q]) <= HistoryLimit + Len(log'[q]) - i
  <2> DEFINE e == NewMessage(kind, u)
  <2>1. e \in Message /\ e.kind = kind
    BY NewMessageType DEF Kinds
  <2>2. CASE q = r
    <3>1. messages'[q] = Append(messages[q], e) /\ log'[q] = Append(log[q], e)
      BY <1>4, <2>2 DEF TypeOK
    <3> HIDE DEF e
    <3>2. /\ Len(messages'[q]) = Len(messages[q]) + 1
          /\ Len(log'[q]) = Len(log[q]) + 1
          /\ \A k \in 1 .. Len(log[q]) : log'[q][k] = log[q][k]
          /\ log'[q][Len(log[q]) + 1] = e
      BY <1>1, <2>1, <3>1, AppendFacts
    <3>3. i \in 1 .. Len(log[q]) /\ log[q][i].kind = "TEXT"
      BY <1>1, <2>1, <3>2
    <3>4. QED
      BY <1>1, <1>2, <3>2, <3>3
  <2>3. CASE q # r
    BY <1>2, <1>4, <2>3 DEF TypeOK
  <2>4. QED
    BY <2>2, <2>3
<1>5. ASSUME NEW r \in Rooms, NEW u \in Users, Send(r, u)
      PROVE  Len(messages'[q]) <= HistoryLimit + Len(log'[q]) - i
  <2>1. CASE q = r
    <3>1. NewMessage("TEXT", u) \in Message
      BY NewMessageType DEF Kinds
    <3>2. messages'[q] = Trim(Append(messages[q], NewMessage("TEXT", u)))
      BY <1>5, <2>1 DEF TypeOK, Send
    <3>3. Len(messages'[q]) <= HistoryLimit
      BY <1>1, <3>1, <3>2, AppendFacts DEF Trim, LastN
    <3>4. log'[q] = Append(log[q], NewMessage("TEXT", u))
      BY <1>5, <2>1 DEF TypeOK, Send
    <3>5. Len(log'[q]) \in Nat /\ i <= Len(log'[q])
      BY <1>1, <3>1, <3>4, AppendFacts
    <3>6. Len(messages'[q]) \in Nat
      BY TypeStep DEF TypeOK
    <3>7. QED
      BY <1>1, <3>3, <3>5, <3>6
  <2>2. CASE q # r
    BY <1>2, <1>5, <2>2 DEF TypeOK, Send
  <2>3. QED
    BY <2>1, <2>2
<1>6. ASSUME NEW r \in Rooms, NEW n \in Nodes, Activate(r, n)
      PROVE  Len(messages'[q]) <= HistoryLimit + Len(log'[q]) - i
  <2>1. messages'[q] = (IF q = r THEN << >> ELSE messages[q])
    BY <1>6 DEF TypeOK, Activate
  <2>2. log'[q] = (IF q = r THEN << >> ELSE log[q])
    BY <1>6 DEF TypeOK, Activate
  <2>3. QED
    BY <1>2, <2>1, <2>2
<1>7. QED
  BY <1>3, <1>4, <1>5, <1>6 DEF Next, Tick, Create, Join, Leave, vars

\* A history passes the limit by no more than the notices that follow the last
\* text message: the trim of that message left HistoryLimit messages.
THEOREM HistoryOvershoot == Spec => []Overshoot
<1>1. Init => TypeOK /\ Overshoot
  BY ChatRoomAssumption DEF Init, Fresh, TypeOK, Overshoot
<1>2. QED
  BY <1>1, TypeStep, OvershootStep, PTL DEF Spec

-----------------------------------------------------------------------------
(* Membership, the refinement of RoomLog, and the room list.               *)

\* Every handler keeps the member map and the log in step.
LEMMA MembersStep == TypeOK /\ MembersMatchLog /\ [Next]_vars => MembersMatchLog'
<1> SUFFICES ASSUME TypeOK, MembersMatchLog, [Next]_vars
             PROVE  MembersMatchLog'
  OBVIOUS
<1>1. members \in [Rooms -> SUBSET Users] /\ members' \in [Rooms -> SUBSET Users]
  BY TypeStep DEF TypeOK
<1> SUFFICES ASSUME NEW q \in Rooms, NEW w \in Users
             PROVE  w \in members'[q] <=> RoomEvents!Present(log'[q], w)
  BY <1>1 DEF MembersMatchLog
<1>2. w \in members[q] <=> RoomEvents!Present(log[q], w)
  BY DEF MembersMatchLog
<1>3. CASE UNCHANGED <<members, log>>
  BY <1>2, <1>3
<1>4. ASSUME NEW r \in Rooms, NEW u \in Users, NEW kind \in Kinds,
             log' = [log EXCEPT ![r] = Append(@, NewMessage(kind, u))],
             members'[q] = IF q # r THEN members[q]
                           ELSE CASE kind = "JOIN"  -> members[r] \cup {u}
                                  [] kind = "LEAVE" -> members[r] \ {u}
                                  [] OTHER          -> members[r]
      PROVE  w \in members'[q] <=> RoomEvents!Present(log'[q], w)
  <2> DEFINE e == NewMessage(kind, u)
  <2>1. e \in Message /\ e.kind = kind /\ e.user = u
    BY NewMessageType
  <2>2. log \in [Rooms -> Seq(Message)]
    BY DEF TypeOK
  <2>3. CASE q = r
    <3>1. log'[q] = Append(log[q], e)
      BY <1>4, <2>2, <2>3
    <3> HIDE DEF e
    <3>2. RoomEvents!Present(Append(log[q], e), w) <=>
            \/ e.kind = "JOIN" /\ e.user = w
            \/ RoomEvents!Present(log[q], w) /\ ~(e.kind = "LEAVE" /\ e.user = w)
      BY <2>1, <2>2, PresentAppend
    <3>3. RoomEvents!Present(log'[q], w) <=>
            \/ kind = "JOIN" /\ u = w
            \/ w \in members[q] /\ ~(kind = "LEAVE" /\ u = w)
      BY <1>2, <2>1, <3>1, <3>2, Zenon
    <3>4. QED
      BY <1>4, <2>3, <3>3 DEF Kinds
  <2>4. CASE q # r
    BY <1>2, <1>4, <2>2, <2>4
  <2>5. QED
    BY <2>3, <2>4
<1>5. ASSUME NEW r \in Rooms, NEW u \in Users, Join(r, u)
      PROVE  w \in members'[q] <=> RoomEvents!Present(log'[q], w)
  BY <1>1, <1>4, <1>5 DEF Join, Kinds
<1>6. ASSUME NEW r \in Rooms, NEW u \in Users, Leave(r, u)
      PROVE  w \in members'[q] <=> RoomEvents!Present(log'[q], w)
  BY <1>1, <1>4, <1>6 DEF Leave, Kinds
<1>7. ASSUME NEW r \in Rooms, NEW u \in Users, Send(r, u)
      PROVE  w \in members'[q] <=> RoomEvents!Present(log'[q], w)
  BY <1>1, <1>4, <1>7 DEF Send, Kinds
<1>8. ASSUME NEW r \in Rooms, NEW n \in Nodes, Activate(r, n)
      PROVE  w \in members'[q] <=> RoomEvents!Present(log'[q], w)
  <2>1. members'[q] = (IF q = r THEN {} ELSE members[q])
    BY <1>8 DEF Activate, TypeOK
  <2>2. log'[q] = (IF q = r THEN << >> ELSE log[q])
    BY <1>8 DEF Activate, TypeOK
  <2>3. ~RoomEvents!Present(<< >>, w)
    BY DEF RoomEvents!Present
  <2>4. QED
    BY <1>2, <2>1, <2>2, <2>3
<1>9. QED
  BY <1>3, <1>5, <1>6, <1>7, <1>8 DEF Next, Tick, Create, vars

\* The members of a room, a field of its own, are at all times exactly those
\* the room's log says are present, whenever the room was activated.
THEOREM MembersFollowLog == Spec => []MembersMatchLog
<1>1. Init => TypeOK /\ MembersMatchLog
  BY ChatRoomAssumption DEF Init, Fresh, TypeOK, MembersMatchLog, RoomEvents!Present
<1>2. QED
  BY <1>1, TypeStep, MembersStep, PTL DEF Spec

\* A handler's step is a legal event of RoomLog, or does not touch the logs.
LEMMA RoomLogStep ==
  TypeOK /\ MembersMatchLog /\ [Next]_vars => [RoomEvents!RoomLogNext]_log
<1> SUFFICES ASSUME TypeOK, MembersMatchLog, [Next]_vars, log' # log
             PROVE  RoomEvents!RoomLogNext
  OBVIOUS
<1>1. ASSUME NEW r \in Rooms, NEW u \in Users, NEW kind \in Kinds,
             RoomEvents!Legal(log[r], kind, u),
             log' = [log EXCEPT ![r] = Append(@, NewMessage(kind, u))]
      PROVE  RoomEvents!RoomLogNext
  <2>1. NewMessage(kind, u) = [id |-> now, kind |-> kind, user |-> u] /\ now \in 0 .. MaxTime
    BY DEF NewMessage, TypeOK
  <2>2. RoomEvents!Record(r, kind, u)
    BY <1>1, <2>1 DEF RoomEvents!Record
  <2>3. QED
    BY <2>2 DEF RoomEvents!RoomLogNext, Kinds
<1>2. ASSUME NEW r \in Rooms, NEW u \in Users, Join(r, u)
      PROVE  RoomEvents!RoomLogNext
  <2>1. RoomEvents!Legal(log[r], "JOIN", u)
    BY <1>2 DEF Join, IsOutsider, MembersMatchLog, RoomEvents!Legal
  <2>2. QED
    BY <1>1, <1>2, <2>1 DEF Join, Kinds
<1>3. ASSUME NEW r \in Rooms, NEW u \in Users, Leave(r, u)
      PROVE  RoomEvents!RoomLogNext
  <2>1. RoomEvents!Legal(log[r], "LEAVE", u)
    BY <1>3 DEF Leave, MembersMatchLog, RoomEvents!Legal
  <2>2. QED
    BY <1>1, <1>3, <2>1 DEF Leave, Kinds
<1>4. ASSUME NEW r \in Rooms, NEW u \in Users, Send(r, u)
      PROVE  RoomEvents!RoomLogNext
  <2>1. RoomEvents!Legal(log[r], "TEXT", u)
    BY <1>4 DEF Send, MembersMatchLog, RoomEvents!Legal
  <2>2. QED
    BY <1>1, <1>4, <2>1 DEF Send, Kinds
<1>5. ASSUME NEW r \in Rooms, NEW n \in Nodes, Activate(r, n)
      PROVE  RoomEvents!RoomLogNext
  BY <1>5 DEF Activate, RoomEvents!RoomLogNext, RoomEvents!Begin
<1>6. QED
  BY <1>2, <1>3, <1>4, <1>5 DEF Next, Tick, Create, vars

\* The rooms implement RoomLog: seen through its log every room is a legal
\* membership protocol, whatever requests arrive in whatever order.
THEOREM ImplementsRoomLog == Spec => RoomLogSpec
<1>1. Init => TypeOK /\ MembersMatchLog /\ RoomEvents!RoomLogInit
  BY ChatRoomAssumption
     DEF Init, Fresh, TypeOK, MembersMatchLog, RoomEvents!Present, RoomEvents!RoomLogInit
<1>2. QED
  BY <1>1, TypeStep, MembersStep, RoomLogStep, PTL
     DEF Spec, RoomLogSpec, RoomEvents!RoomLogSpec

\* Every handler keeps the listed count below the real one: only a leave copies
\* the count, and until the next one the room can only gain members.
LEMMA ListStep == TypeOK /\ ListedNeverOverstates /\ [Next]_vars => ListedNeverOverstates'
<1> DEFINE Right(q) == /\ Entry(q) # Unlisted
                       /\ Entry(q).currentMembers <= Cardinality(members[q])
<1> SUFFICES ASSUME TypeOK, ListedNeverOverstates, [Next]_vars, NEW q \in Rooms, q \in told'
             PROVE  Right(q)'
  <2>1. TypeOK /\ [Next]_vars => told' \subseteq Rooms
    BY TypeStep DEF TypeOK
  <2>2. QED
    BY <2>1 DEF ListedNeverOverstates
<1>1. TypeOK'
  BY TypeStep
<1>2. IsFiniteSet(members[q]) /\ Cardinality(members[q]) \in Nat /\ Cardinality(members'[q]) \in Nat
  BY <1>1, ChatRoomAssumption, FS_Subset, FS_CardinalityType DEF TypeOK
<1>3. q \in told => Right(q)
  BY DEF ListedNeverOverstates
<1>4. CASE UNCHANGED <<registry, members, node, told>>
  BY <1>3, <1>4 DEF Entry
<1>5. ASSUME NEW r \in Rooms, NEW u \in Users, NEW cap \in Caps, Create(r, u, cap)
      PROVE  Right(q)'
  <2> DEFINE info == [creator |-> u, maxMembers |-> Capacity(r, cap), currentMembers |-> 0]
  <2>1. info \in RoomInfo
    BY ChatRoomAssumption DEF Capacity, RoomInfo, TypeOK
  <2>2. SetEntry(r, info) /\ UNCHANGED <<node, members>>
    BY <1>5 DEF Create, RegisterRoom
  <2> HIDE DEF info
  <2>3. CASE q = r
    <3>1. Entry(q)' = info
      BY <2>1, <2>2, <2>3, EntryWritten DEF Entry
    <3>2. info # Unlisted /\ info.currentMembers = 0
      BY <2>1, ChatRoomAssumption DEF info
    <3>3. QED
      BY <1>2, <3>1, <3>2
  <2>4. CASE q # r
    <3>1. q \in told
      BY <2>2, <2>4 DEF SetEntry
    <3>2. Entry(q)' = Entry(q)
      BY <2>1, <2>2, <2>4, EntryWritten DEF Entry
    <3>3. QED
      BY <1>3, <2>2, <3>1, <3>2
  <2>5. QED
    BY <2>3, <2>4
<1>6. ASSUME NEW r \in Rooms, NEW u \in Users, Join(r, u)
      PROVE  Right(q)'
  <2>1. /\ members'[q] = (IF q = r THEN members[q] \cup {u} ELSE members[q])
        /\ UNCHANGED <<node, registry, told>>
    BY <1>6 DEF Join, TypeOK
  <2>2. Cardinality(members[q]) <= Cardinality(members'[q])
    <3>1. Cardinality(members[q] \cup {u}) \in {Cardinality(members[q]), Cardinality(members[q]) + 1}
      BY <1>2, FS_AddElement
    <3>2. members'[q] = members[q] \/ members'[q] = members[q] \cup {u}
      BY <2>1
    <3>3. CASE members'[q] = members[q]
      BY <1>2, <3>3
    <3>4. CASE members'[q] = members[q] \cup {u}
      BY <1>2, <3>1, <3>4
    <3>5. QED
      BY <3>2, <3>3, <3>4
  <2>3. Right(q) /\ Entry(q)' = Entry(q)
    BY <1>3, <2>1 DEF Entry
  <2>4. Entry(q).currentMembers \in Nat
    BY <2>3 DEF TypeOK, RoomInfo, Entry
  <2>5. QED
    BY <1>2, <2>2, <2>3, <2>4
<1>7. ASSUME NEW r \in Rooms, NEW u \in Users, Leave(r, u)
      PROVE  Right(q)'
  <2>1. /\ UpdateRoomMembers(r, Cardinality(members'[r])) /\ UNCHANGED node
        /\ q # r => members'[q] = members[q]
    BY <1>7 DEF Leave, TypeOK
  <2>2. Cardinality(members'[r]) \in Nat
    BY <1>1, ChatRoomAssumption, FS_Subset, FS_CardinalityType DEF TypeOK
  <2>3. CASE Entry(r) = Unlisted /\ UNCHANGED <<registry, told>>
    <3>1. Right(q) /\ Entry(q)' = Entry(q)
      BY <1>3, <2>1, <2>3 DEF Entry
    <3>2. q # r
      BY <2>3, <3>1
    <3>3. QED
      BY <2>1, <3>1, <3>2
  <2>4. ASSUME NEW info \in RoomInfo, SetEntry(r, info),
               info.currentMembers = Cardinality(members'[r])
        PROVE  Right(q)'
    <3>1. CASE q = r
      <4>1. Entry(q)' = info /\ info # Unlisted
        BY <2>1, <2>4, <3>1, EntryWritten, ChatRoomAssumption DEF Entry
      <4>2. QED
        BY <2>2, <2>4, <3>1, <4>1
    <3>2. CASE q # r
      <4>1. q \in told
        BY <2>4, <3>2 DEF SetEntry
      <4>2. Entry(q)' = Entry(q)
        BY <2>1, <2>4, <3>2, EntryWritten DEF Entry
      <4>3. QED
        BY <1>3, <2>1, <3>2, <4>1, <4>2
    <3>3. QED
      BY <3>1, <3>2
  <2>5. QED
    BY <2>1, <2>2, <2>3, <2>4, CountWritten
<1>8. ASSUME NEW r \in Rooms, NEW n \in Nodes, Activate(r, n)
      PROVE  Right(q)'
  <2>1. q # r /\ q \in told
    BY <1>8 DEF Activate
  <2>2. node'[q] = node[q] /\ members'[q] = members[q] /\ registry' = registry
    BY <1>8, <2>1 DEF Activate, TypeOK
  <2>3. QED
    BY <1>3, <2>1, <2>2 DEF Entry
<1>9. QED
  BY <1>4, <1>5, <1>6, <1>7, <1>8 DEF Next, Tick, Send, vars

\* Once a room has written its entry, the list of its node may lag behind but
\* never counts a member too many, however often the room is created again, and
\* whatever its earlier activations have left in the registries.
THEOREM ListNeverOverstates == Spec => []ListedNeverOverstates
<1>1. Init => TypeOK /\ ListedNeverOverstates
  BY ChatRoomAssumption DEF Init, Fresh, TypeOK, ListedNeverOverstates
<1>2. QED
  BY <1>1, TypeStep, ListStep, PTL DEF Spec

-----------------------------------------------------------------------------
\* The grain's own settings and what its node's registry says of the room, two
\* copies under two locks, agree: a room that has been created since it was
\* activated is listed, under the one who created it last and with the room's
\* own maximum.  One that has not may be listed with what it was before.
ListedSettings ==
  \A r \in Rooms :
    room[r].creator # None =>
      /\ Entry(r) # Unlisted
      /\ Entry(r).creator = room[r].creator
      /\ Entry(r).maxMembers = room[r].maxMembers

\* Only a create writes either, and it writes both; a leave changes the count,
\* and an activation forgets the creator.
LEMMA SettingsStep == TypeOK /\ ListedSettings /\ [Next]_vars => ListedSettings'
<1> DEFINE Agree(q) == room[q].creator # None =>
                         /\ Entry(q) # Unlisted
                         /\ Entry(q).creator = room[q].creator
                         /\ Entry(q).maxMembers = room[q].maxMembers
<1> SUFFICES ASSUME TypeOK, ListedSettings, [Next]_vars, NEW q \in Rooms
             PROVE  Agree(q)'
  BY DEF ListedSettings
<1>1. Agree(q)
  BY DEF ListedSettings
<1>2. CASE UNCHANGED <<room, node, registry>>
  BY <1>1, <1>2 DEF Entry
<1>3. ASSUME NEW r \in Rooms, NEW u \in Users, NEW cap \in Caps, Create(r, u, cap)
      PROVE  Agree(q)'
  <2> DEFINE info == [creator |-> u, maxMembers |-> Capacity(r, cap), currentMembers |-> 0]
  <2>1. /\ room' = [room EXCEPT ![r] = [creator |-> u, maxMembers |-> Capacity(r, cap)]]
        /\ SetEntry(r, info)
        /\ UNCHANGED node
    BY <1>3 DEF Create, RegisterRoom
  <2>2. info \in RoomInfo
    BY ChatRoomAssumption DEF Capacity, RoomInfo, TypeOK
  <2>3. info # Unlisted
    BY <2>2, ChatRoomAssumption
  <2>4. CASE q = r
    <3>1. Entry(q)' = info
      BY <2>1, <2>2, <2>4, EntryWritten DEF Entry
    <3>2. room'[q] = [creator |-> u, maxMembers |-> Capacity(r, cap)]
      BY <2>1, <2>4 DEF TypeOK
    <3>3. QED
      BY <2>3, <3>1, <3>2
  <2>5. CASE q # r
    <3>1. Entry(q)' = Entry(q)
      BY <2>1, <2>2, <2>5, EntryWritten DEF Entry
    <3>2. room'[q] = room[q]
      BY <2>1, <2>5 DEF TypeOK
    <3>3. QED
      BY <1>1, <3>1, <3>2
  <2>6. QED
    BY <2>4, <2>5
<1>4. ASSUME NEW r \in Rooms, NEW u \in Users, Leave(r, u)
      PROVE  Agree(q)'
  <2>1. UpdateRoomMembers(r, Cardinality(members'[r])) /\ UNCHANGED <<node, room>>
    BY <1>4 DEF Leave
  <2>2. Cardinality(members'[r]) \in Nat
    BY TypeStep, ChatRoomAssumption, FS_Subset, FS_CardinalityType DEF TypeOK
  <2>3. CASE UNCHANGED <<registry, told>>
    BY <1>2, <2>1, <2>3
  <2>4. ASSUME NEW info \in RoomInfo, SetEntry(r, info),
               info.creator = Entry(r).creator, info.maxMembers = Entry(r).maxMembers
        PROVE  Agree(q)'
    <3>1. CASE q = r
      <4>1. Entry(q)' = info /\ info # Unlisted
        BY <2>1, <2>4, <3>1, EntryWritten, ChatRoomAssumption DEF Entry
      <4>2. QED
        BY <1>1, <2>1, <2>4, <3>1, <4>1
    <3>2. CASE q # r
      <4>1. Entry(q)' = Entry(q)
        BY <2>1, <2>4, <3>2, EntryWritten DEF Entry
      <4>2. QED
        BY <1>1, <2>1, <4>1
    <3>3. QED
      BY <3>1, <3>2
  <2>5. QED
    BY <2>1, <2>2, <2>3, <2>4, CountWritten
<1>5. ASSUME NEW r \in Rooms, NEW n \in Nodes, Activate(r, n)
      PROVE  Agree(q)'
  <2>1. CASE q = r
    <3>1. room'[q].creator = None
      BY <1>5, <2>1 DEF Activate, Fresh, TypeOK
    <3>2. QED
      BY <3>1
  <2>2. CASE q # r
    <3>1. node'[q] = node[q] /\ room'[q] = room[q] /\ registry' = registry
      BY <1>5, <2>2 DEF Activate, TypeOK
    <3>2. QED
      BY <1>1, <3>1 DEF Entry
  <2>3. QED
    BY <2>1, <2>2
<1>6. QED
  BY <1>2, <1>3, <1>4, <1>5 DEF Next, Tick, Join, Send, vars

\* The list of a room's node names the creator and maximum of a room that has
\* been created there as the room itself has them, however often it is created
\* and wherever it was before.
THEOREM SettingsAreListed == Spec => []ListedSettings
<1>1. Init => TypeOK /\ ListedSettings
  BY ChatRoomAssumption DEF Init, Fresh, TypeOK, ListedSettings
<1>2. QED
  BY <1>1, TypeStep, SettingsStep, PTL DEF Spec

=============================================================================
