--------------------------- MODULE DeliveryProof ---------------------------
(***************************************************************************)
(* What holds of Delivery for any clients and rooms, and whatever requests *)
(* and messages are late or lost.  Four invariants: RInv (types; a request *)
(* somebody waits for is its only one and has had no answer) and on top of *)
(* it TInv (what is on the way to a client is in order and, since it       *)
(* subscribed, complete), AInv (the message in a reply is one's own, and   *)
(* later than those before) and BInv (what a client believes of its room   *)
(* is so, unless one of its requests was late or the room moved).          *)
(***************************************************************************)
EXTENDS Delivery, SequenceTheorems, TLAPS

-----------------------------------------------------------------------------
(* Types, in three parts that few steps share.                             *)

ClientTypes ==
  /\ grain \in [Clients -> BOOLEAN]
  /\ currentRoom \in [Clients -> Rooms \cup {None}]
  /\ pc \in [Clients -> PCs]
  /\ call \in [Clients -> Call \cup {None}]
  /\ reply \in [Clients -> Reply \cup {None}]
  /\ asked \in Nat
  /\ late \in [Clients -> BOOLEAN]
  /\ unknown \in SUBSET (Clients \X Rooms)
  /\ \A c \in Clients : reply[c] # None => pc[c] = "waiting"
  /\ \A c \in Clients : call[c] # None <=> pc[c] \in {"waiting", "subscribing"}

RoomTypes ==
  /\ mailbox \in [Rooms -> Seq(Request)]
  /\ members \in [Rooms -> SUBSET Clients]
  /\ log \in [Rooms -> Seq(Clients)]
  /\ busy \in [Rooms -> Nat]
  /\ moved \in SUBSET Rooms /\ moves \in Nat
  /\ \A r \in Rooms : busy[r] # 0 =>
       busy[r] = Len(log[r]) /\ mailbox[r] # << >> /\ Head(mailbox[r]).op = "Send"

TopicTypes ==
  /\ batches \in [Rooms -> Seq(Nat)]
  /\ subs \in [Rooms -> SUBSET Clients]
  /\ wire \in [Rooms -> [Clients -> Seq(Nat)]]
  /\ heard \in [Rooms -> [Clients -> Seq(Frame)]]
  /\ since \in [Rooms -> [Clients -> Nat \cup {None}]]
  /\ lost \in SUBSET (Rooms \X Clients \X Nat)

\* A request somebody waits for is the one it is waiting for, has had no
\* answer, and is the only one.
Outstanding ==
  \A r \in Rooms : \A i \in 1 .. Len(mailbox[r]) :
    LET m == mailbox[r][i] IN
    m.live =>
      /\ pc[m.from] = "waiting" /\ reply[m.from] = None
      /\ call[m.from] = [op |-> m.op, room |-> r]
      /\ \A q \in Rooms : \A j \in 1 .. Len(mailbox[q]) :
           mailbox[q][j].live /\ mailbox[q][j].from = m.from => q = r /\ j = i

RInv == ClientTypes /\ RoomTypes /\ TopicTypes /\ Outstanding

\* The parts make up the type invariant.
LEMMA TypeParts == TypeOK <=> ClientTypes /\ RoomTypes /\ TopicTypes
BY DEF TypeOK, ClientTypes, RoomTypes, TopicTypes

\* The answers are replies, and different ones.
LEMMA Replies ==
  /\ Good \in Reply /\ Empty \in Reply /\ Refusal \in Reply
  /\ None \notin {Good, Empty, Refusal} /\ Good # Empty /\ Good # Refusal
  /\ Good.knows /\ ~Empty.knows
<1>1. Good \in Reply /\ Empty \in Reply /\ Refusal \in Reply
  BY DEF Good, Empty, Refusal, Reply, Sent
<1>2. None \notin Reply
  BY DeliveryAssumption
<1>3. Good.ok /\ Good.knows /\ ~Empty.knows /\ ~Refusal.ok
  BY DEF Good, Empty, Refusal, Sent
<1>4. QED
  BY <1>1, <1>2, <1>3

\* So are the messages; no other answer has a number.
LEMMA Messages ==
  ASSUME NEW n \in Nat
  PROVE  /\ Sent(n) \in Reply /\ Sent(n) # Empty /\ Sent(n).n = n
         /\ Good.n = 0 /\ Empty.n = 0 /\ Refusal.n = 0
<1>1. Sent(n) \in Reply /\ Sent(n).knows /\ Sent(n).n = n
  BY DEF Sent, Reply
<1>2. Good.n = 0 /\ Empty.n = 0 /\ Refusal.n = 0
  BY DEF Good, Empty, Refusal, Sent
<1>3. QED
  BY <1>1, <1>2, Replies

\* Posting adds at most one request, of the caller, at the end of one mailbox.
LEMMA PostFacts ==
  ASSUME RoomTypes, NEW c \in Clients, NEW op \in Ops, NEW r \in Rooms, Post(c, op, r)
  PROVE  /\ mailbox' \in [Rooms -> Seq(Request)]
         /\ \A q \in Rooms : mailbox[q] # << >> =>
              mailbox'[q] # << >> /\ Head(mailbox'[q]) = Head(mailbox[q])
         /\ \A q \in Rooms : \A i \in 1 .. Len(mailbox'[q]) :
              \/ i \in 1 .. Len(mailbox[q]) /\ mailbox'[q][i] = mailbox[q][i]
              \/ /\ q = r /\ i = Len(mailbox[r]) + 1
                 /\ mailbox'[q][i] = [op |-> op, from |-> c, live |-> TRUE]
<1> DEFINE m == [op |-> op, from |-> c, live |-> TRUE]
<1>1. m \in Request
  BY DEF Request
<1>2. mailbox[r] \in Seq(Request) /\ Len(mailbox[r]) \in Nat
  BY DEF RoomTypes
<1>3. CASE mailbox' = mailbox
  BY <1>3 DEF RoomTypes
<1>4. CASE mailbox' = [mailbox EXCEPT ![r] = Append(mailbox[r], m)]
  <2> HIDE DEF m
  <2>1. /\ Append(mailbox[r], m) \in Seq(Request)
        /\ Append(mailbox[r], m) # << >>
        /\ Len(Append(mailbox[r], m)) = Len(mailbox[r]) + 1
        /\ \A i \in 1 .. Len(mailbox[r]) : Append(mailbox[r], m)[i] = mailbox[r][i]
        /\ Append(mailbox[r], m)[Len(mailbox[r]) + 1] = m
    BY <1>1, <1>2, AppendProperties
  <2>2. mailbox[r] # << >> => Head(Append(mailbox[r], m)) = Head(mailbox[r])
    BY <1>2, <2>1
  <2>3. mailbox' \in [Rooms -> Seq(Request)]
    BY <1>4, <2>1 DEF RoomTypes
  <2>4. /\ mailbox'[r] = Append(mailbox[r], m)
        /\ \A q \in Rooms \ {r} : mailbox'[q] = mailbox[q]
    BY <1>4 DEF RoomTypes
  <2>5. \A i \in 1 .. Len(mailbox'[r]) :
          \/ i \in 1 .. Len(mailbox[r]) /\ mailbox'[r][i] = mailbox[r][i]
          \/ i = Len(mailbox[r]) + 1 /\ mailbox'[r][i] = m
    BY <1>2, <2>1, <2>4
  <2>6. QED
    BY <2>1, <2>2, <2>3, <2>4, <2>5 DEF m
<1>5. QED
  BY <1>3, <1>4 DEF Post

\* An answer removes the first request of one mailbox.
LEMMA AnswerFacts ==
  ASSUME RoomTypes, NEW r \in Rooms, mailbox[r] # << >>, NEW outcome, Answer(r, outcome)
  PROVE  /\ mailbox' \in [Rooms -> Seq(Request)]
         /\ Len(mailbox[r]) \in Nat \ {0}
         /\ Head(mailbox[r]) = mailbox[r][1] /\ Head(mailbox[r]) \in Request
         /\ \A i \in 1 .. Len(mailbox'[r]) :
              i + 1 \in 1 .. Len(mailbox[r]) /\ mailbox'[r][i] = mailbox[r][i + 1]
         /\ \A q \in Rooms \ {r} : mailbox'[q] = mailbox[q]
<1>1. mailbox[r] \in Seq(Request)
  BY DEF RoomTypes
<1>2. /\ Head(mailbox[r]) \in Request
      /\ Tail(mailbox[r]) \in Seq(Request)
      /\ Len(Tail(mailbox[r])) = Len(mailbox[r]) - 1
      /\ \A i \in 1 .. Len(Tail(mailbox[r])) : Tail(mailbox[r])[i] = mailbox[r][i + 1]
  BY <1>1, HeadTailProperties
<1>3. Head(mailbox[r]) = mailbox[r][1] /\ Len(mailbox[r]) \in Nat \ {0}
  BY <1>1
<1>4. mailbox' = [mailbox EXCEPT ![r] = Tail(mailbox[r])]
  BY DEF Answer
<1>5. QED
  BY <1>1, <1>2, <1>3, <1>4 DEF RoomTypes

\* Giving up keeps every request, and who waits for the others.
LEMMA GiveUpFacts ==
  ASSUME RoomTypes, NEW c \in Clients, GiveUp(c)
  PROVE  /\ mailbox' \in [Rooms -> Seq(Request)]
         /\ \A q \in Rooms :
              /\ Len(mailbox'[q]) = Len(mailbox[q])
              /\ \A i \in 1 .. Len(mailbox[q]) :
                   /\ mailbox'[q][i].op = mailbox[q][i].op
                   /\ mailbox'[q][i].from = mailbox[q][i].from
                   /\ mailbox'[q][i].live =
                        (mailbox[q][i].live /\ mailbox[q][i].from # c)
<1> DEFINE f(s) == [i \in 1 .. Len(s) |->
                      IF s[i].from = c THEN [s[i] EXCEPT !.live = FALSE] ELSE s[i]]
<1>1. ASSUME NEW s \in Seq(Request)
      PROVE  /\ f(s) \in Seq(Request)
             /\ Len(f(s)) = Len(s)
             /\ \A i \in 1 .. Len(s) :
                  /\ f(s)[i].op = s[i].op /\ f(s)[i].from = s[i].from
                  /\ f(s)[i].live = (s[i].live /\ s[i].from # c)
  <2>1. Len(s) \in Nat /\ \A i \in 1 .. Len(s) : s[i] \in Request
    OBVIOUS
  <2>2. f(s) \in [1 .. Len(s) -> Request]
    BY <2>1 DEF Request
  <2>3. f(s) \in Seq(Request) /\ Len(f(s)) = Len(s)
    BY <2>1, <2>2
  <2>4. QED
    BY <2>1, <2>2, <2>3 DEF Request
<1>2. mailbox' = [q \in Rooms |-> f(mailbox[q])]
  BY DEF GiveUp
<1> HIDE DEF f
<1>3. QED
  BY <1>1, <1>2 DEF RoomTypes

\* A client that does not wait, or has its answer, has no request anyone would
\* answer.
LEMMA NoneLive ==
  ASSUME Outstanding, NEW c \in Clients, pc[c] # "waiting" \/ reply[c] # None
  PROVE  \A r \in Rooms : \A i \in 1 .. Len(mailbox[r]) :
           mailbox[r][i].live => mailbox[r][i].from # c
<1> SUFFICES ASSUME NEW r \in Rooms, NEW i \in 1 .. Len(mailbox[r]), mailbox[r][i].live
             PROVE  mailbox[r][i].from # c
  OBVIOUS
<1>1. pc[mailbox[r][i].from] = "waiting" /\ reply[mailbox[r][i].from] = None
  BY DEF Outstanding
<1>2. QED
  BY <1>1

\* Who waits for a request waits for nothing else.
LEMMA Awaited ==
  ASSUME Outstanding, NEW r \in Rooms, NEW i \in 1 .. Len(mailbox[r]), mailbox[r][i].live
  PROVE  /\ pc[mailbox[r][i].from] = "waiting" /\ reply[mailbox[r][i].from] = None
         /\ call[mailbox[r][i].from] = [op |-> mailbox[r][i].op, room |-> r]
         /\ \A q \in Rooms : \A j \in 1 .. Len(mailbox[q]) :
              mailbox[q][j].live /\ mailbox[q][j].from = mailbox[r][i].from => q = r /\ j = i
BY DEF Outstanding

\* The same of the first request of a room.
LEMMA FirstAwaited ==
  ASSUME Outstanding, NEW r \in Rooms, Len(mailbox[r]) \in Nat \ {0}, mailbox[r][1].live
  PROVE  /\ pc[mailbox[r][1].from] = "waiting" /\ reply[mailbox[r][1].from] = None
         /\ call[mailbox[r][1].from] = [op |-> mailbox[r][1].op, room |-> r]
         /\ \A q \in Rooms : \A j \in 1 .. Len(mailbox[q]) :
              mailbox[q][j].live /\ mailbox[q][j].from = mailbox[r][1].from => q = r /\ j = 1
<1>1. 1 \in 1 .. Len(mailbox[r])
  OBVIOUS
<1>2. QED
  BY <1>1, Awaited

\* What is in a mailbox is a request.
LEMMA Requests ==
  ASSUME RoomTypes
  PROVE  \A r \in Rooms : \A i \in 1 .. Len(mailbox[r]) :
           /\ mailbox[r][i] \in Request
           /\ mailbox[r][i].from \in Clients /\ mailbox[r][i].op \in Ops
           /\ mailbox[r][i].live \in BOOLEAN
<1> SUFFICES ASSUME NEW r \in Rooms, NEW i \in 1 .. Len(mailbox[r])
             PROVE  /\ mailbox[r][i] \in Request
                    /\ mailbox[r][i].from \in Clients /\ mailbox[r][i].op \in Ops
                    /\ mailbox[r][i].live \in BOOLEAN
  OBVIOUS
<1>1. mailbox[r][i] \in Request
  BY DEF RoomTypes
<1>2. QED
  BY <1>1 DEF Request

-----------------------------------------------------------------------------
(* The steps.                                                              *)

\* A client sends a request.
LEMMA PostStep ==
  ASSUME RInv, NEW c \in Clients, NEW op \in Ops, NEW r \in Rooms, Post(c, op, r)
  PROVE  RInv'
<1>1. /\ mailbox' \in [Rooms -> Seq(Request)]
      /\ \A q \in Rooms : mailbox[q] # << >> =>
           mailbox'[q] # << >> /\ Head(mailbox'[q]) = Head(mailbox[q])
      /\ \A q \in Rooms : \A i \in 1 .. Len(mailbox'[q]) :
           \/ i \in 1 .. Len(mailbox[q]) /\ mailbox'[q][i] = mailbox[q][i]
           \/ /\ q = r /\ i = Len(mailbox[r]) + 1
              /\ mailbox'[q][i] = [op |-> op, from |-> c, live |-> TRUE]
  BY PostFacts DEF RInv
<1>2. /\ pc[c] = "idle" /\ asked' = asked + 1
      /\ call' = [call EXCEPT ![c] = [op |-> op, room |-> r]]
      /\ pc' = [pc EXCEPT ![c] = "waiting"]
      /\ UNCHANGED <<clientVars, reply, roomVars, topicVars, late, unknown, moveVars>>
  BY DEF Post
<1>3. [op |-> op, room |-> r] \in Call /\ [op |-> op, room |-> r] # None
  BY DeliveryAssumption DEF Call
<1>4. reply[c] = None
  BY <1>2 DEF RInv, ClientTypes
<1>5. ClientTypes'
  BY <1>2, <1>3, <1>4 DEF RInv, ClientTypes, PCs, clientVars
<1>6. RoomTypes'
  BY <1>1, <1>2 DEF RInv, RoomTypes, roomVars, moveVars
<1>7. TopicTypes'
  BY <1>2 DEF RInv, TopicTypes, topicVars
<1>8. Outstanding'
  <2>1. \A q \in Rooms : \A i \in 1 .. Len(mailbox[q]) :
          mailbox[q][i].live => mailbox[q][i].from # c
    BY <1>2, NoneLive DEF RInv
  <2> SUFFICES ASSUME NEW q \in Rooms, NEW i \in 1 .. Len(mailbox'[q]), mailbox'[q][i].live
               PROVE  /\ pc'[mailbox'[q][i].from] = "waiting"
                      /\ reply'[mailbox'[q][i].from] = None
                      /\ call'[mailbox'[q][i].from] = [op |-> mailbox'[q][i].op, room |-> q]
                      /\ \A k \in Rooms : \A j \in 1 .. Len(mailbox'[k]) :
                           mailbox'[k][j].live /\ mailbox'[k][j].from = mailbox'[q][i].from
                             => k = q /\ j = i
    BY DEF Outstanding
  <2>2. CASE q = r /\ i = Len(mailbox[r]) + 1
             /\ mailbox'[q][i] = [op |-> op, from |-> c, live |-> TRUE]
    <3>1. mailbox'[q][i].from = c /\ mailbox'[q][i].op = op
      BY <2>2
    <3>2. pc'[c] = "waiting" /\ reply'[c] = None /\ call'[c] = [op |-> op, room |-> q]
      BY <1>2, <1>4, <2>2 DEF RInv, ClientTypes
    <3>3. ASSUME NEW k \in Rooms, NEW j \in 1 .. Len(mailbox'[k]),
                 mailbox'[k][j].live, mailbox'[k][j].from = c
          PROVE  k = q /\ j = i
      BY <1>1, <2>1, <2>2, <3>3
    <3>4. QED
      BY <3>1, <3>2, <3>3
  <2>3. CASE i \in 1 .. Len(mailbox[q]) /\ mailbox'[q][i] = mailbox[q][i]
    <3> DEFINE d == mailbox[q][i].from
    <3>1. mailbox[q][i].live /\ d \in Clients /\ d # c
      BY <2>1, <2>3, Requests DEF RInv
    <3>2. Outstanding /\ i \in 1 .. Len(mailbox[q])
      BY <2>3 DEF RInv
    <3>3. /\ pc[d] = "waiting" /\ reply[d] = None
          /\ call[d] = [op |-> mailbox[q][i].op, room |-> q]
          /\ \A k \in Rooms : \A j \in 1 .. Len(mailbox[k]) :
               mailbox[k][j].live /\ mailbox[k][j].from = d => k = q /\ j = i
      BY ONLY Awaited, q \in Rooms, <3>1, <3>2
    <3>4. pc'[d] = "waiting" /\ reply'[d] = None /\ call'[d] = call[d]
      BY <1>2, <3>1, <3>3 DEF RInv, ClientTypes
    <3>5. ASSUME NEW k \in Rooms, NEW j \in 1 .. Len(mailbox'[k]),
                 mailbox'[k][j].live, mailbox'[k][j].from = d
          PROVE  k = q /\ j = i
      <4>1. j \in 1 .. Len(mailbox[k]) /\ mailbox'[k][j] = mailbox[k][j]
        BY <1>1, <3>1, <3>5
      <4>2. QED
        BY ONLY <3>3, <3>5, <4>1, k \in Rooms
    <3>6. QED
      BY <2>3, <3>3, <3>4, <3>5
  <2>4. QED
    BY <1>1, <2>2, <2>3
<1>9. QED
  BY <1>5, <1>6, <1>7, <1>8 DEF RInv

\* A room is done with a request.
LEMMA AnswerStep ==
  ASSUME RInv, NEW r \in Rooms, mailbox[r] # << >>,
         NEW outcome \in Reply, Answer(r, outcome),
         members' \in [Rooms -> SUBSET Clients],
         busy' \in [Rooms -> Nat], busy'[r] = 0,
         \A q \in Rooms \ {r} : busy'[q] = busy[q],
         UNCHANGED <<log, topicVars>>
  PROVE  RInv'
<1> DEFINE m == Head(mailbox[r])
<1>1. /\ mailbox' \in [Rooms -> Seq(Request)]
      /\ Len(mailbox[r]) \in Nat \ {0}
      /\ m = mailbox[r][1] /\ m \in Request
      /\ \A i \in 1 .. Len(mailbox'[r]) :
           i + 1 \in 1 .. Len(mailbox[r]) /\ mailbox'[r][i] = mailbox[r][i + 1]
      /\ \A q \in Rooms \ {r} : mailbox'[q] = mailbox[q]
  BY AnswerFacts DEF RInv
<1>2. /\ reply' = IF m.live THEN [reply EXCEPT ![m.from] = outcome] ELSE reply
      /\ UNCHANGED <<clientVars, pc, call, asked, late, unknown, moveVars>>
  BY DEF Answer
<1> HIDE DEF m
<1>3. m.from \in Clients /\ m.live \in BOOLEAN
  BY <1>1 DEF Request
<1>4. m.live => /\ pc[m.from] = "waiting"
                /\ \A q \in Rooms : \A j \in 1 .. Len(mailbox[q]) :
                     mailbox[q][j].live /\ mailbox[q][j].from = m.from => q = r /\ j = 1
  <2> SUFFICES ASSUME m.live
               PROVE  /\ pc[m.from] = "waiting"
                      /\ \A q \in Rooms : \A j \in 1 .. Len(mailbox[q]) :
                           mailbox[q][j].live /\ mailbox[q][j].from = m.from => q = r /\ j = 1
    OBVIOUS
  <2>1. Outstanding /\ Len(mailbox[r]) \in Nat \ {0} /\ m = mailbox[r][1]
    BY <1>1 DEF RInv
  <2>2. mailbox[r][1].live
    BY ONLY <2>1, m.live
  <2>3. /\ pc[mailbox[r][1].from] = "waiting"
        /\ \A q \in Rooms : \A j \in 1 .. Len(mailbox[q]) :
             mailbox[q][j].live /\ mailbox[q][j].from = mailbox[r][1].from => q = r /\ j = 1
    BY ONLY <2>1, <2>2, FirstAwaited, r \in Rooms
  <2>4. QED
    BY ONLY <2>1, <2>3
<1>6. ClientTypes'
  BY <1>2, <1>3, <1>4 DEF RInv, ClientTypes, clientVars
<1>7. RoomTypes'
  BY <1>1, <1>2 DEF RInv, RoomTypes, moveVars
<1>8. TopicTypes'
  BY DEF RInv, TopicTypes, topicVars
<1>9. Outstanding'
  <2> SUFFICES ASSUME NEW q \in Rooms, NEW i \in 1 .. Len(mailbox'[q]), mailbox'[q][i].live
               PROVE  /\ pc'[mailbox'[q][i].from] = "waiting"
                      /\ reply'[mailbox'[q][i].from] = None
                      /\ call'[mailbox'[q][i].from] = [op |-> mailbox'[q][i].op, room |-> q]
                      /\ \A k \in Rooms : \A j \in 1 .. Len(mailbox'[k]) :
                           mailbox'[k][j].live /\ mailbox'[k][j].from = mailbox'[q][i].from
                             => k = q /\ j = i
    BY DEF Outstanding
  <2> DEFINE n == IF q = r THEN i + 1 ELSE i
             d == mailbox[q][n].from
  <2>1. n \in 1 .. Len(mailbox[q]) /\ mailbox'[q][i] = mailbox[q][n]
    BY <1>1
  <2>2. mailbox[q][n].live /\ d \in Clients
    BY <2>1, Requests DEF RInv
  <2>3. /\ pc[d] = "waiting" /\ reply[d] = None
        /\ call[d] = [op |-> mailbox[q][n].op, room |-> q]
        /\ \A k \in Rooms : \A j \in 1 .. Len(mailbox[k]) :
             mailbox[k][j].live /\ mailbox[k][j].from = d => k = q /\ j = n
    BY <2>1, <2>2 DEF RInv, Outstanding
  <2>4. ~(q = r /\ n = 1)
    OBVIOUS
  <2> HIDE DEF n
  <2>5. m.live => d # m.from
    BY <1>1, <1>4, <2>1, <2>2, <2>4
  <2>6. reply'[d] = None
    BY <1>2, <1>3, <2>2, <2>3, <2>5 DEF RInv, ClientTypes
  <2>7. ASSUME NEW k \in Rooms, NEW j \in 1 .. Len(mailbox'[k]),
               mailbox'[k][j].live, mailbox'[k][j].from = d
        PROVE  k = q /\ j = i
    <3> DEFINE l == IF k = r THEN j + 1 ELSE j
    <3>1. l \in 1 .. Len(mailbox[k]) /\ mailbox'[k][j] = mailbox[k][l]
      BY <1>1
    <3>2. j \in Nat /\ i \in Nat
      OBVIOUS
    <3> HIDE DEF l, d
    <3>3. k = q /\ l = n
      BY ONLY <2>3, <2>7, <3>1, k \in Rooms
    <3>4. QED
      BY ONLY <3>2, <3>3 DEF l, n
  <2>8. QED
    BY <1>2, <2>1, <2>3, <2>6, <2>7
<1>10. QED
  BY <1>6, <1>7, <1>8, <1>9 DEF RInv

\* A client takes its answer.
LEMMA ReturnStep ==
  ASSUME RInv, NEW c \in Clients, NEW op, NEW outcome \in Reply,
         NEW next \in {"idle", "subscribing"}, Return(c, op, outcome, next),
         call' = IF next = "idle" THEN [call EXCEPT ![c] = None] ELSE call,
         currentRoom' \in [Clients -> Rooms \cup {None}],
         heard' \in [Rooms -> [Clients -> Seq(Frame)]],
         unknown' \in SUBSET (Clients \X Rooms)
  PROVE  RInv'
<1>1. /\ pc[c] = "waiting" /\ reply[c] = outcome
      /\ pc' = [pc EXCEPT ![c] = next]
      /\ reply' = [reply EXCEPT ![c] = None]
      /\ UNCHANGED <<grain, asked, mailbox, roomVars, batches, subs, wire, since, lost, late, moveVars>>
  BY DEF Return
<1>2. outcome # None
  BY DeliveryAssumption
<1>3. ClientTypes'
  <2>1. call' \in [Clients -> Call \cup {None}] /\ pc' \in [Clients -> PCs]
    BY <1>1 DEF RInv, ClientTypes, PCs
  <2>2. \A d \in Clients : reply'[d] # None => pc'[d] = "waiting"
    BY <1>1 DEF RInv, ClientTypes
  <2>3. \A d \in Clients : call'[d] # None <=> pc'[d] \in {"waiting", "subscribing"}
    BY <1>1 DEF RInv, ClientTypes
  <2>4. reply' \in [Clients -> Reply \cup {None}]
    BY <1>1 DEF RInv, ClientTypes
  <2>5. QED
    BY <1>1, <2>1, <2>2, <2>3, <2>4 DEF RInv, ClientTypes
<1>4. RoomTypes' /\ TopicTypes'
  BY <1>1 DEF RInv, RoomTypes, TopicTypes, roomVars, moveVars
<1>5. Outstanding'
  <2>1. \A q \in Rooms : \A i \in 1 .. Len(mailbox[q]) :
          mailbox[q][i].live => mailbox[q][i].from # c
    BY <1>1, <1>2, NoneLive DEF RInv
  <2>2. \A q \in Rooms : \A i \in 1 .. Len(mailbox[q]) : mailbox[q][i].from \in Clients
    BY Requests DEF RInv
  <2>3. \A d \in Clients \ {c} : pc'[d] = pc[d] /\ reply'[d] = reply[d] /\ call'[d] = call[d]
    BY <1>1 DEF RInv, ClientTypes
  <2>4. QED
    BY <1>1, <2>1, <2>2, <2>3 DEF RInv, Outstanding
<1>6. QED
  BY <1>3, <1>4, <1>5 DEF RInv

\* Five seconds pass.
LEMMA TimeOutStep ==
  ASSUME RInv, NEW c \in Clients, TimeOut(c)
  PROVE  RInv'
<1>1. /\ pc' = [pc EXCEPT ![c] = "idle"]
      /\ call' = [call EXCEPT ![c] = None]
      /\ reply' = [reply EXCEPT ![c] = None]
      /\ late' = [late EXCEPT ![c] = TRUE]
      /\ UNCHANGED <<clientVars, asked, roomVars, topicVars, unknown, moveVars>>
  BY DEF TimeOut
<1>2. /\ mailbox' \in [Rooms -> Seq(Request)]
      /\ \A q \in Rooms :
           /\ Len(mailbox'[q]) = Len(mailbox[q])
           /\ \A i \in 1 .. Len(mailbox[q]) :
                /\ mailbox'[q][i].op = mailbox[q][i].op
                /\ mailbox'[q][i].from = mailbox[q][i].from
                /\ mailbox'[q][i].live = (mailbox[q][i].live /\ mailbox[q][i].from # c)
  BY GiveUpFacts DEF RInv, TimeOut
<1>3. ClientTypes'
  BY <1>1 DEF RInv, ClientTypes, PCs, clientVars
<1>4. RoomTypes'
  <2>1. \A q \in Rooms : mailbox[q] # << >> =>
          mailbox'[q] # << >> /\ Head(mailbox'[q]).op = Head(mailbox[q]).op
    <3> SUFFICES ASSUME NEW q \in Rooms, mailbox[q] # << >>
                 PROVE  mailbox'[q] # << >> /\ Head(mailbox'[q]).op = Head(mailbox[q]).op
      OBVIOUS
    <3>1. mailbox[q] \in Seq(Request) /\ mailbox'[q] \in Seq(Request)
      BY <1>2 DEF RInv, RoomTypes
    <3>2. Len(mailbox[q]) \in Nat \ {0} /\ Len(mailbox'[q]) = Len(mailbox[q])
      BY <1>2, <3>1
    <3>3. Head(mailbox'[q]) = mailbox'[q][1] /\ Head(mailbox[q]) = mailbox[q][1]
      BY <3>1, <3>2
    <3>4. mailbox'[q][1].op = mailbox[q][1].op
      BY <1>2, <3>2
    <3>5. QED
      BY <3>2, <3>3, <3>4
  <2>2. QED
    BY <1>1, <1>2, <2>1 DEF RInv, RoomTypes, roomVars, moveVars
<1>5. TopicTypes'
  BY <1>1 DEF RInv, TopicTypes, topicVars
<1>6. Outstanding'
  <2>1. \A q \in Rooms : \A i \in 1 .. Len(mailbox[q]) : mailbox[q][i].from \in Clients
    BY Requests DEF RInv
  <2>2. \A d \in Clients \ {c} : pc'[d] = pc[d] /\ reply'[d] = reply[d] /\ call'[d] = call[d]
    BY <1>1 DEF RInv, ClientTypes
  <2> SUFFICES ASSUME NEW q \in Rooms, NEW i \in 1 .. Len(mailbox'[q]), mailbox'[q][i].live
               PROVE  /\ pc'[mailbox'[q][i].from] = "waiting"
                      /\ reply'[mailbox'[q][i].from] = None
                      /\ call'[mailbox'[q][i].from] = [op |-> mailbox'[q][i].op, room |-> q]
                      /\ \A k \in Rooms : \A j \in 1 .. Len(mailbox'[k]) :
                           mailbox'[k][j].live /\ mailbox'[k][j].from = mailbox'[q][i].from
                             => k = q /\ j = i
    BY DEF Outstanding
  <2> DEFINE d == mailbox[q][i].from
  <2>3. i \in 1 .. Len(mailbox[q]) /\ mailbox[q][i].live /\ d \in Clients \ {c}
    BY <1>2, <2>1
  <2>4. /\ pc[d] = "waiting" /\ reply[d] = None
        /\ call[d] = [op |-> mailbox[q][i].op, room |-> q]
        /\ \A k \in Rooms : \A j \in 1 .. Len(mailbox[k]) :
             mailbox[k][j].live /\ mailbox[k][j].from = d => k = q /\ j = i
    BY <2>3 DEF RInv, Outstanding
  <2>5. mailbox'[q][i].from = d /\ mailbox'[q][i].op = mailbox[q][i].op
    BY <1>2, <2>3
  <2>6. ASSUME NEW k \in Rooms, NEW j \in 1 .. Len(mailbox'[k]),
               mailbox'[k][j].live, mailbox'[k][j].from = d
        PROVE  k = q /\ j = i
    <3>1. j \in 1 .. Len(mailbox[k]) /\ mailbox[k][j].live /\ mailbox[k][j].from = d
      BY <1>2, <2>6
    <3>2. QED
      BY <2>4, <3>1
  <2>7. QED
    BY <2>2, <2>3, <2>4, <2>5, <2>6
<1>7. QED
  BY <1>3, <1>4, <1>5, <1>6 DEF RInv

\* One entry of a table of rooms and clients changes.
LEMMA OneEntry ==
  ASSUME NEW S, NEW f \in [Rooms -> [Clients -> S]], NEW r \in Rooms, NEW d \in Clients,
         NEW v \in S, NEW g, g = [f EXCEPT ![r][d] = v]
  PROVE  /\ g \in [Rooms -> [Clients -> S]]
         /\ g[r][d] = v
         /\ \A q \in Rooms, c \in Clients : q # r \/ c # d => g[q][c] = f[q][c]
OBVIOUS

\* A client logs in or goes for the topic.
LEMMA ClientStep ==
  ASSUME RInv, NEW c \in Clients, Login(c) \/ Subscribe(c)
  PROVE  RInv'
<1>1. /\ pc[c] \in {"new", "subscribing"}
      /\ pc' = [pc EXCEPT ![c] = "idle"]
      /\ grain' \in [Clients -> BOOLEAN]
      /\ call' \in {call, [call EXCEPT ![c] = None]}
      /\ pc[c] = "new" => call' = call
      /\ pc[c] = "subscribing" => call' = [call EXCEPT ![c] = None]
      /\ UNCHANGED <<currentRoom, reply, asked, late, unknown, mailbox, roomVars, moveVars>>
  BY DEF Login, Subscribe, RInv, ClientTypes, clientVars
<1>2. ClientTypes'
  BY <1>1 DEF RInv, ClientTypes, PCs
<1>3. RoomTypes'
  BY <1>1 DEF RInv, RoomTypes, roomVars, moveVars
<1>4. TopicTypes'
  <2>1. CASE Login(c)
    BY <2>1 DEF Login, RInv, TopicTypes, topicVars
  <2>2. CASE Subscribe(c)
    <3>1. UNCHANGED <<batches, wire, heard, lost>>
      BY <2>2 DEF Subscribe
    <3>2. pc[c] = "subscribing"
      BY <2>2 DEF Subscribe
    <3>3. call[c] # None /\ call[c] \in Call \cup {None}
      BY <3>2 DEF RInv, ClientTypes
    <3>4. call[c].room \in Rooms
      BY <3>3 DEF Call
    <3>5. Len(log[call[c].room]) \in Nat
      BY <3>4 DEF RInv, RoomTypes
    <3>6. subs' \in [Rooms -> SUBSET Clients]
      <4>1. CASE subs' = subs
        BY <4>1 DEF RInv, TopicTypes
      <4>2. CASE subs' = [subs EXCEPT ![call[c].room] = @ \cup {c}]
        BY <3>4, <4>2 DEF RInv, TopicTypes
      <4>3. QED
        BY <2>2, <4>1, <4>2 DEF Subscribe
    <3>7. since' \in [Rooms -> [Clients -> Nat \cup {None}]]
      <4>1. CASE since' = since
        BY <4>1 DEF RInv, TopicTypes
      <4>2. CASE since' = [since EXCEPT ![call[c].room][c] = Len(log[call[c].room])]
        BY <3>4, <3>5, <4>2, OneEntry DEF RInv, TopicTypes
      <4>3. QED
        BY <2>2, <4>1, <4>2 DEF Subscribe
    <3>8. QED
      BY <3>1, <3>6, <3>7 DEF RInv, TopicTypes
  <2>3. QED
    BY <2>1, <2>2
<1>5. Outstanding'
  <2>1. \A q \in Rooms : \A i \in 1 .. Len(mailbox[q]) :
          mailbox[q][i].live => mailbox[q][i].from # c
    BY <1>1, NoneLive DEF RInv
  <2>2. \A q \in Rooms : \A i \in 1 .. Len(mailbox[q]) : mailbox[q][i].from \in Clients
    BY Requests DEF RInv
  <2>3. \A d \in Clients \ {c} : pc'[d] = pc[d] /\ reply'[d] = reply[d] /\ call'[d] = call[d]
    BY <1>1 DEF RInv, ClientTypes
  <2>4. QED
    BY <1>1, <2>1, <2>2, <2>3 DEF RInv, Outstanding
<1>6. QED
  BY <1>2, <1>3, <1>4, <1>5 DEF RInv

\* A message is said.
LEMMA SendStep ==
  ASSUME RInv, NEW r \in Rooms, HandleSend(r)
  PROVE  RInv' /\ Head(mailbox[r]).from \in Clients
<1>1. /\ mailbox[r] # << >> /\ Head(mailbox[r]).op = "Send" /\ busy[r] = 0
      /\ log' = [log EXCEPT ![r] = Append(log[r], Head(mailbox[r]).from)]
      /\ busy' = [busy EXCEPT ![r] = Len(log[r]) + 1]
      /\ batches' = [batches EXCEPT ![r] = Append(batches[r], Len(log[r]) + 1)]
      /\ UNCHANGED <<clientVars, pc, call, reply, asked, mailbox, members, subs, wire, heard,
                     since, lost, late, unknown, moveVars>>
  BY DEF HandleSend, At
<1>2. Head(mailbox[r]) \in Request
  BY <1>1, HeadTailProperties DEF RInv, RoomTypes
<1>3. Head(mailbox[r]).from \in Clients
  BY <1>2 DEF Request
<1>4. log[r] \in Seq(Clients) /\ Len(log[r]) \in Nat /\ batches[r] \in Seq(Nat)
  BY DEF RInv, RoomTypes, TopicTypes
<1>5. /\ Append(log[r], Head(mailbox[r]).from) \in Seq(Clients)
      /\ Len(Append(log[r], Head(mailbox[r]).from)) = Len(log[r]) + 1
      /\ Append(batches[r], Len(log[r]) + 1) \in Seq(Nat)
  BY <1>3, <1>4, AppendProperties
<1>6. ClientTypes'
  BY <1>1 DEF RInv, ClientTypes, clientVars
<1>7. RoomTypes'
  BY <1>1, <1>4, <1>5 DEF RInv, RoomTypes, moveVars
<1>8. TopicTypes'
  BY <1>1, <1>5 DEF RInv, TopicTypes
<1>9. Outstanding'
  BY <1>1 DEF RInv, Outstanding
<1>10. QED
  BY <1>3, <1>6, <1>7, <1>8, <1>9 DEF RInv

\* The head and the tail of a sequence of numbers.
LEMMA NumberedHead ==
  ASSUME NEW s \in Seq(Nat), s # << >>
  PROVE  /\ Head(s) \in Nat /\ Head(s) = s[1] /\ Tail(s) \in Seq(Nat)
         /\ Len(s) \in Nat \ {0} /\ Len(Tail(s)) = Len(s) - 1
         /\ \A i \in 1 .. Len(Tail(s)) : Tail(s)[i] = s[i + 1]
BY HeadTailProperties

\* The topics keep their types.
LEMMA TopicTypesStep ==
  ASSUME TopicTypes, NEW r \in Rooms,
         Topic(r) \/ MoveTopic(r) \/ \E c \in Clients : Copy(r, c)
  PROVE  TopicTypes'
<1>1. CASE Deliver(r)
  <2>1. /\ batches' = [batches EXCEPT ![r] = Tail(batches[r])]
        /\ wire' = [wire EXCEPT ![r] = [c \in Clients |->
             IF c \in subs[r] THEN Append(wire[r][c], Head(batches[r])) ELSE wire[r][c]]]
        /\ UNCHANGED <<subs, heard, since, lost>>
    BY <1>1 DEF Deliver, TopicStep
  <2>2. Head(batches[r]) \in Nat /\ Tail(batches[r]) \in Seq(Nat)
    BY <1>1, NumberedHead DEF Deliver, TopicTypes
  <2>3. ASSUME NEW c \in Clients
        PROVE  Append(wire[r][c], Head(batches[r])) \in Seq(Nat)
    <3>1. wire[r][c] \in Seq(Nat)
      BY DEF TopicTypes
    <3>2. QED
      BY <2>2, <3>1, AppendProperties
  <2>4. QED
    BY <2>1, <2>2, <2>3 DEF TopicTypes
<1>2. CASE LoseBatch(r)
  <2>1. Head(batches[r]) \in Nat /\ Tail(batches[r]) \in Seq(Nat)
    BY <1>2, NumberedHead DEF LoseBatch, TopicTypes
  <2>2. QED
    BY <1>2, <2>1 DEF LoseBatch, TopicStep, TopicTypes
<1>3. ASSUME NEW d \in Clients, Arrive(r, d) \/ LoseCopy(r, d)
      PROVE  TopicTypes'
  <2> DEFINE f == [way |-> "topic", n |-> Head(wire[r][d])]
  <2>1. wire[r][d] \in Seq(Nat) /\ wire[r][d] # << >> /\ heard[r][d] \in Seq(Frame)
    BY <1>3 DEF Arrive, LoseCopy, TopicTypes
  <2>2. Head(wire[r][d]) \in Nat /\ Tail(wire[r][d]) \in Seq(Nat)
    BY <2>1, NumberedHead
  <2>3. Append(heard[r][d], f) \in Seq(Frame)
    <3>1. f \in Frame
      BY <2>2 DEF Frame
    <3>2. QED
      BY <2>1, <3>1, AppendProperties
  <2>4. wire' \in [Rooms -> [Clients -> Seq(Nat)]]
    <3>1. wire' = [wire EXCEPT ![r][d] = Tail(wire[r][d])]
      BY <1>3 DEF Arrive, LoseCopy
    <3>2. QED
      BY <2>2, <3>1, OneEntry DEF TopicTypes
  <2>5. heard' \in [Rooms -> [Clients -> Seq(Frame)]]
    <3>1. CASE heard' = heard
      BY <3>1 DEF TopicTypes
    <3>2. CASE heard' = [heard EXCEPT ![r][d] = Append(heard[r][d], f)]
      BY <2>3, <3>2, OneEntry DEF TopicTypes
    <3>3. QED
      BY <1>3, <3>1, <3>2 DEF Arrive, LoseCopy
  <2>6. UNCHANGED <<batches, subs, since>> /\ lost' \in SUBSET (Rooms \X Clients \X Nat)
    BY <1>3, <2>2 DEF Arrive, LoseCopy, TopicStep, TopicTypes
  <2>7. QED
    BY <2>4, <2>5, <2>6 DEF TopicTypes
<1>4. CASE MoveTopic(r)
  <2>1. << >> \in Seq(Nat) /\ {batches[r][i] : i \in 1 .. Len(batches[r])} \subseteq Nat
    BY DEF TopicTypes
  <2>2. QED
    BY <1>4, <2>1 DEF MoveTopic, TopicTypes
<1>5. QED
  BY <1>1, <1>2, <1>3, <1>4 DEF Topic, Copy

\* What changes only the topics.
LEMMA TopicOnlyStep ==
  ASSUME RInv, NEW r \in Rooms,
         Topic(r) \/ MoveTopic(r) \/ \E c \in Clients : Copy(r, c)
  PROVE  RInv'
<1>1. /\ UNCHANGED <<clientVars, pc, call, reply, asked, mailbox, roomVars, late, unknown, moved>>
      /\ moves' \in Nat
  <2>1. CASE Topic(r)
    BY <2>1 DEF Topic, Deliver, LoseBatch, TopicStep, moveVars, RInv, RoomTypes
  <2>2. CASE MoveTopic(r)
    BY <2>2 DEF MoveTopic, RInv, RoomTypes
  <2>3. CASE \E c \in Clients : Copy(r, c)
    BY <2>3 DEF Copy, Arrive, LoseCopy, TopicStep, moveVars, RInv, RoomTypes
  <2>4. QED
    BY <2>1, <2>2, <2>3
<1>2. TopicTypes'
  BY TopicTypesStep DEF RInv
<1>3. ClientTypes'
  <2>1. ClientTypes /\ UNCHANGED <<clientVars, pc, call, reply, asked, late, unknown>>
    BY <1>1 DEF RInv
  <2>2. QED
    BY ONLY <2>1 DEF ClientTypes, clientVars
<1>4. RoomTypes'
  <2>1. RoomTypes /\ UNCHANGED <<mailbox, roomVars, moved>> /\ moves' \in Nat
    BY <1>1 DEF RInv
  <2>2. QED
    BY ONLY <2>1 DEF RoomTypes, roomVars
<1>5. Outstanding'
  <2>1. Outstanding /\ UNCHANGED <<pc, call, reply, mailbox>>
    BY <1>1 DEF RInv
  <2>2. QED
    BY ONLY <2>1 DEF Outstanding
<1>6. QED
  BY <1>2, <1>3, <1>4, <1>5 DEF RInv

\* A room is activated elsewhere, with no requests.
LEMMA MoveRoomStep ==
  ASSUME RInv, NEW r \in Rooms, MoveRoom(r)
  PROVE  RInv'
<1>1. ClientTypes' /\ TopicTypes'
  BY DEF MoveRoom, RInv, ClientTypes, TopicTypes, clientVars, topicVars
<1>2. << >> \in Seq(Request)
  OBVIOUS
<1>3. RoomTypes'
  BY <1>2 DEF MoveRoom, RInv, RoomTypes
<1>4. Outstanding'
  <2>1. \A q \in Rooms : mailbox'[q] = IF q = r THEN << >> ELSE mailbox[q]
    BY DEF MoveRoom, RInv, RoomTypes
  <2>2. UNCHANGED <<pc, reply, call>>
    BY DEF MoveRoom
  <2>3. QED
    BY <2>1, <2>2 DEF RInv, Outstanding
<1>5. QED
  BY <1>1, <1>3, <1>4 DEF RInv

\* A room handles a request.
LEMMA HandleStep ==
  ASSUME RInv, NEW r \in Rooms,
         \/ HandleCreate(r) \/ HandleJoin(r) \/ HandleLeave(r) \/ HandleUsers(r)
         \/ HandleSendOutside(r) \/ PublishEnds(r)
  PROVE  RInv'
<1>1. mailbox[r] # << >>
  BY DEF HandleCreate, HandleJoin, HandleLeave, HandleUsers, HandleSendOutside, PublishEnds,
         At, RInv, RoomTypes
<1>2. PICK outcome \in Reply : Answer(r, outcome)
  <2>1. CASE PublishEnds(r)
    <3>1. Sent(busy[r]) \in Reply
      BY Messages DEF RInv, RoomTypes
    <3>2. QED
      BY <2>1, <3>1 DEF PublishEnds
  <2>2. CASE ~PublishEnds(r)
    BY <2>2, Replies DEF HandleCreate, HandleJoin, HandleLeave, HandleUsers, HandleSendOutside
  <2>3. QED
    BY <2>1, <2>2
<1>3. Head(mailbox[r]).from \in Clients
  <2>1. Head(mailbox[r]) \in Request
    BY <1>1, HeadTailProperties DEF RInv, RoomTypes
  <2>2. QED
    BY <2>1 DEF Request
<1>4. members' \in [Rooms -> SUBSET Clients]
  <2>members. members \in [Rooms -> SUBSET Clients]
    BY DEF RInv, RoomTypes
  <2>1. CASE HandleJoin(r) \/ HandleLeave(r)
    <3>1. \/ members' = members
          \/ members' = [members EXCEPT ![r] = @ \cup {Head(mailbox[r]).from}]
          \/ members' = [members EXCEPT ![r] = @ \ {Head(mailbox[r]).from}]
      BY <2>1 DEF HandleJoin, HandleLeave
    <3>2. QED
      BY <1>3, <2>members, <3>1
  <2>2. CASE HandleCreate(r) \/ HandleUsers(r) \/ HandleSendOutside(r) \/ PublishEnds(r)
    BY <2>2 DEF HandleCreate, HandleUsers, HandleSendOutside, PublishEnds, roomVars, RInv, RoomTypes
  <2>3. QED
    BY <2>1, <2>2
<1>5. busy' \in [Rooms -> Nat] /\ busy'[r] = 0 /\ \A q \in Rooms \ {r} : busy'[q] = busy[q]
  <2>1. busy' = [busy EXCEPT ![r] = 0] \/ (busy' = busy /\ busy[r] = 0)
    <3>1. CASE PublishEnds(r)
      BY <3>1 DEF PublishEnds
    <3>2. CASE HandleJoin(r) \/ HandleLeave(r)
      BY <3>2 DEF HandleJoin, HandleLeave, At
    <3>3. CASE HandleCreate(r) \/ HandleUsers(r) \/ HandleSendOutside(r)
      BY <3>3 DEF HandleCreate, HandleUsers, HandleSendOutside, At, roomVars
    <3>4. QED
      BY <3>1, <3>2, <3>3
  <2>2. CASE busy' = busy /\ busy[r] = 0
    BY <2>2 DEF RInv, RoomTypes
  <2>3. CASE busy' = [busy EXCEPT ![r] = 0]
    BY <2>3 DEF RInv, RoomTypes
  <2>4. QED
    BY <2>1, <2>2, <2>3
<1>6. UNCHANGED <<log, topicVars>>
  BY DEF HandleCreate, HandleJoin, HandleLeave, HandleUsers, HandleSendOutside, PublishEnds, roomVars
<1>7. QED
  BY <1>1, <1>2, <1>4, <1>5, <1>6, AnswerStep

\* A client takes an answer.
LEMMA TakeStep ==
  ASSUME RInv, NEW c \in Clients,
         \/ CreateReturn(c) \/ JoinReturn(c) \/ JoinRefused(c) \/ LeaveReturn(c)
         \/ SendReturn(c) \/ Told(c)
  PROVE  RInv'
<1> USE Replies
<1>1. pc[c] = "waiting"
  BY DEF CreateReturn, JoinReturn, JoinRefused, LeaveReturn, SendReturn, Told, Return
<1>heard. heard \in [Rooms -> [Clients -> Seq(Frame)]]
  BY DEF RInv, TopicTypes
<1>2. call[c].room \in Rooms
  <2>1. call[c] \in Call
    BY <1>1 DEF RInv, ClientTypes
  <2>2. QED
    BY <2>1 DEF Call
<1>3. CASE CreateReturn(c) \/ JoinRefused(c)
  <2>1. /\ currentRoom' \in [Clients -> Rooms \cup {None}]
        /\ unknown' \in SUBSET (Clients \X Rooms) /\ heard' = heard
    BY <1>3 DEF CreateReturn, JoinRefused, RInv, ClientTypes
  <2>2. CASE CreateReturn(c)
    BY <1>heard, <2>1, <2>2, ReturnStep DEF CreateReturn
  <2>3. CASE JoinRefused(c)
    BY <1>heard, <2>1, <2>3, ReturnStep DEF JoinRefused
  <2>4. QED
    BY <1>3, <2>2, <2>3
<1>4. CASE JoinReturn(c)
  <2>1. currentRoom' \in [Clients -> Rooms \cup {None}] /\ unknown' \in SUBSET (Clients \X Rooms)
    BY <1>2, <1>4 DEF JoinReturn, RInv, ClientTypes
  <2>2. Return(c, "Join", Good, "subscribing") /\ call' = call /\ heard' = heard
    BY <1>4 DEF JoinReturn
  <2>3. QED
    BY <1>heard, <2>1, <2>2, ReturnStep
<1>5. CASE LeaveReturn(c)
  <2>1. currentRoom' \in [Clients -> Rooms \cup {None}] /\ unknown' \in SUBSET (Clients \X Rooms)
    BY <1>5 DEF LeaveReturn, RInv, ClientTypes
  <2>2. Return(c, "Leave", Good, "idle") /\ call' = [call EXCEPT ![c] = None] /\ heard' = heard
    BY <1>5 DEF LeaveReturn
  <2>3. QED
    BY <1>heard, <2>1, <2>2, ReturnStep
<1>6. CASE Told(c)
  <2>1. PICK op \in {"Send", "Users"}, outcome \in {Good, Empty} : Return(c, op, outcome, "idle")
    BY <1>6 DEF Told
  <2>2. currentRoom' \in [Clients -> Rooms \cup {None}] /\ unknown' \in SUBSET (Clients \X Rooms)
    BY <1>2, <1>6 DEF Told, RInv, ClientTypes
  <2>3. call' = [call EXCEPT ![c] = None] /\ heard' = heard
    BY <1>6 DEF Told
  <2>4. QED
    BY <1>heard, <2>1, <2>2, <2>3, ReturnStep
<1>7. CASE SendReturn(c)
  <2> DEFINE f == [way |-> "reply", n |-> reply[c].n]
  <2>1. /\ reply[c] # None /\ Return(c, "Send", reply[c], "idle")
        /\ heard' = [heard EXCEPT ![call[c].room][c] = Append(heard[call[c].room][c], f)]
        /\ call' = [call EXCEPT ![c] = None] /\ UNCHANGED <<currentRoom, unknown>>
    BY <1>7 DEF SendReturn
  <2>2. reply[c] \in Reply
    BY <2>1 DEF RInv, ClientTypes
  <2>3. f \in Frame
    BY <2>2 DEF Reply, Frame
  <2> HIDE DEF f
  <2>4. Append(heard[call[c].room][c], f) \in Seq(Frame)
    <3>1. heard[call[c].room][c] \in Seq(Frame)
      BY <1>2, <1>heard
    <3>2. QED
      BY <2>3, <3>1, AppendProperties
  <2>5. heard' \in [Rooms -> [Clients -> Seq(Frame)]]
    BY <1>2, <1>heard, <2>1, <2>4, OneEntry
  <2>6. currentRoom' \in [Clients -> Rooms \cup {None}] /\ unknown' \in SUBSET (Clients \X Rooms)
    BY <2>1 DEF RInv, ClientTypes
  <2>7. QED
    BY <2>1, <2>2, <2>5, <2>6, ReturnStep
<1>8. QED
  BY <1>3, <1>4, <1>5, <1>6, <1>7

\* A client asks.
LEMMA AskStep ==
  ASSUME RInv, NEW c \in Clients, AskCurrent(c) \/ \E r \in Rooms : Ask(c, r)
  PROVE  \E op \in Ops, r \in Rooms :
           /\ Post(c, op, r)
           /\ op \in {"Leave", "Send", "Users"} => currentRoom[c] = r
<1>1. CASE AskCurrent(c)
  <2>1. currentRoom[c] \in Rooms
    BY <1>1 DEF AskCurrent, RInv, ClientTypes
  <2>2. QED
    BY <1>1, <2>1 DEF AskCurrent, Ops
<1>2. CASE \E r \in Rooms : Ask(c, r)
  BY <1>2 DEF Ask, Ops
<1>3. QED
  BY <1>1, <1>2

\* Every step keeps the types and the requests in order.
LEMMA RInvStep ==
  ASSUME RInv, [Next]_vars
  PROVE  RInv'
<1>1. ASSUME NEW c \in Clients, Client(c)
      PROVE  RInv'
  <2>1. CASE AskCurrent(c) \/ \E r \in Rooms : Ask(c, r)
    BY <2>1, AskStep, PostStep
  <2>2. CASE Login(c) \/ Subscribe(c)
    BY <2>2, ClientStep
  <2>3. CASE \/ CreateReturn(c) \/ JoinReturn(c) \/ JoinRefused(c) \/ LeaveReturn(c)
             \/ SendReturn(c) \/ Told(c)
    BY <2>3, TakeStep
  <2>4. CASE TimeOut(c)
    BY <2>4, TimeOutStep
  <2>5. QED
    BY <1>1, <2>1, <2>2, <2>3, <2>4 DEF Client
<1>2. ASSUME NEW r \in Rooms, Room(r)
      PROVE  RInv'
  BY <1>2, HandleStep, SendStep DEF Room
<1>3. ASSUME NEW r \in Rooms,
             Topic(r) \/ MoveTopic(r) \/ \E c \in Clients : Copy(r, c)
      PROVE  RInv'
  BY <1>3, TopicOnlyStep
<1>4. ASSUME NEW r \in Rooms, MoveRoom(r)
      PROVE  RInv'
  BY <1>4, MoveRoomStep
<1>5. CASE UNCHANGED vars
  <2>1. /\ UNCHANGED <<clientVars, pc, call, reply, asked, late, unknown>>
        /\ UNCHANGED <<mailbox, roomVars, moved, moves>> /\ UNCHANGED topicVars
    BY <1>5 DEF vars, moveVars
  <2>2. ClientTypes'
    BY <2>1 DEF RInv, ClientTypes, clientVars
  <2>3. RoomTypes'
    BY <2>1 DEF RInv, RoomTypes, roomVars
  <2>4. TopicTypes'
    BY <2>1 DEF RInv, TopicTypes, topicVars
  <2>5. Outstanding'
    BY <2>1 DEF RInv, Outstanding
  <2>6. QED
    BY <2>2, <2>3, <2>4, <2>5 DEF RInv
<1>6. QED
  BY <1>1, <1>2, <1>3, <1>4, <1>5 DEF Next

\* The initial states.
LEMMA RInvInit ==
  ASSUME Init
  PROVE  RInv
<1>1. ClientTypes
  BY DEF Init, ClientTypes, PCs
<1>2. /\ << >> \in Seq(Request) /\ << >> \in Seq(Clients)
      /\ << >> \in Seq(Nat) /\ << >> \in Seq(Frame)
  OBVIOUS
<1>3. RoomTypes
  BY <1>2 DEF Init, RoomTypes
<1>4. TopicTypes
  BY <1>2 DEF Init, TopicTypes
<1>5. Outstanding
  <2>1. \A r \in Rooms : mailbox[r] = << >>
    BY DEF Init
  <2>2. QED
    BY <2>1 DEF Outstanding
<1>6. QED
  BY <1>1, <1>3, <1>4, <1>5 DEF RInv

\* The types and the requests, always.
LEMMA AlwaysRInv == Spec => []RInv
<1>1. Init => RInv
  BY RInvInit
<1>2. RInv /\ [Next]_vars => RInv'
  BY RInvStep
<1>3. QED
  BY <1>1, <1>2, PTL DEF Spec

\* Every variable has its type, a reply is there only for a client that waits,
\* and a room publishes only the message of the send it is at, for any clients
\* and rooms and whatever requests time out.
THEOREM TypeCorrect == Spec => []TypeOK
<1>1. RInv => TypeOK
  BY TypeParts DEF RInv
<1>2. QED
  BY <1>1, AlwaysRInv, PTL

\* The types that are used below, client by client.
LEMMA ClientFacts ==
  ASSUME RInv
  PROVE  \A c \in Clients :
           /\ currentRoom[c] \in Rooms \cup {None} /\ call[c] \in Call \cup {None}
           /\ reply[c] # None => call[c] # None /\ pc[c] = "waiting"
           /\ pc[c] = "waiting" => call[c] # None /\ call[c].room \in Rooms
<1> SUFFICES ASSUME NEW c \in Clients
             PROVE  /\ currentRoom[c] \in Rooms \cup {None} /\ call[c] \in Call \cup {None}
                    /\ reply[c] # None => call[c] # None /\ pc[c] = "waiting"
                    /\ pc[c] = "waiting" => call[c] # None /\ call[c].room \in Rooms
  OBVIOUS
<1>1. /\ currentRoom[c] \in Rooms \cup {None} /\ call[c] \in Call \cup {None}
      /\ reply[c] # None => pc[c] = "waiting"
      /\ pc[c] = "waiting" => call[c] # None
  BY DEF RInv, ClientTypes
<1>2. call[c] # None => call[c].room \in Rooms
  BY <1>1 DEF Call
<1>3. QED
  BY <1>1, <1>2

-----------------------------------------------------------------------------
(* What is on its way to a client.                                         *)

Rising(s) == \A i, j \in 1 .. Len(s) : i < j => s[i] < s[j]
Below(A, B) == \A m \in A, n \in B : m < n

\* Frames that come by the same way are in order.
Ordered(s) == \A i, j \in 1 .. Len(s) : i < j /\ s[i].way = s[j].way => s[i].n < s[j].n

\* Messages leave a room in order, ...
Published(r) == Rising(batches[r]) /\ Numbers(batches[r]) \subseteq 1 .. Len(log[r])

\* ... what a client has heard was said before what is on the wire, and this
\* before what is not yet taken by the topic; and of what was said since it
\* subscribed all is in one of the three places, or lost.  What has come in
\* replies is its own.
Way(r, c) ==
  /\ Rising(wire[r][c]) /\ Ordered(heard[r][c])
  /\ \A n \in By("reply", heard[r][c]) : n \in 1 .. Len(log[r]) /\ log[r][n] = c
  /\ Numbers(wire[r][c]) \cup By("topic", heard[r][c]) \subseteq 1 .. Len(log[r])
  /\ Below(By("topic", heard[r][c]), Numbers(wire[r][c]))
  /\ Below(By("topic", heard[r][c]), Numbers(batches[r]))
  /\ Below(Numbers(wire[r][c]), Numbers(batches[r]))
  /\ since[r][c] # None =>
       /\ c \in subs[r]
       /\ \A n \in 1 .. Len(log[r]) : n > since[r][c] =>
            \/ n \in Numbers(batches[r]) \cup Numbers(wire[r][c]) \cup By("topic", heard[r][c])
            \/ <<r, c, n>> \in lost

TInv == \A r \in Rooms : Published(r) /\ \A c \in Clients : Way(r, c)

\* No message is in the empty sequence.
LEMMA EmptyNumbers ==
  /\ Numbers(<< >>) = {} /\ Rising(<< >>)
  /\ By("topic", << >>) = {} /\ By("reply", << >>) = {} /\ Ordered(<< >>)
BY DEF Numbers, Rising, By, Ordered

\* A frame at the end of the others.
LEMMA AppendFrame ==
  ASSUME NEW s \in Seq(Frame), NEW f \in Frame
  PROVE  /\ By(f.way, Append(s, f)) = By(f.way, s) \cup {f.n}
         /\ \A way : way # f.way => By(way, Append(s, f)) = By(way, s)
         /\ Ordered(s) /\ Below(By(f.way, s), {f.n}) => Ordered(Append(s, f))
<1> DEFINE t == Append(s, f)
<1>1. /\ Len(s) \in Nat /\ Len(t) = Len(s) + 1
      /\ \A i \in 1 .. Len(s) : t[i] = s[i] /\ s[i] \in Frame
      /\ t[Len(s) + 1] = f
  BY AppendProperties
<1> HIDE DEF t
<1>2. \A i \in 1 .. Len(t) : (i = Len(s) + 1 /\ t[i] = f) \/ (i \in 1 .. Len(s) /\ t[i] = s[i])
  BY <1>1
<1>3. \A i \in 1 .. Len(s) : i \in 1 .. Len(t) /\ t[i] = s[i]
  BY <1>1
<1>4. Len(s) + 1 \in 1 .. Len(t) /\ t[Len(s) + 1] = f
  BY <1>1
<1>5. \A way : By(way, t) = By(way, s) \cup {n \in {f.n} : way = f.way}
  <2> SUFFICES ASSUME NEW way
               PROVE  By(way, t) = By(way, s) \cup {n \in {f.n} : way = f.way}
    OBVIOUS
  <2>1. By(way, t) \subseteq By(way, s) \cup {n \in {f.n} : way = f.way}
    BY ONLY <1>2 DEF By
  <2>2. By(way, s) \cup {n \in {f.n} : way = f.way} \subseteq By(way, t)
    BY ONLY <1>3, <1>4 DEF By
  <2>3. QED
    BY <2>1, <2>2
<1>6. ASSUME Ordered(s), Below(By(f.way, s), {f.n})
      PROVE  Ordered(t)
  <2>1. \A i \in 1 .. Len(s) : s[i].way = f.way => s[i].n < f.n
    BY <1>6 DEF Below, By
  <2>2. ASSUME NEW i \in 1 .. Len(t), NEW j \in 1 .. Len(t), i < j, t[i].way = t[j].way
        PROVE  t[i].n < t[j].n
    <3>1. i \in 1 .. Len(s) /\ t[i] = s[i]
      BY <1>1, <2>2
    <3>2. CASE j \in 1 .. Len(s)
      <4>1. t[j] = s[j]
        BY <1>1, <3>2
      <4>2. QED
        BY <1>6, <2>2, <3>1, <3>2, <4>1 DEF Ordered
    <3>3. CASE j = Len(s) + 1
      BY <1>1, <2>1, <2>2, <3>1, <3>3
    <3>4. QED
      BY <1>1, <3>2, <3>3
  <2>3. QED
    BY <2>2 DEF Ordered
<1>7. QED
  BY <1>5, <1>6 DEF t

\* A message at the end of a sequence.
LEMMA AppendNumbers ==
  ASSUME NEW s \in Seq(Nat), NEW e \in Nat
  PROVE  /\ Numbers(Append(s, e)) = Numbers(s) \cup {e}
         /\ Rising(s) /\ Below(Numbers(s), {e}) => Rising(Append(s, e))
<1> DEFINE t == Append(s, e)
<1>1. /\ Len(s) \in Nat /\ Len(t) = Len(s) + 1
      /\ \A i \in 1 .. Len(s) : t[i] = s[i] /\ s[i] \in Nat
      /\ t[Len(s) + 1] = e
  BY AppendProperties
<1> HIDE DEF t
<1>2. Numbers(t) = Numbers(s) \cup {e}
  <2>1. \A i \in 1 .. Len(t) : t[i] = e \/ (i \in 1 .. Len(s) /\ t[i] = s[i])
    BY <1>1
  <2>2. \A i \in 1 .. Len(s) : i \in 1 .. Len(t) /\ t[i] = s[i]
    BY <1>1
  <2>3. Len(s) + 1 \in 1 .. Len(t) /\ t[Len(s) + 1] = e
    BY <1>1
  <2>4. Numbers(t) \subseteq Numbers(s) \cup {e}
    BY ONLY <2>1 DEF Numbers
  <2>5. Numbers(s) \cup {e} \subseteq Numbers(t)
    BY ONLY <2>2, <2>3 DEF Numbers
  <2>6. QED
    BY <2>4, <2>5
<1>3. ASSUME Rising(s), Below(Numbers(s), {e})
      PROVE  Rising(t)
  <2>1. \A i \in 1 .. Len(s) : s[i] < e
    BY <1>3 DEF Below, Numbers
  <2>2. \A i, j \in 1 .. Len(s) : i < j => s[i] < s[j]
    BY <1>3 DEF Rising
  <2>3. ASSUME NEW i \in 1 .. Len(t), NEW j \in 1 .. Len(t), i < j
        PROVE  t[i] < t[j]
    <3>1. i \in 1 .. Len(s) /\ t[i] = s[i]
      BY <1>1, <2>3
    <3>2. CASE j \in 1 .. Len(s)
      BY <1>1, <2>2, <2>3, <3>1, <3>2
    <3>3. CASE j = Len(s) + 1
      BY <1>1, <2>1, <3>1, <3>3
    <3>4. QED
      BY <1>1, <3>2, <3>3
  <2>4. QED
    BY <2>3 DEF Rising
<1>4. QED
  BY <1>2, <1>3 DEF t

\* The message at the beginning of a sequence.
LEMMA TailNumbers ==
  ASSUME NEW s \in Seq(Nat), s # << >>, Rising(s)
  PROVE  /\ Head(s) \in Nat /\ Tail(s) \in Seq(Nat)
         /\ Numbers(s) = {Head(s)} \cup Numbers(Tail(s))
         /\ Rising(Tail(s)) /\ Below({Head(s)}, Numbers(Tail(s)))
<1> DEFINE t == Tail(s)
<1>1. /\ Head(s) \in Nat /\ Head(s) = s[1] /\ t \in Seq(Nat)
      /\ Len(s) \in Nat \ {0} /\ Len(t) = Len(s) - 1
      /\ \A i \in 1 .. Len(t) : t[i] = s[i + 1]
  BY NumberedHead
<1> HIDE DEF t
<1>2. Numbers(s) \subseteq {Head(s)} \cup Numbers(t)
  <2> SUFFICES ASSUME NEW i \in 1 .. Len(s), i # 1
               PROVE  s[i] \in Numbers(t)
    BY <1>1 DEF Numbers
  <2>1. i - 1 \in 1 .. Len(t) /\ t[i - 1] = s[i]
    BY <1>1
  <2>2. QED
    BY <2>1 DEF Numbers
<1>3. {Head(s)} \cup Numbers(t) \subseteq Numbers(s)
  <2>1. ASSUME NEW i \in 1 .. Len(t)
        PROVE  t[i] \in Numbers(s)
    <3>1. i + 1 \in 1 .. Len(s) /\ t[i] = s[i + 1]
      BY <1>1
    <3>2. QED
      BY ONLY <3>1 DEF Numbers
  <2>2. Head(s) \in Numbers(s)
    <3>1. 1 \in 1 .. Len(s) /\ Head(s) = s[1]
      BY <1>1
    <3>2. QED
      BY ONLY <3>1 DEF Numbers
  <2>3. QED
    BY <2>1, <2>2 DEF Numbers
<1>4. Rising(t) /\ Below({Head(s)}, Numbers(t))
  <2>1. \A i \in 1 .. Len(t) : i + 1 \in 1 .. Len(s) /\ t[i] = s[i + 1]
    BY <1>1
  <2>2. \A i, j \in 1 .. Len(s) : i < j => s[i] < s[j]
    BY DEF Rising
  <2>3. ASSUME NEW i \in 1 .. Len(t), NEW j \in 1 .. Len(t), i < j
        PROVE  t[i] < t[j]
    <3>1. s[i + 1] < s[j + 1]
      BY <2>1, <2>2, <2>3
    <3>2. QED
      BY <2>1, <3>1
  <2>4. ASSUME NEW i \in 1 .. Len(t)
        PROVE  Head(s) < t[i]
    <3>1. 1 \in 1 .. Len(s) /\ i + 1 \in 1 .. Len(s) /\ 1 < i + 1
      BY <1>1, <2>1
    <3>2. s[1] < s[i + 1]
      BY <2>2, <3>1
    <3>3. QED
      BY <1>1, <2>1, <3>2
  <2>5. QED
    BY <2>3, <2>4 DEF Below, Numbers, Rising
<1>5. QED
  BY <1>1, <1>2, <1>3, <1>4 DEF t

\* What a step leaves alone.
LEMMA SameWay ==
  ASSUME NEW r \in Rooms, NEW c \in Clients, Way(r, c), log'[r] = log[r],
         batches'[r] = batches[r], wire'[r][c] = wire[r][c], heard'[r][c] = heard[r][c],
         since'[r][c] = since[r][c], c \in subs[r] => c \in subs'[r], lost \subseteq lost'
  PROVE  Way(r, c)'
BY DEF Way

\* A step that leaves all this alone.
LEMMA SameTopics ==
  ASSUME TInv, UNCHANGED <<log, topicVars>>
  PROVE  TInv'
<1>1. ASSUME NEW r \in Rooms
      PROVE  Published(r)'
  BY DEF TInv, Published, topicVars
<1>2. ASSUME NEW r \in Rooms, NEW c \in Clients
      PROVE  Way(r, c)'
  BY SameWay DEF TInv, topicVars
<1>3. QED
  BY <1>1, <1>2 DEF TInv

\* A message is said and published.
LEMMA SayWay ==
  ASSUME RInv, TInv, NEW r \in Rooms, HandleSend(r)
  PROVE  TInv'
<1> DEFINE n == Len(log[r]) + 1
<1>1. /\ log' = [log EXCEPT ![r] = Append(log[r], Head(mailbox[r]).from)]
      /\ batches' = [batches EXCEPT ![r] = Append(batches[r], n)]
      /\ UNCHANGED <<subs, wire, heard, since, lost>>
  BY DEF HandleSend
<1>2. log[r] \in Seq(Clients) /\ Len(log[r]) \in Nat /\ batches[r] \in Seq(Nat)
  BY DEF RInv, RoomTypes, TopicTypes
<1>3. Len(log'[r]) = n /\ \A q \in Rooms \ {r} : log'[q] = log[q]
  BY <1>1, <1>2, SendStep, AppendProperties DEF RInv, RoomTypes
<1>4. /\ batches'[r] = Append(batches[r], n)
      /\ \A q \in Rooms \ {r} : batches'[q] = batches[q]
  BY <1>1 DEF RInv, TopicTypes
<1>5. n \in Nat /\ 1 .. n = 1 .. Len(log[r]) \cup {n} /\ \A m \in 1 .. Len(log[r]) : m < n
  BY <1>2
<1>older. \A m \in 1 .. Len(log[r]) : log'[r][m] = log[r][m]
  BY <1>1, <1>2, SendStep, AppendProperties DEF RInv, RoomTypes
<1> HIDE DEF n
<1>6. /\ Rising(batches[r]) /\ Numbers(batches[r]) \subseteq 1 .. Len(log[r])
  BY DEF TInv, Published
<1>7. /\ Numbers(batches'[r]) = Numbers(batches[r]) \cup {n}
      /\ Rising(batches'[r])
  <2>1. Below(Numbers(batches[r]), {n})
    BY <1>5, <1>6 DEF Below
  <2>2. QED
    BY <1>2, <1>4, <1>5, <1>6, <2>1, AppendNumbers
<1>8. ASSUME NEW q \in Rooms
      PROVE  Published(q)'
  <2>1. CASE q = r
    BY <1>3, <1>5, <1>6, <1>7, <2>1 DEF Published
  <2>2. CASE q # r
    BY <1>3, <1>4, <2>2 DEF TInv, Published
  <2>3. QED
    BY <2>1, <2>2
<1>9. ASSUME NEW q \in Rooms, NEW c \in Clients
      PROVE  Way(q, c)'
  <2>1. CASE q = r
    <3>1. Way(r, c)
      BY DEF TInv
    <3>2. /\ wire'[r][c] = wire[r][c] /\ heard'[r][c] = heard[r][c]
          /\ since'[r][c] = since[r][c] /\ subs'[r] = subs[r] /\ lost' = lost
      BY <1>1
    <3>3. /\ Below(By("topic", heard[r][c]), Numbers(batches'[r]))
          /\ Below(Numbers(wire[r][c]), Numbers(batches'[r]))
      BY <1>5, <1>7, <3>1 DEF Way, Below
    <3>4. since[r][c] # None =>
            /\ c \in subs[r]
            /\ \A k \in 1 .. n : k > since[r][c] =>
                 \/ k \in Numbers(batches'[r]) \cup Numbers(wire[r][c]) \cup By("topic", heard[r][c])
                 \/ <<r, c, k>> \in lost
      BY <1>5, <1>7, <3>1 DEF Way
    <3>5. Numbers(wire[r][c]) \cup By("topic", heard[r][c]) \subseteq 1 .. n
      BY <1>5, <3>1 DEF Way
    <3>6. /\ Rising(wire[r][c]) /\ Ordered(heard[r][c])
          /\ Below(By("topic", heard[r][c]), Numbers(wire[r][c]))
      BY <3>1 DEF Way
    <3>7. \A k \in By("reply", heard[r][c]) : k \in 1 .. n /\ log'[r][k] = c
      BY <1>5, <1>older, <3>1 DEF Way
    <3>8. QED
      BY <1>3, <2>1, <3>2, <3>3, <3>4, <3>5, <3>6, <3>7 DEF Way
  <2>2. CASE q # r
    BY <1>1, <1>3, <1>4, <2>2, SameWay DEF TInv
  <2>3. QED
    BY <2>1, <2>2
<1>10. QED
  BY <1>8, <1>9 DEF TInv

\* The topic takes a batch, passes it on or loses it.
LEMMA TopicWay ==
  ASSUME RInv, TInv, NEW r \in Rooms, Topic(r)
  PROVE  TInv'
<1> DEFINE n == Head(batches[r])
<1>1. /\ batches[r] # << >> /\ batches' = [batches EXCEPT ![r] = Tail(batches[r])]
      /\ UNCHANGED <<log, subs, heard, since>>
  BY DEF Topic, Deliver, LoseBatch, TopicStep, roomVars
<1>2. batches[r] \in Seq(Nat) /\ Rising(batches[r])
      /\ Numbers(batches[r]) \subseteq 1 .. Len(log[r])
  BY DEF RInv, TopicTypes, TInv, Published
<1>3. /\ n \in Nat
      /\ Numbers(batches[r]) = {n} \cup Numbers(Tail(batches[r]))
      /\ Rising(Tail(batches[r])) /\ Below({n}, Numbers(Tail(batches[r])))
  BY <1>1, <1>2, TailNumbers
<1>4. /\ batches'[r] = Tail(batches[r])
      /\ \A q \in Rooms \ {r} : batches'[q] = batches[q]
  BY <1>1 DEF RInv, TopicTypes
<1> HIDE DEF n
<1>5. ASSUME NEW q \in Rooms
      PROVE  Published(q)'
  <2>1. CASE q = r
    BY <1>1, <1>2, <1>3, <1>4, <2>1 DEF Published
  <2>2. CASE q # r
    BY <1>1, <1>4, <2>2 DEF TInv, Published
  <2>3. QED
    BY <2>1, <2>2
<1>6. ASSUME NEW q \in Rooms, NEW c \in Clients, q # r
      PROVE  Way(q, c)'
  <2>1. wire'[q] = wire[q] /\ lost \subseteq lost'
    BY <1>6 DEF Topic, Deliver, LoseBatch, RInv, TopicTypes
  <2>2. QED
    BY <1>1, <1>4, <1>6, <2>1, SameWay DEF TInv
<1>7. ASSUME NEW c \in Clients
      PROVE  Way(r, c)'
  <2>1. Way(r, c) /\ wire[r][c] \in Seq(Nat)
    BY DEF RInv, TInv, TopicTypes
  <2>2. CASE wire'[r][c] = wire[r][c]
             /\ lost \subseteq lost' /\ (c \in subs[r] => <<r, c, n>> \in lost')
    <3>1. since[r][c] # None =>
            /\ c \in subs[r]
            /\ \A k \in 1 .. Len(log[r]) : k > since[r][c] =>
                 \/ k \in Numbers(Tail(batches[r])) \cup Numbers(wire[r][c]) \cup By("topic", heard[r][c])
                 \/ <<r, c, k>> \in lost'
      BY <1>3, <2>1, <2>2 DEF Way
    <3>2. /\ Below(By("topic", heard[r][c]), Numbers(Tail(batches[r])))
          /\ Below(Numbers(wire[r][c]), Numbers(Tail(batches[r])))
      BY <1>3, <2>1 DEF Way, Below
    <3>3. QED
      BY <1>1, <1>4, <2>1, <2>2, <3>1, <3>2 DEF Way
  <2>3. CASE wire'[r][c] = Append(wire[r][c], n) /\ lost' = lost
    <3>1. Numbers(wire'[r][c]) = Numbers(wire[r][c]) \cup {n} /\ Rising(wire'[r][c])
      <4>1. Below(Numbers(wire[r][c]), {n}) /\ Rising(wire[r][c])
        BY <1>3, <2>1 DEF Way, Below
      <4>2. QED
        BY <1>3, <2>1, <2>3, <4>1, AppendNumbers
    <3>2. since[r][c] # None =>
            /\ c \in subs[r]
            /\ \A k \in 1 .. Len(log[r]) : k > since[r][c] =>
                 \/ k \in Numbers(Tail(batches[r])) \cup Numbers(wire'[r][c]) \cup By("topic", heard[r][c])
                 \/ <<r, c, k>> \in lost
      BY <1>3, <2>1, <3>1 DEF Way
    <3>3. /\ Below(By("topic", heard[r][c]), Numbers(Tail(batches[r])))
          /\ Below(Numbers(wire'[r][c]), Numbers(Tail(batches[r])))
          /\ Below(By("topic", heard[r][c]), Numbers(wire'[r][c]))
      BY <1>3, <2>1, <3>1 DEF Way, Below
    <3>4. Numbers(wire'[r][c]) \cup By("topic", heard[r][c]) \subseteq 1 .. Len(log[r])
      BY <1>2, <1>3, <2>1, <3>1 DEF Way
    <3>5. /\ Ordered(heard[r][c])
          /\ \A k \in By("reply", heard[r][c]) : k \in 1 .. Len(log[r]) /\ log[r][k] = c
      BY <2>1 DEF Way
    <3>6. QED
      BY <1>1, <1>4, <2>3, <3>1, <3>2, <3>3, <3>4, <3>5 DEF Way
  <2>4. CASE Deliver(r)
    <3>1. /\ wire'[r][c] = IF c \in subs[r] THEN Append(wire[r][c], n) ELSE wire[r][c]
          /\ lost' = lost
      BY <2>4 DEF Deliver, RInv, TopicTypes, n
    <3>2. QED
      BY <2>2, <2>3, <3>1
  <2>5. CASE LoseBatch(r)
    <3>1. wire' = wire /\ lost' = lost \cup ({r} \X Clients \X {n})
      BY <2>5 DEF LoseBatch, n
    <3>2. <<r, c, n>> \in lost'
      BY <3>1
    <3>3. QED
      BY <2>2, <3>1, <3>2
  <2>6. QED
    BY <2>4, <2>5 DEF Topic
<1>8. QED
  BY <1>5, <1>6, <1>7 DEF TInv

\* A copy arrives or gets lost; one that arrives is news to the client.
LEMMA CopyWay ==
  ASSUME RInv, TInv, NEW r \in Rooms, NEW d \in Clients, Copy(r, d)
  PROVE  TInv' /\ (Arrive(r, d) => /\ F!Hear(r, d, "topic", Head(wire[r][d]))
                                  /\ Head(wire[r][d]) \in 1 .. Len(log[r]))
<1> DEFINE n == Head(wire[r][d])
<1>1. /\ wire[r][d] # << >> /\ wire' = [wire EXCEPT ![r][d] = Tail(wire[r][d])]
      /\ UNCHANGED <<log, subs, batches, since>>
  BY DEF Copy, Arrive, LoseCopy, TopicStep, roomVars
<1>2. wire[r][d] \in Seq(Nat) /\ heard[r][d] \in Seq(Frame) /\ Way(r, d)
  BY DEF RInv, TopicTypes, TInv
<1>3. Rising(wire[r][d])
  BY <1>2 DEF Way
<1>4. /\ n \in Nat /\ Tail(wire[r][d]) \in Seq(Nat)
      /\ Numbers(wire[r][d]) = {n} \cup Numbers(Tail(wire[r][d]))
      /\ Rising(Tail(wire[r][d])) /\ Below({n}, Numbers(Tail(wire[r][d])))
  BY <1>1, <1>2, <1>3, TailNumbers
<1>5. /\ wire'[r][d] = Tail(wire[r][d])
      /\ \A q \in Rooms, c \in Clients : q # r \/ c # d => wire'[q][c] = wire[q][c]
  BY <1>1, <1>4, OneEntry DEF RInv, TopicTypes
<1> HIDE DEF n
<1>6. \A q \in Rooms : Published(q)'
  BY <1>1 DEF TInv, Published
<1>7. n \in 1 .. Len(log[r]) /\ Below(By("topic", heard[r][d]), {n})
  BY <1>2, <1>4 DEF Way, Below
<1>8. CASE Arrive(r, d)
  <2> DEFINE f == [way |-> "topic", n |-> n]
  <2>1. heard' = [heard EXCEPT ![r][d] = Append(heard[r][d], f)] /\ lost' = lost
    BY <1>8 DEF Arrive, n
  <2>frame. f \in Frame /\ f.way = "topic" /\ f.n = n
    BY <1>4 DEF Frame
  <2> HIDE DEF f
  <2>2. Append(heard[r][d], f) \in Seq(Frame)
    BY <1>2, <2>frame, AppendProperties
  <2>3. /\ heard'[r][d] = Append(heard[r][d], f)
        /\ \A q \in Rooms, c \in Clients : q # r \/ c # d => heard'[q][c] = heard[q][c]
    BY <2>1, <2>2, OneEntry DEF RInv, TopicTypes
  <2>4. /\ By("topic", heard'[r][d]) = By("topic", heard[r][d]) \cup {n}
        /\ Ordered(heard'[r][d])
        /\ By("reply", heard'[r][d]) = By("reply", heard[r][d])
    <3>1. Ordered(heard[r][d])
      BY <1>2 DEF Way
    <3>2. heard[r][d] \in Seq(Frame) /\ Below(By(f.way, heard[r][d]), {f.n})
      BY <1>2, <1>7, <2>frame
    <3>3. /\ By(f.way, Append(heard[r][d], f)) = By(f.way, heard[r][d]) \cup {f.n}
          /\ \A way : way # f.way => By(way, Append(heard[r][d], f)) = By(way, heard[r][d])
          /\ Ordered(Append(heard[r][d], f))
      BY ONLY <2>frame, <3>1, <3>2, AppendFrame
    <3>4. "reply" # f.way
      BY <2>frame
    <3>5. QED
      BY <2>frame, <2>3, <3>3, <3>4
  <2>5. ASSUME NEW q \in Rooms, NEW c \in Clients
        PROVE  Way(q, c)'
    <3>1. CASE q # r \/ c # d
      BY <1>1, <1>5, <2>1, <2>3, <3>1, SameWay DEF TInv
    <3>2. Way(r, d)'
      <4>1. since[r][d] # None =>
              /\ d \in subs[r]
              /\ \A k \in 1 .. Len(log[r]) : k > since[r][d] =>
                   \/ k \in Numbers(batches[r]) \cup Numbers(wire'[r][d]) \cup By("topic", heard'[r][d])
                   \/ <<r, d, k>> \in lost
        BY <1>2, <1>4, <1>5, <2>4 DEF Way
      <4>2. /\ Below(By("topic", heard'[r][d]), Numbers(wire'[r][d]))
            /\ Below(By("topic", heard'[r][d]), Numbers(batches[r]))
            /\ Below(Numbers(wire'[r][d]), Numbers(batches[r]))
        BY <1>2, <1>4, <1>5, <2>4 DEF Way, Below
      <4>3. Numbers(wire'[r][d]) \cup By("topic", heard'[r][d]) \subseteq 1 .. Len(log[r])
        BY <1>2, <1>4, <1>5, <2>4 DEF Way
      <4>4. \A k \in By("reply", heard[r][d]) : k \in 1 .. Len(log[r]) /\ log[r][k] = d
        BY <1>2 DEF Way
      <4>5. QED
        BY <1>1, <1>4, <1>5, <2>1, <2>4, <4>1, <4>2, <4>3, <4>4 DEF Way
    <3>3. QED
      BY <3>1, <3>2
  <2>6. F!Hear(r, d, "topic", n)
    <3>1. F!News(heard[r][d], "topic", n)
      BY <1>7 DEF F!News, Below, By
    <3>2. QED
      BY <1>1, <2>1, <3>1 DEF F!Hear, f
  <2>7. QED
    BY <1>6, <1>7, <2>5, <2>6 DEF TInv, n
<1>9. CASE LoseCopy(r, d) /\ ~Arrive(r, d)
  <2>1. heard' = heard /\ lost' = lost \cup {<<r, d, n>>}
    BY <1>9 DEF LoseCopy, n
  <2>2. ASSUME NEW q \in Rooms, NEW c \in Clients
        PROVE  Way(q, c)'
    <3>1. CASE q # r \/ c # d
      BY <1>1, <1>5, <2>1, <3>1, SameWay DEF TInv
    <3>2. Way(r, d)'
      <4>1. since[r][d] # None =>
              /\ d \in subs[r]
              /\ \A k \in 1 .. Len(log[r]) : k > since[r][d] =>
                   \/ k \in Numbers(batches[r]) \cup Numbers(wire'[r][d]) \cup By("topic", heard[r][d])
                   \/ <<r, d, k>> \in lost'
        BY <1>2, <1>4, <1>5, <2>1 DEF Way
      <4>2. /\ Below(By("topic", heard[r][d]), Numbers(wire'[r][d]))
            /\ Below(By("topic", heard[r][d]), Numbers(batches[r]))
            /\ Below(Numbers(wire'[r][d]), Numbers(batches[r]))
        BY <1>2, <1>4, <1>5 DEF Way, Below
      <4>3. Numbers(wire'[r][d]) \cup By("topic", heard[r][d]) \subseteq 1 .. Len(log[r])
        BY <1>2, <1>4, <1>5 DEF Way
      <4>4. /\ Ordered(heard[r][d])
            /\ \A k \in By("reply", heard[r][d]) : k \in 1 .. Len(log[r]) /\ log[r][k] = d
        BY <1>2 DEF Way
      <4>5. QED
        BY <1>1, <1>4, <1>5, <2>1, <4>1, <4>2, <4>3, <4>4 DEF Way
    <3>3. QED
      BY <3>1, <3>2
  <2>3. QED
    BY <1>6, <1>9, <2>2 DEF TInv
<1>10. QED
  BY <1>8, <1>9 DEF Copy

\* A topic is activated elsewhere.
LEMMA MoveWay ==
  ASSUME RInv, TInv, NEW r \in Rooms, MoveTopic(r)
  PROVE  TInv'
<1>1. /\ since' = [since EXCEPT ![r] = [c \in Clients |-> None]]
      /\ batches' = [batches EXCEPT ![r] = << >>]
      /\ subs' = [subs EXCEPT ![r] = {}]
      /\ lost \subseteq lost' /\ UNCHANGED <<log, wire, heard>>
  BY DEF MoveTopic, roomVars
<1>2. /\ batches'[r] = << >> /\ \A c \in Clients : since'[r][c] = None
      /\ \A q \in Rooms \ {r} :
           batches'[q] = batches[q] /\ since'[q] = since[q] /\ subs'[q] = subs[q]
  BY <1>1 DEF RInv, TopicTypes
<1>3. ASSUME NEW q \in Rooms
      PROVE  Published(q)'
  BY <1>1, <1>2, EmptyNumbers DEF TInv, Published
<1>4. ASSUME NEW q \in Rooms, NEW c \in Clients
      PROVE  Way(q, c)'
  <2>1. CASE q # r
    BY <1>1, <1>2, <2>1, SameWay DEF TInv
  <2>2. CASE q = r
    <3>1. Way(r, c)
      BY DEF TInv
    <3>2. \A A : Below(A, Numbers(<< >>))
      BY EmptyNumbers DEF Below
    <3>3. QED
      BY <1>1, <1>2, <2>2, <3>1, <3>2 DEF Way
  <2>3. QED
    BY <2>1, <2>2
<1>5. QED
  BY <1>3, <1>4 DEF TInv

\* A client subscribes, or fails to.
LEMMA SubscribeWay ==
  ASSUME RInv, TInv, NEW d \in Clients, Subscribe(d)
  PROVE  TInv'
<1> DEFINE r == call[d].room
<1>1. UNCHANGED <<log, batches, wire, heard, lost>>
  BY DEF Subscribe, roomVars
<1>2. r \in Rooms
  <2>1. call[d] \in Call
    BY DEF Subscribe, RInv, ClientTypes
  <2>2. QED
    BY <2>1 DEF Call
<1>3. \/ UNCHANGED <<subs, since>>
      \/ /\ subs' = [subs EXCEPT ![r] = @ \cup {d}]
         /\ since' = IF since[r][d] = None
                     THEN [since EXCEPT ![r][d] = Len(log[r])] ELSE since
  BY DEF Subscribe
<1> HIDE DEF r
<1>4. Len(log[r]) \in Nat
  BY <1>2 DEF RInv, RoomTypes
<1>5. CASE UNCHANGED <<subs, since>>
  BY <1>1, <1>5, SameTopics DEF topicVars
<1>6. CASE /\ subs' = [subs EXCEPT ![r] = @ \cup {d}]
           /\ since' = IF since[r][d] = None
                       THEN [since EXCEPT ![r][d] = Len(log[r])] ELSE since
  <2>1. d \in subs'[r] /\ \A q \in Rooms : subs[q] \subseteq subs'[q]
    BY <1>2, <1>6 DEF RInv, TopicTypes
  <2>2. /\ since'[r][d] = IF since[r][d] = None THEN Len(log[r]) ELSE since[r][d]
        /\ \A q \in Rooms, c \in Clients : q # r \/ c # d => since'[q][c] = since[q][c]
    BY <1>2, <1>4, <1>6, OneEntry DEF RInv, TopicTypes
  <2>3. ASSUME NEW q \in Rooms
        PROVE  Published(q)'
    BY <1>1 DEF TInv, Published
  <2>4. ASSUME NEW q \in Rooms, NEW c \in Clients
        PROVE  Way(q, c)'
    <3>1. CASE since'[q][c] = since[q][c]
      BY <1>1, <2>1, <3>1, SameWay DEF TInv
    <3>2. CASE since'[q][c] # since[q][c]
      <4>1. q = r /\ c = d /\ since'[q][c] = Len(log[r])
        BY <2>2, <3>2
      <4>2. Way(q, c)
        BY DEF TInv
      <4>3. \A k \in 1 .. Len(log[r]) : ~(k > Len(log[r]))
        BY <1>4
      <4>4. QED
        BY <1>1, <2>1, <4>1, <4>2, <4>3 DEF Way
    <3>3. QED
      BY <3>1, <3>2
  <2>5. QED
    BY <2>3, <2>4 DEF TInv
<1>7. QED
  BY <1>3, <1>5, <1>6

\* What a client or a room does to the topics, other than these steps: nothing.
LEMMA OtherSteps ==
  ASSUME [Next]_vars
  PROVE  \/ \E c \in Clients : Subscribe(c) \/ SendReturn(c)
         \/ \E r \in Rooms : HandleSend(r) \/ Topic(r) \/ MoveTopic(r) \/ \E c \in Clients : Copy(r, c)
         \/ UNCHANGED <<log, topicVars>>
<1>1. ASSUME NEW c \in Clients, Client(c)
      PROVE  Subscribe(c) \/ SendReturn(c) \/ UNCHANGED <<log, topicVars>>
  <2>1. CASE Login(c) \/ TimeOut(c) \/ AskCurrent(c) \/ \E r \in Rooms : Ask(c, r)
    BY <2>1 DEF Login, TimeOut, AskCurrent, Ask, Post, roomVars
  <2>2. CASE CreateReturn(c) \/ JoinReturn(c) \/ JoinRefused(c) \/ LeaveReturn(c) \/ Told(c)
    BY <2>2 DEF CreateReturn, JoinReturn, JoinRefused, LeaveReturn, Told, Return, roomVars, topicVars
  <2>3. QED
    BY <1>1, <2>1, <2>2 DEF Client
<1>2. ASSUME NEW r \in Rooms, Room(r)
      PROVE  HandleSend(r) \/ UNCHANGED <<log, topicVars>>
  BY <1>2 DEF Room, HandleCreate, HandleJoin, HandleLeave, HandleUsers, HandleSendOutside,
              PublishEnds, roomVars
<1>3. ASSUME NEW r \in Rooms, MoveRoom(r)
      PROVE  UNCHANGED <<log, topicVars>>
  BY <1>3 DEF MoveRoom
<1>4. CASE UNCHANGED vars
  BY <1>4 DEF vars, roomVars
<1>5. QED
  BY <1>1, <1>2, <1>3, <1>4 DEF Next

-----------------------------------------------------------------------------
(* The messages in replies.                                                *)

\* A reply with a message on its way to a client has one that is its own, and
\* later than those in replies before; the room may be publishing a later one.
Own(c) ==
  reply[c] # None /\ reply[c].n # 0 =>
    LET r == call[c].room IN
    /\ reply[c].n \in 1 .. Len(log[r]) /\ log[r][reply[c].n] = c
    /\ Below(By("reply", heard[r][c]), {reply[c].n})
    /\ busy[r] # 0 => reply[c].n < busy[r]

\* The message a room publishes is that of the request it is at, and nobody has
\* had it in a reply.
Saying(r) ==
  busy[r] # 0 =>
    /\ log[r][busy[r]] = Head(mailbox[r]).from
    /\ \A c \in Clients : Below(By("reply", heard[r][c]), {busy[r]})

AInv == (\A c \in Clients : Own(c)) /\ \A r \in Rooms : Saying(r)

\* A step that brings no message in a reply, and no client one of these.
LEMMA QuietAnswers ==
  ASSUME RInv, AInv, log' = log,
         \A c \in Clients : \/ reply'[c] = None \/ reply'[c].n = 0
                            \/ reply'[c] = reply[c] /\ call'[c] = call[c],
         \A r \in Rooms, c \in Clients : By("reply", heard'[r][c]) = By("reply", heard[r][c]),
         \A r \in Rooms : /\ busy'[r] \in {0, busy[r]}
                          /\ busy'[r] # 0 => Head(mailbox'[r]).from = Head(mailbox[r]).from
  PROVE  AInv'
<1>1. ASSUME NEW c \in Clients
      PROVE  Own(c)'
  <2>1. CASE reply'[c] = None \/ reply'[c].n = 0
    BY <2>1 DEF Own
  <2>2. CASE reply[c] # None /\ reply'[c] = reply[c] /\ call'[c] = call[c]
    <3>1. call[c].room \in Rooms
      BY <2>2, ClientFacts
    <3>2. Own(c)
      BY DEF AInv
    <3>3. QED
      BY <2>2, <3>1, <3>2 DEF Own
  <2>3. QED
    BY <2>1, <2>2
<1>2. ASSUME NEW r \in Rooms
      PROVE  Saying(r)'
  BY DEF AInv, Saying
<1>3. QED
  BY <1>1, <1>2 DEF AInv

\* A client gets its own message in a reply: it is news to it.
LEMMA ReplyWay ==
  ASSUME RInv, TInv, AInv, NEW c \in Clients, SendReturn(c)
  PROVE  TInv' /\ AInv' /\ \E r \in Rooms : \E n \in 1 .. Len(log[r]) : F!Hear(r, c, "reply", n)
<1>room. call[c].room \in Rooms /\ reply[c] \in Reply
  BY ClientFacts DEF SendReturn, Return, RInv, ClientTypes
<1>message. reply[c].n \in Nat
  BY <1>room DEF Reply
<1>2. PICK r \in Rooms, n \in Nat : r = call[c].room /\ n = reply[c].n
  BY <1>room, <1>message
<1> DEFINE f == [way |-> "reply", n |-> n]
<1>1. /\ pc[c] = "waiting" /\ reply[c] # None /\ n # 0
      /\ reply' = [reply EXCEPT ![c] = None] /\ call' = [call EXCEPT ![c] = None]
      /\ heard' = [heard EXCEPT ![r][c] = Append(heard[r][c], f)]
      /\ UNCHANGED <<mailbox, log, busy, batches, subs, wire, since, lost>>
  BY <1>2 DEF SendReturn, Return, roomVars
<1>3. f \in Frame /\ f.way = "reply" /\ f.n = n
  BY DEF Frame
<1>4. /\ n \in 1 .. Len(log[r]) /\ log[r][n] = c
      /\ Below(By("reply", heard[r][c]), {n})
      /\ busy[r] # 0 => n < busy[r]
  BY <1>1, <1>2 DEF AInv, Own
<1>5. heard[r][c] \in Seq(Frame) /\ Way(r, c)
  BY DEF RInv, TopicTypes, TInv
<1>hear. F!Hear(r, c, "reply", n)
  <2>1. F!News(heard[r][c], "reply", n)
    BY <1>4 DEF F!News, Below, By
  <2>2. QED
    BY <1>1, <1>4, <2>1 DEF F!Hear
<1> HIDE DEF f
<1>6. /\ heard'[r][c] = Append(heard[r][c], f)
      /\ \A q \in Rooms, d \in Clients : q # r \/ d # c => heard'[q][d] = heard[q][d]
  <2>1. Append(heard[r][c], f) \in Seq(Frame)
    BY <1>3, <1>5, AppendProperties
  <2>2. QED
    BY <1>1, <2>1, OneEntry DEF RInv, TopicTypes
<1>7. /\ By("reply", heard'[r][c]) = By("reply", heard[r][c]) \cup {n}
      /\ Ordered(heard'[r][c])
      /\ By("topic", heard'[r][c]) = By("topic", heard[r][c])
  <2>1. Ordered(heard[r][c])
    BY <1>5 DEF Way
  <2>2. heard[r][c] \in Seq(Frame) /\ Below(By(f.way, heard[r][c]), {f.n})
    BY <1>3, <1>4, <1>5
  <2>3. /\ By(f.way, Append(heard[r][c], f)) = By(f.way, heard[r][c]) \cup {f.n}
        /\ \A way : way # f.way => By(way, Append(heard[r][c], f)) = By(way, heard[r][c])
        /\ Ordered(Append(heard[r][c], f))
    BY ONLY <1>3, <2>1, <2>2, AppendFrame
  <2>4. "topic" # f.way
    BY <1>3
  <2>5. QED
    BY <1>3, <1>6, <2>3, <2>4
<1>8. ASSUME NEW q \in Rooms
      PROVE  Published(q)'
  BY <1>1 DEF TInv, Published
<1>9. ASSUME NEW q \in Rooms, NEW d \in Clients
      PROVE  Way(q, d)'
  <2>1. CASE q # r \/ d # c
    BY <1>1, <1>6, <2>1, SameWay DEF TInv
  <2>2. CASE q = r /\ d = c
    <3>1. \A k \in By("reply", heard'[r][c]) : k \in 1 .. Len(log[r]) /\ log[r][k] = c
      BY <1>4, <1>5, <1>7 DEF Way
    <3>2. UNCHANGED <<log, batches, wire, subs, since, lost>>
      BY <1>1
    <3>3. QED
      BY ONLY <1>5, <1>7, <2>2, <3>1, <3>2 DEF Way
  <2>3. QED
    BY <2>1, <2>2
<1>10. ASSUME NEW d \in Clients
       PROVE  Own(d)'
  <2>1. CASE d = c
    BY <1>1, <2>1 DEF Own, RInv, ClientTypes
  <2>2. CASE d # c /\ reply[d] # None
    <3>1. Own(d) /\ call[d].room \in Rooms
      BY <2>2, ClientFacts DEF AInv
    <3>2. /\ reply'[d] = reply[d] /\ call'[d] = call[d]
          /\ \A q \in Rooms : heard'[q][d] = heard[q][d]
      BY <1>1, <1>6, <2>2 DEF RInv, ClientTypes
    <3>3. QED
      BY <1>1, <3>1, <3>2 DEF Own
  <2>3. CASE d # c /\ reply[d] = None
    BY <1>1, <2>3 DEF Own, RInv, ClientTypes
  <2>4. QED
    BY <2>1, <2>2, <2>3
<1>11. ASSUME NEW q \in Rooms
       PROVE  Saying(q)'
  <2>1. ASSUME busy[q] # 0, NEW d \in Clients
        PROVE  Below(By("reply", heard'[q][d]), {busy[q]})
    <3>1. Below(By("reply", heard[q][d]), {busy[q]})
      BY <2>1 DEF AInv, Saying
    <3>2. CASE q # r \/ d # c
      BY <1>6, <3>1, <3>2
    <3>3. CASE q = r /\ d = c
      BY <1>4, <1>7, <2>1, <3>1, <3>3 DEF Below
    <3>4. QED
      BY <3>2, <3>3
  <2>2. busy[q] # 0 => log[q][busy[q]] = Head(mailbox[q]).from
    BY DEF AInv, Saying
  <2>3. QED
    BY <1>1, <2>1, <2>2 DEF Saying
<1>12. QED
  BY <1>4, <1>8, <1>9, <1>10, <1>11, <1>hear DEF TInv, AInv

\* A message is said: it is later than all before.
LEMMA SayAnswers ==
  ASSUME RInv, TInv, AInv, NEW r \in Rooms, HandleSend(r)
  PROVE  AInv'
<1> DEFINE n == Len(log[r]) + 1
<1>1. /\ log' = [log EXCEPT ![r] = Append(log[r], Head(mailbox[r]).from)]
      /\ busy' = [busy EXCEPT ![r] = n] /\ busy[r] = 0
      /\ UNCHANGED <<reply, call, mailbox, heard>>
  BY DEF HandleSend, At
<1>2. log[r] \in Seq(Clients) /\ Len(log[r]) \in Nat
  BY DEF RInv, RoomTypes
<1>3. /\ log'[r] = Append(log[r], Head(mailbox[r]).from) /\ busy'[r] = n
      /\ \A q \in Rooms \ {r} : log'[q] = log[q] /\ busy'[q] = busy[q]
  BY <1>1 DEF RInv, RoomTypes
<1>4. /\ Len(log'[r]) = n /\ log'[r][n] = Head(mailbox[r]).from
      /\ \A m \in 1 .. Len(log[r]) : log'[r][m] = log[r][m]
  BY <1>2, <1>3, SendStep, AppendProperties
<1>5. n \in Nat \ {0} /\ \A m \in 1 .. Len(log[r]) : m < n /\ m \in 1 .. n
  BY <1>2
<1> HIDE DEF n
<1>6. ASSUME NEW c \in Clients
      PROVE  Own(c)'
  <2> SUFFICES ASSUME reply[c] # None, reply[c].n # 0
               PROVE  LET q == call[c].room IN
                      /\ reply[c].n \in 1 .. Len(log'[q]) /\ log'[q][reply[c].n] = c
                      /\ Below(By("reply", heard[q][c]), {reply[c].n})
                      /\ busy'[q] # 0 => reply[c].n < busy'[q]
    BY <1>1 DEF Own
  <2>1. Own(c) /\ call[c].room \in Rooms
    BY ClientFacts DEF AInv
  <2>2. CASE call[c].room = r
    <3>1. /\ reply[c].n \in 1 .. Len(log[r]) /\ log[r][reply[c].n] = c
          /\ Below(By("reply", heard[r][c]), {reply[c].n})
      BY <2>1, <2>2 DEF Own
    <3>2. QED
      BY ONLY <1>3, <1>4, <1>5, <2>2, <3>1
  <2>3. CASE call[c].room # r
    BY <1>3, <2>1, <2>3 DEF Own
  <2>4. QED
    BY <2>2, <2>3
<1>7. ASSUME NEW q \in Rooms
      PROVE  Saying(q)'
  <2>1. CASE q # r
    BY <1>1, <1>3, <2>1 DEF AInv, Saying
  <2>2. CASE q = r
    <3>1. ASSUME NEW c \in Clients
          PROVE  Below(By("reply", heard[r][c]), {n})
      <4>1. \A k \in By("reply", heard[r][c]) : k \in 1 .. Len(log[r])
        BY DEF TInv, Way
      <4>2. QED
        BY ONLY <1>5, <4>1 DEF Below
    <3>2. QED
      BY <1>1, <1>3, <1>4, <2>2, <3>1 DEF Saying
  <2>3. QED
    BY <2>1, <2>2
<1>8. QED
  BY <1>6, <1>7 DEF AInv

\* A room answers with the message it has published.
LEMMA PublishedAnswers ==
  ASSUME RInv, AInv, NEW r \in Rooms, PublishEnds(r)
  PROVE  AInv'
<1> DEFINE m == Head(mailbox[r])
<1>1. /\ busy[r] # 0 /\ busy' = [busy EXCEPT ![r] = 0]
      /\ reply' = IF m.live THEN [reply EXCEPT ![m.from] = Sent(busy[r])] ELSE reply
      /\ UNCHANGED <<call, log, heard>> /\ Answer(r, Sent(busy[r]))
  BY DEF PublishEnds, Answer, topicVars
<1>2. busy[r] = Len(log[r]) /\ busy[r] \in Nat /\ mailbox[r] # << >> /\ m.op = "Send"
  BY <1>1 DEF RInv, RoomTypes
<1>3. /\ Len(mailbox[r]) \in Nat \ {0} /\ m = mailbox[r][1] /\ m \in Request
      /\ \A q \in Rooms \ {r} : mailbox'[q] = mailbox[q]
  BY <1>1, <1>2, AnswerFacts DEF RInv
<1>4. /\ log[r][busy[r]] = m.from
      /\ \A c \in Clients : Below(By("reply", heard[r][c]), {busy[r]})
  BY <1>1 DEF AInv, Saying
<1>5. busy'[r] = 0 /\ \A q \in Rooms \ {r} : busy'[q] = busy[q]
  BY <1>1 DEF RInv, RoomTypes
<1>6. m.from \in Clients
  BY <1>3 DEF Request
<1> HIDE DEF m
<1>7. m.live => call[m.from] = [op |-> "Send", room |-> r]
  <2>1. Outstanding
    BY DEF RInv
  <2>2. mailbox[r][1].live => call[mailbox[r][1].from] = [op |-> mailbox[r][1].op, room |-> r]
    BY ONLY <1>3, <2>1, FirstAwaited, r \in Rooms
  <2>3. QED
    BY <1>2, <1>3, <2>2
<1>8. ASSUME NEW c \in Clients
      PROVE  Own(c)'
  <2>1. CASE m.live /\ c = m.from
    <3>1. reply'[c] = Sent(busy[r]) /\ call'[c].room = r
      BY <1>1, <1>7, <2>1 DEF RInv, ClientTypes
    <3>2. reply'[c].n = busy[r]
      BY <1>2, <3>1, Messages
    <3>3. busy[r] \in 1 .. Len(log[r])
      BY <1>1, <1>2
    <3>4. QED
      BY <1>1, <1>4, <1>5, <2>1, <3>1, <3>2, <3>3 DEF Own
  <2>2. CASE ~(m.live /\ c = m.from) /\ reply[c] # None
    <3>1. reply'[c] = reply[c]
      BY <1>1, <2>2 DEF RInv, ClientTypes
    <3>2. Own(c) /\ call[c].room \in Rooms
      BY <2>2, ClientFacts DEF AInv
    <3>3. QED
      BY <1>1, <1>5, <3>1, <3>2 DEF Own
  <2>3. CASE ~(m.live /\ c = m.from) /\ reply[c] = None
    BY <1>1, <2>3 DEF Own, RInv, ClientTypes
  <2>4. QED
    BY <2>1, <2>2, <2>3
<1>9. ASSUME NEW q \in Rooms
      PROVE  Saying(q)'
  BY <1>1, <1>3, <1>5 DEF AInv, Saying
<1>10. QED
  BY <1>8, <1>9 DEF AInv

\* The other steps of a room.
LEMMA RoomAnswers ==
  ASSUME RInv, AInv, NEW r \in Rooms,
         \/ HandleCreate(r) \/ HandleJoin(r) \/ HandleLeave(r) \/ HandleUsers(r)
         \/ HandleSendOutside(r)
  PROVE  AInv'
<1>1. mailbox[r] # << >> /\ busy[r] = 0
  BY DEF HandleCreate, HandleJoin, HandleLeave, HandleUsers, HandleSendOutside, At
<1>2. PICK outcome \in {Good, Empty, Refusal} : Answer(r, outcome)
  BY DEF HandleCreate, HandleJoin, HandleLeave, HandleUsers, HandleSendOutside
<1>3. outcome.n = 0
  BY Messages
<1>4. UNCHANGED <<log, busy, heard>>
  BY DEF HandleCreate, HandleJoin, HandleLeave, HandleUsers, HandleSendOutside, roomVars, topicVars
<1>5. \A q \in Rooms \ {r} : mailbox'[q] = mailbox[q]
  BY <1>1, <1>2, AnswerFacts DEF RInv
<1>6. \A c \in Clients : reply'[c] = outcome \/ reply'[c] = reply[c]
  BY <1>2 DEF Answer, RInv, ClientTypes
<1>7. call' = call
  BY <1>2 DEF Answer
<1>8. QED
  BY <1>1, <1>3, <1>4, <1>5, <1>6, <1>7, QuietAnswers

\* The steps of a client but its sends' returns.
LEMMA ClientAnswers ==
  ASSUME RInv, AInv, NEW c \in Clients, Client(c), ~SendReturn(c)
  PROVE  AInv'
<1>1. CASE AskCurrent(c) \/ \E r \in Rooms : Ask(c, r)
  <2>1. PICK op \in Ops, r \in Rooms : Post(c, op, r)
    BY <1>1, AskStep
  <2>2. pc[c] = "idle" /\ UNCHANGED <<reply, log, busy, heard>>
        /\ call' = [call EXCEPT ![c] = [op |-> op, room |-> r]]
    BY <2>1 DEF Post, roomVars, topicVars
  <2>3. \A q \in Rooms : busy[q] # 0 => Head(mailbox'[q]) = Head(mailbox[q])
    BY <2>1, PostFacts DEF RInv, RoomTypes
  <2>4. reply[c] = None /\ \A d \in Clients : d # c => call'[d] = call[d]
    BY <2>2 DEF RInv, ClientTypes
  <2>5. QED
    BY <2>2, <2>3, <2>4, QuietAnswers
<1>2. CASE TimeOut(c)
  <2>1. /\ call' = [call EXCEPT ![c] = None] /\ reply' = [reply EXCEPT ![c] = None]
        /\ UNCHANGED <<log, busy, heard>>
    BY <1>2 DEF TimeOut, roomVars, topicVars
  <2>2. \A q \in Rooms : busy[q] # 0 => Head(mailbox'[q]).from = Head(mailbox[q]).from
    <3> SUFFICES ASSUME NEW q \in Rooms, busy[q] # 0
                 PROVE  Head(mailbox'[q]).from = Head(mailbox[q]).from
      OBVIOUS
    <3>1. mailbox[q] \in Seq(Request) /\ mailbox[q] # << >>
      BY DEF RInv, RoomTypes
    <3>2. /\ mailbox'[q] \in Seq(Request) /\ Len(mailbox'[q]) = Len(mailbox[q])
          /\ \A i \in 1 .. Len(mailbox[q]) : mailbox'[q][i].from = mailbox[q][i].from
      BY <1>2, GiveUpFacts DEF RInv, TimeOut
    <3>3. Len(mailbox[q]) \in Nat \ {0} /\ 1 \in 1 .. Len(mailbox[q])
      BY <3>1
    <3>4. Head(mailbox'[q]) = mailbox'[q][1] /\ Head(mailbox[q]) = mailbox[q][1]
      BY <3>1, <3>2, <3>3
    <3>5. QED
      BY <3>2, <3>3, <3>4
  <2>3. \A d \in Clients : reply'[d] = None \/ (reply'[d] = reply[d] /\ call'[d] = call[d])
    BY <2>1 DEF RInv, ClientTypes
  <2>4. QED
    BY <2>1, <2>2, <2>3, QuietAnswers
<1>3. CASE \/ Login(c) \/ Subscribe(c) \/ CreateReturn(c) \/ JoinReturn(c) \/ JoinRefused(c)
           \/ LeaveReturn(c) \/ Told(c)
  <2>1. CASE Login(c) \/ Subscribe(c)
    <3>1. /\ pc[c] \in {"new", "subscribing"} /\ UNCHANGED <<reply, log, busy, heard, mailbox>>
          /\ call' = call \/ call' = [call EXCEPT ![c] = None]
      BY <2>1 DEF Login, Subscribe, roomVars, topicVars
    <3>2. reply[c] = None
      BY <3>1, ClientFacts
    <3>3. \A d \in Clients : d # c => call'[d] = call[d]
      BY <3>1 DEF RInv, ClientTypes
    <3>4. QED
      BY <3>1, <3>2, <3>3, QuietAnswers
  <2>2. CASE \/ CreateReturn(c) \/ JoinReturn(c) \/ JoinRefused(c) \/ LeaveReturn(c) \/ Told(c)
    <3>1. /\ UNCHANGED <<log, busy, heard, mailbox>> /\ reply' = [reply EXCEPT ![c] = None]
          /\ call' = call \/ call' = [call EXCEPT ![c] = None]
      BY <2>2 DEF CreateReturn, JoinReturn, JoinRefused, LeaveReturn, Told, Return, roomVars
    <3>2. \A d \in Clients : reply'[d] = None \/ (reply'[d] = reply[d] /\ call'[d] = call[d])
      BY <3>1 DEF RInv, ClientTypes
    <3>3. QED
      BY <3>1, <3>2, QuietAnswers
  <2>3. QED
    BY <1>3, <2>1, <2>2
<1>4. QED
  BY <1>1, <1>2, <1>3 DEF Client

\* The topics bring no replies.
LEMMA TopicAnswers ==
  ASSUME RInv, AInv, NEW r \in Rooms,
         Topic(r) \/ MoveTopic(r) \/ \E c \in Clients : Copy(r, c)
  PROVE  AInv'
<1>1. UNCHANGED <<reply, call, log, busy, mailbox>>
  BY DEF Topic, Deliver, LoseBatch, MoveTopic, Copy, Arrive, LoseCopy, TopicStep, roomVars
<1>2. CASE heard' = heard
  BY <1>1, <1>2, QuietAnswers
<1>3. ASSUME NEW c \in Clients, Arrive(r, c)
      PROVE  AInv'
  <2> DEFINE f == [way |-> "topic", n |-> Head(wire[r][c])]
  <2>1. wire[r][c] # << >> /\ heard' = [heard EXCEPT ![r][c] = Append(heard[r][c], f)]
    BY <1>3 DEF Arrive
  <2>2. wire[r][c] \in Seq(Nat) /\ heard[r][c] \in Seq(Frame)
    BY DEF RInv, TopicTypes
  <2>3. f \in Frame /\ f.way = "topic"
    BY <2>1, <2>2, NumberedHead DEF Frame
  <2> HIDE DEF f
  <2>4. Append(heard[r][c], f) \in Seq(Frame)
    BY <2>2, <2>3, AppendProperties
  <2>5. /\ heard'[r][c] = Append(heard[r][c], f)
        /\ \A q \in Rooms, d \in Clients : q # r \/ d # c => heard'[q][d] = heard[q][d]
    BY <2>1, <2>4, OneEntry DEF RInv, TopicTypes
  <2>6. By("reply", heard'[r][c]) = By("reply", heard[r][c])
    <3>1. \A way : way # f.way => By(way, Append(heard[r][c], f)) = By(way, heard[r][c])
      BY ONLY <2>2, <2>3, AppendFrame
    <3>2. "reply" # f.way
      BY <2>3
    <3>3. QED
      BY <2>5, <3>1, <3>2
  <2>7. \A q \in Rooms, d \in Clients : By("reply", heard'[q][d]) = By("reply", heard[q][d])
    BY <2>5, <2>6
  <2>8. QED
    BY <1>1, <2>7, QuietAnswers
<1>4. CASE Topic(r) \/ MoveTopic(r) \/ \E c \in Clients : LoseCopy(r, c)
  <2>1. heard' = heard
    BY <1>4 DEF Topic, Deliver, LoseBatch, MoveTopic, LoseCopy
  <2>2. QED
    BY <1>2, <2>1
<1>5. QED
  BY <1>3, <1>4 DEF Copy

\* Every step keeps the replies right.
LEMMA AInvStep ==
  ASSUME RInv, TInv, AInv, [Next]_vars
  PROVE  AInv'
<1>1. ASSUME NEW c \in Clients, Client(c)
      PROVE  AInv'
  BY <1>1, ClientAnswers, ReplyWay
<1>2. ASSUME NEW r \in Rooms, Room(r)
      PROVE  AInv'
  BY <1>2, RoomAnswers, SayAnswers, PublishedAnswers DEF Room
<1>3. ASSUME NEW r \in Rooms,
             Topic(r) \/ MoveTopic(r) \/ \E c \in Clients : Copy(r, c)
      PROVE  AInv'
  BY <1>3, TopicAnswers
<1>4. ASSUME NEW r \in Rooms, MoveRoom(r)
      PROVE  AInv'
  <2>1. UNCHANGED <<reply, call, log, heard>> /\ busy' = [busy EXCEPT ![r] = 0]
    BY <1>4 DEF MoveRoom, topicVars
  <2>2. \A q \in Rooms : busy'[q] = (IF q = r THEN 0 ELSE busy[q])
    BY <2>1 DEF RInv, RoomTypes
  <2>3. \A q \in Rooms : q # r => mailbox'[q] = mailbox[q]
    BY <1>4 DEF MoveRoom, RInv, RoomTypes
  <2>4. QED
    BY <2>1, <2>2, <2>3, QuietAnswers
<1>5. CASE UNCHANGED vars
  <2>1. UNCHANGED <<reply, call, log, heard, busy, mailbox>>
    BY <1>5 DEF vars, roomVars, topicVars
  <2>2. QED
    BY <2>1, QuietAnswers
<1>6. QED
  BY <1>1, <1>2, <1>3, <1>4, <1>5 DEF Next

\* Every step keeps the messages in order and accounted for.
LEMMA TInvStep ==
  ASSUME RInv, TInv, AInv, [Next]_vars
  PROVE  TInv'
BY OtherSteps, SubscribeWay, SayWay, TopicWay, MoveWay, CopyWay, ReplyWay, SameTopics

\* The initial states.
LEMMA TInvInit ==
  ASSUME Init
  PROVE  TInv /\ AInv
<1>1. \A r \in Rooms : batches[r] = << >> /\ log[r] = << >>
  BY DEF Init
<1>2. \A r \in Rooms, c \in Clients :
        wire[r][c] = << >> /\ heard[r][c] = << >> /\ since[r][c] = None
  BY DEF Init
<1>3. Below({}, {})
  BY DEF Below
<1>4. TInv
  BY <1>1, <1>2, <1>3, EmptyNumbers DEF TInv, Published, Way
<1>5. AInv
  BY DEF Init, AInv, Own, Saying
<1>6. QED
  BY <1>4, <1>5

\* The messages, always.
LEMMA AlwaysTInv == Spec => [](RInv /\ TInv /\ AInv)
<1>1. Init => TInv /\ AInv
  BY TInvInit
<1>2. RInv /\ TInv /\ AInv /\ [Next]_vars => TInv' /\ AInv'
  BY TInvStep, AInvStep
<1>3. QED
  BY <1>1, <1>2, AlwaysRInv, PTL DEF Spec

\* Once a client has subscribed to a room it misses none of the messages said
\* from then on but those the network loses, for any clients and rooms, however
\* they join, leave, time out and move.
THEOREM NoneMissed == Spec => []NothingMissed
<1>1. TInv => NothingMissed
  BY DEF TInv, Way, NothingMissed, Copies
<1>2. QED
  BY <1>1, AlwaysTInv, PTL

\* Two clients that both hear two messages of somebody else, a third or two, hear
\* them in the same order: these come to them by way of the topic alone, where
\* each subscriber has a queue of its own.  What one of them says itself it may
\* hear early, in the reply.
SameOrder ==
  \A r \in Rooms, c \in Clients, d \in Clients :
    \A i, j \in 1 .. Len(heard[r][c]) : \A k, l \in 1 .. Len(heard[r][d]) :
      /\ heard[r][c][i].n = heard[r][d][k].n /\ heard[r][c][j].n = heard[r][d][l].n
      /\ log[r][heard[r][c][i].n] \notin {c, d} /\ log[r][heard[r][c][j].n] \notin {c, d}
      /\ i < j
      => k < l

\* What somebody else has said has come by the topic.
LEMMA OthersByTopic ==
  ASSUME RInv, TInv, NEW r \in Rooms, NEW c \in Clients, NEW i \in 1 .. Len(heard[r][c]),
         log[r][heard[r][c][i].n] # c
  PROVE  heard[r][c][i].way = "topic" /\ heard[r][c][i].n \in Nat
<1>1. heard[r][c][i] \in Frame
  BY DEF RInv, TopicTypes
<1>2. heard[r][c][i].way \in {"topic", "reply"} /\ heard[r][c][i].n \in Nat
  BY <1>1 DEF Frame
<1>3. heard[r][c][i].way = "reply" => heard[r][c][i].n \in By("reply", heard[r][c])
  BY DEF By
<1>4. heard[r][c][i].way # "reply"
  BY <1>3 DEF TInv, Way
<1>5. QED
  BY <1>2, <1>4

\* Two sequences of frames that are in order have common messages of the topic in
\* the same order.
LEMMA CommonOrder ==
  ASSUME NEW s, NEW t, Ordered(s), Ordered(t),
         NEW i \in 1 .. Len(s), NEW j \in 1 .. Len(s),
         NEW k \in 1 .. Len(t), NEW l \in 1 .. Len(t), Len(t) \in Nat,
         s[i].n \in Nat, s[j].n \in Nat, s[i].n = t[k].n, s[j].n = t[l].n,
         s[i].way = s[j].way, t[k].way = t[l].way, i < j
  PROVE  k < l
<1>1. s[i].n < s[j].n
  BY DEF Ordered
<1>2. k \in Nat /\ l \in Nat
  OBVIOUS
<1>3. CASE l < k
  <2>1. t[l].n < t[k].n
    BY <1>3 DEF Ordered
  <2>2. QED
    BY <1>1, <2>1
<1>4. CASE l = k
  BY <1>1, <1>4
<1>5. QED
  BY <1>2, <1>3, <1>4

\* For any clients and rooms, and whatever the network loses.
THEOREM HeardInTheSameOrder == Spec => []SameOrder
<1>1. RInv /\ TInv => SameOrder
  <2> SUFFICES ASSUME RInv, TInv
               PROVE  SameOrder
    OBVIOUS
  <2> USE DEF SameOrder
  <2> TAKE r \in Rooms, c \in Clients, d \in Clients
  <2> TAKE i, j \in 1 .. Len(heard[r][c])
  <2> TAKE k, l \in 1 .. Len(heard[r][d])
  <2> HAVE /\ heard[r][c][i].n = heard[r][d][k].n /\ heard[r][c][j].n = heard[r][d][l].n
           /\ log[r][heard[r][c][i].n] \notin {c, d} /\ log[r][heard[r][c][j].n] \notin {c, d}
           /\ i < j
  <2>1. Len(heard[r][d]) \in Nat
    BY DEF RInv, TopicTypes
  <2>2. Ordered(heard[r][c]) /\ Ordered(heard[r][d])
    BY DEF TInv, Way
  <2>3. /\ heard[r][c][i].way = "topic" /\ heard[r][c][i].n \in Nat
        /\ heard[r][c][j].way = "topic" /\ heard[r][c][j].n \in Nat
    BY OthersByTopic
  <2>4. heard[r][d][k].way = "topic" /\ heard[r][d][l].way = "topic"
    <3>1. log[r][heard[r][d][k].n] # d /\ log[r][heard[r][d][l].n] # d
      OBVIOUS
    <3>2. QED
      BY <3>1, OthersByTopic
  <2> DEFINE s == heard[r][c]
             t == heard[r][d]
  <2>5. /\ i \in 1 .. Len(s) /\ j \in 1 .. Len(s) /\ k \in 1 .. Len(t) /\ l \in 1 .. Len(t)
        /\ s[i].n = t[k].n /\ s[j].n = t[l].n /\ Len(t) \in Nat /\ Ordered(s) /\ Ordered(t)
        /\ s[i].n \in Nat /\ s[j].n \in Nat /\ s[i].way = s[j].way /\ t[k].way = t[l].way
    BY <2>1, <2>2, <2>3, <2>4
  <2> HIDE DEF s, t
  <2>6. QED
    BY ONLY <2>5, CommonOrder, i < j
<1>2. QED
  BY <1>1, AlwaysTInv, PTL

\* Each step is one of the feed or does not concern it.
LEMMA FeedStep ==
  ASSUME RInv, TInv, AInv, [Next]_vars
  PROVE  [F!Next]_F!vars
<1>1. ASSUME NEW r \in Rooms, HandleSend(r)
      PROVE  F!Next
  <2>1. Head(mailbox[r]).from \in Clients
    BY <1>1, SendStep
  <2>2. F!Say(r, Head(mailbox[r]).from)
    BY <1>1 DEF HandleSend, F!Say
  <2>3. QED
    BY <2>1, <2>2 DEF F!Next
<1>2. ASSUME NEW r \in Rooms, NEW c \in Clients, Arrive(r, c)
      PROVE  F!Next
  <2>1. F!Hear(r, c, "topic", Head(wire[r][c])) /\ Head(wire[r][c]) \in 1 .. Len(log[r])
    BY <1>2, CopyWay DEF Copy
  <2>2. QED
    BY <2>1 DEF F!Next, F!Ways
<1>reply. ASSUME NEW c \in Clients, SendReturn(c)
          PROVE  F!Next
  <2>1. PICK r \in Rooms : \E n \in 1 .. Len(log[r]) : F!Hear(r, c, "reply", n)
    BY <1>reply, ReplyWay
  <2>2. QED
    BY <2>1 DEF F!Next, F!Ways
<1>3. ASSUME NEW r \in Rooms, NEW c \in Clients, LoseCopy(r, c)
      PROVE  UNCHANGED F!vars
  BY <1>3 DEF LoseCopy, TopicStep, roomVars, F!vars
<1>4. ASSUME NEW r \in Rooms, Topic(r) \/ MoveTopic(r)
      PROVE  UNCHANGED F!vars
  BY <1>4 DEF Topic, Deliver, LoseBatch, MoveTopic, TopicStep, roomVars, F!vars
<1>5. ASSUME NEW c \in Clients, Subscribe(c)
      PROVE  UNCHANGED F!vars
  BY <1>5 DEF Subscribe, roomVars, F!vars
<1>6. ASSUME UNCHANGED <<log, topicVars>>
      PROVE  UNCHANGED F!vars
  BY <1>6 DEF topicVars, F!vars
<1>7. QED
  BY OtherSteps, <1>1, <1>2, <1>reply, <1>3, <1>4, <1>5, <1>6 DEF Copy

\* Delivery implements Feed: what a client hears of a room by its topic is said
\* there, comes in order, and each message at most once; what it hears in replies
\* it has said itself, and comes in order and at most once, too, for any clients
\* and rooms.
THEOREM ImplementsFeed == Spec => FeedSpec
<1>1. Init => F!Init
  BY DEF Init, F!Init
<1>2. RInv /\ TInv /\ AInv /\ [Next]_vars => [F!Next]_F!vars
  BY FeedStep
<1>3. QED
  BY <1>1, <1>2, AlwaysTInv, PTL DEF Spec, FeedSpec, F!Spec

-----------------------------------------------------------------------------
(* What a client believes of its room.                                     *)

\* All requests of a client whose requests are never late are waited for;
InTime(c) == \A r \in Rooms : \A i \in 1 .. Len(mailbox[r]) :
               mailbox[r][i].from = c => mailbox[r][i].live

\* its current room counts it in, unless it has just let it go;
Counted(c) ==
  currentRoom[c] # None /\ currentRoom[c] \notin moved =>
    \/ c \in members[currentRoom[c]]
    \/ reply[c] # None /\ call[c].op = "Leave"

\* what it asks of its current room it asks of no other;
OfCurrent(c) ==
  pc[c] = "waiting" /\ call[c].op \in {"Leave", "Send", "Users"} => call[c].room = currentRoom[c]

\* and answers say what the room knows.
Answered(c) ==
  /\ call[c] # None /\ call[c].op = "Join" /\ reply[c] = Good =>
       c \in members[call[c].room] \/ call[c].room \in moved
  /\ reply[c] = Empty => call[c].room \in moved

Believes(c) == ~late[c] => InTime(c) /\ Counted(c) /\ OfCurrent(c) /\ Answered(c)

BInv == UnknownHasCause /\ \A c \in Clients : Believes(c)

\* What other clients and rooms do does not concern a client.
LEMMA SameBelief ==
  ASSUME NEW d \in Clients, Believes(d),
         pc'[d] = pc[d], call'[d] = call[d], reply'[d] = reply[d],
         currentRoom'[d] = currentRoom[d], late[d] => late'[d], moved \subseteq moved',
         currentRoom[d] \in Rooms \cup {None}, call[d] \in Call \cup {None},
         reply[d] # None => call[d] # None,
         \A r \in Rooms : d \in members[r] => d \in members'[r] \/ r \in moved',
         ~late[d] /\ InTime(d) => InTime(d)'
  PROVE  Believes(d)'
<1> SUFFICES ASSUME ~late'[d]
             PROVE  InTime(d)' /\ Counted(d)' /\ OfCurrent(d)' /\ Answered(d)'
  BY DEF Believes
<1>1. InTime(d) /\ Counted(d) /\ OfCurrent(d) /\ Answered(d)
  BY DEF Believes
<1>2. InTime(d)'
  BY <1>1 DEF Believes
<1>3. Counted(d)'
  BY <1>1 DEF Counted
<1>4. OfCurrent(d)'
  BY <1>1 DEF OfCurrent
<1>5. call[d] # None => call[d].room \in Rooms
  BY DEF Call
<1>6. Answered(d)'
  BY <1>1, <1>5 DEF Answered
<1>7. QED
  BY <1>2, <1>3, <1>4, <1>6

\* A client sends a request.
LEMMA PostBelief ==
  ASSUME RInv, BInv, NEW c \in Clients, NEW op \in Ops, NEW r \in Rooms, Post(c, op, r),
         op \in {"Leave", "Send", "Users"} => currentRoom[c] = r
  PROVE  BInv'
<1>1. \A q \in Rooms : \A i \in 1 .. Len(mailbox'[q]) :
        \/ i \in 1 .. Len(mailbox[q]) /\ mailbox'[q][i] = mailbox[q][i]
        \/ /\ q = r /\ i = Len(mailbox[r]) + 1
           /\ mailbox'[q][i] = [op |-> op, from |-> c, live |-> TRUE]
  BY PostFacts DEF RInv
<1>2. /\ pc[c] = "idle"
      /\ call' = [call EXCEPT ![c] = [op |-> op, room |-> r]]
      /\ pc' = [pc EXCEPT ![c] = "waiting"]
      /\ UNCHANGED <<currentRoom, reply, members, late, unknown, moved>>
  BY DEF Post, clientVars, roomVars, moveVars
<1>3. ASSUME NEW d \in Clients, InTime(d)
      PROVE  InTime(d)'
  BY <1>1, <1>3 DEF InTime
<1>4. ASSUME NEW d \in Clients, d # c
      PROVE  Believes(d)'
  <2>1. pc'[d] = pc[d] /\ call'[d] = call[d]
    BY <1>2, <1>4
  <2>2. Believes(d)
    BY DEF BInv
  <2>3. QED
    BY <1>2, <1>3, <2>1, <2>2, SameBelief, ClientFacts
<1>5. Believes(c)'
  <2>1. /\ call'[c].op = op /\ call'[c].room = r /\ pc'[c] = "waiting" /\ reply'[c] = None
    BY <1>2, ClientFacts DEF RInv, ClientTypes
  <2>2. SUFFICES ASSUME ~late'[c]
                 PROVE  InTime(c)' /\ Counted(c)' /\ OfCurrent(c)' /\ Answered(c)'
    BY DEF Believes
  <2>3. InTime(c) /\ Counted(c)
    BY <1>2, <2>2 DEF BInv, Believes
  <2>4. InTime(c)'
    BY <1>3, <2>3
  <2>5. Counted(c)'
    BY <1>2, <2>1, <2>3 DEF Counted
  <2>6. OfCurrent(c)'
    BY <1>2, <2>1 DEF OfCurrent
  <2>7. Answered(c)'
    BY <2>1, Replies DEF Answered
  <2>8. QED
    BY <2>4, <2>5, <2>6, <2>7
<1>6. UnknownHasCause'
  BY <1>2 DEF BInv, UnknownHasCause
<1>7. QED
  BY <1>4, <1>5, <1>6 DEF BInv

\* An answer fits what the room does: only a leave takes its sender out, only a
\* join that adds it is answered Good, and only one it does not count in Empty.
Fits(r, m, outcome) ==
  /\ \A d \in Clients, q \in Rooms : d \in members[q] =>
       d \in members'[q] \/ (q = r /\ d = m.from /\ m.op = "Leave")
  /\ m.op = "Join" /\ outcome = Good => m.from \in members'[r]
  /\ outcome = Empty => m.from \notin members[r] /\ m.op \in {"Send", "Users"}

\* A room answers.
LEMMA AnswerBelief ==
  ASSUME RInv, BInv, NEW r \in Rooms, mailbox[r] # << >>,
         NEW outcome \in Reply, Answer(r, outcome),
         Fits(r, Head(mailbox[r]), outcome)
  PROVE  BInv'
<1> DEFINE m == Head(mailbox[r])
<1>1. /\ Len(mailbox[r]) \in Nat \ {0}
      /\ m = mailbox[r][1] /\ m \in Request
      /\ \A i \in 1 .. Len(mailbox'[r]) :
           i + 1 \in 1 .. Len(mailbox[r]) /\ mailbox'[r][i] = mailbox[r][i + 1]
      /\ \A q \in Rooms \ {r} : mailbox'[q] = mailbox[q]
  BY AnswerFacts DEF RInv
<1>sender. PICK c \in Clients : c = m.from
  BY <1>1 DEF Request
<1>2. /\ reply' = IF m.live THEN [reply EXCEPT ![c] = outcome] ELSE reply
      /\ UNCHANGED <<currentRoom, pc, call, late, unknown, moved>>
  BY <1>sender DEF Answer, clientVars, moveVars
<1>3. /\ \A d \in Clients, q \in Rooms : d \in members[q] =>
           d \in members'[q] \/ (q = r /\ d = c /\ m.op = "Leave")
      /\ m.op = "Join" /\ outcome = Good => c \in members'[r]
      /\ outcome = Empty => c \notin members[r] /\ m.op \in {"Send", "Users"}
  BY <1>sender DEF Fits
<1>4. /\ m.live \in BOOLEAN /\ mailbox[r][1].live = m.live
      /\ mailbox[r][1].from = c /\ mailbox[r][1].op = m.op
  BY <1>sender, <1>1 DEF Request
<1> HIDE DEF m
<1>5. ASSUME NEW d \in Clients, InTime(d)
      PROVE  InTime(d)'
  BY <1>1, <1>5 DEF InTime
<1>6. ASSUME NEW d \in Clients, d # c
      PROVE  Believes(d)'
  <2>1. reply'[d] = reply[d]
    BY <1>2, <1>4, <1>6 DEF RInv, ClientTypes
  <2>2. Believes(d)
    BY DEF BInv
  <2>3. \A q \in Rooms : d \in members[q] => d \in members'[q]
    BY <1>3, <1>6
  <2>4. QED
    BY <1>2, <1>5, <2>1, <2>2, <2>3, SameBelief, ClientFacts
<1>7. Believes(c)'
  <2> SUFFICES ASSUME ~late'[c]
               PROVE  InTime(c)' /\ Counted(c)' /\ OfCurrent(c)' /\ Answered(c)'
    BY DEF Believes
  <2>1. InTime(c) /\ Counted(c) /\ OfCurrent(c)
    BY <1>2, <1>4 DEF BInv, Believes
  <2>2. 1 \in 1 .. Len(mailbox[r])
    BY <1>1
  <2>3. mailbox[r][1].live
    BY <1>4, <2>1, <2>2 DEF InTime
  <2>4. /\ pc[c] = "waiting" /\ reply[c] = None
        /\ call[c] = [op |-> m.op, room |-> r]
    <3>1. Outstanding
      BY DEF RInv
    <3>2. /\ pc[mailbox[r][1].from] = "waiting" /\ reply[mailbox[r][1].from] = None
          /\ call[mailbox[r][1].from] = [op |-> mailbox[r][1].op, room |-> r]
      BY ONLY <1>1, <2>3, <3>1, FirstAwaited, r \in Rooms
    <3>3. QED
      BY <1>4, <3>2
  <2>5. call[c].op = m.op /\ call[c].room = r /\ reply'[c] = outcome
    BY <1>2, <1>4, <2>3, <2>4 DEF RInv, ClientTypes
  <2>6. InTime(c)'
    BY <1>4, <1>5, <2>1
  <2>7. Counted(c)'
    <3>1. outcome # None
      BY DeliveryAssumption
    <3>2. currentRoom[c] \in Rooms \cup {None}
      BY <1>4, ClientFacts
    <3>3. QED
      BY <1>2, <1>3, <1>4, <2>1, <2>4, <2>5, <3>1, <3>2 DEF Counted
  <2>8. OfCurrent(c)'
    BY <1>2, <2>1 DEF OfCurrent
  <2>9. Answered(c)'
    <3>1. outcome = Empty => r \in moved
      <4> SUFFICES ASSUME outcome = Empty
                   PROVE  r \in moved
        OBVIOUS
      <4>1. currentRoom[c] = r /\ c \notin members[r]
        BY <1>3, <2>1, <2>4, <2>5 DEF OfCurrent
      <4>2. r # None
        BY DeliveryAssumption
      <4>3. QED
        BY <2>1, <2>4, <4>1, <4>2 DEF Counted
    <3>2. QED
      BY <1>2, <1>3, <2>5, <3>1 DEF Answered
  <2>10. QED
    BY <2>6, <2>7, <2>8, <2>9
<1>8. UnknownHasCause'
  BY <1>2 DEF BInv, UnknownHasCause
<1>9. QED
  BY <1>6, <1>7, <1>8 DEF BInv

\* A room handles a request, and its answer fits.
LEMMA HandleBelief ==
  ASSUME RInv, BInv, NEW r \in Rooms,
         \/ HandleCreate(r) \/ HandleJoin(r) \/ HandleLeave(r) \/ HandleUsers(r)
         \/ HandleSendOutside(r) \/ PublishEnds(r)
  PROVE  BInv'
<1> DEFINE m == Head(mailbox[r])
<1>1. mailbox[r] # << >>
  BY DEF HandleCreate, HandleJoin, HandleLeave, HandleUsers, HandleSendOutside, PublishEnds,
         At, RInv, RoomTypes
<1>2. m.from \in Clients
  <2>1. m \in Request
    BY <1>1, HeadTailProperties DEF RInv, RoomTypes
  <2>2. QED
    BY <2>1 DEF Request
<1> USE Replies
<1>3. CASE HandleCreate(r)
  <2>1. m.op = "Create" /\ members' = members /\ Answer(r, Good)
    BY <1>3 DEF HandleCreate, At, roomVars
  <2>2. Fits(r, m, Good)
    BY <2>1 DEF Fits
  <2>3. QED
    BY <1>1, <2>1, <2>2, AnswerBelief
<1>message. CASE PublishEnds(r)
  <2>1. m.op = "Send" /\ members' = members /\ Answer(r, Sent(busy[r]))
    BY <1>message DEF PublishEnds, RInv, RoomTypes
  <2>2. Sent(busy[r]) \in Reply /\ Sent(busy[r]) # Empty
    BY Messages DEF RInv, RoomTypes
  <2>3. Fits(r, m, Sent(busy[r]))
    BY <2>1, <2>2 DEF Fits
  <2>4. QED
    BY <1>1, <2>1, <2>2, <2>3, AnswerBelief
<1>4. CASE HandleJoin(r)
  <2>1. m.op = "Join"
    BY <1>4 DEF HandleJoin, At
  <2>2. CASE Answer(r, Good) /\ members' = [members EXCEPT ![r] = @ \cup {m.from}]
    <3>1. Fits(r, m, Good)
      BY <1>2, <2>1, <2>2, Replies DEF Fits, RInv, RoomTypes
    <3>2. QED
      BY <1>1, <2>2, <3>1, AnswerBelief
  <2>3. CASE Answer(r, Refusal) /\ members' = members
    <3>1. Fits(r, m, Refusal)
      <4>1. Refusal # Good /\ Refusal # Empty
        BY DEF Refusal, Good, Empty, Sent
      <4>2. QED
        BY <2>1, <2>3, <4>1 DEF Fits
    <3>2. QED
      BY <1>1, <2>3, <3>1, AnswerBelief
  <2>4. QED
    BY <1>4, <2>2, <2>3 DEF HandleJoin
<1>5. CASE HandleLeave(r)
  <2>1. /\ m.op = "Leave" /\ Answer(r, Good)
        /\ members' = [members EXCEPT ![r] = @ \ {m.from}]
    BY <1>5 DEF HandleLeave, At
  <2>2. Fits(r, m, Good)
    BY <2>1, Replies DEF Fits, RInv, RoomTypes
  <2>3. QED
    BY <1>1, <2>1, <2>2, AnswerBelief
<1>6. CASE HandleUsers(r) \/ HandleSendOutside(r)
  <2>1. PICK outcome \in {Good, Empty} :
          Answer(r, outcome) /\ (outcome = Empty => m.from \notin members[r])
    BY <1>6, Replies DEF HandleUsers, HandleSendOutside
  <2>2. m.op \in {"Users", "Send"} /\ members' = members
    BY <1>6 DEF HandleUsers, HandleSendOutside, At, roomVars
  <2>3. Fits(r, m, outcome)
    BY <2>1, <2>2 DEF Fits
  <2>4. QED
    BY <1>1, <2>1, <2>3, AnswerBelief
<1>7. QED
  BY <1>3, <1>message, <1>4, <1>5, <1>6

\* A client takes an answer.
LEMMA ReturnBelief ==
  ASSUME RInv, BInv, NEW c \in Clients,
         \/ CreateReturn(c) \/ JoinReturn(c) \/ JoinRefused(c) \/ LeaveReturn(c)
         \/ SendReturn(c) \/ Told(c)
  PROVE  BInv'
<1>1. /\ pc[c] = "waiting" /\ reply[c] # None
      /\ pc'[c] # "waiting" /\ reply' = [reply EXCEPT ![c] = None]
      /\ \A d \in Clients : d # c => pc'[d] = pc[d]
      /\ UNCHANGED <<mailbox, members, late, moved>>
  <2>1. PICK op \in Ops, outcome \in Reply, next \in {"idle", "subscribing"} :
          Return(c, op, outcome, next)
    <3>1. CASE SendReturn(c)
      <4>1. Return(c, "Send", reply[c], "idle") /\ reply[c] # None
        BY <3>1 DEF SendReturn
      <4>2. reply[c] \in Reply
        BY <4>1 DEF RInv, ClientTypes
      <4>3. QED
        BY <4>1, <4>2 DEF Ops
    <3>2. CASE ~SendReturn(c)
      BY <3>2, Replies DEF CreateReturn, JoinReturn, JoinRefused, LeaveReturn, Told, Ops
    <3>3. QED
      BY <3>1, <3>2
  <2>2. outcome # None
    BY DeliveryAssumption
  <2>3. QED
    BY <2>1, <2>2 DEF Return, roomVars, moveVars, RInv, ClientTypes
<1>2. \A d \in Clients : d # c => call'[d] = call[d] /\ currentRoom'[d] = currentRoom[d]
  BY DEF CreateReturn, JoinReturn, JoinRefused, LeaveReturn, SendReturn, Told, RInv, ClientTypes
<1>3. \A d \in Clients : d # c => reply'[d] = reply[d]
  BY <1>1 DEF RInv, ClientTypes
<1>4. reply'[c] = None
  BY <1>1 DEF RInv, ClientTypes
<1>5. ASSUME NEW d \in Clients, InTime(d)
      PROVE  InTime(d)'
  BY <1>1, <1>5 DEF InTime
<1>6. ASSUME NEW d \in Clients, d # c
      PROVE  Believes(d)'
  <2>1. Believes(d)
    BY DEF BInv
  <2>2. pc'[d] = pc[d] /\ call'[d] = call[d] /\ reply'[d] = reply[d] /\ currentRoom'[d] = currentRoom[d]
    BY <1>1, <1>2, <1>3, <1>6
  <2>3. QED
    BY <1>1, <1>5, <2>1, <2>2, SameBelief, ClientFacts
<1>7. ~late[c] => /\ currentRoom[c] # None /\ currentRoom[c] \notin moved =>
                       c \in members[currentRoom[c]] \/ call[c].op = "Leave"
                  /\ call[c].op = "Join" /\ reply[c] = Good =>
                       c \in members[call[c].room] \/ call[c].room \in moved
                  /\ reply[c] = Empty => call[c].room \in moved
                  /\ InTime(c)
  BY <1>1, ClientFacts DEF BInv, Believes, Counted, Answered
<1>8. Believes(c)'
  <2> SUFFICES ASSUME ~late[c]
               PROVE  InTime(c)' /\ Counted(c)' /\ OfCurrent(c)' /\ Answered(c)'
    BY <1>1 DEF Believes
  <2>1. InTime(c)' /\ OfCurrent(c)' /\ Answered(c)'
    BY <1>1, <1>4, <1>5, <1>7, Replies DEF OfCurrent, Answered
  <2>2. CASE CreateReturn(c) \/ JoinRefused(c) \/ SendReturn(c) \/ Told(c)
    <3>1. currentRoom' = currentRoom /\ call[c].op # "Leave"
      BY <2>2 DEF CreateReturn, JoinRefused, SendReturn, Told, Return
    <3>2. QED
      BY <1>1, <1>7, <2>1, <3>1 DEF Counted
  <2>3. CASE LeaveReturn(c)
    <3>1. currentRoom'[c] = None
      BY <2>3 DEF LeaveReturn, RInv, ClientTypes
    <3>2. QED
      BY <2>1, <3>1 DEF Counted
  <2>4. CASE JoinReturn(c)
    <3>1. currentRoom'[c] = call[c].room /\ call[c].op = "Join" /\ reply[c] = Good
      BY <2>4 DEF JoinReturn, Return, RInv, ClientTypes
    <3>2. QED
      BY <1>1, <1>7, <2>1, <3>1 DEF Counted
  <2>5. QED
    BY <2>2, <2>3, <2>4
<1>9. UnknownHasCause'
  <2>1. CASE unknown' = unknown
    BY <1>1, <2>1 DEF BInv, UnknownHasCause
  <2>2. CASE reply[c] = Empty /\ unknown' = unknown \cup {<<c, call[c].room>>}
    <3>1. late[c] \/ call[c].room \in moved
      BY <1>7, <2>2 DEF RInv, ClientTypes
    <3>2. QED
      BY <1>1, <2>2, <3>1 DEF BInv, UnknownHasCause
  <2>3. QED
    BY <2>1, <2>2 DEF CreateReturn, JoinReturn, JoinRefused, LeaveReturn, SendReturn, Told, Return
<1>10. QED
  BY <1>6, <1>8, <1>9 DEF BInv

\* Five seconds pass: from now on the client may be mistaken.
LEMMA LateBelief ==
  ASSUME RInv, BInv, NEW c \in Clients, TimeOut(c)
  PROVE  BInv'
<1>1. /\ pc' = [pc EXCEPT ![c] = "idle"]
      /\ call' = [call EXCEPT ![c] = None]
      /\ reply' = [reply EXCEPT ![c] = None]
      /\ late' = [late EXCEPT ![c] = TRUE]
      /\ UNCHANGED <<currentRoom, members, unknown, moved>>
  BY DEF TimeOut, clientVars, roomVars, moveVars
<1>2. \A q \in Rooms :
        /\ Len(mailbox'[q]) = Len(mailbox[q])
        /\ \A i \in 1 .. Len(mailbox[q]) :
             /\ mailbox'[q][i].from = mailbox[q][i].from
             /\ mailbox'[q][i].live = (mailbox[q][i].live /\ mailbox[q][i].from # c)
  BY GiveUpFacts DEF RInv, TimeOut
<1>3. late'[c] /\ \A d \in Clients : late[d] => late'[d]
  BY <1>1 DEF RInv, ClientTypes
<1>4. ASSUME NEW d \in Clients, d # c
      PROVE  Believes(d)'
  <2>1. pc'[d] = pc[d] /\ call'[d] = call[d] /\ reply'[d] = reply[d]
    BY <1>1, <1>4 DEF RInv, ClientTypes
  <2>2. InTime(d) => InTime(d)'
    <3> SUFFICES ASSUME InTime(d), NEW q \in Rooms, NEW i \in 1 .. Len(mailbox'[q]),
                        mailbox'[q][i].from = d
                 PROVE  mailbox'[q][i].live
      BY DEF InTime
    <3>1. i \in 1 .. Len(mailbox[q]) /\ mailbox[q][i].from = d
      BY <1>2
    <3>2. mailbox[q][i].live
      BY <3>1 DEF InTime
    <3>3. QED
      BY <1>2, <1>4, <3>1, <3>2
  <2>3. Believes(d)
    BY DEF BInv
  <2>4. QED
    BY <1>1, <1>3, <2>1, <2>2, <2>3, SameBelief, ClientFacts
<1>5. Believes(c)'
  BY <1>3 DEF Believes
<1>6. UnknownHasCause'
  <2>1. \A p \in unknown : p[1] \in Clients
    BY DEF RInv, ClientTypes
  <2>2. QED
    BY <1>1, <1>3, <2>1 DEF BInv, UnknownHasCause
<1>7. QED
  BY <1>4, <1>5, <1>6 DEF BInv

\* A client logs in, or has subscribed.
LEMMA ClientBelief ==
  ASSUME RInv, BInv, NEW c \in Clients, Login(c) \/ Subscribe(c)
  PROVE  BInv'
<1>1. /\ pc[c] \in {"new", "subscribing"} /\ pc' = [pc EXCEPT ![c] = "idle"]
      /\ call' = call \/ call' = [call EXCEPT ![c] = None]
      /\ UNCHANGED <<currentRoom, reply, mailbox, members, late, unknown, moved>>
  BY DEF Login, Subscribe, clientVars, roomVars, moveVars
<1>2. reply[c] = None /\ pc'[c] = "idle"
  BY <1>1, ClientFacts DEF RInv, ClientTypes
<1>3. ASSUME NEW d \in Clients, InTime(d)
      PROVE  InTime(d)'
  BY <1>1, <1>3 DEF InTime
<1>4. ASSUME NEW d \in Clients, d # c
      PROVE  Believes(d)'
  <2>1. pc'[d] = pc[d] /\ call'[d] = call[d]
    BY <1>1, <1>4 DEF RInv, ClientTypes
  <2>2. Believes(d)
    BY DEF BInv
  <2>3. QED
    BY <1>1, <1>3, <2>1, <2>2, SameBelief, ClientFacts
<1>5. Believes(c)'
  <2> SUFFICES ASSUME ~late[c]
               PROVE  InTime(c)' /\ Counted(c)' /\ OfCurrent(c)' /\ Answered(c)'
    BY <1>1 DEF Believes
  <2>1. InTime(c) /\ Counted(c)
    BY DEF BInv, Believes
  <2>2. InTime(c)'
    BY <1>3, <2>1
  <2>3. Counted(c)'
    BY <1>1, <1>2, <2>1 DEF Counted
  <2>4. OfCurrent(c)' /\ Answered(c)'
    BY <1>1, <1>2, Replies DEF OfCurrent, Answered
  <2>5. QED
    BY <2>2, <2>3, <2>4
<1>6. UnknownHasCause'
  BY <1>1 DEF BInv, UnknownHasCause
<1>7. QED
  BY <1>4, <1>5, <1>6 DEF BInv

\* A room starts again elsewhere, and its clients may be mistaken.
LEMMA MoveBelief ==
  ASSUME RInv, BInv, NEW r \in Rooms, MoveRoom(r)
  PROVE  BInv'
<1>1. /\ moved' = moved \cup {r}
      /\ members' = [members EXCEPT ![r] = {}]
      /\ UNCHANGED <<currentRoom, pc, call, reply, late, unknown>>
  BY DEF MoveRoom, clientVars
<1>2. \A q \in Rooms : mailbox'[q] = IF q = r THEN << >> ELSE mailbox[q]
  BY DEF MoveRoom, RInv, RoomTypes
<1>3. ASSUME NEW d \in Clients
      PROVE  Believes(d)'
  <2>1. InTime(d) => InTime(d)'
    BY <1>2 DEF InTime
  <2>2. \A q \in Rooms : d \in members[q] => d \in members'[q] \/ q \in moved'
    BY <1>1 DEF RInv, RoomTypes
  <2>3. Believes(d)
    BY DEF BInv
  <2>4. QED
    BY <1>1, <2>1, <2>2, <2>3, SameBelief, ClientFacts
<1>4. UnknownHasCause'
  BY <1>1 DEF BInv, UnknownHasCause
<1>5. QED
  BY <1>3, <1>4 DEF BInv

\* The variables beliefs are about.
beliefVars == <<currentRoom, pc, call, reply, mailbox, members, late, unknown, moved>>

\* A step that leaves them alone.
LEMMA SameBeliefs ==
  ASSUME BInv, UNCHANGED beliefVars
  PROVE  BInv'
<1>1. ASSUME NEW d \in Clients
      PROVE  Believes(d)'
  BY DEF BInv, Believes, InTime, Counted, OfCurrent, Answered, beliefVars
<1>2. UnknownHasCause'
  BY DEF BInv, UnknownHasCause, beliefVars
<1>3. QED
  BY <1>1, <1>2 DEF BInv

\* Every step keeps the beliefs right.
LEMMA BInvStep ==
  ASSUME RInv, BInv, [Next]_vars
  PROVE  BInv'
<1>1. ASSUME NEW c \in Clients, Client(c)
      PROVE  BInv'
  <2>1. CASE AskCurrent(c) \/ \E r \in Rooms : Ask(c, r)
    BY <2>1, AskStep, PostBelief
  <2>2. CASE Login(c) \/ Subscribe(c)
    BY <2>2, ClientBelief
  <2>3. CASE \/ CreateReturn(c) \/ JoinReturn(c) \/ JoinRefused(c) \/ LeaveReturn(c)
             \/ SendReturn(c) \/ Told(c)
    BY <2>3, ReturnBelief
  <2>4. CASE TimeOut(c)
    BY <2>4, LateBelief
  <2>5. QED
    BY <1>1, <2>1, <2>2, <2>3, <2>4 DEF Client
<1>2. ASSUME NEW r \in Rooms, Room(r)
      PROVE  BInv'
  <2>1. CASE HandleSend(r)
    BY <2>1, SameBeliefs DEF HandleSend, beliefVars, clientVars, moveVars
  <2>2. QED
    BY <1>2, <2>1, HandleBelief DEF Room
<1>3. ASSUME NEW r \in Rooms,
             Topic(r) \/ MoveTopic(r) \/ \E c \in Clients : Copy(r, c)
      PROVE  BInv'
  <2>1. UNCHANGED beliefVars
    BY <1>3 DEF Topic, Deliver, LoseBatch, MoveTopic, Copy, Arrive, LoseCopy, TopicStep,
                beliefVars, clientVars, roomVars, moveVars
  <2>2. QED
    BY <2>1, SameBeliefs
<1>4. ASSUME NEW r \in Rooms, MoveRoom(r)
      PROVE  BInv'
  BY <1>4, MoveBelief
<1>5. CASE UNCHANGED vars
  BY <1>5, SameBeliefs DEF vars, clientVars, roomVars, moveVars, beliefVars
<1>6. QED
  BY <1>1, <1>2, <1>3, <1>4, <1>5 DEF Next

\* The initial states.
LEMMA BInvInit ==
  ASSUME Init
  PROVE  BInv
<1>1. unknown = {} /\ \A r \in Rooms : mailbox[r] = << >>
  BY DEF Init
<1>2. \A c \in Clients : currentRoom[c] = None /\ pc[c] = "new" /\ call[c] = None /\ reply[c] = None
  BY DEF Init
<1>3. QED
  BY <1>1, <1>2, Replies DEF BInv, UnknownHasCause, Believes, InTime, Counted, OfCurrent, Answered

\* A room gives an answer that does not count the client in only if a request of
\* the client has timed out or the room has started again on another node, for
\* any clients and rooms and any order of their requests.
THEOREM UnknownExplained == Spec => []UnknownHasCause
<1>1. Init => BInv
  BY BInvInit
<1>2. RInv /\ BInv /\ [Next]_vars => BInv'
  BY BInvStep
<1>3. BInv => UnknownHasCause
  BY DEF BInv
<1>4. QED
  BY <1>1, <1>2, <1>3, AlwaysRInv, PTL DEF Spec
=============================================================================
