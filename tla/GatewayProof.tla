---------------------------- MODULE GatewayProof ----------------------------
(***************************************************************************)
(* For all sets of connections, users and rooms, and whatever requests to  *)
(* the grains are lost, late or refused: an entry of wm.clients never      *)
(* outlives its connection, and as long as no request of a connection has  *)
(* timed out and its user is connected once, the gateway and the grains    *)
(* that have not been activated again agree on the room the user is in and *)
(* on whether the user is online.                                          *)
(*                                                                         *)
(* IInv adds to the first property what makes it survive each step: a      *)
(* connection has no user before handleLogin gives it one (Anonymous), so  *)
(* that no registration is ever moved from one user to another; a call     *)
(* names a grain of the right kind (CallsMatch); and a request somebody    *)
(* waits for is the only one of a handler that has had no reply            *)
(* (Outstanding), so that replies reach only those who wait.               *)
(*                                                                         *)
(* EInv is what the agreement rests on.  It says for each connection that  *)
(* is not disturbed where in the round trip of an RPC the two sides may    *)
(* differ (InRoom, IsOnline), that no other request of the same user is    *)
(* still to be handled where that would matter (Own, Last), and that the   *)
(* connection is the only one of its user (Alone).                         *)
(***************************************************************************)
EXTENDS Gateway, SequenceTheorems, TLAPS

-----------------------------------------------------------------------------
(* The inductive invariant.                                                *)

Anonymous ==
  /\ \A c \in Conns : pc[c] \in {"new", "connected", "checked"} => userID[c] = None
  /\ \A c \in Conns : pc[c] = "registered" => userID[c] # None

CallsMatch ==
  \A c \in Conns : call[c] # None =>
    /\ pc[c] = "checked" => call[c].op = "Login"
    /\ call[c].op \in {"Login", "Logout"} => call[c].grain \in Users
    /\ call[c].op \in {"Join", "Leave"} => call[c].grain \in Rooms

Outstanding ==
  \A g \in Grains : \A i \in 1 .. Len(mailbox[g]) :
    LET c == mailbox[g][i].from IN
    c # None =>
      /\ pc[c] = "waiting" /\ reply[c] = None
      /\ \A h \in Grains : \A j \in 1 .. Len(mailbox[h]) :
           mailbox[h][j].from = c => h = g /\ j = i

IInv == TypeOK /\ Anonymous /\ CallsMatch /\ Outstanding /\ EntryIsLive

-----------------------------------------------------------------------------
(* Mailboxes.                                                              *)

\* Posting adds at most one request, of the caller, at the end of one mailbox.
LEMMA PostFacts ==
  ASSUME TypeOK, NEW c \in Conns, NEW op \in Ops, NEW g \in Grains, NEW u \in Users,
         Post(c, op, g, u)
  PROVE  /\ mailbox' \in [Grains -> Seq(Request)]
         /\ \A h \in Grains : \A i \in 1 .. Len(mailbox'[h]) :
              \/ i \in 1 .. Len(mailbox[h]) /\ mailbox'[h][i] = mailbox[h][i]
              \/ /\ h = g /\ i = Len(mailbox[g]) + 1
                 /\ mailbox'[h][i] = [op |-> op, user |-> u, from |-> c]
<1> DEFINE m == [op |-> op, user |-> u, from |-> c]
<1>1. m \in Request
  BY DEF Request
<1>2. mailbox[g] \in Seq(Request)
  BY DEF TypeOK
<1>3. Len(mailbox[g]) \in Nat
  BY <1>2
<1>4. CASE mailbox' = mailbox
  BY <1>4 DEF TypeOK
<1>5. CASE mailbox' = [mailbox EXCEPT ![g] = Append(@, m)]
  <2>1. /\ Append(mailbox[g], m) \in Seq(Request)
        /\ Len(Append(mailbox[g], m)) = Len(mailbox[g]) + 1
        /\ \A i \in 1 .. Len(mailbox[g]) : Append(mailbox[g], m)[i] = mailbox[g][i]
        /\ Append(mailbox[g], m)[Len(mailbox[g]) + 1] = m
    BY <1>1, <1>2, AppendProperties
  <2>2. QED
    BY <1>1, <1>3, <1>5, <2>1 DEF TypeOK
<1>6. QED
  BY <1>4, <1>5 DEF Post

\* Taking removes the first request of one mailbox.
LEMMA TakeFacts ==
  ASSUME TypeOK, NEW g \in Grains, NEW op, NEW outcome, Take(g, op, outcome)
  PROVE  /\ mailbox' \in [Grains -> Seq(Request)]
         /\ Len(mailbox[g]) \in Nat \ {0}
         /\ Head(mailbox[g]) = mailbox[g][1] /\ Head(mailbox[g]) \in Request
         /\ \A i \in 1 .. Len(mailbox'[g]) :
              i + 1 \in 1 .. Len(mailbox[g]) /\ mailbox'[g][i] = mailbox[g][i + 1]
         /\ \A h \in Grains \ {g} : mailbox'[h] = mailbox[h]
<1>1. mailbox[g] \in Seq(Request) /\ mailbox[g] # << >>
  BY DEF TypeOK, Take
<1>2. /\ Head(mailbox[g]) \in Request
      /\ Tail(mailbox[g]) \in Seq(Request)
      /\ Len(Tail(mailbox[g])) = Len(mailbox[g]) - 1
      /\ \A i \in 1 .. Len(Tail(mailbox[g])) : Tail(mailbox[g])[i] = mailbox[g][i + 1]
  BY <1>1, HeadTailProperties
<1>3. Head(mailbox[g]) = mailbox[g][1] /\ Len(mailbox[g]) \in Nat \ {0}
  BY <1>1
<1>4. mailbox' = [mailbox EXCEPT ![g] = Tail(mailbox[g])]
  BY DEF Take
<1>5. QED
  BY <1>1, <1>2, <1>3, <1>4 DEF TypeOK

\* Forgetting a caller keeps every request, and the callers of all others.
LEMMA ForgetFacts ==
  ASSUME TypeOK, NEW c \in Conns, Forget(c)
  PROVE  /\ mailbox' \in [Grains -> Seq(Request)]
         /\ \A h \in Grains :
              /\ Len(mailbox'[h]) = Len(mailbox[h])
              /\ \A i \in 1 .. Len(mailbox[h]) :
                   /\ mailbox'[h][i].op = mailbox[h][i].op
                   /\ mailbox'[h][i].user = mailbox[h][i].user
                   /\ mailbox'[h][i].from =
                        IF mailbox[h][i].from = c THEN None ELSE mailbox[h][i].from
<1> DEFINE f(s) == [i \in 1 .. Len(s) |->
                      IF s[i].from = c THEN [s[i] EXCEPT !.from = None] ELSE s[i]]
<1>1. ASSUME NEW s \in Seq(Request)
      PROVE  /\ f(s) \in Seq(Request)
             /\ Len(f(s)) = Len(s)
             /\ \A i \in 1 .. Len(s) :
                  /\ f(s)[i].op = s[i].op /\ f(s)[i].user = s[i].user
                  /\ f(s)[i].from = IF s[i].from = c THEN None ELSE s[i].from
  <2>1. Len(s) \in Nat /\ \A i \in 1 .. Len(s) : s[i] \in Request
    OBVIOUS
  <2>2. f(s) \in [1 .. Len(s) -> Request]
    BY <2>1 DEF Request
  <2>3. f(s) \in Seq(Request) /\ Len(f(s)) = Len(s)
    BY <2>1, <2>2
  <2>4. QED
    BY <2>1, <2>2, <2>3 DEF Request
<1>2. mailbox' = [g \in Grains |-> f(mailbox[g])]
  BY DEF Forget
<1> HIDE DEF f
<1>3. QED
  BY <1>1, <1>2 DEF TypeOK

-----------------------------------------------------------------------------
(* The steps.                                                              *)

\* Requests come from connections.
LEMMA Callers ==
  ASSUME IInv
  PROVE  \A g \in Grains : \A i \in 1 .. Len(mailbox[g]) :
           mailbox[g][i].from # None => mailbox[g][i].from \in Conns
<1> SUFFICES ASSUME NEW g \in Grains, NEW i \in 1 .. Len(mailbox[g]),
                    mailbox[g][i].from # None
             PROVE  mailbox[g][i].from \in Conns
  OBVIOUS
<1>1. mailbox[g][i] \in Request
  BY DEF IInv, TypeOK
<1>2. QED
  BY <1>1 DEF Request

\* A handler that is not waiting has no request in any mailbox.
LEMMA NoneOutstanding ==
  ASSUME IInv, NEW c \in Conns, pc[c] # "waiting" \/ reply[c] # None
  PROVE  \A g \in Grains : \A i \in 1 .. Len(mailbox[g]) : mailbox[g][i].from # c
<1>1. c # None
  BY GatewayAssumption
<1>2. QED
  BY <1>1 DEF IInv, Outstanding

\* The four requests.
LEMMA PostStep ==
  ASSUME IInv, NEW c \in Conns, NEW op \in Ops, NEW g \in Grains,
         pc[c] \in {"registered", "reading"}, userID[c] # None,
         op \in {"Login", "Logout"} => g \in Users,
         op \in {"Join", "Leave"} => g \in Rooms,
         Post(c, op, g, userID[c]),
         UNCHANGED <<clients, clientVars, reply, online, members, disturbed, forgotten>>
  PROVE  IInv'
<1> USE DEF clientVars
<1>1. userID[c] \in Users /\ c # None
  BY GatewayAssumption DEF IInv, TypeOK
<1>2. /\ mailbox' \in [Grains -> Seq(Request)]
      /\ \A h \in Grains : \A i \in 1 .. Len(mailbox'[h]) :
           \/ i \in 1 .. Len(mailbox[h]) /\ mailbox'[h][i] = mailbox[h][i]
           \/ h = g /\ i = Len(mailbox[g]) + 1 /\ mailbox'[h][i].from = c
  <2>1. PICK u \in Users : Post(c, op, g, u)
    BY <1>1
  <2>2. TypeOK
    BY DEF IInv
  <2>3. /\ mailbox' \in [Grains -> Seq(Request)]
        /\ \A h \in Grains : \A i \in 1 .. Len(mailbox'[h]) :
             \/ i \in 1 .. Len(mailbox[h]) /\ mailbox'[h][i] = mailbox[h][i]
             \/ /\ h = g /\ i = Len(mailbox[g]) + 1
                /\ mailbox'[h][i] = [op |-> op, user |-> u, from |-> c]
    BY ONLY <2>2, c \in Conns, op \in Ops, g \in Grains, u \in Users, <2>1, PostFacts
  <2>4. QED
    BY <2>3
<1>3. /\ pc' = [pc EXCEPT ![c] = "waiting"]
      /\ call' = [call EXCEPT ![c] = [op |-> op, grain |-> g]]
  BY DEF Post
<1>4. [op |-> op, grain |-> g] \in Call /\ [op |-> op, grain |-> g] # None
  BY GatewayAssumption DEF Call
<1>5. TypeOK'
  <2>1. call' \in [Conns -> Call \cup {None}] /\ pc' \in [Conns -> PCs]
    BY <1>3, <1>4 DEF IInv, TypeOK, PCs
  <2>2. \A d \in Conns : reply'[d] # None => pc'[d] = "waiting"
    BY <1>3 DEF IInv, TypeOK
  <2>3. \A d \in Conns : pc'[d] \in {"checked", "registered", "waiting"} <=> call'[d] # None
    BY <1>3, <1>4 DEF IInv, TypeOK
  <2>4. QED
    BY <1>2, <2>1, <2>2, <2>3 DEF IInv, TypeOK
<1>6. Anonymous'
  BY <1>3 DEF IInv, TypeOK, Anonymous
<1>7. CallsMatch'
  BY <1>3, <1>4 DEF IInv, TypeOK, CallsMatch
<1>8. Outstanding'
  <2>1. \A h \in Grains : \A i \in 1 .. Len(mailbox[h]) : mailbox[h][i].from # c
    BY NoneOutstanding
  <2>2. reply[c] = None
    BY DEF IInv, TypeOK
  <2> SUFFICES ASSUME NEW h \in Grains, NEW i \in 1 .. Len(mailbox'[h]),
                      mailbox'[h][i].from # None
               PROVE  /\ pc'[mailbox'[h][i].from] = "waiting"
                      /\ reply'[mailbox'[h][i].from] = None
                      /\ \A k \in Grains : \A j \in 1 .. Len(mailbox'[k]) :
                           mailbox'[k][j].from = mailbox'[h][i].from => k = h /\ j = i
    BY DEF Outstanding
  <2>3. CASE h = g /\ i = Len(mailbox[g]) + 1 /\ mailbox'[h][i].from = c
    <3>1. pc'[c] = "waiting" /\ reply'[c] = None
      BY <1>3, <2>2 DEF IInv, TypeOK
    <3>2. ASSUME NEW k \in Grains, NEW j \in 1 .. Len(mailbox'[k]), mailbox'[k][j].from = c
          PROVE  k = h /\ j = i
      BY <1>2, <2>1, <2>3, <3>2
    <3>3. QED
      BY <2>3, <3>1, <3>2
  <2>4. CASE i \in 1 .. Len(mailbox[h]) /\ mailbox'[h][i] = mailbox[h][i]
    <3> mailbox[h][i] \in Request
      BY <2>4 DEF IInv, TypeOK
    <3>1. mailbox[h][i].from \in Conns /\ mailbox[h][i].from # c
      BY <2>1, <2>4 DEF Request
    <3>2. pc[mailbox[h][i].from] = "waiting" /\ reply[mailbox[h][i].from] = None
      BY <2>4 DEF IInv, Outstanding
    <3>3. \A k \in Grains : \A j \in 1 .. Len(mailbox[k]) :
            mailbox[k][j].from = mailbox[h][i].from => k = h /\ j = i
      BY <2>4 DEF IInv, Outstanding
    <3>4. /\ pc'[mailbox[h][i].from] = "waiting"
          /\ reply'[mailbox[h][i].from] = None
      BY <1>3, <3>1, <3>2 DEF IInv, TypeOK
    <3>5. ASSUME NEW k \in Grains, NEW j \in 1 .. Len(mailbox'[k]),
                 mailbox'[k][j].from = mailbox[h][i].from
          PROVE  k = h /\ j = i
      <4>1. j \in 1 .. Len(mailbox[k]) /\ mailbox'[k][j] = mailbox[k][j]
        BY <1>2, <3>1, <3>5
      <4>2. QED
        BY <3>3, <3>5, <4>1
    <3>6. QED
      BY <2>4, <3>4, <3>5
  <2>5. QED
    BY <1>2, <2>3, <2>4
<1>9. EntryIsLive'
  BY <1>3 DEF IInv, TypeOK, EntryIsLive, Open
<1>10. QED
  BY <1>5, <1>6, <1>7, <1>8, <1>9 DEF IInv

\* A grain handles a request.
LEMMA TakeStep ==
  ASSUME IInv, NEW g \in Grains, NEW op, NEW outcome \in {"ok", "refused"},
         Take(g, op, outcome),
         online' \in [Users -> BOOLEAN], members' \in [Rooms -> SUBSET Users],
         forgotten' \subseteq forgotten
  PROVE  IInv'
<1> DEFINE d == Head(mailbox[g]).from
<1>1. /\ mailbox' \in [Grains -> Seq(Request)]
      /\ Len(mailbox[g]) \in Nat \ {0}
      /\ Head(mailbox[g]) = mailbox[g][1] /\ Head(mailbox[g]) \in Request
      /\ \A i \in 1 .. Len(mailbox'[g]) :
           i + 1 \in 1 .. Len(mailbox[g]) /\ mailbox'[g][i] = mailbox[g][i + 1]
      /\ \A h \in Grains \ {g} : mailbox'[h] = mailbox[h]
  BY TakeFacts DEF IInv
<1>2. /\ reply' = [c \in Conns |-> IF c = d THEN outcome ELSE reply[c]]
      /\ UNCHANGED <<clients, userID, currentRoom, pc, call, disturbed>>
  BY DEF Take, clientVars
<1>3. d # None => /\ pc[d] = "waiting"
                  /\ \A h \in Grains : \A j \in 1 .. Len(mailbox[h]) :
                       mailbox[h][j].from = d => h = g /\ j = 1
  BY <1>1 DEF IInv, Outstanding
<1>4. None \notin Conns
  BY GatewayAssumption
<1> HIDE DEF d
<1>5. TypeOK'
  BY <1>1, <1>2, <1>3, <1>4 DEF IInv, TypeOK
<1>6. Anonymous' /\ CallsMatch' /\ EntryIsLive'
  BY <1>2 DEF IInv, Anonymous, CallsMatch, EntryIsLive, Open
<1>7. Outstanding'
  <2> SUFFICES ASSUME NEW h \in Grains, NEW i \in 1 .. Len(mailbox'[h]),
                      mailbox'[h][i].from # None
               PROVE  /\ pc'[mailbox'[h][i].from] = "waiting"
                      /\ reply'[mailbox'[h][i].from] = None
                      /\ \A k \in Grains : \A j \in 1 .. Len(mailbox'[k]) :
                           mailbox'[k][j].from = mailbox'[h][i].from => k = h /\ j = i
    BY DEF Outstanding
  <2> DEFINE n == IF h = g THEN i + 1 ELSE i
  <2>1. n \in 1 .. Len(mailbox[h]) /\ mailbox'[h][i] = mailbox[h][n]
    BY <1>1
  <2>2. mailbox[h][n].from \in Conns
    <3>1. mailbox[h][n] \in Request
      BY <2>1 DEF IInv, TypeOK
    <3>2. QED
      BY <2>1, <3>1 DEF Request
  <2>3. /\ pc[mailbox[h][n].from] = "waiting" /\ reply[mailbox[h][n].from] = None
        /\ \A k \in Grains : \A j \in 1 .. Len(mailbox[k]) :
             mailbox[k][j].from = mailbox[h][n].from => k = h /\ j = n
    BY <2>1 DEF IInv, Outstanding
  <2>4. mailbox[h][n].from # d
    <3>1. mailbox[g][1].from = d
      BY <1>1 DEF d
    <3>2. 1 \in 1 .. Len(mailbox[g])
      BY <1>1
    <3>3. ~(h = g /\ n = 1)
      OBVIOUS
    <3>4. QED
      BY <2>3, <3>1, <3>2, <3>3
  <2>5. pc'[mailbox'[h][i].from] = "waiting" /\ reply'[mailbox'[h][i].from] = None
    BY <1>2, <2>1, <2>2, <2>3, <2>4
  <2>6. ASSUME NEW k \in Grains, NEW j \in 1 .. Len(mailbox'[k]),
               mailbox'[k][j].from = mailbox'[h][i].from
        PROVE  k = h /\ j = i
    <3> DEFINE l == IF k = g THEN j + 1 ELSE j
    <3>1. l \in 1 .. Len(mailbox[k]) /\ mailbox'[k][j] = mailbox[k][l]
      BY <1>1
    <3> HIDE DEF n, l
    <3>2. k = h /\ l = n
      BY ONLY <2>1, <2>3, <2>6, <3>1, k \in Grains
    <3>3. QED
      BY <3>2 DEF n, l
  <2>7. QED
    BY <2>5, <2>6
<1>8. QED
  BY <1>5, <1>6, <1>7 DEF IInv

\* A reply arrives: the handler ends, and whatever it does to the registry is
\* to take its own user out of it.
LEMMA ReturnStep ==
  ASSUME IInv, NEW c \in Conns, NEW op, NEW outcome \in {"ok", "refused"},
         NEW next \in {"reading", "leaving", "subscribing"},
         Return(c, op, outcome, next),
         userID' = userID, currentRoom' \in [Conns -> Rooms \cup {None}],
         clients' = clients \/ Unregister(c)
  PROVE  IInv'
<1>1. /\ pc[c] = "waiting" /\ reply[c] = outcome /\ outcome # None
      /\ pc' = [pc EXCEPT ![c] = next]
      /\ call' = [call EXCEPT ![c] = None]
      /\ reply' = [reply EXCEPT ![c] = None]
      /\ UNCHANGED <<mailbox, online, members, disturbed, forgotten>>
  BY GatewayAssumption DEF Return, grainVars
<1>2. \A u \in Users : clients'[u] # None => clients'[u] = clients[u]
  BY DEF Unregister, IInv, TypeOK
<1>3. TypeOK'
  <2>1. clients' \in [Users -> Conns \cup {None}]
    BY DEF Unregister, IInv, TypeOK
  <2>2. QED
    BY <1>1, <2>1 DEF IInv, TypeOK, PCs
<1>4. Anonymous' /\ CallsMatch'
  BY <1>1 DEF IInv, TypeOK, Anonymous, CallsMatch
<1>5. Outstanding'
  <2>1. \A g \in Grains : \A i \in 1 .. Len(mailbox[g]) : mailbox[g][i].from # c
    BY <1>1, NoneOutstanding
  <2>2. \A g \in Grains : \A i \in 1 .. Len(mailbox[g]) :
          mailbox[g][i].from # None => mailbox[g][i].from \in Conns
    BY Callers
  <2>3. QED
    BY <1>1, <2>1, <2>2 DEF IInv, TypeOK, Outstanding
<1>6. EntryIsLive'
  BY <1>1, <1>2 DEF IInv, TypeOK, EntryIsLive, Open
<1>7. QED
  BY <1>3, <1>4, <1>5, <1>6 DEF IInv

\* Five seconds pass.
LEMMA TimeOutStep ==
  ASSUME IInv, NEW c \in Conns, TimeOut(c)
  PROVE  IInv'
<1>1. /\ pc[c] = "waiting"
      /\ pc' = [pc EXCEPT ![c] = IF call[c].op = "Logout" THEN "leaving" ELSE "reading"]
      /\ call' = [call EXCEPT ![c] = None]
      /\ reply' = [reply EXCEPT ![c] = None]
      /\ disturbed' = [disturbed EXCEPT ![c] = TRUE]
      /\ UNCHANGED <<clients, userID, currentRoom, online, members, forgotten>>
  BY DEF TimeOut, clientVars
<1>2. /\ mailbox' \in [Grains -> Seq(Request)]
      /\ \A h \in Grains :
           /\ Len(mailbox'[h]) = Len(mailbox[h])
           /\ \A i \in 1 .. Len(mailbox[h]) :
                mailbox'[h][i].from =
                  IF mailbox[h][i].from = c THEN None ELSE mailbox[h][i].from
  BY ForgetFacts DEF TimeOut, IInv
<1>3. TypeOK'
  BY <1>1, <1>2 DEF IInv, TypeOK, PCs
<1>4. Anonymous' /\ CallsMatch' /\ EntryIsLive'
  BY <1>1 DEF IInv, TypeOK, Anonymous, CallsMatch, EntryIsLive, Open
<1>5. Outstanding'
  <2>1. \A g \in Grains : \A i \in 1 .. Len(mailbox[g]) :
          mailbox[g][i].from # None => mailbox[g][i].from \in Conns
    BY Callers
  <2>2. QED
    BY <1>1, <1>2, <2>1 DEF IInv, TypeOK, Outstanding
<1>6. QED
  BY <1>3, <1>4, <1>5 DEF IInv

\* handleLogin registers the connection.  It had no user, so that no entry of
\* another user can have been its own.
LEMMA RegisterStep ==
  ASSUME IInv, NEW c \in Conns, LoginRegister(c)
  PROVE  IInv'
<1> DEFINE u == call[c].grain
<1>1. u \in Users /\ u # None /\ userID[c] = None /\ pc[c] = "checked" /\ call[c] # None
  BY GatewayAssumption DEF LoginRegister, IInv, TypeOK, CallsMatch, Anonymous
<1>2. /\ userID' = [userID EXCEPT ![c] = u]
      /\ clients' = [clients EXCEPT ![u] = c]
      /\ pc' = [pc EXCEPT ![c] = "registered"]
      /\ disturbed' \in [Conns -> BOOLEAN]
      /\ UNCHANGED <<currentRoom, call, reply, mailbox, online, members, forgotten>>
  BY DEF LoginRegister, grainVars, IInv, TypeOK
<1> HIDE DEF u
<1>3. TypeOK'
  BY <1>1, <1>2 DEF IInv, TypeOK, PCs
<1>4. Anonymous'
  BY <1>1, <1>2 DEF IInv, TypeOK, Anonymous
<1>5. CallsMatch'
  BY <1>1, <1>2 DEF IInv, TypeOK, CallsMatch
<1>6. Outstanding'
  <2>1. \A g \in Grains : \A i \in 1 .. Len(mailbox[g]) : mailbox[g][i].from # c
    BY <1>1, NoneOutstanding
  <2>2. \A g \in Grains : \A i \in 1 .. Len(mailbox[g]) :
          mailbox[g][i].from # None => mailbox[g][i].from \in Conns
    BY Callers
  <2>3. QED
    BY <1>2, <2>1, <2>2 DEF IInv, TypeOK, Outstanding
<1>7. EntryIsLive'
  <2>1. ASSUME NEW v \in Users \ {u}, clients[v] # None
        PROVE  clients[v] # c /\ clients[v] \in Conns
    BY <1>1, <2>1, GatewayAssumption DEF IInv, TypeOK, EntryIsLive
  <2>2. QED
    BY <1>1, <1>2, <2>1 DEF IInv, TypeOK, EntryIsLive, Open
<1>8. QED
  BY <1>3, <1>4, <1>5, <1>6, <1>7 DEF IInv

\* A join goes on when the topic has been asked for the room.
LEMMA SubscribedStep ==
  ASSUME IInv, NEW c \in Conns, Subscribed(c)
  PROVE  IInv'
<1>1. /\ pc[c] = "subscribing" /\ pc' = [pc EXCEPT ![c] = "reading"]
      /\ UNCHANGED <<clients, userID, currentRoom, call, reply, mailbox, online, members,
                     disturbed, forgotten>>
  BY DEF Subscribed, clientVars, grainVars
<1>2. TypeOK'
  BY <1>1 DEF IInv, TypeOK, PCs
<1>3. Anonymous' /\ CallsMatch' /\ EntryIsLive'
  BY <1>1 DEF IInv, TypeOK, Anonymous, CallsMatch, EntryIsLive, Open
<1>4. Outstanding'
  <2>1. \A g \in Grains : \A i \in 1 .. Len(mailbox[g]) :
          mailbox[g][i].from # None => mailbox[g][i].from \in Conns
    BY Callers
  <2>2. QED
    BY <1>1, <2>1 DEF IInv, TypeOK, Outstanding
<1>5. QED
  BY <1>2, <1>3, <1>4 DEF IInv

\* A grain begins anew, and the requests it had are gone.
LEMMA ReactivateStep ==
  ASSUME IInv, NEW g \in Grains, Reactivate(g)
  PROVE  IInv'
<1>1. /\ mailbox' = [mailbox EXCEPT ![g] = << >>]
      /\ UNCHANGED <<clients, userID, currentRoom, pc, call, reply, disturbed>>
  BY DEF Reactivate, clientVars
<1>2. /\ Len(mailbox'[g]) = 0
      /\ \A h \in Grains \ {g} : mailbox'[h] = mailbox[h]
      /\ mailbox' \in [Grains -> Seq(Request)]
  BY <1>1 DEF IInv, TypeOK
<1>3. TypeOK'
  <2>1. online' \in [Users -> BOOLEAN] /\ members' \in [Rooms -> SUBSET Users]
    BY DEF Reactivate, IInv, TypeOK
  <2>2. forgotten' \in SUBSET (Conns \X Grains)
    BY DEF Reactivate, IInv, TypeOK
  <2>3. QED
    BY <1>1, <1>2, <2>1, <2>2 DEF IInv, TypeOK
<1>4. Anonymous' /\ CallsMatch' /\ EntryIsLive'
  BY <1>1 DEF IInv, Anonymous, CallsMatch, EntryIsLive, Open
<1>5. Outstanding'
  <2>1. \A h \in Grains : \A i \in 1 .. Len(mailbox'[h]) : h # g /\ mailbox'[h] = mailbox[h]
    BY <1>2
  <2>2. QED
    BY <1>1, <2>1 DEF IInv, Outstanding
<1>6. QED
  BY <1>3, <1>4, <1>5 DEF IInv

\* A step of an idle connection that calls no grain: it is opened, it asks to
\* log in, or it is found gone, and then its entry goes with it.
LEMMA IdleStep ==
  ASSUME IInv, NEW c \in Conns, Connect(c) \/ (\E u \in Users : LoginCheck(c, u)) \/ Disconnect(c)
  PROVE  IInv'
<1>1. /\ pc[c] \in {"new", "connected", "reading", "leaving"}
      /\ UNCHANGED <<userID, currentRoom, reply, mailbox, online, members, disturbed, forgotten>>
  BY DEF Connect, LoginCheck, Disconnect, Reading, clientVars, grainVars
<1>2. call[c] = None
  BY <1>1 DEF IInv, TypeOK
<1>3. Outstanding'
  <2>1. /\ \A g \in Grains : \A i \in 1 .. Len(mailbox[g]) : mailbox[g][i].from # c
        /\ \A g \in Grains : \A i \in 1 .. Len(mailbox[g]) :
             mailbox[g][i].from # None => mailbox[g][i].from \in Conns
    BY <1>1, NoneOutstanding, Callers
  <2>2. \A d \in Conns \ {c} : pc'[d] = pc[d]
    BY DEF IInv, TypeOK, Connect, LoginCheck, Disconnect
  <2>3. QED
    BY <1>1, <2>1, <2>2 DEF IInv, Outstanding
<1>4. CASE Connect(c)
  BY <1>1, <1>2, <1>3, <1>4
  DEF Connect, IInv, TypeOK, PCs, Anonymous, CallsMatch, EntryIsLive, Open
<1>5. ASSUME NEW u \in Users, LoginCheck(c, u)
      PROVE  IInv'
  <2> DEFINE l == [op |-> "Login", grain |-> u]
  <2>1. clients' = clients /\ pc[c] = "connected"
    BY <1>5 DEF LoginCheck
  <2>2. l \in Call /\ l # None /\ l.op = "Login" /\ l.grain = u
    BY GatewayAssumption DEF Call, Ops, Grains
  <2>3. \/ pc' = [pc EXCEPT ![c] = "checked"] /\ call' = [call EXCEPT ![c] = l]
        \/ pc' = [pc EXCEPT ![c] = "reading"] /\ call' = call
    BY <1>5 DEF LoginCheck
  <2> HIDE DEF l
  <2>4. TypeOK'
    <3>1. pc' \in [Conns -> PCs] /\ call' \in [Conns -> Call \cup {None}]
      <4>1. pc \in [Conns -> PCs] /\ call \in [Conns -> Call \cup {None}]
        BY DEF IInv, TypeOK
      <4>2. pc' = [pc EXCEPT ![c] = "checked"] \/ pc' = [pc EXCEPT ![c] = "reading"]
        BY <2>3
      <4>3. call' = [call EXCEPT ![c] = l] \/ call' = call
        BY <2>3
      <4>4. pc' \in [Conns -> PCs]
        BY ONLY <4>1, <4>2 DEF PCs
      <4>5. call' \in [Conns -> Call \cup {None}]
        BY ONLY <2>2, <4>1, <4>3
      <4>6. QED
        BY <4>4, <4>5
    <3>2. \A d \in Conns : pc'[d] \in {"checked", "registered", "waiting"} <=> call'[d] # None
      BY <1>2, <2>1, <2>2, <2>3 DEF IInv, TypeOK
    <3>3. \A d \in Conns : reply'[d] # None => pc'[d] = "waiting"
      BY <1>1, <2>1, <2>3 DEF IInv, TypeOK
    <3>4. QED
      BY <1>1, <2>1, <3>1, <3>2, <3>3 DEF IInv, TypeOK
  <2>5. Anonymous'
    BY <1>1, <2>1, <2>3 DEF IInv, TypeOK, Anonymous
  <2>6. CallsMatch'
    BY <1>1, <1>2, <2>2, <2>3 DEF IInv, TypeOK, CallsMatch
  <2>7. EntryIsLive'
    BY <1>1, <2>1, <2>3 DEF IInv, TypeOK, EntryIsLive, Open
  <2>8. QED
    BY <1>3, <2>4, <2>5, <2>6, <2>7 DEF IInv
<1>6. CASE Disconnect(c)
  <2>1. /\ pc' = [pc EXCEPT ![c] = "closed"] /\ call' = call
        /\ Unregister(c)
    BY <1>6 DEF Disconnect
  <2>2. clients' \in [Users -> Conns \cup {None}]
    BY <2>1 DEF Unregister, IInv, TypeOK
  <2>3. \A u \in Users : clients'[u] # None => clients'[u] = clients[u] /\ clients[u] # c
    BY <2>1, GatewayAssumption DEF Unregister, IInv, TypeOK, EntryIsLive
  <2>4. TypeOK'
    BY <1>1, <1>2, <2>1, <2>2 DEF IInv, TypeOK, PCs
  <2>5. Anonymous' /\ CallsMatch'
    BY <1>1, <1>2, <2>1 DEF IInv, TypeOK, Anonymous, CallsMatch
  <2>6. EntryIsLive'
    BY <1>1, <2>1, <2>2, <2>3 DEF IInv, TypeOK, EntryIsLive, Open
  <2>7. QED
    BY <1>3, <2>4, <2>5, <2>6 DEF IInv
<1>7. QED
  BY <1>4, <1>5, <1>6

-----------------------------------------------------------------------------
(* The theorems.                                                           *)

\* Before the first connection is opened nothing is registered or under way.
LEMMA Initially == Init => IInv
<1> SUFFICES ASSUME Init PROVE IInv
  OBVIOUS
<1>1. \A g \in Grains : mailbox[g] = << >> /\ Len(mailbox[g]) = 0
  BY DEF Init
<1>2. mailbox \in [Grains -> Seq(Request)]
  BY DEF Init
<1>3. TypeOK
  BY <1>2 DEF Init, TypeOK, PCs
<1>4. Outstanding
  BY <1>1 DEF Outstanding
<1>5. QED
  BY <1>3, <1>4 DEF Init, IInv, Anonymous, CallsMatch, EntryIsLive

\* Every step of a connection or a grain keeps the invariant.
LEMMA Inductive == IInv /\ [Next]_vars => IInv'
<1> SUFFICES ASSUME IInv, [Next]_vars PROVE IInv'
  OBVIOUS
<1>1. ASSUME NEW u \in Users, HandleLogin(u) \/ HandleLogout(u)
      PROVE  IInv'
  <2>1. /\ u \in Grains /\ online' \in [Users -> BOOLEAN] /\ members' \in [Rooms -> SUBSET Users]
        /\ forgotten' \subseteq forgotten
    BY <1>1 DEF HandleLogin, HandleLogout, IInv, TypeOK, Grains
  <2>2. QED
    BY <1>1, <2>1, TakeStep DEF HandleLogin, HandleLogout
<1>2. ASSUME NEW r \in Rooms, HandleJoin(r) \/ HandleLeave(r)
      PROVE  IInv'
  <2>1. r \in Grains
    BY DEF Grains
  <2>2. PICK op \in Ops, outcome \in {"ok", "refused"} : Take(r, op, outcome)
    BY <1>2 DEF HandleJoin, HandleLeave, Ops
  <2>3. Head(mailbox[r]).user \in Users
    BY <2>1, <2>2, TakeFacts DEF IInv, Request
  <2>4. online' \in [Users -> BOOLEAN] /\ forgotten' \subseteq forgotten
    BY <1>2 DEF HandleJoin, HandleLeave, IInv, TypeOK
  <2>5. members' \in [Rooms -> SUBSET Users]
    BY <1>2, <2>3 DEF HandleJoin, HandleLeave, IInv, TypeOK
  <2>6. QED
    BY <2>1, <2>2, <2>4, <2>5, TakeStep
<1>3. ASSUME NEW c \in Conns, Client(c)
      PROVE  IInv'
  <2>1. ASSUME NEW r \in Rooms, JoinRequest(c, r)
        PROVE  IInv'
    <3>1. r \in Grains /\ r \in Rooms /\ "Join" \in Ops
      BY DEF Grains, Ops
    <3>2. QED
      BY <2>1, <3>1, PostStep DEF JoinRequest
  <2>2. CASE LogoutRequest(c)
    <3>1. userID[c] \in Users /\ userID[c] \in Grains /\ "Logout" \in Ops
      BY <2>2 DEF LogoutRequest, IInv, TypeOK, Grains, Ops
    <3>2. QED
      BY <2>2, <3>1, PostStep DEF LogoutRequest
  <2>3. CASE LeaveRequest(c)
    <3>1. currentRoom[c] \in Rooms /\ currentRoom[c] \in Grains /\ "Leave" \in Ops
      BY <2>3 DEF LeaveRequest, IInv, TypeOK, Grains, Ops
    <3>2. QED
      BY <2>3, <3>1, PostStep DEF LeaveRequest
  <2>4. QED
    BY <1>3, <2>1, <2>2, <2>3, IdleStep DEF Client
<1>4. ASSUME NEW c \in Conns, Handler(c)
      PROVE  IInv'
  <2>1. CASE LoginRequest(c)
    <3>1. userID[c] \in Users /\ userID[c] # None /\ userID[c] \in Grains /\ "Login" \in Ops
      BY <2>1 DEF LoginRequest, IInv, TypeOK, Anonymous, Grains, Ops
    <3>2. QED
      BY <2>1, <3>1, PostStep DEF LoginRequest
  <2>2. CASE Returns(c)
    <3>1. PICK op \in Ops, outcome \in {"ok", "refused"},
               next \in {"reading", "leaving", "subscribing"} :
            Return(c, op, outcome, next)
      BY <2>2 DEF Returns, LoginReturn, LogoutReturn, JoinReturn, JoinRefused, LeaveReturn, Ops
    <3>2. userID' = userID /\ (clients' = clients \/ Unregister(c))
      BY <2>2 DEF Returns, LoginReturn, LogoutReturn, JoinReturn, JoinRefused, LeaveReturn,
                  clientVars
    <3>3. currentRoom' \in [Conns -> Rooms \cup {None}]
      <4>1. CASE JoinReturn(c)
        <5>1. call[c].grain \in Rooms
          BY <4>1 DEF JoinReturn, Return, IInv, CallsMatch
        <5>2. QED
          BY <4>1, <5>1 DEF JoinReturn, IInv, TypeOK
      <4>2. CASE ~JoinReturn(c)
        BY <2>2, <4>2 DEF Returns, LoginReturn, LogoutReturn, JoinRefused, LeaveReturn,
                          clientVars, IInv, TypeOK
      <4>3. QED
        BY <4>1, <4>2
    <3>4. QED
      BY <3>1, <3>2, <3>3, ReturnStep
  <2>3. QED
    BY <1>4, <2>1, <2>2, RegisterStep, SubscribedStep, TimeOutStep DEF Handler
<1>5. CASE UNCHANGED vars
  BY <1>5 DEF vars, clientVars, grainVars, IInv, TypeOK, Anonymous, CallsMatch, Outstanding, EntryIsLive, Open
<1>6. QED
  BY <1>1, <1>2, <1>3, <1>4, <1>5, ReactivateStep DEF Next, Grain

\* The types, with calls and replies only where a handler is busy with one.
THEOREM TypeCorrect == Spec => []TypeOK
<1>1. Spec => []IInv
  BY Initially, Inductive, PTL DEF Spec
<1>2. IInv => TypeOK
  BY DEF IInv
<1>3. QED
  BY <1>1, <1>2, PTL

\* Registrations never outlive connections: unregisterClient may take out an
\* entry too many, but never leaves one behind.
THEOREM EntriesAreLive == Spec => []EntryIsLive
<1>1. Spec => []IInv
  BY Initially, Inductive, PTL DEF Spec
<1>2. IInv => EntryIsLive
  BY DEF IInv
<1>3. QED
  BY <1>1, <1>2, PTL

-----------------------------------------------------------------------------
(* Connections and grains agree.                                           *)

\* All requests of the user of c that grain g has still to handle are c's.
Own(c, g) ==
  \A i \in 1 .. Len(mailbox[g]) : mailbox[g][i].user = userID[c] => mailbox[g][i].from = c

\* The request c waits for is the last of its user's.
Last(c) ==
  \A g \in Grains : \A i, j \in 1 .. Len(mailbox[g]) :
    mailbox[g][i].from = c /\ i < j => mailbox[g][j].user # userID[c]

\* Its calls are to its own UserGrain, and it leaves its current room.
Aims(c) ==
  call[c] # None /\ pc[c] = "waiting" =>
    /\ call[c].op \in {"Login", "Logout"} => call[c].grain = userID[c]
    /\ call[c].op = "Leave" => call[c].grain = currentRoom[c]

\* The room, or the UserGrain, knows the user of c, or has begun anew since it did.
Member(c, r) == userID[c] \in members[r] \/ <<c, r>> \in forgotten
Online(c, u) == online[u] \/ <<c, u>> \in forgotten

\* It is in its current room, unless it has just left it, and in a room that has
\* let it in, and nobody is about to take it out.
InRoom(c) ==
  \A r \in Rooms :
    /\ currentRoom[c] = r =>
         Own(c, r) /\ (Member(c, r) \/ (reply[c] # None /\ call[c].op = "Leave"))
    /\ reply[c] = "ok" /\ call[c].op = "Join" /\ call[c].grain = r =>
         Own(c, r) /\ Member(c, r)

\* Once it has been logged in its user is online, unless it has logged out.
IsOnline(c) ==
  \A u \in Users :
    /\ userID[c] = u /\ clients[u] = c /\ pc[c] # "registered"
    /\ ~(call[c] # None /\ call[c].op = "Login" /\ reply[c] = None)
    => Own(c, u) /\ (Online(c, u) \/ (reply[c] # None /\ call[c].op = "Logout"))

View(c) ==
  Open(c) /\ userID[c] # None /\ ~disturbed[c] =>
    Last(c) /\ Aims(c) /\ InRoom(c) /\ IsOnline(c)

\* Requests say who sends them and what for.
Signed ==
  \A g \in Grains : \A i \in 1 .. Len(mailbox[g]) :
    LET m == mailbox[g][i] IN
    /\ g \in Users => m.user = g
    /\ m.from # None => m.user = userID[m.from] /\ call[m.from] = [op |-> m.op, grain |-> g]

\* Of two connections of a user that are open at once both are disturbed.
Alone ==
  \A c, d \in Conns :
    c # d /\ Open(c) /\ Open(d) /\ userID[c] = userID[d] /\ userID[c] # None => disturbed[c]

\* A connection gets a user before it waits for anything, and a room after that.
Fresh ==
  \A c \in Conns :
    /\ userID[c] = None => currentRoom[c] = None /\ pc[c] # "waiting"
    /\ pc[c] = "registered" => currentRoom[c] = None

EInv == Signed /\ Alone /\ Fresh /\ \A c \in Conns : View(c)


\* A connection whose own state does not change, and whose requests are not
\* touched, agrees with the grains as before.
LEMMA SameView ==
  ASSUME IInv, NEW d \in Conns, View(d),
         pc'[d] = pc[d], call'[d] = call[d], reply'[d] = reply[d],
         userID'[d] = userID[d], currentRoom'[d] = currentRoom[d],
         disturbed[d] => disturbed'[d],
         \A u \in Users : userID[d] = u /\ clients'[u] = d => clients[u] = d,
         Open(d) /\ userID[d] # None /\ ~disturbed'[d] =>
           /\ \A g \in Grains : Own(d, g) => Own(d, g)'
           /\ Last(d) => Last(d)'
           /\ \A r \in Rooms : Own(d, r) /\ Member(d, r) => Member(d, r)'
           /\ \A u \in Users : userID[d] = u /\ Own(d, u) /\ Online(d, u) => Online(d, u)'
  PROVE  View(d)'
<1> SUFFICES ASSUME Open(d)', userID'[d] # None, ~disturbed'[d]
             PROVE  Last(d)' /\ Aims(d)' /\ InRoom(d)' /\ IsOnline(d)'
  BY DEF View
<1>1. Open(d) /\ userID[d] # None /\ ~disturbed[d]
  BY DEF Open
<1>2. Last(d) /\ Aims(d) /\ InRoom(d) /\ IsOnline(d)
  BY <1>1 DEF View
<1>3. /\ \A g \in Grains : Own(d, g) => Own(d, g)'
      /\ Last(d) => Last(d)'
      /\ \A r \in Rooms : Own(d, r) /\ Member(d, r) => Member(d, r)'
      /\ \A u \in Users : userID[d] = u /\ Own(d, u) /\ Online(d, u) => Online(d, u)'
  BY <1>1
<1>4. Aims(d)'
  BY <1>2 DEF Aims
<1>5. InRoom(d)'
  <2> SUFFICES ASSUME NEW r \in Rooms
               PROVE  /\ currentRoom'[d] = r =>
                           /\ Own(d, r)'
                           /\ Member(d, r)' \/ (reply'[d] # None /\ call'[d].op = "Leave")
                      /\ reply'[d] = "ok" /\ call'[d].op = "Join" /\ call'[d].grain = r =>
                           Own(d, r)' /\ Member(d, r)'
    BY DEF InRoom
  <2>1. r \in Grains
    BY DEF Grains
  <2>2. QED
    BY <1>2, <1>3, <2>1 DEF InRoom
<1>6. IsOnline(d)'
  <2> SUFFICES ASSUME NEW u \in Users, userID'[d] = u, clients'[u] = d, pc'[d] # "registered",
                      ~(call'[d] # None /\ call'[d].op = "Login" /\ reply'[d] = None)
               PROVE  /\ Own(d, u)'
                      /\ Online(d, u)' \/ (reply'[d] # None /\ call'[d].op = "Logout")
    BY DEF IsOnline
  <2>1. u \in Grains
    BY DEF Grains
  <2>2. QED
    BY <1>2, <1>3, <2>1 DEF IsOnline
<1>7. QED
  BY <1>2, <1>3, <1>4, <1>5, <1>6

\* The four requests.
LEMMA PostView ==
  ASSUME IInv, EInv, NEW c \in Conns, NEW op \in Ops, NEW g \in Grains, NEW u \in Users,
         u = userID[c],
         pc[c] = IF op = "Login" THEN "registered" ELSE "reading",
         op \in {"Login", "Logout"} => g = u,
         op \in {"Join", "Leave"} => g \in Rooms,
         op = "Leave" => g = currentRoom[c],
         Post(c, op, g, u),
         UNCHANGED <<clients, clientVars, reply, online, members, disturbed, forgotten>>
  PROVE  EInv'
<1> USE DEF clientVars
<1>1. u # None /\ reply[c] = None /\ pc[c] \in {"registered", "reading"} /\ Open(c)
  BY GatewayAssumption DEF IInv, TypeOK, Open
<1>2. /\ mailbox' \in [Grains -> Seq(Request)]
      /\ \A h \in Grains : \A i \in 1 .. Len(mailbox'[h]) :
           \/ i \in 1 .. Len(mailbox[h]) /\ mailbox'[h][i] = mailbox[h][i]
           \/ /\ h = g /\ i = Len(mailbox[g]) + 1
              /\ mailbox'[h][i] = [op |-> op, user |-> u, from |-> c]
  BY PostFacts DEF IInv
<1>3. /\ pc' = [pc EXCEPT ![c] = "waiting"]
      /\ call' = [call EXCEPT ![c] = [op |-> op, grain |-> g]]
  BY DEF Post
<1>4. \A h \in Grains : \A i \in 1 .. Len(mailbox[h]) : mailbox[h][i].from # c
  BY <1>1, NoneOutstanding
<1>5. /\ pc'[c] = "waiting" /\ call'[c].op = op /\ call'[c].grain = g
      /\ call'[c] = [op |-> op, grain |-> g]
      /\ \A d \in Conns \ {c} : pc'[d] = pc[d] /\ call'[d] = call[d]
  BY <1>3 DEF IInv, TypeOK
<1>6. \A h \in Grains : Len(mailbox[h]) \in Nat /\ Len(mailbox'[h]) \in Nat
  BY <1>2 DEF IInv, TypeOK
<1>7. userID' = userID
  OBVIOUS
<1>8. Signed'
  <2> SUFFICES ASSUME NEW h \in Grains, NEW i \in 1 .. Len(mailbox'[h])
               PROVE  /\ h \in Users => mailbox'[h][i].user = h
                      /\ mailbox'[h][i].from # None =>
                           /\ mailbox'[h][i].user = userID'[mailbox'[h][i].from]
                           /\ call'[mailbox'[h][i].from] = [op |-> mailbox'[h][i].op, grain |-> h]
    BY DEF Signed
  <2>1. CASE i \in 1 .. Len(mailbox[h]) /\ mailbox'[h][i] = mailbox[h][i]
    <3>1. mailbox[h][i].from # None => mailbox[h][i].from \in Conns \ {c}
      BY <1>4, <2>1, Callers
    <3>2. QED
      BY <1>5, <2>1, <3>1 DEF EInv, Signed
  <2>2. CASE h = g /\ mailbox'[h][i] = [op |-> op, user |-> u, from |-> c]
    <3>1. g \in Users => g = u
      BY GatewayAssumption DEF Ops
    <3>2. QED
      BY <1>5, <2>2, <3>1
  <2>3. QED
    BY <1>2, <2>1, <2>2
<1>9. Alone'
  BY <1>1, <1>5 DEF EInv, Alone, Open
<1>10. Fresh'
  BY <1>1, <1>5 DEF EInv, Fresh
<1>11. View(c)'
  <2> SUFFICES ASSUME ~disturbed[c]
               PROVE  Last(c)' /\ Aims(c)' /\ InRoom(c)' /\ IsOnline(c)'
    BY DEF View
  <2>1. InRoom(c) /\ IsOnline(c)
    BY <1>1 DEF EInv, View
  <2>2. \A h \in Grains : Own(c, h) => Own(c, h)'
    BY <1>2 DEF Own
  <2>3. Last(c)'
    <3> SUFFICES ASSUME NEW h \in Grains, NEW i \in 1 .. Len(mailbox'[h]),
                        NEW j \in 1 .. Len(mailbox'[h]), mailbox'[h][i].from = c, i < j
                 PROVE  FALSE
      BY DEF Last
    <3>1. h = g /\ i = Len(mailbox[g]) + 1
      BY <1>2, <1>4
    <3>2. j \in 1 .. Len(mailbox[g]) \/ j = Len(mailbox[g]) + 1
      BY <1>2, <3>1
    <3>3. QED
      BY <1>6, <3>1, <3>2
  <2>4. Aims(c)'
    BY <1>1, <1>5 DEF Aims
  <2>5. InRoom(c)'
    <3> SUFFICES ASSUME NEW r \in Rooms, currentRoom[c] = r
                 PROVE  Own(c, r)' /\ Member(c, r)
      BY <1>1, GatewayAssumption DEF InRoom, Member
    <3>1. r \in Grains
      BY DEF Grains
    <3>2. QED
      BY <1>1, <2>1, <2>2, <3>1 DEF InRoom
  <2>6. IsOnline(c)'
    <3> SUFFICES ASSUME clients[u] = c, op # "Login"
                 PROVE  Own(c, u)' /\ Online(c, u)
      BY <1>1, <1>5, GatewayAssumption DEF IsOnline, Online, Call, IInv, TypeOK
    <3>1. u \in Grains /\ call[c] = None /\ pc[c] # "registered"
      BY DEF Grains, IInv, TypeOK
    <3>2. QED
      BY <1>1, <2>1, <2>2, <3>1 DEF IsOnline
  <2>7. QED
    BY <2>3, <2>4, <2>5, <2>6
<1>12. ASSUME NEW d \in Conns \ {c}
       PROVE  View(d)'
  <2>1. ASSUME Open(d), userID[d] # None, ~disturbed[d]
        PROVE  /\ \A h \in Grains : Own(d, h) => Own(d, h)'
               /\ Last(d) => Last(d)'
    <3>1. userID[d] # u
      BY <1>1, <2>1 DEF EInv, Alone
    <3>2. d # c
      OBVIOUS
    <3>3. ASSUME NEW h \in Grains, Own(d, h)
          PROVE  Own(d, h)'
      BY <1>2, <1>7, <3>1, <3>3 DEF Own
    <3>4. ASSUME Last(d)
          PROVE  Last(d)'
      <4> SUFFICES ASSUME NEW h \in Grains, NEW i \in 1 .. Len(mailbox'[h]),
                          NEW j \in 1 .. Len(mailbox'[h]), mailbox'[h][i].from = d, i < j
                   PROVE  mailbox'[h][j].user # userID[d]
        BY <1>7 DEF Last
      <4>1. i \in 1 .. Len(mailbox[h]) /\ mailbox[h][i].from = d
        BY <1>2, <3>2
      <4>2. CASE j \in 1 .. Len(mailbox[h]) /\ mailbox'[h][j] = mailbox[h][j]
        BY <3>4, <4>1, <4>2 DEF Last
      <4>3. CASE mailbox'[h][j] = [op |-> op, user |-> u, from |-> c]
        BY <3>1, <4>3
      <4>4. QED
        BY <1>2, <4>2, <4>3
    <3>5. QED
      BY <3>3, <3>4
  <2>2. QED
    BY <1>5, <2>1, SameView DEF EInv, Member, Online
<1>13. QED
  BY <1>8, <1>9, <1>10, <1>11, <1>12 DEF EInv

\* Requests that were in the mailboxes before stay signed.
LEMMA SignedKept ==
  ASSUME Signed, UNCHANGED <<userID, call>>,
         \A h \in Grains : \A i \in 1 .. Len(mailbox'[h]) :
           \E k \in 1 .. Len(mailbox[h]) : mailbox'[h][i] = mailbox[h][k]
  PROVE  Signed'
<1>1. \A h \in Grains : \A i \in 1 .. Len(mailbox'[h]) :
        /\ h \in Users => mailbox'[h][i].user = h
        /\ mailbox'[h][i].from # None =>
             /\ mailbox'[h][i].user = userID'[mailbox'[h][i].from]
             /\ call'[mailbox'[h][i].from] = [op |-> mailbox'[h][i].op, grain |-> h]
  <2> TAKE h \in Grains
  <2> TAKE i \in 1 .. Len(mailbox'[h])
  <2>1. PICK k \in 1 .. Len(mailbox[h]) : mailbox'[h][i] = mailbox[h][k]
    OBVIOUS
  <2>2. QED
    BY <2>1 DEF Signed
<1>2. QED
  BY ONLY <1>1 DEF Signed

\* What becomes of the users that are online and of the members of the rooms
\* when a grain takes a request.
Onlined(g, op) ==
  \A u \in Users :
    online'[u] = IF g = u /\ op \in {"Login", "Logout"} THEN op = "Login" ELSE online[u]

Membered(g, op, outcome) ==
  \A r \in Rooms :
    members'[r] = IF g # r \/ op \notin {"Join", "Leave"} \/ outcome = "refused"
                  THEN members[r]
                  ELSE IF op = "Join" THEN members[r] \cup {Head(mailbox[g]).user}
                                      ELSE members[r] \ {Head(mailbox[g]).user}

\* Only one is let in who becomes a member, or is online from then on.
LetIn(g, op, outcome) ==
  \A c \in Conns : \A h \in Grains :
    <<c, h>> \in forgotten =>
      <<c, h>> \in forgotten' \/ (op \in {"Login", "Join"} /\ outcome = "ok"
                                   /\ h = g /\ c = Head(mailbox[g]).from)

\* A grain handles a request.
LEMMA TakeView ==
  ASSUME IInv, EInv, NEW g \in Grains, NEW op \in Ops, NEW outcome \in {"ok", "refused"},
         Take(g, op, outcome), Onlined(g, op), Membered(g, op, outcome), LetIn(g, op, outcome)
  PROVE  EInv'
<1>1. /\ Len(mailbox[g]) \in Nat \ {0} /\ 1 \in 1 .. Len(mailbox[g])
      /\ Head(mailbox[g]) = mailbox[g][1] /\ Head(mailbox[g]) \in Request
      /\ \A h \in Grains : \A i \in 1 .. Len(mailbox'[h]) :
           LET k == IF h = g THEN i + 1 ELSE i
           IN k \in 1 .. Len(mailbox[h]) /\ mailbox'[h][i] = mailbox[h][k]
  BY TakeFacts DEF IInv
<1> PICK m \in Request : m = mailbox[g][1] /\ m = Head(mailbox[g])
  BY <1>1
<1>2. /\ reply' = [c \in Conns |-> IF c = m.from THEN outcome ELSE reply[c]]
      /\ UNCHANGED <<clients, userID, currentRoom, pc, call, disturbed>>
      /\ m.op = op
  BY DEF Take, clientVars
<1>3. \A h \in Grains : Len(mailbox[h]) \in Nat
  BY DEF IInv, TypeOK
<1>4. Signed'
  <2>1. Signed /\ UNCHANGED <<userID, call>>
    BY <1>2 DEF EInv
  <2>2. \A h \in Grains : \A i \in 1 .. Len(mailbox'[h]) :
          \E k \in 1 .. Len(mailbox[h]) : mailbox'[h][i] = mailbox[h][k]
    BY <1>1
  <2>3. QED
    BY ONLY <2>1, <2>2, SignedKept
<1>5. Alone' /\ Fresh'
  BY <1>2 DEF EInv, Alone, Fresh, Open
<1>6. g \in Users => m.user = g
  <2>1. \A i \in 1 .. Len(mailbox[g]) : g \in Users => mailbox[g][i].user = g
    BY DEF EInv, Signed
  <2>2. m = mailbox[g][1]
    OBVIOUS
  <2>3. QED
    BY <1>1, <2>1, <2>2
<1>7. \A r \in Rooms : \A u \in Users :
         /\ u \in members[r] /\ (op = "Leave" /\ g = r => m.user # u) => u \in members'[r]
         /\ outcome = "ok" /\ op = "Join" /\ g = r => m.user \in members'[r]
  <2>1. m = Head(mailbox[g])
    OBVIOUS
  <2>2. QED
    BY <2>1 DEF Membered
<1>8. ASSUME NEW d \in Conns
      PROVE  (\A h \in Grains : Own(d, h) => Own(d, h)') /\ (Last(d) => Last(d)')
  <2>1. \A h \in Grains : Own(d, h) => Own(d, h)'
    BY <1>1, <1>2 DEF Own
  <2>2. ASSUME Last(d)
        PROVE  Last(d)'
    <3> SUFFICES ASSUME NEW h \in Grains, NEW i \in 1 .. Len(mailbox'[h]),
                        NEW j \in 1 .. Len(mailbox'[h]), mailbox'[h][i].from = d, i < j
                 PROVE  mailbox'[h][j].user # userID[d]
      BY <1>2 DEF Last
    <3> DEFINE s(n) == IF h = g THEN n + 1 ELSE n
    <3>1. /\ s(i) \in 1 .. Len(mailbox[h]) /\ mailbox'[h][i] = mailbox[h][s(i)]
          /\ s(j) \in 1 .. Len(mailbox[h]) /\ mailbox'[h][j] = mailbox[h][s(j)]
          /\ s(i) < s(j)
      BY <1>1
    <3> HIDE DEF s
    <3>2. QED
      BY <2>2, <3>1 DEF Last
  <2>3. QED
    BY <2>1, <2>2
<1>9. ASSUME NEW d \in Conns, d # m.from
      PROVE  View(d)'
  <2>1. reply'[d] = reply[d]
    BY <1>2, <1>9
  <2> \A h \in Grains : <<d, h>> \in forgotten => <<d, h>> \in forgotten'
    BY <1>1, <1>9 DEF LetIn
  <2>2. ASSUME NEW r \in Rooms, Own(d, r), Member(d, r)
        PROVE  Member(d, r)'
    <3>1. CASE <<d, r>> \in forgotten
      BY <3>1 DEF Member, Grains
    <3>2. CASE userID[d] \in members[r]
      <4>1. g = r => m.user # userID[d]
        BY <1>1, <1>9, <2>2 DEF Own
      <4>2. userID[d] \in Users
        BY <3>2 DEF IInv, TypeOK
      <4>3. QED
        BY <1>2, <1>7, <3>2, <4>1, <4>2 DEF Member
    <3>3. QED
      BY <2>2, <3>1, <3>2 DEF Member
  <2>3. ASSUME NEW u \in Users, userID[d] = u, Own(d, u), Online(d, u)
        PROVE  Online(d, u)'
    <3>1. g # u
      BY <1>1, <1>6, <1>9, <2>3 DEF Own
    <3>2. CASE <<d, u>> \in forgotten
      BY <3>2 DEF Online, Grains
    <3>3. QED
      BY <2>3, <3>1, <3>2 DEF Online, Onlined
  <2>4. View(d)
    BY DEF EInv
  <2>5. QED
    BY <1>2, <1>8, <2>1, <2>2, <2>3, <2>4, SameView
<1>10. ASSUME NEW d \in Conns, d = m.from
      PROVE  View(d)'
  <2> SUFFICES ASSUME Open(d), userID[d] # None, ~disturbed[d]
               PROVE  Last(d)' /\ Aims(d)' /\ InRoom(d)' /\ IsOnline(d)'
    BY <1>2 DEF View, Open
  <2>1. Last(d) /\ Aims(d) /\ InRoom(d) /\ IsOnline(d)
    BY DEF EInv, View
  <2>2. d # None
    BY GatewayAssumption
  <2>3. pc[d] = "waiting" /\ reply[d] = None
    BY <1>1, <1>10, <2>2 DEF IInv, Outstanding
  <2>4. m.user = userID[d] /\ call[d] = [op |-> op, grain |-> g]
    BY <1>1, <1>2, <1>10, <2>2 DEF EInv, Signed
  <2>5. call[d] # None /\ call[d].op = op /\ call[d].grain = g
    BY <2>3, <2>4 DEF IInv, TypeOK
  <2>6. reply'[d] = outcome /\ reply'[d] # None /\ call'[d] = call[d] /\ userID'[d] = userID[d]
    BY <1>2, <1>10, GatewayAssumption
  <2>7. Own(d, g)'
    <3> SUFFICES ASSUME NEW i \in 1 .. Len(mailbox'[g]), mailbox'[g][i].user = userID[d]
                 PROVE  FALSE
      BY <2>6 DEF Own
    <3>1. /\ i + 1 \in 1 .. Len(mailbox[g]) /\ 1 < i + 1
          /\ mailbox[g][i + 1].user = userID[d]
      BY <1>1
    <3>2. QED
      BY <1>1, <1>10, <2>1, <3>1 DEF Last
  <2>8. Last(d)'
    BY <1>8, <2>1
  <2>9. Aims(d)'
    BY <1>2, <2>1 DEF Aims
  <2>10. InRoom(d)'
    <3> SUFFICES ASSUME NEW r \in Rooms
                 PROVE  /\ currentRoom[d] = r =>
                             Own(d, r)' /\ (Member(d, r)' \/ op = "Leave")
                        /\ outcome = "ok" /\ op = "Join" /\ g = r =>
                             Own(d, r)' /\ Member(d, r)'
      BY <1>2, <2>5, <2>6 DEF InRoom
    <3>1. r \in Grains
      BY DEF Grains
    <3>2. currentRoom[d] = r => Own(d, r)' /\ Member(d, r)
      BY <1>8, <2>1, <2>3, <3>1 DEF InRoom
    <3>3. outcome = "ok" /\ op = "Join" /\ g = r => Member(d, r)'
      BY <1>7, <2>4, <2>6 DEF IInv, TypeOK, Member
    <3>4. ASSUME op # "Leave", Member(d, r)
          PROVE  Member(d, r)'
      <4>1. CASE userID[d] \in members[r]
        BY <1>7, <2>6, <3>4, <4>1 DEF IInv, TypeOK, Member
      <4>2. CASE <<d, r>> \in forgotten /\ <<d, r>> \in forgotten'
        BY <4>2 DEF Member
      <4>3. CASE <<d, r>> \in forgotten /\ <<d, r>> \notin forgotten'
        <5>1. op \in {"Login", "Join"} /\ outcome = "ok" /\ r = g
          BY <3>1, <4>3 DEF LetIn
        <5>2. op = "Join"
          BY <2>5, <5>1, GatewayAssumption DEF IInv, CallsMatch
        <5>3. QED
          BY <3>3, <5>1, <5>2
      <4>4. QED
        BY <3>4, <4>1, <4>2, <4>3 DEF Member
    <3>5. QED
      BY <2>7, <3>2, <3>3, <3>4
  <2>11. IsOnline(d)'
    <3> SUFFICES ASSUME NEW u \in Users, userID[d] = u, clients[u] = d
                 PROVE  Own(d, u)' /\ (Online(d, u)' \/ op = "Logout")
      BY <1>2, <2>5, <2>6 DEF IsOnline
    <3>1. u \in Grains
      BY DEF Grains
    <3>2. CASE op \in {"Login", "Logout"}
      <4>1. g = u
        BY <2>1, <2>3, <2>5, <3>2 DEF Aims
      <4>2. QED
        BY <2>7, <3>2, <4>1 DEF Online, Onlined
    <3>3. CASE op \in {"Join", "Leave"}
      <4>1. Own(d, u) /\ Online(d, u)
        BY <2>1, <2>3, <2>5, <3>3 DEF IsOnline
      <4>2. op = "Join" /\ outcome = "ok" => g # u
        BY <2>5, GatewayAssumption DEF IInv, CallsMatch
      <4>3. Online(d, u)'
        BY <3>1, <3>3, <4>1, <4>2 DEF Online, Onlined, LetIn
      <4>4. QED
        BY <1>8, <3>1, <4>1, <4>3
    <3>4. QED
      BY <3>2, <3>3 DEF Ops
  <2>12. QED
    BY <2>8, <2>9, <2>10, <2>11
<1>11. QED
  BY <1>4, <1>5, <1>9, <1>10 DEF EInv

\* A reply arrives, with what the handlers of the gateway make of it.
LEMMA ReturnView ==
  ASSUME IInv, EInv, NEW c \in Conns, NEW op \in Ops, NEW outcome \in {"ok", "refused"},
         NEW next \in {"reading", "leaving", "subscribing"},
         Return(c, op, outcome, next), userID' = userID,
         IF op = "Logout" THEN Unregister(c) ELSE clients' = clients,
         CASE op = "Join" /\ outcome = "ok" ->
                currentRoom' = [currentRoom EXCEPT ![c] = call[c].grain]
           [] op = "Leave" -> currentRoom' = [currentRoom EXCEPT ![c] = None]
           [] OTHER -> currentRoom' = currentRoom
  PROVE  EInv'
<1>1. /\ pc[c] = "waiting" /\ reply[c] = outcome /\ outcome # None
      /\ call[c] # None /\ call[c].op = op
      /\ pc' = [pc EXCEPT ![c] = next]
      /\ call' = [call EXCEPT ![c] = None]
      /\ reply' = [reply EXCEPT ![c] = None]
      /\ UNCHANGED <<mailbox, online, members, disturbed, forgotten>>
  BY GatewayAssumption DEF Return, grainVars
<1>2. /\ pc'[c] \in {"reading", "leaving", "subscribing"} /\ call'[c] = None /\ reply'[c] = None
      /\ \A d \in Conns \ {c} :
           /\ pc'[d] = pc[d] /\ call'[d] = call[d] /\ reply'[d] = reply[d]
           /\ currentRoom'[d] = currentRoom[d]
  BY <1>1 DEF IInv, TypeOK, Ops
<1>3. userID[c] \in Users
  BY <1>1 DEF EInv, Fresh, IInv, TypeOK
<1>4. /\ \A g \in Grains : \A i \in 1 .. Len(mailbox[g]) : mailbox[g][i].from # c
      /\ \A g \in Grains : \A i \in 1 .. Len(mailbox[g]) :
           mailbox[g][i].from # None => mailbox[g][i].from \in Conns
  BY <1>1, NoneOutstanding, Callers
<1>5. \A d \in Conns : \A u \in Users : clients'[u] = d => clients[u] = d
  BY <1>3, GatewayAssumption DEF Unregister, IInv, TypeOK
<1>6. Signed'
  BY <1>1, <1>2, <1>4 DEF EInv, Signed
<1>7. Alone'
  BY <1>1, <1>2 DEF EInv, Alone, Open
<1>8. Fresh'
  BY <1>1, <1>2, <1>3, GatewayAssumption DEF EInv, Fresh
<1>9. \A d \in Conns : \A g \in Grains : Own(d, g) => Own(d, g)'
  BY <1>1 DEF Own
<1>10. ASSUME NEW d \in Conns \ {c}
       PROVE  View(d)'
  <2>1. Last(d) => Last(d)'
    BY <1>1 DEF Last
  <2>2. View(d)
    BY DEF EInv
  <2>3. QED
    BY <1>1, <1>2, <1>5, <1>9, <2>1, <2>2, SameView DEF Member, Online
<1>11. View(c)'
  <2> SUFFICES ASSUME ~disturbed[c]
               PROVE  Last(c)' /\ Aims(c)' /\ InRoom(c)' /\ IsOnline(c)'
    BY <1>1 DEF View
  <2>1. Open(c) /\ userID[c] # None
    BY <1>1, <1>3, GatewayAssumption DEF Open
  <2>2. InRoom(c) /\ IsOnline(c)
    BY <2>1 DEF EInv, View
  <2>3. Last(c)'
    BY <1>1, <1>4 DEF Last
  <2>4. Aims(c)'
    BY <1>2 DEF Aims
  <2>5. InRoom(c)'
    <3> SUFFICES ASSUME NEW r \in Rooms, currentRoom'[c] = r
                 PROVE  Own(c, r)' /\ Member(c, r)
      BY <1>1, <1>2, GatewayAssumption DEF InRoom, Member
    <3>1. r \in Grains /\ r # None
      BY GatewayAssumption DEF Grains
    <3>2. CASE op = "Join" /\ outcome = "ok"
      <4>1. call[c].grain = r
        BY <3>2 DEF IInv, TypeOK
      <4>2. QED
        BY <1>1, <1>9, <2>2, <3>1, <3>2, <4>1 DEF InRoom
    <3>3. CASE op # "Leave" /\ ~(op = "Join" /\ outcome = "ok")
      <4>1. currentRoom[c] = r
        BY <3>3
      <4>2. QED
        BY <1>1, <1>9, <2>2, <3>1, <3>3, <4>1 DEF InRoom
    <3>4. CASE op = "Leave"
      BY <3>1, <3>4 DEF IInv, TypeOK
    <3>5. QED
      BY <3>2, <3>3, <3>4
  <2>6. IsOnline(c)'
    <3> SUFFICES ASSUME NEW u \in Users, userID[c] = u, clients'[u] = c
                 PROVE  Own(c, u)' /\ Online(c, u)
      BY <1>1 DEF IsOnline, Online
    <3>1. u \in Grains
      BY DEF Grains
    <3>2. op # "Logout"
      BY GatewayAssumption DEF Unregister, IInv, TypeOK
    <3>3. QED
      BY <1>1, <1>9, <2>2, <3>1, <3>2 DEF IsOnline
  <2>7. QED
    BY <2>3, <2>4, <2>5, <2>6
<1>12. QED
  BY <1>6, <1>7, <1>8, <1>10, <1>11 DEF EInv

\* A step of one connection that moves no request: it is enough to look at that
\* connection and at those of the same user.
LEMMA LocalStep ==
  ASSUME IInv, EInv, NEW c \in Conns,
         \A g \in Grains : \A i \in 1 .. Len(mailbox[g]) : mailbox[g][i].from # c,
         UNCHANGED <<currentRoom, reply, mailbox, online, members, forgotten>>,
         \A d \in Conns \ {c} :
           pc'[d] = pc[d] /\ call'[d] = call[d] /\ userID'[d] = userID[d],
         \A d \in Conns : disturbed[d] => disturbed'[d],
         \A d \in Conns \ {c} : ~disturbed'[d] =>
           \A u \in Users : userID[d] = u /\ clients'[u] = d => clients[u] = d
  PROVE  /\ Signed'
         /\ \A d \in Conns \ {c} : View(d)'
<1>1. Signed'
  BY Callers DEF EInv, Signed
<1>2. ASSUME NEW d \in Conns \ {c}
      PROVE  View(d)'
  <2>1. /\ \A g \in Grains : Own(d, g) => Own(d, g)'
        /\ Last(d) => Last(d)'
    BY DEF Own, Last
  <2>2. View(d)
    BY DEF EInv
  <2>3. CASE disturbed'[d]
    BY <2>3 DEF View
  <2>4. CASE ~disturbed'[d]
    BY <2>1, <2>2, <2>4, SameView DEF Member, Online
  <2>5. QED
    BY <2>3, <2>4
<1>3. QED
  BY <1>1, <1>2

\* Five seconds pass, and what the gateway thinks may be wrong from then on.
LEMMA TimeOutView ==
  ASSUME IInv, EInv, NEW c \in Conns, TimeOut(c)
  PROVE  EInv'
<1>1. /\ pc[c] = "waiting"
      /\ pc' = [pc EXCEPT ![c] = IF call[c].op = "Logout" THEN "leaving" ELSE "reading"]
      /\ call' = [call EXCEPT ![c] = None]
      /\ reply' = [reply EXCEPT ![c] = None]
      /\ disturbed' = [disturbed EXCEPT ![c] = TRUE]
      /\ UNCHANGED <<clients, userID, currentRoom, online, members, forgotten>>
  BY DEF TimeOut, clientVars
<1>2. /\ pc'[c] \in {"reading", "leaving"} /\ disturbed'[c]
      /\ \A d \in Conns \ {c} :
           /\ pc'[d] = pc[d] /\ call'[d] = call[d] /\ reply'[d] = reply[d]
           /\ disturbed'[d] = disturbed[d]
  BY <1>1 DEF IInv, TypeOK
<1>3. \A g \in Grains :
        /\ Len(mailbox'[g]) = Len(mailbox[g])
        /\ \A i \in 1 .. Len(mailbox[g]) :
             /\ mailbox'[g][i].op = mailbox[g][i].op
             /\ mailbox'[g][i].user = mailbox[g][i].user
             /\ mailbox'[g][i].from =
                  IF mailbox[g][i].from = c THEN None ELSE mailbox[g][i].from
  BY ForgetFacts DEF TimeOut, IInv
<1>4. \A g \in Grains : \A i \in 1 .. Len(mailbox[g]) :
        mailbox[g][i].from # None => mailbox[g][i].from \in Conns
  BY Callers
<1>5. Signed'
  BY <1>1, <1>2, <1>3, <1>4 DEF EInv, Signed
<1>6. Alone'
  BY <1>1, <1>2 DEF EInv, Alone, Open
<1>7. Fresh'
  BY <1>1, <1>2 DEF EInv, Fresh
<1>8. View(c)'
  BY <1>2 DEF View
<1>9. ASSUME NEW d \in Conns \ {c}
      PROVE  View(d)'
  <2>1. d # None /\ d # c
    BY GatewayAssumption
  <2>2. \A g \in Grains : Own(d, g) => Own(d, g)'
    BY <1>1, <1>3, <2>1 DEF Own
  <2>3. Last(d) => Last(d)'
    BY <1>1, <1>3, <2>1 DEF Last
  <2>4. View(d)
    BY DEF EInv
  <2>5. QED
    BY <1>1, <1>2, <2>2, <2>3, <2>4, SameView DEF Member, Online
<1>10. QED
  BY <1>5, <1>6, <1>7, <1>8, <1>9 DEF EInv

\* A join goes on: nothing of the view changes with it.
LEMMA SubscribedView ==
  ASSUME IInv, EInv, NEW c \in Conns, Subscribed(c)
  PROVE  EInv'
<1>1. /\ pc[c] = "subscribing" /\ pc' = [pc EXCEPT ![c] = "reading"]
      /\ UNCHANGED <<clients, userID, currentRoom, call, reply, mailbox, online, members,
                     disturbed, forgotten>>
  BY DEF Subscribed, clientVars, grainVars
<1>2. /\ pc'[c] = "reading" /\ call[c] = None
      /\ \A d \in Conns \ {c} : pc'[d] = pc[d]
  BY <1>1 DEF IInv, TypeOK
<1>3. \A g \in Grains : \A i \in 1 .. Len(mailbox[g]) : mailbox[g][i].from # c
  BY <1>1, NoneOutstanding
<1>4. /\ Signed'
      /\ \A d \in Conns \ {c} : View(d)'
  BY <1>1, <1>2, <1>3, LocalStep
<1>5. Alone' /\ Fresh'
  BY <1>1, <1>2 DEF EInv, Alone, Fresh, Open
<1>6. View(c)'
  <2> SUFFICES ASSUME userID[c] # None, ~disturbed[c]
               PROVE  Last(c)' /\ Aims(c)' /\ InRoom(c)' /\ IsOnline(c)'
    BY <1>1 DEF View
  <2>1. Last(c) /\ InRoom(c) /\ IsOnline(c)
    BY <1>1 DEF EInv, View, Open
  <2>2. Last(c)' /\ Aims(c)'
    BY <1>1, <1>2, <2>1 DEF Last, Aims
  <2>3. InRoom(c)' /\ IsOnline(c)'
    BY <1>1, <1>2, <2>1 DEF InRoom, IsOnline, Own, Member, Online
  <2>4. QED
    BY <2>2, <2>3
<1>7. QED
  BY <1>4, <1>5, <1>6 DEF EInv

\* A grain begins anew: whoever counted on it is noted as forgotten, and the
\* requests that are left belong to other grains.
LEMMA ReactivateView ==
  ASSUME IInv, EInv, NEW g \in Grains, Reactivate(g)
  PROVE  EInv'
<1>1. /\ mailbox' = [mailbox EXCEPT ![g] = << >>]
      /\ UNCHANGED <<clients, userID, currentRoom, pc, call, reply, disturbed>>
  BY DEF Reactivate, clientVars
<1>2. /\ Len(mailbox'[g]) = 0
      /\ \A h \in Grains \ {g} : mailbox'[h] = mailbox[h]
  BY <1>1 DEF IInv, TypeOK
<1>3. \A h \in Grains : \A i \in 1 .. Len(mailbox'[h]) : h # g /\ mailbox'[h] = mailbox[h]
  BY <1>2
<1>4. Signed'
  BY <1>1, <1>3 DEF EInv, Signed
<1>5. Alone' /\ Fresh'
  BY <1>1 DEF EInv, Alone, Fresh, Open
<1>6. ASSUME NEW d \in Conns
      PROVE  View(d)'
  <2>1. \A h \in Grains : Own(d, h) => Own(d, h)'
    BY <1>1, <1>3 DEF Own
  <2>2. Last(d) => Last(d)'
    BY <1>1, <1>3 DEF Last
  <2>3. /\ forgotten \subseteq forgotten' /\ <<d, g>> \in forgotten'
        /\ \A r \in Rooms : r # g => members'[r] = members[r]
        /\ \A u \in Users : u # g => online'[u] = online[u]
    BY DEF Reactivate, IInv, TypeOK
  <2>4. /\ \A r \in Rooms : Member(d, r) => Member(d, r)'
        /\ \A u \in Users : Online(d, u) => Online(d, u)'
    BY <1>1, <2>3 DEF Member, Online
  <2>5. View(d)
    BY DEF EInv
  <2>6. QED
    BY <1>1, <2>1, <2>2, <2>4, <2>5, SameView
<1>7. QED
  BY <1>4, <1>5, <1>6 DEF EInv

\* handleLogin registers the connection, and every other one of its user is
\* disturbed by it.
LEMMA RegisterView ==
  ASSUME IInv, EInv, NEW c \in Conns, LoginRegister(c)
  PROVE  EInv'
<1> DEFINE v == call[c].grain
           others == {d \in Conns \ {c} : Open(d) /\ userID[d] = v}
<1>1. v \in Users /\ v # None /\ userID[c] = None /\ pc[c] = "checked" /\ reply[c] = None
  BY GatewayAssumption DEF LoginRegister, IInv, TypeOK, CallsMatch, Anonymous
<1>2. /\ userID' = [userID EXCEPT ![c] = v]
      /\ clients' = [clients EXCEPT ![v] = c]
      /\ pc' = [pc EXCEPT ![c] = "registered"]
      /\ disturbed' = [d \in Conns |-> disturbed[d] \/ d \in others \/ (d = c /\ others # {})]
      /\ UNCHANGED <<currentRoom, call, reply, mailbox, online, members, forgotten>>
  BY DEF LoginRegister, grainVars
<1>3. /\ pc'[c] = "registered" /\ userID'[c] = v
      /\ \A d \in Conns \ {c} : pc'[d] = pc[d] /\ userID'[d] = userID[d]
  BY <1>2 DEF IInv, TypeOK
<1>4. /\ \A d \in Conns : disturbed[d] => disturbed'[d]
      /\ \A d \in Conns \ {c} : Open(d) /\ userID[d] = v => disturbed'[d] /\ disturbed'[c]
  BY <1>2
<1> HIDE DEF v, others
<1>5. \A g \in Grains : \A i \in 1 .. Len(mailbox[g]) : mailbox[g][i].from # c
  BY <1>1, NoneOutstanding
<1>6. currentRoom'[c] = None
  BY <1>1, <1>2 DEF EInv, Fresh
<1>7. \A d \in Conns \ {c} : \A u \in Users :
        userID[d] = u /\ clients'[u] = d => clients[u] = d
  BY <1>1, <1>2 DEF IInv, TypeOK
<1>8. /\ Signed'
      /\ \A d \in Conns \ {c} : View(d)'
  BY <1>2, <1>3, <1>4, <1>5, <1>7, LocalStep
<1>9. Alone'
  BY <1>1, <1>3, <1>4 DEF EInv, Alone, Open
<1>10. Fresh'
  BY <1>1, <1>2, <1>3, <1>6 DEF EInv, Fresh
<1>11. View(c)'
  <2>1. Last(c)'
    BY <1>2, <1>5 DEF Last
  <2>2. Aims(c)' /\ IsOnline(c)'
    BY <1>3 DEF Aims, IsOnline
  <2>3. InRoom(c)'
    BY <1>1, <1>2, <1>6, GatewayAssumption DEF InRoom
  <2>4. QED
    BY <2>1, <2>2, <2>3 DEF View
<1>12. QED
  BY <1>8, <1>9, <1>10, <1>11 DEF EInv

\* A step of an idle connection that calls no grain.
LEMMA IdleView ==
  ASSUME IInv, EInv, NEW c \in Conns,
         Connect(c) \/ (\E u \in Users : LoginCheck(c, u)) \/ Disconnect(c)
  PROVE  EInv'
<1>1. /\ pc[c] \in {"new", "connected", "reading", "leaving"}
      /\ UNCHANGED <<userID, currentRoom, reply, mailbox, online, members, disturbed, forgotten>>
      /\ \A d \in Conns \ {c} : pc'[d] = pc[d] /\ call'[d] = call[d]
  BY DEF Connect, LoginCheck, Disconnect, Reading, clientVars, grainVars, IInv, TypeOK
<1>2. \/ userID[c] = None /\ pc'[c] \in {"connected", "checked", "reading"}
      \/ pc'[c] = "closed"
  BY DEF Connect, LoginCheck, Disconnect, IInv, TypeOK, Anonymous
<1>3. \A d \in Conns : \A u \in Users : clients'[u] = d => clients[u] = d
  BY GatewayAssumption DEF Connect, LoginCheck, Disconnect, Unregister, IInv, TypeOK
<1>4. \A g \in Grains : \A i \in 1 .. Len(mailbox[g]) : mailbox[g][i].from # c
  BY <1>1, NoneOutstanding
<1>5. /\ Signed'
      /\ \A d \in Conns \ {c} : View(d)'
  BY <1>1, <1>3, <1>4, LocalStep
<1>6. Alone'
  BY <1>1, <1>2 DEF EInv, Alone, Open
<1>7. Fresh'
  BY <1>1, <1>2 DEF EInv, Fresh
<1>8. View(c)'
  BY <1>1, <1>2 DEF View, Open
<1>9. QED
  BY <1>5, <1>6, <1>7, <1>8 DEF EInv

\* Before the first connection is opened there is nothing to disagree about.
LEMMA InitiallyAgreed == Init => EInv
<1> SUFFICES ASSUME Init PROVE EInv
  OBVIOUS
<1>1. \A g \in Grains : Len(mailbox[g]) = 0
  BY DEF Init
<1>2. \A c \in Conns : pc[c] = "new" /\ userID[c] = None /\ currentRoom[c] = None
  BY DEF Init
<1>3. QED
  BY <1>1, <1>2 DEF EInv, Signed, Alone, Fresh, View, Open

\* Every step of a connection or a grain keeps them agreed.
LEMMA StaysAgreed == IInv /\ EInv /\ [Next]_vars => EInv'
<1> SUFFICES ASSUME IInv, EInv, [Next]_vars PROVE EInv'
  OBVIOUS
<1> USE DEF Ops, Grains
<1>1. ASSUME NEW u \in Users, HandleLogin(u) \/ HandleLogout(u)
      PROVE  EInv'
  <2>1. PICK op \in {"Login", "Logout"} :
          /\ Take(u, op, "ok") /\ members' = members
          /\ online' = [online EXCEPT ![u] = (op = "Login")]
          /\ forgotten' = IF op = "Login" THEN forgotten \ {<<Head(mailbox[u]).from, u>>}
                          ELSE forgotten
    BY <1>1 DEF HandleLogin, HandleLogout
  <2>2. /\ \A v \in Users : online'[v] = IF u = v THEN op = "Login" ELSE online[v]
        /\ \A r \in Rooms : members'[r] = members[r]
    BY <2>1 DEF IInv, TypeOK
  <2>3. op \in Ops /\ u \in Grains /\ \A r \in Rooms : u # r
    BY GatewayAssumption
  <2>4. Onlined(u, op)
    BY ONLY <2>2, op \in {"Login", "Logout"} DEF Onlined
  <2>5. Membered(u, op, "ok")
    BY ONLY <2>2, <2>3 DEF Membered
  <2>6. LetIn(u, op, "ok")
    BY ONLY <2>1 DEF LetIn
  <2>7. QED
    BY ONLY IInv, EInv, <2>1, <2>3, <2>4, <2>5, <2>6, TakeView
<1>2. ASSUME NEW r \in Rooms, HandleJoin(r) \/ HandleLeave(r)
      PROVE  EInv'
  <2>1. PICK op \in {"Join", "Leave"}, outcome \in {"ok", "refused"} :
          /\ Take(r, op, outcome) /\ online' = online
          /\ members' = IF outcome = "refused" THEN members
                        ELSE IF op = "Join"
                             THEN [members EXCEPT ![r] = @ \cup {Head(mailbox[r]).user}]
                             ELSE [members EXCEPT ![r] = @ \ {Head(mailbox[r]).user}]
          /\ forgotten' = IF op = "Join" /\ outcome = "ok"
                          THEN forgotten \ {<<Head(mailbox[r]).from, r>>} ELSE forgotten
    BY <1>2 DEF HandleJoin, HandleLeave
  <2>2. Onlined(r, op)
    BY <2>1 DEF Onlined
  <2>3. Membered(r, op, outcome)
    BY <2>1 DEF Membered, IInv, TypeOK
  <2>4. op \in Ops /\ r \in Grains /\ op # "Login"
    OBVIOUS
  <2>5. LetIn(r, op, outcome)
    BY ONLY <2>1 DEF LetIn
  <2>6. QED
    BY ONLY IInv, EInv, outcome \in {"ok", "refused"}, <2>1, <2>2, <2>3, <2>4, <2>5, TakeView
<1>3. ASSUME NEW c \in Conns, Client(c)
      PROVE  EInv'
  <2>1. ASSUME NEW r \in Rooms, JoinRequest(c, r)
        PROVE  EInv'
    <3>1. PICK u \in Users : u = userID[c] /\ Post(c, "Join", r, u)
      BY <2>1 DEF JoinRequest, IInv, TypeOK
    <3>2. QED
      BY <2>1, <3>1, PostView DEF JoinRequest
  <2>2. CASE LogoutRequest(c)
    <3>1. PICK u \in Users : u = userID[c] /\ Post(c, "Logout", u, u)
      BY <2>2 DEF LogoutRequest, IInv, TypeOK
    <3>2. QED
      BY <2>2, <3>1, PostView DEF LogoutRequest
  <2>3. CASE LeaveRequest(c)
    <3>1. PICK u \in Users, r \in Rooms :
            u = userID[c] /\ r = currentRoom[c] /\ Post(c, "Leave", r, u)
      BY <2>3 DEF LeaveRequest, IInv, TypeOK
    <3>2. QED
      BY <2>3, <3>1, PostView DEF LeaveRequest
  <2>4. QED
    BY <1>3, <2>1, <2>2, <2>3, IdleView DEF Client
<1>4. ASSUME NEW c \in Conns, Handler(c)
      PROVE  EInv'
  <2>1. CASE LoginRequest(c)
    <3>1. PICK u \in Users : u = userID[c] /\ Post(c, "Login", u, u)
      BY <2>1 DEF LoginRequest, IInv, TypeOK, Anonymous
    <3>2. QED
      BY <2>1, <3>1, PostView DEF LoginRequest
  <2>2. CASE LoginReturn(c)
    BY <2>2, ReturnView DEF LoginReturn, clientVars
  <2>3. CASE LogoutReturn(c)
    BY <2>3, ReturnView DEF LogoutReturn, clientVars
  <2>4. CASE JoinReturn(c)
    BY <2>4, ReturnView DEF JoinReturn
  <2>5. CASE JoinRefused(c)
    BY <2>5, ReturnView DEF JoinRefused, clientVars
  <2>6. CASE LeaveReturn(c)
    BY <2>6, ReturnView DEF LeaveReturn
  <2>7. QED
    BY <1>4, <2>1, <2>2, <2>3, <2>4, <2>5, <2>6, RegisterView, SubscribedView, TimeOutView
    DEF Handler, Returns
<1>5. CASE UNCHANGED vars
  BY <1>5 DEF vars, clientVars, grainVars, EInv, Signed, Alone, Fresh, View, Open, Own, Last,
              Aims, InRoom, IsOnline, Member, Online
<1>6. QED
  BY <1>1, <1>2, <1>3, <1>4, <1>5, ReactivateView DEF Next, Grain

\* A client that believes it is in a room is one of the room's members, unless
\* a request of its own timed out, its user logged in twice, or the room has been
\* activated again since the client last joined it.
THEOREM RoomViewsAreExact == Spec => []RoomViewExact
<1>1. Spec => [](IInv /\ EInv)
  BY Initially, Inductive, InitiallyAgreed, StaysAgreed, PTL DEF Spec
<1>2. IInv /\ EInv => RoomViewExact
  <2> SUFFICES ASSUME IInv, EInv, NEW c \in Conns, NEW r \in Rooms,
                      currentRoom[c] = r, pc[c] \in Reading, ~disturbed[c],
                      <<c, r>> \notin forgotten
               PROVE  userID[c] \in members[r]
    BY DEF RoomViewExact
  <2>1. Open(c) /\ userID[c] # None /\ reply[c] = None
    BY GatewayAssumption DEF Open, Reading, IInv, TypeOK, EInv, Fresh
  <2>2. QED
    BY <2>1 DEF EInv, View, InRoom, Member
<1>3. QED
  BY <1>1, <1>2, PTL

\* A user the gateway has registered is online for its UserGrain, under the same
\* conditions: the UserGrain has not been activated again since the login.
THEOREM RegisteredAreOnline == Spec => []OnlineExact
<1>1. Spec => [](IInv /\ EInv)
  BY Initially, Inductive, InitiallyAgreed, StaysAgreed, PTL DEF Spec
<1>2. IInv /\ EInv => OnlineExact
  <2> SUFFICES ASSUME IInv, EInv, NEW u \in Users, NEW c \in Conns, clients[u] = c,
                      pc[c] \in Reading, ~disturbed[c], <<c, u>> \notin forgotten
               PROVE  online[u]
    BY GatewayAssumption DEF OnlineExact, IInv, TypeOK
  <2>1. userID[c] = u /\ u # None /\ Open(c) /\ reply[c] = None /\ call[c] = None
    BY GatewayAssumption DEF Open, Reading, IInv, TypeOK, EntryIsLive
  <2>2. pc[c] # "registered"
    BY DEF Reading
  <2>3. QED
    BY <2>1, <2>2 DEF EInv, View, IsOnline, Online
<1>3. QED
  BY <1>1, <1>2, PTL

-----------------------------------------------------------------------------
(* What unregisterClient takes out.                                        *)

\* The goroutine is between its registration and its logout.
LoggedIn(c) == pc[c] \in {"registered", "waiting", "subscribing", "reading"} /\ userID[c] # None

\* A connection that is logged in is the one its user is registered with, unless
\* a request of it timed out or its user was connected twice.
RegistrationKept ==
  \A c \in Conns : LoggedIn(c) /\ ~disturbed[c] => clients[userID[c]] = c

\* An entry goes with its own connection only: whoever else would take it out is
\* connected as the same user.
LEMMA OthersUnregister ==
  ASSUME IInv, EInv, NEW c \in Conns, NEW d \in Conns, c # d, Open(d), Unregister(d),
         LoggedIn(c), ~disturbed[c], clients[userID[c]] = c
  PROVE  clients'[userID[c]] = c
<1>1. Open(c) /\ userID[c] \in Users
  BY DEF LoggedIn, Open, IInv, TypeOK
<1>2. userID[d] = userID[c] => disturbed[c]
  BY <1>1 DEF LoggedIn, EInv, Alone
<1>3. QED
  BY <1>1, <1>2 DEF Unregister, IInv, TypeOK

\* A registration overwrites only entries of users that are connected twice.
LEMMA OthersRegister ==
  ASSUME IInv, EInv, RegistrationKept, NEW d \in Conns, LoginRegister(d)
  PROVE  RegistrationKept'
<1>1. /\ userID' = [userID EXCEPT ![d] = call[d].grain]
      /\ clients' = [clients EXCEPT ![call[d].grain] = d]
      /\ pc' = [pc EXCEPT ![d] = "registered"]
  BY DEF LoginRegister
<1>2. call[d].grain \in Users
  BY DEF LoginRegister, IInv, TypeOK, CallsMatch
<1>3. ASSUME NEW c \in Conns, LoggedIn(c)', ~disturbed'[c]
      PROVE  clients'[userID'[c]] = c
  <2>1. CASE c = d
    BY <1>1, <1>2, <2>1 DEF IInv, TypeOK
  <2>2. CASE c # d
    <3>1. pc'[c] = pc[c] /\ userID'[c] = userID[c]
      BY <1>1, <2>2 DEF IInv, TypeOK
    <3>2. LoggedIn(c) /\ Open(c) /\ userID[c] \in Users
      BY <1>3, <3>1 DEF LoggedIn, Open, IInv, TypeOK
    <3>3. ~disturbed[c] /\ userID[c] # call[d].grain
      BY <1>3, <2>2, <3>2 DEF LoginRegister
    <3>4. clients[userID[c]] = c
      BY <3>2, <3>3 DEF RegistrationKept
    <3>5. QED
      BY <1>1, <3>1, <3>2, <3>3, <3>4 DEF IInv, TypeOK
  <2>3. QED
    BY <2>1, <2>2
<1>4. QED
  BY <1>3 DEF RegistrationKept

\* Nothing but handleLogin and unregisterClient changes who is registered.
LEMMA OthersKeep ==
  ASSUME IInv, RegistrationKept, UNCHANGED <<clients, userID>>,
         \A c \in Conns : LoggedIn(c)' => LoggedIn(c),
         \A c \in Conns : disturbed[c] => disturbed'[c]
  PROVE  RegistrationKept'
<1> SUFFICES ASSUME NEW c \in Conns, LoggedIn(c)', ~disturbed'[c]
             PROVE  clients'[userID'[c]] = c
  BY DEF RegistrationKept
<1>1. LoggedIn(c) /\ ~disturbed[c]
  OBVIOUS
<1>2. QED
  BY <1>1 DEF RegistrationKept

\* The step of one connection c that unregisters, and is then logged in no more.
LEMMA LeavesRegistry ==
  ASSUME IInv, EInv, RegistrationKept, NEW c \in Conns, Open(c), Unregister(c),
         NEW next \in {"leaving", "closed"}, pc' = [pc EXCEPT ![c] = next],
         UNCHANGED <<userID, disturbed>>
  PROVE  RegistrationKept'
<1> SUFFICES ASSUME NEW d \in Conns, LoggedIn(d)', ~disturbed[d]
             PROVE  clients'[userID[d]] = d
  BY DEF RegistrationKept
<1>1. d # c /\ LoggedIn(d)
  BY DEF LoggedIn, IInv, TypeOK
<1>2. clients[userID[d]] = d
  BY <1>1 DEF RegistrationKept
<1>3. QED
  BY <1>1, <1>2, OthersUnregister

\* Every step of a connection or a grain keeps the registrations.
LEMMA StaysRegistered == IInv /\ EInv /\ RegistrationKept /\ [Next]_vars => RegistrationKept'
<1> SUFFICES ASSUME IInv, EInv, RegistrationKept, [Next]_vars PROVE RegistrationKept'
  OBVIOUS
<1>1. ASSUME Grain \/ UNCHANGED vars
      PROVE  RegistrationKept'
  <2>1. UNCHANGED <<clients, userID, pc, disturbed>>
    BY <1>1 DEF Grain, HandleLogin, HandleLogout, HandleJoin, HandleLeave, Reactivate, Take,
                clientVars, vars
  <2>2. QED
    BY <2>1 DEF RegistrationKept, LoggedIn
<1>2. ASSUME NEW c \in Conns, Disconnect(c)
      PROVE  RegistrationKept'
  BY <1>2, LeavesRegistry DEF Disconnect, Open, Reading, clientVars
<1>3. ASSUME NEW c \in Conns, LogoutReturn(c)
      PROVE  RegistrationKept'
  BY <1>3, LeavesRegistry DEF LogoutReturn, Return, Open, clientVars
<1>4. ASSUME NEW c \in Conns, Connect(c) \/ \E u \in Users : LoginCheck(c, u)
      PROVE  RegistrationKept'
  <2>1. UNCHANGED <<clients, userID, disturbed>>
    BY <1>4 DEF Connect, LoginCheck, clientVars
  <2>2. userID[c] = None
    BY <1>4 DEF Connect, LoginCheck, IInv, Anonymous
  <2>3. \A d \in Conns \ {c} : pc'[d] = pc[d]
    BY <1>4 DEF Connect, LoginCheck, IInv, TypeOK
  <2>4. \A d \in Conns : LoggedIn(d)' => LoggedIn(d)
    BY <2>1, <2>2, <2>3 DEF LoggedIn
  <2>5. QED
    BY <2>1, <2>4, OthersKeep
<1>5. ASSUME NEW c \in Conns,
             LogoutRequest(c) \/ (\E r \in Rooms : JoinRequest(c, r)) \/ LeaveRequest(c)
               \/ LoginRequest(c)
      PROVE  RegistrationKept'
  <2>1. /\ UNCHANGED <<clients, userID, disturbed>> /\ pc' = [pc EXCEPT ![c] = "waiting"]
        /\ pc[c] \in {"registered", "reading"}
    BY <1>5 DEF LogoutRequest, JoinRequest, LeaveRequest, LoginRequest, Post, clientVars
  <2>2. \A d \in Conns : LoggedIn(d)' => LoggedIn(d)
    BY <2>1 DEF LoggedIn, IInv, TypeOK
  <2>3. QED
    BY <2>1, <2>2, OthersKeep
<1>6. ASSUME NEW c \in Conns,
             LoginReturn(c) \/ JoinReturn(c) \/ JoinRefused(c) \/ LeaveReturn(c) \/ TimeOut(c)
      PROVE  RegistrationKept'
  <2>1. PICK next \in {"reading", "leaving", "subscribing"} : pc' = [pc EXCEPT ![c] = next]
    BY <1>6 DEF LoginReturn, JoinReturn, JoinRefused, LeaveReturn, Return, TimeOut
  <2>2. UNCHANGED <<clients, userID>> /\ pc[c] = "waiting"
    BY <1>6 DEF LoginReturn, JoinReturn, JoinRefused, LeaveReturn, Return, TimeOut, clientVars
  <2>3. \A d \in Conns : disturbed[d] => disturbed'[d]
    BY <1>6 DEF LoginReturn, JoinReturn, JoinRefused, LeaveReturn, Return, TimeOut, IInv, TypeOK
  <2>4. \A d \in Conns : LoggedIn(d)' => LoggedIn(d)
    BY <2>1, <2>2 DEF LoggedIn, IInv, TypeOK
  <2>5. QED
    BY <2>2, <2>3, <2>4, OthersKeep
<1>7. ASSUME NEW c \in Conns, Subscribed(c)
      PROVE  RegistrationKept'
  <2>1. UNCHANGED <<clients, userID, disturbed>>
    BY <1>7 DEF Subscribed, clientVars
  <2>2. \A d \in Conns : LoggedIn(d)' => LoggedIn(d)
    BY <1>7, <2>1 DEF Subscribed, LoggedIn, IInv, TypeOK
  <2>3. QED
    BY <2>1, <2>2, OthersKeep
<1>8. QED
  BY <1>1, <1>2, <1>3, <1>4, <1>5, <1>6, <1>7, OthersRegister DEF Next, Client, Handler, Returns

\* websocket.go:656 calls a user online whose entry is in wm.clients.  A client
\* that is logged in has its entry, as long as its user is connected once and no
\* request of its own times out: what the violation of OnlineIsRegistered needs
\* is one of these, and nothing that other users do.
THEOREM LoggedInIsRegistered == Spec => []RegistrationKept
<1>1. Spec => [](IInv /\ EInv)
  BY Initially, Inductive, InitiallyAgreed, StaysAgreed, PTL DEF Spec
<1>2. Init => RegistrationKept
  BY DEF Init, RegistrationKept, LoggedIn
<1>3. QED
  BY <1>1, <1>2, StaysRegistered, PTL DEF Spec

\* A reply goes to whoever still waits for it: no handler ever has two requests
\* that may be answered, and none of those is answered already, however many of
\* its earlier ones are handled late.
THEOREM RepliesMeetTheirCalls == Spec => []Outstanding
<1>1. Spec => []IInv
  BY Initially, Inductive, PTL DEF Spec
<1>2. IInv => Outstanding
  BY DEF IInv
<1>3. QED
  BY <1>1, <1>2, PTL
=============================================================================
