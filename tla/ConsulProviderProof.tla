------------------------ MODULE ConsulProviderProof ------------------------
(***************************************************************************)
(* What holds of ConsulProvider for any services, any capacity of the      *)
(* channel, any history and any number of starts.                          *)
(***************************************************************************)
EXTENDS ConsulProvider, TLAPS

\* From moment a to moment b a member has come, gone or changed its health.
Since(a, b) == \E j \in a + 1 .. b : Healths(j) # Healths(a)

\* Each Start has one goroutine, and before the first Stop there is one at most.
Alone ==
  /\ \A w \in Watchers : w > starts => pc[w] = "none"
  /\ ~Closed => starts \in {0, 1} /\ (isRunning <=> starts = 1)

\* After it, goroutines in an update are those that it found there.
Late == Closed => \A w \in Watchers : pc[w] \in Busy => w \in caught

\* Answers are states, no older than the members, nor these than what has been
\* announced; an event that is about to be sent is news.
Ahead ==
  /\ \A w \in Watchers : pc[w] \in {"diff", "send"} => answer[w] # 0
  /\ ~Closed =>
       /\ Announced <= members
       /\ \A w \in Watchers : pc[w] = "diff" => members <= answer[w]
       /\ \A w \in Watchers : pc[w] = "send" => members = answer[w] /\ Since(Announced, members)

\* Each event in the channel is news after the one before.
Chain ==
  /\ topologyCh # << >> => Since(seen, topologyCh[1])
  /\ \A i \in 1 .. Len(topologyCh) - 1 : Since(topologyCh[i], topologyCh[i + 1])

IInv == TypeOK /\ Alone /\ Late /\ Ahead /\ Chain /\ MembersAnnounced /\ CrashNeedsOverlap

-----------------------------------------------------------------------------
\* Of lists of members between which updateTopology sees no change, the nodes and
\* their health are the same, and between others they are not.
LEMMA UnchangedHealth ==
  ASSUME NEW old \in [Nodes -> Services], NEW new \in [Nodes -> Services]
  PROVE  Changed(old, new) <=> \E n \in Nodes : old[n].health # new[n].health
<1>1. ASSUME NEW n \in Nodes, NEW v \in [Nodes -> Services]
      PROVE  /\ v[n] = Gone <=> v[n].health = "absent"
             /\ v[n].health \in {"absent", "critical", "passing"}
  <2>1. CASE v[n] = Gone
    BY <2>1 DEF Gone
  <2>2. CASE v[n] \in [health : {"critical", "passing"}, addr : Addrs]
    <3>1. v[n].health \in {"critical", "passing"}
      BY <2>2
    <3>2. Gone.health = "absent"
      BY DEF Gone
    <3>3. QED
      BY <3>1, <3>2
  <2>3. QED
    BY <2>1, <2>2 DEF Services
<1>2. ASSUME NEW n \in Nodes
      PROVE  old[n].health # new[n].health <=>
               \/ old[n] = Gone /\ new[n] # Gone
               \/ old[n] # Gone /\ new[n] = Gone
               \/ /\ old[n] # Gone /\ new[n] # Gone
                  /\ (old[n].health = "passing") # (new[n].health = "passing")
  <2>1. /\ old[n] = Gone <=> old[n].health = "absent"
        /\ old[n].health \in {"absent", "critical", "passing"}
    BY <1>1
  <2>2. /\ new[n] = Gone <=> new[n].health = "absent"
        /\ new[n].health \in {"absent", "critical", "passing"}
    BY <1>1
  <2>3. QED
    BY <2>1, <2>2
<1>3. QED
  BY <1>2 DEF Changed, Joined, Left, Flipped

\* The same of two moments.
LEMMA ChangedIsHealth ==
  ASSUME NEW i, NEW j, View(i) \in [Nodes -> Services], View(j) \in [Nodes -> Services]
  PROVE  Changed(View(i), View(j)) <=> Healths(i) # Healths(j)
<1>1. (Healths(i) # Healths(j)) <=> \E n \in Nodes : View(i)[n].health # View(j)[n].health
  BY DEF Healths
<1>2. QED
  BY <1>1, UnchangedHealth

\* A sequence over a set is one over a larger set.
LEMMA WiderSeq ==
  ASSUME NEW S, NEW T, S \subseteq T, NEW s \in Seq(S)
  PROVE  s \in Seq(T)
OBVIOUS

\* Every moment has a view.
LEMMA ViewType ==
  ASSUME TypeOK, NEW i \in 0 .. Now
  PROVE  View(i) \in [Nodes -> Services]
BY DEF TypeOK, View, Now, Nothing, Services

\* A list of members that is later than one it differs from is news, and so is
\* one that is no earlier than such a list.
LEMMA News ==
  ASSUME NEW a \in Nat, NEW b \in Nat, NEW c \in Nat, a <= b, b <= c,
         Healths(b) # Healths(a) \/ Healths(c) # Healths(b)
  PROVE  Since(a, c)
<1>1. CASE Healths(b) # Healths(a)
  <2>1. b \in a + 1 .. c
    BY <1>1
  <2>2. QED
    BY <2>1, <1>1 DEF Since
<1>2. CASE Healths(b) = Healths(a) /\ Healths(c) # Healths(a)
  <2>1. c \in a + 1 .. c
    BY <1>2
  <2>2. QED
    BY <2>1, <1>2 DEF Since
<1>3. QED
  BY <1>1, <1>2

\* Each step of Consul changes one service.
LEMMA ConsulStep ==
  ASSUME TypeOK, Consul
  PROVE  \E n \in Nodes, service \in Services : Put(n, service)
<1>1. Gone \in Services
  BY DEF Services
<1>2. ASSUME NEW n \in Nodes
      PROVE  Service(n) \in Services
  BY DEF TypeOK, Service, Now
<1>3. ASSUME NEW n \in Nodes, NEW a \in Addrs, RegisterService(n, a)
      PROVE  \E service \in Services : Put(n, service)
  <2>1. PICK health \in {"critical", Service(n).health} \ {"absent"} :
          Put(n, [health |-> health, addr |-> a])
    BY <1>3 DEF RegisterService
  <2>2. Service(n).health \in {"absent", "critical", "passing"}
    BY <1>2 DEF Services, Gone
  <2>3. [health |-> health, addr |-> a] \in Services
    BY <2>1, <2>2 DEF Services
  <2>4. QED
    BY <2>1, <2>3
<1>4. ASSUME NEW n \in Nodes, SendHeartbeat(n) \/ Expire(n)
      PROVE  \E service \in Services : Put(n, service)
  <2>1. Service(n) \in [health : {"critical", "passing"}, addr : Addrs]
    BY <1>2, <1>4 DEF Services, Gone, SendHeartbeat, Expire
  <2>2. ASSUME NEW health \in {"critical", "passing"}
        PROVE  [Service(n) EXCEPT !.health = health] \in Services
    BY <2>1 DEF Services
  <2>3. QED
    BY <1>4, <2>2 DEF SendHeartbeat, Expire
<1>5. ASSUME NEW n \in Nodes, DeregisterService(n) \/ Reap(n)
      PROVE  \E service \in Services : Put(n, service)
  BY <1>1, <1>5 DEF DeregisterService, Reap
<1>6. QED
  BY <1>3, <1>4, <1>5 DEF Consul

\* A service comes, goes or changes: earlier moments stay as they were.
LEMMA PutStep ==
  ASSUME IInv, NEW n \in Nodes, NEW service \in Services, Put(n, service)
  PROVE  IInv'
<1>1. hist' = Append(hist, [hist[Now] EXCEPT ![n] = service]) /\ UNCHANGED <<provider, seen>>
  BY DEF Put
<1>2. hist \in Seq([Nodes -> Services]) /\ Len(hist) \in Nat \ {0}
  BY DEF IInv, TypeOK
<1>3. hist[Now] \in [Nodes -> Services]
  BY <1>2 DEF Now
<1>4. hist' \in Seq([Nodes -> Services]) /\ Len(hist') = Len(hist) + 1 /\ hist' # << >>
      /\ \A i \in 1 .. Len(hist) : hist'[i] = hist[i]
  BY <1>1, <1>2, <1>3
<1>5. \A i \in 0 .. Now : Healths(i)' = Healths(i)
  <2>1. \A i \in 0 .. Now : View(i)' = View(i)
    BY <1>4, <1>2 DEF View, Now, Nothing
  <2>2. QED
    BY <2>1 DEF Healths
<1>6. ASSUME NEW a \in 0 .. Now, NEW b \in 0 .. Now, Since(a, b)
      PROVE  Since(a, b)'
  <2>1. PICK j \in a + 1 .. b : Healths(j) # Healths(a)
    BY <1>6 DEF Since
  <2>2. j \in 0 .. Now
    BY <1>2, <1>6 DEF Now
  <2>3. Healths(j)' # Healths(a)'
    BY <2>1, <2>2, <1>5
  <2>4. QED
    BY <2>3 DEF Since
<1>7. TypeOK'
  <2>1. 0 .. Now \subseteq 0 .. Now' /\ 1 .. Now \subseteq 1 .. Now'
    BY <1>2, <1>4 DEF Now
  <2>2. topologyCh \in Seq(1 .. Now')
    BY <2>1, WiderSeq DEF IInv, TypeOK
  <2>3. answer \in [Watchers -> 0 .. Now']
    BY <2>1 DEF IInv, TypeOK
  <2>4. QED
    BY <1>1, <1>4, <2>1, <2>2, <2>3 DEF IInv, TypeOK, provider
<1>8. Announced \in 0 .. Now /\ members \in 0 .. Now /\ seen \in 0 .. Now
      /\ topologyCh \in Seq(1 .. Now) /\ Announced' = Announced
  BY <1>1, <1>2 DEF IInv, TypeOK, Announced, provider, Now
<1>9. Alone' /\ Late' /\ CrashNeedsOverlap'
  BY <1>1 DEF IInv, Alone, Late, CrashNeedsOverlap, Closed, provider
<1>10. Ahead'
  BY <1>1, <1>6, <1>8 DEF IInv, Ahead, Closed, provider
<1>11. Chain'
  <2>1. UNCHANGED <<topologyCh, seen>>
    BY <1>1 DEF provider
  <2>2. \A i \in 1 .. Len(topologyCh) : topologyCh[i] \in 0 .. Now
    BY <1>8, <1>2 DEF Now
  <2>3. topologyCh # << >> => Since(seen, topologyCh[1])'
    BY <1>6, <1>8, <2>1, <2>2 DEF IInv, Chain
  <2>4. \A i \in 1 .. Len(topologyCh) - 1 : Since(topologyCh[i], topologyCh[i + 1])'
    BY <1>6, <1>8, <2>1, <2>2 DEF IInv, Chain
  <2>5. QED
    BY <2>1, <2>3, <2>4 DEF Chain
<1>12. MembersAnnounced'
  BY <1>1, <1>5, <1>8 DEF IInv, MembersAnnounced, Closed, provider
<1>13. QED
  BY <1>7, <1>9, <1>10, <1>11, <1>12 DEF IInv

\* What is unaffected when neither the history nor the channel changes.
LEMMA SameHistory ==
  ASSUME IInv, UNCHANGED <<hist, topologyCh, seen>>
  PROVE  /\ Now' = Now /\ Announced' = Announced /\ Chain'
         /\ \A i : Healths(i)' = Healths(i)
         /\ \A a, b : Since(a, b)' = Since(a, b)
<1>1. \A i : Healths(i)' = Healths(i)
  BY DEF Healths, View, Nothing
<1>2. \A a, b : Since(a, b)' = Since(a, b)
  BY <1>1 DEF Since
<1>3. Chain'
  BY <1>2 DEF IInv, Chain
<1>4. QED
  BY <1>1, <1>2, <1>3 DEF Now, Announced

\* Start, Stop and the end of the context change neither the members nor what
\* has been announced.
LEMMA LifeStep ==
  ASSUME IInv, Start \/ Stop \/ Cancel
  PROVE  IInv'
<1>1. UNCHANGED <<hist, members, topologyCh, answer, seen, dropped>>
  BY DEF Start, Stop, Cancel
<1>2. /\ Now' = Now /\ Announced' = Announced /\ Chain'
      /\ \A i : Healths(i)' = Healths(i)
      /\ \A a, b : Since(a, b)' = Since(a, b)
  BY <1>1, SameHistory
<1>3. CASE Start
  <2>1. /\ ~isRunning /\ starts < MaxStarts /\ starts' = starts + 1 /\ isRunning'
        /\ pc' = [pc EXCEPT ![starts + 1] = "select"]
        /\ UNCHANGED <<stops, cancelled, crashed, caught>>
    BY <1>3 DEF Start
  <2>2. starts + 1 \in Watchers
    BY <2>1, ConsulProviderAssumption DEF IInv, TypeOK, Watchers
  <2>3. TypeOK'
    BY <1>1, <1>2, <2>1, <2>2, ConsulProviderAssumption DEF IInv, TypeOK, PCs
  <2>4. Alone'
    BY <2>1, <2>2 DEF IInv, TypeOK, Alone, Closed, Watchers
  <2>5. \A w \in Watchers : pc'[w] \in Busy => pc[w] = pc'[w]
    BY <2>1, <2>2 DEF IInv, TypeOK, Busy
  <2>6. Late' /\ Ahead' /\ CrashNeedsOverlap'
    BY <1>1, <1>2, <2>1, <2>5 DEF IInv, Late, Ahead, CrashNeedsOverlap, Closed, Busy
  <2>7. \A w \in Watchers : pc[w] = "send" => pc'[w] = "send"
    BY <2>1, <2>2 DEF IInv, TypeOK, Alone
  <2>8. QED
    BY <1>1, <1>2, <2>1, <2>3, <2>4, <2>6, <2>7 DEF IInv, MembersAnnounced, Closed
<1>4. CASE Stop
  <2>1. /\ stops' = stops + 1 /\ crashed' = Closed /\ isRunning' = Closed
        /\ caught' = caught \cup {w \in Watchers : pc[w] \in Busy}
        /\ UNCHANGED <<starts, cancelled, pc>>
    BY <1>4 DEF Stop
  <2>2. Closed'
    BY <2>1 DEF IInv, TypeOK, Closed
  <2>3. QED
    BY <1>1, <1>2, <2>1, <2>2
    DEF IInv, TypeOK, Alone, Late, Ahead, MembersAnnounced, CrashNeedsOverlap, Closed
<1>5. CASE Cancel
  BY <1>1, <1>2, <1>5
  DEF Cancel, IInv, TypeOK, Alone, Late, Ahead, MembersAnnounced, CrashNeedsOverlap, Closed
<1>6. QED
  BY <1>3, <1>4, <1>5

\* The steps of a goroutine that touch neither the members nor the channel.
LEMMA QueryStep ==
  ASSUME IInv, NEW w \in Watchers, Tick(w) \/ Wait(w) \/ WatchEnds(w) \/ Query(w) \/ QueryFails(w)
  PROVE  IInv'
<1>1. UNCHANGED <<hist, members, topologyCh, life, crashed, seen, dropped>>
  BY DEF Tick, Wait, WatchEnds, Query, QueryFails
<1>2. /\ Now' = Now /\ Announced' = Announced /\ Chain'
      /\ \A i : Healths(i)' = Healths(i)
      /\ \A a, b : Since(a, b)' = Since(a, b)
  BY <1>1, SameHistory
<1>3. /\ pc[w] \notin {"none", "send"}
      /\ \E q \in {"select", "query", "diff", "loop", "done"} :
           /\ pc' = [pc EXCEPT ![w] = q]
           /\ q = "diff" => answer' = [answer EXCEPT ![w] = Now]
           /\ q # "diff" => answer' = answer
           /\ q \in Busy /\ Closed => w \in caught
  BY DEF Tick, Wait, WatchEnds, Query, QueryFails, IInv, Late, Busy
<1>4. PICK q \in {"select", "query", "diff", "loop", "done"} :
        /\ pc' = [pc EXCEPT ![w] = q]
        /\ q = "diff" => answer' = [answer EXCEPT ![w] = Now]
        /\ q # "diff" => answer' = answer
        /\ q \in Busy /\ Closed => w \in caught
  BY <1>3
<1>5. Now \in Nat \ {0} /\ members \in 0 .. Now
  BY DEF IInv, TypeOK, Now
<1>6. TypeOK'
  <2>1. pc' \in [Watchers -> PCs]
    BY <1>4 DEF IInv, TypeOK, PCs
  <2>2. answer' \in [Watchers -> 0 .. Now]
    BY <1>4, <1>5 DEF IInv, TypeOK
  <2>3. QED
    BY <1>1, <1>2, <2>1, <2>2 DEF IInv, TypeOK, life
<1>7. Alone' /\ Late' /\ CrashNeedsOverlap'
  BY <1>1, <1>3, <1>4 DEF IInv, TypeOK, Alone, Late, CrashNeedsOverlap, Closed, life, Busy
<1>8. \A v \in Watchers : pc'[v] \in {"diff", "send"} =>
        \/ pc'[v] = pc[v] /\ answer'[v] = answer[v]
        \/ pc'[v] = "diff" /\ answer'[v] = Now
  BY <1>4 DEF IInv, TypeOK
<1>9. Ahead'
  BY <1>1, <1>2, <1>5, <1>8 DEF IInv, Ahead, Closed, life
<1>10. \A v \in Watchers : pc[v] = "send" => pc'[v] = "send"
  BY <1>3, <1>4 DEF IInv, TypeOK
<1>11. MembersAnnounced'
  BY <1>1, <1>2, <1>10 DEF IInv, MembersAnnounced, Closed, life
<1>12. QED
  BY <1>2, <1>6, <1>7, <1>9, <1>11 DEF IInv

\* updateTopology stores the members it has got: what it does not announce does
\* not differ, and what it is about to announce is news.
LEMMA DiffStep ==
  ASSUME IInv, NEW w \in Watchers, Diff(w)
  PROVE  IInv'
<1> DEFINE next == IF Changed(View(members), View(answer[w])) THEN "send" ELSE "loop"
<1>1. /\ pc[w] = "diff" /\ members' = answer[w] /\ pc' = [pc EXCEPT ![w] = next]
      /\ UNCHANGED <<hist, topologyCh, life, answer, crashed, seen, dropped>>
  BY DEF Diff
<1>2. /\ Now' = Now /\ Announced' = Announced /\ Chain'
      /\ \A i : Healths(i)' = Healths(i)
      /\ \A a, b : Since(a, b)' = Since(a, b)
  BY <1>1, SameHistory
<1>3. next \in {"send", "loop"}
  OBVIOUS
<1>4. TypeOK'
  BY <1>1, <1>2, <1>3 DEF IInv, TypeOK, PCs, life
<1>5. Alone' /\ Late' /\ CrashNeedsOverlap'
  BY <1>1, <1>3 DEF IInv, TypeOK, Alone, Late, CrashNeedsOverlap, Closed, life, Busy
<1>6. CASE Closed
  BY <1>1, <1>2, <1>4, <1>5, <1>6, <1>3 DEF IInv, TypeOK, Ahead, MembersAnnounced, Closed, life
<1>7. CASE ~Closed
  <2>1. /\ Announced \in Nat /\ members \in 0 .. Now /\ answer[w] \in 0 .. Now /\ Now \in Nat
        /\ Announced <= members /\ members <= answer[w]
    BY <1>1, <1>7 DEF IInv, TypeOK, Ahead, Announced, Now
  <2>2. \A v \in Watchers : v # w => pc[v] = "none" /\ pc'[v] = "none"
    BY <1>1, <1>7 DEF IInv, TypeOK, Alone, Watchers
  <2>3. Changed(View(members), View(answer[w])) <=> Healths(members) # Healths(answer[w])
    BY <2>1, ViewType, ChangedIsHealth DEF IInv
  <2>4. CASE Changed(View(members), View(answer[w]))
    <3>1. Healths(answer[w]) # Healths(members)
      BY <2>3, <2>4
    <3>2. Since(Announced, answer[w])
      BY <2>1, <3>1, News
    <3>3. pc'[w] = "send"
      BY <1>1, <2>4 DEF IInv, TypeOK
    <3>4. Ahead'
      BY <1>1, <1>2, <2>1, <2>2, <3>2, <3>3 DEF IInv, Ahead, Closed
    <3>5. MembersAnnounced'
      BY <3>3 DEF MembersAnnounced
    <3>6. QED
      BY <1>2, <1>4, <1>5, <3>4, <3>5 DEF IInv
  <2>5. CASE ~Changed(View(members), View(answer[w]))
    <3>1. Healths(answer[w]) = Healths(members)
      BY <2>3, <2>5
    <3>2. pc'[w] = "loop"
      BY <1>1, <2>5 DEF IInv, TypeOK
    <3>3. Ahead'
      BY <1>1, <1>2, <2>1, <2>2, <3>2 DEF IInv, Ahead, Closed
    <3>4. \A v \in Watchers : pc[v] # "send"
      BY <1>1, <2>2
    <3>5. MembersAnnounced'
      BY <1>1, <1>2, <1>7, <3>1, <3>4 DEF IInv, MembersAnnounced
    <3>6. QED
      BY <1>2, <1>4, <1>5, <3>3, <3>5 DEF IInv
  <2>6. QED
    BY <2>4, <2>5
<1>8. QED
  BY <1>6, <1>7

\* The event is sent, dropped, or brings the process down.
LEMMA SendStep ==
  ASSUME IInv, NEW w \in Watchers, Send(w)
  PROVE  IInv'
<1>1. /\ pc[w] = "send" /\ pc' = [pc EXCEPT ![w] = "loop"]
      /\ UNCHANGED <<hist, members, life, answer, seen>>
  BY DEF Send
<1>2. answer[w] \in 1 .. Now /\ Now \in Nat /\ Now' = Now
  BY <1>1 DEF IInv, TypeOK, Ahead, Now
<1>3. /\ \A i : Healths(i)' = Healths(i)
      /\ \A a, b : Since(a, b)' = Since(a, b)
  BY <1>1 DEF Healths, View, Nothing, Since
<1>4. Alone' /\ Late'
  BY <1>1 DEF IInv, TypeOK, Alone, Late, Closed, life, Busy
<1>5. CASE Closed
  <2>1. crashed' /\ UNCHANGED <<topologyCh, dropped>>
    BY <1>5 DEF Send
  <2>2. Chain' /\ Announced' = Announced
    BY <1>1, <2>1, SameHistory
  <2>3. CrashNeedsOverlap'
    BY <1>1, <1>5 DEF IInv, Late, CrashNeedsOverlap, life, Busy
  <2>4. TypeOK'
    BY <1>1, <1>2, <2>1 DEF IInv, TypeOK, PCs, life
  <2>5. Ahead' /\ MembersAnnounced'
    BY <1>1, <1>5 DEF IInv, TypeOK, Ahead, MembersAnnounced, Closed, life
  <2>6. QED
    BY <1>4, <2>2, <2>3, <2>4, <2>5 DEF IInv
<1>6. CASE ~Closed
  <2>1. /\ Announced \in Nat /\ members \in Nat /\ members = answer[w]
        /\ Since(Announced, members)
    BY <1>1, <1>6, <1>2 DEF IInv, TypeOK, Ahead, Announced
  <2>2. Announced < members
    BY <2>1 DEF Since
  <2>3. \A v \in Watchers : pc'[v] # "send" /\ (pc'[v] = "diff" => pc[v] = "diff")
    BY <1>1, <1>6 DEF IInv, TypeOK, Alone, Watchers
  <2>4. CASE Len(topologyCh) < ChanCap
    <3>1. topologyCh' = Append(topologyCh, answer[w]) /\ UNCHANGED <<crashed, dropped>>
      BY <1>6, <2>4 DEF Send
    <3>2. topologyCh \in Seq(1 .. Now) /\ Len(topologyCh) \in Nat
      BY DEF IInv, TypeOK
    <3>3. /\ topologyCh' \in Seq(1 .. Now) /\ Len(topologyCh') = Len(topologyCh) + 1
          /\ topologyCh' # << >> /\ topologyCh'[Len(topologyCh')] = answer[w]
          /\ \A i \in 1 .. Len(topologyCh) : topologyCh'[i] = topologyCh[i]
      BY <3>1, <3>2, <1>2
    <3>4. TypeOK'
      BY <1>1, <1>2, <2>4, <3>1, <3>3, ConsulProviderAssumption DEF IInv, TypeOK, PCs, life
    <3>5. Announced' = members
      BY <2>1, <3>3 DEF Announced
    <3>6. Chain'
      <4>1. CASE topologyCh = << >>
        BY <1>1, <1>3, <2>1, <3>3, <4>1 DEF Chain, Announced
      <4>2. CASE topologyCh # << >>
        <5>1. Len(topologyCh) \in Nat \ {0}
          BY <3>2, <4>2
        <5>2. Since(topologyCh[Len(topologyCh)], answer[w])
          BY <2>1, <4>2 DEF Announced
        <5>3. \A i \in 1 .. Len(topologyCh) : Since(topologyCh'[i], topologyCh'[i + 1])
          BY <3>3, <5>1, <5>2 DEF IInv, Chain
        <5>4. Since(seen, topologyCh'[1])
          BY <3>3, <4>2, <5>1 DEF IInv, Chain
        <5>5. QED
          BY <1>1, <1>3, <3>3, <5>3, <5>4 DEF Chain
      <4>3. QED
        BY <4>1, <4>2
    <3>7. Ahead'
      BY <1>1, <1>2, <1>6, <2>1, <2>3, <3>5 DEF IInv, Ahead
    <3>8. MembersAnnounced' /\ CrashNeedsOverlap'
      BY <1>1, <1>3, <3>1, <3>5 DEF IInv, MembersAnnounced, CrashNeedsOverlap, life
    <3>9. QED
      BY <1>4, <3>4, <3>6, <3>7, <3>8 DEF IInv
  <2>5. CASE ~(Len(topologyCh) < ChanCap)
    <3>1. dropped' = answer[w] /\ UNCHANGED <<topologyCh, crashed>>
      BY <1>6, <2>5 DEF Send
    <3>2. Chain' /\ Announced' = Announced
      BY <1>1, <3>1, SameHistory
    <3>3. TypeOK'
      BY <1>1, <1>2, <3>1 DEF IInv, TypeOK, PCs, life
    <3>4. Ahead'
      BY <1>1, <1>6, <2>1, <2>2, <2>3, <3>2 DEF IInv, Ahead
    <3>5. MembersAnnounced' /\ CrashNeedsOverlap'
      BY <1>1, <2>1, <2>2, <3>1, <3>2 DEF IInv, MembersAnnounced, CrashNeedsOverlap, life
    <3>6. QED
      BY <1>4, <3>2, <3>3, <3>4, <3>5 DEF IInv
  <2>6. QED
    BY <2>4, <2>5
<1>7. QED
  BY <1>5, <1>6

\* The first element of a sequence, and the others.
LEMMA HeadTail ==
  ASSUME NEW S, NEW s \in Seq(S), s # << >>
  PROVE  /\ Tail(s) \in Seq(S) /\ Len(Tail(s)) = Len(s) - 1 /\ Len(s) \in Nat \ {0}
         /\ Head(s) = s[1] /\ s[1] \in S
         /\ \A i \in 1 .. Len(s) - 1 : Tail(s)[i] = s[i + 1]
OBVIOUS

\* The subscriber takes the first event: what is announced stays the same.
LEMMA ReceiveStep ==
  ASSUME IInv, Receive
  PROVE  IInv' /\ seen' \in 1 .. Now /\ Since(seen, seen')
<1>1. /\ topologyCh # << >> /\ seen' = Head(topologyCh) /\ topologyCh' = Tail(topologyCh)
      /\ UNCHANGED <<hist, members, life, pc, answer, crashed, dropped>>
  BY DEF Receive
<1>2. topologyCh \in Seq(1 .. Now) /\ Now \in Nat /\ Now' = Now
  BY <1>1 DEF IInv, TypeOK, Now
<1>3. /\ topologyCh' \in Seq(1 .. Now) /\ Len(topologyCh') = Len(topologyCh) - 1
      /\ Len(topologyCh) \in Nat \ {0}
      /\ seen' = topologyCh[1] /\ seen' \in 1 .. Now
      /\ \A i \in 1 .. Len(topologyCh) - 1 : topologyCh'[i] = topologyCh[i + 1]
  BY <1>1, <1>2, HeadTail
<1>4. /\ \A i : Healths(i)' = Healths(i)
      /\ \A a, b : Since(a, b)' = Since(a, b)
  BY <1>1 DEF Healths, View, Nothing, Since
<1>5. Announced' = Announced
  <2>1. CASE Len(topologyCh) = 1
    BY <1>1, <1>3, <2>1 DEF Announced
  <2>2. CASE Len(topologyCh) # 1
    <3>1. topologyCh' # << >> /\ topologyCh'[Len(topologyCh')] = topologyCh[Len(topologyCh)]
      BY <1>3, <2>2
    <3>2. QED
      BY <1>1, <3>1 DEF Announced
  <2>3. QED
    BY <2>1, <2>2
<1>6. TypeOK'
  BY <1>1, <1>2, <1>3, ConsulProviderAssumption DEF IInv, TypeOK, life
<1>7. Alone' /\ Late' /\ CrashNeedsOverlap' /\ Ahead' /\ MembersAnnounced'
  BY <1>1, <1>4, <1>5
  DEF IInv, Alone, Late, CrashNeedsOverlap, Ahead, MembersAnnounced, Closed, life
<1>8. Since(seen, seen')
  BY <1>1, <1>3 DEF IInv, Chain
<1>9. Chain'
  <2>1. \A i \in 1 .. Len(topologyCh) - 1 : Since(topologyCh[i], topologyCh[i + 1])
    BY DEF IInv, Chain
  <2>2. topologyCh' # << >> => Since(seen', topologyCh'[1])
    BY <1>3, <2>1
  <2>3. \A i \in 1 .. Len(topologyCh') - 1 : Since(topologyCh'[i], topologyCh'[i + 1])
    BY <1>3, <2>1
  <2>4. QED
    BY <1>4, <2>2, <2>3 DEF Chain
<1>10. QED
  BY <1>3, <1>6, <1>7, <1>8, <1>9 DEF IInv

LEMMA Invariance == Spec => []IInv
<1>1. Init => IInv
  <2> SUFFICES ASSUME Init
               PROVE  IInv
    OBVIOUS
  <2>1. PICK v \in [Nodes -> Services] : hist = <<v>>
    BY DEF Init
  <2>2. hist \in Seq([Nodes -> Services]) /\ hist # << >> /\ Len(hist) = 1
    BY <2>1
  <2>3. TypeOK
    <3>1. Now = 1
      BY <2>2 DEF Now
    <3>2. topologyCh \in Seq(1 .. Now) /\ Len(topologyCh) <= ChanCap
      BY ConsulProviderAssumption DEF Init
    <3>3. pc \in [Watchers -> PCs] /\ answer \in [Watchers -> 0 .. Now]
      BY <3>1 DEF Init, PCs
    <3>4. members \in 0 .. Now /\ seen \in 0 .. Now /\ dropped \in 0 .. Now
      BY <3>1 DEF Init
    <3>5. isRunning \in BOOLEAN /\ cancelled \in BOOLEAN /\ crashed \in BOOLEAN
      BY DEF Init
    <3>6. starts \in 0 .. MaxStarts /\ stops \in Nat
      BY ConsulProviderAssumption DEF Init
    <3>7. caught \in SUBSET Watchers
      BY DEF Init
    <3>8. QED
      BY <2>2, <3>2, <3>3, <3>4, <3>5, <3>6, <3>7 DEF TypeOK
  <2>4. Announced = 0 /\ members = 0
    BY DEF Init, Announced
  <2>5. QED
    BY <2>3, <2>4
    DEF Init, IInv, Alone, Late, Ahead, Chain, MembersAnnounced, CrashNeedsOverlap, Closed
<1>2. IInv /\ [Next]_vars => IInv'
  <2> SUFFICES ASSUME IInv, [Next]_vars
               PROVE  IInv'
    OBVIOUS
  <2>1. CASE Consul
    BY <2>1, ConsulStep, PutStep DEF IInv
  <2>2. CASE Start \/ Stop \/ Cancel
    BY <2>2, LifeStep
  <2>3. CASE Receive
    BY <2>3, ReceiveStep
  <2>4. ASSUME NEW w \in Watchers, Watch(w)
        PROVE  IInv'
    BY <2>4, QueryStep, DiffStep, SendStep DEF Watch
  <2>5. CASE UNCHANGED vars
    <3>1. UNCHANGED <<hist, topologyCh, seen>>
      BY <2>5 DEF vars, provider
    <3>2. /\ Now' = Now /\ Announced' = Announced /\ Chain'
          /\ \A i : Healths(i)' = Healths(i)
          /\ \A a, b : Since(a, b)' = Since(a, b)
      BY <3>1, SameHistory
    <3>3. QED
      BY <2>5, <3>2
      DEF vars, provider, IInv, TypeOK, Alone, Late, Ahead, MembersAnnounced,
          CrashNeedsOverlap, Closed
  <2>6. QED
    BY <2>1, <2>2, <2>3, <2>4, <2>5 DEF Next
<1>3. QED
  BY <1>1, <1>2, PTL DEF Spec

-----------------------------------------------------------------------------
\* Every variable has its type, and no list of members is later than the last
\* state of Consul.
THEOREM TypeCorrect == Spec => []TypeOK
<1>1. IInv => TypeOK
  BY DEF IInv
<1>2. QED
  BY <1>1, Invariance, PTL

\* Members and announcements agree, in nodes and their health, unless an event was
\* dropped or is on its way; with the addresses, which are not compared, they may not.
THEOREM MembersAreAnnounced == Spec => []MembersAnnounced
<1>1. IInv => MembersAnnounced
  BY DEF IInv
<1>2. QED
  BY <1>1, Invariance, PTL

\* Only a Stop in the middle of an update, or a second one, ends the process.
THEOREM CrashByOverlap == Spec => []CrashNeedsOverlap
<1>1. IInv => CrashNeedsOverlap
  BY DEF IInv
<1>2. QED
  BY <1>1, Invariance, PTL

\* The subscriber sees later and later states of the cluster, each because a member
\* has come, gone or changed its health: the provider implements Observer.
THEOREM ImplementsObserver == Spec => ObserverSpec
<1>1. Init => O!Init
  BY DEF Init, O!Init
<1>2. IInv /\ [Next]_vars => [O!Next]_O!vars
  <2> SUFFICES ASSUME IInv, [Next]_vars
               PROVE  [O!Next]_O!vars
    OBVIOUS
  <2>1. CASE Consul
    <3>1. PICK n \in Nodes, service \in Services : Put(n, service)
      BY <2>1, ConsulStep DEF IInv
    <3>2. hist' = Append(hist, [hist[Now] EXCEPT ![n] = service]) /\ UNCHANGED seen
      BY <3>1 DEF Put
    <3>3. [hist[Now] EXCEPT ![n] = service] \in [Nodes -> Services]
      BY DEF IInv, TypeOK, Now
    <3>4. QED
      BY <3>2, <3>3 DEF O!Next, O!Change
  <2>2. CASE Receive
    <3>1. seen' \in 1 .. Len(hist) /\ Since(seen, seen') /\ UNCHANGED hist
      BY <2>2, ReceiveStep DEF Receive, Now
    <3>2. O!Show(seen')
      BY <3>1 DEF O!Show, O!Healths, O!View, O!Nothing, Since, Healths, View, Nothing
    <3>3. QED
      BY <3>1, <3>2 DEF O!Next
  <2>3. CASE Start \/ Stop \/ Cancel
    BY <2>3 DEF Start, Stop, Cancel, O!vars
  <2>4. ASSUME NEW w \in Watchers, Watch(w)
        PROVE  [O!Next]_O!vars
    BY <2>4 DEF Watch, Tick, Wait, WatchEnds, Query, QueryFails, Diff, Send, O!vars
  <2>5. CASE UNCHANGED vars
    BY <2>5 DEF vars, O!vars
  <2>6. QED
    BY <2>1, <2>2, <2>3, <2>4, <2>5 DEF Next
<1>3. QED
  BY <1>1, <1>2, Invariance, PTL DEF Spec, ObserverSpec, O!Spec

-----------------------------------------------------------------------------
\* Stop is for good: unless it came in the middle of an update, the provider
\* neither stores nor announces members any more, even if it is started again:
\* stopCh is not made anew and ends the new goroutine, too.
StoppedForGood ==
  [][Closed /\ caught = {}
       => members' = members /\ dropped' = dropped /\ Len(topologyCh') <= Len(topologyCh)]_vars

\* However often the provider is started again, and whatever Consul then says.
THEOREM StopIsForGood == Spec => StoppedForGood
<1> DEFINE Still == Closed /\ caught = {} =>
             members' = members /\ dropped' = dropped /\ Len(topologyCh') <= Len(topologyCh)
<1>1. IInv /\ [Next]_vars => [Still]_vars
  <2> SUFFICES ASSUME IInv, Next, Closed, caught = {}
               PROVE  members' = members /\ dropped' = dropped /\ Len(topologyCh') <= Len(topologyCh)
    OBVIOUS
  <2>1. \A w \in Watchers : pc[w] \notin Busy
    BY DEF IInv, Late
  <2>2. topologyCh \in Seq(1 .. Now) /\ Len(topologyCh) \in Nat
    BY DEF IInv, TypeOK
  <2>3. CASE Consul
    <3>1. UNCHANGED provider
      BY <2>3, ConsulStep DEF IInv, Put
    <3>2. QED
      BY <3>1, <2>2 DEF provider
  <2>4. CASE Start \/ Stop \/ Cancel
    <3>1. UNCHANGED <<members, topologyCh, dropped>>
      BY <2>4 DEF Start, Stop, Cancel
    <3>2. QED
      BY <3>1, <2>2
  <2>5. CASE Receive
    <3>1. topologyCh # << >> /\ topologyCh' = Tail(topologyCh) /\ UNCHANGED <<members, dropped>>
      BY <2>5 DEF Receive
    <3>2. Len(Tail(topologyCh)) <= Len(topologyCh)
      BY <2>2, <3>1
    <3>3. QED
      BY <3>1, <3>2
  <2>6. ASSUME NEW w \in Watchers, Watch(w)
        PROVE  UNCHANGED <<members, dropped, topologyCh>>
    BY <2>6, <2>1 DEF Watch, Tick, Wait, WatchEnds, Query, QueryFails, Diff, Send, Busy
  <2>7. QED
    BY <2>2, <2>3, <2>4, <2>5, <2>6 DEF Next
<1>2. QED
  BY <1>1, Invariance, PTL DEF Spec, StoppedForGood
=============================================================================
