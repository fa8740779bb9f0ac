--------------------------- MODULE SendQueueProof ---------------------------
(***************************************************************************)
(* What the send channel of a connection guarantees for any number of      *)
(* senders and any capacity.                                               *)
(*                                                                         *)
(* The inductive invariant follows the messages from the channel to the    *)
(* client (Chain): the queue is the end of what was accepted, the frame in *)
(* progress comes right before it, and what the client has got is the      *)
(* beginning, with nothing missing in between while the connection is up.  *)
(* What was accepted is in order (Numbered), because as long as the        *)
(* channel is open an idle sender's last message has got in.               *)
(***************************************************************************)
EXTENDS SendQueue, SequenceTheorems, TLAPS

-----------------------------------------------------------------------------
(* The inductive invariant.                                                *)

Done == Len(accepted) - Len(queue) - Len(batch)

Chain ==
  /\ wpc = "select" => batch = << >>
  /\ \A i \in 1 .. Len(queue) : queue[i] = accepted[Len(accepted) - Len(queue) + i]
  /\ \A i \in 1 .. Len(batch) : batch[i] = accepted[Done + i]
  /\ Len(got) <= Done
  /\ socket = "up" => Len(got) = Done
  /\ \A i \in 1 .. Len(got) : got[i] = accepted[i]

\* The channel is not closed, nor about to be, and so no sender panics, before
\* as many messages as it holds have been accepted.
ClosedOnlyWhenFull ==
  closed \/ (\E s \in Senders : spc[s] = "closing") => Len(accepted) >= Capacity

Numbered ==
  /\ ClientStream!InOrder(accepted)
  /\ \A i \in 1 .. Len(accepted) : accepted[i].n <= offered[accepted[i].from]
  /\ \A s \in Senders : ~closed /\ spc[s] = "idle" /\ offered[s] > 0 =>
       \E i \in 1 .. Len(accepted) : accepted[i].from = s /\ accepted[i].n = offered[s]

IInv == TypeOK /\ FrameNeverWaits /\ ClosedOnlyWhenFull /\ Chain /\ Numbered

-----------------------------------------------------------------------------
(* The senders.                                                            *)

\* What offering a message does when there is space for it.
Accept(s) ==
  /\ ~closed /\ Len(queue) < Capacity
  /\ spc[s] = "idle"
  /\ offered' = [offered EXCEPT ![s] = @ + 1]
  /\ queue' = Append(queue, [from |-> s, n |-> offered'[s]])
  /\ accepted' = Append(accepted, [from |-> s, n |-> offered'[s]])
  /\ UNCHANGED <<closed, spc, crashed, writerVars, socket, got>>

\* Both sequences grow by the same message at their ends.
LEMMA AcceptFacts ==
  ASSUME TypeOK, NEW s \in Senders, Accept(s)
  PROVE  /\ offered' \in [Senders -> Nat] /\ offered'[s] = offered[s] + 1
         /\ \A r \in Senders : r # s => offered'[r] = offered[r]
         /\ queue' \in Seq(Message) /\ Len(queue') = Len(queue) + 1
         /\ accepted' \in Seq(Message) /\ Len(accepted') = Len(accepted) + 1
         /\ \A i \in 1 .. Len(queue) : queue'[i] = queue[i]
         /\ \A i \in 1 .. Len(accepted) : accepted'[i] = accepted[i]
         /\ queue'[Len(queue) + 1] = [from |-> s, n |-> offered[s] + 1]
         /\ accepted'[Len(accepted) + 1] = [from |-> s, n |-> offered[s] + 1]
<1> DEFINE m == [from |-> s, n |-> offered[s] + 1]
<1>1. /\ offered' \in [Senders -> Nat] /\ offered'[s] = offered[s] + 1
      /\ \A r \in Senders : r # s => offered'[r] = offered[r]
  BY DEF TypeOK, Accept
<1>2. m \in Message
  BY DEF TypeOK, Message
<1>3. queue' = Append(queue, m) /\ accepted' = Append(accepted, m)
  BY <1>1 DEF Accept
<1>4. queue \in Seq(Message) /\ accepted \in Seq(Message)
  BY DEF TypeOK
<1> HIDE DEF m
<1>5. QED
  BY <1>1, <1>2, <1>3, <1>4, AppendProperties DEF m

\* An accepted message is the next one of its sender: it closes no gap and
\* leaves none.
LEMMA AcceptStep ==
  ASSUME IInv, NEW s \in Senders, Accept(s)
  PROVE  IInv'
<1> DEFINE m == [from |-> s, n |-> offered[s] + 1]
<1>1. /\ TypeOK
      /\ Len(queue) \in Nat /\ Len(accepted) \in Nat /\ Len(batch) \in Nat /\ Len(got) \in Nat
      /\ offered[s] \in Nat
  BY DEF IInv, TypeOK
<1>2. /\ offered' \in [Senders -> Nat] /\ offered'[s] = offered[s] + 1
      /\ \A r \in Senders : r # s => offered'[r] = offered[r]
  BY AcceptFacts, <1>1
<1>3. /\ queue' \in Seq(Message) /\ Len(queue') = Len(queue) + 1
      /\ \A i \in 1 .. Len(queue) : queue'[i] = queue[i]
      /\ queue'[Len(queue) + 1] = m
  BY AcceptFacts, <1>1
<1>4. /\ accepted' \in Seq(Message) /\ Len(accepted') = Len(accepted) + 1
      /\ \A i \in 1 .. Len(accepted) : accepted'[i] = accepted[i]
      /\ accepted'[Len(accepted) + 1] = m
  BY AcceptFacts, <1>1
<1>5. m.from = s /\ m.n = offered[s] + 1
  OBVIOUS
<1> HIDE DEF m
<1>6. UNCHANGED <<closed, spc, wpc, batch, left, socket, crashed, got>>
  BY DEF Accept, writerVars
<1>7. \A i \in 1 .. Len(accepted') : i \in 1 .. Len(accepted) \/ i = Len(accepted) + 1
  BY <1>1, <1>4
<1>8. TypeOK'
  <2>1. Len(queue') <= Capacity
    BY <1>1, <1>3, SendQueueAssumption DEF Accept
  <2>2. QED
    BY <1>1, <1>2, <1>3, <1>4, <1>6, <2>1 DEF TypeOK
<1>9. FrameNeverWaits' /\ ClosedOnlyWhenFull'
  <2>1. FrameNeverWaits'
    BY <1>1, <1>3, <1>6 DEF IInv, FrameNeverWaits, TypeOK
  <2>2. ClosedOnlyWhenFull'
    BY <1>1, <1>4, <1>6, SendQueueAssumption DEF IInv, ClosedOnlyWhenFull
  <2>3. QED
    BY <2>1, <2>2
<1>10. Chain'
  <2>1. Done' = Done /\ Done \in Int
    BY <1>1, <1>3, <1>4, <1>6 DEF Done
  <2>2. Len(queue) + Len(batch) + Done = Len(accepted) /\ Len(got) <= Done
    BY <1>1 DEF IInv, Chain, Done
  <2>3. ASSUME NEW i \in 1 .. Len(queue')
        PROVE  queue'[i] = accepted'[Len(accepted') - Len(queue') + i]
    <3>1. Len(accepted') - Len(queue') = Len(accepted) - Len(queue)
      BY <1>1, <1>3, <1>4
    <3>2. CASE i \in 1 .. Len(queue)
      <4>1. Len(accepted) - Len(queue) + i \in 1 .. Len(accepted)
        BY <1>1, <2>1, <2>2, <3>2
      <4>2. queue[i] = accepted[Len(accepted) - Len(queue) + i]
        BY <3>2 DEF IInv, Chain
      <4>3. QED
        BY <1>3, <1>4, <3>1, <3>2, <4>1, <4>2
    <3>3. CASE i = Len(queue) + 1
      <4>1. Len(accepted) - Len(queue) + i = Len(accepted) + 1
        BY <1>1, <3>3
      <4>2. QED
        BY <1>3, <1>4, <3>1, <3>3, <4>1
    <3>4. QED
      BY <1>1, <1>3, <3>2, <3>3
  <2>4. ASSUME NEW i \in 1 .. Len(batch)
        PROVE  batch[i] = accepted'[Done + i]
    <3>1. Done + i \in 1 .. Len(accepted)
      BY <1>1, <2>1, <2>2
    <3>2. batch[i] = accepted[Done + i]
      BY DEF IInv, Chain
    <3>3. QED
      BY <1>4, <3>1, <3>2
  <2>5. ASSUME NEW i \in 1 .. Len(got)
        PROVE  got[i] = accepted'[i]
    <3>1. i \in 1 .. Len(accepted)
      BY <1>1, <2>1, <2>2
    <3>2. got[i] = accepted[i]
      BY DEF IInv, Chain
    <3>3. QED
      BY <1>4, <3>1, <3>2
  <2>6. (wpc = "select" => batch = << >>) /\ (socket = "up" => Len(got) = Done)
    BY DEF IInv, Chain
  <2>7. QED
    BY <1>6, <2>1, <2>2, <2>3, <2>4, <2>5, <2>6 DEF Chain
<1>11. Numbered'
  <2>1. \A i \in 1 .. Len(accepted) : accepted[i].n \in Nat /\ accepted[i].from \in Senders
    <3>1. accepted \in Seq(Message)
      BY <1>1 DEF TypeOK
    <3>2. \A i \in 1 .. Len(accepted) : accepted[i] \in Message
      BY <3>1
    <3>3. QED
      BY <3>2 DEF Message
  <2>2. \A i \in 1 .. Len(accepted) : accepted[i].n <= offered[accepted[i].from]
    BY DEF IInv, Numbered
  <2>3. offered[s] = 0 \/ \E j \in 1 .. Len(accepted) :
                            accepted[j].from = s /\ accepted[j].n = offered[s]
    BY <1>1 DEF IInv, Numbered, Accept
  <2>4. ASSUME NEW i \in 1 .. Len(accepted')
        PROVE  accepted'[i].n = 1 \/ \E j \in 1 .. i - 1 :
                 accepted'[j].from = accepted'[i].from /\ accepted'[j].n = accepted'[i].n - 1
    <3>1. CASE i \in 1 .. Len(accepted)
      <4>1. accepted[i].n = 1 \/ \E j \in 1 .. i - 1 :
              accepted[j].from = accepted[i].from /\ accepted[j].n = accepted[i].n - 1
        BY <3>1 DEF IInv, Numbered, ClientStream!InOrder
      <4>2. accepted'[i] = accepted[i] /\ \A j \in 1 .. i - 1 : accepted'[j] = accepted[j]
        BY <1>1, <1>4, <3>1
      <4>3. QED
        BY <4>1, <4>2
    <3>2. CASE i = Len(accepted) + 1
      <4>1. accepted'[i].from = s /\ accepted'[i].n = offered[s] + 1
        BY <1>4, <1>5, <3>2
      <4>2. CASE offered[s] = 0
        BY <4>1, <4>2
      <4>3. CASE offered[s] # 0
        <5>1. PICK j \in 1 .. Len(accepted) : accepted[j].from = s /\ accepted[j].n = offered[s]
          BY <2>3, <4>3
        <5>2. j \in 1 .. i - 1 /\ accepted'[j] = accepted[j]
          BY <1>1, <1>4, <3>2, <5>1
        <5>3. accepted'[j].n = accepted'[i].n - 1
          BY <1>1, <4>1, <5>1, <5>2
        <5>4. QED
          BY <4>1, <5>1, <5>2, <5>3
      <4>4. QED
        BY <4>2, <4>3
    <3>3. QED
      BY <1>7, <3>1, <3>2
  <2>5. ASSUME NEW i \in 1 .. Len(accepted'), NEW j \in 1 .. Len(accepted'),
               i < j, accepted'[i].from = accepted'[j].from
        PROVE  accepted'[i].n < accepted'[j].n
    <3>1. i \in 1 .. Len(accepted) /\ accepted'[i] = accepted[i]
      <4>1. i \in 1 .. Len(accepted)
        BY <1>1, <1>4, <2>5
      <4>2. QED
        BY <1>4, <4>1
    <3>2. CASE j \in 1 .. Len(accepted)
      <4>1. accepted'[j] = accepted[j]
        BY <1>4, <3>2
      <4>2. ClientStream!InOrder(accepted) /\ accepted[i].from = accepted[j].from
        BY <2>5, <3>1, <4>1 DEF IInv, Numbered
      <4>3. accepted[i].n < accepted[j].n
        <5>1. i \in 1 .. Len(accepted) /\ j \in 1 .. Len(accepted) /\ i < j
          BY <2>5, <3>1, <3>2
        <5>2. \A k, l \in 1 .. Len(accepted) :
                k < l /\ accepted[k].from = accepted[l].from => accepted[k].n < accepted[l].n
          BY ONLY <4>2 DEF ClientStream!InOrder
        <5>3. i < j /\ accepted[i].from = accepted[j].from => accepted[i].n < accepted[j].n
          BY <5>1, <5>2
        <5>4. QED
          BY <4>2, <5>1, <5>3
      <4>4. QED
        BY <3>1, <4>1, <4>3
    <3>3. CASE j = Len(accepted) + 1
      <4>1. accepted'[j].from = s /\ accepted'[j].n = offered[s] + 1
        BY <1>4, <1>5, <3>3
      <4>2. accepted[i].from = s /\ accepted[i].n <= offered[s] /\ accepted[i].n \in Nat
        BY <2>1, <2>2, <2>5, <3>1, <4>1
      <4>3. offered[s] \in Nat
        BY <1>1 DEF TypeOK
      <4>4. accepted[i].n < offered[s] + 1
        BY <4>2, <4>3
      <4>5. QED
        BY <3>1, <4>1, <4>4
    <3>4. QED
      BY <1>7, <3>2, <3>3
  <2>6. ClientStream!InOrder(accepted')
    BY <2>4, <2>5 DEF ClientStream!InOrder
  <2>7. ASSUME NEW i \in 1 .. Len(accepted')
        PROVE  accepted'[i].n <= offered'[accepted'[i].from]
    <3>1. CASE i \in 1 .. Len(accepted)
      <4> DEFINE r == accepted[i].from
      <4>1. accepted'[i] = accepted[i] /\ accepted[i].n <= offered[r] /\ accepted[i].n \in Nat
            /\ r \in Senders
        BY <1>4, <2>1, <2>2, <3>1
      <4> HIDE DEF r
      <4>2. offered[r] \in Nat /\ offered'[r] \in Nat /\ offered[r] <= offered'[r]
        <5>1. offered[r] \in Nat
          BY <1>1, <4>1 DEF TypeOK
        <5>2. CASE r = s
          BY <1>2, <5>1, <5>2
        <5>3. CASE r # s
          BY <1>2, <4>1, <5>1, <5>3
        <5>4. QED
          BY <5>1, <5>2, <5>3
      <4>3. accepted[i].n <= offered'[r]
        BY <4>1, <4>2
      <4>4. QED
        BY <4>1, <4>3 DEF r
    <3>2. CASE i = Len(accepted) + 1
      BY <1>1, <1>2, <1>4, <1>5, <3>2
    <3>3. QED
      BY <1>7, <3>1, <3>2
  <2>8. ASSUME NEW r \in Senders, ~closed, spc[r] = "idle", offered'[r] > 0
        PROVE  \E i \in 1 .. Len(accepted') : accepted'[i].from = r /\ accepted'[i].n = offered'[r]
    <3>1. CASE r = s
      <4>1. Len(accepted) + 1 \in 1 .. Len(accepted')
        BY <1>1, <1>4
      <4>2. QED
        BY <1>2, <1>4, <1>5, <3>1, <4>1
    <3>2. CASE r # s
      <4>1. offered'[r] = offered[r]
        BY <1>2, <3>2
      <4>2. PICK i \in 1 .. Len(accepted) : accepted[i].from = r /\ accepted[i].n = offered[r]
        BY <2>8, <4>1 DEF IInv, Numbered
      <4>3. i \in 1 .. Len(accepted') /\ accepted'[i] = accepted[i]
        BY <1>1, <1>4
      <4>4. QED
        BY <4>1, <4>2, <4>3
    <3>3. QED
      BY <3>1, <3>2
  <2>9. QED
    BY <1>6, <2>6, <2>7, <2>8 DEF Numbered
<1>12. QED
  BY <1>8, <1>9, <1>10, <1>11 DEF IInv

\* A message that is not accepted leaves its sender closing the channel,
\* unless the channel is closed already.
LEMMA RefuseStep ==
  ASSUME IInv, NEW s \in Senders, Offer(s), ~Accept(s)
  PROVE  IInv'
<1>1. /\ TypeOK
      /\ Len(queue) \in Nat /\ Len(accepted) \in Nat /\ Len(batch) \in Nat /\ Len(got) \in Nat
  BY DEF IInv, TypeOK
<1>2. /\ offered' \in [Senders -> Nat]
      /\ \A r \in Senders : offered[r] \in Nat /\ offered[r] <= offered'[r]
      /\ \A r \in Senders : r # s => offered'[r] = offered[r]
  <2>1. offered \in [Senders -> Nat] /\ offered' = [offered EXCEPT ![s] = offered[s] + 1]
    BY <1>1 DEF TypeOK, Offer
  <2>2. QED
    BY <2>1
<1>3. /\ UNCHANGED <<queue, accepted, closed, wpc, batch, left, socket, got>>
      /\ crashed' \in BOOLEAN /\ spc' \in [Senders -> SenderPCs]
  BY <1>1 DEF TypeOK, Offer, Accept, Panic, writerVars, SenderPCs
<1>4. \/ closed /\ UNCHANGED closed
      \/ Len(queue) = Capacity /\ spc'[s] = "closing" /\ \A r \in Senders : r # s => spc'[r] = spc[r]
  BY <1>1 DEF TypeOK, Offer, Accept, Panic, writerVars
<1>5. TypeOK'
  BY <1>1, <1>2, <1>3 DEF TypeOK
<1>6. FrameNeverWaits' /\ Chain'
  BY <1>3 DEF IInv, FrameNeverWaits, Chain, Done
<1>7. ClosedOnlyWhenFull'
  <2>1. Len(queue) <= Len(accepted)
    BY <1>1 DEF IInv, Chain, Done
  <2>2. Len(queue) = Capacity => Capacity <= Len(accepted)
    BY <2>1
  <2>3. closed => Capacity <= Len(accepted)
    BY <1>1, SendQueueAssumption DEF IInv, ClosedOnlyWhenFull
  <2>4. Capacity <= Len(accepted')
    BY <1>3, <1>4, <2>2, <2>3
  <2>5. QED
    BY <1>1, <1>3, <2>4, SendQueueAssumption DEF ClosedOnlyWhenFull
<1>8. Numbered'
  <2>1. ClientStream!InOrder(accepted')
    BY <1>3 DEF IInv, Numbered
  <2>2. ASSUME NEW i \in 1 .. Len(accepted)
        PROVE  accepted[i].n <= offered'[accepted[i].from]
    <3>1. accepted[i] \in Message
      BY <1>1 DEF TypeOK
    <3> DEFINE r == accepted[i].from
    <3>2. r \in Senders /\ accepted[i].n \in Nat /\ accepted[i].n <= offered[r]
      BY <3>1 DEF Message, IInv, Numbered
    <3> HIDE DEF r
    <3>3. offered[r] \in Nat /\ offered'[r] \in Nat /\ offered[r] <= offered'[r]
      BY <1>2, <3>2
    <3>4. accepted[i].n <= offered'[r]
      BY <3>2, <3>3
    <3>5. QED
      BY <3>4 DEF r
  <2>3. ASSUME NEW r \in Senders, ~closed, spc'[r] = "idle", offered'[r] > 0
        PROVE  \E i \in 1 .. Len(accepted) : accepted[i].from = r /\ accepted[i].n = offered'[r]
    <3>1. r # s /\ spc[r] = "idle" /\ offered'[r] = offered[r]
      BY <1>2, <1>4, <2>3
    <3>2. QED
      BY <2>3, <3>1 DEF IInv, Numbered
  <2>4. QED
    BY <1>3, <2>1, <2>2, <2>3 DEF Numbered
<1>9. QED
  BY <1>5, <1>6, <1>7, <1>8 DEF IInv

\* Either way.
LEMMA OfferStep ==
  ASSUME IInv, NEW s \in Senders, Offer(s)
  PROVE  IInv'
BY AcceptStep, RefuseStep

\* A close, or a second one that panics, moves no message.
LEMMA CloseSendStep ==
  ASSUME IInv, NEW s \in Senders, CloseSend(s)
  PROVE  IInv'
<1>1. /\ UNCHANGED <<queue, accepted, offered, wpc, batch, left, socket, got>>
      /\ closed' = TRUE
      /\ crashed' \in BOOLEAN /\ spc' \in [Senders -> SenderPCs]
  BY DEF IInv, TypeOK, CloseSend, Panic, writerVars, SenderPCs
<1>2. TypeOK'
  BY <1>1 DEF IInv, TypeOK
<1>3. FrameNeverWaits' /\ Chain' /\ Numbered'
  BY <1>1 DEF IInv, FrameNeverWaits, Chain, Done, Numbered
<1>4. ClosedOnlyWhenFull'
  BY <1>1 DEF IInv, ClosedOnlyWhenFull, CloseSend
<1>5. QED
  BY <1>2, <1>3, <1>4 DEF IInv

\* readPump returns: nothing moves.
LEMMA ReadFailsStep ==
  ASSUME IInv, ReadFails
  PROVE  IInv'
<1>1. /\ UNCHANGED <<queue, accepted, offered, wpc, batch, left, closed, crashed, got>>
      /\ socket' = "closed" /\ spc' \in [Senders -> SenderPCs]
      /\ \A r \in Senders : spc'[r] = spc[r] \/ spc'[r] = "stopped"
  BY DEF IInv, TypeOK, ReadFails, writerVars, SenderPCs, Senders
<1>2. TypeOK'
  BY <1>1 DEF IInv, TypeOK, Sockets
<1>3. FrameNeverWaits' /\ Chain'
  BY <1>1 DEF IInv, FrameNeverWaits, Chain, Done
<1>4. ClosedOnlyWhenFull' /\ Numbered'
  BY <1>1 DEF IInv, ClosedOnlyWhenFull, Numbered
<1>5. QED
  BY <1>2, <1>3, <1>4 DEF IInv

-----------------------------------------------------------------------------
(* writePump and the connection.                                           *)

\* What does not touch the senders' state keeps what is said of it.
LEMMA SendersUnchanged ==
  ASSUME IInv, UNCHANGED <<closed, offered, spc, accepted>>
  PROVE  ClosedOnlyWhenFull' /\ Numbered'
BY DEF IInv, ClosedOnlyWhenFull, Numbered

\* Receiving the first message of the queue into the frame.
LEMMA MoveToFrame ==
  ASSUME IInv, queue # << >>, queue' = Tail(queue), batch' = Append(batch, Head(queue)),
         UNCHANGED <<accepted, got, socket>>, wpc' # "select"
  PROVE  /\ queue' \in Seq(Message) /\ Len(queue') = Len(queue) - 1
         /\ batch' \in Seq(Message)
         /\ Chain'
<1> DEFINE first == Head(queue)
<1>1. /\ queue \in Seq(Message) /\ batch \in Seq(Message)
      /\ Len(queue) \in Nat \ {0} /\ Len(accepted) \in Nat /\ Len(batch) \in Nat /\ Len(got) \in Nat
  BY EmptySeq DEF IInv, TypeOK
<1>2. first = queue[1] /\ first \in Message
  BY <1>1
<1>3. /\ queue' \in Seq(Message) /\ Len(queue') = Len(queue) - 1
      /\ \A i \in 1 .. Len(queue') : queue'[i] = queue[i + 1]
  BY <1>1, HeadTailProperties
<1> HIDE DEF first
<1>4. /\ batch' \in Seq(Message) /\ Len(batch') = Len(batch) + 1
      /\ \A i \in 1 .. Len(batch) : batch'[i] = batch[i]
      /\ batch'[Len(batch) + 1] = first
  <2>1. batch' = Append(batch, first)
    BY DEF first
  <2>2. QED
    BY <1>1, <1>2, <2>1, AppendProperties
<1>5. Done' = Done /\ Len(accepted) - Len(queue) = Done + Len(batch) /\ Done \in Int
  BY <1>1, <1>3, <1>4 DEF Done
<1>6. ASSUME NEW i \in 1 .. Len(queue')
      PROVE  queue'[i] = accepted[Len(accepted) - Len(queue') + i]
  <2>1. i + 1 \in 1 .. Len(queue) /\ Len(accepted) - Len(queue') + i = Len(accepted) - Len(queue) + (i + 1)
    BY <1>1, <1>3
  <2>2. queue[i + 1] = accepted[Len(accepted) - Len(queue) + (i + 1)]
    BY <2>1 DEF IInv, Chain
  <2>3. QED
    BY <1>3, <2>1, <2>2
<1>7. ASSUME NEW i \in 1 .. Len(batch')
      PROVE  batch'[i] = accepted[Done + i]
  <2>1. CASE i \in 1 .. Len(batch)
    BY <1>4, <2>1 DEF IInv, Chain
  <2>2. CASE i = Len(batch) + 1
    <3>1. 1 \in 1 .. Len(queue) /\ Len(accepted) - Len(queue) + 1 = Done + i
      <4>1. 1 \in 1 .. Len(queue)
        BY <1>1
      <4>2. Done + (Len(batch) + 1) = Done + Len(batch) + 1
        BY <1>1, <1>5
      <4>3. QED
        BY <1>5, <2>2, <4>1, <4>2
    <3>2. queue[1] = accepted[Len(accepted) - Len(queue) + 1]
      BY <3>1 DEF IInv, Chain
    <3>3. QED
      BY <1>2, <1>4, <2>2, <3>1, <3>2
  <2>3. QED
    BY <1>1, <1>4, <2>1, <2>2
<1>8. Len(got) <= Done /\ (socket = "up" => Len(got) = Done)
      /\ \A i \in 1 .. Len(got) : got[i] = accepted[i]
  BY DEF IInv, Chain
<1>9. QED
  BY <1>3, <1>4, <1>5, <1>6, <1>7, <1>8 DEF Chain

\* A frame begins with the first message of the queue.
LEMMA TakeStep ==
  ASSUME IInv, Take
  PROVE  IInv'
<1>1. /\ UNCHANGED <<closed, offered, spc, accepted, left, socket, crashed, got>>
      /\ wpc' = "count" /\ queue # << >> /\ queue' = Tail(queue) /\ batch' = <<Head(queue)>>
  BY DEF Take, senderVars
<1>2. batch' = Append(batch, Head(queue))
  BY <1>1 DEF IInv, Chain, Take
<1>3. queue' \in Seq(Message) /\ Len(queue') = Len(queue) - 1 /\ batch' \in Seq(Message) /\ Chain'
  BY <1>1, <1>2, MoveToFrame
<1>4. TypeOK'
  BY <1>1, <1>3, SendQueueAssumption DEF IInv, TypeOK, WriterPCs
<1>5. QED
  BY <1>1, <1>3, <1>4, SendersUnchanged DEF IInv, FrameNeverWaits

\* The count is that of the queue.
LEMMA CountStep ==
  ASSUME IInv, Count
  PROVE  IInv'
<1>1. /\ UNCHANGED <<queue, closed, offered, spc, accepted, batch, socket, crashed, got>>
      /\ wpc' = "frame" /\ left' = Len(queue)
  BY DEF Count, senderVars
<1>2. Len(queue) \in 0 .. Capacity
  BY SendQueueAssumption DEF IInv, TypeOK
<1>3. TypeOK' /\ FrameNeverWaits'
  BY <1>1, <1>2 DEF IInv, TypeOK, FrameNeverWaits, WriterPCs
<1>4. Chain'
  BY <1>1 DEF IInv, Chain, Done
<1>5. QED
  BY <1>1, <1>3, <1>4, SendersUnchanged DEF IInv

\* A frame grows while the count goes down with the queue.
LEMMA MoreStep ==
  ASSUME IInv, More
  PROVE  IInv'
<1>1. /\ UNCHANGED <<closed, offered, spc, accepted, wpc, socket, crashed, got>>
      /\ wpc = "frame" /\ queue # << >> /\ queue' = Tail(queue) /\ batch' = Append(batch, Head(queue))
      /\ left > 0 /\ left' = left - 1
  BY DEF More, senderVars
<1>2. queue' \in Seq(Message) /\ Len(queue') = Len(queue) - 1 /\ batch' \in Seq(Message) /\ Chain'
  BY <1>1, MoveToFrame
<1>3. Len(queue) \in Nat /\ Len(queue) <= Capacity /\ left \in 0 .. Capacity
  BY DEF IInv, TypeOK
<1>4. TypeOK'
  <2>1. left' \in 0 .. Capacity /\ Len(queue') <= Capacity
    BY <1>1, <1>2, <1>3, SendQueueAssumption
  <2>2. QED
    BY <1>1, <1>2, <2>1 DEF IInv, TypeOK
<1>5. FrameNeverWaits'
  BY <1>1, <1>2, <1>3, SendQueueAssumption DEF IInv, FrameNeverWaits
<1>6. QED
  BY <1>1, <1>2, <1>4, <1>5, SendersUnchanged DEF IInv

\* What the client gets ends with the frame, or does not come any further.
LEMMA FlushStep ==
  ASSUME IInv, Flush
  PROVE  IInv'
<1>1. /\ UNCHANGED <<queue, closed, offered, spc, accepted, left, socket, crashed>>
      /\ wpc' = "select" /\ batch' = << >>
      /\ got' = IF socket = "up" THEN got \o batch ELSE got
  BY DEF Flush, senderVars
<1>2. /\ got \in Seq(Message) /\ batch \in Seq(Message)
      /\ Len(queue) \in Nat /\ Len(accepted) \in Nat /\ Len(batch) \in Nat /\ Len(got) \in Nat
  BY DEF IInv, TypeOK
<1>3. Len(batch') = 0 /\ Done' = Done + Len(batch) /\ Done \in Int
  <2>1. Len(batch') = 0
    BY <1>1
  <2>2. QED
    BY <1>1, <1>2, <2>1 DEF Done
<1>4. /\ got' \in Seq(Message) /\ Len(got') \in Nat
      /\ Len(got') <= Done' /\ (socket = "up" => Len(got') = Done')
      /\ \A i \in 1 .. Len(got') : got'[i] = accepted[i]
  <2>1. CASE socket # "up"
    BY <1>1, <1>2, <1>3, <2>1 DEF IInv, Chain
  <2>2. CASE socket = "up"
    <3>1. /\ got' \in Seq(Message) /\ Len(got') = Len(got) + Len(batch)
          /\ \A i \in 1 .. Len(got) + Len(batch) :
               got'[i] = IF i <= Len(got) THEN got[i] ELSE batch[i - Len(got)]
      BY <1>1, <1>2, <2>2, ConcatProperties
    <3>2. Len(got) = Done
      BY <2>2 DEF IInv, Chain
    <3>3. ASSUME NEW i \in 1 .. Len(got')
          PROVE  got'[i] = accepted[i]
      <4>1. CASE i \in 1 .. Len(got)
        <5>1. got'[i] = got[i]
          BY <1>2, <3>1, <4>1
        <5>2. QED
          BY <4>1, <5>1 DEF IInv, Chain
      <4>2. CASE i - Len(got) \in 1 .. Len(batch)
        <5>1. got'[i] = batch[i - Len(got)] /\ Done + (i - Len(got)) = i
          BY <1>2, <3>1, <3>2, <4>2
        <5>2. batch[i - Len(got)] = accepted[Done + (i - Len(got))]
          BY <4>2 DEF IInv, Chain
        <5>3. QED
          BY <5>1, <5>2
      <4>3. QED
        BY <1>2, <3>1, <4>1, <4>2
    <3>4. QED
      BY <1>2, <1>3, <3>1, <3>2, <3>3
  <2>3. QED
    BY <2>1, <2>2
<1>5. Chain'
  BY <1>1, <1>3, <1>4 DEF IInv, Chain
<1>6. TypeOK' /\ FrameNeverWaits'
  BY <1>1, <1>4 DEF IInv, TypeOK, FrameNeverWaits, WriterPCs
<1>7. QED
  BY <1>1, <1>5, <1>6, SendersUnchanged DEF IInv

\* writePump returns, or the client goes away: nothing moves.
LEMMA EndStep ==
  ASSUME IInv, WriteFails \/ EndOfQueue \/ PeerGone
  PROVE  IInv'
<1>1. /\ UNCHANGED <<queue, closed, offered, spc, batch, left, accepted, crashed, got>>
      /\ wpc' \in {wpc, "done"} /\ socket' \in {"gone", "closed"}
  BY DEF WriteFails, EndOfQueue, PeerGone, senderVars, writerVars
<1>2. TypeOK'
  BY <1>1 DEF IInv, TypeOK, WriterPCs, Sockets
<1>3. FrameNeverWaits'
  BY <1>1 DEF IInv, FrameNeverWaits
<1>4. Chain'
  BY <1>1 DEF IInv, Chain, Done
<1>5. QED
  BY <1>1, <1>2, <1>3, <1>4, SendersUnchanged DEF IInv

-----------------------------------------------------------------------------
(* The invariant holds.                                                    *)

\* No message has been offered.
LEMMA Initially == Init => IInv
<1> SUFFICES ASSUME Init PROVE IInv
  OBVIOUS
<1> USE DEF Init
<1>0. Len(queue) = 0 /\ Len(batch) = 0 /\ Len(accepted) = 0 /\ Len(got) = 0
  OBVIOUS
<1>1. TypeOK
  <2>1. /\ queue \in Seq(Message) /\ batch \in Seq(Message)
        /\ accepted \in Seq(Message) /\ got \in Seq(Message)
    OBVIOUS
  <2>2. Len(queue) <= Capacity /\ left \in 0 .. Capacity
    BY <1>0, SendQueueAssumption
  <2>3. QED
    BY <2>1, <2>2 DEF TypeOK, SenderPCs, WriterPCs, Sockets
<1>2. FrameNeverWaits /\ ClosedOnlyWhenFull
  BY DEF FrameNeverWaits, ClosedOnlyWhenFull
<1>3. Chain
  <2>1. wpc = "select" => batch = << >>
    OBVIOUS
  <2> HIDE DEF Init
  <2>2. \A i \in 1 .. 0 : FALSE
    OBVIOUS
  <2>3. QED
    BY <1>0, <2>1, <2>2 DEF Chain, Done
<1>4. Numbered
  BY <1>0 DEF Numbered, ClientStream!InOrder
<1>5. QED
  BY <1>1, <1>2, <1>3, <1>4 DEF IInv

\* Every step keeps the invariant.
LEMMA Inductive == IInv /\ [Next]_vars => IInv'
<1> SUFFICES ASSUME IInv, [Next]_vars PROVE IInv'
  OBVIOUS
<1>1. ASSUME NEW s \in Senders, Offer(s) PROVE IInv'
  BY <1>1, OfferStep
<1>2. ASSUME NEW s \in Senders, CloseSend(s) PROVE IInv'
  BY <1>2, CloseSendStep
<1>3. CASE ReadFails
  BY <1>3, ReadFailsStep
<1>4. CASE Take
  BY <1>4, TakeStep
<1>5. CASE Count
  BY <1>5, CountStep
<1>6. CASE More
  BY <1>6, MoreStep
<1>7. CASE Flush
  BY <1>7, FlushStep
<1>8. CASE WriteFails \/ EndOfQueue \/ PeerGone
  BY <1>8, EndStep
<1>9. CASE UNCHANGED vars
  BY <1>9 DEF vars, IInv, TypeOK, FrameNeverWaits, ClosedOnlyWhenFull, Chain, Done, Numbered
<1>10. QED
  BY <1>1, <1>2, <1>3, <1>4, <1>5, <1>6, <1>7, <1>8, <1>9 DEF Next, Writer

\* Hence it always holds.
LEMMA Invariance == Spec => []IInv
BY Initially, Inductive, PTL DEF Spec

-----------------------------------------------------------------------------
(* What the channel guarantees.                                            *)

\* While the client receives, all that was accepted is with it, in the frame or
\* in the channel, in this order.
NothingLost == socket = "up" => accepted = got \o batch \o queue

\* Chain says the same of each position.
LEMMA ChainJoins == IInv => NothingLost
<1> SUFFICES ASSUME IInv, socket = "up"
             PROVE  accepted = got \o batch \o queue
  BY DEF NothingLost
<1>1. /\ got \in Seq(Message) /\ batch \in Seq(Message) /\ queue \in Seq(Message)
      /\ accepted \in Seq(Message)
  BY DEF IInv, TypeOK
<1>2. /\ Len(got) \in Nat /\ Len(batch) \in Nat /\ Len(queue) \in Nat
      /\ Len(got) = Len(accepted) - Len(queue) - Len(batch) /\ Len(accepted) \in Nat
  BY <1>1 DEF IInv, Chain, Done
<1> DEFINE gb == got \o batch
<1>3. /\ gb \in Seq(Message) /\ Len(gb) = Len(got) + Len(batch)
      /\ \A i \in 1 .. Len(got) + Len(batch) :
           gb[i] = IF i <= Len(got) THEN got[i] ELSE batch[i - Len(got)]
  BY <1>1, ConcatProperties
<1> HIDE DEF gb
<1> DEFINE all == gb \o queue
<1>4. /\ all \in Seq(Message) /\ Len(all) = Len(gb) + Len(queue)
      /\ \A i \in 1 .. Len(gb) + Len(queue) :
           all[i] = IF i <= Len(gb) THEN gb[i] ELSE queue[i - Len(gb)]
  <2>1. gb \in Seq(Message) /\ queue \in Seq(Message)
    BY <1>1, <1>3
  <2>2. QED
    BY ONLY <2>1, ConcatProperties
<1> HIDE DEF all
<1>5. Len(gb) = Len(got) + Len(batch) /\ Len(all) = Len(accepted)
  BY <1>2, <1>3, <1>4
<1>6. ASSUME NEW i \in 1 .. Len(accepted)
      PROVE  all[i] = accepted[i]
  <2>1. i \in Int /\ 1 <= i /\ i <= Len(accepted)
    OBVIOUS
  <2>2. CASE i <= Len(got)
    <3>1. got[i] = accepted[i]
      BY <2>1, <2>2, <1>2 DEF IInv, Chain
    <3>2. all[i] = got[i]
      BY <1>2, <1>3, <1>4, <2>1, <2>2
    <3>3. QED
      BY <3>1, <3>2
  <2>3. CASE Len(got) < i /\ i <= Len(gb)
    <3>1. i - Len(got) \in 1 .. Len(batch) /\ Done + (i - Len(got)) = i
      BY ONLY <1>2, <1>5, <2>1, <2>3 DEF Done
    <3>2. batch[i - Len(got)] = accepted[Done + (i - Len(got))]
      BY <3>1 DEF IInv, Chain
    <3>3. all[i] = batch[i - Len(got)]
      <4>1. i \in 1 .. Len(gb) /\ ~(i <= Len(got)) /\ i \in 1 .. Len(gb) + Len(queue)
        BY ONLY <1>2, <1>5, <2>1, <2>3
      <4>2. all[i] = gb[i] /\ gb[i] = batch[i - Len(got)]
        BY <1>3, <1>4, <1>5, <4>1
      <4>3. QED
        BY <4>2
    <3>4. QED
      BY <3>1, <3>2, <3>3
  <2>4. CASE Len(gb) < i
    <3>1. /\ i - Len(gb) \in 1 .. Len(queue)
          /\ Len(accepted) - Len(queue) + (i - Len(gb)) = i
      BY ONLY <1>2, <1>5, <2>1, <2>4
    <3>2. queue[i - Len(gb)] = accepted[Len(accepted) - Len(queue) + (i - Len(gb))]
      BY <3>1 DEF IInv, Chain
    <3>3. all[i] = queue[i - Len(gb)]
      BY <1>2, <1>3, <1>4, <2>1, <2>4
    <3>4. QED
      BY <3>1, <3>2, <3>3
  <2>5. QED
    BY <1>2, <1>5, <2>1, <2>2, <2>3, <2>4
<1>7. all = accepted
  BY <1>1, <1>4, <1>5, <1>6, SeqEqual
<1>8. QED
  BY <1>7 DEF all, gb

\* Whatever is sent and closed and however slow the client is: nothing that got
\* into the channel is dropped or overtaken.
THEOREM NothingIsLost == Spec => []NothingLost
BY ChainJoins, Invariance, PTL

\* writePump leaves a connection that is fine when the channel is closed and has
\* nothing left in it.
LEMMA EndsDrained ==
  ASSUME IInv, [Next]_vars, wpc # "done", wpc' = "done", socket = "up"
  PROVE  got = accepted /\ Len(got) >= Capacity
<1>1. wpc = "select" /\ closed /\ queue = << >>
  BY DEF Next, vars, Writer, Offer, CloseSend, ReadFails, Take, Count, More, Flush, WriteFails,
         EndOfQueue, PeerGone, writerVars
<1>2. batch = << >>
  BY <1>1 DEF IInv, Chain
<1>3. /\ got \in Seq(Message) /\ accepted \in Seq(Message)
      /\ Len(queue) = 0 /\ Len(batch) = 0
  BY <1>1, <1>2 DEF IInv, TypeOK
<1>4. Len(got) = Len(accepted) /\ \A i \in 1 .. Len(got) : got[i] = accepted[i]
  BY <1>3 DEF IInv, Chain, Done
<1>5. got = accepted
  BY <1>3, <1>4, SeqEqual
<1>6. QED
  BY <1>1, <1>5 DEF IInv, ClosedOnlyWhenFull

\* A client that is dropped although it receives has got all there was.
THEOREM DroppedOnlyDrained == Spec => DrainedWhenClosed
<1>1. IInv /\ [Next]_vars =>
        [wpc # "done" /\ wpc' = "done" /\ socket = "up" =>
           got = accepted /\ Len(got) >= Capacity]_vars
  BY EndsDrained
<1>2. QED
  BY <1>1, Invariance, PTL DEF Spec, DrainedWhenClosed

\* Every variable keeps its type, and the channel never holds more than its
\* capacity.
THEOREM TypeCorrect == Spec => []TypeOK
<1>1. IInv => TypeOK
  BY DEF IInv
<1>2. QED
  BY <1>1, Invariance, PTL

\* writePump never waits in the middle of a frame, whoever sends and whoever
\* closes the channel meanwhile.
THEOREM FramesNeverWait == Spec => []FrameNeverWaits
<1>1. IInv => FrameNeverWaits
  BY DEF IInv
<1>2. QED
  BY <1>1, Invariance, PTL

\* The channel is closed, and a sender may panic, only after as many messages
\* as it holds.
THEOREM ClosedWhenFull == Spec => []ClosedOnlyWhenFull
<1>1. IInv => ClosedOnlyWhenFull
  BY DEF IInv
<1>2. QED
  BY <1>1, Invariance, PTL

\* A beginning of messages in order is in order.
LEMMA PrefixInOrder ==
  ASSUME NEW t, NEW p, Len(t) \in Nat, Len(p) \in Nat, Len(p) <= Len(t),
         ClientStream!InOrder(t), \A i \in 1 .. Len(p) : p[i] = t[i]
  PROVE  ClientStream!InOrder(p)
<1>1. ASSUME NEW i \in 1 .. Len(p)
      PROVE  p[i].n = 1 \/ \E j \in 1 .. i - 1 :
               p[j].from = p[i].from /\ p[j].n = p[i].n - 1
  <2>1. i \in 1 .. Len(t) /\ p[i] = t[i]
        /\ \A j \in 1 .. i - 1 : p[j] = t[j]
    OBVIOUS
  <2>2. t[i].n = 1 \/ \E j \in 1 .. i - 1 :
          t[j].from = t[i].from /\ t[j].n = t[i].n - 1
    BY <2>1 DEF ClientStream!InOrder
  <2>3. QED
    BY <2>1, <2>2
<1>2. ASSUME NEW i \in 1 .. Len(p), NEW j \in 1 .. Len(p), i < j, p[i].from = p[j].from
      PROVE  p[i].n < p[j].n
  <2>1. i \in 1 .. Len(t) /\ j \in 1 .. Len(t)
        /\ p[i] = t[i] /\ p[j] = t[j]
    OBVIOUS
  <2>2. QED
    BY <1>2, <2>1 DEF ClientStream!InOrder
<1>3. QED
  BY <1>1, <1>2 DEF ClientStream!InOrder

\* Every step either leaves what the client has alone or lets it go on.
LEMMA StepContinues ==
  ASSUME IInv, [Next]_vars
  PROVE  got' = got \/ ClientStream!Continues(got, got')
<1>1. CASE Flush
  <2>1. got \in Seq(Message) /\ batch \in Seq(Message)
    BY DEF IInv, TypeOK
  <2>2. got' = got \/ got' = got \o batch
    BY <1>1 DEF Flush
  <2>3. CASE got' = got \o batch
    <3>1. Len(got') = Len(got) + Len(batch) /\ Len(got) \in Nat /\ Len(batch) \in Nat
          /\ \A i \in 1 .. Len(got) : got'[i] = got[i]
      BY <2>1, <2>3, ConcatProperties
    <3>2. QED
      BY <3>1 DEF ClientStream!Continues
  <2>4. QED
    BY <2>2, <2>3
<1>2. CASE ~Flush
  BY <1>2 DEF Next, vars, Writer, Offer, CloseSend, ReadFails, Take, Count, More,
              WriteFails, EndOfQueue, PeerGone
<1>3. QED
  BY <1>1, <1>2

\* The client gets the messages of each sender in order, none twice and none
\* left out before the end of what it gets.
THEOREM ImplementsStream == Spec => StreamSpec
<1>1. Init => ClientStream!StreamInit
  BY DEF Init, ClientStream!StreamInit
<1>2. IInv /\ IInv' /\ [Next]_vars => [ClientStream!Receive]_got
  <2> SUFFICES ASSUME IInv, IInv', [Next]_vars PROVE [ClientStream!Receive]_got
    OBVIOUS
  <2>1. /\ Len(accepted') \in Nat /\ Len(got') \in Nat /\ Len(got') <= Len(accepted')
        /\ \A i \in 1 .. Len(got') : got'[i] = accepted'[i]
    <3>1. /\ Len(accepted') \in Nat /\ Len(got') \in Nat
          /\ Len(queue') \in Nat /\ Len(batch') \in Nat
      BY DEF IInv, TypeOK
    <3>2. QED
      BY <3>1 DEF IInv, Chain, Done
  <2>2. ClientStream!InOrder(got')
    BY <2>1, PrefixInOrder DEF IInv, Numbered
  <2>3. QED
    BY <2>2, StepContinues DEF ClientStream!Receive
<1>3. QED
  BY <1>1, <1>2, Invariance, PTL DEF Spec, StreamSpec, ClientStream!StreamSpec
=============================================================================
