----------------------------- MODULE SendQueue -----------------------------
(***************************************************************************)
(* How one connection of the gateway is written to: the channel            *)
(* client.send, the goroutines that send on it through sendToClient        *)
(* (internal/api/websocket.go: readPump's handlers; wsclient.go: the       *)
(* WebSocketGrain, for room messages), and writePump, which empties it     *)
(* into the connection, several messages to a frame.                       *)
(*                                                                         *)
(* A send on the channel does not block: a sender that finds it full       *)
(* closes it, in a second step.  A sender that finds it closed panics.     *)
(* The runtime is external: a panic in readPump ends the process, one in   *)
(* an actor is recovered from by its supervisor.                           *)
(*                                                                         *)
(* A message is known by its sender and its number among those the sender  *)
(* has offered.                                                            *)
(***************************************************************************)
EXTENDS Integers, Sequences

CONSTANTS
  Reader,    \* the readPump of the connection
  Grains,    \* the WebSocketGrains that send to it, one per login
  Capacity,  \* of the channel (256)
  MaxOffers  \* bound: messages each sender offers

Senders == {Reader} \cup Grains

ASSUME SendQueueAssumption ==
  /\ Reader \notin Grains
  /\ Capacity \in Nat \ {0}
  /\ MaxOffers \in Nat

VARIABLES
  queue,    \* the messages in client.send
  closed,   \* client.send is closed
  offered,  \* offered[s]: how many messages s has offered
  spc,      \* where each sender is
  wpc,      \* where writePump is
  batch,    \* the messages of the frame it is writing
  left,     \* how many more it will put into it
  socket,   \* client.conn
  crashed,  \* the process has ended
  accepted, \* history variable: every message ever put into the channel
  got       \* history variable: every message the client has received

senderVars == <<offered, spc>>
writerVars == <<wpc, batch, left>>
vars == <<queue, closed, offered, spc, wpc, batch, left, socket, crashed, accepted, got>>

Message == [from : Senders, n : Nat \ {0}]

SenderPCs == {"idle",     \* between two messages
              "closing",  \* has found the channel full and is about to close it
              "stopped"}  \* readPump has returned, the actor has been stopped
WriterPCs == {"select",   \* waiting for a message or for the ticker
              "count",    \* has received a message
              "frame",    \* is adding the queued messages to it
              "done"}     \* has returned
Sockets   == {"up",       \* what is written reaches the client
              "gone",     \* it does not, which nobody has noticed yet
              "closed"}   \* conn.Close has been called

-----------------------------------------------------------------------------
(* The senders.                                                            *)

\* A send on a closed channel, or a second close.
Panic(s) ==
  /\ IF s = Reader
     THEN crashed' = TRUE /\ UNCHANGED spc
     ELSE /\ \E pc \in {"idle", "stopped"} : spc' = [spc EXCEPT ![s] = pc]
          /\ UNCHANGED crashed
  /\ UNCHANGED <<queue, accepted, closed>>

\* sendToClient up to its select: the message is queued or there is no space.
Offer(s) ==
  /\ spc[s] = "idle" /\ offered[s] < MaxOffers
  /\ offered' = [offered EXCEPT ![s] = @ + 1]
  /\ \/ closed /\ Panic(s)
     \/ /\ ~closed /\ Len(queue) < Capacity
        /\ queue' = Append(queue, [from |-> s, n |-> offered'[s]])
        /\ accepted' = Append(accepted, [from |-> s, n |-> offered'[s]])
        /\ UNCHANGED <<closed, spc, crashed>>
     \/ /\ ~closed /\ Len(queue) = Capacity
        /\ spc' = [spc EXCEPT ![s] = "closing"]
        /\ UNCHANGED <<queue, accepted, closed, crashed>>
  /\ UNCHANGED <<writerVars, socket, got>>

\* Mutant: what does not fit is dropped, as SendToUser does.
CloseSendNot(s) ==
  /\ spc[s] = "closing"
  /\ spc' = [spc EXCEPT ![s] = "idle"]
  /\ UNCHANGED <<queue, closed, offered, writerVars, socket, crashed, accepted, got>>

\* The default case of its select.
CloseSend(s) ==
  /\ spc[s] = "closing"
  /\ \/ closed /\ Panic(s)
     \/ /\ ~closed
        /\ closed' = TRUE
        /\ spc' = [spc EXCEPT ![s] = "idle"]
        /\ UNCHANGED <<queue, accepted, crashed>>
  /\ UNCHANGED <<offered, writerVars, socket, got>>

\* readPump: a read fails, if only for its deadline.  The channel is left to
\* the grains, which are not told.
ReadFails ==
  /\ spc[Reader] = "idle" /\ socket # "up"
  /\ spc' = [spc EXCEPT ![Reader] = "stopped"]
  /\ socket' = "closed"
  /\ UNCHANGED <<queue, closed, offered, writerVars, crashed, accepted, got>>

-----------------------------------------------------------------------------
(* writePump.                                                              *)

\* A message is received ...
Take ==
  /\ wpc = "select" /\ queue # << >>
  /\ batch' = <<Head(queue)>>
  /\ queue' = Tail(queue)
  /\ wpc' = "count"
  /\ UNCHANGED <<closed, senderVars, left, socket, crashed, accepted, got>>

\* Mutant: the message received is counted again.
CountTooMany ==
  /\ wpc = "count"
  /\ left' = Len(queue) + 1
  /\ wpc' = "frame"
  /\ UNCHANGED <<queue, closed, senderVars, batch, socket, crashed, accepted, got>>

\* ... those behind it are counted ...
Count ==
  /\ wpc = "count"
  /\ left' = Len(queue)
  /\ wpc' = "frame"
  /\ UNCHANGED <<queue, closed, senderVars, batch, socket, crashed, accepted, got>>

\* ... and received in turn ...
More ==
  /\ wpc = "frame" /\ left > 0 /\ queue # << >>
  /\ batch' = Append(batch, Head(queue))
  /\ queue' = Tail(queue)
  /\ left' = left - 1
  /\ UNCHANGED <<closed, senderVars, wpc, socket, crashed, accepted, got>>

\* ... and the frame is written; if nobody receives it, that need not show.
Flush ==
  /\ wpc = "frame" /\ left = 0 /\ socket # "closed"
  /\ got' = IF socket = "up" THEN got \o batch ELSE got
  /\ batch' = << >>
  /\ wpc' = "select"
  /\ UNCHANGED <<queue, closed, senderVars, left, socket, crashed, accepted>>

\* A ping, the start of a frame or its end fails: what was received is lost.
WriteFails ==
  /\ wpc \in {"select", "count"} \/ (wpc = "frame" /\ left = 0)
  /\ socket # "up"
  /\ wpc' = "done" /\ socket' = "closed"
  /\ UNCHANGED <<queue, closed, senderVars, batch, left, crashed, accepted, got>>

\* Mutant: a channel that is closed is taken to be empty.
EndOfQueueAtOnce ==
  /\ wpc = "select" /\ closed
  /\ wpc' = "done" /\ socket' = "closed"
  /\ UNCHANGED <<queue, closed, senderVars, batch, left, crashed, accepted, got>>

\* Mutant: the connection is not closed.
EndOfQueueSilently ==
  /\ wpc = "select" /\ closed /\ queue = << >>
  /\ wpc' = "done"
  /\ UNCHANGED <<queue, closed, senderVars, batch, left, socket, crashed, accepted, got>>

\* The channel is closed and empty.
EndOfQueue ==
  /\ wpc = "select" /\ closed /\ queue = << >>
  /\ wpc' = "done" /\ socket' = "closed"
  /\ UNCHANGED <<queue, closed, senderVars, batch, left, crashed, accepted, got>>

\* The client goes away, or stops reading for longer than a deadline.
PeerGone ==
  /\ socket = "up"
  /\ socket' = "gone"
  /\ UNCHANGED <<queue, closed, senderVars, writerVars, crashed, accepted, got>>

-----------------------------------------------------------------------------
Init ==
  /\ queue = << >> /\ closed = FALSE
  /\ offered = [s \in Senders |-> 0]
  /\ spc = [s \in Senders |-> "idle"]
  /\ wpc = "select" /\ batch = << >> /\ left = 0
  /\ socket = "up" /\ crashed = FALSE
  /\ accepted = << >> /\ got = << >>

Writer == Take \/ Count \/ More \/ Flush \/ WriteFails \/ EndOfQueue

Next ==
  /\ ~crashed
  /\ \/ \E s \in Senders : Offer(s) \/ CloseSend(s)
     \/ ReadFails
     \/ Writer
     \/ PeerGone

\* The goroutines run on; the ticker and the deadlines make writePump and
\* readPump notice a connection that is gone.  Nobody has to send anything.
Fairness ==
  /\ WF_vars(~crashed /\ Writer)
  /\ WF_vars(~crashed /\ ReadFails)
  /\ \A s \in Senders : WF_vars(~crashed /\ CloseSend(s))

Spec     == Init /\ [][Next]_vars
FairSpec == Spec /\ Fairness

-----------------------------------------------------------------------------
(* Properties.                                                             *)

\* Every variable has its type, the channel holds no more than its capacity.
TypeOK ==
  /\ queue \in Seq(Message) /\ Len(queue) <= Capacity
  /\ closed \in BOOLEAN
  /\ offered \in [Senders -> Nat]
  /\ spc \in [Senders -> SenderPCs]
  /\ wpc \in WriterPCs
  /\ batch \in Seq(Message)
  /\ left \in 0 .. Capacity
  /\ socket \in Sockets
  /\ crashed \in BOOLEAN
  /\ accepted \in Seq(Message)
  /\ got \in Seq(Message)

\* writePump counts the queue and then receives that many messages, while
\* senders go on and one of them may close the channel: it never waits for a
\* message in the middle of a frame, nor writes the nil of a closed channel.
FrameNeverWaits == wpc = "frame" => left <= Len(queue)

\* A client that still receives is dropped for being too slow, and for nothing
\* else: it has been given as many messages as the channel holds by then, and
\* all that any sender ever got into it, before it was closed.
DrainedWhenClosed ==
  [][wpc # "done" /\ wpc' = "done" /\ socket = "up" =>
       got = accepted /\ Len(got) >= Capacity]_vars

\* The client sees a Stream: an overflow, a lost frame or a crash may end it,
\* and never leaves a gap in the middle of what it gets.
ClientStream == INSTANCE Stream
StreamSpec   == ClientStream!StreamSpec

\* The two pumps end together: when the channel is closed or the connection
\* gone, writePump and readPump both return, each by way of what the other did
\* to the connection.
PumpsEnd ==
  closed \/ socket # "up" ~> (wpc = "done" /\ spc[Reader] = "stopped") \/ crashed

-----------------------------------------------------------------------------
(* Statements of the source that the code does not keep.                   *)

\* chat.js:138, 142 "handle a WebSocket message": the client parses a frame as
\* one message.
OneMessagePerFrame == [][Len(got') <= Len(got) + 1]_vars
=============================================================================
