-------------------------------- MODULE Feed --------------------------------
(***************************************************************************)
(* What the topics of chat rooms promise: a room says one message after    *)
(* the other, and what a client hears of a room comes in the order it was  *)
(* said, each message at most once.  Messages may be missing: a client may *)
(* subscribe late, and neither publishing nor delivering is repeated.      *)
(* Whoever says a message may also get it in the reply, at most once and   *)
(* in order with its other replies, but before or after what comes by the  *)
(* topic.                                                                  *)
(***************************************************************************)
EXTENDS Integers, Sequences

CONSTANTS Rooms, Clients

VARIABLES
  log,   \* log[r]: the sender of each message of room r
  heard  \* heard[r][c]: the messages of r that client c has heard, and by which way

vars == <<log, heard>>

Ways == {"topic", "reply"}

\* What came by the same way before is older.
News(s, way, n) == \A i \in 1 .. Len(s) : s[i].way = way => s[i].n < n

Init ==
  /\ log = [r \in Rooms |-> << >>]
  /\ heard = [r \in Rooms |-> [c \in Clients |-> << >>]]

Say(r, c) ==
  /\ log' = [log EXCEPT ![r] = Append(@, c)]
  /\ UNCHANGED heard

Hear(r, c, way, n) ==
  /\ News(heard[r][c], way, n)
  /\ way = "reply" => log[r][n] = c
  /\ heard' = [heard EXCEPT ![r][c] = Append(@, [way |-> way, n |-> n])]
  /\ UNCHANGED log

Next ==
  \E r \in Rooms, c \in Clients :
    Say(r, c) \/ \E way \in Ways, n \in 1 .. Len(log[r]) : Hear(r, c, way, n)

Spec == Init /\ [][Next]_vars
=============================================================================
