------------------------------ MODULE RoomLog ------------------------------
(***************************************************************************)
(* What a chat room promises its members, with nothing of how ChatGrain    *)
(* keeps its state: every room has one event log, which only grows until   *)
(* the room is activated anew and it begins again, and it is a membership  *)
(* protocol - only somebody who is not in the room joins, only somebody    *)
(* who is in the room speaks or leaves.  Who is in the room is a function  *)
(* of the log alone.                                                       *)
(***************************************************************************)
EXTENDS Integers, Sequences

CONSTANTS Rooms, Users, Ids  \* Ids: what message ids are drawn from

VARIABLE log  \* log[r]: every event of room r since it was activated

\* User u is in a room whose log is l: a JOIN of u that no LEAVE of u follows.
Present(l, u) ==
  \E j \in 1 .. Len(l) :
    /\ l[j].kind = "JOIN" /\ l[j].user = u
    /\ \A i \in j + 1 .. Len(l) : ~(l[i].kind = "LEAVE" /\ l[i].user = u)

\* May user u contribute an event of this kind to a room whose log is l?
Legal(l, kind, u) ==
  CASE kind = "JOIN" -> ~Present(l, u)
    [] OTHER         -> Present(l, u)

RoomLogInit == log = [r \in Rooms |-> << >>]

\* Room r records one legal event; the other logs stay as they are.
Record(r, kind, u) ==
  /\ Legal(log[r], kind, u)
  /\ \E t \in Ids :
       log' = [log EXCEPT ![r] = Append(@, [id |-> t, kind |-> kind, user |-> u])]

\* Room r is activated anew: all at once, whoever is in it, it is empty.
Begin(r) == log' = [log EXCEPT ![r] = << >>]

RoomLogNext ==
  \E r \in Rooms :
    \/ Begin(r)
    \/ \E u \in Users, kind \in {"JOIN", "LEAVE", "TEXT"} : Record(r, kind, u)

RoomLogSpec == RoomLogInit /\ [][RoomLogNext]_log
=============================================================================
