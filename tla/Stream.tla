------------------------------- MODULE Stream -------------------------------
(***************************************************************************)
(* What a client may rely on, with nothing of how the messages reach it:   *)
(* it gets the messages of each sender in the order they were sent, each   *)
(* once and none left out.  The stream may end at any point, and then      *)
(* nothing comes after the gap.                                            *)
(***************************************************************************)
EXTENDS Integers, Sequences

VARIABLE got  \* every message the client has received: who sent it, which one

\* Sequence s has no gap: a message comes after all earlier ones of its sender.
InOrder(s) ==
  /\ \A i \in 1 .. Len(s) : s[i].n = 1 \/ \E j \in 1 .. i - 1 :
                              s[j].from = s[i].from /\ s[j].n = s[i].n - 1
  /\ \A i, j \in 1 .. Len(s) : i < j /\ s[i].from = s[j].from => s[i].n < s[j].n

\* Sequence t continues s.
Continues(s, t) ==
  Len(s) <= Len(t) /\ \A i \in 1 .. Len(s) : t[i] = s[i]

StreamInit == got = << >>
Receive    == Continues(got, got') /\ InOrder(got')
StreamSpec == StreamInit /\ [][Receive]_got
=============================================================================
