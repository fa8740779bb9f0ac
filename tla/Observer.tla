------------------------------ MODULE Observer ------------------------------
(***************************************************************************)
(* What a subscriber to the topology may rely on: every view it is shown   *)
(* was the membership at one moment, each later than the one before, and   *)
(* is shown because a member has come, gone or changed its health since.   *)
(* Moments may be skipped, and a change of address alone is not shown.     *)
(***************************************************************************)
EXTENDS Integers, Sequences

CONSTANTS Nodes, Services, Gone

VARIABLES
  hist,  \* the views of the cluster so far
  seen   \* the moment the subscriber was shown last, 0 before the first

vars == <<hist, seen>>

Nothing    == [n \in Nodes |-> Gone]
View(i)    == IF i = 0 THEN Nothing ELSE hist[i]
Healths(i) == [n \in Nodes |-> View(i)[n].health]

Init ==
  /\ \E v \in [Nodes -> Services] : hist = <<v>>
  /\ seen = 0

Change ==
  /\ \E v \in [Nodes -> Services] : hist' = Append(hist, v)
  /\ UNCHANGED seen

Show(i) ==
  /\ \E j \in seen + 1 .. i : Healths(j) # Healths(seen)
  /\ seen' = i
  /\ UNCHANGED hist

Next == Change \/ \E i \in 1 .. Len(hist) : Show(i)

Spec == Init /\ [][Next]_vars
=============================================================================
