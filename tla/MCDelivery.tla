----------------------------- MODULE MCDelivery -----------------------------
(* Small instances of Delivery for TLC.                                    *)
EXTENDS Delivery, TLC

CONSTANTS c1, c2

\* Of two clients with one grain it is c1 that has it: the other behaviours are
\* the same with the names changed.
GrainFirst == ~(pc'[c1] # "new" /\ ~grain'[c1] /\ grain'[c2])

MCSpec == Init /\ [][Next /\ GrainFirst]_vars /\ Fairness
=============================================================================
