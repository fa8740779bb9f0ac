----------------------------- MODULE MCGateway -----------------------------
(* Small instances of Gateway for TLC.                                     *)
EXTENDS Gateway, TLC

\* Bound: of the UserGrain and the room only one at a time has forgotten anybody.
OneForgets == \A p, q \in forgotten' : p[2] = q[2]

MCSpec == Init /\ [][Next /\ OneForgets]_vars /\ Fairness
=============================================================================
