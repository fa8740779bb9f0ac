-------------------------- MODULE MCConsulProvider --------------------------
(* Small instances of ConsulProvider for TLC.                              *)
EXTENDS ConsulProvider, TLC

CONSTANTS n1, n2, a1

\* TLC does not use symmetry with liveness.  Of the first states that differ only
\* in which address is which, one is enough.
MCInit == Init /\ hist[1][n1].addr \in {a1, "none"}
               /\ (hist[1][n1] = Gone => hist[1][n2].addr \in {a1, "none"})

MCSpec == MCInit /\ [][Next]_vars /\ Fairness
=============================================================================
