----------------------------- MODULE MCKVStore -----------------------------
(* Small instances of KVStore for TLC.                                     *)
EXTENDS KVStore, TLC

CONSTANTS k1, k2, k3, w1, w2

\* Two disjoint prefixes, one of them with two keys and one with one.
TwoPrefixes == (w1 :> {k1, k2}) @@ (w2 :> {k3})

\* Two watchers of the same prefix, the second for when the first is removed.
OnePrefix == (w1 :> {k1, k2}) @@ (w2 :> {k1, k2})
=============================================================================
