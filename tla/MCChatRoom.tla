----------------------------- MODULE MCChatRoom -----------------------------
(* Small instances of ChatRoom for TLC.                                       *)
EXTENDS ChatRoom, TLC

Symmetry == Permutations(Users) \cup Permutations(Rooms) \cup Permutations(Nodes)
=============================================================================
