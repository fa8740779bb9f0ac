--------------------------- MODULE SnapshotCache ---------------------------
(***************************************************************************)
(* What a node's KV cache promises its readers, with nothing of how the    *)
(* watchers keep it: for each watched prefix the cache holds exactly what  *)
(* the store held at one index, the prefix's view, and the view only moves *)
(* forward.  Readers may see the past; they never see a mixture of two     *)
(* moments, nor an earlier moment after a later one.                       *)
(***************************************************************************)
EXTENDS Integers, Sequences

CONSTANTS
  Keys,
  Watched,  \* the prefixes the cache follows, as names ...
  Under     \* ... and the keys each of them covers

VARIABLES
  hist,   \* hist[i]: the store at index i, the version of every key (0: absent)
  cache,  \* cache[k]: the version of key k the readers see
  view    \* view[w]: the index whose store they see under prefix w (0: none yet)

Stores == [Keys -> {0, 1}]

SnapshotInit ==
  /\ hist \in {<<s>> : s \in Stores}
  /\ cache = [k \in Keys |-> 0]
  /\ view = [w \in Watched |-> 0]

\* The store gives one key a new version, or deletes it.
Write(k) ==
  /\ \E v \in {0, Len(hist) + 1} :
       hist' = Append(hist, [hist[Len(hist)] EXCEPT ![k] = v])
  /\ UNCHANGED <<cache, view>>

\* The readers are shown a later moment of one prefix.
Advance(w, i) ==
  /\ i > view[w]
  /\ view' = [view EXCEPT ![w] = i]
  /\ cache' = [k \in Keys |-> IF k \in Under[w] THEN hist[i][k] ELSE cache[k]]
  /\ UNCHANGED hist

SnapshotNext ==
  \/ \E k \in Keys : Write(k)
  \/ \E w \in Watched : \E i \in 1 .. Len(hist) : Advance(w, i)

SnapshotSpec == SnapshotInit /\ [][SnapshotNext]_<<hist, cache, view>>
=============================================================================
