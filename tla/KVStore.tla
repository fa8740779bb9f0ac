------------------------------ MODULE KVStore ------------------------------
(***************************************************************************)
(* The local cache of Consul's KV store that every node keeps              *)
(* (internal/kvstore/kvstore.go, watcher.go): KVStore.Start loads every    *)
(* watched prefix and starts one goroutine per Watcher, which repeats a    *)
(* blocking List query and copies each answer into the cache.              *)
(*                                                                         *)
(* A value is represented by its ModifyIndex: two entries of a key are the *)
(* same entry iff they carry the same index, and 0 stands for no entry.    *)
(* Consul is external.  Its history is kept in hist, hist[i] being the     *)
(* store at index i, so that an answer to a query is just an index.        *)
(*                                                                         *)
(* A prefix is represented by the set of keys that start with it.          *)
(* watchersMu is held by Start across its queries (starting); k.mu is held *)
(* only within a step.                                                     *)
(***************************************************************************)
EXTENDS Integers, Sequences, FiniteSets

CONSTANTS
  Keys,
  Watchers,  \* Watcher objects; each is installed at most once in its life
  Under,     \* Under[w]: the keys under the prefix of w
  Default,   \* the watchers NewKVStore installs
  MaxIndex   \* bound: how far Consul's index goes

ASSUME KVStoreAssumption ==
  /\ Under \in [Watchers -> SUBSET Keys]
  /\ Default \subseteq Watchers
  /\ \A v, w \in Default : v # w => Under[v] \cap Under[w] = {}

VARIABLES
  hist,       \* Consul: hist[i][k] is the ModifyIndex of key k at index i
  cache,      \* k.cache: the ModifyIndex of the cached entry of each key
  installed,  \* k.watchers
  isRunning,  \* k.isRunning
  starting,   \* Start holds watchersMu
  toLoad,     \* the watchers whose prefix Start has not loaded yet
  pc,         \* where the goroutine of each watcher is
  lastIndex,  \* w.lastIndex
  stopped,    \* w.stopCh is closed
  answer,     \* the LastIndex of the answer w or Start is about to use (0: none)
  foreign     \* history variable: what other watchers have done under w's prefix

consulVars  == hist
managerVars == <<installed, isRunning, starting, toLoad, stopped>>
vars == <<hist, cache, installed, isRunning, starting, toLoad, pc, lastIndex, stopped, answer,
          foreign>>

PCs == {"idle",      \* no goroutine yet
        "top",       \* at the select of start()
        "query",     \* in the blocking List of watchOnce
        "answered",  \* the query has returned, the answer is not applied
        "backoff",   \* sleeping after an error
        "done"}      \* start() has returned

\* Has another watcher written into the cache under the prefix of w since w, or
\* Start for it, listed the answer that was applied last?
Foreign == {"none",    \* no
            "unseen",  \* yes, and nothing has been listed for w since
            "seen"}    \* yes, and an answer is at hand that was listed afterwards

-----------------------------------------------------------------------------
(* Consul, as KVStore uses it.                                             *)

Index   == Len(hist)
Current == hist[Index]

\* Some key of S was put or deleted at index i.
ChangedAt(S, i) ==
  \E k \in S : hist[i][k] = i \/ (i > 1 /\ hist[i][k] # hist[i - 1][k])

\* i is the LastIndex Consul gives with a list of the keys S: the last index
\* that changed one of them or, if none ever did, the index of the table.
IsLastIndex(S, i) ==
  /\ i \in 1 .. Index
  /\ \A j \in i .. Index : \A k \in S : hist[j][k] = Current[k]
  /\ \/ ChangedAt(S, i)
     \/ i = Index /\ \A j \in 1 .. Index : ~ChangedAt(S, j)

\* KVStore.Set, or a SetWithCAS that succeeds, on this node or another.
Put(k) ==
  /\ Index < MaxIndex
  /\ hist' = Append(hist, [Current EXCEPT ![k] = Index + 1])
  /\ UNCHANGED <<cache, pc, lastIndex, answer, foreign, managerVars>>

\* KVStore.Delete, on this node or another; without the key nothing changes.
Delete(k) ==
  /\ Index < MaxIndex
  /\ Current[k] # 0
  /\ hist' = Append(hist, [Current EXCEPT ![k] = 0])
  /\ UNCHANGED <<cache, pc, lastIndex, answer, foreign, managerVars>>

-----------------------------------------------------------------------------
(* syncCache and the watcher's goroutine.                                  *)

\* Mutant: nothing is deleted.
SyncCacheKeeping(S, i) ==
  cache' = [k \in Keys |-> IF k \notin S \/ hist[i][k] <= cache[k]
                           THEN cache[k] ELSE hist[i][k]]

\* Mutant: the keys of other prefixes are not told apart, and deleted.
SyncCacheEverything(S, i) ==
  cache' = [k \in Keys |-> IF k \notin S THEN 0
                           ELSE IF hist[i][k] # 0 /\ hist[i][k] <= cache[k]
                           THEN cache[k] ELSE hist[i][k]]

\* syncCache(prefix, pairs): what is new or newer is copied, what the answer
\* lacks is deleted, and keys of other prefixes are left alone.
SyncCache(S, i) ==
  cache' = [k \in Keys |-> IF k \notin S \/ (hist[i][k] # 0 /\ hist[i][k] <= cache[k])
                           THEN cache[k] ELSE hist[i][k]]

\* An answer is listed for w, applied, or thrown away.
Listed(w)  == foreign' = [foreign EXCEPT ![w] = IF @ = "unseen" THEN "seen" ELSE @]
Applied(w) == foreign' = [v \in Watchers |->
  IF v = w THEN IF foreign[w] = "seen" THEN "none" ELSE foreign[w]
  ELSE IF Under[v] \cap Under[w] # {} THEN "unseen" ELSE foreign[v]]
Skipped(w) == foreign' = [foreign EXCEPT ![w] = IF @ = "seen" THEN "unseen" ELSE @]

Goto(w, from, to) == pc[w] = from /\ pc' = [pc EXCEPT ![w] = to]

\* Mutant: the stop signal is not looked at.
PollBlindly(w) ==
  /\ Goto(w, "top", "query")
  /\ UNCHANGED <<consulVars, cache, lastIndex, answer, foreign, managerVars>>

\* start(): the stop signal is looked at here and nowhere else.
Poll(w) ==
  /\ Goto(w, "top", IF stopped[w] THEN "done" ELSE "query")
  /\ UNCHANGED <<consulVars, cache, lastIndex, answer, foreign, managerVars>>

\* The List of watchOnce returns because something changed since lastIndex, or
\* at once when it is 0.
Answer(w) ==
  /\ Goto(w, "query", "answered")
  /\ \E i \in 1 .. Index :
       /\ IsLastIndex(Under[w], i)
       /\ i > lastIndex[w]
       /\ answer' = [answer EXCEPT ![w] = i]
  /\ Listed(w)
  /\ UNCHANGED <<consulVars, cache, lastIndex, managerVars>>

\* It returns unchanged after WaitTime.
TimeOut(w) ==
  /\ Goto(w, "query", "answered")
  /\ \E i \in 1 .. Index :
       /\ IsLastIndex(Under[w], i)
       /\ i <= lastIndex[w]
       /\ answer' = [answer EXCEPT ![w] = i]
  /\ Listed(w)
  /\ UNCHANGED <<consulVars, cache, lastIndex, managerVars>>

\* Mutant: the goroutine gives up when a query fails.
FailForGood(w) ==
  /\ Goto(w, "query", "done")
  /\ UNCHANGED <<consulVars, cache, lastIndex, answer, foreign, managerVars>>

\* It fails.
Fail(w) ==
  /\ Goto(w, "query", "backoff")
  /\ UNCHANGED <<consulVars, cache, lastIndex, answer, foreign, managerVars>>

\* The second after an error is over.
WakeUp(w) ==
  /\ Goto(w, "backoff", "top")
  /\ UNCHANGED <<consulVars, cache, lastIndex, answer, foreign, managerVars>>

\* The rest of watchOnce when the answer is newer than the last one ...
Apply(w) ==
  /\ Goto(w, "answered", "top")
  /\ answer[w] > lastIndex[w]
  /\ lastIndex' = [lastIndex EXCEPT ![w] = answer[w]]
  /\ SyncCache(Under[w], answer[w])
  /\ answer' = [answer EXCEPT ![w] = 0]
  /\ Applied(w)
  /\ UNCHANGED <<consulVars, managerVars>>

\* ... and when it is not.
Skip(w) ==
  /\ Goto(w, "answered", "top")
  /\ answer[w] <= lastIndex[w]
  /\ answer' = [answer EXCEPT ![w] = 0]
  /\ Skipped(w)
  /\ UNCHANGED <<consulVars, cache, lastIndex, managerVars>>

-----------------------------------------------------------------------------
(* Start, Stop, AddWatcher, RemoveWatcher.                                 *)

\* Mutant: the managers do not take watchersMu.
LockAlwaysFree == TRUE

\* watchersMu is free.
LockFree == ~starting

\* Start takes watchersMu and finds the store not running.
StartBegin ==
  /\ LockFree /\ ~isRunning
  /\ starting' = TRUE /\ isRunning' = TRUE
  /\ toLoad' = installed
  /\ UNCHANGED <<consulVars, cache, pc, lastIndex, answer, foreign, installed, stopped>>

\* The List of one prefix returns ...
StartList(w) ==
  /\ starting /\ w \in toLoad
  /\ \A v \in toLoad : answer[v] = 0
  /\ \E i \in 1 .. Index :
       IsLastIndex(Under[w], i) /\ answer' = [answer EXCEPT ![w] = i]
  /\ Listed(w)
  /\ UNCHANGED <<consulVars, cache, pc, lastIndex, managerVars>>

\* ... and is copied into the cache, or ...
StartSync(w) ==
  /\ starting /\ w \in toLoad /\ answer[w] # 0
  /\ lastIndex' = [lastIndex EXCEPT ![w] = answer[w]]
  /\ SyncCache(Under[w], answer[w])
  /\ answer' = [answer EXCEPT ![w] = 0]
  /\ Applied(w)
  /\ toLoad' = toLoad \ {w}
  /\ UNCHANGED <<consulVars, pc, installed, isRunning, starting, stopped>>

\* ... it fails and the prefix is passed over.
StartListFails(w) ==
  /\ starting /\ w \in toLoad
  /\ \A v \in toLoad : answer[v] = 0
  /\ toLoad' = toLoad \ {w}
  /\ UNCHANGED <<consulVars, cache, pc, lastIndex, answer, foreign,
                 installed, isRunning, starting, stopped>>

\* With all prefixes loaded the goroutines are started and the lock released.
StartEnd ==
  /\ starting /\ toLoad = {}
  /\ starting' = FALSE
  /\ pc' = [w \in Watchers |-> IF w \in installed THEN "top" ELSE pc[w]]
  /\ UNCHANGED <<consulVars, cache, lastIndex, answer, foreign,
                 installed, isRunning, toLoad, stopped>>

\* Stop closes every stopCh and forgets the watchers.  It waits for none of the
\* goroutines, and a later Start has nothing to watch.
Stop ==
  /\ LockFree /\ isRunning
  /\ isRunning' = FALSE
  /\ stopped' = [w \in Watchers |-> stopped[w] \/ w \in installed]
  /\ installed' = {}
  /\ UNCHANGED <<consulVars, cache, pc, lastIndex, answer, foreign, starting, toLoad>>

\* AddWatcher of a prefix that is not watched, with a new Watcher.
AddWatcher(w) ==
  /\ LockFree
  /\ w \notin installed /\ pc[w] = "idle" /\ ~stopped[w]
  /\ \A v \in installed : Under[v] # Under[w]
  /\ installed' = installed \cup {w}
  /\ pc' = [pc EXCEPT ![w] = IF isRunning THEN "top" ELSE "idle"]
  /\ UNCHANGED <<consulVars, cache, lastIndex, answer, foreign,
                 isRunning, starting, toLoad, stopped>>

\* RemoveWatcher of a prefix that is watched.
RemoveWatcher(w) ==
  /\ LockFree
  /\ w \in installed
  /\ installed' = installed \ {w}
  /\ stopped' = [stopped EXCEPT ![w] = TRUE]
  /\ UNCHANGED <<consulVars, cache, pc, lastIndex, answer, foreign, isRunning, starting, toLoad>>

-----------------------------------------------------------------------------
Init ==
  /\ hist \in {<<s>> : s \in [Keys -> {0, 1}]}
  /\ cache = [k \in Keys |-> 0]
  /\ installed = Default
  /\ isRunning = FALSE
  /\ starting = FALSE
  /\ toLoad = {}
  /\ pc = [w \in Watchers |-> "idle"]
  /\ lastIndex = [w \in Watchers |-> 0]
  /\ stopped = [w \in Watchers |-> FALSE]
  /\ answer = [w \in Watchers |-> 0]
  /\ foreign = [w \in Watchers |-> "none"]

Consul == \E k \in Keys : Put(k) \/ Delete(k)

Goroutine(w) ==
  \/ Poll(w) \/ Answer(w) \/ TimeOut(w) \/ Fail(w) \/ WakeUp(w) \/ Apply(w) \/ Skip(w)

StartUp ==
  \/ StartBegin
  \/ \E w \in Watchers : StartList(w) \/ StartSync(w) \/ StartListFails(w)
  \/ StartEnd

\* What happens on a node: server.go starts and stops the store.
Next == Consul \/ StartUp \/ Stop \/ \E w \in Watchers : Goroutine(w)

\* What the exported methods allow on top of that.
NextAPI == Next \/ \E w \in Watchers : AddWatcher(w) \/ RemoveWatcher(w)

\* The goroutines and Start run on; a query returns within its WaitTime; and
\* Consul does not fail a query it has news for every time it is repeated.
Fairness ==
  /\ WF_vars(\E w \in Watchers : StartList(w) \/ StartSync(w) \/ StartListFails(w))
  /\ WF_vars(StartEnd)
  /\ \A w \in Watchers :
       /\ WF_vars(Goroutine(w))
       /\ SF_vars(Answer(w))

Spec     == Init /\ [][Next]_vars
FairSpec == Spec /\ Fairness
SpecAPI  == Init /\ [][NextAPI]_vars

-----------------------------------------------------------------------------
(* Properties.                                                             *)

Store == [Keys -> Nat]

\* Every variable has its type.
TypeOK ==
  /\ hist \in Seq(Store) /\ hist # << >>
  /\ cache \in Store
  /\ installed \in SUBSET Watchers
  /\ isRunning \in BOOLEAN /\ starting \in BOOLEAN
  /\ toLoad \in SUBSET installed
  /\ pc \in [Watchers -> PCs]
  /\ lastIndex \in [Watchers -> 0 .. Index]
  /\ stopped \in [Watchers -> BOOLEAN]
  /\ answer \in [Watchers -> 0 .. Index]
  /\ foreign \in [Watchers -> Foreign]

\* The store at index i, the empty store at index 0.
StoreAt(i) == IF i = 0 THEN [k \in Keys |-> 0] ELSE hist[i]

\* Under every prefix the cache is exactly the store as it was at the index the
\* watcher has reached: loads, answers, skips, failures and stops in any order
\* never leave a mixture of two moments.
CacheIsSnapshot ==
  \A w \in Default : \A k \in Under[w] : cache[k] = StoreAt(lastIndex[w])[k]

\* Readers of the cache see what SnapshotCache promises them.
Snapshots == INSTANCE SnapshotCache WITH
  Watched <- Default, view <- [w \in Default |-> lastIndex[w]]
SnapshotSpec == Snapshots!SnapshotSpec

\* The cache has caught up with Consul under the prefix of w.
Fresh(w) == \A k \in Under[w] : cache[k] = Current[k]

\* A prefix that is watched catches up with Consul again and again, whatever
\* queries fail, time out or answer late and whatever the initial load missed.
CatchesUp == \A w \in Watchers : []<>(w \notin installed \/ ~isRunning \/ Fresh(w))

\* A goroutine that is told to stop ends, however long its query blocks.
StopsEventually == \A w \in Watchers : stopped[w] ~> (pc[w] \in {"idle", "done"})

\* A watcher that is replaced may still apply a late answer, which puts back and
\* takes away keys behind its successor.  Nothing else can: however watchers of a
\* prefix are removed, added and left to overlap, the cache is one moment of the
\* store under a watcher's prefix, whatever its predecessors left there, unless
\* another has written since the watcher listed the answer it applied last.  And
\* it is so again with the first answer that is listed afterwards and applied.
PrefixIsSnapshot ==
  \A w \in Watchers : foreign[w] = "none" =>
    \A k \in Under[w] : cache[k] = StoreAt(lastIndex[w])[k]
=============================================================================
