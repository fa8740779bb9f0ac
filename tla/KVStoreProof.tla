---------------------------- MODULE KVStoreProof ----------------------------
(***************************************************************************)
(* The cache of a node is a snapshot of Consul under every prefix, for     *)
(* every set of keys and of disjoint prefixes, and it only moves forward.  *)
(*                                                                         *)
(* The inductive invariant joins three facts.  Versions in Consul's        *)
(* history only grow, so that an entry of the cache that is no older than  *)
(* the answer's is the answer's (Versions).  A watcher of NewKVStore that  *)
(* Start has yet to load has not moved, and no other watcher ever runs     *)
(* (Lifecycle).  And the cache is the store at the watcher's index         *)
(* (CacheIsSnapshot).                                                      *)
(***************************************************************************)
EXTENDS KVStore, TLAPS

-----------------------------------------------------------------------------
(* The inductive invariant.                                                *)

Versions ==
  /\ \A i \in 1 .. Index : \A k \in Keys : hist[i][k] <= i
  /\ \A i, j \in 1 .. Index : \A k \in Keys :
       i <= j => hist[j][k] = 0 \/ hist[i][k] <= hist[j][k]

\* Start is the only user of toLoad, and holds the lock while it is.
LoadedUnderLock == ~starting => toLoad = {}

Lifecycle ==
  /\ installed \subseteq Default
  /\ \A w \in Watchers \ Default : pc[w] = "idle" /\ lastIndex[w] = 0
  /\ LoadedUnderLock
  /\ starting => isRunning
  /\ \A w \in toLoad : lastIndex[w] = 0 /\ pc[w] = "idle"
  /\ ~isRunning => \A w \in installed : lastIndex[w] = 0 /\ pc[w] = "idle"
  /\ \A w \in Watchers : pc[w] = "answered" => answer[w] # 0

IInv == TypeOK /\ Versions /\ Lifecycle /\ CacheIsSnapshot

-----------------------------------------------------------------------------
(* Consul.                                                                 *)

\* One more index: what Put and Delete do to the history.
LEMMA AppendFacts ==
  ASSUME TypeOK, NEW s \in Store, hist' = Append(hist, s)
  PROVE  /\ hist' \in Seq(Store) /\ hist' # << >>
         /\ Index \in Nat \ {0}
         /\ Index' = Index + 1
         /\ \A i \in 1 .. Index : hist'[i] = hist[i]
         /\ hist'[Index + 1] = s
BY SMT DEF TypeOK, Index

\* Put and Delete change one key of the current store to a version v that is
\* its new index, or 0.
LEMMA WriteShape ==
  ASSUME TypeOK, NEW k \in Keys, Put(k) \/ Delete(k)
  PROVE  \E v \in {0, Index + 1} :
           /\ [Current EXCEPT ![k] = v] \in Store
           /\ hist' = Append(hist, [Current EXCEPT ![k] = v])
<1>1. Index \in Nat \ {0} /\ Current \in Store
  BY DEF TypeOK, Index, Current
<1>2. QED
  BY <1>1 DEF Put, Delete, Store

\* Writes keep the versions growing.
LEMMA VersionsWrite ==
  ASSUME TypeOK, Versions, NEW k \in Keys, Put(k) \/ Delete(k)
  PROVE  Versions'
<1>1. PICK v \in {0, Index + 1} : /\ [Current EXCEPT ![k] = v] \in Store
                                  /\ hist' = Append(hist, [Current EXCEPT ![k] = v])
  BY WriteShape
<1> DEFINE s == [Current EXCEPT ![k] = v]
<1>2. /\ hist' \in Seq(Store) /\ Index \in Nat \ {0} /\ Index' = Index + 1
      /\ \A i \in 1 .. Index : hist'[i] = hist[i]
      /\ hist'[Index + 1] = s
  BY <1>1, AppendFacts
<1>3. /\ Current \in Store /\ Current = hist[Index]
      /\ \A i \in 1 .. Index : \A q \in Keys : hist[i][q] \in Nat
  <2>1. \A i \in 1 .. Index : hist[i] \in Store
    BY DEF TypeOK, Index
  <2>2. Current = hist[Index] /\ Index \in 1 .. Index
    BY <1>2 DEF Current
  <2>3. QED
    BY ONLY <2>1, <2>2 DEF Store
<1>4. \A q \in Keys : s[q] = IF q = k THEN v ELSE Current[q]
  BY <1>3 DEF Store
<1> HIDE DEF s
<1>5. ASSUME NEW i \in 1 .. Index + 1, NEW q \in Keys
      PROVE  hist'[i][q] <= i
  <2>1. CASE i = Index + 1
    BY <1>2, <1>3, <1>4, <2>1 DEF Versions
  <2>2. CASE i # Index + 1
    BY <1>2, <2>2 DEF Versions
  <2>3. QED
    BY <2>1, <2>2
<1>6. ASSUME NEW i \in 1 .. Index + 1, NEW j \in 1 .. Index + 1, NEW q \in Keys, i <= j
      PROVE  hist'[j][q] = 0 \/ hist'[i][q] <= hist'[j][q]
  <2>1. CASE j # Index + 1
    <3>1. i \in 1 .. Index /\ j \in 1 .. Index
      BY <1>2, <1>6, <2>1
    <3>2. hist'[i] = hist[i] /\ hist'[j] = hist[j]
      BY <1>2, <3>1
    <3>3. hist[j][q] = 0 \/ hist[i][q] <= hist[j][q]
      BY <1>6, <3>1 DEF Versions
    <3>4. QED
      BY <3>2, <3>3
  <2>2. CASE j = Index + 1 /\ i # Index + 1
    <3>1. i \in 1 .. Index /\ hist'[i][q] = hist[i][q] /\ hist[i][q] \in Nat
      BY <1>2, <1>3, <2>2
    <3>2. hist'[j][q] = IF q = k THEN v ELSE Current[q]
      BY <1>2, <1>4, <2>2
    <3>3. hist[i][q] <= Index
      BY <1>2, <1>3, <3>1 DEF Versions
    <3>4. Current[q] = 0 \/ hist[i][q] <= Current[q]
      BY <1>2, <1>3, <3>1 DEF Versions
    <3>5. QED
      BY <1>2, <3>1, <3>2, <3>3, <3>4
  <2>3. CASE i = Index + 1 /\ j = Index + 1
    <3>1. v \in Nat /\ Current[q] \in Nat
      BY <1>2, <1>3
    <3>2. hist'[j][q] \in Nat
      BY <1>2, <1>4, <2>3, <3>1
    <3>3. QED
      BY <2>3, <3>2
  <2>4. QED
    BY <2>1, <2>2, <2>3
<1>7. QED
  BY <1>2, <1>5, <1>6 DEF Versions

-----------------------------------------------------------------------------
(* The cache.                                                              *)

\* An answer that is no older than what the cache shows of the prefix turns the
\* cache into the store at the answer's index, under this prefix alone.
LEMMA SyncFacts ==
  ASSUME TypeOK, Versions, NEW w \in Default, NEW i \in 1 .. Index,
         NEW n \in 0 .. i, \A k \in Under[w] : cache[k] = StoreAt(n)[k],
         SyncCache(Under[w], i)
  PROVE  cache' = [k \in Keys |-> IF k \in Under[w] THEN hist[i][k] ELSE cache[k]]
<1>1. Under[w] \subseteq Keys
  BY KVStoreAssumption
<1>2. ASSUME NEW k \in Keys, k \in Under[w], hist[i][k] # 0, hist[i][k] <= cache[k]
      PROVE  cache[k] = hist[i][k]
  <2>1. hist[i][k] \in Nat /\ cache[k] \in Nat /\ Index \in Nat
    BY DEF TypeOK, Store, Index
  <2>2. CASE n = 0
    BY <1>2, <2>1, <2>2 DEF StoreAt
  <2>3. CASE n # 0
    <3>1. n \in 1 .. Index /\ n <= i
      BY <2>1, <2>3
    <3>2. cache[k] = hist[n][k]
      BY <1>2, <2>3 DEF StoreAt
    <3>3. hist[n][k] <= hist[i][k]
      BY <1>2, <3>1 DEF Versions
    <3>4. QED
      BY <1>2, <2>1, <3>2, <3>3
  <2>4. QED
    BY <2>2, <2>3
<1>3. QED
  BY <1>1, <1>2 DEF SyncCache

\* A step of the cache that leaves the history alone.
LEMMA QuietHistory ==
  ASSUME TypeOK, UNCHANGED hist
  PROVE  Index' = Index /\ \A i : StoreAt(i)' = StoreAt(i)
BY DEF Index, StoreAt

-----------------------------------------------------------------------------
(* Types.                                                                  *)

\* Every call of the exported methods and every step of a goroutine keeps the
\* types; Stop and RemoveWatcher do because they find Start finished.
LEMMA TypeStep ==
  TypeOK /\ LoadedUnderLock /\ [NextAPI]_vars => TypeOK' /\ LoadedUnderLock'
<1> SUFFICES ASSUME TypeOK, LoadedUnderLock, [NextAPI]_vars
             PROVE  TypeOK' /\ LoadedUnderLock'
  OBVIOUS
<1>0. LoadedUnderLock'
  BY DEF NextAPI, Next, Consul, StartUp, Goroutine, Put, Delete, Poll, Answer, TimeOut, Fail,
         WakeUp, Apply, Skip, StartBegin, StartList, StartSync, StartListFails, StartEnd, Stop,
         AddWatcher, RemoveWatcher, LockFree, TypeOK, LoadedUnderLock, vars, managerVars
<1>00. foreign' \in [Watchers -> Foreign]
  <2>1. \/ UNCHANGED foreign
        \/ \E w \in Watchers : Listed(w) \/ Applied(w) \/ Skipped(w)
    BY DEF NextAPI, Next, Consul, StartUp, Goroutine, Put, Delete, Poll, Answer, TimeOut, Fail,
           WakeUp, Apply, Skip, StartBegin, StartList, StartSync, StartListFails, StartEnd, Stop,
           AddWatcher, RemoveWatcher, vars
  <2>2. foreign \in [Watchers -> Foreign]
    BY DEF TypeOK
  <2>3. ASSUME NEW w \in Watchers, Listed(w) \/ Applied(w) \/ Skipped(w)
        PROVE  foreign' \in [Watchers -> Foreign]
    BY <2>2, <2>3 DEF Listed, Applied, Skipped, Foreign
  <2>4. QED
    BY <2>1, <2>2, <2>3
<1> USE <1>00
<1> SUFFICES TypeOK'
  BY <1>0
<1>1. Index \in Nat \ {0} /\ \A i \in 1 .. Index : hist[i] \in Store
  BY DEF TypeOK, Index
<1>2. ASSUME NEW k \in Keys, Put(k) \/ Delete(k)
      PROVE  TypeOK'
  <2>1. PICK v \in {0, Index + 1} : /\ [Current EXCEPT ![k] = v] \in Store
                                    /\ hist' = Append(hist, [Current EXCEPT ![k] = v])
    BY <1>2, WriteShape
  <2>2. hist' \in Seq(Store) /\ hist' # << >> /\ Index' = Index + 1
    BY <2>1, AppendFacts
  <2>3. UNCHANGED <<cache, pc, lastIndex, answer, installed, isRunning, starting, toLoad, stopped>>
    BY <1>2 DEF Put, Delete, managerVars
  <2>4. 0 .. Index \subseteq 0 .. Index'
    BY <1>1, <2>2
  <2>5. lastIndex' \in [Watchers -> 0 .. Index'] /\ answer' \in [Watchers -> 0 .. Index']
    BY <2>3, <2>4 DEF TypeOK
  <2>6. QED
    BY <2>2, <2>3, <2>5 DEF TypeOK
<1>3. ASSUME NEW S, NEW i \in 1 .. Index, SyncCache(S, i)
      PROVE  cache' \in Store
  BY <1>1, <1>3 DEF SyncCache, TypeOK, Store
<1>4. ASSUME UNCHANGED hist
      PROVE  Index' = Index
  BY <1>4 DEF Index
<1>5. ASSUME NEW w \in Watchers, Poll(w) \/ Fail(w) \/ WakeUp(w)
      PROVE  TypeOK'
  BY <1>4, <1>5 DEF TypeOK, Poll, Fail, WakeUp, Goto, PCs, consulVars, managerVars
<1>6. ASSUME NEW w \in Watchers, Answer(w) \/ TimeOut(w)
      PROVE  TypeOK'
  <2>1. PICK i \in 1 .. Index : answer' = [answer EXCEPT ![w] = i]
    BY <1>6 DEF Answer, TimeOut
  <2>2. answer' \in [Watchers -> 0 .. Index]
    BY <1>1, <2>1 DEF TypeOK
  <2>3. pc' \in [Watchers -> PCs] /\ UNCHANGED <<hist, cache, lastIndex, managerVars>>
    BY <1>6 DEF TypeOK, Answer, TimeOut, Goto, PCs, consulVars
  <2>4. QED
    BY <1>4, <2>2, <2>3 DEF TypeOK, managerVars
<1>7. ASSUME NEW w \in Watchers, Apply(w)
      PROVE  TypeOK'
  <2>1. answer[w] \in 1 .. Index
    BY <1>1, <1>7 DEF TypeOK, Apply
  <2>2. cache' \in Store
    BY <1>3, <1>7, <2>1 DEF Apply
  <2>3. QED
    BY <1>1, <1>4, <1>7, <2>1, <2>2 DEF TypeOK, Apply, Goto, PCs, consulVars, managerVars
<1>8. ASSUME NEW w \in Watchers, Skip(w)
      PROVE  TypeOK'
  BY <1>1, <1>4, <1>8 DEF TypeOK, Skip, Goto, PCs, consulVars, managerVars
<1>9. CASE StartBegin
  BY <1>4, <1>9 DEF TypeOK, StartBegin, consulVars
<1>10. ASSUME NEW w \in Watchers, StartList(w)
       PROVE  TypeOK'
  BY <1>1, <1>4, <1>10 DEF TypeOK, StartList, consulVars, managerVars
<1>11. ASSUME NEW w \in Watchers, StartSync(w)
       PROVE  TypeOK'
  <2>1. answer[w] \in 1 .. Index
    BY <1>1, <1>11 DEF TypeOK, StartSync
  <2>2. cache' \in Store
    BY <1>3, <1>11, <2>1 DEF StartSync
  <2>3. QED
    BY <1>1, <1>4, <1>11, <2>1, <2>2 DEF TypeOK, StartSync, consulVars
<1>12. ASSUME NEW w \in Watchers, StartListFails(w)
       PROVE  TypeOK'
  BY <1>4, <1>12 DEF TypeOK, StartListFails, consulVars
<1>13. CASE StartEnd
  BY <1>4, <1>13 DEF TypeOK, StartEnd, PCs, consulVars
<1>14. CASE Stop
  BY <1>4, <1>14 DEF TypeOK, LoadedUnderLock, Stop, LockFree, consulVars
<1>15. CASE UNCHANGED vars
  BY <1>4, <1>15 DEF TypeOK, vars
<1>16. ASSUME NEW w \in Watchers, AddWatcher(w)
       PROVE  TypeOK'
  BY <1>4, <1>16 DEF TypeOK, AddWatcher, PCs, consulVars
<1>17. ASSUME NEW w \in Watchers, RemoveWatcher(w)
       PROVE  TypeOK'
  BY <1>4, <1>17 DEF TypeOK, LoadedUnderLock, RemoveWatcher, LockFree, consulVars
<1>18. QED
  BY <1>0, <1>2, <1>5, <1>6, <1>7, <1>8, <1>9, <1>10, <1>11, <1>12, <1>13, <1>14, <1>15,
     <1>16, <1>17
     DEF NextAPI, Next, Consul, StartUp, Goroutine

-----------------------------------------------------------------------------
(* The other parts of the invariant.                                       *)

\* Only Consul touches the history.
LEMMA VersionsStep == TypeOK /\ Versions /\ [Next]_vars => Versions'
<1> SUFFICES ASSUME TypeOK, Versions, [Next]_vars PROVE Versions'
  OBVIOUS
<1>1. CASE UNCHANGED hist
  BY <1>1 DEF Versions, Index
<1>2. CASE \E k \in Keys : Put(k) \/ Delete(k)
  BY <1>2, VersionsWrite
<1>3. QED
  BY <1>1, <1>2
     DEF Next, Consul, StartUp, Goroutine, Poll, Answer, TimeOut, Fail, WakeUp, Apply, Skip,
         StartBegin, StartList, StartSync, StartListFails, StartEnd, Stop, vars, consulVars

\* Watchers are loaded before they run, once, and only those of NewKVStore.
LEMMA LifecycleStep == TypeOK /\ Lifecycle /\ [Next]_vars => Lifecycle'
<1> SUFFICES ASSUME TypeOK, Lifecycle, [Next]_vars PROVE Lifecycle'
  OBVIOUS
<1> USE KVStoreAssumption DEF Lifecycle, LoadedUnderLock
<1>1. ASSUME NEW k \in Keys, Put(k) \/ Delete(k)
      PROVE  Lifecycle'
  BY <1>1 DEF Put, Delete, managerVars
<1>2. ASSUME NEW w \in Watchers, Poll(w) \/ Fail(w) \/ WakeUp(w)
      PROVE  Lifecycle'
  BY <1>2 DEF TypeOK, Poll, Fail, WakeUp, Goto, managerVars
<1>3. ASSUME NEW w \in Watchers, Answer(w) \/ TimeOut(w)
      PROVE  Lifecycle'
  <2>1. PICK i \in 1 .. Index : answer' = [answer EXCEPT ![w] = i]
    BY <1>3 DEF Answer, TimeOut
  <2>2. \A v \in Watchers : pc'[v] = "answered" => answer'[v] # 0
    BY <1>3, <2>1 DEF TypeOK, Index, Answer, TimeOut, Goto
  <2>3. QED
    BY <1>3, <2>2 DEF TypeOK, Answer, TimeOut, Goto, managerVars
<1>4. ASSUME NEW w \in Watchers, Apply(w) \/ Skip(w)
      PROVE  Lifecycle'
  <2>1. /\ pc[w] = "answered" /\ pc' = [pc EXCEPT ![w] = "top"]
        /\ answer' = [answer EXCEPT ![w] = 0]
        /\ \A v \in Watchers \ {w} : lastIndex'[v] = lastIndex[v]
        /\ UNCHANGED managerVars
    BY <1>4 DEF TypeOK, Apply, Skip, Goto
  <2>2. w \in Default /\ w \notin toLoad /\ (~isRunning => w \notin installed)
    BY <2>1
  <2>3. \A v \in Watchers : pc'[v] = "answered" => answer'[v] # 0
    BY <2>1 DEF TypeOK
  <2>4. QED
    BY <2>1, <2>2, <2>3 DEF TypeOK, managerVars
<1>5. CASE StartBegin
  BY <1>5 DEF TypeOK, StartBegin, LockFree
<1>6. ASSUME NEW w \in Watchers, StartList(w)
      PROVE  Lifecycle'
  BY <1>6 DEF TypeOK, StartList, managerVars
<1>7. ASSUME NEW w \in Watchers, StartSync(w)
      PROVE  Lifecycle'
  BY <1>7 DEF TypeOK, StartSync
<1>8. ASSUME NEW w \in Watchers, StartListFails(w)
      PROVE  Lifecycle'
  BY <1>8 DEF TypeOK, StartListFails
<1>9. CASE StartEnd
  BY <1>9 DEF TypeOK, StartEnd
<1>10. CASE Stop
  BY <1>10 DEF TypeOK, Stop, LockFree
<1>11. CASE UNCHANGED vars
  BY <1>11 DEF vars
<1>12. QED
  BY <1>1, <1>2, <1>3, <1>4, <1>5, <1>6, <1>7, <1>8, <1>9, <1>10, <1>11
     DEF Next, Consul, StartUp, Goroutine

\* Under SyncFacts' conditions the cache follows the watcher to its new index.
LEMMA SnapshotMove ==
  ASSUME TypeOK, Versions, CacheIsSnapshot, NEW w \in Default, NEW i \in 1 .. Index,
         lastIndex[w] <= i, SyncCache(Under[w], i), UNCHANGED hist,
         lastIndex' = [lastIndex EXCEPT ![w] = i]
  PROVE  CacheIsSnapshot'
<1>1. lastIndex[w] \in 0 .. i /\ w \in Watchers /\ Under[w] \subseteq Keys
  <2>1. w \in Watchers /\ Under[w] \subseteq Keys
    BY KVStoreAssumption
  <2>2. Index \in Nat /\ lastIndex[w] \in 0 .. Index
    BY <2>1 DEF TypeOK, Index
  <2>3. QED
    BY <2>1, <2>2
<1>2. cache' = [k \in Keys |-> IF k \in Under[w] THEN hist[i][k] ELSE cache[k]]
  <2>1. \A k \in Under[w] : cache[k] = StoreAt(lastIndex[w])[k]
    BY DEF CacheIsSnapshot
  <2>2. QED
    BY <1>1, <2>1, SyncFacts
<1>3. SUFFICES ASSUME NEW v \in Default, NEW k \in Under[v]
               PROVE  cache'[k] = (StoreAt(lastIndex[v])')[k]
  BY DEF CacheIsSnapshot
<1>4. v \in Watchers /\ k \in Keys
  BY KVStoreAssumption
<1>5. CASE v = w
  <2>1. lastIndex'[v] = i /\ i # 0
    BY <1>1, <1>5 DEF TypeOK
  <2>2. StoreAt(lastIndex[v])' = hist[i]
    BY <2>1 DEF StoreAt
  <2>3. QED
    BY <1>2, <1>4, <1>5, <2>2
<1>6. CASE v # w
  <2>1. k \notin Under[w] /\ lastIndex'[v] = lastIndex[v]
    BY <1>4, <1>6, KVStoreAssumption DEF TypeOK
  <2>2. cache'[k] = cache[k] /\ cache[k] = StoreAt(lastIndex[v])[k]
    BY <1>2, <1>4, <2>1 DEF CacheIsSnapshot
  <2>3. StoreAt(lastIndex[v])' = StoreAt(lastIndex[v])
    BY <2>1 DEF StoreAt
  <2>4. QED
    BY <2>2, <2>3
<1>7. QED
  BY <1>5, <1>6

\* What Apply and StartSync have in common.
LEMMA SyncSteps ==
  ASSUME TypeOK, Lifecycle, NEW w \in Watchers, Apply(w) \/ StartSync(w)
  PROVE  /\ w \in Default
         /\ answer[w] \in 1 .. Index
         /\ lastIndex[w] < answer[w]
         /\ SyncCache(Under[w], answer[w])
         /\ UNCHANGED hist
         /\ lastIndex' = [lastIndex EXCEPT ![w] = answer[w]]
<1>1. Index \in Nat /\ answer[w] \in 0 .. Index /\ lastIndex[w] \in 0 .. Index
  BY DEF TypeOK, Index
<1>2. CASE Apply(w)
  <2>1. pc[w] = "answered"
    BY <1>2 DEF Apply, Goto
  <2>2. QED
    BY <1>1, <1>2, <2>1 DEF Apply, Lifecycle, consulVars
<1>3. CASE StartSync(w)
  BY <1>1, <1>3 DEF StartSync, Lifecycle, TypeOK, consulVars
<1>4. QED
  BY <1>2, <1>3

\* Every step keeps the cache a snapshot.
LEMMA SnapshotStep == IInv /\ [Next]_vars => CacheIsSnapshot'
<1> SUFFICES ASSUME TypeOK, Versions, Lifecycle, CacheIsSnapshot, [Next]_vars
             PROVE  CacheIsSnapshot'
  BY DEF IInv
<1>1. ASSUME NEW k \in Keys, Put(k) \/ Delete(k)
      PROVE  CacheIsSnapshot'
  <2>1. UNCHANGED <<cache, lastIndex>>
    BY <1>1 DEF Put, Delete
  <2>2. Index \in Nat /\ \A i \in 1 .. Index : hist'[i] = hist[i]
    BY <1>1, WriteShape, AppendFacts
  <2>3. ASSUME NEW w \in Default
        PROVE  StoreAt(lastIndex[w])' = StoreAt(lastIndex[w])
    <3>1. lastIndex[w] \in 0 .. Index
      BY KVStoreAssumption DEF TypeOK
    <3>2. QED
      BY <2>1, <2>2, <3>1 DEF StoreAt
  <2>4. QED
    BY <2>1, <2>3 DEF CacheIsSnapshot
<1>2. CASE UNCHANGED <<hist, cache, lastIndex>>
  BY <1>2 DEF CacheIsSnapshot, StoreAt
<1>3. ASSUME NEW w \in Watchers, Apply(w) \/ StartSync(w)
      PROVE  CacheIsSnapshot'
  <2>1. lastIndex[w] <= answer[w]
    BY <1>3, SyncSteps DEF TypeOK, Index
  <2>2. QED
    BY <1>3, <2>1, SyncSteps, SnapshotMove
<1>4. QED
  BY <1>1, <1>2, <1>3
     DEF Next, Consul, StartUp, Goroutine, Poll, Answer, TimeOut, Fail, WakeUp, Skip,
         StartBegin, StartList, StartListFails, StartEnd, Stop, vars, consulVars

-----------------------------------------------------------------------------
(* The theorems.                                                           *)

\* The invariant holds at the start.
LEMMA IInvInit == Init => IInv
<1> SUFFICES ASSUME Init PROVE IInv
  OBVIOUS
<1>1. PICK s \in [Keys -> {0, 1}] : hist = <<s>>
  BY DEF Init
<1>2. hist \in Seq(Store) /\ hist # << >> /\ Index = 1 /\ hist[1] = s
  BY <1>1 DEF Store, Index
<1>3. TypeOK
  <2>1. cache \in Store
    BY DEF Init, Store
  <2>2. installed \in SUBSET Watchers /\ toLoad \in SUBSET installed
    BY KVStoreAssumption DEF Init
  <2>3. lastIndex \in [Watchers -> 0 .. Index] /\ answer \in [Watchers -> 0 .. Index]
    BY <1>2 DEF Init
  <2>4. /\ pc \in [Watchers -> PCs] /\ stopped \in [Watchers -> BOOLEAN]
        /\ foreign \in [Watchers -> Foreign]
    BY DEF Init, PCs, Foreign
  <2>5. isRunning \in BOOLEAN /\ starting \in BOOLEAN
    BY DEF Init
  <2>6. QED
    BY <1>2, <2>1, <2>2, <2>3, <2>4, <2>5 DEF TypeOK
<1>4. Versions
  BY <1>2 DEF Versions
<1>5. Lifecycle
  BY KVStoreAssumption DEF Init, Lifecycle, LoadedUnderLock
<1>6. CacheIsSnapshot
  BY KVStoreAssumption DEF Init, CacheIsSnapshot, StoreAt
<1>7. QED
  BY <1>3, <1>4, <1>5, <1>6 DEF IInv

\* The invariant always holds.
LEMMA Invariance == Spec => []IInv
<1>1. IInv /\ [Next]_vars => IInv'
  BY TypeStep, VersionsStep, LifecycleStep, SnapshotStep DEF IInv, Lifecycle, NextAPI
<1>2. QED
  BY IInvInit, <1>1, PTL DEF Spec

\* The store's fields and every watcher's have their types, whatever queries
\* fail or time out and however often the store is started and stopped.
THEOREM TypeCorrect == Spec => []TypeOK
BY Invariance, PTL DEF IInv

\* At every moment the cache shows, under each prefix, exactly the store Consul
\* had at one index, for any number of keys, prefixes and writes.
THEOREM CacheAlwaysSnapshot == Spec => []CacheIsSnapshot
BY Invariance, PTL DEF IInv

\* Every step of the store is a step of SnapshotCache, or invisible to it.
LEMMA SnapshotSpecStep == IInv /\ [Next]_vars =>
  [Snapshots!SnapshotNext]_<<hist, cache, [w \in Default |-> lastIndex[w]]>>
<1> SUFFICES ASSUME TypeOK, Versions, Lifecycle, CacheIsSnapshot, Next,
                    ~UNCHANGED <<hist, cache, lastIndex>>
             PROVE  Snapshots!SnapshotNext
  BY DEF IInv, vars
<1> DEFINE view == [w \in Default |-> lastIndex[w]]
<1>1. ASSUME NEW k \in Keys, Put(k) \/ Delete(k)
      PROVE  Snapshots!SnapshotNext
  <2>1. \E v \in {0, Len(hist) + 1} :
          hist' = Append(hist, [hist[Len(hist)] EXCEPT ![k] = v])
    BY <1>1, WriteShape DEF Index, Current
  <2>2. UNCHANGED <<cache, view>>
    BY <1>1 DEF Put, Delete
  <2>3. Snapshots!Write(k)
    BY <2>1, <2>2 DEF Snapshots!Write
  <2>4. QED
    BY <2>3 DEF Snapshots!SnapshotNext
<1>2. ASSUME NEW w \in Watchers, Apply(w) \/ StartSync(w)
      PROVE  Snapshots!SnapshotNext
  <2>1. /\ w \in Default /\ answer[w] \in 1 .. Index /\ lastIndex[w] < answer[w]
        /\ SyncCache(Under[w], answer[w]) /\ UNCHANGED hist
        /\ lastIndex' = [lastIndex EXCEPT ![w] = answer[w]]
    BY <1>2, SyncSteps
  <2>2. lastIndex[w] \in 0 .. answer[w]
    BY <1>2, <2>1 DEF TypeOK, Index
  <2>3. \A k \in Under[w] : cache[k] = StoreAt(lastIndex[w])[k]
    BY <2>1 DEF CacheIsSnapshot
  <2>4. cache' = [k \in Keys |-> IF k \in Under[w] THEN hist[answer[w]][k] ELSE cache[k]]
    BY <2>1, <2>2, <2>3, SyncFacts
  <2>5. PICK i \in 1 .. Len(hist) : i = answer[w]
    BY <2>1 DEF Index
  <2>6. view' = [view EXCEPT ![w] = i] /\ i > view[w]
    BY <2>1, <2>2, <2>5, KVStoreAssumption DEF TypeOK
  <2>7. Snapshots!Advance(w, i)
    BY <2>1, <2>4, <2>5, <2>6 DEF Snapshots!Advance
  <2>8. QED
    BY <2>1, <2>7 DEF Snapshots!SnapshotNext
<1>3. QED
  BY <1>1, <1>2
     DEF Next, Consul, StartUp, Goroutine, Poll, Answer, TimeOut, Fail, WakeUp, Skip,
         StartBegin, StartList, StartListFails, StartEnd, Stop, consulVars

\* The cache with its watchers implements SnapshotCache: readers see whole
\* moments of Consul under each prefix, never an earlier one after a later one.
THEOREM ImplementsSnapshotCache == Spec => SnapshotSpec
<1>1. Init => Snapshots!SnapshotInit
  BY KVStoreAssumption DEF Init, Snapshots!SnapshotInit, Snapshots!Stores
<1>2. QED
  BY <1>1, Invariance, SnapshotSpecStep, PTL
     DEF Spec, SnapshotSpec, Snapshots!SnapshotSpec

-----------------------------------------------------------------------------
(* The exported methods: AddWatcher and RemoveWatcher at any time.         *)

\* While Start holds the lock, and while the store is stopped, no goroutine of
\* an installed watcher runs; and who has no goroutine has nothing loaded,
\* unless Start has just done so.
StartsIdle ==
  /\ LoadedUnderLock
  /\ starting => isRunning
  /\ starting \/ ~isRunning => \A w \in installed : pc[w] = "idle"
  /\ \A w \in Watchers :
       pc[w] = "idle" /\ (w \notin installed \/ w \in toLoad \/ ~starting) => lastIndex[w] = 0

\* Start starts goroutines, and loads prefixes, of watchers that have none yet:
\* a Watcher never has two goroutines, and its lastIndex never two writers.
OneGoroutine ==
  [][ /\ StartEnd => \A w \in installed : pc[w] = "idle"
      /\ \A w \in Watchers : StartSync(w) => pc[w] = "idle" /\ lastIndex[w] = 0 ]_vars

\* It is watchersMu that keeps Start apart from the other managers.
LEMMA StartsIdleStep == TypeOK /\ StartsIdle /\ [NextAPI]_vars => StartsIdle'
<1> SUFFICES ASSUME TypeOK, StartsIdle, [NextAPI]_vars PROVE StartsIdle'
  OBVIOUS
<1> USE DEF StartsIdle, LoadedUnderLock
<1>1. CASE UNCHANGED <<installed, isRunning, starting, toLoad, pc, lastIndex>>
  BY <1>1
<1>2. ASSUME NEW w \in Watchers, Goroutine(w)
      PROVE  StartsIdle'
  <2>1. PICK to \in PCs \ {"idle"} : pc[w] # "idle" /\ pc' = [pc EXCEPT ![w] = to]
    BY <1>2 DEF Goroutine, Poll, Answer, TimeOut, Fail, WakeUp, Apply, Skip, Goto, PCs
  <2>2. UNCHANGED managerVars /\ \A v \in Watchers \ {w} : lastIndex'[v] = lastIndex[v]
    BY <1>2 DEF Goroutine, Poll, Answer, TimeOut, Fail, WakeUp, Apply, Skip, TypeOK
  <2>3. QED
    BY <2>1, <2>2 DEF TypeOK, managerVars
<1>3. CASE StartBegin \/ StartEnd \/ Stop
  BY <1>3 DEF TypeOK, StartBegin, StartEnd, Stop, LockFree
<1>4. ASSUME NEW w \in Watchers, StartSync(w) \/ StartListFails(w)
      PROVE  StartsIdle'
  BY <1>4 DEF TypeOK, StartSync, StartListFails
<1>5. ASSUME NEW w \in Watchers, AddWatcher(w) \/ RemoveWatcher(w)
      PROVE  StartsIdle'
  BY <1>5 DEF TypeOK, AddWatcher, RemoveWatcher, LockFree
<1>6. QED
  BY <1>1, <1>2, <1>3, <1>4, <1>5
     DEF NextAPI, Next, Consul, StartUp, Put, Delete, StartList, managerVars, vars

\* Whatever watchers are added and removed while the store is started, stopped
\* and started again, no watcher is started or loaded a second time.
THEOREM WatchersStartOnce == SpecAPI => OneGoroutine
<1> DEFINE Once == /\ StartEnd => \A w \in installed : pc[w] = "idle"
                   /\ \A w \in Watchers : StartSync(w) => pc[w] = "idle" /\ lastIndex[w] = 0
<1>1. Init => TypeOK /\ StartsIdle
  <2>1. Init => StartsIdle
    BY KVStoreAssumption DEF Init, StartsIdle, LoadedUnderLock
  <2>2. QED
    BY <2>1, IInvInit DEF IInv
<1>2. TypeOK /\ StartsIdle /\ [NextAPI]_vars => TypeOK' /\ StartsIdle'
  BY TypeStep, StartsIdleStep DEF StartsIdle
<1>3. TypeOK /\ StartsIdle => Once
  BY DEF TypeOK, StartsIdle, StartEnd, StartSync
<1>4. TypeOK /\ StartsIdle /\ [NextAPI]_vars => [Once]_vars
  BY <1>3
<1>5. QED
  BY <1>1, <1>2, <1>4, PTL DEF SpecAPI, OneGoroutine

\* An entry's ModifyIndex is the index at which it was written.
Origin ==
  \A i \in 1 .. Index : \A k \in Keys :
    hist[i][k] # 0 => hist[i][k] <= i /\ hist[hist[i][k]][k] = hist[i][k]

\* What is cached was once put into Consul, as the ModifyIndex of the entry says.
CachedWasStored ==
  \A k \in Keys : cache[k] # 0 => cache[k] \in 1 .. Index /\ hist[cache[k]][k] = cache[k]

\* A write is an entry of its own index, and copies all others.
LEMMA OriginWrite ==
  ASSUME TypeOK, Origin, NEW k \in Keys, Put(k) \/ Delete(k)
  PROVE  Origin' /\ Index \in Nat /\ Index' = Index + 1 /\ \A i \in 1 .. Index : hist'[i] = hist[i]
<1>1. PICK v \in {0, Index + 1} : /\ [Current EXCEPT ![k] = v] \in Store
                                  /\ hist' = Append(hist, [Current EXCEPT ![k] = v])
  BY WriteShape
<1> DEFINE s == [Current EXCEPT ![k] = v]
<1>2. /\ Index \in Nat \ {0} /\ Index' = Index + 1
      /\ \A i \in 1 .. Index : hist'[i] = hist[i]
      /\ hist'[Index + 1] = s
  BY <1>1, AppendFacts
<1>3. /\ Current = hist[Index] /\ Index \in 1 .. Index
      /\ \A i \in 1 .. Index : \A q \in Keys : hist[i][q] \in Nat
  BY <1>2 DEF Current, TypeOK, Index, Store
<1>4. \A q \in Keys : s[q] = IF q = k THEN v ELSE Current[q]
  BY <1>1, <1>3 DEF TypeOK, Store
<1> HIDE DEF s
<1>5. ASSUME NEW i \in 1 .. Index, NEW q \in Keys, hist[i][q] # 0
      PROVE  /\ hist[i][q] \in 1 .. Index /\ hist[i][q] <= i
             /\ hist'[hist[i][q]][q] = hist[i][q]
  <2>1. hist[i][q] <= i /\ hist[hist[i][q]][q] = hist[i][q] /\ hist[i][q] \in Nat
    BY <1>3, <1>5 DEF Origin
  <2>2. hist[i][q] \in 1 .. Index
    BY <1>2, <1>5, <2>1
  <2>3. QED
    BY <1>2, <2>1, <2>2
<1>6. ASSUME NEW i \in 1 .. Index + 1, NEW q \in Keys, hist'[i][q] # 0
      PROVE  hist'[i][q] <= i /\ hist'[hist'[i][q]][q] = hist'[i][q]
  <2>1. CASE i # Index + 1
    <3>1. i \in 1 .. Index /\ hist'[i][q] = hist[i][q]
      BY <1>2, <2>1
    <3>2. QED
      BY <1>5, <1>6, <3>1
  <2>2. CASE i = Index + 1
    <3>1. hist'[i][q] = IF q = k THEN v ELSE hist[Index][q]
      BY <1>2, <1>3, <1>4, <2>2
    <3>2. CASE q = k
      <4>1. hist'[i][q] = i
        BY <1>6, <2>2, <3>1, <3>2
      <4>2. QED
        BY <1>2, <4>1
    <3>3. CASE q # k
      <4>1. hist'[i][q] = hist[Index][q] /\ hist[Index][q] # 0
        BY <1>6, <3>1, <3>3
      <4>2. /\ hist[Index][q] \in 1 .. Index
            /\ hist'[hist[Index][q]][q] = hist[Index][q]
        BY <1>3, <1>5, <4>1
      <4>3. QED
        BY <1>2, <2>2, <4>1, <4>2
    <3>4. QED
      BY <3>2, <3>3
  <2>3. QED
    BY <2>1, <2>2
<1>7. QED
  BY <1>2, <1>6 DEF Origin

\* Every step keeps the origin of the entries, in Consul and in the cache.
LEMMA StoredStep ==
  TypeOK /\ Origin /\ CachedWasStored /\ [NextAPI]_vars => Origin' /\ CachedWasStored'
<1> SUFFICES ASSUME TypeOK, Origin, CachedWasStored, [NextAPI]_vars
             PROVE  Origin' /\ CachedWasStored'
  OBVIOUS
<1>1. ASSUME NEW k \in Keys, Put(k) \/ Delete(k)
      PROVE  Origin' /\ CachedWasStored'
  <2>1. cache' = cache
    BY <1>1 DEF Put, Delete
  <2>2. /\ Origin' /\ Index \in Nat /\ Index' = Index + 1
        /\ \A i \in 1 .. Index : hist'[i] = hist[i]
    BY <1>1, OriginWrite
  <2>3. ASSUME NEW q \in Keys, cache[q] # 0
        PROVE  cache[q] \in 1 .. Index' /\ hist'[cache[q]][q] = cache[q]
    <3>1. cache[q] \in 1 .. Index /\ hist[cache[q]][q] = cache[q]
      BY <2>3 DEF CachedWasStored
    <3>2. QED
      BY <2>2, <3>1
  <2>4. QED
    BY <2>1, <2>2, <2>3 DEF CachedWasStored
<1>2. ASSUME NEW w \in Watchers, Apply(w) \/ StartSync(w)
      PROVE  Origin' /\ CachedWasStored'
  <2>1. /\ answer[w] \in 0 .. Index /\ lastIndex[w] \in 0 .. Index /\ Index \in Nat
        /\ \A i \in 1 .. Index : \A q \in Keys : hist[i][q] \in Nat
    BY DEF TypeOK, Index, Store
  <2>2. answer[w] \in 1 .. Index /\ SyncCache(Under[w], answer[w]) /\ UNCHANGED hist
    BY <1>2, <2>1 DEF Apply, StartSync, consulVars
  <2>3. \A q \in Keys : cache'[q] = cache[q] \/ cache'[q] = hist[answer[w]][q]
    BY <2>2 DEF SyncCache
  <2>4. ASSUME NEW q \in Keys, hist[answer[w]][q] # 0
        PROVE  /\ hist[answer[w]][q] \in 1 .. Index
               /\ hist[hist[answer[w]][q]][q] = hist[answer[w]][q]
    <3>1. /\ hist[answer[w]][q] <= answer[w] /\ hist[answer[w]][q] \in Nat
          /\ hist[hist[answer[w]][q]][q] = hist[answer[w]][q]
      BY <2>1, <2>2, <2>4 DEF Origin
    <3>2. QED
      BY <2>1, <2>2, <2>4, <3>1
  <2>5. Index' = Index /\ Origin'
    BY <2>2 DEF Index, Origin
  <2>6. CachedWasStored'
    BY <2>2, <2>3, <2>4, <2>5 DEF CachedWasStored
  <2>7. QED
    BY <2>5, <2>6
<1>3. CASE UNCHANGED <<hist, cache>>
  BY <1>3 DEF Origin, CachedWasStored, Index
<1>4. QED
  BY <1>1, <1>2, <1>3
     DEF NextAPI, Next, Consul, StartUp, Goroutine, Poll, Answer, TimeOut, Fail, WakeUp, Skip,
         StartBegin, StartList, StartListFails, StartEnd, Stop, AddWatcher, RemoveWatcher,
         consulVars, vars

\* The first entries are of index 1.
LEMMA StoredInit == Init => Origin /\ CachedWasStored
<1> SUFFICES ASSUME Init PROVE Origin /\ CachedWasStored
  OBVIOUS
<1>1. CachedWasStored
  BY DEF Init, CachedWasStored
<1>2. PICK s \in [Keys -> {0, 1}] : hist = <<s>>
  BY DEF Init
<1>3. Index = 1 /\ hist[1] = s
  BY <1>2 DEF Index
<1>4. Origin
  BY <1>2, <1>3 DEF Origin
<1>5. QED
  BY <1>1, <1>4

\* Not even overlapping watchers of one prefix make an entry up, or put one
\* under an index at which Consul held another.
THEOREM CachedIsReal == SpecAPI => []CachedWasStored
<1>1. Init => TypeOK /\ LoadedUnderLock /\ Origin /\ CachedWasStored
  BY IInvInit, StoredInit DEF IInv, Lifecycle
<1>2. QED
  BY <1>1, TypeStep, StoredStep, PTL DEF SpecAPI

-----------------------------------------------------------------------------
(* Watchers that follow and overlap one another.                           *)

\* Versions grow whatever watchers there are: only Consul touches the history.
LEMMA VersionsStepAPI == TypeOK /\ Versions /\ [NextAPI]_vars => Versions'
<1> SUFFICES ASSUME TypeOK, Versions, [NextAPI]_vars PROVE Versions'
  OBVIOUS
<1>1. CASE [Next]_vars
  BY <1>1, VersionsStep
<1>2. ASSUME NEW w \in Watchers, AddWatcher(w) \/ RemoveWatcher(w)
      PROVE  Versions'
  BY <1>2 DEF AddWatcher, RemoveWatcher, consulVars, Versions, Index
<1>3. QED
  BY <1>1, <1>2 DEF NextAPI

\* No entry of the cache is newer than Consul's own.
LEMMA CacheBehind ==
  ASSUME TypeOK, Versions, CachedWasStored, NEW k \in Keys
  PROVE  Current[k] = 0 \/ cache[k] <= Current[k]
<1>1. /\ Index \in Nat \ {0} /\ Index \in 1 .. Index
      /\ Current = hist[Index] /\ Current[k] \in Nat /\ cache[k] \in Nat
  BY DEF TypeOK, Store, Index, Current
<1>2. CASE cache[k] = 0
  BY <1>1, <1>2
<1>3. CASE cache[k] # 0
  <2>1. cache[k] \in 1 .. Index /\ hist[cache[k]][k] = cache[k]
    BY <1>3 DEF CachedWasStored
  <2>2. hist[Index][k] = 0 \/ hist[cache[k]][k] <= hist[Index][k]
    BY <1>1, <2>1 DEF Versions
  <2>3. QED
    BY <1>1, <2>1, <2>2
<1>4. QED
  BY <1>2, <1>3

\* The cache is not ahead of the answer i under the keys S.
Behind(S, i) == \A k \in S : hist[i][k] = 0 \/ cache[k] <= hist[i][k]

\* An answer listed after the last foreign write is at hand, and not behind the
\* cache.
SeenIsAhead ==
  \A w \in Watchers : foreign[w] = "seen" =>
    answer[w] # 0 /\ Behind(Under[w], answer[w])

\* An answer that is not behind replaces all there is under the prefix, or finds
\* the same entry.
LEMMA SyncAhead ==
  ASSUME TypeOK, NEW S \in SUBSET Keys, NEW i \in 1 .. Index, SyncCache(S, i),
         NEW k \in S, hist[i][k] = 0 \/ cache[k] <= hist[i][k]
  PROVE  cache'[k] = hist[i][k]
<1>1. hist[i][k] \in Nat /\ cache[k] \in Nat
  BY DEF TypeOK, Store, Index
<1>2. cache'[k] = IF hist[i][k] # 0 /\ hist[i][k] <= cache[k] THEN cache[k] ELSE hist[i][k]
  BY DEF SyncCache
<1>3. QED
  BY <1>1, <1>2

\* A prefix that is a snapshot of index n is behind every later answer.
LEMMA SnapshotBehind ==
  ASSUME TypeOK, Versions, NEW S \in SUBSET Keys, NEW n \in 0 .. Index, NEW i \in 1 .. Index,
         n <= i, \A k \in S : cache[k] = StoreAt(n)[k]
  PROVE  Behind(S, i)
<1> SUFFICES ASSUME NEW k \in S PROVE hist[i][k] = 0 \/ cache[k] <= hist[i][k]
  BY DEF Behind
<1>1. hist[i][k] \in Nat /\ Index \in Nat
  BY DEF TypeOK, Store, Index
<1>2. CASE n = 0
  <2>1. cache[k] = 0
    BY <1>2 DEF StoreAt
  <2>2. QED
    BY <1>1, <2>1
<1>3. CASE n # 0
  <2>1. n \in 1 .. Index /\ cache[k] = hist[n][k]
    BY <1>1, <1>3 DEF StoreAt
  <2>2. QED
    BY <2>1 DEF Versions
<1>4. QED
  BY <1>2, <1>3

\* What Consul lists now is not behind the cache.
LEMMA ListedAhead ==
  ASSUME TypeOK, Versions, CachedWasStored, NEW S \in SUBSET Keys, NEW i \in 1 .. Index,
         IsLastIndex(S, i)
  PROVE  Behind(S, i)
<1> SUFFICES ASSUME NEW k \in S PROVE hist[i][k] = 0 \/ cache[k] <= hist[i][k]
  BY DEF Behind
<1>1. Index \in Nat /\ i \in i .. Index
  BY DEF TypeOK, Index
<1>2. hist[i][k] = Current[k]
  BY <1>1 DEF IsLastIndex
<1>3. QED
  BY <1>2, CacheBehind

\* The two go together: an answer of w that is applied makes its prefix a
\* snapshot unless another watcher has written since it was listed.
FInv == PrefixIsSnapshot /\ SeenIsAhead

\* A watcher, or Start for it, lists.
LEMMA ForeignListed ==
  ASSUME TypeOK, Versions, CachedWasStored, FInv, NEW w \in Watchers, NEW i \in 1 .. Index,
         IsLastIndex(Under[w], i), answer' = [answer EXCEPT ![w] = i], Listed(w),
         UNCHANGED <<hist, cache, lastIndex>>
  PROVE  FInv'
<1>1. /\ foreign' = [foreign EXCEPT ![w] = IF @ = "unseen" THEN "seen" ELSE @]
      /\ foreign \in [Watchers -> Foreign] /\ answer \in [Watchers -> 0 .. Index]
      /\ Under[w] \subseteq Keys
  BY KVStoreAssumption DEF Listed, TypeOK
<1>2. \A v \in Watchers : foreign'[v] = "none" => foreign[v] = "none"
  BY <1>1
<1>3. PrefixIsSnapshot'
  BY <1>2 DEF FInv, PrefixIsSnapshot, StoreAt
<1>4. ASSUME NEW v \in Watchers, foreign'[v] = "seen"
      PROVE  answer'[v] # 0 /\ Behind(Under[v], answer[v])'
  <2>1. CASE v = w
    <3>1. answer'[v] = i /\ i # 0
      BY <1>1, <2>1
    <3>2. Behind(Under[v], i)
      BY <1>1, <2>1, ListedAhead
    <3>3. QED
      BY <3>1, <3>2 DEF Behind
  <2>2. CASE v # w
    <3>1. foreign[v] = "seen" /\ answer'[v] = answer[v]
      BY <1>1, <1>4, <2>2
    <3>2. QED
      BY <3>1 DEF FInv, SeenIsAhead, Behind
  <2>3. QED
    BY <2>1, <2>2
<1>5. QED
  BY <1>3, <1>4 DEF FInv, SeenIsAhead

\* A watcher, or Start for it, applies.
LEMMA ForeignApplied ==
  ASSUME TypeOK, Versions, FInv, NEW w \in Watchers, NEW i \in 1 .. Index,
         answer[w] = i, lastIndex[w] <= i, SyncCache(Under[w], i), Applied(w),
         lastIndex' = [lastIndex EXCEPT ![w] = i],
         answer' = [answer EXCEPT ![w] = 0], UNCHANGED hist
  PROVE  FInv'
<1>1. /\ foreign' = [v \in Watchers |->
           IF v = w THEN IF foreign[w] = "seen" THEN "none" ELSE foreign[w]
           ELSE IF Under[v] \cap Under[w] # {} THEN "unseen" ELSE foreign[v]]
      /\ foreign \in [Watchers -> Foreign] /\ answer \in [Watchers -> 0 .. Index]
      /\ lastIndex \in [Watchers -> 0 .. Index] /\ Index \in Nat
      /\ \A v \in Watchers : Under[v] \subseteq Keys
  <2>1. foreign' = [v \in Watchers |->
           IF v = w THEN IF foreign[w] = "seen" THEN "none" ELSE foreign[w]
           ELSE IF Under[v] \cap Under[w] # {} THEN "unseen" ELSE foreign[v]]
    BY DEF Applied
  <2>2. Index \in Nat /\ \A v \in Watchers : Under[v] \subseteq Keys
    <3>1. Under \in [Watchers -> SUBSET Keys]
      BY KVStoreAssumption
    <3>2. Index \in Nat
      BY DEF TypeOK, Index
    <3>3. QED
      BY <3>1, <3>2
  <2>3. /\ foreign \in [Watchers -> Foreign] /\ answer \in [Watchers -> 0 .. Index]
        /\ lastIndex \in [Watchers -> 0 .. Index]
    BY DEF TypeOK
  <2>4. QED
    BY <2>1, <2>2, <2>3
<1>2. \A k \in Keys \ Under[w] : cache'[k] = cache[k]
  BY DEF SyncCache
<1>3. ASSUME NEW v \in Watchers \ {w}, foreign'[v] # "unseen", NEW k \in Under[v]
      PROVE  cache'[k] = cache[k] /\ foreign'[v] = foreign[v]
  <2>1. Under[v] \cap Under[w] = {} /\ foreign'[v] = foreign[v]
    BY <1>1, <1>3
  <2>2. k \in Keys \ Under[w]
    BY <1>1, <2>1
  <2>3. QED
    BY <1>2, <2>1, <2>2
<1>4. ASSUME NEW v \in Watchers, foreign'[v] = "none", NEW k \in Under[v]
      PROVE  cache'[k] = (StoreAt(lastIndex[v])')[k]
  <2>1. CASE v = w
    <3>1. foreign[w] \in {"none", "seen"}
      BY <1>1, <1>4, <2>1 DEF Foreign
    <3>2. Behind(Under[w], i)
      <4>1. CASE foreign[w] = "seen"
        BY <4>1 DEF FInv, SeenIsAhead
      <4>2. CASE foreign[w] = "none"
        <5>1. \A q \in Under[w] : cache[q] = StoreAt(lastIndex[w])[q]
          BY <4>2 DEF FInv, PrefixIsSnapshot
        <5>2. lastIndex[w] \in 0 .. Index
          BY <1>1
        <5>3. QED
          BY <1>1, <5>1, <5>2, SnapshotBehind
      <4>3. QED
        BY <3>1, <4>1, <4>2
    <3>3. cache'[k] = hist[i][k]
      BY <1>1, <1>4, <2>1, <3>2, SyncAhead DEF Behind
    <3>4. lastIndex'[v] = i /\ i # 0
      BY <1>1, <2>1
    <3>5. QED
      BY <3>3, <3>4 DEF StoreAt
  <2>2. CASE v # w
    <3>1. cache'[k] = cache[k] /\ foreign[v] = "none"
      BY <1>3, <1>4, <2>2
    <3>2. lastIndex'[v] = lastIndex[v]
      BY <1>1, <2>2
    <3>3. cache[k] = StoreAt(lastIndex[v])[k]
      BY <1>4, <3>1 DEF FInv, PrefixIsSnapshot
    <3>4. QED
      BY <3>1, <3>2, <3>3 DEF StoreAt
  <2>3. QED
    BY <2>1, <2>2
<1>5. ASSUME NEW v \in Watchers, foreign'[v] = "seen"
      PROVE  answer'[v] # 0 /\ Behind(Under[v], answer[v])'
  <2>1. v # w
    BY <1>1, <1>5
  <2>2. foreign[v] = "seen" /\ answer'[v] = answer[v]
    BY <1>1, <1>5, <2>1
  <2>3. \A k \in Under[v] : cache'[k] = cache[k]
    BY <1>3, <1>5, <2>1
  <2>4. QED
    BY <2>2, <2>3 DEF FInv, SeenIsAhead, Behind
<1>6. QED
  BY <1>4, <1>5 DEF FInv, PrefixIsSnapshot, SeenIsAhead

\* Every step keeps both.
LEMMA ForeignStep ==
  TypeOK /\ Versions /\ CachedWasStored /\ StartsIdle /\ FInv /\ [NextAPI]_vars => FInv'
<1> SUFFICES ASSUME TypeOK, Versions, CachedWasStored, StartsIdle, FInv, [NextAPI]_vars
             PROVE  FInv'
  OBVIOUS
<1>1. CASE UNCHANGED <<hist, cache, lastIndex, answer, foreign>>
  BY <1>1 DEF FInv, PrefixIsSnapshot, SeenIsAhead, Behind, StoreAt
<1>2. ASSUME NEW k \in Keys, Put(k) \/ Delete(k)
      PROVE  FInv'
  <2>1. /\ Index \in Nat /\ \A i \in 1 .. Index : hist'[i] = hist[i]
        /\ UNCHANGED <<cache, lastIndex, answer, foreign>>
    BY <1>2, WriteShape, AppendFacts DEF Put, Delete
  <2>2. \A w \in Watchers : lastIndex[w] \in 0 .. Index /\ answer[w] \in 0 .. Index
    BY DEF TypeOK
  <2>3. \A w \in Watchers : StoreAt(lastIndex[w])' = StoreAt(lastIndex[w])
    BY <2>1, <2>2 DEF StoreAt
  <2>4. PrefixIsSnapshot'
    BY <2>1, <2>3 DEF FInv, PrefixIsSnapshot
  <2>5. SeenIsAhead'
    BY <2>1, <2>2 DEF FInv, SeenIsAhead, Behind
  <2>6. QED
    BY <2>4, <2>5 DEF FInv
<1>3. ASSUME NEW w \in Watchers, Answer(w) \/ TimeOut(w) \/ StartList(w)
      PROVE  FInv'
  <2>1. PICK i \in 1 .. Index : IsLastIndex(Under[w], i) /\ answer' = [answer EXCEPT ![w] = i]
    BY <1>3 DEF Answer, TimeOut, StartList
  <2>2. Listed(w) /\ UNCHANGED <<hist, cache, lastIndex>>
    BY <1>3 DEF Answer, TimeOut, StartList, consulVars
  <2>3. QED
    BY <2>1, <2>2, ForeignListed
<1>4. ASSUME NEW w \in Watchers, Apply(w) \/ StartSync(w)
      PROVE  FInv'
  <2>1. answer[w] \in 0 .. Index /\ lastIndex[w] \in 0 .. Index /\ Index \in Nat
    BY DEF TypeOK, Index
  <2>2. answer[w] \in 1 .. Index /\ lastIndex[w] <= answer[w]
    <3>1. CASE Apply(w)
      BY <2>1, <3>1 DEF Apply
    <3>2. CASE StartSync(w)
      <4>1. lastIndex[w] = 0
        BY <3>2 DEF StartSync, StartsIdle, TypeOK
      <4>2. QED
        BY <2>1, <3>2, <4>1 DEF StartSync
    <3>3. QED
      BY <1>4, <3>1, <3>2
  <2>3. /\ SyncCache(Under[w], answer[w]) /\ Applied(w) /\ UNCHANGED hist
        /\ lastIndex' = [lastIndex EXCEPT ![w] = answer[w]]
        /\ answer' = [answer EXCEPT ![w] = 0]
    BY <1>4 DEF Apply, StartSync, consulVars
  <2>4. QED
    BY <2>2, <2>3, ForeignApplied
<1>5. ASSUME NEW w \in Watchers, Skip(w)
      PROVE  FInv'
  <2>1. /\ foreign' = [foreign EXCEPT ![w] = IF @ = "seen" THEN "unseen" ELSE @]
        /\ answer' = [answer EXCEPT ![w] = 0] /\ UNCHANGED <<hist, cache, lastIndex>>
        /\ foreign \in [Watchers -> Foreign] /\ answer \in [Watchers -> 0 .. Index]
    BY <1>5 DEF Skip, Skipped, TypeOK, consulVars
  <2>2. \A v \in Watchers : foreign'[v] = "none" => foreign[v] = "none"
    BY <2>1
  <2>3. \A v \in Watchers : foreign'[v] = "seen" => foreign[v] = "seen" /\ answer'[v] = answer[v]
    BY <2>1
  <2>4. PrefixIsSnapshot'
    BY <2>1, <2>2 DEF FInv, PrefixIsSnapshot, StoreAt
  <2>5. SeenIsAhead'
    BY <2>1, <2>3 DEF FInv, SeenIsAhead, Behind
  <2>6. QED
    BY <2>4, <2>5 DEF FInv
<1>6. QED
  BY <1>1, <1>2, <1>3, <1>4, <1>5
     DEF NextAPI, Next, Consul, StartUp, Goroutine, Poll, Fail, WakeUp, StartBegin,
         StartListFails, StartEnd, Stop, AddWatcher, RemoveWatcher, consulVars, vars

\* Whatever watchers are added, removed and left to overlap: the cache is one
\* moment of the store under the prefix of each watcher, unless another watcher
\* has written there since the watcher listed the answer it applied last.
THEOREM PrefixAlwaysSnapshot == SpecAPI => []PrefixIsSnapshot
<1> DEFINE AInv == /\ TypeOK /\ StartsIdle /\ Versions /\ Origin /\ CachedWasStored
                   /\ FInv
<1>1. Init => AInv
  <2> SUFFICES ASSUME Init PROVE AInv
    OBVIOUS
  <2>1. TypeOK /\ Versions
    BY IInvInit DEF IInv
  <2>2. StartsIdle
    BY KVStoreAssumption DEF Init, StartsIdle, LoadedUnderLock
  <2>3. Origin /\ CachedWasStored
    BY StoredInit
  <2>4. PrefixIsSnapshot
    BY KVStoreAssumption DEF Init, PrefixIsSnapshot, StoreAt
  <2>5. SeenIsAhead
    BY DEF Init, SeenIsAhead
  <2>6. QED
    BY <2>1, <2>2, <2>3, <2>4, <2>5 DEF FInv
<1>2. AInv /\ [NextAPI]_vars => AInv'
  <2> SUFFICES ASSUME AInv, [NextAPI]_vars PROVE AInv'
    OBVIOUS
  <2>1. TypeOK' /\ StartsIdle'
    BY TypeStep, StartsIdleStep DEF StartsIdle
  <2>2. Versions'
    BY VersionsStepAPI
  <2>3. Origin' /\ CachedWasStored'
    BY StoredStep
  <2>4. FInv'
    BY ForeignStep
  <2>5. QED
    BY <2>1, <2>2, <2>3, <2>4
<1>3. AInv => PrefixIsSnapshot
  BY DEF FInv
<1>4. QED
  BY <1>1, <1>2, <1>3, PTL DEF SpecAPI
=============================================================================
