--------------------------- MODULE ConsulProvider ---------------------------
(***************************************************************************)
(* The topology watcher of internal/server/consul_provider.go: services    *)
(* with a TTL check in Consul, the goroutine watchTopology that asks for   *)
(* them every five seconds, compares and announces, and the subscriber at  *)
(* the other end of a channel of ChanCap events.                           *)
(* A goroutine that comes back from an update is in its select at once.    *)
(*                                                                         *)
(* Consul is external and its history explicit: hist[i] is the i-th state  *)
(* of the services, so that a list of members is a number.  0 stands for   *)
(* the empty map a new provider has.  Of a service, the health and the     *)
(* address (with its port) are modelled: both are stored with a member,    *)
(* but only the first is compared.  One caller starts and stops the        *)
(* provider, as isRunning is read and written without a lock.              *)
(***************************************************************************)
EXTENDS Integers, Sequences

CONSTANTS
  Nodes,     \* names of services of the cluster
  Addrs,     \* the addresses and ports a service may be registered with
  ChanCap,   \* the capacity of topologyCh, 10
  MaxHist,   \* bound: states of Consul
  MaxStarts  \* bound: calls of Start, each with a goroutine of its own

Gone     == [health |-> "absent", addr |-> "none"]
Services == [health : {"critical", "passing"}, addr : Addrs] \cup {Gone}
Watchers == 1 .. MaxStarts

ASSUME ConsulProviderAssumption ==
  /\ ChanCap \in Nat \ {0} /\ MaxHist \in Nat \ {0} /\ MaxStarts \in Nat

VARIABLES
  hist,        \* Consul: its states so far, the last one is now
  members,     \* p.members
  topologyCh,  \* the events in the channel
  isRunning,   \* p.isRunning
  starts,      \* counts the calls of Start
  stops,       \* counts the calls of Stop; stopCh and topologyCh are closed after one
  cancelled,   \* the context that Start is given is done
  pc,          \* where each goroutine watchTopology is
  answer,      \* the members updateTopology has got
  crashed,     \* a panic has ended the process
  seen,        \* the members of the event the subscriber received last
  dropped,     \* history: the members of the event dropped last
  caught       \* history: goroutines on their way through an update at the time of a Stop

provider == <<members, topologyCh, isRunning, starts, stops, cancelled, pc, answer,
              crashed, dropped, caught>>
vars     == <<hist, provider, seen>>
life     == <<isRunning, starts, stops, cancelled, caught>>

PCs    == {"none", "select", "query", "diff", "send", "loop", "done"}
Busy   == {"query", "diff", "send", "loop"}  \* not waiting in select
Closed == stops > 0
Running == ~crashed

-----------------------------------------------------------------------------
(* Consul, and the methods that change a service in it.                    *)

Nothing == [n \in Nodes |-> Gone]
View(i) == IF i = 0 THEN Nothing ELSE hist[i]
Now     == Len(hist)

\* The part of a list of members that updateTopology compares.
Healths(i) == [n \in Nodes |-> View(i)[n].health]

Service(n) == hist[Now][n]

Put(n, service) ==
  /\ Len(hist) < MaxHist
  /\ service # Service(n)
  /\ hist' = Append(hist, [hist[Now] EXCEPT ![n] = service])
  /\ UNCHANGED <<provider, seen>>

\* A TTL check is critical until it is updated; Consul may carry over the status
\* of the check of a service that is registered again, with whatever address.
RegisterService(n, a) ==
  \E health \in {"critical", Service(n).health} \ {"absent"} :
    Put(n, [health |-> health, addr |-> a])

DeregisterService(n) == Put(n, Gone)

SendHeartbeat(n) ==
  Service(n).health = "critical" /\ Put(n, [Service(n) EXCEPT !.health = "passing"])

\* Consul misses heartbeats for three intervals, and then for much longer.
Expire(n) == Service(n).health = "passing" /\ Put(n, [Service(n) EXCEPT !.health = "critical"])
Reap(n)   == Service(n).health = "critical" /\ Put(n, Gone)

-----------------------------------------------------------------------------
(* The provider.                                                           *)

\* Start; if Consul has no leader it fails and changes nothing.
Start ==
  /\ Running /\ ~isRunning /\ starts < MaxStarts
  /\ starts' = starts + 1
  /\ isRunning' = TRUE
  /\ pc' = [pc EXCEPT ![starts + 1] = "select"]
  /\ UNCHANGED <<hist, members, topologyCh, stops, cancelled, answer, crashed, seen, dropped, caught>>

\* Stop closes both channels; to close a channel again is a panic.
Stop ==
  /\ Running /\ isRunning
  /\ stops' = stops + 1
  /\ caught' = caught \cup {w \in Watchers : pc[w] \in Busy}
  /\ crashed' = Closed
  /\ isRunning' = Closed
  /\ UNCHANGED <<hist, members, topologyCh, starts, cancelled, pc, answer, seen, dropped>>

Cancel ==
  /\ Running /\ ~cancelled
  /\ cancelled' = TRUE
  /\ UNCHANGED <<hist, members, topologyCh, isRunning, starts, stops, pc, answer, crashed, seen, dropped, caught>>

\* Mutant: the loop does not listen to stopCh.
TickAnyway(w) ==
  /\ Running /\ pc[w] \in {"select", "loop"}
  /\ pc' = [pc EXCEPT ![w] = "query"]
  /\ UNCHANGED <<hist, members, topologyCh, life, answer, crashed, seen, dropped>>

\* The ticker fires.  Who waits in select is woken by what comes first; who gets
\* there late may find a tick as well as stopCh or the context, and select
\* chooses either.
Tick(w) ==
  /\ Running /\ pc[w] \in {"select", "loop"}
  /\ Closed \/ cancelled => pc[w] = "loop"
  /\ pc' = [pc EXCEPT ![w] = "query"]
  /\ UNCHANGED <<hist, members, topologyCh, life, answer, crashed, seen, dropped>>

Wait(w) ==
  /\ Running /\ pc[w] = "loop" /\ ~Closed /\ ~cancelled
  /\ pc' = [pc EXCEPT ![w] = "select"]
  /\ UNCHANGED <<hist, members, topologyCh, life, answer, crashed, seen, dropped>>

WatchEnds(w) ==
  /\ Running /\ pc[w] \in {"select", "loop"} /\ (Closed \/ cancelled)
  /\ pc' = [pc EXCEPT ![w] = "done"]
  /\ UNCHANGED <<hist, members, topologyCh, life, answer, crashed, seen, dropped>>

\* GetMembers: the services as they are now, ...
Query(w) ==
  /\ Running /\ pc[w] = "query"
  /\ answer' = [answer EXCEPT ![w] = Now]
  /\ pc' = [pc EXCEPT ![w] = "diff"]
  /\ UNCHANGED <<hist, members, topologyCh, life, crashed, seen, dropped>>

\* Mutant: an error ends the goroutine.
QueryFailsForGood(w) ==
  /\ Running /\ pc[w] = "query"
  /\ pc' = [pc EXCEPT ![w] = "done"]
  /\ UNCHANGED <<hist, members, topologyCh, life, answer, crashed, seen, dropped>>

\* Mutant: an error is taken for an empty list.
QueryFailsEmpty(w) ==
  /\ Running /\ pc[w] = "query"
  /\ answer' = [answer EXCEPT ![w] = 0]
  /\ pc' = [pc EXCEPT ![w] = "diff"]
  /\ UNCHANGED <<hist, life, members, topologyCh, crashed, seen, dropped>>

\* ... or an error, and a new attempt at the next tick.
QueryFails(w) ==
  /\ Running /\ pc[w] = "query"
  /\ pc' = [pc EXCEPT ![w] = "loop"]
  /\ UNCHANGED <<hist, members, topologyCh, life, answer, crashed, seen, dropped>>

\* updateTopology under p.mu: has a node come, gone, or changed its health?  Its
\* address may change unnoticed.
Joined(old, new)  == \E n \in Nodes : old[n] = Gone /\ new[n] # Gone
Left(old, new)    == \E n \in Nodes : old[n] # Gone /\ new[n] = Gone
Flipped(old, new) == \E n \in Nodes :
  old[n] # Gone /\ new[n] # Gone /\ (old[n].health = "passing") # (new[n].health = "passing")

\* Mutants: health is not compared; every answer is announced.
ChangedNames(old, new)  == Joined(old, new) \/ Left(old, new)
ChangedAlways(old, new) == TRUE

Changed(old, new) == Joined(old, new) \/ Flipped(old, new) \/ Left(old, new)

Diff(w) ==
  /\ Running /\ pc[w] = "diff"
  /\ members' = answer[w]
  /\ pc' = [pc EXCEPT ![w] = IF Changed(View(members), View(answer[w])) THEN "send" ELSE "loop"]
  /\ UNCHANGED <<hist, topologyCh, life, answer, crashed, seen, dropped>>

\* The event is sent if there is room for it, and dropped if not.  By now the
\* channel may be closed, and a send on it, even in a select, is a panic.
Send(w) ==
  /\ Running /\ pc[w] = "send"
  /\ IF Closed
     THEN crashed' = TRUE /\ UNCHANGED <<topologyCh, dropped>>
     ELSE IF Len(topologyCh) < ChanCap
     THEN topologyCh' = Append(topologyCh, answer[w]) /\ UNCHANGED <<crashed, dropped>>
     ELSE dropped' = answer[w] /\ UNCHANGED <<topologyCh, crashed>>
  /\ pc' = [pc EXCEPT ![w] = "loop"]
  /\ UNCHANGED <<hist, members, life, answer, seen>>

\* The subscriber takes an event from SubscribeTopology's channel; what is in
\* it when it is closed can still be taken.
Receive ==
  /\ Running /\ topologyCh # << >>
  /\ seen' = Head(topologyCh)
  /\ topologyCh' = Tail(topologyCh)
  /\ UNCHANGED <<hist, members, life, pc, answer, crashed, dropped>>

-----------------------------------------------------------------------------
Init ==
  /\ \E v \in [Nodes -> Services] : hist = <<v>>
  /\ members = 0 /\ topologyCh = << >> /\ seen = 0 /\ dropped = 0
  /\ isRunning = FALSE /\ starts = 0 /\ stops = 0 /\ crashed = FALSE /\ cancelled = FALSE
  /\ pc = [w \in Watchers |-> "none"]
  /\ answer = [w \in Watchers |-> 0]
  /\ caught = {}

Consul == \E n \in Nodes :
  \/ \E a \in Addrs : RegisterService(n, a)
  \/ DeregisterService(n) \/ SendHeartbeat(n) \/ Expire(n) \/ Reap(n)

Watch(w) ==
  Tick(w) \/ Wait(w) \/ WatchEnds(w) \/ Query(w) \/ QueryFails(w) \/ Diff(w) \/ Send(w)

Next == Consul \/ Start \/ Stop \/ Cancel \/ Receive \/ \E w \in Watchers : Watch(w)

\* Goroutines run on, the ticker ticks, the subscriber reads, and Consul does
\* not fail every query.
Fairness ==
  /\ \A w \in Watchers : WF_vars(Watch(w)) /\ SF_vars(Query(w))
  /\ WF_vars(Receive)

Spec     == Init /\ [][Next]_vars
FairSpec == Spec /\ Fairness

-----------------------------------------------------------------------------
(* Properties.                                                             *)

\* Every variable has its type, and no number is later than the last state.
TypeOK ==
  /\ hist \in Seq([Nodes -> Services]) /\ hist # << >>
  /\ members \in 0 .. Now /\ seen \in 0 .. Now /\ dropped \in 0 .. Now
  /\ topologyCh \in Seq(1 .. Now) /\ Len(topologyCh) <= ChanCap
  /\ isRunning \in BOOLEAN /\ cancelled \in BOOLEAN /\ crashed \in BOOLEAN
  /\ starts \in 0 .. MaxStarts /\ stops \in Nat
  /\ pc \in [Watchers -> PCs]
  /\ answer \in [Watchers -> 0 .. Now]
  /\ caught \in SUBSET Watchers

\* The members that the subscriber has once it has read what is in the channel.
Announced == IF topologyCh = << >> THEN seen ELSE topologyCh[Len(topologyCh)]

\* What has been announced names the members, with their health, that
\* GetMemberByName and MemberCount answer from, unless the event that said so was
\* dropped, or is about to be sent.  Their addresses may be others: updateTopology
\* stores a changed address and announces nothing.
MembersAnnounced ==
  (\A w \in Watchers : pc[w] # "send") /\ ~Closed /\ dropped <= Announced
    => Healths(Announced) = Healths(members)

\* The provider brings the process down only if Stop came in the middle of an
\* update, before the goroutine was back in select, or came twice.
CrashNeedsOverlap == crashed => caught # {} \/ stops > 1

\* What the subscriber is shown are later and later states of the cluster.
O == INSTANCE Observer
ObserverSpec == O!Spec

\* A provider that keeps running has the members as they are in the end, addresses
\* included, and has shown its subscriber which they are and their health, if no
\* event was dropped.  The addresses that the subscriber has may be old ones.
ShowsTheLast ==
  <>[](isRunning /\ ~Closed /\ ~cancelled /\ dropped = 0)
    => <>[](View(members) = hist[Now] /\ Healths(seen) = Healths(Now))
=============================================================================
