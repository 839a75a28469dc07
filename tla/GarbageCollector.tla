------------------------- MODULE GarbageCollector ---------------------------
(***************************************************************************)
(* How pods come under Kubervisor and leave it: the sync of the leader     *)
(* adopts the pods its Service selects and releases those it selects no    *)
(* more, and on every replica a garbage collector releases the pods whose  *)
(* KubervisorService is gone (pkg/controller/gc.go).  All of them act from *)
(* cached copies, at any time, and know nothing of one another.            *)
(*                                                                         *)
(* There is one KubervisorService; `managed' says that a pod names it.  The*)
(* replicas share one cache here.                                          *)
(***************************************************************************)
EXTENDS PodControl

CONSTANTS
  Collectors,          \* the garbage collectors, one for each replica
  MissCountBeforeGC,
  MaxCuts              \* bound on the cuts of a pod, so long as it is managed

\* newGarbageCollector refuses a smaller count.
ASSUME CollectorAssumption == MissCountBeforeGC \in Nat \ {0} /\ MaxCuts \in Nat

VARIABLES
  ks,         \* whether the KubervisorService exists
  ksSeen,     \* whether breakerLister returns it
  selected,   \* the pods under the selector of the Service
  counters,   \* of each collector: ticks that missed the service of each pod,
              \* MissCountBeforeGC at most
  sweep,      \* what the tick under way of each collector has still to do
  \* A variable the code does not have.
  failedOnce  \* the pods each collector failed to clean since it began to
              \* count them

serviceVars == <<ks, ksSeen, selected>>
collectorVars == <<counters, sweep, failedOnce>>
vars == <<podVars, serviceVars, collectorVars>>

Idle == [at |-> "idle", found |-> FALSE, todo |-> {}]

Init ==
  /\ PodInit
  /\ ks = TRUE /\ ksSeen = TRUE
  /\ selected = Pods
  /\ counters = [c \in Collectors |-> [p \in Pods |-> 0]]
  /\ sweep = [c \in Collectors |-> Idle]
  /\ failedOnce = [c \in Collectors |-> {}]

\* Types; and what is left to clean has been missed often enough.
TypeOK ==
  /\ PodTypeOK
  /\ ks \in BOOLEAN /\ ksSeen \in BOOLEAN
  /\ selected \in SUBSET Pods
  /\ counters \in [Collectors -> [Pods -> 0..MissCountBeforeGC]]
  /\ sweep \in [Collectors -> [at : {"idle", "count", "clean"}, found : BOOLEAN,
                               todo : SUBSET Pods]]
  /\ failedOnce \in [Collectors -> SUBSET Pods]
  /\ \A c \in Collectors : \A p \in sweep[c].todo : counters[c][p] = MissCountBeforeGC

-----------------------------------------------------------------------------
(* The sync of the leader.                                                 *)

\* initializePods
Adopt(p) ==
  /\ ksSeen /\ p \in selected
  /\ AdoptPod(p)
  /\ UNCHANGED <<serviceVars, collectorVars>>

\* Mutant: the two lists are compared the wrong way round.
NoneDiscarded(objects) == {o \in Cached : o.name \in selected} \ objects

\* ExcludeFromSlice: the pods of a list that are not under the selector.
Discarded(objects) == {o \in objects : o.name \notin selected}

\* podsCleaner, pod by pod.
CleanDiscarded(p) ==
  /\ ksSeen
  /\ cache[p] \in Discarded({o \in Cached : Managed(o)})
  /\ BreakerAnnotationAndLabelRemoved(cache[p]) \/ Refused(cache[p])
  /\ UNCHANGED <<cache, now, serviceVars, collectorVars>>

\* The breakers and activators relabel what they find in the cache.  Those of a
\* deleted KubervisorService go on (clearItem).
WorkerRelabels(p) ==
  /\ Managed(cache[p])
  /\ \/ /\ cache[p].traffic = "yes" /\ cache[p].retry < MaxCuts
        /\ \E b \in Breakers : UpdateBreakerAnnotationAndLabel(cache[p], b)
     \/ /\ cache[p].traffic = "no"
        /\ \E label \in {"yes", "pause"} : SetTrafficLabel(cache[p], label)
  /\ UNCHANGED <<cache, now, serviceVars, collectorVars>>

-----------------------------------------------------------------------------
(* The garbage collector.                                                  *)

\* A tick: updateCounters lists the KubervisorServices.
BeginSweep(c) ==
  /\ sweep[c].at = "idle"
  /\ sweep' = [sweep EXCEPT ![c].at = "count", ![c].found = ksSeen]
  /\ UNCHANGED <<podVars, serviceVars, counters, failedOnce>>

\* Mutant: one tick early.
DueEarly(count) == count + 1 >= MissCountBeforeGC

Due(count) == count >= MissCountBeforeGC

\* The pods that name a KubervisorService which was not listed.
Missed(c) == {p \in Pods : Managed(cache[p]) /\ ~sweep[c].found}

\* updateCounters goes through the pods, and cleanPods through the counters.
UpdateCounters(c) ==
  LET count(p) == IF p \in Missed(c) /\ ~Due(counters[c][p])
                    THEN counters[c][p] + 1 ELSE counters[c][p] IN
  /\ sweep[c].at = "count"
  /\ counters' = [counters EXCEPT ![c] = [p \in Pods |-> count(p)]]
  /\ sweep' = [sweep EXCEPT ![c].at = "clean",
                            ![c].todo = {p \in Pods : Due(count(p))}]
  /\ UNCHANGED <<podVars, serviceVars, failedOnce>>

\* Mutant: the counter of a cleaned pod is kept.
KeepCounter(c, p) == UNCHANGED <<counters, failedOnce>>

DropCounter(c, p) ==
  /\ counters' = [counters EXCEPT ![c][p] = 0]
  /\ failedOnce' = [failedOnce EXCEPT ![c] = @ \ {p}]

Failure(c, p) ==
  /\ failedOnce' = [failedOnce EXCEPT ![c] = @ \cup {p}]
  /\ UNCHANGED counters

\* cleanPods, pod by pod.  The counter of a pod that is not in the cache, or
\* that could not be updated, stays.
CleanPod(c, p) ==
  /\ sweep[c].at = "clean" /\ p \in sweep[c].todo
  /\ \/ /\ ~cache[p].exists
        /\ UNCHANGED podVars
        /\ Failure(c, p)
     \/ /\ cache[p].exists
        /\ \/ BreakerAnnotationAndLabelRemoved(cache[p]) /\ DropCounter(c, p)
           \/ Refused(cache[p]) /\ Failure(c, p)
        /\ UNCHANGED <<cache, now>>
  /\ sweep' = [sweep EXCEPT ![c].todo = @ \ {p}]
  /\ UNCHANGED serviceVars

EndSweep(c) ==
  /\ sweep[c].at = "clean" /\ sweep[c].todo = {}
  /\ sweep' = [sweep EXCEPT ![c] = Idle]
  /\ UNCHANGED <<podVars, serviceVars, counters, failedOnce>>

\* The process restarts: its counters are gone.
Restart(c) ==
  /\ Mishap
  /\ counters' = [counters EXCEPT ![c] = [p \in Pods |-> 0]]
  /\ sweep' = [sweep EXCEPT ![c] = Idle]
  /\ failedOnce' = [failedOnce EXCEPT ![c] = {}]
  /\ UNCHANGED <<server, cache, events, now, cuts, cutAt, killed, serviceVars>>

Collect(c) ==
  \/ BeginSweep(c) \/ UpdateCounters(c) \/ EndSweep(c)
  \/ \E p \in Pods : CleanPod(c, p)

-----------------------------------------------------------------------------
(* Users and informers.                                                    *)

UserTogglesService ==
  /\ Mishap
  /\ ks' = ~ks
  /\ UNCHANGED <<server, cache, events, now, cuts, cutAt, killed,
                 ksSeen, selected, collectorVars>>

UserChangesSelector ==
  /\ Mishap
  /\ selected' \in SUBSET Pods \ {selected}
  /\ UNCHANGED <<server, cache, events, now, cuts, cutAt, killed, ks, ksSeen, collectorVars>>

DeliverService ==
  /\ ksSeen # ks
  /\ ksSeen' = ks
  /\ UNCHANGED <<podVars, ks, selected, collectorVars>>

DeliverPod == DeliverEvent /\ UNCHANGED <<serviceVars, collectorVars>>

PodsChange ==
  /\ \E p \in Pods : PodCreated(p) \/ PodLost(p)
  /\ UNCHANGED <<serviceVars, collectorVars>>

Next ==
  \/ \E p \in Pods : Adopt(p) \/ CleanDiscarded(p) \/ WorkerRelabels(p)
  \/ \E c \in Collectors : Collect(c) \/ Restart(c)
  \/ UserTogglesService \/ UserChangesSelector \/ DeliverService
  \/ DeliverPod \/ PodsChange

Spec == Init /\ [][Next]_vars

\* Informers deliver, tickers fire, and the resync of the informers brings the
\* key to the sync again and again.
Fairness ==
  /\ WF_vars(DeliverPod) /\ WF_vars(DeliverService)
  /\ \A c \in Collectors : WF_vars(Collect(c))
  /\ \A p \in Pods : WF_vars(Adopt(p)) /\ WF_vars(CleanDiscarded(p))

FairSpec == Spec /\ Fairness

-----------------------------------------------------------------------------
(* Properties.                                                             *)

\* Collector c has just taken the labels from pod p.
Released(c, p) == CleanPod(c, p) /\ server[p].managed /\ ~server'[p].managed

\* A collector whose sweep has seen the KubervisorService takes no pod from it,
\* unless it failed to clean a pod of that name before: the counter that cleanPods
\* then keeps is not checked against the service again.
ServedPodsKept ==
  [][\A c \in Collectors, p \in Pods :
       Released(c, p) /\ sweep[c].found => p \in failedOnce[c]]_vars

Belongs(p) == ks /\ p \in selected

\* Adoption, podsCleaner and the collectors of all replicas come to agree: in
\* the end a pod names the KubervisorService if that exists and its Service
\* selects the pod, and otherwise it does not.
LabelsFollowService ==
  \A p \in Pods :
    /\ <>[](server[p].exists /\ Belongs(p)) => <>[](server[p].managed)
    /\ <>[](server[p].exists /\ ~Belongs(p)) => <>[](~server[p].managed)

\* A pod that the Service selects and that Kubervisor released carries nothing
\* of Kubervisor's that keeps it out of traffic (pkg/pod/control.go:123).
ReleasedPodsServe ==
  \A p \in selected : server[p].exists /\ ~server[p].managed =>
                        server[p].traffic \in {"unset", "yes"}
=============================================================================
