----------------------------- MODULE PodControl -----------------------------
(***************************************************************************)
(* The pods of one KubervisorService, as the Kubernetes API server stores  *)
(* them and as the shared informer of the controller caches them, and the  *)
(* requests with which Kubervisor relabels or deletes a pod                *)
(* (pkg/pod/control.go).  Kubervisor keeps no state of its own about a     *)
(* pod: the traffic label and the breakAt and retryCount annotations of    *)
(* the stored object are its memory.                                       *)
(*                                                                         *)
(* The API server is code outside the repository.  What matters of it:     *)
(*   - an Update carries the resourceVersion of the copy it was computed   *)
(*     from and is refused when the stored object has another one;         *)
(*   - a Delete by name carries no such precondition;                      *)
(*   - every change is sent to the informer, in order, later.              *)
(***************************************************************************)
EXTENDS Integers, Sequences, FiniteSets

CONSTANTS
  Pods,          \* names of pods
  Breakers,      \* names of the breaker strategies of the service
  NoStrategy,    \* stands for an absent kubervisor/strategy label
  Second,        \* ticks of the clock in one second
  NamesReused,   \* TRUE: a deleted pod may be recreated under its name
  MaxNow,        \* bound on the clock
  MaxMishaps     \* bound on disturbances: pods created, lost or flapping,
                 \* requests that fail, restarts

ASSUME PodsAssumption == IsFiniteSet(Pods)
ASSUME SecondAssumption == Second \in Nat \ {0}
ASSUME NamesReusedAssumption == NamesReused \in BOOLEAN
ASSUME BoundsAssumption == MaxNow \in Nat /\ MaxMishaps \in Nat

VARIABLES
  server,    \* the object the API server stores under each name
  cache,     \* the object the shared informer holds under each name
  events,    \* watch events sent to the informer and not yet delivered
  now,       \* the clock, in ticks
  mishaps,   \* how many disturbances happened so far
  \* Variables the code does not have; the properties refer to them.
  cuts,      \* how many times the pod really left traffic
  cutAt,     \* when it last did, to the tick
  killed     \* TRUE if the name is free because an activator deleted the pod

podVars == <<server, cache, events, now, mishaps, cuts, cutAt, killed>>

TrafficLabels == {"yes", "no", "pause", "unset"}

\* A pod object: its kubervisor labels and annotations, whether it is Running
\* and Ready, and its resourceVersion.  exists is FALSE for a free name.
PodObjects ==
  [name : Pods, rv : Nat, exists : BOOLEAN, managed : BOOLEAN, ready : BOOLEAN,
   traffic : TrafficLabels, strategy : Breakers \cup {NoStrategy},
   breakAt : Nat, retry : Nat]

Unlabelled(p, version, present) ==
  [name |-> p, rv |-> version, exists |-> present, managed |-> FALSE,
   ready |-> present, traffic |-> "unset", strategy |-> NoStrategy,
   breakAt |-> 0, retry |-> 0]

\* A pod the controller adopted before this behaviour starts.
InTrafficPod(p) ==
  [Unlabelled(p, 1, TRUE) EXCEPT !.managed = TRUE, !.traffic = "yes"]

PodInit ==
  /\ \E present \in SUBSET Pods :
       server = [p \in Pods |-> IF p \in present THEN InTrafficPod(p)
                                                 ELSE Unlabelled(p, 0, FALSE)]
  /\ cache = server
  /\ events = <<>>
  /\ now = 0
  /\ mishaps = 0
  /\ cuts = [p \in Pods |-> 0]
  /\ cutAt = [p \in Pods |-> 0]
  /\ killed = [p \in Pods |-> FALSE]

PodTypeOK ==
  /\ server \in [Pods -> PodObjects]
  /\ cache \in [Pods -> PodObjects]
  /\ \A p \in Pods : server[p].name = p /\ cache[p].name = p
  /\ events \in Seq(PodObjects)
  /\ now \in 0..MaxNow
  /\ mishaps \in 0..MaxMishaps
  /\ cuts \in [Pods -> Nat]
  /\ cutAt \in [Pods -> 0..MaxNow]
  /\ killed \in [Pods -> BOOLEAN]

-----------------------------------------------------------------------------
(* Selections over the cache (pkg/pod/tools.go, pkg/labeling).             *)

\* The item selector is the label kubervisor/name alone: the requirements of
\* the service selector are dropped when the item is built.
Managed(o) == o.exists /\ o.managed

\* KeepRunningPods, PurgeNotReadyPods and KeepWithTrafficYesPods.
ReadyPods(objects) == {o \in objects : Managed(o) /\ o.ready}
WithTrafficYes(objects) == {o \in ReadyPods(objects) : o.traffic = "yes"}
\* Mutants: the selector is not narrowed by the traffic label; only ready
\* pods are listed.
WithAnyTraffic(objects, label) == {o \in objects : Managed(o)}
ReadyWithTraffic(objects, label) == {o \in ReadyPods(objects) : o.traffic = label}

\* The selections of the activator.
WithTraffic(objects, label) == {o \in objects : Managed(o) /\ o.traffic = label}

Cached == {cache[p] : p \in Pods}

-----------------------------------------------------------------------------
(* The API server.                                                         *)

\* Optimistic concurrency: a copy may be written back only if it is current.
Current(copy) == copy.rv = server[copy.name].rv /\ copy.exists

Store(object) ==
  LET stored == [object EXCEPT !.rv = @ + 1] IN
  /\ server' = [server EXCEPT ![object.name] = stored]
  /\ events' = Append(events, stored)

\* One more disturbance: for a request, that it does not reach the server.
Mishap ==
  /\ mishaps < MaxMishaps
  /\ mishaps' = mishaps + 1

Refused(copy) ==
  /\ \/ ~Current(copy) /\ mishaps' = mishaps
     \/ Mishap
  /\ UNCHANGED <<server, events, cuts, cutAt, killed>>

-----------------------------------------------------------------------------
(* The requests of pkg/pod/control.go.  Each takes the copy its caller     *)
(* holds; a failed request changes nothing and is only logged.             *)

\* Mutants: the stamp is a second early; the stamp drops the seconds.
StampOfLastSecond(t) == t - (t % Second) - Second
StampOfMinute(t) == t - (t % (60 * Second))

\* time.Now().Format(time.RFC3339) drops the fraction of the second.
BreakAtStamp(t) == t - (t % Second)

\* InitBreakerAnnotationAndLabel
InitBreakerAnnotationAndLabel(copy) ==
  \/ /\ Current(copy)
     /\ Store([copy EXCEPT !.managed = TRUE, !.traffic = "yes"])
     /\ UNCHANGED <<mishaps, cuts, cutAt, killed>>
  \/ Refused(copy)

\* UpdateBreakerAnnotationAndLabel
UpdateBreakerAnnotationAndLabel(copy, b) ==
  \/ /\ Current(copy)
     /\ Store([copy EXCEPT !.managed = TRUE, !.strategy = b, !.traffic = "no",
                           !.breakAt = BreakAtStamp(now), !.retry = @ + 1])
     /\ cuts' = IF server[copy.name].traffic = "yes"
                  THEN [cuts EXCEPT ![copy.name] = @ + 1] ELSE cuts
     /\ cutAt' = [cutAt EXCEPT ![copy.name] = now]
     /\ UNCHANGED <<mishaps, killed>>
  \/ Refused(copy)

\* Mutant: the retry count is cleared with the traffic label.
SetTrafficAndRetry(copy, label) ==
  \/ /\ Current(copy)
     /\ Store([copy EXCEPT !.traffic = label, !.retry = 0])
     /\ UNCHANGED <<mishaps, cuts, cutAt, killed>>
  \/ Refused(copy)

\* UpdateActivationLabelsAndAnnotations and UpdatePauseLabelsAndAnnotations
SetTrafficLabel(copy, label) ==
  \/ /\ Current(copy)
     /\ Store([copy EXCEPT !.traffic = label])
     /\ UNCHANGED <<mishaps, cuts, cutAt, killed>>
  \/ Refused(copy)

\* RemoveBreakerAnnotationAndLabel: the traffic and strategy labels stay.  An
\* update that changes nothing leaves the object as it is.
BreakerAnnotationAndLabelRemoved(copy) ==
  LET object == [copy EXCEPT !.managed = FALSE, !.breakAt = 0, !.retry = 0] IN
  /\ Current(copy)
  /\ IF object = copy THEN UNCHANGED <<server, events>> ELSE Store(object)
  /\ UNCHANGED <<mishaps, cuts, cutAt, killed>>

\* KillPod: a Delete by name, whatever became of the pod since it was copied.
KillPod(copy) ==
  LET p == copy.name IN
  \/ /\ server[p].exists
     /\ Store(Unlabelled(p, server[p].rv, FALSE))
     /\ killed' = [killed EXCEPT ![p] = TRUE]
     /\ UNCHANGED <<mishaps, cuts, cutAt>>
  \/ /\ \/ ~server[p].exists /\ mishaps' = mishaps
        \/ Mishap
     /\ UNCHANGED <<server, events, cuts, cutAt, killed>>

-----------------------------------------------------------------------------
(* The surroundings: the informer, the clock, the controller's adoption of *)
(* new pods, and what happens to pods without Kubervisor.                  *)

DeliverEvent ==
  /\ events # <<>>
  /\ cache' = [cache EXCEPT ![Head(events).name] = Head(events)]
  /\ events' = Tail(events)
  /\ UNCHANGED <<server, now, mishaps, cuts, cutAt, killed>>

\* The watch is lost and the informer lists the pods afresh.
Relist ==
  /\ events # <<>>
  /\ cache' = server
  /\ events' = <<>>
  /\ UNCHANGED <<server, now, mishaps, cuts, cutAt, killed>>

Tick ==
  /\ now < MaxNow
  /\ now' = now + 1
  /\ UNCHANGED <<server, cache, events, mishaps, cuts, cutAt, killed>>

\* searchNewPods lists the API server, not the cache, and initializePods
\* labels what it finds without both labels.
AdoptPod(p) ==
  /\ server[p].exists
  /\ ~(server[p].managed /\ server[p].traffic # "unset")
  /\ InitBreakerAnnotationAndLabel(server[p])
  /\ UNCHANGED <<cache, now>>

\* The pod template may carry the traffic label already (docs/README.md).
PodCreated(p) ==
  /\ Mishap
  /\ ~server[p].exists
  /\ NamesReused \/ server[p].rv = 0
  /\ \E label \in {"unset", "yes"} :
       Store([Unlabelled(p, server[p].rv, TRUE) EXCEPT !.traffic = label])
  /\ cuts' = [cuts EXCEPT ![p] = 0]
  /\ cutAt' = [cutAt EXCEPT ![p] = 0]
  /\ killed' = [killed EXCEPT ![p] = FALSE]
  /\ UNCHANGED <<cache, now>>

PodLost(p) ==
  /\ Mishap
  /\ server[p].exists
  /\ Store(Unlabelled(p, server[p].rv, FALSE))
  /\ UNCHANGED <<cache, now, cuts, cutAt, killed>>

ReadinessChanges(p) ==
  /\ Mishap
  /\ server[p].exists
  /\ Store([server[p] EXCEPT !.ready = ~@])
  /\ UNCHANGED <<cache, now, cuts, cutAt, killed>>

PodNext ==
  \/ DeliverEvent
  \/ Relist
  \/ Tick
  \/ \E p \in Pods : \/ AdoptPod(p)
                     \/ PodCreated(p)
                     \/ PodLost(p)
                     \/ ReadinessChanges(p)
=============================================================================
