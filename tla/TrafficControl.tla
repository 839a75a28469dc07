--------------------------- MODULE TrafficControl ---------------------------
(***************************************************************************)
(* The workers of one started KubervisorServiceItem: its breakers and its  *)
(* activators run concurrently over the same pods, coordinated by nothing  *)
(* but the resourceVersion of the pods and the labels they write.          *)
(***************************************************************************)
EXTENDS Breaker, Activator

vars == <<podVars, breakerVars, activatorVars>>

Init == PodInit /\ BreakerInit /\ ActivatorInit

Breaking == \E b \in Breakers : BreakerStep(b) /\ UNCHANGED activatorVars

Activating == \E a \in Activators : ActivatorStep(a) /\ UNCHANGED breakerVars

Surroundings == PodNext /\ UNCHANGED <<breakerVars, activatorVars>>

\* The process dies and comes back, here or as another replica: what the
\* loops held is lost, the cache is filled from the API server.
Restart ==
  /\ Mishap
  /\ cache' = server
  /\ events' = <<>>
  /\ suspects' = [b \in Breakers |-> {}]
  /\ listed' = [b \in Breakers |-> 0]
  /\ budget' = [b \in Breakers |-> Undecided]
  /\ todo' = [a \in Activators |-> {}]
  /\ UNCHANGED <<server, now, cuts, cutAt, killed>>

Next == Breaking \/ Activating \/ Surroundings \/ Restart

Spec == Init /\ [][Next]_vars

\* The informer delivers what the API server sent, and an activator's ticker
\* goes on firing: its loop blocks on nothing but its own requests.
Fairness ==
  /\ WF_vars(DeliverEvent /\ UNCHANGED <<breakerVars, activatorVars>>)
  /\ \A a \in Activators :
       WF_vars(ActivatorStep(a) /\ UNCHANGED breakerVars)

FairSpec == Spec /\ Fairness

\* Pods that are ready stay ready, unless an activator deletes them.
Steady ==
  \A p \in Pods : server[p].exists /\ server[p].ready =>
    killed'[p] \/ (server'[p].exists /\ server'[p].ready)

SteadySpec == Init /\ [][Next /\ Steady]_vars

-----------------------------------------------------------------------------
(* Type invariant.                                                         *)

TypeOK == PodTypeOK /\ BreakerTypeOK /\ ActivatorTypeOK

-----------------------------------------------------------------------------
(* What the workers implement.                                             *)

\* The phase of a pod's life that the stored object s stands for.
PhaseOf(s) ==
  CASE ~s.exists -> IF killed[s.name] THEN "killed" ELSE "free"
    [] s.exists /\ ~s.managed -> "new"
    [] Managed(s) /\ s.traffic = "yes" -> "in"
    [] Managed(s) /\ s.traffic = "no" -> "out"
    [] OTHER -> "paused"

Phase == [p \in Pods |-> PhaseOf(server[p])]

Lifecycle == INSTANCE PodLifecycle WITH phase <- Phase, clock <- now

\* Whatever the loops write from their stale copies, every pod goes through
\* the life PodLifecycle promises: retries back off, are counted and end, a
\* paused pod gets no traffic again, and only exhausted pods are killed.
ImplementsLifecycle == Lifecycle!Spec

-----------------------------------------------------------------------------
(* Safety.                                                                 *)

\* retryCount is the number of times the pod really left traffic: loops that
\* read it from one copy and write it back lose no cut and count none twice
\* (UpdateBreakerAnnotationAndLabel).
RetryCountsCuts ==
  \A p \in Pods : server[p].exists => server[p].retry = cuts[p]

\* No copy is ahead of the API server, one of the stored revision is the
\* stored object, and none has a retry count the pod has not reached.
NotAhead(copy) ==
  LET stored == server[copy.name] IN
  /\ copy.rv <= stored.rv
  /\ copy.rv = stored.rv => copy = stored
  /\ copy.retry <= cuts[copy.name]

\* What the loops hold: wherever a copy of a pod is kept, in the cache, in
\* the watch or in a loop, it is a past or present state of that pod.
CopiesNotAhead ==
  /\ \A p \in Pods : NotAhead(cache[p])
  /\ \A i \in 1..Len(events) : NotAhead(events[i])
  /\ \A b \in Breakers : \A o \in suspects[b] :
       NotAhead(o) /\ Managed(o) /\ o.traffic = "yes"
  /\ \A a \in Activators : \A o \in todo[a] :
       NotAhead(o) /\ Managed(o) /\ o.traffic = "no"

\* What the labels and annotations of a stored pod say of its history.
TellsHistory(s) ==
  /\ s.exists => ~killed[s.name]
  /\ ~s.exists => ~s.managed /\ s.retry = 0
  /\ ~s.managed => s.traffic \in {"unset", "yes"}
  /\ s.managed => s.traffic # "unset"
  /\ s.traffic = "no" => /\ s.breakAt <= cutAt[s.name]
                         /\ cutAt[s.name] < s.breakAt + Second

\* breakAt is the second of the last cut, only adopted pods carry a state of
\* the breaker, and a killed or lost pod has left none behind.
LabelsTellHistory == \A p \in Pods : TellsHistory(server[p])

\* The inductive invariant: together the four explain why a write computed
\* from a stale copy cannot corrupt a pod's history.
Inv == TypeOK /\ RetryCountsCuts /\ CopiesNotAhead /\ LabelsTellHistory

InTraffic == {p \in Pods : server[p] \in WithTrafficYes({server[p]})}

CutBy(b) == CutPod(b) /\ server' # server

\* One cut after another, and whatever the activators do between them, an
\* evaluation leaves minPodsAvailableCount ready pods in traffic, and
\* minPodsAvailableRatio of those it listed, less the fraction of a pod that
\* computeMinAvailablePods rounds away.  One strategy, its watch delivered.
FloorOfEvaluation ==
  [][\A b \in Breakers :
       LET left == Cardinality(InTraffic') IN
       CutBy(b) => /\ left >= MinCount[b]
                   /\ left * 100 > MinRatio[b] * listed[b] - 100]_vars

\* No breaker takes the service below its defined threshold
\* (docs/README.md:37): a cut leaves minPodsAvailableCount ready pods in
\* traffic, though the breakers of two strategies decide at the same time (Run).
MinCountKept ==
  [][\A b \in Breakers : CutBy(b) => Cardinality(InTraffic') >= MinCount[b]]_vars

KilledNow(p) == ~killed[p] /\ killed'[p]

\* A pod that an activator deletes, by name and from a copy of some earlier
\* time, is out of traffic when the API server deletes it (KillPod).
KillsOnlyCutPods ==
  [][\A p \in Pods : KilledNow(p) => Phase[p] = "out"]_vars

\* Activators that share the service, each treating the pods the others list,
\* never delete a pod that one of them has put back into traffic (KillPod).
\* They do when their retry limits differ: one limit is assumed here.
SparesServingPods ==
  [][\A p \in Pods : KilledNow(p) => Phase[p] # "in"]_vars

\* A paused pod stays, out of traffic for ever (docs/README.md:38), unless
\* something other than Kubervisor deletes it.
PausedForEver ==
  [][\A p \in Pods : Phase[p] = "paused" => Phase'[p] \in {"paused", "free"}]_vars

\* The activator of a strategy acts on pods that this strategy cut
\* (pkg/activate/activator.go:75).
OwnCutsOnly ==
  [][\A a \in Activators :
       ApplyActivatorStrategy(a) /\ Strategy[a] # NoStrategy =>
         \A p \in Pods : server'[p] # server[p] => server[p].strategy = Strategy[a]]_vars

-----------------------------------------------------------------------------
(* Liveness.                                                               *)

\* What an activator owes a cut pod, a retry, a pause or a deletion, the pod
\* eventually gets, however stale the copies it is computed from.
Owed(p) ==
  /\ Phase[p] = "out"
  /\ \E a \in Activators : Exhausted(a, server[p]) \/ RetryDue(a, server[p])

CutPodsAreResolved == \A p \in Pods : Owed(p) ~> Phase[p] # "out"
=============================================================================
