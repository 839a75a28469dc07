----------------------- MODULE GarbageCollectorProofs ------------------------
(***************************************************************************)
(* Theorems of GarbageCollector, for any pods, collectors and bounds: the  *)
(* variables keep their types, and a collector that has just seen the      *)
(* KubervisorService takes a pod from it only after it failed to clean a   *)
(* pod of that name.                                                       *)
(***************************************************************************)
EXTENDS GarbageCollector, PodControlProofs

\* What the collectors keep, apart from the pods.
CollectorTypeOK ==
  /\ counters \in [Collectors -> [Pods -> 0..MissCountBeforeGC]]
  /\ sweep \in [Collectors -> [at : {"idle", "count", "clean"}, found : BOOLEAN,
                               todo : SUBSET Pods]]
  /\ failedOnce \in [Collectors -> SUBSET Pods]
  /\ \A c \in Collectors : \A p \in sweep[c].todo : counters[c][p] = MissCountBeforeGC

ServiceTypeOK == ks \in BOOLEAN /\ ksSeen \in BOOLEAN /\ selected \in SUBSET Pods

LEMMA TypeParts == TypeOK <=> PodTypeOK /\ ServiceTypeOK /\ CollectorTypeOK
BY DEF TypeOK, ServiceTypeOK, CollectorTypeOK

\* The inductive part: a full counter belongs to a pod whose cleaning failed, or
\* to one that the sweep under way has just missed and has still to clean.
FullCountersExplained ==
  \A c \in Collectors, p \in Pods :
    counters[c][p] = MissCountBeforeGC =>
      \/ p \in failedOnce[c]
      \/ sweep[c].at = "clean" /\ p \in sweep[c].todo /\ ~sweep[c].found

Inv == CollectorTypeOK /\ FullCountersExplained

LEMMA InitInv == Init => Inv /\ TypeOK
<1> SUFFICES ASSUME Init PROVE Inv /\ TypeOK
  OBVIOUS
<1>1. CollectorTypeOK /\ ServiceTypeOK
  BY CollectorAssumption DEF Init, Idle, CollectorTypeOK, ServiceTypeOK
<1>2. FullCountersExplained
  BY CollectorAssumption DEF Init, FullCountersExplained
<1> QED
  BY <1>1, <1>2, PodInitType, TypeParts DEF Init, Inv

-----------------------------------------------------------------------------
(* The collectors' own steps.                                              *)

LEMMA BeginSweepInv ==
  ASSUME Inv, ksSeen \in BOOLEAN, NEW c \in Collectors, BeginSweep(c)
  PROVE  Inv'
<1>1. \A d \in Collectors :
        /\ sweep'[d].todo = sweep[d].todo
        /\ d # c => sweep'[d] = sweep[d]
  BY DEF BeginSweep, Inv, CollectorTypeOK
<1>2. /\ sweep[c].at = "idle" /\ UNCHANGED <<counters, failedOnce>>
      /\ sweep' \in [Collectors -> [at : {"idle", "count", "clean"}, found : BOOLEAN,
                                    todo : SUBSET Pods]]
  BY DEF BeginSweep, Inv, CollectorTypeOK
<1>3. CollectorTypeOK'
  BY <1>1, <1>2 DEF Inv, CollectorTypeOK
<1>4. FullCountersExplained'
  BY <1>1, <1>2 DEF Inv, FullCountersExplained
<1> QED
  BY <1>3, <1>4 DEF Inv

\* A counter that becomes full belongs to a pod whose service was missed by this
\* sweep, which goes on to clean it.
LEMMA UpdateCountersInv ==
  ASSUME Inv, NEW c \in Collectors, UpdateCounters(c)
  PROVE  Inv'
<1> DEFINE count(p) == IF p \in Missed(c) /\ ~Due(counters[c][p])
                         THEN counters[c][p] + 1 ELSE counters[c][p]
           due == {p \in Pods : Due(count(p))}
<1>1. /\ sweep[c].at = "count"
      /\ counters' = [counters EXCEPT ![c] = [p \in Pods |-> count(p)]]
      /\ sweep' = [sweep EXCEPT ![c].at = "clean", ![c].todo = due]
      /\ UNCHANGED failedOnce
  BY DEF UpdateCounters
<1>2. ASSUME NEW p \in Pods
      PROVE  /\ count(p) \in 0..MissCountBeforeGC
             /\ p \in due <=> count(p) = MissCountBeforeGC
             /\ count(p) # counters[c][p] => p \in Missed(c)
  <2>1. counters[c][p] \in 0..MissCountBeforeGC
    BY DEF Inv, CollectorTypeOK
  <2>2. count(p) = IF p \in Missed(c) /\ ~(counters[c][p] >= MissCountBeforeGC)
                     THEN counters[c][p] + 1 ELSE counters[c][p]
    BY DEF Due
  <2>3. p \in due <=> count(p) >= MissCountBeforeGC
    BY DEF Due
  <2> HIDE DEF count, due
  <2> QED BY <2>1, <2>2, <2>3, CollectorAssumption
<1> HIDE DEF count, due
<1>3. due \in SUBSET Pods
  BY DEF due
<1>4. [p \in Pods |-> count(p)] \in [Pods -> 0..MissCountBeforeGC]
  BY <1>2
<1>5. counters' \in [Collectors -> [Pods -> 0..MissCountBeforeGC]]
  BY <1>1, <1>4 DEF Inv, CollectorTypeOK
<1>6. /\ sweep' \in [Collectors -> [at : {"idle", "count", "clean"}, found : BOOLEAN,
                                    todo : SUBSET Pods]]
      /\ sweep'[c].at = "clean" /\ sweep'[c].todo = due /\ sweep'[c].found = sweep[c].found
      /\ \A d \in Collectors \ {c} : sweep'[d] = sweep[d] /\ counters'[d] = counters[d]
      /\ \A p \in Pods : counters'[c][p] = count(p)
  BY <1>1, <1>3 DEF Inv, CollectorTypeOK
<1>7. CollectorTypeOK'
  BY <1>1, <1>2, <1>3, <1>5, <1>6 DEF Inv, CollectorTypeOK
<1>8. FullCountersExplained'
  <2> SUFFICES ASSUME NEW d \in Collectors, NEW p \in Pods,
                      counters'[d][p] = MissCountBeforeGC
               PROVE  \/ p \in failedOnce'[d]
                      \/ sweep'[d].at = "clean" /\ p \in sweep'[d].todo /\ ~sweep'[d].found
    BY DEF FullCountersExplained
  <2>1. CASE d # c
    BY <1>1, <1>6, <2>1 DEF Inv, FullCountersExplained
  <2>2. CASE d = c /\ counters[c][p] = MissCountBeforeGC
    BY <1>1, <2>2 DEF Inv, FullCountersExplained
  <2>3. CASE d = c /\ counters[c][p] # MissCountBeforeGC
    BY <1>2, <1>6, <2>3 DEF Missed
  <2> QED BY <2>1, <2>2, <2>3
<1> QED
  BY <1>7, <1>8 DEF Inv

LEMMA CleanPodInv ==
  ASSUME Inv, NEW c \in Collectors, NEW p \in Pods, CleanPod(c, p)
  PROVE  Inv'
<1>0. sweep' = [sweep EXCEPT ![c].todo = @ \ {p}]
  BY DEF CleanPod
<1>1. /\ \A d \in Collectors : /\ sweep'[d].at = sweep[d].at
                               /\ sweep'[d].found = sweep[d].found
                               /\ d # c => sweep'[d] = sweep[d]
      /\ sweep'[c].todo = sweep[c].todo \ {p}
      /\ sweep' \in [Collectors -> [at : {"idle", "count", "clean"}, found : BOOLEAN,
                                    todo : SUBSET Pods]]
  BY <1>0 DEF Inv, CollectorTypeOK
<1>2. CASE DropCounter(c, p)
  <2>1. /\ counters' \in [Collectors -> [Pods -> 0..MissCountBeforeGC]]
        /\ counters'[c][p] = 0
        /\ \A d \in Collectors, q \in Pods :
             d # c \/ q # p => /\ counters'[d][q] = counters[d][q]
                               /\ q \in failedOnce[d] => q \in failedOnce'[d]
        /\ failedOnce' \in [Collectors -> SUBSET Pods]
    BY <1>2, CollectorAssumption DEF DropCounter, Inv, CollectorTypeOK
  <2>2. ASSUME NEW d \in Collectors, NEW q \in sweep'[d].todo
        PROVE  counters'[d][q] = MissCountBeforeGC
    <3>1. q \in sweep[d].todo /\ q \in Pods /\ (d # c \/ q # p)
      BY <1>1, <2>2 DEF Inv, CollectorTypeOK
    <3> QED BY <2>1, <3>1 DEF Inv, CollectorTypeOK
  <2>3. CollectorTypeOK'
    BY <1>1, <2>1, <2>2 DEF CollectorTypeOK
  <2>4. FullCountersExplained'
    BY <1>1, <2>1, CollectorAssumption DEF Inv, FullCountersExplained
  <2> QED BY <2>3, <2>4 DEF Inv
<1>3. CASE Failure(c, p)
  <2>1. /\ counters' = counters
        /\ failedOnce' \in [Collectors -> SUBSET Pods]
        /\ p \in failedOnce'[c]
        /\ \A d \in Collectors : failedOnce[d] \subseteq failedOnce'[d]
    BY <1>3 DEF Failure, Inv, CollectorTypeOK
  <2>2. CollectorTypeOK'
    BY <1>1, <2>1 DEF Inv, CollectorTypeOK
  <2>3. FullCountersExplained'
    BY <1>1, <2>1 DEF Inv, FullCountersExplained
  <2> QED BY <2>2, <2>3 DEF Inv
<1> QED
  BY <1>2, <1>3 DEF CleanPod

LEMMA EndSweepInv ==
  ASSUME Inv, NEW c \in Collectors, EndSweep(c)
  PROVE  Inv'
<1>1. /\ sweep[c].todo = {} /\ UNCHANGED <<counters, failedOnce>>
      /\ sweep' = [sweep EXCEPT ![c] = Idle]
  BY DEF EndSweep
<1>2. CollectorTypeOK'
  BY <1>1 DEF Idle, Inv, CollectorTypeOK
<1>3. FullCountersExplained'
  BY <1>1 DEF Inv, CollectorTypeOK, FullCountersExplained
<1> QED
  BY <1>2, <1>3 DEF Inv

LEMMA RestartInv ==
  ASSUME Inv, NEW c \in Collectors, Restart(c)
  PROVE  Inv'
<1>1. /\ counters' = [counters EXCEPT ![c] = [p \in Pods |-> 0]]
      /\ sweep' = [sweep EXCEPT ![c] = Idle]
      /\ failedOnce' = [failedOnce EXCEPT ![c] = {}]
  BY DEF Restart
<1>2. CollectorTypeOK'
  BY <1>1, CollectorAssumption DEF Idle, Inv, CollectorTypeOK
<1>3. FullCountersExplained'
  BY <1>1, CollectorAssumption DEF Inv, CollectorTypeOK, FullCountersExplained
<1> QED
  BY <1>2, <1>3 DEF Inv

LEMMA NextInv == Inv /\ ksSeen \in BOOLEAN /\ [Next]_vars => Inv'
<1> SUFFICES ASSUME Inv, ksSeen \in BOOLEAN, [Next]_vars PROVE Inv'
  OBVIOUS
<1>1. ASSUME UNCHANGED collectorVars PROVE Inv'
  BY <1>1 DEF collectorVars, Inv, CollectorTypeOK, FullCountersExplained
<1>2. ASSUME NEW c \in Collectors, Collect(c) \/ Restart(c) PROVE Inv'
  BY <1>2, BeginSweepInv, UpdateCountersInv, CleanPodInv, EndSweepInv, RestartInv DEF Collect
<1>3. CASE \E p \in Pods : Adopt(p) \/ CleanDiscarded(p) \/ WorkerRelabels(p)
  BY <1>1, <1>3 DEF Adopt, CleanDiscarded, WorkerRelabels
<1>4. CASE \/ UserTogglesService \/ UserChangesSelector \/ DeliverService
           \/ DeliverPod \/ PodsChange
  BY <1>1, <1>4 DEF UserTogglesService, UserChangesSelector, DeliverService, DeliverPod,
                    PodsChange
<1>5. CASE UNCHANGED vars
  BY <1>1, <1>5 DEF vars
<1> QED
  BY <1>2, <1>3, <1>4, <1>5 DEF Next

-----------------------------------------------------------------------------
(* The pods, and the theorems.                                             *)

LEMMA RemovalType ==
  ASSUME PodTypeOK, NEW copy \in PodObjects, UNCHANGED <<cache, now>>,
         BreakerAnnotationAndLabelRemoved(copy)
  PROVE  PodTypeOK'
<1> DEFINE o == [copy EXCEPT !.managed = FALSE, !.breakAt = 0, !.retry = 0]
<1>1. o \in PodObjects
  BY DEF PodObjects
<1>2. /\ UNCHANGED <<mishaps, cuts, cutAt, killed>>
      /\ UNCHANGED <<server, events>> \/ Store(o)
  BY DEF BreakerAnnotationAndLabelRemoved
<1> HIDE DEF o
<1> QED
  BY <1>1, <1>2, StoreType DEF PodTypeOK

LEMMA PodsTyped ==
  ASSUME PodTypeOK, [Next]_vars
  PROVE  PodTypeOK'
<1>0. \A p \in Pods : cache[p] \in PodObjects
  BY DEF PodTypeOK
<1>1. ASSUME UNCHANGED podVars PROVE PodTypeOK'
  BY <1>1 DEF podVars, PodTypeOK
<1>2. ASSUME NEW p \in Pods, Adopt(p) PROVE PodTypeOK'
  BY <1>2, SurroundingsType DEF Adopt, PodNext
<1>3. ASSUME NEW p \in Pods, CleanDiscarded(p) PROVE PodTypeOK'
  BY <1>0, <1>3, RemovalType, RefusedType DEF CleanDiscarded
<1>4. ASSUME NEW p \in Pods, WorkerRelabels(p) PROVE PodTypeOK'
  BY <1>0, <1>4, BreakRequestType, TrafficRequestType DEF WorkerRelabels, TrafficLabels
<1>5. ASSUME NEW c \in Collectors, NEW p \in Pods, CleanPod(c, p) PROVE PodTypeOK'
  BY <1>0, <1>1, <1>5, RemovalType, RefusedType DEF CleanPod
<1>6. ASSUME NEW c \in Collectors, BeginSweep(c) \/ UpdateCounters(c) \/ EndSweep(c)
      PROVE  PodTypeOK'
  BY <1>1, <1>6 DEF BeginSweep, UpdateCounters, EndSweep
<1>7. ASSUME \/ \E c \in Collectors : Restart(c)
             \/ UserTogglesService \/ UserChangesSelector
      PROVE  PodTypeOK'
  BY <1>7, MishapType DEF Restart, UserTogglesService, UserChangesSelector, PodTypeOK
<1>8. CASE DeliverService \/ UNCHANGED vars
  BY <1>1, <1>8 DEF DeliverService, vars
<1>9. CASE DeliverPod \/ PodsChange
  BY <1>9, SurroundingsType DEF DeliverPod, PodsChange, PodNext
<1> QED
  BY <1>2, <1>3, <1>4, <1>5, <1>6, <1>7, <1>8, <1>9 DEF Next, Collect

LEMMA ServiceTyped ==
  ASSUME ServiceTypeOK, [Next]_vars
  PROVE  ServiceTypeOK'
<1>1. ASSUME UNCHANGED serviceVars PROVE ServiceTypeOK'
  BY <1>1 DEF serviceVars, ServiceTypeOK
<1>2. CASE \/ \E p \in Pods : Adopt(p) \/ CleanDiscarded(p) \/ WorkerRelabels(p)
           \/ DeliverPod \/ PodsChange \/ UNCHANGED vars
  BY <1>1, <1>2 DEF Adopt, CleanDiscarded, WorkerRelabels, DeliverPod, PodsChange, vars
<1>3. CASE \E c \in Collectors : Collect(c) \/ Restart(c)
  BY <1>1, <1>3 DEF Collect, BeginSweep, UpdateCounters, CleanPod, EndSweep, Restart,
                    serviceVars
<1>4. CASE UserTogglesService \/ UserChangesSelector \/ DeliverService
  BY <1>4 DEF UserTogglesService, UserChangesSelector, DeliverService, ServiceTypeOK
<1> QED
  BY <1>2, <1>3, <1>4 DEF Next

\* Types, with the inductive part: for any pods, collectors and bounds.
THEOREM InvCorrect == Spec => [](TypeOK /\ Inv)
<1>1. TypeOK /\ Inv /\ [Next]_vars => (TypeOK /\ Inv)'
  <2> SUFFICES ASSUME TypeOK, Inv, [Next]_vars PROVE TypeOK' /\ Inv'
    OBVIOUS
  <2>1. PodTypeOK' /\ ServiceTypeOK'
    BY PodsTyped, ServiceTyped, TypeParts
  <2>2. Inv'
    BY NextInv DEF TypeOK
  <2>3. TypeOK'
    BY <2>1, <2>2 DEF Inv, TypeOK, ServiceTypeOK, CollectorTypeOK
  <2> QED BY <2>2, <2>3
<1> QED
  BY InitInv, <1>1, PTL DEF Spec

\* What a collector has to clean was missed as often as the code asks for
\* (updateCounters, cleanPods).
THEOREM Types == Spec => []TypeOK
BY InvCorrect, PTL

\* A collector that saw the KubervisorService in this sweep takes no pod from it
\* unless it failed to clean a pod of that name before (cleanPods keeps the
\* counter).
THEOREM ServedPodsKeptCorrect == Spec => ServedPodsKept
<1> DEFINE Kept == \A c \in Collectors, p \in Pods :
                     Released(c, p) /\ sweep[c].found => p \in failedOnce[c]
<1>1. TypeOK /\ Inv => Kept
  BY DEF Released, CleanPod, Inv, CollectorTypeOK, FullCountersExplained
<1> QED
  BY <1>1, InvCorrect, PTL DEF ServedPodsKept
=============================================================================
