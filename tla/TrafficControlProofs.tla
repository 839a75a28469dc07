------------------------ MODULE TrafficControlProofs ------------------------
(***************************************************************************)
(* Theorems of TrafficControl, for any finite set of pods and any number   *)
(* of breakers and activators in any modes: its types and its inductive    *)
(* invariant.  The invariant needs the built-in detectors (a CustomService *)
(* may return a pod that is already cut or paused) and fresh pod names (a  *)
(* copy of a deleted pod says nothing of its namesake).                    *)
(***************************************************************************)
EXTENDS TrafficControl, PodControlProofs

-----------------------------------------------------------------------------
(* Type correctness.                                                       *)

\* The number of pods to cut is a natural number (breaker.go:98-105).
LEMMA RemoveCountType ==
  ASSUME NEW b \in Breakers, NEW n \in Nat, NEW k \in Nat
  PROVE  RemoveCount(b, n, k) \in Nat
<1>1. n * MinRatio[b] \in Nat
  BY BreakerAssumption
<1>2. (n * MinRatio[b]) \div 100 \in Nat
  BY <1>1, SMT
<1>3. MinAvailablePods(b, n) \in Nat
  BY <1>2, BreakerAssumption DEF MinAvailablePods, MaxOf
<1> QED
  BY <1>3 DEF RemoveCount, MaxOf, MinOf

LEMMA BreakerStepType ==
  ASSUME TypeOK, NEW b \in Breakers, BreakerStep(b), UNCHANGED activatorVars
  PROVE  TypeOK'
<1> USE DEF TypeOK, BreakerTypeOK, ActivatorTypeOK, activatorVars
<1>1. CASE DetectAnomalies(b)
  <2>1. PICK found \in SUBSET PodsOutOfBounds(b) :
          suspects' = [suspects EXCEPT ![b] = found]
    BY <1>1 DEF DetectAnomalies
  <2>2. PodsOutOfBounds(b) \subseteq PodObjects /\ IsFiniteSet(PodsOutOfBounds(b))
    <3>1. CASE b \in CustomDetector
      BY <3>1, FiniteObjects DEF PodsOutOfBounds, PodTypeOK
    <3>2. CASE b \notin CustomDetector
      BY <3>2, CachedFinite, FS_EmptySet DEF PodsOutOfBounds, WithTrafficYes, ReadyPods
    <3> QED BY <3>1, <3>2
  <2>3. found \subseteq PodObjects /\ IsFiniteSet(found)
    BY <2>1, <2>2, FS_Subset
  <2>4. PodTypeOK'
    BY <1>1 DEF DetectAnomalies, podVars, PodTypeOK
  <2> QED
    BY <1>1, <2>1, <2>3, <2>4 DEF DetectAnomalies
<1>2. ASSUME EndEvaluation(b) PROVE BreakerTypeOK'
  BY <1>2, FS_EmptySet DEF EndEvaluation
<1>3. CASE DecideRemoveCount(b)
  <2> DEFINE n == Cardinality(WithTrafficYes(Cached))
             count == RemoveCount(b, n, Cardinality(suspects[b]))
  <2>1. n \in Nat /\ count \in Nat
    BY CachedFinite, FS_CardinalityType, RemoveCountType
  <2>2. \/ EndEvaluation(b)
        \/ /\ listed' = [listed EXCEPT ![b] = n]
           /\ budget' = [budget EXCEPT ![b] = count]
           /\ UNCHANGED suspects
    BY <1>3 DEF DecideRemoveCount
  <2>3. PodTypeOK'
    BY <1>3 DEF DecideRemoveCount, podVars, PodTypeOK
  <2>4. BreakerTypeOK'
    <3> HIDE DEF n, count
    <3> QED BY <1>2, <2>1, <2>2
  <2> QED BY <2>3, <2>4
<1>4. CASE CutPod(b)
  <2>1. PICK copy \in suspects[b] :
          /\ UpdateBreakerAnnotationAndLabel(copy, b)
          /\ IF budget[b] = 1
               THEN EndEvaluation(b)
               ELSE /\ suspects' = [suspects EXCEPT ![b] = @ \ {copy}]
                    /\ budget' = [budget EXCEPT ![b] = @ - 1]
                    /\ UNCHANGED listed
    BY <1>4 DEF CutPod
  <2>2. PodTypeOK'
    BY <1>4, <2>1, BreakRequestType DEF CutPod
  <2>3. IsFiniteSet(suspects[b] \ {copy})
    BY FS_RemoveElement
  <2>4. budget[b] \in Nat \ {0}
    BY <1>4 DEF CutPod, Undecided
  <2>5. BreakerTypeOK'
    BY <1>2, <2>1, <2>3, <2>4
  <2> QED BY <2>2, <2>5
<1> QED
  BY <1>1, <1>3, <1>4 DEF BreakerStep

LEMMA ActivatorStepType ==
  ASSUME TypeOK, NEW a \in Activators, ActivatorStep(a), UNCHANGED breakerVars
  PROVE  TypeOK'
<1> USE DEF TypeOK, BreakerTypeOK, ActivatorTypeOK, breakerVars
<1>1. CASE ListCutPods(a)
  BY <1>1, CachedFinite DEF ListCutPods, podVars, PodTypeOK
<1>2. CASE ApplyActivatorStrategy(a)
  <2>1. PICK copy \in todo[a] :
          /\ \/ Reactivate(a, copy)
             \/ Pause(a, copy)
             \/ Kill(a, copy)
             \/ Wait(a, copy)
          /\ todo' = [todo EXCEPT ![a] = @ \ {copy}]
    BY <1>2 DEF ApplyActivatorStrategy
  <2>2. copy \in PodObjects /\ UNCHANGED <<cache, now>>
    BY <1>2 DEF ApplyActivatorStrategy
  <2>3. PodTypeOK'
    <3>1. CASE Reactivate(a, copy)
      BY <2>2, <3>1, TrafficRequestType DEF Reactivate, TrafficLabels
    <3>2. CASE Pause(a, copy)
      BY <2>2, <3>2, TrafficRequestType DEF Pause, TrafficLabels
    <3>3. CASE Kill(a, copy)
      BY <2>2, <3>3, KillRequestType DEF Kill
    <3>4. CASE Wait(a, copy)
      BY <2>2, <3>4 DEF Wait, PodTypeOK
    <3> QED BY <2>1, <3>1, <3>2, <3>3, <3>4
  <2> QED BY <2>1, <2>3
<1> QED
  BY <1>1, <1>2 DEF ActivatorStep

LEMMA InitType == Init => TypeOK
<1> SUFFICES ASSUME Init PROVE TypeOK
  OBVIOUS
<1>1. PodTypeOK
  BY PodInitType DEF Init
<1>2. BreakerTypeOK /\ ActivatorTypeOK
  BY FS_EmptySet DEF Init, BreakerInit, BreakerTypeOK, ActivatorInit, ActivatorTypeOK
<1> QED
  BY <1>1, <1>2 DEF TypeOK

LEMMA NextType == TypeOK /\ [Next]_vars => TypeOK'
<1> SUFFICES ASSUME TypeOK, [Next]_vars PROVE TypeOK'
  OBVIOUS
<1>1. CASE Breaking
  BY <1>1, BreakerStepType DEF Breaking
<1>2. CASE Activating
  BY <1>2, ActivatorStepType DEF Activating
<1>3. CASE Surroundings
  BY <1>3, SurroundingsType
  DEF Surroundings, TypeOK, BreakerTypeOK, ActivatorTypeOK, breakerVars, activatorVars
<1>4. CASE Restart
  <2>1. PodTypeOK'
    BY <1>4, MishapType, EmptySeq DEF Restart, TypeOK, PodTypeOK
  <2>2. BreakerTypeOK' /\ ActivatorTypeOK'
    BY <1>4, FS_EmptySet DEF Restart, BreakerTypeOK, ActivatorTypeOK
  <2> QED BY <2>1, <2>2 DEF TypeOK
<1>5. CASE UNCHANGED vars
  BY <1>5 DEF vars, podVars, breakerVars, activatorVars,
              TypeOK, PodTypeOK, BreakerTypeOK, ActivatorTypeOK
<1> QED
  BY <1>1, <1>2, <1>3, <1>4, <1>5 DEF Next

\* Every variable keeps its type in every behaviour.
THEOREM TypeCorrect == Spec => []TypeOK
BY InitType, NextType, PTL DEF Spec

-----------------------------------------------------------------------------
(* What storing an object does to the copies and to the other pods.        *)

\* A stored object gets the revision after every copy's.
LEMMA StoreNotAhead ==
  ASSUME PodTypeOK, NEW o \in PodObjects, Store(o), o.rv = server[o.name].rv
  PROVE  /\ o.retry <= cuts'[o.name] => NotAhead(server[o.name])'
         /\ \A c \in PodObjects :
              NotAhead(c) /\ c.retry <= cuts'[c.name] => NotAhead(c)'
<1> DEFINE stored == [o EXCEPT !.rv = @ + 1]
<1>1. /\ stored \in PodObjects /\ stored.name = o.name /\ o.name \in Pods
      /\ stored.rv = o.rv + 1 /\ stored.retry = o.retry /\ o.rv \in Nat
  BY DEF PodObjects
<1> HIDE DEF stored
<1>2. server' = [server EXCEPT ![o.name] = stored]
  BY DEF Store, stored
<1>3. server'[o.name] = stored /\ \A p \in Pods \ {o.name} : server'[p] = server[p]
  BY <1>1, <1>2 DEF PodTypeOK
<1>4. o.retry <= cuts'[o.name] => NotAhead(server[o.name])'
  BY <1>1, <1>3 DEF NotAhead, PodObjects
<1>5. ASSUME NEW c \in PodObjects, NotAhead(c), c.retry <= cuts'[c.name]
      PROVE  NotAhead(c)'
  <2>1. c.rv \in Nat /\ c.name \in Pods
    BY DEF PodObjects
  <2>2. CASE c.name = o.name
    BY <1>1, <1>3, <1>5, <2>1, <2>2 DEF NotAhead
  <2>3. CASE c.name # o.name
    BY <1>3, <1>5, <2>1, <2>3 DEF NotAhead
  <2> QED BY <2>2, <2>3
<1> QED
  BY <1>4, <1>5

\* Every copy stays behind the API server when an object is stored.
LEMMA StoreKeepsCopies ==
  ASSUME TypeOK, CopiesNotAhead,
         NEW o \in PodObjects, Store(o), o.rv = server[o.name].rv, cache' = cache,
         o.retry <= cuts'[o.name],
         \A c \in PodObjects : NotAhead(c) => c.retry <= cuts'[c.name],
         \A b \in Breakers : suspects'[b] \subseteq suspects[b],
         \A a \in Activators : todo'[a] \subseteq todo[a]
  PROVE  CopiesNotAhead'
<1>1. \A c \in PodObjects : NotAhead(c) => NotAhead(c)'
  BY StoreNotAhead DEF TypeOK
<1>2. \A p \in Pods : NotAhead(cache[p])'
  BY <1>1 DEF TypeOK, PodTypeOK, CopiesNotAhead
<1>3. ASSUME NEW i \in 1..Len(events') PROVE NotAhead(events[i])'
  <2>1. NotAhead(server[o.name])'
    BY StoreNotAhead DEF TypeOK
  <2> DEFINE stored == [o EXCEPT !.rv = @ + 1]
  <2>2. stored \in PodObjects /\ o.name \in Pods
    BY DEF PodObjects
  <2>3. events' = Append(events, stored) /\ server'[o.name] = stored
    BY <2>2 DEF Store, TypeOK, PodTypeOK
  <2> HIDE DEF stored
  <2>4. /\ Len(events') = Len(events) + 1
        /\ events'[Len(events) + 1] = stored
        /\ \A k \in 1..Len(events) : events'[k] = events[k] /\ events[k] \in PodObjects
    BY <2>2, <2>3, AppendProperties, ElementOfSeq DEF TypeOK, PodTypeOK
  <2>5. CASE i \in 1..Len(events)
    BY <1>1, <2>4, <2>5 DEF CopiesNotAhead
  <2>6. CASE i = Len(events) + 1
    BY <2>1, <2>3, <2>4, <2>6
  <2>7. Len(events) \in Nat
    BY LenProperties DEF TypeOK, PodTypeOK
  <2> QED BY <2>4, <2>5, <2>6, <2>7
<1>4. \A b \in Breakers : \A c \in suspects'[b] :
        NotAhead(c)' /\ Managed(c) /\ c.traffic = "yes"
  BY <1>1 DEF TypeOK, BreakerTypeOK, CopiesNotAhead
<1>5. \A a \in Activators : \A c \in todo'[a] :
        NotAhead(c)' /\ Managed(c) /\ c.traffic = "no"
  BY <1>1 DEF TypeOK, ActivatorTypeOK, CopiesNotAhead
<1> QED
  BY <1>2, <1>3, <1>4, <1>5 DEF CopiesNotAhead, Managed

\* Storing an object that tells its pod's history disturbs no other pod's.
LEMMA StoreKeepsHistory ==
  ASSUME PodTypeOK, RetryCountsCuts, LabelsTellHistory,
         NEW o \in PodObjects, Store(o),
         \A p \in Pods \ {o.name} :
           cuts'[p] = cuts[p] /\ cutAt'[p] = cutAt[p] /\ killed'[p] = killed[p],
         o.exists => o.retry = cuts'[o.name],
         TellsHistory(o)'
  PROVE  RetryCountsCuts' /\ LabelsTellHistory'
<1> DEFINE stored == [o EXCEPT !.rv = @ + 1]
<1>1. /\ stored.name = o.name /\ stored.exists = o.exists /\ stored.managed = o.managed
      /\ stored.traffic = o.traffic /\ stored.breakAt = o.breakAt
      /\ stored.retry = o.retry /\ o.name \in Pods
  BY DEF PodObjects
<1> HIDE DEF stored
<1>2. server' = [server EXCEPT ![o.name] = stored]
  BY DEF Store, stored
<1>3. server'[o.name] = stored /\ \A p \in Pods \ {o.name} : server'[p] = server[p]
  BY <1>1, <1>2 DEF PodTypeOK
<1>4. RetryCountsCuts'
  BY <1>1, <1>3 DEF RetryCountsCuts
<1>5. TellsHistory(server[o.name])'
  BY <1>1, <1>3 DEF TellsHistory
<1>6. \A p \in Pods \ {o.name} : TellsHistory(server[p])'
  BY <1>3 DEF TellsHistory, LabelsTellHistory, PodTypeOK
<1> QED
  BY <1>4, <1>5, <1>6 DEF LabelsTellHistory

\* A current copy is the stored object, whatever happened since it was made.
LEMMA CurrentIsStored ==
  ASSUME NEW copy \in PodObjects, NotAhead(copy), Current(copy)
  PROVE  copy = server[copy.name] /\ copy.exists
BY DEF NotAhead, Current

\* A step that leaves the stored objects and their history alone.
LEMMA ServerUnchanged ==
  ASSUME RetryCountsCuts, LabelsTellHistory, UNCHANGED <<server, cuts, cutAt, killed>>
  PROVE  /\ RetryCountsCuts' /\ LabelsTellHistory'
         /\ \A c : NotAhead(c) => NotAhead(c)'
BY DEF RetryCountsCuts, LabelsTellHistory, TellsHistory, NotAhead

\* Copies that are only dropped stay behind the API server.
LEMMA DroppedCopies ==
  ASSUME CopiesNotAhead, UNCHANGED <<server, cache, events, cuts>>,
         \A b \in Breakers : suspects'[b] \subseteq suspects[b],
         \A a \in Activators : todo'[a] \subseteq todo[a]
  PROVE  CopiesNotAhead'
BY DEF CopiesNotAhead, NotAhead, Managed

-----------------------------------------------------------------------------
(* The invariant is inductive.                                             *)

History == RetryCountsCuts /\ CopiesNotAhead /\ LabelsTellHistory

LEMMA CutPodInv ==
  ASSUME Inv, NEW b \in Breakers, CutPod(b), UNCHANGED activatorVars
  PROVE  History'
<1> USE DEF Inv, History
<1>1. PICK copy \in suspects[b] :
        /\ UpdateBreakerAnnotationAndLabel(copy, b)
        /\ IF budget[b] = 1
             THEN EndEvaluation(b)
             ELSE /\ suspects' = [suspects EXCEPT ![b] = @ \ {copy}]
                  /\ budget' = [budget EXCEPT ![b] = @ - 1]
                  /\ UNCHANGED listed
  BY DEF CutPod
<1>2. /\ \A d \in Breakers : suspects'[d] \subseteq suspects[d]
      /\ \A a \in Activators : todo'[a] \subseteq todo[a]
      /\ UNCHANGED <<cache, now>>
  BY <1>1 DEF CutPod, EndEvaluation, activatorVars, TypeOK, BreakerTypeOK
<1>3. /\ copy \in PodObjects /\ copy.name \in Pods /\ NotAhead(copy)
      /\ Managed(copy) /\ copy.traffic = "yes"
  BY DEF TypeOK, BreakerTypeOK, CopiesNotAhead, PodObjects
<1>4. CASE Refused(copy)
  BY <1>2, <1>4, ServerUnchanged, DroppedCopies DEF Refused
<1>5. CASE ~Refused(copy)
  <2> DEFINE p == copy.name
  <2>1. now \in Nat
    BY BoundsAssumption DEF TypeOK, PodTypeOK
  <2>2. PICK o \in PodObjects :
          o = [copy EXCEPT !.managed = TRUE, !.strategy = b, !.traffic = "no",
                           !.breakAt = BreakAtStamp(now), !.retry = @ + 1]
    <3>1. [copy EXCEPT !.managed = TRUE, !.strategy = b, !.traffic = "no"] \in PodObjects
      BY <1>3 DEF PodObjects, TrafficLabels
    <3>2. \A q \in PodObjects, t \in Nat, r \in Nat :
            [q EXCEPT !.breakAt = t, !.retry = r] \in PodObjects
      BY DEF PodObjects
    <3>3. copy.retry + 1 \in Nat /\ BreakAtStamp(now) \in Nat
      BY <1>3, <2>1, StampBounds DEF PodObjects
    <3> QED BY <3>1, <3>2, <3>3
  <2>3. /\ Current(copy) /\ Store(o)
        /\ cuts' = IF server[p].traffic = "yes" THEN [cuts EXCEPT ![p] = @ + 1] ELSE cuts
        /\ cutAt' = [cutAt EXCEPT ![p] = now]
        /\ UNCHANGED killed
    BY <1>1, <1>5, <2>2 DEF UpdateBreakerAnnotationAndLabel
  <2>4. copy = server[p] /\ copy.exists
    BY <1>3, <2>3, CurrentIsStored
  <2>5. /\ o.name = p /\ o.rv = copy.rv /\ o.exists = copy.exists /\ o.managed = TRUE
        /\ o.traffic = "no" /\ o.breakAt = BreakAtStamp(now) /\ o.retry = copy.retry + 1
    BY <1>3, <2>2 DEF PodObjects
  <2>6. cuts'[p] = cuts[p] + 1 /\ \A q \in Pods \ {p} : cuts'[q] = cuts[q]
    BY <1>3, <2>3, <2>4 DEF TypeOK, PodTypeOK
  <2>7. o.retry = cuts'[p]
    BY <1>3, <2>4, <2>5, <2>6 DEF RetryCountsCuts
  <2>8. \A c \in PodObjects : NotAhead(c) => c.retry <= cuts'[c.name]
    <3> SUFFICES ASSUME NEW c \in PodObjects, NotAhead(c) PROVE c.retry <= cuts'[c.name]
      OBVIOUS
    <3>1. c.name \in Pods /\ c.retry \in Nat /\ cuts[c.name] \in Nat
      BY DEF PodObjects, TypeOK, PodTypeOK
    <3> QED BY <2>6, <3>1 DEF NotAhead
  <2>9. CopiesNotAhead'
    <3>1. o.retry <= cuts'[o.name]
      BY <1>3, <2>5, <2>6, <2>7 DEF TypeOK, PodTypeOK
    <3> QED BY <1>2, <2>3, <2>4, <2>5, <2>8, <3>1, StoreKeepsCopies
  <2>10. TellsHistory(o)'
    <3>1. ~killed'[p]
      BY <1>3, <2>3, <2>4 DEF LabelsTellHistory, TellsHistory
    <3>2. cutAt'[p] = now
      BY <1>3, <2>3 DEF TypeOK, PodTypeOK
    <3> QED BY <2>1, <2>4, <2>5, <3>1, <3>2, StampBounds DEF TellsHistory
  <2>11. RetryCountsCuts' /\ LabelsTellHistory'
    <3>1. \A q \in Pods \ {o.name} :
            cuts'[q] = cuts[q] /\ cutAt'[q] = cutAt[q] /\ killed'[q] = killed[q]
      BY <2>3, <2>5, <2>6 DEF TypeOK, PodTypeOK
    <3> QED BY <2>3, <2>4, <2>5, <2>7, <2>10, <3>1, StoreKeepsHistory DEF TypeOK
  <2> QED BY <2>9, <2>11
<1> QED BY <1>4, <1>5

LEMMA BreakerStepInv ==
  ASSUME CustomDetector = {}, Inv, NEW b \in Breakers, BreakerStep(b),
         UNCHANGED activatorVars
  PROVE  History'
<1> USE DEF Inv, History
<1>1. CASE DetectAnomalies(b)
  <2>1. PICK found \in SUBSET PodsOutOfBounds(b) :
          suspects' = [suspects EXCEPT ![b] = found]
    BY <1>1 DEF DetectAnomalies
  <2>2. UNCHANGED <<server, cache, events, cuts, cutAt, killed, todo>>
    BY <1>1 DEF DetectAnomalies, podVars, activatorVars
  <2>3. \A o \in found : NotAhead(o) /\ Managed(o) /\ o.traffic = "yes"
    BY DEF PodsOutOfBounds, WithTrafficYes, ReadyPods, Cached, CopiesNotAhead
  <2>4. \A c : NotAhead(c)' <=> NotAhead(c)
    BY <2>2 DEF NotAhead
  <2>5. \A d \in Breakers : \A o \in suspects'[d] :
          NotAhead(o) /\ Managed(o) /\ o.traffic = "yes"
    BY <2>1, <2>3 DEF CopiesNotAhead, TypeOK, BreakerTypeOK
  <2>6. CopiesNotAhead'
    BY <2>2, <2>4, <2>5 DEF CopiesNotAhead, Managed
  <2> QED BY <2>2, <2>6, ServerUnchanged
<1>2. CASE DecideRemoveCount(b)
  <2>1. UNCHANGED <<server, cache, events, cuts, cutAt, killed, todo>>
    BY <1>2 DEF DecideRemoveCount, podVars, activatorVars
  <2>2. \A d \in Breakers : suspects'[d] \subseteq suspects[d]
    BY <1>2 DEF DecideRemoveCount, EndEvaluation, TypeOK, BreakerTypeOK
  <2> QED BY <2>1, <2>2, ServerUnchanged, DroppedCopies
<1>3. CASE CutPod(b)
  BY <1>3, CutPodInv
<1> QED
  BY <1>1, <1>2, <1>3 DEF BreakerStep

\* A request that neither cuts a pod nor creates one.
LEMMA StoreWithoutCut ==
  ASSUME Inv, NEW o \in PodObjects, Store(o), o.rv = server[o.name].rv,
         UNCHANGED <<cache, cuts, cutAt>>,
         \A p \in Pods \ {o.name} : killed'[p] = killed[p],
         o.retry <= cuts[o.name],
         o.exists => o.retry = cuts[o.name],
         TellsHistory(o)',
         \A b \in Breakers : suspects'[b] \subseteq suspects[b],
         \A a \in Activators : todo'[a] \subseteq todo[a]
  PROVE  History'
<1>1. CopiesNotAhead'
  <2>1. \A c \in PodObjects : NotAhead(c) => c.retry <= cuts'[c.name]
    BY DEF NotAhead
  <2> QED BY <2>1, StoreKeepsCopies DEF Inv
<1>2. RetryCountsCuts' /\ LabelsTellHistory'
  BY StoreKeepsHistory DEF Inv, TypeOK
<1> QED BY <1>1, <1>2 DEF History

\* What is stored under a name, in the terms the next lemmas need.
LEMMA StoredFacts ==
  ASSUME Inv, NEW p \in Pods
  PROVE  /\ server[p] \in PodObjects /\ server[p].name = p /\ server[p].rv \in Nat
         /\ server[p].retry <= cuts[p] /\ cuts[p] \in Nat
         /\ server[p].exists => server[p].retry = cuts[p]
         /\ TellsHistory(server[p])
<1>1. /\ server[p] \in PodObjects /\ server[p].name = p /\ cuts[p] \in Nat
      /\ server[p].rv \in Nat /\ server[p].exists \in BOOLEAN
  BY DEF Inv, TypeOK, PodTypeOK, PodObjects
<1>2. /\ server[p].exists => server[p].retry = cuts[p]
      /\ TellsHistory(server[p])
  BY DEF Inv, RetryCountsCuts, LabelsTellHistory
<1>3. ~server[p].exists => server[p].retry = 0
  BY <1>2 DEF TellsHistory
<1> QED BY <1>1, <1>2, <1>3

LEMMA FreeNameObject ==
  ASSUME Inv, NEW p \in Pods, NEW o, o = Unlabelled(p, server[p].rv, FALSE)
  PROVE  /\ o \in PodObjects /\ o.name = p /\ o.rv = server[p].rv
         /\ o.retry <= cuts[p] /\ ~o.exists
         /\ TellsHistory(o)'
<1>1. o \in PodObjects
  BY UnlabelledType, StoredFacts
<1>2. /\ o.name = p /\ o.rv = server[p].rv /\ o.retry = 0 /\ o.exists = FALSE
      /\ o.managed = FALSE /\ o.traffic = "unset"
  BY DEF Unlabelled
<1>3. TellsHistory(o)'
  BY <1>2 DEF TellsHistory
<1>4. o.retry <= cuts[p]
  <2>1. cuts[p] \in Nat
    BY StoredFacts
  <2>2. 0 <= cuts[p]
    BY <2>1
  <2>3. o.retry = 0
    BY <1>2
  <2> QED BY <2>2, <2>3, Zenon
<1> QED
  BY <1>1, <1>2, <1>3, <1>4

LEMMA TrafficRequestInv ==
  ASSUME Inv, NEW copy \in PodObjects, NotAhead(copy), Managed(copy), copy.traffic = "no",
         NEW label \in {"yes", "pause"}, SetTrafficLabel(copy, label),
         UNCHANGED <<cache, now>>,
         \A b \in Breakers : suspects'[b] \subseteq suspects[b],
         \A a \in Activators : todo'[a] \subseteq todo[a]
  PROVE  History'
<1>1. CASE Refused(copy)
  BY <1>1, ServerUnchanged, DroppedCopies DEF Refused, Inv, History
<1>2. CASE ~Refused(copy)
  <2>1. PICK o \in PodObjects : o = [copy EXCEPT !.traffic = label]
    BY DEF PodObjects, TrafficLabels
  <2>2. Current(copy) /\ Store(o) /\ UNCHANGED <<cuts, cutAt, killed>>
    BY <1>2, <2>1 DEF SetTrafficLabel
  <2>3. copy.name \in Pods /\ copy = server[copy.name] /\ copy.exists
    BY <2>2, CurrentIsStored DEF PodObjects
  <2>4. /\ o.name = copy.name /\ o.rv = copy.rv /\ o.exists = copy.exists
        /\ o.managed = copy.managed /\ o.traffic = label /\ o.retry = copy.retry
    BY <2>1 DEF PodObjects
  <2>5. TellsHistory(o)'
    BY <2>2, <2>3, <2>4, StoredFacts DEF TellsHistory, Managed
  <2> QED BY <2>2, <2>3, <2>4, <2>5, StoredFacts, StoreWithoutCut
<1> QED BY <1>1, <1>2

LEMMA KillRequestInv ==
  ASSUME Inv, NEW copy \in PodObjects, KillPod(copy), UNCHANGED <<cache, now>>,
         \A b \in Breakers : suspects'[b] \subseteq suspects[b],
         \A a \in Activators : todo'[a] \subseteq todo[a]
  PROVE  History'
<1> DEFINE p == copy.name
<1>1. p \in Pods
  BY DEF PodObjects
<1>2. CASE UNCHANGED <<server, events, cuts, cutAt, killed>>
  BY <1>2, ServerUnchanged, DroppedCopies DEF Inv, History
<1>3. CASE ~UNCHANGED <<server, events, cuts, cutAt, killed>>
  <2>1. PICK o : o = Unlabelled(p, server[p].rv, FALSE)
    OBVIOUS
  <2>2. /\ Store(o) /\ UNCHANGED <<cuts, cutAt>>
        /\ killed' = [killed EXCEPT ![p] = TRUE]
    BY <1>3, <2>1 DEF KillPod
  <2>3. \A q \in Pods \ {p} : killed'[q] = killed[q]
    BY <1>1, <2>2 DEF Inv, TypeOK, PodTypeOK
  <2>4. /\ o \in PodObjects /\ o.name = p /\ o.rv = server[p].rv
        /\ o.retry <= cuts[p] /\ ~o.exists /\ TellsHistory(o)'
    BY <1>1, <2>1, FreeNameObject
  <2> QED BY <2>2, <2>3, <2>4, StoreWithoutCut
<1> QED BY <1>2, <1>3

LEMMA ActivatorStepInv ==
  ASSUME Inv, NEW a \in Activators, ActivatorStep(a), UNCHANGED breakerVars
  PROVE  History'
<1> USE DEF History
<1>1. CASE ListCutPods(a)
  <2>1. /\ UNCHANGED <<server, cache, events, cuts, cutAt, killed, suspects>>
        /\ todo' = [todo EXCEPT ![a] = WithTraffic(Cached, "no")]
    BY <1>1 DEF ListCutPods, podVars, breakerVars
  <2>2. \A o \in WithTraffic(Cached, "no") : NotAhead(o) /\ Managed(o) /\ o.traffic = "no"
    BY DEF WithTraffic, Cached, Inv, CopiesNotAhead
  <2>3. \A c : NotAhead(c)' <=> NotAhead(c)
    BY <2>1 DEF NotAhead
  <2>4. \A d \in Activators : \A o \in todo'[d] :
          NotAhead(o) /\ Managed(o) /\ o.traffic = "no"
    BY <2>1, <2>2 DEF Inv, CopiesNotAhead, TypeOK, ActivatorTypeOK
  <2>5. CopiesNotAhead'
    BY <2>1, <2>3, <2>4 DEF Inv, CopiesNotAhead, Managed
  <2> QED BY <2>1, <2>5, ServerUnchanged DEF Inv
<1>2. CASE ApplyActivatorStrategy(a)
  <2>1. PICK copy \in todo[a] :
          /\ \/ Reactivate(a, copy)
             \/ Pause(a, copy)
             \/ Kill(a, copy)
             \/ Wait(a, copy)
          /\ todo' = [todo EXCEPT ![a] = @ \ {copy}]
    BY <1>2 DEF ApplyActivatorStrategy
  <2>2. /\ \A b \in Breakers : suspects'[b] \subseteq suspects[b]
        /\ \A d \in Activators : todo'[d] \subseteq todo[d]
        /\ UNCHANGED <<cache, now>>
    BY <1>2, <2>1 DEF ApplyActivatorStrategy, breakerVars, Inv, TypeOK, ActivatorTypeOK
  <2>3. /\ copy \in PodObjects /\ NotAhead(copy)
        /\ Managed(copy) /\ copy.traffic = "no"
    BY DEF Inv, TypeOK, ActivatorTypeOK, CopiesNotAhead
  <2>4. CASE Reactivate(a, copy)
    BY <2>2, <2>3, <2>4, TrafficRequestInv DEF Reactivate
  <2>5. CASE Pause(a, copy)
    BY <2>2, <2>3, <2>5, TrafficRequestInv DEF Pause
  <2>6. CASE Kill(a, copy)
    BY <2>2, <2>3, <2>6, KillRequestInv DEF Kill
  <2>7. CASE Wait(a, copy)
    BY <2>2, <2>7, ServerUnchanged, DroppedCopies DEF Wait, Inv
  <2> QED BY <2>1, <2>4, <2>5, <2>6, <2>7
<1> QED
  BY <1>1, <1>2 DEF ActivatorStep

LEMMA AdoptPodInv ==
  ASSUME Inv, NEW p \in Pods, AdoptPod(p), UNCHANGED <<breakerVars, activatorVars>>
  PROVE  History'
<1>1. /\ \A b \in Breakers : suspects'[b] \subseteq suspects[b]
      /\ \A a \in Activators : todo'[a] \subseteq todo[a]
      /\ UNCHANGED <<cache, now>>
  BY DEF AdoptPod, breakerVars, activatorVars
<1>2. CASE Refused(server[p])
  BY <1>1, <1>2, ServerUnchanged, DroppedCopies DEF Refused, Inv, History
<1>3. CASE ~Refused(server[p])
  <2>1. PICK o \in PodObjects : o = [server[p] EXCEPT !.managed = TRUE, !.traffic = "yes"]
    <3>1. \A q \in PodObjects : [q EXCEPT !.managed = TRUE, !.traffic = "yes"] \in PodObjects
      BY DEF PodObjects, TrafficLabels
    <3> QED BY <3>1, StoredFacts
  <2>2. Store(o) /\ UNCHANGED <<cuts, cutAt, killed>> /\ server[p].exists
    BY <1>3, <2>1 DEF AdoptPod, InitBreakerAnnotationAndLabel
  <2>3. /\ o.name = p /\ o.rv = server[p].rv /\ o.exists = server[p].exists
        /\ o.managed = TRUE /\ o.traffic = "yes" /\ o.retry = server[p].retry
    BY <2>1, StoredFacts DEF PodObjects
  <2>4. TellsHistory(o)'
    BY <2>2, <2>3, StoredFacts DEF TellsHistory
  <2> QED BY <1>1, <2>2, <2>3, <2>4, StoredFacts, StoreWithoutCut
<1> QED BY <1>2, <1>3

\* A pod created under a fresh name: no copy of that name has a history.
LEMMA PodCreatedInv ==
  ASSUME ~NamesReused, Inv, NEW p \in Pods, PodCreated(p),
         UNCHANGED <<breakerVars, activatorVars>>
  PROVE  History'
<1>1. PICK label \in {"unset", "yes"} :
        Store([Unlabelled(p, server[p].rv, TRUE) EXCEPT !.traffic = label])
  BY DEF PodCreated
<1>2. PICK o \in PodObjects : o = [Unlabelled(p, server[p].rv, TRUE) EXCEPT !.traffic = label]
  <2>1. Unlabelled(p, server[p].rv, TRUE) \in PodObjects
    BY UnlabelledType, StoredFacts
  <2>2. \A q \in PodObjects : [q EXCEPT !.traffic = label] \in PodObjects
    BY DEF PodObjects, TrafficLabels
  <2> QED BY <2>1, <2>2
<1>3. /\ o.name = p /\ o.rv = server[p].rv /\ o.exists = TRUE
      /\ o.managed = FALSE /\ o.traffic = label /\ o.retry = 0
  BY <1>2 DEF Unlabelled
<1>4. /\ ~server[p].exists /\ server[p].rv = 0 /\ UNCHANGED <<cache, now>>
      /\ cuts' = [cuts EXCEPT ![p] = 0]
      /\ cutAt' = [cutAt EXCEPT ![p] = 0]
      /\ killed' = [killed EXCEPT ![p] = FALSE]
  BY DEF PodCreated
<1>5. /\ cuts'[p] = 0 /\ killed'[p] = FALSE
      /\ \A q \in Pods \ {p} :
           cuts'[q] = cuts[q] /\ cutAt'[q] = cutAt[q] /\ killed'[q] = killed[q]
  BY <1>4 DEF Inv, TypeOK, PodTypeOK
<1>6. \A c \in PodObjects : NotAhead(c) => c.retry <= cuts'[c.name]
  <2> SUFFICES ASSUME NEW c \in PodObjects, NotAhead(c) PROVE c.retry <= cuts'[c.name]
    OBVIOUS
  <2>1. c.name \in Pods /\ c.rv \in Nat
    BY DEF PodObjects
  <2>2. CASE c.name = p
    <3>1. c = server[p]
      BY <1>4, <2>1, <2>2 DEF NotAhead
    <3> QED BY <1>4, <1>5, <2>2, <3>1, StoredFacts DEF TellsHistory
  <2>3. CASE c.name # p
    BY <1>5, <2>1, <2>3 DEF NotAhead
  <2> QED BY <2>2, <2>3
<1>7. CopiesNotAhead'
  <2>1. /\ Store(o) /\ cache' = cache /\ o.retry <= cuts'[o.name]
        /\ \A b \in Breakers : suspects'[b] \subseteq suspects[b]
        /\ \A a \in Activators : todo'[a] \subseteq todo[a]
    <3>1. o.retry <= cuts'[o.name]
      BY <1>3, <1>5
    <3>2. Store(o) /\ cache' = cache
      BY <1>1, <1>2, <1>4
    <3> QED BY <3>1, <3>2 DEF breakerVars, activatorVars
  <2> QED BY <1>3, <1>6, <2>1, StoreKeepsCopies DEF Inv
<1>8. TellsHistory(o)'
  BY <1>3, <1>5 DEF TellsHistory
<1>9. RetryCountsCuts' /\ LabelsTellHistory'
  BY <1>1, <1>2, <1>3, <1>5, <1>8, StoreKeepsHistory DEF Inv, TypeOK
<1> QED BY <1>7, <1>9 DEF History

LEMMA PodLostInv ==
  ASSUME Inv, NEW p \in Pods, PodLost(p), UNCHANGED <<breakerVars, activatorVars>>
  PROVE  History'
<1>1. PICK o : o = Unlabelled(p, server[p].rv, FALSE)
  OBVIOUS
<1>2. /\ Store(o) /\ UNCHANGED <<cache, cuts, cutAt, killed>>
      /\ \A b \in Breakers : suspects'[b] \subseteq suspects[b]
      /\ \A a \in Activators : todo'[a] \subseteq todo[a]
  BY <1>1 DEF PodLost, breakerVars, activatorVars
<1>3. /\ o \in PodObjects /\ o.name = p /\ o.rv = server[p].rv
      /\ o.retry <= cuts[p] /\ ~o.exists /\ TellsHistory(o)'
  BY <1>1, FreeNameObject
<1> QED BY <1>2, <1>3, StoreWithoutCut

LEMMA ReadinessChangesInv ==
  ASSUME Inv, NEW p \in Pods, ReadinessChanges(p), UNCHANGED <<breakerVars, activatorVars>>
  PROVE  History'
<1>1. PICK o \in PodObjects : o = [server[p] EXCEPT !.ready = ~@]
  <2>1. \A q \in PodObjects, r \in BOOLEAN : [q EXCEPT !.ready = r] \in PodObjects
    BY DEF PodObjects
  <2>2. (~server[p].ready) \in BOOLEAN
    OBVIOUS
  <2> QED BY <2>1, <2>2, StoredFacts
<1>2. /\ Store(o) /\ UNCHANGED <<cache, cuts, cutAt, killed>>
      /\ \A b \in Breakers : suspects'[b] \subseteq suspects[b]
      /\ \A a \in Activators : todo'[a] \subseteq todo[a]
  BY <1>1 DEF ReadinessChanges, breakerVars, activatorVars
<1>3. /\ o.name = p /\ o.rv = server[p].rv /\ o.exists = server[p].exists
      /\ o.managed = server[p].managed /\ o.traffic = server[p].traffic
      /\ o.breakAt = server[p].breakAt /\ o.retry = server[p].retry
  BY <1>1, StoredFacts DEF PodObjects
<1>4. TellsHistory(o)'
  BY <1>2, <1>3, StoredFacts DEF TellsHistory
<1> QED BY <1>2, <1>3, <1>4, StoredFacts, StoreWithoutCut

LEMMA InformerInv ==
  ASSUME Inv, DeliverEvent \/ Relist \/ Tick, UNCHANGED <<breakerVars, activatorVars>>
  PROVE  History'
<1>1. UNCHANGED <<server, cuts, cutAt, killed, suspects, todo>>
  BY DEF DeliverEvent, Relist, Tick, breakerVars, activatorVars
<1>2. \A c : NotAhead(c)' <=> NotAhead(c)
  BY <1>1 DEF NotAhead
<1>3. /\ \A p \in Pods : NotAhead(cache'[p])
      /\ \A i \in 1..Len(events') : NotAhead(events'[i])
  <2>1. CASE DeliverEvent
    <3>0. events \in Seq(PodObjects) /\ events # <<>> /\ Len(events) \in Nat
      BY <2>1, LenProperties DEF DeliverEvent, Inv, TypeOK, PodTypeOK
    <3>a. Len(events) # 0 /\ Head(events) = events[1]
      BY <3>0, EmptySeq, HeadTailProperties
    <3>b. events[1] \in PodObjects
      BY <3>0, <3>a, ElementOfSeq
    <3>1. /\ events \in Seq(PodObjects) /\ events # <<>> /\ Len(events) \in Nat \ {0}
          /\ Head(events) = events[1] /\ NotAhead(events[1]) /\ events[1].name \in Pods
      BY <3>0, <3>a, <3>b DEF Inv, CopiesNotAhead, PodObjects
    <3>2. /\ Len(events') = Len(events) - 1
          /\ \A i \in 1..Len(events') : events'[i] = events[i + 1]
      BY <2>1, <3>1, HeadTailProperties DEF DeliverEvent
    <3>3. \A i \in 1..Len(events') : NotAhead(events'[i])
      BY <3>1, <3>2 DEF Inv, CopiesNotAhead
    <3>4. \A p \in Pods : NotAhead(cache'[p])
      BY <2>1, <3>1 DEF DeliverEvent, Inv, TypeOK, PodTypeOK, CopiesNotAhead
    <3> QED BY <3>3, <3>4
  <2>2. CASE Relist
    <3>1. \A p \in Pods : NotAhead(server[p])
      BY StoredFacts DEF NotAhead
    <3> QED BY <2>2, <3>1, EmptySeq DEF Relist
  <2>3. CASE Tick
    BY <2>3 DEF Tick, Inv, CopiesNotAhead
  <2> QED BY <2>1, <2>2, <2>3
<1>4. CopiesNotAhead'
  BY <1>1, <1>2, <1>3 DEF Inv, CopiesNotAhead, Managed
<1> QED
  BY <1>1, <1>4, ServerUnchanged DEF Inv, History

LEMMA RestartInv ==
  ASSUME Inv, Restart
  PROVE  History'
<1>1. UNCHANGED <<server, cuts, cutAt, killed>>
  BY DEF Restart
<1>2. \A p \in Pods : NotAhead(server[p])
  BY StoredFacts DEF NotAhead
<1>3. \A c : NotAhead(c)' <=> NotAhead(c)
  BY <1>1 DEF NotAhead
<1>4. /\ cache' = server /\ events' = <<>>
      /\ \A b \in Breakers : suspects'[b] = {}
      /\ \A a \in Activators : todo'[a] = {}
  BY DEF Restart
<1>5. CopiesNotAhead'
  BY <1>2, <1>3, <1>4, EmptySeq DEF CopiesNotAhead
<1> QED
  BY <1>1, <1>5, ServerUnchanged DEF Inv, History

LEMMA InitInv == Init => Inv
<1> SUFFICES ASSUME Init PROVE Inv
  OBVIOUS
<1>1. TypeOK
  BY InitType
<1>2. PICK present \in SUBSET Pods :
        server = [p \in Pods |-> IF p \in present THEN InTrafficPod(p)
                                                  ELSE Unlabelled(p, 0, FALSE)]
  BY DEF Init, PodInit
<1>3. /\ cache = server /\ events = <<>>
      /\ cuts = [p \in Pods |-> 0] /\ cutAt = [p \in Pods |-> 0]
      /\ killed = [p \in Pods |-> FALSE]
      /\ suspects = [b \in Breakers |-> {}] /\ todo = [a \in Activators |-> {}]
  BY DEF Init, PodInit, BreakerInit, ActivatorInit
<1>4. ASSUME NEW p \in Pods
      PROVE  /\ server[p].name = p /\ server[p].retry = 0
             /\ server[p].traffic \in {"unset", "yes"}
             /\ server[p].managed = server[p].exists
             /\ server[p].managed <=> server[p].traffic = "yes"
             /\ cuts[p] = 0 /\ killed[p] = FALSE
  BY <1>2, <1>3 DEF InTrafficPod, Unlabelled
<1>5. RetryCountsCuts
  BY <1>4 DEF RetryCountsCuts
<1>6. LabelsTellHistory
  BY <1>4 DEF LabelsTellHistory, TellsHistory
<1>7. \A p \in Pods : NotAhead(server[p])
  <2>1. \A p \in Pods : server[p].rv \in Nat
    BY <1>1 DEF TypeOK, PodTypeOK, PodObjects
  <2> SUFFICES ASSUME NEW p \in Pods PROVE NotAhead(server[p])
    OBVIOUS
  <2>a. server[p].name = p /\ server[p].retry = 0 /\ cuts[p] = 0
    BY <1>4, Zenon
  <2>2. server[server[p].name] = server[p] /\ server[p].rv <= server[p].rv
    BY <2>1, <2>a
  <2>3. server[p].retry <= cuts[server[p].name]
    BY <2>a
  <2> QED BY <2>2, <2>3 DEF NotAhead
<1>8. CopiesNotAhead
  BY <1>3, <1>7, EmptySeq DEF CopiesNotAhead
<1> QED
  BY <1>1, <1>5, <1>6, <1>8 DEF Inv

LEMMA NextInv ==
  ASSUME CustomDetector = {}, ~NamesReused
  PROVE  Inv /\ [Next]_vars => Inv'
<1> SUFFICES ASSUME Inv, [Next]_vars PROVE Inv'
  OBVIOUS
<1>1. TypeOK'
  BY NextType DEF Inv
<1>2. CASE Breaking
  BY <1>1, <1>2, BreakerStepInv DEF Breaking, Inv, History
<1>3. CASE Activating
  BY <1>1, <1>3, ActivatorStepInv DEF Activating, Inv, History
<1>4. CASE Surroundings
  BY <1>1, <1>4, InformerInv, AdoptPodInv, PodCreatedInv, PodLostInv, ReadinessChangesInv
  DEF Surroundings, PodNext, Inv, History
<1>5. CASE Restart
  BY <1>1, <1>5, RestartInv DEF Inv, History
<1>6. CASE UNCHANGED vars
  BY <1>1, <1>6, ServerUnchanged, DroppedCopies
  DEF Inv, vars, podVars, breakerVars, activatorVars
<1> QED
  BY <1>2, <1>3, <1>4, <1>5, <1>6 DEF Next

\* With built-in detectors and fresh names the invariant always holds.
THEOREM InvCorrect ==
  ASSUME CustomDetector = {}, ~NamesReused
  PROVE  Spec => []Inv
BY InitInv, NextInv, PTL DEF Spec

\* However many loops read and write back stale copies, retryCount is the
\* number of times the pod left traffic.
THEOREM RetryCountIsExact ==
  ASSUME CustomDetector = {}, ~NamesReused
  PROVE  Spec => []RetryCountsCuts
<1>1. Inv => RetryCountsCuts
  BY DEF Inv
<1> QED
  BY <1>1, InvCorrect, PTL

\* However late the watch and the loops are, no copy they hold is ahead of the
\* stored pod, or differs from it under the same resourceVersion: what a request
\* compares with is what the loop decided on.
THEOREM CopiesNotAheadCorrect ==
  ASSUME CustomDetector = {}, ~NamesReused
  PROVE  Spec => []CopiesNotAhead
<1>1. Inv => CopiesNotAhead
  BY DEF Inv
<1> QED
  BY <1>1, InvCorrect, PTL

\* breakAt is the second of the last cut, and only adopted pods carry a state of
\* the breaker, in every order of the requests of control.go.
THEOREM LabelsTellHistoryCorrect ==
  ASSUME CustomDetector = {}, ~NamesReused
  PROVE  Spec => []LabelsTellHistory
<1>1. Inv => LabelsTellHistory
  BY DEF Inv
<1> QED
  BY <1>1, InvCorrect, PTL
=============================================================================
