-------------------------- MODULE PodControlProofs --------------------------
(***************************************************************************)
(* Lemmas about pods, the requests that change them and the surroundings,  *)
(* for the proofs of the modules that use PodControl.                      *)
(***************************************************************************)
EXTENDS PodControl, FiniteSetTheorems, SequenceTheorems, TLAPS

-----------------------------------------------------------------------------
(* Lemmas about the operators the model is built from.                     *)

\* Dropping the fraction of the second moves a time back by less than a
\* second, and never below zero (time.RFC3339 in control.go).
LEMMA StampBounds ==
  ASSUME NEW t \in Nat
  PROVE  /\ BreakAtStamp(t) \in Nat
         /\ BreakAtStamp(t) <= t
         /\ t < BreakAtStamp(t) + Second
<1>1. t % Second \in 0..(Second - 1) /\ t % Second <= t
  BY SecondAssumption, SMT
<1> QED
  BY <1>1, SecondAssumption, SMT DEF BreakAtStamp

\* A name with no pod, and a pod without labels, are pod objects.
LEMMA UnlabelledType ==
  ASSUME NEW p \in Pods, NEW v \in Nat, NEW e \in BOOLEAN
  PROVE  Unlabelled(p, v, e) \in PodObjects
BY DEF Unlabelled, PodObjects, TrafficLabels

\* The objects stored under finitely many names are finitely many.
LEMMA FiniteObjects ==
  ASSUME NEW f \in [Pods -> PodObjects], NEW S \in SUBSET Pods
  PROVE  IsFiniteSet({f[p] : p \in S}) /\ {f[p] : p \in S} \subseteq PodObjects
<1> DEFINE T == {f[p] : p \in S}
           g == [p \in S |-> f[p]]
<1>1. g \in Surjection(S, T)
  BY DEF Surjection
<1>2. IsFiniteSet(S)
  BY PodsAssumption, FS_Subset
<1>3. IsFiniteSet(T)
  <2> HIDE DEF T, g
  <2> QED BY <1>1, <1>2, FS_Surjection
<1> QED
  BY <1>3

\* The selections a list can return are finite and made of pod objects.
LEMMA CachedFinite ==
  ASSUME PodTypeOK
  PROVE  /\ Cached \subseteq PodObjects
         /\ IsFiniteSet(Cached)
         /\ IsFiniteSet(WithTrafficYes(Cached))
         /\ \A label : WithTraffic(Cached, label) \subseteq Cached
<1>1. Cached \subseteq PodObjects
  BY DEF PodTypeOK, Cached
<1>2. IsFiniteSet(Cached)
  BY FiniteObjects DEF PodTypeOK, Cached
<1>3. WithTrafficYes(Cached) \subseteq Cached
  BY DEF WithTrafficYes, ReadyPods
<1>4. IsFiniteSet(WithTrafficYes(Cached))
  BY <1>2, <1>3, FS_Subset
<1> QED
  BY <1>1, <1>2, <1>4 DEF WithTraffic

\* Storing an object keeps the server and the watch well-formed.
LEMMA StoreType ==
  ASSUME PodTypeOK, NEW o \in PodObjects, Store(o)
  PROVE  /\ server' \in [Pods -> PodObjects]
         /\ \A p \in Pods : server'[p].name = p
         /\ events' \in Seq(PodObjects)
<1> DEFINE stored == [o EXCEPT !.rv = @ + 1]
<1>1. stored \in PodObjects /\ stored.name = o.name /\ o.name \in Pods
  BY DEF PodObjects
<1> HIDE DEF stored
<1>2. server' = [server EXCEPT ![o.name] = stored] /\ events' = Append(events, stored)
  BY DEF Store, stored
<1> QED
  BY <1>1, <1>2, AppendProperties DEF PodTypeOK

-----------------------------------------------------------------------------
(* Type correctness, request by request and action by action.              *)

LEMMA MishapType ==
  ASSUME PodTypeOK, Mishap
  PROVE  mishaps' \in 0..MaxMishaps
BY BoundsAssumption DEF PodTypeOK, Mishap

LEMMA RefusedType ==
  ASSUME PodTypeOK, NEW copy \in PodObjects, Refused(copy), UNCHANGED <<cache, now>>
  PROVE  PodTypeOK'
BY MishapType DEF PodTypeOK, Refused

LEMMA InitRequestType ==
  ASSUME PodTypeOK, NEW copy \in PodObjects, UNCHANGED <<cache, now>>,
         InitBreakerAnnotationAndLabel(copy)
  PROVE  PodTypeOK'
<1> DEFINE o == [copy EXCEPT !.managed = TRUE, !.traffic = "yes"]
<1>1. o \in PodObjects
  BY DEF PodObjects, TrafficLabels
<1>2. CASE Refused(copy)
  BY <1>2, RefusedType
<1>3. CASE Store(o) /\ UNCHANGED <<mishaps, cuts, cutAt, killed>>
  <2> HIDE DEF o
  <2> QED BY <1>1, <1>3, StoreType DEF PodTypeOK
<1> QED
  BY <1>2, <1>3 DEF InitBreakerAnnotationAndLabel

LEMMA BreakRequestType ==
  ASSUME PodTypeOK, NEW copy \in PodObjects, NEW b \in Breakers,
         UNCHANGED <<cache, now>>, UpdateBreakerAnnotationAndLabel(copy, b)
  PROVE  PodTypeOK'
<1> DEFINE o == [copy EXCEPT !.managed = TRUE, !.strategy = b, !.traffic = "no",
                             !.breakAt = BreakAtStamp(now), !.retry = @ + 1]
<1>0. now \in Nat /\ copy.name \in Pods
  BY BoundsAssumption DEF PodTypeOK, PodObjects
<1>a. BreakAtStamp(now) \in Nat
  BY <1>0, StampBounds
<1>1. o \in PodObjects
  <2>1. [copy EXCEPT !.managed = TRUE, !.strategy = b, !.traffic = "no"] \in PodObjects
    BY DEF PodObjects, TrafficLabels
  <2>2. \A q \in PodObjects, t \in Nat, r \in Nat :
          [q EXCEPT !.breakAt = t, !.retry = r] \in PodObjects
    BY DEF PodObjects
  <2>3. copy.retry + 1 \in Nat
    BY DEF PodObjects
  <2> QED BY <1>a, <2>1, <2>2, <2>3
<1>2. CASE Refused(copy)
  BY <1>2, RefusedType
<1>3. CASE /\ Store(o)
           /\ cuts' = IF server[copy.name].traffic = "yes"
                        THEN [cuts EXCEPT ![copy.name] = @ + 1] ELSE cuts
           /\ cutAt' = [cutAt EXCEPT ![copy.name] = now]
           /\ UNCHANGED <<mishaps, killed>>
  <2> HIDE DEF o
  <2>1. cuts' \in [Pods -> Nat] /\ cutAt' \in [Pods -> 0..MaxNow]
    BY <1>0, <1>3 DEF PodTypeOK
  <2> QED BY <1>1, <1>3, <2>1, StoreType DEF PodTypeOK
<1> QED
  BY <1>2, <1>3 DEF UpdateBreakerAnnotationAndLabel

LEMMA TrafficRequestType ==
  ASSUME PodTypeOK, NEW copy \in PodObjects, NEW label \in TrafficLabels,
         UNCHANGED <<cache, now>>, SetTrafficLabel(copy, label)
  PROVE  PodTypeOK'
<1> DEFINE o == [copy EXCEPT !.traffic = label]
<1>1. o \in PodObjects
  BY DEF PodObjects
<1>2. CASE Refused(copy)
  BY <1>2, RefusedType
<1>3. CASE Store(o) /\ UNCHANGED <<mishaps, cuts, cutAt, killed>>
  <2> HIDE DEF o
  <2> QED BY <1>1, <1>3, StoreType DEF PodTypeOK
<1> QED
  BY <1>2, <1>3 DEF SetTrafficLabel

LEMMA KillRequestType ==
  ASSUME PodTypeOK, NEW copy \in PodObjects, UNCHANGED <<cache, now>>, KillPod(copy)
  PROVE  PodTypeOK'
<1> DEFINE p == copy.name
           o == Unlabelled(p, server[p].rv, FALSE)
<1>1. p \in Pods /\ server[p].rv \in Nat
  BY DEF PodTypeOK, PodObjects
<1>2. o \in PodObjects
  BY <1>1, UnlabelledType
<1>3. CASE /\ Store(o)
           /\ killed' = [killed EXCEPT ![p] = TRUE]
           /\ UNCHANGED <<mishaps, cuts, cutAt>>
  <2> HIDE DEF o
  <2> QED BY <1>1, <1>2, <1>3, StoreType DEF PodTypeOK
<1>4. CASE /\ mishaps' = mishaps \/ Mishap
           /\ UNCHANGED <<server, events, cuts, cutAt, killed>>
  BY <1>4, MishapType DEF PodTypeOK
<1> QED
  BY <1>3, <1>4 DEF KillPod

LEMMA SurroundingsType ==
  ASSUME PodTypeOK, PodNext
  PROVE  PodTypeOK'
<1>1. CASE DeliverEvent
  BY <1>1, HeadTailProperties DEF DeliverEvent, PodTypeOK, PodObjects
<1>2. CASE Relist
  BY <1>2, EmptySeq DEF Relist, PodTypeOK
<1>3. CASE Tick
  BY <1>3, BoundsAssumption DEF Tick, PodTypeOK
<1>4. ASSUME NEW p \in Pods, AdoptPod(p) PROVE PodTypeOK'
  BY <1>4, InitRequestType DEF AdoptPod, PodTypeOK
<1>5. ASSUME NEW p \in Pods, PodCreated(p) PROVE PodTypeOK'
  <2>1. PICK label \in {"unset", "yes"} :
          Store([Unlabelled(p, server[p].rv, TRUE) EXCEPT !.traffic = label])
    BY <1>5 DEF PodCreated
  <2>2. [Unlabelled(p, server[p].rv, TRUE) EXCEPT !.traffic = label] \in PodObjects
    <3>1. Unlabelled(p, server[p].rv, TRUE) \in PodObjects
      BY UnlabelledType DEF PodTypeOK, PodObjects
    <3> QED
      BY <3>1 DEF PodObjects, TrafficLabels
  <2>3. /\ Mishap /\ UNCHANGED <<cache, now>>
        /\ cuts' = [cuts EXCEPT ![p] = 0]
        /\ cutAt' = [cutAt EXCEPT ![p] = 0]
        /\ killed' = [killed EXCEPT ![p] = FALSE]
    BY <1>5 DEF PodCreated
  <2> QED
    BY <2>1, <2>2, <2>3, StoreType, MishapType, BoundsAssumption DEF PodTypeOK
<1>6. ASSUME NEW p \in Pods, PodLost(p) PROVE PodTypeOK'
  <2>1. Unlabelled(p, server[p].rv, FALSE) \in PodObjects
    BY UnlabelledType DEF PodTypeOK, PodObjects
  <2> QED
    BY <1>6, <2>1, StoreType, MishapType DEF PodLost, PodTypeOK
<1>7. ASSUME NEW p \in Pods, ReadinessChanges(p) PROVE PodTypeOK'
  <2>1. [server[p] EXCEPT !.ready = ~@] \in PodObjects
    <3>1. \A o \in PodObjects, r \in BOOLEAN : [o EXCEPT !.ready = r] \in PodObjects
      BY DEF PodObjects
    <3>2. server[p] \in PodObjects /\ (~server[p].ready) \in BOOLEAN
      BY DEF PodTypeOK
    <3> QED
      BY <3>1, <3>2
  <2> QED
    BY <1>7, <2>1, StoreType, MishapType DEF ReadinessChanges, PodTypeOK
<1> QED
  BY <1>1, <1>2, <1>3, <1>4, <1>5, <1>6, <1>7 DEF PodNext

\* The pods that are there at the beginning, and the empty cache.
LEMMA PodInitType == PodInit => PodTypeOK
<1> SUFFICES ASSUME PodInit PROVE PodTypeOK
  OBVIOUS
<1>1. \A p \in Pods : /\ InTrafficPod(p) \in PodObjects
                      /\ InTrafficPod(p).name = p
                      /\ Unlabelled(p, 0, FALSE) \in PodObjects
                      /\ Unlabelled(p, 0, FALSE).name = p
  BY DEF InTrafficPod, Unlabelled, PodObjects, TrafficLabels
<1>2. PICK present \in SUBSET Pods :
        server = [p \in Pods |-> IF p \in present THEN InTrafficPod(p)
                                                  ELSE Unlabelled(p, 0, FALSE)]
  BY DEF PodInit
<1>3. server \in [Pods -> PodObjects] /\ \A p \in Pods : server[p].name = p
  BY <1>1, <1>2
<1>4. /\ cache = server /\ events = <<>> /\ now = 0 /\ mishaps = 0
      /\ cuts = [p \in Pods |-> 0] /\ cutAt = [p \in Pods |-> 0]
      /\ killed = [p \in Pods |-> FALSE]
  BY DEF PodInit
<1>5. cutAt \in [Pods -> 0..MaxNow] /\ now \in 0..MaxNow /\ mishaps \in 0..MaxMishaps
  BY <1>4, BoundsAssumption
<1>6. events \in Seq(PodObjects) /\ killed \in [Pods -> BOOLEAN]
  BY <1>4, EmptySeq
<1> QED
  BY <1>3, <1>4, <1>5, <1>6 DEF PodTypeOK
=============================================================================
