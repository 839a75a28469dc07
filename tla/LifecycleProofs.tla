--------------------------- MODULE LifecycleProofs --------------------------
(***************************************************************************)
(* What the workers promise, from the inductive invariant: the loops       *)
(* implement PodLifecycle; an activator deletes no pod that another has    *)
(* put back into traffic; and an evaluation never cuts below its floor.    *)
(***************************************************************************)
EXTENDS TrafficControlProofs

-----------------------------------------------------------------------------
(* The loops implement PodLifecycle.                                       *)

LifecycleStep == [Lifecycle!Next]_(Lifecycle!lifecycleVars)

\* A step that changes nothing a lifecycle is about is a stutter.
LEMMA StutterStep ==
  ASSUME UNCHANGED <<server, killed, cuts, cutAt, now>>
  PROVE  LifecycleStep
<1>1. Phase' = Phase
  BY DEF Phase, PhaseOf, Managed
<1> QED
  BY <1>1 DEF LifecycleStep, Lifecycle!lifecycleVars

\* Storing an object moves its pod, and no other, to that object's phase.
LEMMA StorePhase ==
  ASSUME PodTypeOK, NEW o \in PodObjects, Store(o),
         \A p \in Pods \ {o.name} : killed'[p] = killed[p]
  PROVE  Phase' = [Phase EXCEPT ![o.name] = PhaseOf(o)']
<1> DEFINE stored == [o EXCEPT !.rv = @ + 1]
<1>1. /\ stored.name = o.name /\ stored.exists = o.exists /\ stored.managed = o.managed
      /\ stored.traffic = o.traffic /\ o.name \in Pods
  BY DEF PodObjects
<1> HIDE DEF stored
<1>2. server' = [server EXCEPT ![o.name] = stored]
  BY DEF Store, stored
<1>3. server'[o.name] = stored /\ \A p \in Pods \ {o.name} : server'[p] = server[p]
  BY <1>1, <1>2 DEF PodTypeOK
<1>4. PhaseOf(server[o.name])' = PhaseOf(o)'
  BY <1>1, <1>3 DEF PhaseOf, Managed
<1>5. \A p \in Pods \ {o.name} : PhaseOf(server[p])' = PhaseOf(server[p])
  BY <1>3 DEF PhaseOf, Managed, PodTypeOK
<1> QED
  BY <1>1, <1>4, <1>5 DEF Phase

LEMMA CutIsCut ==
  ASSUME Inv, NEW b \in Breakers, CutPod(b)
  PROVE  LifecycleStep
<1>1. PICK copy \in suspects[b] : UpdateBreakerAnnotationAndLabel(copy, b)
  BY DEF CutPod
<1>2. /\ copy \in PodObjects /\ copy.name \in Pods /\ NotAhead(copy)
      /\ Managed(copy) /\ copy.traffic = "yes" /\ UNCHANGED now
  BY DEF CutPod, Inv, TypeOK, BreakerTypeOK, CopiesNotAhead, PodObjects
<1>3. CASE Refused(copy)
  BY <1>2, <1>3, StutterStep DEF Refused
<1>4. CASE ~Refused(copy)
  <2> DEFINE p == copy.name
  <2>1. now \in Nat
    BY BoundsAssumption DEF Inv, TypeOK, PodTypeOK
  <2>2. PICK o \in PodObjects :
          o = [copy EXCEPT !.managed = TRUE, !.strategy = b, !.traffic = "no",
                           !.breakAt = BreakAtStamp(now), !.retry = @ + 1]
    <3>1. [copy EXCEPT !.managed = TRUE, !.strategy = b, !.traffic = "no"] \in PodObjects
      BY <1>2 DEF PodObjects, TrafficLabels
    <3>2. \A q \in PodObjects, t \in Nat, r \in Nat :
            [q EXCEPT !.breakAt = t, !.retry = r] \in PodObjects
      BY DEF PodObjects
    <3>3. copy.retry + 1 \in Nat /\ BreakAtStamp(now) \in Nat
      BY <1>2, <2>1, StampBounds DEF PodObjects
    <3> QED BY <3>1, <3>2, <3>3
  <2>3. /\ Current(copy) /\ Store(o)
        /\ cuts' = IF server[p].traffic = "yes" THEN [cuts EXCEPT ![p] = @ + 1] ELSE cuts
        /\ cutAt' = [cutAt EXCEPT ![p] = now]
        /\ UNCHANGED killed
    BY <1>1, <1>4, <2>2 DEF UpdateBreakerAnnotationAndLabel
  <2>4. copy = server[p] /\ copy.exists
    BY <1>2, <2>3, CurrentIsStored
  <2>5. o.name = p /\ o.exists = copy.exists /\ o.managed = TRUE /\ o.traffic = "no"
    BY <1>2, <2>2 DEF PodObjects
  <2>6. PhaseOf(o)' = "out"
    BY <2>4, <2>5 DEF PhaseOf, Managed
  <2>7. Phase[p] = "in"
    BY <1>2, <2>4 DEF Phase, PhaseOf, Managed
  <2>8. Phase' = [Phase EXCEPT ![p] = "out"]
    BY <2>3, <2>5, <2>6, StorePhase DEF Inv, TypeOK
  <2>9. Lifecycle!Cut(p)
    BY <1>2, <2>3, <2>4, <2>7, <2>8 DEF Lifecycle!Cut, Lifecycle!Move
  <2> QED BY <1>2, <2>9 DEF LifecycleStep, Lifecycle!Next
<1> QED BY <1>3, <1>4

\* A back-off computed from a current copy and the stamp of the last cut is
\* over only when the lifecycle's is.
LEMMA BackOffIsOver ==
  ASSUME Inv, NEW a \in Activators, NEW p \in Pods, server[p].exists,
         server[p].traffic = "no", RetryDue(a, server[p])
  PROVE  Lifecycle!BackOffOver(a, p) /\ ~Lifecycle!Exhausted(a, p)
<1> DEFINE s == server[p]
<1>1. /\ s.retry = cuts[p] /\ s.breakAt <= cutAt[p] /\ cutAt[p] < s.breakAt + Second
      /\ s.breakAt \in Nat /\ cutAt[p] \in Nat /\ now \in Nat /\ cuts[p] \in Nat
  <2>1. s \in PodObjects /\ s.name = p /\ s.retry = cuts[p] /\ TellsHistory(s)
    BY StoredFacts
  <2>2. cutAt[p] \in Nat /\ now \in Nat /\ cuts[p] \in Nat
    BY BoundsAssumption DEF Inv, TypeOK, PodTypeOK
  <2>3. s.breakAt \in Nat
    BY <2>1 DEF PodObjects
  <2> QED BY <2>1, <2>2, <2>3 DEF TellsHistory
<1>2. ~Lifecycle!Exhausted(a, p)
  BY <1>1 DEF RetryDue, Exhausted, CountsRetries, Lifecycle!Exhausted
<1>3. PICK w : w = (IF Mode[a] = "periodic" THEN 1 ELSE cuts[p]) * Period[a]
  OBVIOUS
<1>4. w \in Nat
  BY <1>1, <1>3, ActivatorAssumption
<1>5. s.breakAt + w < now /\ Mode[a] # "other"
  BY <1>1, <1>3 DEF RetryDue, RetryTime
<1>6. now - cutAt[p] > w - Second
  BY <1>1, <1>4, <1>5, SecondAssumption
<1> QED
  BY <1>2, <1>3, <1>5, <1>6 DEF Lifecycle!BackOffOver

LEMMA TrafficRequestIsStep ==
  ASSUME Inv, NEW a \in Activators, NEW copy \in PodObjects, NotAhead(copy),
         Managed(copy), copy.traffic = "no", UNCHANGED <<cache, now>>,
         Reactivate(a, copy) \/ Pause(a, copy)
  PROVE  LifecycleStep
<1> DEFINE p == copy.name
<1>1. PICK label \in {"yes", "pause"} :
        /\ SetTrafficLabel(copy, label)
        /\ label = "yes" => RetryDue(a, copy)
        /\ label = "pause" => Mode[a] = "retryAndPause" /\ Exhausted(a, copy)
  BY DEF Reactivate, Pause
<1>2. CASE Refused(copy)
  BY <1>2, StutterStep DEF Refused
<1>3. CASE ~Refused(copy)
  <2>1. PICK o \in PodObjects : o = [copy EXCEPT !.traffic = label]
    BY DEF PodObjects, TrafficLabels
  <2>2. Current(copy) /\ Store(o) /\ UNCHANGED <<cuts, cutAt, killed>>
    BY <1>1, <1>3, <2>1 DEF SetTrafficLabel
  <2>3. p \in Pods /\ copy = server[p] /\ copy.exists
    BY <2>2, CurrentIsStored DEF PodObjects
  <2>4. /\ o.name = p /\ o.exists = copy.exists
        /\ o.managed = copy.managed /\ o.traffic = label
    BY <2>1 DEF PodObjects
  <2>5. PhaseOf(o)' = (IF label = "yes" THEN "in" ELSE "paused")
    BY <2>3, <2>4 DEF PhaseOf, Managed
  <2>6. Phase[p] = "out"
    BY <2>3 DEF Phase, PhaseOf, Managed
  <2>7. Phase' = [Phase EXCEPT ![p] = PhaseOf(o)']
    BY <2>2, <2>4, StorePhase DEF Inv, TypeOK
  <2>8. CASE label = "yes"
    <3>1. Lifecycle!BackOffOver(a, p) /\ ~Lifecycle!Exhausted(a, p)
      BY <1>1, <2>3, <2>8, BackOffIsOver
    <3>2. Lifecycle!Reactivate(p)
      BY <2>2, <2>5, <2>6, <2>7, <2>8, <3>1 DEF Lifecycle!Reactivate, Lifecycle!Move
    <3> QED BY <2>3, <3>2 DEF LifecycleStep, Lifecycle!Next
  <2>9. CASE label = "pause"
    <3>1. Mode[a] = "retryAndPause" /\ Lifecycle!Exhausted(a, p)
      BY <1>1, <2>3, <2>9, StoredFacts
      DEF Exhausted, CountsRetries, Lifecycle!Exhausted
    <3>2. Lifecycle!Pause(p)
      BY <2>2, <2>5, <2>6, <2>7, <2>9, <3>1 DEF Lifecycle!Pause, Lifecycle!Move
    <3> QED BY <2>3, <3>2 DEF LifecycleStep, Lifecycle!Next
  <2> QED BY <2>8, <2>9
<1> QED BY <1>2, <1>3

LEMMA KillIsKill ==
  ASSUME Inv, NEW a \in Activators, NEW copy \in PodObjects, NotAhead(copy),
         Kill(a, copy), UNCHANGED now
  PROVE  LifecycleStep
<1> DEFINE p == copy.name
<1>1. p \in Pods /\ copy.retry \in Nat
  BY DEF PodObjects
<1>2. CASE UNCHANGED <<server, events, cuts, cutAt, killed>>
  BY <1>2, StutterStep
<1>3. CASE ~UNCHANGED <<server, events, cuts, cutAt, killed>>
  <2>1. PICK o : o = Unlabelled(p, server[p].rv, FALSE)
    OBVIOUS
  <2>2. /\ server[p].exists /\ Store(o) /\ UNCHANGED <<cuts, cutAt>>
        /\ killed' = [killed EXCEPT ![p] = TRUE]
    BY <1>3, <2>1 DEF Kill, KillPod
  <2>3. o \in PodObjects /\ o.name = p /\ ~o.exists
    BY <1>1, <2>1, FreeNameObject
  <2>4. killed'[p] = TRUE /\ \A q \in Pods \ {p} : killed'[q] = killed[q]
    BY <1>1, <2>2 DEF Inv, TypeOK, PodTypeOK
  <2>5. PhaseOf(o)' = "killed"
    <3>1. o.exists = FALSE /\ killed'[o.name]
      BY <2>3, <2>4
    <3> QED BY <3>1 DEF PhaseOf, Managed
  <2>6. Phase' = [Phase EXCEPT ![p] = "killed"]
    BY <2>2, <2>3, <2>4, <2>5, StorePhase DEF Inv, TypeOK
  <2>7. Lifecycle!Exhausted(a, p)
    <3>1. copy.retry <= cuts[p] /\ CountsRetries(a) /\ copy.retry > MaxRetry[a]
      BY DEF NotAhead, Kill, Exhausted
    <3>2. cuts[p] \in Nat /\ MaxRetry[a] \in Nat
      BY <1>1, StoredFacts, ActivatorAssumption
    <3> QED BY <1>1, <3>1, <3>2 DEF CountsRetries, Lifecycle!Exhausted
  <2>8. Lifecycle!Living(p)
    BY <1>1, <2>2 DEF Lifecycle!Living, Lifecycle!Phases, Phase, PhaseOf, Managed
  <2>9. Lifecycle!Kill(p)
    BY <2>2, <2>6, <2>7, <2>8 DEF Lifecycle!Kill, Lifecycle!Move
  <2> QED BY <1>1, <2>9 DEF LifecycleStep, Lifecycle!Next
<1> QED BY <1>2, <1>3

LEMMA SurroundingsAreSteps ==
  ASSUME ~NamesReused, Inv, PodNext
  PROVE  LifecycleStep
<1>1. CASE DeliverEvent \/ Relist
  BY <1>1, StutterStep DEF DeliverEvent, Relist
<1>2. CASE Tick
  <2>1. Phase' = Phase
    BY <1>2 DEF Tick, Phase, PhaseOf, Managed
  <2>2. Lifecycle!TimePasses
    BY <1>2, <2>1 DEF Tick, Lifecycle!TimePasses
  <2> QED BY <2>2 DEF LifecycleStep, Lifecycle!Next
<1>3. ASSUME NEW p \in Pods, AdoptPod(p) PROVE LifecycleStep
  <2>1. CASE Refused(server[p])
    BY <1>3, <2>1, StutterStep DEF Refused, AdoptPod
  <2>2. CASE ~Refused(server[p])
    <3>1. PICK o \in PodObjects : o = [server[p] EXCEPT !.managed = TRUE, !.traffic = "yes"]
      <4>1. \A q \in PodObjects : [q EXCEPT !.managed = TRUE, !.traffic = "yes"] \in PodObjects
        BY DEF PodObjects, TrafficLabels
      <4> QED BY <4>1, StoredFacts
    <3>2. /\ Store(o) /\ UNCHANGED <<cuts, cutAt, killed, now>> /\ server[p].exists
          /\ ~(server[p].managed /\ server[p].traffic # "unset")
      BY <1>3, <2>2, <3>1 DEF AdoptPod, InitBreakerAnnotationAndLabel
    <3>3. /\ o.name = p /\ o.exists = server[p].exists
          /\ o.managed = TRUE /\ o.traffic = "yes"
      BY <3>1, StoredFacts DEF PodObjects
    <3>4. PhaseOf(o)' = "in"
      BY <3>2, <3>3 DEF PhaseOf, Managed
    <3>5. Phase[p] = "new"
      <4>1. ~server[p].managed
        BY <3>2, StoredFacts DEF TellsHistory
      <4> QED BY <3>2, <4>1 DEF Phase, PhaseOf, Managed
    <3>6. Phase' = [Phase EXCEPT ![p] = "in"]
      BY <3>2, <3>3, <3>4, StorePhase DEF Inv, TypeOK
    <3>7. Lifecycle!Adopt(p)
      BY <3>2, <3>5, <3>6 DEF Lifecycle!Adopt, Lifecycle!Move
    <3> QED BY <3>7 DEF LifecycleStep, Lifecycle!Next
  <2> QED BY <2>1, <2>2
<1>4. ASSUME NEW p \in Pods, PodCreated(p) PROVE LifecycleStep
  <2>1. PICK label \in {"unset", "yes"} :
          Store([Unlabelled(p, server[p].rv, TRUE) EXCEPT !.traffic = label])
    BY <1>4 DEF PodCreated
  <2>2. PICK o \in PodObjects : o = [Unlabelled(p, server[p].rv, TRUE) EXCEPT !.traffic = label]
    <3>1. Unlabelled(p, server[p].rv, TRUE) \in PodObjects
      BY UnlabelledType, StoredFacts
    <3>2. \A q \in PodObjects : [q EXCEPT !.traffic = label] \in PodObjects
      BY DEF PodObjects, TrafficLabels
    <3> QED BY <3>1, <3>2
  <2>3. o.name = p /\ o.exists = TRUE /\ o.managed = FALSE
    BY <2>2 DEF Unlabelled
  <2>4. /\ ~server[p].exists /\ UNCHANGED now
        /\ cuts' = [cuts EXCEPT ![p] = 0]
        /\ cutAt' = [cutAt EXCEPT ![p] = 0]
        /\ \A q \in Pods \ {p} : killed'[q] = killed[q]
    BY <1>4 DEF PodCreated, Inv, TypeOK, PodTypeOK
  <2>5. PhaseOf(o)' = "new"
    BY <2>3 DEF PhaseOf, Managed
  <2>6. Phase' = [Phase EXCEPT ![p] = "new"]
    BY <2>1, <2>2, <2>3, <2>4, <2>5, StorePhase DEF Inv, TypeOK
  <2>7. ~Lifecycle!Living(p)
    <3>1. Phase[p] \in {"free", "killed"}
      BY <2>4 DEF Phase, PhaseOf, Managed
    <3> QED BY <3>1 DEF Lifecycle!Living
  <2>8. Lifecycle!Create(p)
    BY <2>4, <2>6, <2>7 DEF Lifecycle!Create, Lifecycle!Move
  <2> QED BY <2>8 DEF LifecycleStep, Lifecycle!Next
<1>5. ASSUME NEW p \in Pods, PodLost(p) PROVE LifecycleStep
  <2>1. PICK o : o = Unlabelled(p, server[p].rv, FALSE)
    OBVIOUS
  <2>2. Store(o) /\ server[p].exists /\ UNCHANGED <<cuts, cutAt, killed, now>>
    BY <1>5, <2>1 DEF PodLost
  <2>3. o \in PodObjects /\ o.name = p /\ o.exists = FALSE /\ ~killed[p]
    BY <2>1, <2>2, FreeNameObject, StoredFacts DEF Unlabelled, TellsHistory
  <2>4. PhaseOf(o)' = "free"
    BY <2>2, <2>3 DEF PhaseOf, Managed
  <2>5. Phase' = [Phase EXCEPT ![p] = "free"]
    BY <2>2, <2>3, <2>4, StorePhase DEF Inv, TypeOK
  <2>6. Lifecycle!Living(p)
    BY <2>2 DEF Lifecycle!Living, Lifecycle!Phases, Phase, PhaseOf, Managed
  <2>7. Lifecycle!Lose(p)
    BY <2>2, <2>5, <2>6 DEF Lifecycle!Lose, Lifecycle!Move
  <2> QED BY <2>7 DEF LifecycleStep, Lifecycle!Next
<1>6. ASSUME NEW p \in Pods, ReadinessChanges(p) PROVE LifecycleStep
  <2>1. PICK o \in PodObjects : o = [server[p] EXCEPT !.ready = ~@]
    <3>1. \A q \in PodObjects, r \in BOOLEAN : [q EXCEPT !.ready = r] \in PodObjects
      BY DEF PodObjects
    <3>2. (~server[p].ready) \in BOOLEAN
      OBVIOUS
    <3> QED BY <3>1, <3>2, StoredFacts
  <2>2. Store(o) /\ UNCHANGED <<cuts, cutAt, killed, now>>
    BY <1>6, <2>1 DEF ReadinessChanges
  <2>3. /\ o.name = p /\ o.exists = server[p].exists
        /\ o.managed = server[p].managed /\ o.traffic = server[p].traffic
        /\ server[p].name = p
    BY <2>1, StoredFacts DEF PodObjects
  <2>4. PhaseOf(o)' = Phase[p]
    BY <2>2, <2>3 DEF Phase, PhaseOf, Managed
  <2>5. Phase' = [Phase EXCEPT ![p] = Phase[p]]
    BY <2>2, <2>3, <2>4, StorePhase DEF Inv, TypeOK
  <2>6. Phase' = Phase
    BY <2>5 DEF Phase
  <2> QED BY <2>2, <2>6 DEF LifecycleStep, Lifecycle!lifecycleVars
<1> QED
  BY <1>1, <1>2, <1>3, <1>4, <1>5, <1>6 DEF PodNext

LEMMA InitImplements == Init => Lifecycle!Init
<1> SUFFICES ASSUME Init PROVE Lifecycle!Init
  OBVIOUS
<1>1. PICK present \in SUBSET Pods :
        server = [p \in Pods |-> IF p \in present THEN InTrafficPod(p)
                                                  ELSE Unlabelled(p, 0, FALSE)]
  BY DEF Init, PodInit
<1>2. /\ cuts = [p \in Pods |-> 0] /\ cutAt = [p \in Pods |-> 0] /\ now = 0
      /\ killed = [p \in Pods |-> FALSE]
  BY DEF Init, PodInit
<1>3. ASSUME NEW p \in Pods PROVE PhaseOf(server[p]) \in {"free", "in"}
  <2>1. CASE p \in present
    BY <1>1, <2>1 DEF PhaseOf, Managed, InTrafficPod, Unlabelled
  <2>2. CASE p \notin present
    BY <1>1, <1>2, <2>2 DEF PhaseOf, Unlabelled
  <2> QED BY <2>1, <2>2
<1> QED
  BY <1>2, <1>3 DEF Lifecycle!Init, Phase

LEMMA NextImplements ==
  ASSUME CustomDetector = {}, ~NamesReused
  PROVE  Inv /\ [Next]_vars => LifecycleStep
<1> SUFFICES ASSUME Inv, [Next]_vars PROVE LifecycleStep
  OBVIOUS
<1>1. ASSUME NEW b \in Breakers, BreakerStep(b) PROVE LifecycleStep
  <2>1. CASE DetectAnomalies(b) \/ DecideRemoveCount(b)
    BY <2>1, StutterStep DEF DetectAnomalies, DecideRemoveCount, podVars
  <2> QED BY <1>1, <2>1, CutIsCut DEF BreakerStep
<1>2. ASSUME NEW a \in Activators, ActivatorStep(a) PROVE LifecycleStep
  <2>1. CASE ListCutPods(a)
    BY <2>1, StutterStep DEF ListCutPods, podVars
  <2>2. CASE ApplyActivatorStrategy(a)
    <3>1. PICK copy \in todo[a] :
            \/ Reactivate(a, copy)
            \/ Pause(a, copy)
            \/ Kill(a, copy)
            \/ Wait(a, copy)
      BY <2>2 DEF ApplyActivatorStrategy
    <3>2. /\ copy \in PodObjects /\ NotAhead(copy) /\ Managed(copy)
          /\ copy.traffic = "no" /\ UNCHANGED <<cache, now>>
      BY <2>2 DEF ApplyActivatorStrategy, Inv, TypeOK, ActivatorTypeOK, CopiesNotAhead
    <3>3. CASE Reactivate(a, copy) \/ Pause(a, copy)
      BY <3>2, <3>3, TrafficRequestIsStep
    <3>4. CASE Kill(a, copy)
      BY <3>2, <3>4, KillIsKill
    <3>5. CASE Wait(a, copy)
      BY <3>2, <3>5, StutterStep DEF Wait
    <3> QED BY <3>1, <3>3, <3>4, <3>5
  <2> QED BY <1>2, <2>1, <2>2 DEF ActivatorStep
<1>3. CASE Restart
  BY <1>3, StutterStep DEF Restart
<1>4. CASE UNCHANGED vars
  BY <1>4, StutterStep DEF vars, podVars
<1> QED
  BY <1>1, <1>2, <1>3, <1>4, SurroundingsAreSteps DEF Next, Breaking, Activating, Surroundings

\* For every number of pods, breakers and activators, whatever the modes,
\* periods and limits, the loops take each pod through the promised life.
THEOREM LoopsImplementLifecycle ==
  ASSUME CustomDetector = {}, ~NamesReused
  PROVE  Spec => ImplementsLifecycle
<1>1. Spec => []Inv
  BY InvCorrect
<1>2. Inv /\ [Next]_vars => [Lifecycle!Next]_(Lifecycle!lifecycleVars)
  BY NextImplements DEF LifecycleStep
<1> QED
  BY <1>1, <1>2, InitImplements, PTL DEF Spec, ImplementsLifecycle, Lifecycle!Spec

-----------------------------------------------------------------------------
(* What the lifecycle says of deletions, for activators that agree.        *)

\* All activators of the service that act, or none, give up on a pod, after as
\* many retries: with different limits one may delete what another retried.
OneLimit ==
  \A a, c \in Activators :
    CountsRetries(a) /\ Mode[c] # "other" =>
      CountsRetries(c) /\ MaxRetry[c] = MaxRetry[a]

\* A pod in traffic has not used up its retries, one that was not adopted yet
\* has used none, and pods are paused only by activators that pause.
RetriesLeft ==
  /\ \A p \in Pods : Phase[p] = "new" => cuts[p] = 0
  /\ \A p \in Pods, a \in Activators :
       Phase[p] = "in" /\ CountsRetries(a) => cuts[p] <= MaxRetry[a]
  /\ \A p \in Pods : Phase[p] = "paused" => \E a \in Activators : Mode[a] = "retryAndPause"

\* A pod that moves makes one of the moves of a life, and the others stay.
MoveOf(p) ==
  \/ Lifecycle!Create(p) \/ Lifecycle!Adopt(p) \/ Lifecycle!Cut(p)
  \/ Lifecycle!Reactivate(p) \/ Lifecycle!Pause(p) \/ Lifecycle!Kill(p)
  \/ Lifecycle!Lose(p)

LEMMA OthersStay ==
  ASSUME Inv, NEW p \in Pods, MoveOf(p), NEW q \in Pods \ {p}
  PROVE  Phase'[q] = Phase[q] /\ cuts'[q] = cuts[q]
<1>1. cuts \in [Pods -> Nat] /\ Phase = [r \in Pods |-> PhaseOf(server[r])]
  BY DEF Inv, TypeOK, PodTypeOK, Phase
<1>2. \E to : Phase' = [Phase EXCEPT ![p] = to]
  BY DEF MoveOf, Lifecycle!Create, Lifecycle!Adopt, Lifecycle!Cut, Lifecycle!Reactivate,
         Lifecycle!Pause, Lifecycle!Kill, Lifecycle!Lose, Lifecycle!Move
<1>3. Phase'[q] = Phase[q]
  <2>1. PICK to : Phase' = [Phase EXCEPT ![p] = to]
    BY <1>2
  <2>2. q \in DOMAIN Phase
    BY <1>1
  <2> QED BY <2>1, <2>2
<1>4. cuts'[q] = cuts[q]
  BY <1>1 DEF MoveOf, Lifecycle!Create, Lifecycle!Adopt, Lifecycle!Cut, Lifecycle!Reactivate,
         Lifecycle!Pause, Lifecycle!Kill, Lifecycle!Lose
<1> QED
  BY <1>3, <1>4

\* What one move makes of the phase and the count of its pod.
LEMMA MoveEffect ==
  ASSUME Inv, NEW p \in Pods, MoveOf(p)
  PROVE  \/ Phase[p] \in {"free", "killed"} /\ Phase'[p] = "new" /\ cuts'[p] = 0
         \/ Phase[p] = "new" /\ Phase'[p] = "in" /\ cuts'[p] = cuts[p]
         \/ Phase[p] = "in" /\ Phase'[p] = "out" /\ cuts'[p] = cuts[p] + 1
         \/ /\ Phase[p] = "out" /\ Phase'[p] = "in" /\ cuts'[p] = cuts[p]
            /\ \E a \in Activators : Mode[a] # "other" /\ ~Lifecycle!Exhausted(a, p)
         \/ /\ Phase[p] = "out" /\ Phase'[p] = "paused" /\ cuts'[p] = cuts[p]
            /\ \E a \in Activators : Mode[a] = "retryAndPause"
         \/ /\ Phase[p] \in {"new", "in", "out", "paused"} /\ Phase'[p] = "killed"
            /\ cuts'[p] = cuts[p]
            /\ \E a \in Activators : Lifecycle!Exhausted(a, p)
         \/ Phase'[p] = "free" /\ cuts'[p] = cuts[p]
<1>1. cuts \in [Pods -> Nat] /\ p \in DOMAIN Phase
  BY DEF Inv, TypeOK, PodTypeOK, Phase
<1>2. ASSUME NEW to, Lifecycle!Move(p, to) PROVE Phase'[p] = to
  BY <1>1, <1>2 DEF Lifecycle!Move
<1>3. CASE Lifecycle!Create(p)
  <2>1. Phase[p] \in {"free", "new", "in", "out", "paused", "killed"}
    BY DEF Phase, PhaseOf
  <2> QED BY <1>1, <1>2, <1>3, <2>1 DEF Lifecycle!Create, Lifecycle!Living,
                                          Lifecycle!Phases
<1>4. CASE Lifecycle!Adopt(p)
  BY <1>2, <1>4 DEF Lifecycle!Adopt
<1>5. CASE Lifecycle!Cut(p)
  BY <1>1, <1>2, <1>5 DEF Lifecycle!Cut
<1>6. CASE Lifecycle!Reactivate(p)
  BY <1>2, <1>6 DEF Lifecycle!Reactivate, Lifecycle!BackOffOver
<1>7. CASE Lifecycle!Pause(p)
  BY <1>2, <1>7 DEF Lifecycle!Pause
<1>8. CASE Lifecycle!Kill(p)
  BY <1>2, <1>8 DEF Lifecycle!Kill, Lifecycle!Living, Lifecycle!Phases
<1>9. CASE Lifecycle!Lose(p)
  BY <1>2, <1>9 DEF Lifecycle!Lose
<1> QED
  BY <1>3, <1>4, <1>5, <1>6, <1>7, <1>8, <1>9 DEF MoveOf

\* A step of a life is a move of one pod, or no pod's phase and count change.
LEMMA StepIsMove ==
  ASSUME LifecycleStep
  PROVE  (\E p \in Pods : MoveOf(p)) \/ (Phase' = Phase /\ cuts' = cuts)
BY DEF LifecycleStep, Lifecycle!Next, Lifecycle!TimePasses, Lifecycle!lifecycleVars, MoveOf

LEMMA RetriesLeftInit == Init => RetriesLeft
<1> SUFFICES ASSUME Init PROVE RetriesLeft
  OBVIOUS
<1>1. Phase \in [Pods -> {"free", "in"}] /\ cuts = [p \in Pods |-> 0]
  BY InitImplements DEF Lifecycle!Init
<1> QED
  BY <1>1, ActivatorAssumption DEF RetriesLeft

LEMMA RetriesLeftNext ==
  ASSUME OneLimit, Inv, RetriesLeft, LifecycleStep
  PROVE  RetriesLeft'
<1>1. CASE Phase' = Phase /\ cuts' = cuts
  BY <1>1 DEF RetriesLeft
<1>2. ASSUME NEW p \in Pods, MoveOf(p) PROVE RetriesLeft'
  <2>1. \A q \in Pods \ {p} : Phase'[q] = Phase[q] /\ cuts'[q] = cuts[q]
    BY <1>2, OthersStay
  <2>2. Phase'[p] = "new" => cuts'[p] = 0
    BY <1>2, MoveEffect
  <2>3. Phase'[p] = "paused" => \E a \in Activators : Mode[a] = "retryAndPause"
    BY <1>2, MoveEffect
  <2>4. ASSUME NEW a \in Activators, Phase'[p] = "in", CountsRetries(a)
        PROVE  cuts'[p] <= MaxRetry[a]
    <3>1. MaxRetry[a] \in Nat /\ cuts[p] \in Nat
      BY ActivatorAssumption DEF Inv, TypeOK, PodTypeOK
    <3>2. CASE Phase[p] = "new" /\ cuts'[p] = cuts[p]
      BY <3>1, <3>2 DEF RetriesLeft
    <3>3. CASE /\ cuts'[p] = cuts[p]
               /\ \E c \in Activators : Mode[c] # "other" /\ ~Lifecycle!Exhausted(c, p)
      <4>1. PICK c \in Activators : Mode[c] # "other" /\ ~Lifecycle!Exhausted(c, p)
        BY <3>3
      <4>2. CountsRetries(c) /\ MaxRetry[c] = MaxRetry[a]
        BY <2>4, <4>1 DEF OneLimit
      <4> QED BY <3>1, <3>3, <4>1, <4>2 DEF CountsRetries, Lifecycle!Exhausted
    <3> QED BY <1>2, <2>4, <3>2, <3>3, MoveEffect
  <2> QED BY <2>1, <2>2, <2>3, <2>4 DEF RetriesLeft
<1> QED
  BY <1>1, <1>2, StepIsMove

\* A pod an activator deletes has used up its retries, and is therefore cut or
\* paused.
LEMMA KilledWasCut ==
  ASSUME Inv, Inv', RetriesLeft, LifecycleStep, NEW p \in Pods, KilledNow(p)
  PROVE  Phase[p] \in {"out", "paused"}
<1>1. Phase'[p] = "killed"
  <2>1. ~server'[p].exists /\ server'[p].name = p
    <3>1. server'[p].name = p /\ TellsHistory(server[p])'
      BY DEF Inv, LabelsTellHistory, TypeOK, PodTypeOK
    <3> QED BY <3>1 DEF TellsHistory, KilledNow
  <2>2. killed'[server'[p].name]
    BY <2>1 DEF KilledNow
  <2>3. PhaseOf(server[p])' = "killed"
    BY <2>1, <2>2 DEF PhaseOf, Managed
  <2> QED BY <2>3 DEF Phase
<1>2. Phase[p] # "killed"
  <2>1. server[p].name = p
    BY DEF Inv, TypeOK, PodTypeOK
  <2> QED BY <2>1 DEF Phase, PhaseOf, KilledNow, Managed
<1>3. PICK q \in Pods : MoveOf(q)
  BY <1>1, <1>2, StepIsMove
<1>4. q = p
  BY <1>1, <1>2, <1>3, OthersStay
<1>5. PICK a \in Activators : Lifecycle!Exhausted(a, p)
  BY <1>1, <1>3, <1>4, MoveEffect
<1>6. Phase[p] \in {"new", "in", "out", "paused"}
  BY <1>1, <1>3, <1>4, MoveEffect
<1>7. Phase[p] \notin {"new", "in"}
  <2>1. CountsRetries(a) /\ cuts[p] > MaxRetry[a] /\ MaxRetry[a] \in Nat
    BY <1>5, ActivatorAssumption DEF Lifecycle!Exhausted, CountsRetries
  <2>2. cuts[p] \in Nat
    BY DEF Inv, TypeOK, PodTypeOK
  <2> QED BY <2>1, <2>2 DEF RetriesLeft
<1> QED
  BY <1>6, <1>7

LEMMA RetriesLeftCorrect ==
  ASSUME CustomDetector = {}, ~NamesReused, OneLimit
  PROVE  Spec => []RetriesLeft
<1>1. Inv /\ [Next]_vars => LifecycleStep
  BY NextImplements
<1>2. Inv /\ RetriesLeft /\ LifecycleStep => RetriesLeft'
  BY RetriesLeftNext
<1> QED
  BY <1>1, <1>2, RetriesLeftInit, InvCorrect, PTL DEF Spec

\* Whatever an activator copied and however late its request comes, the pod it
\* deletes by name is not one that an activator has put back into traffic.
THEOREM SparesServingPodsCorrect ==
  ASSUME CustomDetector = {}, ~NamesReused, OneLimit
  PROVE  Spec => SparesServingPods
<1>1. ASSUME Inv, Inv', RetriesLeft, LifecycleStep
      PROVE  \A p \in Pods : KilledNow(p) => Phase[p] # "in"
  BY <1>1, KilledWasCut
<1>2. Inv /\ [Next]_vars => LifecycleStep
  BY NextImplements
<1> QED
  BY <1>1, <1>2, InvCorrect, RetriesLeftCorrect, PTL DEF Spec, SparesServingPods

\* Without pauses the pod is out of traffic, cut and waiting for its retry.
THEOREM KillsOnlyCutPodsCorrect ==
  ASSUME CustomDetector = {}, ~NamesReused, OneLimit,
         \A a \in Activators : Mode[a] # "retryAndPause"
  PROVE  Spec => KillsOnlyCutPods
<1>1. ASSUME Inv, Inv', RetriesLeft, LifecycleStep
      PROVE  \A p \in Pods : KilledNow(p) => Phase[p] = "out"
  BY <1>1, KilledWasCut DEF RetriesLeft
<1>2. Inv /\ [Next]_vars => LifecycleStep
  BY NextImplements
<1> QED
  BY <1>1, <1>2, InvCorrect, RetriesLeftCorrect, PTL DEF Spec, KillsOnlyCutPods

-----------------------------------------------------------------------------
(* The floor of an evaluation.                                             *)

\* The cache and the watch behind it end where the API server is.
WatchReachesServer ==
  \A p \in Pods :
    \/ cache[p] = server[p] /\ \A i \in 1..Len(events) : events[i].name # p
    \/ \E i \in 1..Len(events) :
         events[i] = server[p] /\ \A j \in 1..Len(events) : j > i => events[j].name # p

\* What an evaluation may still cut leaves the pods its strategy demands.
RoomForCuts ==
  \A b \in Breakers : budget[b] # Undecided =>
    /\ budget[b] > 0
    /\ Cardinality(InTraffic) - budget[b] >= MinAvailablePods(b, listed[b])

\* One object is written, and sent to the informer.
Wrote(q) ==
  /\ q \in Pods
  /\ \A p \in Pods \ {q} : server'[p] = server[p]
  /\ events' = Append(events, server'[q])

LEMMA StoreWrites ==
  ASSUME PodTypeOK, NEW o, o.name \in Pods, Store(o)
  PROVE  Wrote(o.name)
BY DEF Store, Wrote, PodTypeOK

\* A write goes to the end of the watch.
LEMMA StoreReaches ==
  ASSUME PodTypeOK, PodTypeOK', WatchReachesServer, NEW q, Wrote(q), cache' = cache
  PROVE  WatchReachesServer'
<1> DEFINE stored == server'[q]
           n == Len(events)
<1>1. stored \in PodObjects /\ stored.name = q /\ q \in Pods
  BY DEF PodTypeOK, Wrote
<1>2. events' = Append(events, stored)
  BY DEF Wrote
<1> HIDE DEF stored
<1>3. /\ events \in Seq(PodObjects) /\ n \in Nat /\ Len(events') = n + 1
      /\ events'[n + 1] = stored /\ \A i \in 1..n : events'[i] = events[i]
  BY <1>1, <1>2, AppendProperties, LenProperties DEF PodTypeOK
<1>4. server'[q] = stored /\ \A p \in Pods \ {q} : server'[p] = server[p]
  BY DEF stored, Wrote
<1>5. ASSUME NEW p \in Pods
      PROVE  \/ /\ cache'[p] = server'[p]
                /\ \A i \in 1..Len(events') : events'[i].name # p
             \/ \E i \in 1..Len(events') :
                  /\ events'[i] = server'[p]
                  /\ \A j \in 1..Len(events') : j > i => events'[j].name # p
  <2>1. CASE p = q
    <3>1. n + 1 \in 1..Len(events') /\ \A j \in 1..Len(events') : ~(j > n + 1)
      BY <1>3
    <3> QED BY <2>1, <1>3, <1>4, <3>1
  <2>2. CASE p # q /\ cache[p] = server[p]
              /\ \A i \in 1..n : events[i].name # p
    <3>1. \A i \in 1..Len(events') : events'[i].name # p
      BY <1>1, <1>3, <2>2
    <3> QED BY <1>4, <2>2, <3>1
  <2>3. ASSUME p # q, NEW i \in 1..n, events[i] = server[p],
               \A j \in 1..n : j > i => events[j].name # p
        PROVE  \E k \in 1..Len(events') :
                 /\ events'[k] = server'[p]
                 /\ \A j \in 1..Len(events') : j > k => events'[j].name # p
    <3>1. i \in 1..Len(events') /\ events'[i] = server'[p]
      BY <1>3, <1>4, <2>3
    <3>2. \A j \in 1..Len(events') : j > i => events'[j].name # p
      BY <1>1, <1>3, <2>3
    <3> QED BY <3>1, <3>2
  <2> QED BY <2>1, <2>2, <2>3 DEF WatchReachesServer
<1> QED
  BY <1>5 DEF WatchReachesServer

LEMMA DeliverReaches ==
  ASSUME PodTypeOK, WatchReachesServer, DeliverEvent
  PROVE  WatchReachesServer'
<1> DEFINE n == Len(events)
           h == Head(events)
<1>1. /\ events \in Seq(PodObjects) /\ events # <<>> /\ server' = server
      /\ cache' = [cache EXCEPT ![h.name] = h] /\ events' = Tail(events)
  BY DEF DeliverEvent, PodTypeOK
<1>2. /\ n \in Nat /\ n >= 1 /\ h = events[1] /\ h \in PodObjects
      /\ Len(events') = n - 1 /\ \A i \in 1..(n - 1) : events'[i] = events[i + 1]
  BY <1>1, HeadTailProperties, LenProperties, EmptySeq
<1>3. h.name \in Pods /\ cache'[h.name] = h
      /\ \A p \in Pods \ {h.name} : cache'[p] = cache[p]
  BY <1>1, <1>2 DEF PodTypeOK, PodObjects
<1> HIDE DEF h
<1>4. ASSUME NEW p \in Pods
      PROVE  \/ /\ cache'[p] = server'[p]
                /\ \A i \in 1..Len(events') : events'[i].name # p
             \/ \E i \in 1..Len(events') :
                  /\ events'[i] = server'[p]
                  /\ \A j \in 1..Len(events') : j > i => events'[j].name # p
  <2>0. 1 \in 1..n /\ \A i \in 1..(n - 1) : i + 1 \in 1..n
    BY <1>2
  <2>1. CASE cache[p] = server[p] /\ \A i \in 1..n : events[i].name # p
    <3>1. p # h.name /\ \A i \in 1..(n - 1) : events'[i].name # p
      BY <1>2, <2>0, <2>1
    <3> QED BY <1>1, <1>2, <1>3, <2>1, <3>1
  <2>2. ASSUME NEW i \in 1..n, events[i] = server[p],
               \A j \in 1..n : j > i => events[j].name # p
        PROVE  \/ /\ cache'[p] = server'[p]
                  /\ \A k \in 1..Len(events') : events'[k].name # p
               \/ \E k \in 1..Len(events') :
                    /\ events'[k] = server'[p]
                    /\ \A j \in 1..Len(events') : j > k => events'[j].name # p
    <3>1. server[p].name = p
      BY DEF PodTypeOK
    <3>2. CASE i = 1
      <4>1. h.name = p /\ cache'[p] = server'[p]
        BY <1>1, <1>2, <1>3, <2>2, <3>1, <3>2
      <4>2. \A k \in 1..(n - 1) : events'[k].name # p
        BY <1>2, <2>0, <2>2, <3>2
      <4> QED BY <1>2, <4>1, <4>2
    <3>3. CASE i # 1
      <4>1. i - 1 \in 1..(n - 1) /\ (i - 1) + 1 = i
        BY <1>2, <2>2, <3>3
      <4>2. events'[i - 1] = server'[p]
        BY <1>1, <1>2, <2>2, <4>1
      <4>3. \A j \in 1..(n - 1) : j > i - 1 => events'[j].name # p
        BY <1>2, <2>0, <2>2
      <4> QED BY <1>2, <4>1, <4>2, <4>3
    <3> QED BY <3>2, <3>3
  <2> QED BY <2>1, <2>2 DEF WatchReachesServer
<1> QED
  BY <1>4 DEF WatchReachesServer

\* Every step writes at most one object, or leaves the API server alone.
Watched ==
  \/ UNCHANGED <<server, cache, events>>
  \/ cache' = cache /\ \E q \in Pods : Wrote(q)
  \/ DeliverEvent
  \/ server' = server /\ cache' = server /\ events' = <<>>

LEMMA RequestsWatched ==
  ASSUME TypeOK, NEW copy \in PodObjects, UNCHANGED cache,
         \/ InitBreakerAnnotationAndLabel(copy)
         \/ \E b \in Breakers : UpdateBreakerAnnotationAndLabel(copy, b)
         \/ \E label \in TrafficLabels : SetTrafficLabel(copy, label)
         \/ KillPod(copy)
  PROVE  Watched
<1>1. copy.name \in Pods /\ PodTypeOK
  BY DEF TypeOK, PodObjects
<1>2. CASE UNCHANGED <<server, events>>
  BY <1>2 DEF Watched
<1>3. CASE KillPod(copy) /\ ~UNCHANGED <<server, events>>
  <2>1. Store(Unlabelled(copy.name, server[copy.name].rv, FALSE))
    BY <1>3 DEF KillPod
  <2>2. Unlabelled(copy.name, server[copy.name].rv, FALSE).name = copy.name
    BY DEF Unlabelled
  <2> QED BY <1>1, <2>1, <2>2, StoreWrites DEF Watched
<1>4. CASE ~KillPod(copy) /\ ~UNCHANGED <<server, events>>
  <2>1. ASSUME NEW o, Store(o), o.name = copy.name PROVE Watched
    BY <1>1, <2>1, StoreWrites DEF Watched
  <2>2. CASE InitBreakerAnnotationAndLabel(copy)
    <3> DEFINE o == [copy EXCEPT !.managed = TRUE, !.traffic = "yes"]
    <3>1. Store(o)
      BY <1>4, <2>2 DEF InitBreakerAnnotationAndLabel, Refused
    <3>2. o.name = copy.name
      BY DEF PodObjects
    <3> QED BY <2>1, <3>1, <3>2
  <2>3. ASSUME NEW b \in Breakers, UpdateBreakerAnnotationAndLabel(copy, b)
        PROVE  Watched
    <3> DEFINE o == [copy EXCEPT !.managed = TRUE, !.strategy = b, !.traffic = "no",
                                 !.breakAt = BreakAtStamp(now), !.retry = @ + 1]
    <3>1. Store(o)
      BY <1>4, <2>3 DEF UpdateBreakerAnnotationAndLabel, Refused
    <3>2. o.name = copy.name
      BY DEF PodObjects
    <3> QED BY <2>1, <3>1, <3>2
  <2>4. ASSUME NEW label \in TrafficLabels, SetTrafficLabel(copy, label)
        PROVE  Watched
    <3> DEFINE o == [copy EXCEPT !.traffic = label]
    <3>1. Store(o)
      BY <1>4, <2>4 DEF SetTrafficLabel, Refused
    <3>2. o.name = copy.name
      BY DEF PodObjects
    <3> QED BY <2>1, <3>1, <3>2
  <2> QED BY <1>4, <2>2, <2>3, <2>4
<1> QED
  BY <1>2, <1>3, <1>4

LEMMA SurroundingsWatched ==
  ASSUME TypeOK, PodNext
  PROVE  Watched
<1> USE DEF TypeOK
<1>1. CASE DeliverEvent \/ Relist \/ Tick
  BY <1>1 DEF Relist, Tick, Watched
<1>2. ASSUME NEW p \in Pods, AdoptPod(p) PROVE Watched
  BY <1>2, RequestsWatched DEF AdoptPod, PodTypeOK
<1>3. ASSUME NEW p \in Pods, PodCreated(p) PROVE Watched
  <2>1. PICK o : Store(o) /\ o.name = p
    BY <1>3 DEF PodCreated, Unlabelled
  <2> QED BY <1>3, <2>1, StoreWrites DEF Watched, PodCreated
<1>4. ASSUME NEW p \in Pods, PodLost(p) PROVE Watched
  <2>1. PICK o : Store(o) /\ o.name = p
    BY <1>4 DEF PodLost, Unlabelled
  <2> QED BY <1>4, <2>1, StoreWrites DEF Watched, PodLost
<1>5. ASSUME NEW p \in Pods, ReadinessChanges(p) PROVE Watched
  <2>1. PICK o : Store(o) /\ o.name = p
    BY <1>5 DEF ReadinessChanges, PodTypeOK, PodObjects
  <2> QED BY <1>5, <2>1, StoreWrites DEF Watched, ReadinessChanges
<1> QED
  BY <1>1, <1>2, <1>3, <1>4, <1>5 DEF PodNext

LEMMA StepsWatched ==
  ASSUME TypeOK, [Next]_vars
  PROVE  Watched
<1>1. ASSUME NEW b \in Breakers, BreakerStep(b) PROVE Watched
  <2>1. CASE DetectAnomalies(b) \/ DecideRemoveCount(b)
    BY <2>1 DEF DetectAnomalies, DecideRemoveCount, podVars, Watched
  <2>2. CASE CutPod(b)
    <3>1. PICK copy \in suspects[b] : UpdateBreakerAnnotationAndLabel(copy, b)
      BY <2>2 DEF CutPod
    <3>2. copy \in PodObjects /\ UNCHANGED cache
      BY <2>2 DEF CutPod, TypeOK, BreakerTypeOK
    <3> QED BY <3>1, <3>2, RequestsWatched
  <2> QED BY <1>1, <2>1, <2>2 DEF BreakerStep
<1>2. ASSUME NEW a \in Activators, ActivatorStep(a) PROVE Watched
  <2>1. CASE ListCutPods(a)
    BY <2>1 DEF ListCutPods, podVars, Watched
  <2>2. CASE ApplyActivatorStrategy(a)
    <3>1. PICK copy \in todo[a] :
            Reactivate(a, copy) \/ Pause(a, copy) \/ Kill(a, copy) \/ Wait(a, copy)
      BY <2>2 DEF ApplyActivatorStrategy
    <3>2. copy \in PodObjects /\ UNCHANGED cache
      BY <2>2 DEF ApplyActivatorStrategy, TypeOK, ActivatorTypeOK
    <3>3. CASE Wait(a, copy)
      BY <3>2, <3>3 DEF Wait, Watched
    <3>4. CASE Reactivate(a, copy) \/ Pause(a, copy) \/ Kill(a, copy)
      <4>1. (\E label \in TrafficLabels : SetTrafficLabel(copy, label)) \/ KillPod(copy)
        BY <3>4 DEF Reactivate, Pause, Kill, TrafficLabels
      <4> QED BY <3>2, <4>1, RequestsWatched
    <3> QED BY <3>1, <3>3, <3>4
  <2> QED BY <1>2, <2>1, <2>2 DEF ActivatorStep
<1>3. CASE Restart
  BY <1>3 DEF Restart, Watched
<1>4. CASE UNCHANGED vars
  BY <1>4 DEF vars, podVars, Watched
<1> QED
  BY <1>1, <1>2, <1>3, <1>4, SurroundingsWatched DEF Next, Breaking, Activating, Surroundings

LEMMA WatchNext ==
  ASSUME TypeOK, TypeOK', WatchReachesServer, [Next]_vars
  PROVE  WatchReachesServer'
<1>1. CASE UNCHANGED <<server, cache, events>>
  BY <1>1 DEF WatchReachesServer
<1>2. CASE cache' = cache /\ \E q \in Pods : Wrote(q)
  BY <1>2, StoreReaches DEF TypeOK
<1>3. CASE DeliverEvent
  BY <1>3, DeliverReaches DEF TypeOK
<1>4. CASE server' = server /\ cache' = server /\ events' = <<>>
  <2>1. Len(events') = 0
    BY <1>4
  <2> QED BY <1>4, <2>1 DEF WatchReachesServer
<1> QED
  BY <1>1, <1>2, <1>3, <1>4, StepsWatched DEF Watched

LEMMA InTrafficIs ==
  ASSUME Inv
  PROVE  InTraffic = {p \in Pods : Phase[p] = "in" /\ server[p].ready}
<1>1. \A p \in Pods : server[p].name = p /\ server[p] \in PodObjects
  BY DEF Inv, TypeOK, PodTypeOK
<1>2. ASSUME NEW p \in Pods
      PROVE  p \in InTraffic <=> Phase[p] = "in" /\ server[p].ready
  <2>1. Phase[p] = "in" <=> Managed(server[p]) /\ server[p].traffic = "yes"
    BY <1>1 DEF Phase, PhaseOf, Managed, PodObjects
  <2>2. p \in InTraffic <=> server[p] \in WithTrafficYes({server[p]})
    BY DEF InTraffic
  <2> QED BY <2>1, <2>2 DEF WithTrafficYes, ReadyPods, Managed
<1>3. InTraffic \subseteq Pods
  BY DEF InTraffic
<1> QED
  BY <1>2, <1>3

\* A pod that leaves the ready pods in traffic was cut.
LEMMA LeavingIsCut ==
  ASSUME Inv, Inv', RetriesLeft, LifecycleStep, Steady,
         NEW p \in InTraffic, p \notin InTraffic'
  PROVE  MoveOf(p) /\ cuts'[p] = cuts[p] + 1
<1>1. p \in Pods /\ Phase[p] = "in" /\ server[p].ready /\ server[p].exists
  <2>1. p \in Pods /\ Phase[p] = "in" /\ server[p].ready
    BY InTrafficIs
  <2> QED BY <2>1 DEF Phase, PhaseOf, Managed
<1>2. server'[p].exists /\ server'[p].ready
  <2>1. ~killed[p]
    BY <1>1 DEF Inv, LabelsTellHistory, TellsHistory, TypeOK, PodTypeOK
  <2>2. ~KilledNow(p)
    BY <1>1, KilledWasCut
  <2> QED BY <1>1, <2>1, <2>2 DEF Steady, KilledNow
<1>3. Phase'[p] # "in"
  <2>1. server'[p] \notin WithTrafficYes({server'[p]})
    BY <1>1 DEF InTraffic
  <2>2. PhaseOf(server[p])' # "in"
    BY <1>2, <2>1 DEF PhaseOf, Managed, WithTrafficYes, ReadyPods
  <2> QED BY <1>1, <2>2 DEF Phase
<1>4. Phase'[p] \notin {"free", "killed"}
  <2>1. PhaseOf(server[p])' \notin {"free", "killed"}
    BY <1>2 DEF PhaseOf
  <2> QED BY <1>1, <2>1 DEF Phase
<1>5. PICK q \in Pods : MoveOf(q)
  BY <1>1, <1>3, StepIsMove
<1>6. q = p
  BY <1>1, <1>3, <1>5, OthersStay
<1> QED
  BY <1>1, <1>3, <1>4, <1>5, <1>6, MoveEffect

LEMMA InTrafficIsFinite == IsFiniteSet(InTraffic) /\ Cardinality(InTraffic) \in Nat
BY PodsAssumption, FS_Subset, FS_CardinalityType DEF InTraffic

\* No step takes more than one ready pod out of traffic.
LEMMA OneLeaves ==
  ASSUME Inv, Inv', RetriesLeft, LifecycleStep, Steady
  PROVE  Cardinality(InTraffic') >= Cardinality(InTraffic) - 1
<1>0. /\ IsFiniteSet(InTraffic) /\ Cardinality(InTraffic) \in Nat
      /\ IsFiniteSet(InTraffic') /\ Cardinality(InTraffic') \in Nat
  <2>1. InTraffic' \subseteq Pods
    BY DEF InTraffic
  <2> QED BY <2>1, InTrafficIsFinite, PodsAssumption, FS_Subset, FS_CardinalityType
<1>1. CASE InTraffic \subseteq InTraffic'
  BY <1>0, <1>1, FS_Subset
<1>2. ASSUME NEW p \in InTraffic, p \notin InTraffic'
      PROVE  Cardinality(InTraffic') >= Cardinality(InTraffic) - 1
  <2>1. MoveOf(p) /\ cuts'[p] = cuts[p] + 1 /\ p \in Pods
    BY <1>2, LeavingIsCut DEF InTraffic
  <2>2. ASSUME NEW q \in InTraffic, q \notin InTraffic' PROVE q = p
    <3>1. q \in Pods /\ cuts'[q] = cuts[q] + 1 /\ cuts[q] \in Nat
      BY <2>2, LeavingIsCut DEF InTraffic, Inv, TypeOK, PodTypeOK
    <3> QED BY <2>1, <3>1, OthersStay
  <2>3. InTraffic \ {p} \subseteq InTraffic'
    BY <2>2
  <2>4. IsFiniteSet(InTraffic \ {p}) /\ Cardinality(InTraffic \ {p}) = Cardinality(InTraffic) - 1
    BY <1>0, <1>2, FS_RemoveElement
  <2> QED BY <1>0, <2>3, <2>4, FS_Subset
<1> QED
  BY <1>1, <1>2

\* Only breakers cut: every other step leaves the counts, or starts a new one.
NothingCut == \A p \in Pods : cuts'[p] \in {cuts[p], 0}

LEMMA NoneLeaves ==
  ASSUME Inv, Inv', RetriesLeft, LifecycleStep, Steady, NothingCut
  PROVE  Cardinality(InTraffic') >= Cardinality(InTraffic)
<1>1. InTraffic \subseteq InTraffic'
  <2> SUFFICES ASSUME NEW p \in InTraffic, p \notin InTraffic' PROVE FALSE
    OBVIOUS
  <2>1. cuts'[p] = cuts[p] + 1 /\ p \in Pods /\ cuts[p] \in Nat
    BY LeavingIsCut DEF InTraffic, Inv, TypeOK, PodTypeOK
  <2> QED BY <2>1 DEF NothingCut
<1>2. InTraffic' \subseteq Pods
  BY DEF InTraffic
<1>3. IsFiniteSet(InTraffic') /\ Cardinality(InTraffic') \in Nat
  BY <1>2, PodsAssumption, FS_Subset, FS_CardinalityType
<1> QED
  BY <1>1, <1>3, InTrafficIsFinite, FS_Subset

\* A step of a breaker that is no cut, and every step of anything else.
LEMMA OthersCutNothing ==
  ASSUME Inv, [Next]_vars, \A b \in Breakers : ~CutPod(b)
  PROVE  NothingCut
<1>1. cuts \in [Pods -> Nat]
  BY DEF Inv, TypeOK, PodTypeOK
<1>2. CASE cuts' = cuts
  BY <1>2 DEF NothingCut
<1>3. ASSUME NEW b \in Breakers, BreakerStep(b) PROVE cuts' = cuts
  BY <1>3 DEF BreakerStep, DetectAnomalies, DecideRemoveCount, podVars
<1>4. ASSUME NEW a \in Activators, ActivatorStep(a) PROVE cuts' = cuts
  BY <1>4 DEF ActivatorStep, ListCutPods, podVars, ApplyActivatorStrategy, Reactivate, Pause,
              Kill, Wait, SetTrafficLabel, KillPod, Refused
<1>5. CASE PodNext
  <2>1. ASSUME NEW p \in Pods, PodCreated(p) PROVE NothingCut
    BY <1>1, <2>1 DEF PodCreated, NothingCut
  <2>2. ASSUME NEW p \in Pods, AdoptPod(p) \/ PodLost(p) \/ ReadinessChanges(p)
        PROVE  cuts' = cuts
    BY <2>2 DEF AdoptPod, InitBreakerAnnotationAndLabel, Refused, PodLost, ReadinessChanges
  <2>3. CASE DeliverEvent \/ Relist \/ Tick
    BY <1>2, <2>3 DEF DeliverEvent, Relist, Tick
  <2> QED BY <1>2, <1>5, <2>1, <2>2, <2>3 DEF PodNext
<1>6. CASE Restart \/ UNCHANGED vars
  BY <1>2, <1>6 DEF Restart, vars, podVars
<1> QED
  BY <1>2, <1>3, <1>4, <1>5, <1>6 DEF Next, Breaking, Activating, Surroundings

\* What computeMinAvailablePods demands: the count, and the ratio rounded.
LEMMA NumbersOfPods ==
  ASSUME NEW b \in Breakers, NEW n \in Nat
  PROVE  /\ MinAvailablePods(b, n) \in Nat
         /\ MinAvailablePods(b, n) >= MinCount[b]
         /\ MinAvailablePods(b, n) * 100 > MinRatio[b] * n - 100
<1>1. MinCount[b] \in Nat /\ MinRatio[b] \in Nat
  BY BreakerAssumption
<1> DEFINE m == n * MinRatio[b]
<1>2. m \in Nat /\ m = MinRatio[b] * n
  BY <1>1
<1> HIDE DEF m
<1>3. m \div 100 \in Nat /\ (m \div 100) * 100 > m - 100
  BY <1>2
<1>4. MinAvailablePods(b, n) = MaxOf(m \div 100, MinCount[b])
  BY DEF MinAvailablePods, m
<1> QED
  BY <1>1, <1>2, <1>3, <1>4 DEF MaxOf

\* What an evaluation lists are pods in traffic, once the watch is delivered.
LEMMA ListedAreInTraffic ==
  ASSUME TypeOK, WatchReachesServer, events = <<>>
  PROVE  /\ Cardinality(WithTrafficYes(Cached)) \in Nat
         /\ Cardinality(WithTrafficYes(Cached)) <= Cardinality(InTraffic)
<1> DEFINE object == [p \in InTraffic |-> server[p]]
<1>1. cache = server
  <2>1. Len(events) = 0
    OBVIOUS
  <2>2. \A p \in Pods : cache[p] = server[p]
    BY <2>1 DEF WatchReachesServer
  <2> QED BY <2>2 DEF TypeOK, PodTypeOK
<1>2. ASSUME NEW o \in WithTrafficYes(Cached)
      PROVE  \E p \in InTraffic : object[p] = o
  <2>1. PICK p \in Pods : o = server[p]
    BY <1>1, <1>2 DEF WithTrafficYes, ReadyPods, Cached
  <2>2. p \in InTraffic
    BY <1>2, <2>1 DEF InTraffic, WithTrafficYes, ReadyPods
  <2> QED BY <2>1, <2>2
<1>3. ASSUME NEW p \in InTraffic PROVE server[p] \in WithTrafficYes(Cached)
  BY <1>1, <1>3 DEF InTraffic, Cached, WithTrafficYes, ReadyPods
<1>4. object \in Surjection(InTraffic, WithTrafficYes(Cached))
  BY <1>2, <1>3 DEF Surjection
<1> QED
  BY <1>4, InTrafficIsFinite, FS_Surjection, FS_CardinalityType

LEMMA DecidedLeavesRoom ==
  ASSUME TypeOK, WatchReachesServer, SyncedEvaluation, NEW b \in Breakers,
         DecideRemoveCount(b), budget'[b] # Undecided
  PROVE  /\ budget'[b] > 0
         /\ Cardinality(InTraffic) - budget'[b] >= MinAvailablePods(b, listed'[b])
<1> DEFINE inTraffic == Cardinality(WithTrafficYes(Cached))
           demanded == MinAvailablePods(b, inTraffic)
           found == Cardinality(suspects[b])
           count == RemoveCount(b, inTraffic, found)
<1>1. inTraffic \in Nat /\ inTraffic <= Cardinality(InTraffic) /\ demanded \in Nat
  BY ListedAreInTraffic, NumbersOfPods DEF DecideRemoveCount
<1>2. found \in Nat
  BY FS_CardinalityType DEF TypeOK, BreakerTypeOK
<1>3. Cardinality(InTraffic) \in Nat
  BY InTrafficIsFinite
<1>4. count # 0 /\ budget'[b] = count /\ listed'[b] = inTraffic
  <2>1. budget \in [Breakers -> Nat \cup {Undecided}] /\ listed \in [Breakers -> Nat]
    BY DEF TypeOK, BreakerTypeOK
  <2>2. CASE count = 0
    <3>1. EndEvaluation(b)
      BY <2>2 DEF DecideRemoveCount
    <3> QED BY <2>1, <3>1 DEF EndEvaluation
  <2>3. CASE count # 0
    <3>1. /\ listed' = [listed EXCEPT ![b] = inTraffic]
          /\ budget' = [budget EXCEPT ![b] = count]
      BY <2>3 DEF DecideRemoveCount
    <3> QED BY <2>1, <2>3, <3>1
  <2> QED BY <2>2, <2>3
<1>5. count = MaxOf(0, MinOf(inTraffic - demanded, found))
  BY DEF RemoveCount
<1> HIDE DEF inTraffic, demanded, found, count
<1>6. count \in Nat /\ count > 0 /\ count <= inTraffic - demanded
  BY <1>1, <1>2, <1>4, <1>5 DEF MaxOf, MinOf
<1>7. MinAvailablePods(b, listed'[b]) = demanded
  BY <1>4 DEF demanded
<1>8. Cardinality(InTraffic) - count >= demanded
  BY <1>1, <1>3, <1>6
<1> QED
  BY <1>4, <1>6, <1>7, <1>8

\* A cut of the only breaker uses up one of its budget.
LEMMA CutCounts ==
  ASSUME TypeOK, NEW b \in Breakers, CutPod(b)
  PROVE  /\ budget[b] > 0
         /\ \/ budget'[b] = Undecided
            \/ budget'[b] = budget[b] - 1 /\ budget[b] > 1 /\ listed'[b] = listed[b]
<1>1. budget \in [Breakers -> Nat \cup {Undecided}] /\ budget[b] > 0
  BY DEF TypeOK, BreakerTypeOK, CutPod
<1>2. CASE budget[b] = 1
  BY <1>1, <1>2 DEF CutPod, EndEvaluation
<1>3. CASE budget[b] # 1
  <2>1. budget' = [budget EXCEPT ![b] = @ - 1] /\ listed' = listed
    BY <1>3 DEF CutPod
  <2>2. budget[b] \in Nat
    BY <1>1 DEF Undecided
  <2> QED BY <1>1, <1>3, <2>1, <2>2
<1> QED
  BY <1>1, <1>2, <1>3

\* Every other step leaves what an evaluation decided, ends it or decides it.
LEMMA BudgetSteps ==
  ASSUME TypeOK, [Next]_vars, NEW b \in Breakers, ~CutPod(b),
         \A c \in Breakers : c = b
  PROVE  \/ budget'[b] = budget[b] /\ listed'[b] = listed[b]
         \/ budget'[b] = Undecided
         \/ DecideRemoveCount(b) /\ UNCHANGED server
<1>1. CASE UNCHANGED breakerVars
  BY <1>1 DEF breakerVars
<1>2. ASSUME NEW c \in Breakers, BreakerStep(c)
      PROVE  \/ budget'[b] = budget[b] /\ listed'[b] = listed[b]
             \/ DecideRemoveCount(b) /\ UNCHANGED server
  <2>1. c = b
    OBVIOUS
  <2> QED BY <1>2, <2>1 DEF BreakerStep, DetectAnomalies, DecideRemoveCount, podVars
<1>3. CASE Restart
  BY <1>3 DEF Restart
<1>4. CASE UNCHANGED vars
  BY <1>1, <1>4 DEF vars
<1> QED
  BY <1>1, <1>2, <1>3, <1>4 DEF Next, Breaking, Activating, Surroundings

LEMMA RoomForCutsNext ==
  ASSUME SyncedEvaluation, \A b, c \in Breakers : b = c,
         Inv, Inv', RetriesLeft, LifecycleStep, WatchReachesServer, RoomForCuts,
         [Next]_vars, Steady
  PROVE  /\ RoomForCuts'
         /\ \A b \in Breakers : CutBy(b) =>
              Cardinality(InTraffic') >= MinAvailablePods(b, listed[b])
<1> DEFINE serving == Cardinality(InTraffic)
           left == Cardinality(InTraffic')
<1>1. serving \in Nat /\ left \in Nat
  <2>1. InTraffic' \subseteq Pods
    BY DEF InTraffic
  <2> QED BY <2>1, InTrafficIsFinite, PodsAssumption, FS_Subset, FS_CardinalityType
<1>2. left >= serving - 1
  BY OneLeaves
<1>3. NothingCut => left >= serving
  BY NoneLeaves
<1> HIDE DEF serving, left
<1>4. ASSUME NEW b \in Breakers
      PROVE  /\ budget'[b] # Undecided =>
                  budget'[b] > 0 /\ left - budget'[b] >= MinAvailablePods(b, listed'[b])
             /\ CutBy(b) => left >= MinAvailablePods(b, listed[b])
  <2>1. /\ budget[b] \in Nat \cup {Undecided} /\ budget'[b] \in Nat \cup {Undecided}
        /\ MinAvailablePods(b, listed[b]) \in Nat /\ MinAvailablePods(b, listed'[b]) \in Nat
    BY NumbersOfPods DEF Inv, TypeOK, BreakerTypeOK
  <2>2. budget[b] # Undecided =>
          budget[b] > 0 /\ serving - budget[b] >= MinAvailablePods(b, listed[b])
    BY DEF RoomForCuts, serving
  <2>3. CASE CutPod(b)
    <3>1. /\ budget[b] > 0
          /\ \/ budget'[b] = Undecided
             \/ budget'[b] = budget[b] - 1 /\ budget[b] > 1 /\ listed'[b] = listed[b]
      BY <2>3, CutCounts DEF Inv
    <3>2. serving - budget[b] >= MinAvailablePods(b, listed[b]) /\ budget[b] \in Nat
      BY <2>1, <2>2, <3>1 DEF Undecided
    <3>3. left >= MinAvailablePods(b, listed[b])
      BY <1>1, <1>2, <2>1, <3>1, <3>2
    <3>4. CASE budget'[b] = budget[b] - 1 /\ budget[b] > 1 /\ listed'[b] = listed[b]
      BY <1>1, <1>2, <2>1, <3>2, <3>3, <3>4
    <3> QED BY <3>1, <3>3, <3>4
  <2>4. CASE ~CutPod(b)
    <3>1. left >= serving
      <4>1. \A c \in Breakers : ~CutPod(c)
        BY <2>4
      <4> QED BY <1>3, <4>1, OthersCutNothing
    <3>2. ~CutBy(b)
      BY <2>4 DEF CutBy
    <3>3. CASE budget'[b] = budget[b] /\ listed'[b] = listed[b]
      BY <1>1, <2>1, <2>2, <3>1, <3>2, <3>3 DEF Undecided
    <3>4. CASE DecideRemoveCount(b) /\ UNCHANGED server
      <4>1. budget'[b] # Undecided =>
              budget'[b] > 0 /\ serving - budget'[b] >= MinAvailablePods(b, listed'[b])
        BY <3>4, DecidedLeavesRoom DEF Inv, serving
      <4> QED BY <1>1, <2>1, <3>1, <3>2, <4>1 DEF Undecided
    <3> QED BY <2>4, <3>2, <3>3, <3>4, BudgetSteps DEF Inv
  <2> QED BY <2>3, <2>4
<1> QED
  BY <1>4 DEF RoomForCuts, left

LEMMA FloorInit == Init => WatchReachesServer /\ RoomForCuts
<1> SUFFICES ASSUME Init PROVE WatchReachesServer /\ RoomForCuts
  OBVIOUS
<1>1. events = <<>> /\ cache = server
  BY DEF Init, PodInit
<1>2. Len(events) = 0
  BY <1>1
<1> QED
  BY <1>1, <1>2 DEF Init, BreakerInit, WatchReachesServer, RoomForCuts

\* The evaluation of a service with one strategy, whose watch is delivered
\* between detection and decision, over pods that stay ready: whatever the
\* activators put back or delete meanwhile, every cut leaves what it promised.
THEOREM FloorOfEvaluationCorrect ==
  ASSUME CustomDetector = {}, ~NamesReused, OneLimit, SyncedEvaluation,
         \A b, c \in Breakers : b = c
  PROVE  SteadySpec => FloorOfEvaluation
<1>1. SteadySpec => Spec
  <2>1. [Next /\ Steady]_vars => [Next]_vars
    OBVIOUS
  <2> QED BY <2>1, PTL DEF SteadySpec, Spec
<1>2. Inv /\ [Next]_vars => LifecycleStep
  BY NextImplements
<1>3. Inv /\ Inv' /\ WatchReachesServer /\ [Next]_vars => WatchReachesServer'
  BY WatchNext DEF Inv
<1>4. ASSUME Inv, Inv', RetriesLeft, LifecycleStep, WatchReachesServer, RoomForCuts,
             [Next /\ Steady]_vars
      PROVE  /\ RoomForCuts'
             /\ [\A b \in Breakers : CutBy(b) =>
                   Cardinality(InTraffic') >= MinAvailablePods(b, listed[b])]_vars
  <2>1. CASE Next /\ Steady
    BY <1>4, <2>1, RoomForCutsNext
  <2>2. CASE UNCHANGED vars
    <3>1. InTraffic' = InTraffic /\ UNCHANGED <<budget, listed>>
      BY <2>2 DEF InTraffic, vars, podVars, breakerVars
    <3>2. RoomForCuts'
      BY <1>4, <3>1 DEF RoomForCuts
    <3> QED BY <2>2, <3>2
  <2> QED BY <1>4, <2>1, <2>2
<1>5. ASSUME Inv, Inv',
             [\A b \in Breakers : CutBy(b) =>
               Cardinality(InTraffic') >= MinAvailablePods(b, listed[b])]_vars
      PROVE  [\A b \in Breakers :
                LET left == Cardinality(InTraffic') IN
                CutBy(b) => /\ left >= MinCount[b]
                            /\ left * 100 > MinRatio[b] * listed[b] - 100]_vars
  <2>1. Cardinality(InTraffic') \in Nat
    <3>1. InTraffic' \subseteq Pods
      BY DEF InTraffic
    <3> QED BY <3>1, PodsAssumption, FS_Subset, FS_CardinalityType
  <2>2. ASSUME NEW b \in Breakers, Cardinality(InTraffic') >= MinAvailablePods(b, listed[b])
        PROVE  /\ Cardinality(InTraffic') >= MinCount[b]
               /\ Cardinality(InTraffic') * 100 > MinRatio[b] * listed[b] - 100
    <3>1. listed[b] \in Nat /\ MinCount[b] \in Nat /\ MinRatio[b] \in Nat
      BY <1>5, BreakerAssumption DEF Inv, TypeOK, BreakerTypeOK
    <3>2. PICK k \in Nat : k = MinRatio[b] * listed[b]
      BY <3>1
    <3>3. PICK m \in Nat : m = MinAvailablePods(b, listed[b])
      BY <3>1, NumbersOfPods
    <3>4. m >= MinCount[b] /\ m * 100 > k - 100
      BY <3>1, <3>2, <3>3, NumbersOfPods
    <3> QED BY <2>1, <2>2, <3>1, <3>2, <3>3, <3>4
  <2> QED BY <1>5, <2>2
<1> QED
  BY <1>1, <1>2, <1>3, <1>4, <1>5, FloorInit, InvCorrect, RetriesLeftCorrect, PTL
  DEF SteadySpec, Spec, FloorOfEvaluation
=============================================================================
