----------------------- MODULE ServiceControllerProofs ----------------------
(***************************************************************************)
(* Proofs about ServiceController: its types, and that only deletions of   *)
(* the KubervisorService leave workers behind.                             *)
(***************************************************************************)
EXTENDS ServiceController, TLAPS

\* A constant record, needed wherever an absent KubervisorService appears.
LEMMA AbsentType == Absent \in KubervisorServices
  BY ServiceControllerAssumption
     DEF Absent, KubervisorServices, Conditions, Counts, NoCounts

\* Changing one field of a KubervisorService keeps its type.
LEMMA FieldTypes ==
  ASSUME NEW k \in KubervisorServices
  PROVE  /\ [k EXCEPT !.defaulted = TRUE] \in KubervisorServices
         /\ [k EXCEPT !.started = TRUE] \in KubervisorServices
         /\ \A c \in Conditions : [k EXCEPT !.condition = c] \in KubervisorServices
         /\ \A n \in Counts : [k EXCEPT !.counts = n, !.condition = "running"]
                                \in KubervisorServices
         /\ \A spec \in Specs, d \in BOOLEAN :
              [k EXCEPT !.spec = spec, !.defaulted = d] \in KubervisorServices
         /\ \A spec \in Specs, d \in BOOLEAN :
              [k EXCEPT !.exists = TRUE, !.spec = spec, !.defaulted = d]
                \in KubervisorServices
         /\ [k EXCEPT !.terminating = TRUE] \in KubervisorServices
  BY DEF KubervisorServices, Conditions

\* What a request of a sync does to the types of the stored object.
LEMMA RequestTypes ==
  ASSUME TypeOK, NEW object \in KubervisorServices,
         StatusUpdated(object) \/ Refused
  PROVE  /\ ks' \in KubervisorServices /\ fresh' \in BOOLEAN
         /\ probed' \in BOOLEAN /\ mishaps' \in 0..MaxMishaps
<1>1. CASE StatusUpdated(object)
  BY <1>1 DEF TypeOK, StatusUpdated, Store
<1>2. CASE Refused
  BY <1>2, ServiceControllerAssumption DEF TypeOK, Refused, Mishap
<1> QED
  BY <1>1, <1>2

\* The end of a sync.
LEMMA FinishTypes ==
  ASSUME TypeOK, NEW again \in BOOLEAN, Finish(again)
  PROVE  /\ sync' \in [at : SyncAt, copy : KubervisorServices, current : BOOLEAN]
         /\ delayed' \in BOOLEAN
  BY AbsentType DEF TypeOK, Finish, NoSync, SyncAt

\* What the update of a cached object does to the types.
LEMMA UpdateCachedTypes ==
  ASSUME TypeOK, NEW object \in KubervisorServices, NEW again \in BOOLEAN,
         UpdateCached(object, again)
  PROVE  /\ ks' \in KubervisorServices /\ fresh' \in BOOLEAN
         /\ delayed' \in BOOLEAN /\ mishaps' \in 0..MaxMishaps
         /\ UNCHANGED <<probed, sync, item, age, evaluating, orphans>>
<1>1. /\ ks' \in KubervisorServices /\ fresh' \in BOOLEAN
  BY DEF UpdateCached, Store, TypeOK
<1>2. delayed' \in BOOLEAN
  BY DEF UpdateCached, TypeOK
<1>3. mishaps' \in 0..MaxMishaps
  BY ServiceControllerAssumption DEF UpdateCached, Mishap, TypeOK
<1> QED
  BY <1>1, <1>2, <1>3 DEF UpdateCached, itemVars

\* TakeKey keeps the types.
LEMMA TakeKeyType == TypeOK /\ TakeKey => TypeOK'
<1> SUFFICES ASSUME TypeOK, TakeKey PROVE TypeOK'
  OBVIOUS
<1>0. queued' = FALSE /\ UNCHANGED <<ksCache, svc, svcSeen, podCounts, resync, deletions>>
  BY DEF TakeKey, otherVars
<1>1. CASE ClearItem
  <2>1. orphans' \in Nat
    BY <1>1 DEF ClearItem, TypeOK
  <2>2. age' \in 0..EvaluationPeriod
    BY <1>1, ServiceControllerAssumption DEF ClearItem
  <2> QED
    BY <1>0, <1>1, <2>1, <2>2 DEF ClearItem, TypeOK
<1>2. ASSUME NEW object \in KubervisorServices, NEW again \in BOOLEAN,
             UpdateCached(object, again)
      PROVE  TypeOK'
  BY <1>0, <1>2, UpdateCachedTypes DEF TypeOK
<1>3. CASE FillDefaults
  BY <1>2, <1>3, FieldTypes DEF FillDefaults, TypeOK
<1>4. CASE InitStartTime
  BY <1>2, <1>4, FieldTypes DEF InitStartTime, TypeOK
<1>5. CASE RefuseSpec \/ LeaveTerminating
  <2>1. delayed' \in BOOLEAN
    BY <1>5 DEF RefuseSpec, LeaveTerminating, TypeOK
  <2>2. UNCHANGED <<ks, fresh, probed, sync, item, age, evaluating, orphans, mishaps>>
    BY <1>5 DEF RefuseSpec, LeaveTerminating, itemVars
  <2> QED
    BY <1>0, <2>1, <2>2 DEF TypeOK
<1>6. CASE BeginSync
  BY <1>0, <1>6 DEF BeginSync, TypeOK, itemVars, SyncAt
<1> QED
  BY <1>1, <1>3, <1>4, <1>5, <1>6 DEF TakeKey

\* SyncItem keeps the types.
LEMMA SyncItemType == TypeOK /\ SyncItem => TypeOK'
<1> SUFFICES ASSUME TypeOK, SyncItem PROVE TypeOK'
  OBVIOUS
<1>1. sync.copy \in KubervisorServices
  BY DEF TypeOK
<1>2. \A c \in Conditions : [sync.copy EXCEPT !.condition = c] \in KubervisorServices
  BY <1>1, FieldTypes
<1>3. CASE ServiceMissing
  <2>1. [sync.copy EXCEPT !.condition = "noService"] \in KubervisorServices
    BY <1>2 DEF Conditions
  <2>2. /\ ks' \in KubervisorServices /\ fresh' \in BOOLEAN
        /\ probed' \in BOOLEAN /\ mishaps' \in 0..MaxMishaps
    BY <1>3, <2>1, RequestTypes DEF ServiceMissing
  <2>3. /\ sync' \in [at : SyncAt, copy : KubervisorServices, current : BOOLEAN]
        /\ delayed' \in BOOLEAN
    BY <1>3, FinishTypes DEF ServiceMissing
  <2>4. item' = NoItem /\ age' = 0 /\ evaluating' = evaluating /\ orphans' = orphans
    BY <1>3 DEF ServiceMissing, DeleteItem, Stop
  <2> QED
    BY <2>2, <2>3, <2>4, ServiceControllerAssumption DEF TypeOK, SyncItem, otherVars
<1>4. CASE CreateItem
  <2> DEFINE built == sync.copy.spec \notin Unbuildable
             object == [sync.copy EXCEPT !.condition = IF built THEN "running"
                                                                ELSE "initFailed"]
             made == [spec |-> sync.copy.spec, selector |-> ItemSelector]
  <2>1. object \in KubervisorServices
    BY <1>2 DEF Conditions
  <2>2. /\ ks' \in KubervisorServices /\ fresh' \in BOOLEAN
        /\ probed' \in BOOLEAN /\ mishaps' \in 0..MaxMishaps
    BY <1>4, <2>1, RequestTypes DEF CreateItem
  <2>3. made \in Items
    BY <1>1 DEF KubervisorServices, Items, ItemSelector
  <2>4. /\ age' = 0 /\ evaluating' = evaluating /\ orphans' = orphans
        /\ \/ item' = made /\ Continue(object) /\ UNCHANGED delayed
           \/ item' = NoItem /\ Finish(TRUE)
    BY <1>4 DEF CreateItem, Stop
  <2>5. CASE item' = made /\ Continue(object) /\ UNCHANGED delayed
    <3>1. (fresh' /\ sync.current) \in BOOLEAN
      OBVIOUS
    <3>2. sync' \in [at : SyncAt, copy : KubervisorServices, current : BOOLEAN]
      BY <2>1, <2>5, <3>1 DEF Continue, SyncAt
    <3>3. UNCHANGED <<ksCache, svc, svcSeen, podCounts, queued, resync, deletions>>
      BY DEF SyncItem, otherVars
    <3>4. age' \in 0..EvaluationPeriod
      BY <2>4, ServiceControllerAssumption
    <3>5. item' \in Items \cup {NoItem} /\ UNCHANGED <<delayed, evaluating, orphans>>
      BY <2>3, <2>4, <2>5
    <3> QED
      BY <2>2, <3>2, <3>3, <3>4, <3>5 DEF TypeOK
  <2>6. CASE item' = NoItem /\ Finish(TRUE)
    <3>1. /\ sync' \in [at : SyncAt, copy : KubervisorServices, current : BOOLEAN]
          /\ delayed' \in BOOLEAN
      BY <2>6, FinishTypes
    <3>2. UNCHANGED <<ksCache, svc, svcSeen, podCounts, queued, resync, deletions>>
      BY DEF SyncItem, otherVars
    <3>3. age' \in 0..EvaluationPeriod /\ UNCHANGED <<evaluating, orphans>>
      BY <2>4, ServiceControllerAssumption
    <3> QED
      BY <2>2, <2>6, <3>1, <3>2, <3>3 DEF TypeOK
  <2> QED
    BY <2>4, <2>5, <2>6
<1>5. CASE KeepItem
  BY <1>5 DEF KeepItem, TypeOK, SyncItem, otherVars, itemVars, SyncAt
<1> QED
  BY <1>3, <1>4, <1>5 DEF SyncItem

\* SyncPods keeps the types.
LEMMA SyncPodsType == TypeOK /\ SyncPods => TypeOK'
<1> SUFFICES ASSUME TypeOK, SyncPods PROVE TypeOK'
  OBVIOUS
<1> DEFINE object == [sync.copy EXCEPT !.counts = podCounts, !.condition = "running"]
<1>1. object \in KubervisorServices
  BY FieldTypes DEF TypeOK
<1>2. /\ ks' \in KubervisorServices /\ fresh' \in BOOLEAN
      /\ probed' \in BOOLEAN /\ mishaps' \in 0..MaxMishaps
  <2>1. CASE UNCHANGED <<ks, fresh, probed>> /\ (Mishap \/ UNCHANGED mishaps)
    BY <2>1, ServiceControllerAssumption DEF TypeOK, Mishap
  <2>2. CASE StatusUpdated(object) \/ Refused
    BY <1>1, <2>2, RequestTypes
  <2> QED
    BY <2>1, <2>2 DEF SyncPods
<1>3. /\ sync' \in [at : SyncAt, copy : KubervisorServices, current : BOOLEAN]
      /\ delayed' \in BOOLEAN
  BY FinishTypes DEF SyncPods
<1> QED
  BY <1>2, <1>3 DEF TypeOK, SyncPods, otherVars, itemVars

\* The steps of the surroundings keep the types.
LEMMA OthersType ==
  TypeOK /\ (Readd \/ Informing \/ DeliverPod \/ Working \/ Second \/ UserStep \/ Restart)
    => TypeOK'
<1> SUFFICES ASSUME TypeOK,
                    Readd \/ Informing \/ DeliverPod \/ Working \/ Second
                      \/ UserStep \/ Restart
             PROVE  TypeOK'
  OBVIOUS
<1>1. CASE Readd
  BY <1>1 DEF Readd, TypeOK, serverVars, otherVars, itemVars
<1>2. CASE Informing
  <2>1. CASE DeliverKubervisorService
    <3>1. queued' \in BOOLEAN
      BY <2>1 DEF DeliverKubervisorService
    <3> QED
      BY <2>1, <3>1 DEF DeliverKubervisorService, TypeOK, otherVars, itemVars
  <2>2. CASE DeliverService
    <3>1. queued' \in BOOLEAN
      BY <2>2 DEF DeliverService
    <3> QED
      BY <2>2, <3>1 DEF DeliverService, TypeOK, serverVars, itemVars
  <2>3. CASE Resync
    <3>1. queued' \in BOOLEAN
      BY <2>3 DEF Resync
    <3>2. resync' \in 0..ResyncPeriod
      BY <2>3, ServiceControllerAssumption DEF Resync
    <3>3. UNCHANGED <<ks, ksCache, fresh, probed, svc, svcSeen, podCounts, delayed,
                      sync, item, age, evaluating, orphans, mishaps, deletions>>
      BY <2>3 DEF Resync, serverVars, otherVars, itemVars
    <3> QED
      BY <3>1, <3>2, <3>3 DEF TypeOK
  <2> QED
    BY <1>2, <2>1, <2>2, <2>3 DEF Informing
<1>3. CASE DeliverPod
  <2>1. queued' \in BOOLEAN
    BY <1>3 DEF DeliverPod
  <2>2. mishaps' \in 0..MaxMishaps
    BY <1>3, ServiceControllerAssumption DEF DeliverPod, Mishap, TypeOK
  <2>3. podCounts' \in Counts
        /\ UNCHANGED <<ks, ksCache, fresh, probed, svc, svcSeen, delayed, sync, item,
                       age, evaluating, orphans, resync, deletions>>
    BY <1>3 DEF DeliverPod, serverVars, itemVars
  <2> QED
    BY <2>1, <2>2, <2>3 DEF TypeOK
<1>4. CASE Working
  <2>1. /\ age' \in 0..EvaluationPeriod /\ evaluating' \in BOOLEAN
        /\ UNCHANGED <<ks, ksCache, fresh, probed, svc, svcSeen, podCounts, queued,
                       delayed, sync, item, orphans, resync, mishaps, deletions>>
    <3>1. CASE Evaluate
      BY <3>1, ServiceControllerAssumption
         DEF Evaluate, serverVars, otherVars, keyVars
    <3>2. CASE EvaluationEnds
      BY <3>2 DEF EvaluationEnds, TypeOK, serverVars, otherVars, keyVars
    <3> QED
      BY <1>4, <3>1, <3>2 DEF Working
  <2> QED
    BY <2>1 DEF TypeOK
<1>5. CASE Second
  <2>1. age' \in 0..EvaluationPeriod
    BY <1>5, ServiceControllerAssumption DEF Second, Due, TypeOK
  <2>2. resync' \in 0..ResyncPeriod
    BY <1>5, ServiceControllerAssumption DEF Second, TypeOK
  <2>3. probed' = FALSE
        /\ UNCHANGED <<ks, ksCache, fresh, svc, svcSeen, podCounts, queued, delayed,
                       sync, item, evaluating, orphans, mishaps, deletions>>
    BY <1>5 DEF Second, otherVars, keyVars
  <2> QED
    BY <2>1, <2>2, <2>3 DEF TypeOK
<1>6. CASE UserStep
  <2>1. mishaps' \in 0..MaxMishaps
    <3>1. Mishap
      BY <1>6 DEF UserStep, UserWrites
    <3> QED
      BY <3>1, ServiceControllerAssumption DEF Mishap, TypeOK
  <2>0. deletions' \in Nat
    <3>1. deletions' = deletions \/ deletions' = deletions + 1
      BY <1>6, Zenon DEF UserStep
    <3> QED
      BY <3>1 DEF TypeOK
  <2>2. CASE \E object \in KubervisorServices : UserWrites(object)
    <3>1. PICK object \in KubervisorServices : UserWrites(object)
      BY <2>2
    <3>2. sync' \in [at : SyncAt, copy : KubervisorServices, current : BOOLEAN]
      BY <3>1 DEF UserWrites, TypeOK
    <3>3. /\ ks' \in KubervisorServices /\ fresh' = FALSE
          /\ UNCHANGED <<ksCache, probed, svc, svcSeen, podCounts, queued, delayed,
                         item, age, evaluating, orphans, resync>>
      BY <3>1 DEF UserWrites, Store, otherVars, keyVars, itemVars
    <3> QED
      BY <2>0, <2>1, <3>2, <3>3 DEF TypeOK
  <2>3. CASE /\ svc' = ~svc
             /\ UNCHANGED <<serverVars, svcSeen, podCounts, keyVars, sync, itemVars,
                            resync>>
    <3>1. svc' \in BOOLEAN
      BY <2>3
    <3>2. UNCHANGED <<ks, ksCache, fresh, probed, svcSeen, podCounts, queued, delayed,
                      sync, item, age, evaluating, orphans, resync>>
      BY <2>3 DEF serverVars, keyVars, itemVars
    <3> QED
      BY <2>0, <2>1, <3>1, <3>2 DEF TypeOK
  <2>4. \A spec \in Specs, d \in BOOLEAN :
          /\ Absent \in KubervisorServices
          /\ [Absent EXCEPT !.exists = TRUE, !.spec = spec, !.defaulted = d]
               \in KubervisorServices
          /\ [ks EXCEPT !.spec = spec, !.defaulted = d] \in KubervisorServices
          /\ [ks EXCEPT !.terminating = TRUE] \in KubervisorServices
    BY AbsentType, FieldTypes DEF TypeOK
  <2>5. ks.spec \in Specs
    BY DEF TypeOK, KubervisorServices
  <2>6. \/ \E object \in KubervisorServices : UserWrites(object)
        \/ /\ svc' = ~svc
           /\ UNCHANGED <<serverVars, svcSeen, podCounts, keyVars, sync, itemVars,
                          resync>>
    BY <1>6, <2>4, <2>5 DEF UserStep
  <2> QED
    BY <2>2, <2>3, <2>6
<1>7. CASE Restart
  <2>1. mishaps' \in 0..MaxMishaps
    BY <1>7, ServiceControllerAssumption DEF Restart, Mishap, TypeOK
  <2>2. ksCache' \in KubervisorServices
    BY <1>7, AbsentType DEF Restart, TypeOK, KubervisorServices
  <2>3. sync' \in [at : SyncAt, copy : KubervisorServices, current : BOOLEAN]
    BY <1>7, AbsentType DEF Restart, NoSync, SyncAt
  <2>4. age' \in 0..EvaluationPeriod /\ resync' \in 0..ResyncPeriod
    BY <1>7, ServiceControllerAssumption DEF Restart
  <2>5. /\ fresh' = FALSE /\ svcSeen' = FALSE /\ queued' = FALSE /\ delayed' = FALSE
        /\ item' = NoItem /\ evaluating' = FALSE /\ orphans' = 0
        /\ deletions' = 0 /\ UNCHANGED <<ks, probed, svc, podCounts>>
    BY <1>7 DEF Restart
  <2> QED
    BY <2>1, <2>2, <2>3, <2>4, <2>5 DEF TypeOK
<1> QED
  BY <1>1, <1>2, <1>3, <1>4, <1>5, <1>6, <1>7

\* Every variable of the controller keeps its type.
THEOREM ControllerTypes == Spec => []TypeOK
<1>1. Init => TypeOK
  <2> SUFFICES ASSUME Init PROVE TypeOK
    OBVIOUS
  <2>1. ks \in KubervisorServices
    BY AbsentType DEF Init
  <2>2. sync \in [at : SyncAt, copy : KubervisorServices, current : BOOLEAN]
    BY AbsentType DEF Init, NoSync, SyncAt
  <2>3. age \in 0..EvaluationPeriod /\ resync \in 0..ResyncPeriod
        /\ mishaps \in 0..MaxMishaps
    BY ServiceControllerAssumption DEF Init
  <2>4. svcSeen \in BOOLEAN /\ svc \in BOOLEAN
    BY DEF Init
  <2>5. ksCache = ks /\ fresh = TRUE /\ podCounts \in Counts /\ queued = FALSE
        /\ delayed = FALSE /\ item = NoItem /\ evaluating = FALSE /\ orphans = 0
        /\ probed = FALSE /\ deletions = 0
    BY DEF Init, Counts
  <2> QED
    BY <2>1, <2>2, <2>3, <2>4, <2>5 DEF TypeOK
<1>2. TypeOK /\ UNCHANGED vars => TypeOK'
  BY DEF TypeOK, vars, serverVars, otherVars, keyVars, itemVars
<1>3. TypeOK /\ [Next]_vars => TypeOK'
  BY <1>2, TakeKeyType, SyncItemType, SyncPodsType, OthersType DEF Next, Syncing
<1> QED
  BY <1>1, <1>3, PTL DEF Spec

\* The controller holds something of a KubervisorService: an item, a sync under
\* way, or a cached copy.
Known == item # NoItem \/ sync.at # "idle" \/ ksCache.exists

\* What it holds may still turn into workers that clearItem drops: the object is
\* gone, or the cache says so.
Unsettled == Known /\ ~(ks.exists /\ ksCache.exists)

\* What makes OrphansComeFromDeletions inductive: a deletion pays for the item
\* it may cost when it happens, not when clearItem finds that item.
OrphansPaid ==
  /\ sync.at # "idle" => sync.copy.exists
  /\ orphans + (IF Unsettled THEN 1 ELSE 0) <= deletions

\* A step that drops no item costs nothing unless it unsettles one.
LEMMA NothingDropped ==
  ASSUME TypeOK, OrphansPaid, UNCHANGED <<orphans, deletions>>,
         Unsettled' => Unsettled,
         sync'.at # "idle" => sync'.copy.exists
  PROVE  OrphansPaid'
  BY DEF TypeOK, OrphansPaid

\* Writing an object that exists settles, if it does anything.
LEMMA ExistenceSettles ==
  ASSUME ks' = ks \/ ks'.exists, UNCHANGED ksCache, Known' => Known
  PROVE  Unsettled' => Unsettled
  BY DEF Unsettled

\* A request of a sync stores an object that exists, or nothing.
LEMMA RequestStores ==
  ASSUME NEW object, object.exists, StatusUpdated(object) \/ Refused
  PROVE  ks' = ks \/ ks'.exists
  BY DEF StatusUpdated, Refused, Store

\* TakeKey: clearItem drops an item that was unsettled before.
LEMMA TakeKeyPaid == TypeOK /\ OrphansPaid /\ TakeKey => OrphansPaid'
<1> SUFFICES ASSUME TypeOK, OrphansPaid, TakeKey PROVE OrphansPaid'
  OBVIOUS
<1>0. UNCHANGED <<ksCache, deletions>> /\ sync.at = "idle" /\ ksCache \in KubervisorServices
  BY DEF TakeKey, TypeOK
<1>1. CASE ClearItem
  <2>1. sync' = sync /\ ~Known' /\ ~Unsettled'
    BY <1>0, <1>1 DEF ClearItem, Known, Unsettled
  <2>2. CASE item = NoItem
    BY <1>0, <1>1, <2>1, <2>2 DEF ClearItem, OrphansPaid, TypeOK
  <2>3. CASE item # NoItem
    <3>1. Unsettled
      BY <1>1, <2>3 DEF ClearItem, Known, Unsettled
    <3> QED
      BY <1>0, <1>1, <2>1, <2>3, <3>1 DEF ClearItem, OrphansPaid, TypeOK
  <2> QED
    BY <2>2, <2>3
<1>2. ASSUME NEW object, NEW again, object.exists, ksCache.exists,
             UpdateCached(object, again)
      PROVE  OrphansPaid'
  <2>1. (ks' = ks \/ ks'.exists) /\ UNCHANGED <<sync, item, orphans>>
    BY <1>2 DEF UpdateCached, Store, itemVars
  <2>2. Unsettled' => Unsettled
    BY <1>0, <2>1, ExistenceSettles DEF Known
  <2> QED
    BY <1>0, <2>1, <2>2, NothingDropped DEF OrphansPaid
<1>3. CASE FillDefaults
  <2>1. [ksCache EXCEPT !.defaulted = TRUE].exists = ksCache.exists
    BY <1>0 DEF KubervisorServices
  <2> QED
    BY <1>2, <1>3, <2>1 DEF FillDefaults
<1>4. CASE InitStartTime
  <2>1. [ksCache EXCEPT !.started = TRUE].exists = ksCache.exists
    BY <1>0 DEF KubervisorServices
  <2> QED
    BY <1>2, <1>4, <2>1 DEF InitStartTime, Accepted
<1>5. CASE RefuseSpec \/ LeaveTerminating
  <2>1. UNCHANGED <<ks, sync, item, orphans>>
    BY <1>5 DEF RefuseSpec, LeaveTerminating, itemVars
  <2> QED
    BY <1>0, <2>1 DEF OrphansPaid, Unsettled, Known
<1>6. CASE BeginSync
  <2>1. ksCache.exists /\ UNCHANGED <<ks, orphans>> /\ sync'.copy = ksCache
    BY <1>6 DEF BeginSync, Accepted, itemVars
  <2>2. Unsettled' => Unsettled
    BY <1>0, <2>1 DEF Unsettled, Known
  <2> QED
    BY <1>0, <2>1, <2>2, NothingDropped
<1> QED
  BY <1>1, <1>3, <1>4, <1>5, <1>6 DEF TakeKey

\* SyncItem stops the item it deletes.
LEMMA SyncItemPaid == TypeOK /\ OrphansPaid /\ SyncItem => OrphansPaid'
<1> SUFFICES ASSUME TypeOK, OrphansPaid, SyncItem PROVE OrphansPaid'
  OBVIOUS
<1>0. /\ UNCHANGED <<ksCache, deletions>> /\ sync.at # "idle" /\ Known
      /\ sync.copy.exists /\ sync.copy \in KubervisorServices
  BY DEF SyncItem, Known, OrphansPaid, TypeOK
<1>1. \A c : [sync.copy EXCEPT !.condition = c].exists
  BY <1>0 DEF KubervisorServices
<1>2. UNCHANGED orphans
  BY DEF SyncItem, ServiceMissing, CreateItem, KeepItem, DeleteItem, Stop, itemVars
<1>3. ks' = ks \/ ks'.exists
  <2>1. CASE ServiceMissing
    BY <1>1, <2>1, RequestStores DEF ServiceMissing
  <2>2. CASE CreateItem
    BY <1>1, <2>2, RequestStores DEF CreateItem
  <2>3. CASE KeepItem
    BY <2>3 DEF KeepItem
  <2> QED
    BY <2>1, <2>2, <2>3 DEF SyncItem
<1>4. sync'.at # "idle" => sync'.copy.exists
  <2>1. ASSUME NEW again, Finish(again) PROVE sync'.at = "idle"
    BY <2>1 DEF Finish, NoSync
  <2>2. ASSUME NEW object, object.exists, Continue(object) PROVE sync'.copy.exists
    <3> DEFINE current == fresh' /\ sync.current
    <3>1. sync' = [at |-> "pods", copy |-> object, current |-> current]
      BY <2>2 DEF Continue
    <3> HIDE DEF current
    <3> QED
      BY <2>2, <3>1
  <2>3. CASE ServiceMissing
    BY <2>1, <2>3 DEF ServiceMissing
  <2>4. CASE CreateItem
    BY <1>1, <2>1, <2>2, <2>4 DEF CreateItem
  <2>5. CASE KeepItem
    BY <1>0, <2>5 DEF KeepItem, TypeOK
  <2> QED
    BY <2>3, <2>4, <2>5 DEF SyncItem
<1>5. Unsettled' => Unsettled
  BY <1>0, <1>3, ExistenceSettles
<1> QED
  BY <1>0, <1>2, <1>4, <1>5, NothingDropped

\* SyncPods only writes the status.
LEMMA SyncPodsPaid == TypeOK /\ OrphansPaid /\ SyncPods => OrphansPaid'
<1> SUFFICES ASSUME TypeOK, OrphansPaid, SyncPods PROVE OrphansPaid'
  OBVIOUS
<1> DEFINE object == [sync.copy EXCEPT !.counts = podCounts, !.condition = "running"]
<1>0. /\ UNCHANGED <<ksCache, deletions, item, orphans>> /\ sync.at # "idle" /\ Known
      /\ sync.copy.exists /\ sync.copy \in KubervisorServices
  BY DEF SyncPods, Known, OrphansPaid, TypeOK, itemVars
<1>1. object.exists
  BY <1>0 DEF KubervisorServices
<1>2. UNCHANGED ks \/ StatusUpdated(object) \/ Refused
  BY DEF SyncPods
<1>3. Finish(TRUE) \/ Finish(FALSE)
  BY DEF SyncPods
<1> HIDE DEF object
<1>4. ks' = ks \/ ks'.exists
  BY <1>1, <1>2, RequestStores
<1>5. sync'.at = "idle"
  BY <1>3 DEF Finish, NoSync
<1>6. Unsettled' => Unsettled
  BY <1>0, <1>4, ExistenceSettles
<1> QED
  BY <1>0, <1>5, <1>6, NothingDropped

\* A user who deletes the KubervisorService pays; who writes it settles.
LEMMA UserStepPaid == TypeOK /\ OrphansPaid /\ UserStep => OrphansPaid'
<1> SUFFICES ASSUME TypeOK, OrphansPaid, UserStep PROVE OrphansPaid'
  OBVIOUS
<1>1. CASE UNCHANGED <<serverVars, sync, itemVars, deletions>>
  BY <1>1 DEF OrphansPaid, Unsettled, Known, serverVars, itemVars
<1>2. ASSUME NEW object, UserWrites(object)
      PROVE  /\ ks' = object /\ UNCHANGED <<ksCache, item, orphans>>
             /\ sync'.at = sync.at /\ sync'.copy = sync.copy /\ (Known' <=> Known)
  BY <1>2 DEF UserWrites, Store, itemVars, TypeOK, Known
<1>3. ASSUME NEW object, UserWrites(object), object.exists, UNCHANGED deletions
      PROVE  OrphansPaid'
  <2>1. Unsettled' => Unsettled
    BY <1>2, <1>3, ExistenceSettles
  <2> QED
    BY <1>2, <1>3, <2>1, NothingDropped DEF OrphansPaid
<1>4. ASSUME NEW object, UserWrites(object), deletions' = deletions + 1
      PROVE  OrphansPaid'
  BY <1>2, <1>4 DEF OrphansPaid, TypeOK
<1>5. \A spec \in Specs, d \in BOOLEAN :
        /\ [Absent EXCEPT !.exists = TRUE, !.spec = spec, !.defaulted = d].exists
        /\ ks.exists => /\ [ks EXCEPT !.spec = spec, !.defaulted = d].exists
                        /\ [ks EXCEPT !.terminating = TRUE].exists
  BY DEF Absent, TypeOK, KubervisorServices
<1>6. ks.spec \in Specs
  BY DEF TypeOK, KubervisorServices
<1>7. \/ \E object : UserWrites(object) /\ object.exists /\ UNCHANGED deletions
      \/ \E object : UserWrites(object) /\ deletions' = deletions + 1
      \/ UNCHANGED <<serverVars, sync, itemVars, deletions>>
  BY <1>5, <1>6 DEF UserStep
<1> QED
  BY <1>1, <1>3, <1>4, <1>7

\* The other steps of the surroundings.
LEMMA OthersPaid ==
  ASSUME TypeOK, OrphansPaid,
         Readd \/ Informing \/ DeliverPod \/ Working \/ Second \/ Restart
  PROVE  OrphansPaid'
<1>1. ASSUME UNCHANGED <<ks, ksCache, sync, item, orphans, deletions>> PROVE OrphansPaid'
  BY <1>1 DEF OrphansPaid, Unsettled, Known
<1>2. CASE Readd \/ DeliverService \/ Resync \/ DeliverPod \/ Working \/ Second
  BY <1>1, <1>2 DEF Readd, DeliverService, Resync, DeliverPod, Working, Evaluate,
                    EvaluationEnds, Second, serverVars, itemVars
<1>3. CASE DeliverKubervisorService
  <2>1. ksCache' = ks /\ UNCHANGED <<ks, sync, item, orphans, deletions>>
    BY <1>3 DEF DeliverKubervisorService, itemVars
  <2>2. Unsettled' => Unsettled
    BY <2>1 DEF Unsettled, Known
  <2> QED
    BY <2>1, <2>2, NothingDropped DEF OrphansPaid
<1>4. CASE Restart
  <2>1. /\ item' = NoItem /\ orphans' = 0 /\ deletions' = 0
        /\ ~ksCache'.exists /\ sync'.at = "idle"
    BY <1>4 DEF Restart, NoSync, Absent, TypeOK
  <2> QED
    BY <2>1 DEF OrphansPaid, Unsettled, Known
<1> QED
  BY <1>2, <1>3, <1>4 DEF Informing

\* syncKubervisorService never leaves the workers of an item behind, whatever
\* users change in the KubervisorService and the Service, whichever requests
\* fail, and however late the caches are: every set of workers that belongs to
\* no item is due to a deletion of the KubervisorService of its own (clearItem).
THEOREM OrphansComeFromDeletionsCorrect == Spec => []OrphansComeFromDeletions
<1>1. Init => OrphansPaid
  BY DEF Init, NoSync, OrphansPaid, Unsettled, Known, Absent
<1>2. TypeOK /\ OrphansPaid /\ [Next]_vars => OrphansPaid'
  <2>1. CASE UNCHANGED vars
    BY <2>1 DEF OrphansPaid, Unsettled, Known, vars, serverVars, itemVars
  <2> QED
    BY <2>1, TakeKeyPaid, SyncItemPaid, SyncPodsPaid, UserStepPaid, OthersPaid
       DEF Next, Syncing
<1>3. TypeOK /\ OrphansPaid => OrphansComeFromDeletions
  BY DEF TypeOK, OrphansPaid, OrphansComeFromDeletions
<1> QED
  BY <1>1, <1>2, <1>3, ControllerTypes, PTL DEF Spec
=============================================================================
