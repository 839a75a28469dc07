-------------------------- MODULE ServiceController -------------------------
(***************************************************************************)
(* The controller and one KubervisorService (pkg/controller): the informer *)
(* callbacks that put its key in the work queue, the sync of that key, and *)
(* the item whose workers the sync starts and stops.  The queue hands a    *)
(* key to one sync worker at a time, so that one sync is under way at most.*)
(* Of the workers only their tickers matter here: an item that is replaced *)
(* starts its evaluation period anew.  One tick of the clock is a second,  *)
(* the precision of the times in a status.                                 *)
(***************************************************************************)
EXTENDS Integers, FiniteSets

CONSTANTS
  Specs,             \* the specifications users write
  Invalid,           \* those ValidateKubervisorServiceSpec refuses
  Undefaultable,     \* those IsKubervisorServiceDefaulted never accepts
  Unbuildable,       \* those item.New fails on
  ServiceSelector,   \* the label keys the Service selects its pods by
  EvaluationPeriod,  \* of the breaker, in seconds
  ResyncPeriod,      \* of the informers, in seconds
  MaxMishaps         \* bound on changes by users, failed requests, restarts

ASSUME ServiceControllerAssumption ==
  /\ Specs # {} /\ Invalid \subseteq Specs
  /\ Undefaultable \subseteq Specs /\ Unbuildable \subseteq Specs
  /\ EvaluationPeriod \in Nat \ {0} /\ ResyncPeriod \in Nat \ {0}
  /\ MaxMishaps \in Nat

VARIABLES
  ks,          \* the KubervisorService at the API server
  ksCache,     \* the copy breakerLister returns
  fresh,       \* whether that copy is the stored one
  svc,         \* whether the Service exists
  svcSeen,     \* whether serviceLister returns it
  podCounts,   \* what GetStatus counts
  queued,      \* the key is in the queue
  delayed,     \* the key waits in AddRateLimited
  sync,        \* the sync under way: how far it is, its copy of the
               \* KubervisorService, and whether that copy is the stored one
  item,        \* the item in the store, a record of its configuration
  age,         \* seconds since the tickers of its workers started or fired
  evaluating,  \* whether its breaker is evaluating
  orphans,     \* number of sets of workers that belong to no stored item
  resync,      \* seconds since the last resync of the informers
  probed,      \* whether LastProbeTime of the status is this second
  mishaps,
  \* A variable the code does not have; the properties refer to it.
  deletions    \* how often the KubervisorService went since the process started

keyVars == <<queued, delayed>>
itemVars == <<item, age, evaluating, orphans>>
serverVars == <<ks, ksCache, fresh, probed>>
otherVars == <<svc, svcSeen, podCounts>>
vars == <<serverVars, otherVars, keyVars, sync, itemVars, resync, mishaps, deletions>>

Conditions == {"none", "running", "noService", "initFailed"}
Counts == {0, 1}
NoCounts == -1

KubervisorServices ==
  [exists : BOOLEAN, terminating : BOOLEAN, spec : Specs, defaulted : BOOLEAN,
   started : BOOLEAN, condition : Conditions, counts : Counts \cup {NoCounts}]

Items == [spec : Specs, selector : SUBSET ServiceSelector]
NoItem == [spec |-> "none"]

\* The item's selector: the requirements of the Service are added to a
\* selector whose Add returns the result, which is dropped.
ItemSelector == {}

SyncAt == {"idle", "item", "pods"}

\* The specification of an object that does not exist means nothing.
Absent ==
  [exists |-> FALSE, terminating |-> FALSE,
   spec |-> CHOOSE spec \in Specs : TRUE, defaulted |-> FALSE,
   started |-> FALSE, condition |-> "none", counts |-> NoCounts]

NoSync == [at |-> "idle", copy |-> Absent, current |-> FALSE]

Init ==
  /\ ks = Absent
  /\ ksCache = ks
  /\ fresh = TRUE
  /\ svc \in BOOLEAN
  /\ svcSeen = svc
  /\ podCounts = 0
  /\ queued = FALSE /\ delayed = FALSE
  /\ sync = NoSync
  /\ item = NoItem
  /\ age = 0 /\ evaluating = FALSE /\ orphans = 0
  /\ resync = 0
  /\ probed = FALSE
  /\ mishaps = 0 /\ deletions = 0

\* Types of the variables: what the lister, the sync and the item store hold
\* keeps its form, and a ticker that is due fires before its clock runs on (Run).
TypeOK ==
  /\ ks \in KubervisorServices /\ ksCache \in KubervisorServices
  /\ sync \in [at : SyncAt, copy : KubervisorServices, current : BOOLEAN]
  /\ item \in Items \cup {NoItem}
  /\ fresh \in BOOLEAN /\ svc \in BOOLEAN /\ svcSeen \in BOOLEAN
  /\ queued \in BOOLEAN /\ delayed \in BOOLEAN
  /\ evaluating \in BOOLEAN /\ probed \in BOOLEAN
  /\ podCounts \in Counts
  /\ age \in 0..EvaluationPeriod /\ resync \in 0..ResyncPeriod
  /\ orphans \in Nat /\ mishaps \in 0..MaxMishaps /\ deletions \in Nat

Mishap == mishaps < MaxMishaps /\ mishaps' = mishaps + 1

-----------------------------------------------------------------------------
(* Requests of a sync.                                                     *)

\* The stored KubervisorService changes: every copy of it is outdated.
Store(object) ==
  /\ ks' = object
  /\ fresh' = FALSE

\* updateHandler: refused when the copy the sync holds is not the stored one.
Refused ==
  /\ (~sync.current /\ mishaps' = mishaps) \/ Mishap
  /\ UNCHANGED <<ks, fresh, probed>>

\* updateStatusCondition with one of the UpdateStatusCondition functions.  The
\* object does not change when only the time would, and that to the same second.
\* The object the server returns is dropped, so that the sync holds an old copy
\* after a change.
StatusUpdated(object) ==
  /\ sync.current
  /\ UNCHANGED mishaps
  /\ IF object = ks /\ probed
       THEN UNCHANGED <<ks, fresh, probed>>
       ELSE Store(object) /\ probed' = TRUE

\* Mutant: the key is put back whatever the result.
FinishAgain(again) ==
  /\ sync' = NoSync
  /\ delayed' = TRUE

\* processNextItem: an error, or needRequeue, puts the key back after a while.
Finish(again) ==
  /\ sync' = NoSync
  /\ delayed' = (delayed \/ again)

Continue(object) ==
  sync' = [at |-> "pods", copy |-> object, current |-> fresh' /\ sync.current]

-----------------------------------------------------------------------------
(* Sync.                                                                   *)

\* clearItem deletes the item of a deleted KubervisorService from the store,
\* and leaves its workers to themselves.
ClearItem ==
  /\ ~ksCache.exists
  /\ item' = NoItem
  /\ orphans' = IF item = NoItem THEN orphans ELSE orphans + 1
  /\ age' = 0 /\ evaluating' = FALSE
  /\ UNCHANGED <<ks, fresh, probed, sync, delayed, mishaps>>

\* updateHandler with a changed copy of the lister's object.  An update that
\* changes nothing is no event.
UpdateCached(object, again) ==
  /\ \/ /\ fresh
        /\ IF object = ks THEN UNCHANGED <<ks, fresh>> ELSE Store(object)
        /\ delayed' = (delayed \/ again)
        /\ UNCHANGED mishaps
     \/ /\ (~fresh /\ UNCHANGED mishaps) \/ Mishap
        /\ delayed' = TRUE
        /\ UNCHANGED <<ks, fresh>>
  /\ UNCHANGED <<probed, sync, itemVars>>

\* IsKubervisorServiceDefaulted.  Of some specifications it asks for more than
\* DefaultKubervisorService fills in (Configuration).
IsDefaulted(object) == object.defaulted /\ object.spec \notin Undefaultable

FillDefaults ==
  /\ ksCache.exists /\ ~IsDefaulted(ksCache)
  /\ UpdateCached([ksCache EXCEPT !.defaulted = TRUE], FALSE)

RefuseSpec ==
  /\ ksCache.exists /\ IsDefaulted(ksCache) /\ ksCache.spec \in Invalid
  /\ delayed' = TRUE
  /\ UNCHANGED <<ks, fresh, probed, sync, itemVars, mishaps>>

Accepted == ksCache.exists /\ IsDefaulted(ksCache) /\ ksCache.spec \notin Invalid

\* An object with finalizers stays until they are removed: it is left alone,
\* and so is its item.
LeaveTerminating ==
  /\ Accepted /\ ksCache.terminating
  /\ UNCHANGED <<ks, fresh, probed, sync, delayed, itemVars, mishaps>>

InitStartTime ==
  /\ Accepted /\ ~ksCache.terminating /\ ~ksCache.started
  /\ UpdateCached([ksCache EXCEPT !.started = TRUE], TRUE)

BeginSync ==
  /\ Accepted /\ ~ksCache.terminating /\ ksCache.started
  /\ sync' = [at |-> "item", copy |-> ksCache, current |-> fresh]
  /\ UNCHANGED <<ks, fresh, probed, delayed, itemVars, mishaps>>

\* processNextItem and sync up to the copy of the lister's object, and the
\* beginning of syncKubervisorService.
TakeKey ==
  /\ queued /\ sync.at = "idle"
  /\ queued' = FALSE
  /\ \/ ClearItem \/ FillDefaults \/ RefuseSpec
     \/ LeaveTerminating \/ InitStartTime \/ BeginSync
  /\ UNCHANGED <<ksCache, otherVars, resync, deletions>>

\* Mutant: an item once created is kept.
NeverUpdated(spec) == FALSE

\* IsSpecUpdated, CompareWithSpec: the selector of the item against the one of
\* the Service.
IsSpecUpdated(spec) == item.spec # spec \/ item.selector # ServiceSelector

\* Mutant: the workers are not stopped.
StopForgotten == orphans' = IF item = NoItem THEN orphans ELSE orphans + 1

\* Stop cancels the context of the workers, if there are any, and waits for
\* those that are busy.
Stop == (item # NoItem => ~evaluating) /\ UNCHANGED orphans

\* Mutant: deleteItem is forgotten.
KeepStoppedItem == Stop /\ UNCHANGED <<item, age, evaluating>>

DeleteItem ==
  /\ Stop
  /\ item' = NoItem
  /\ age' = 0
  /\ UNCHANGED evaluating

\* The Service is gone: the item too, and the status says so.
ServiceMissing ==
  LET object == [sync.copy EXCEPT !.condition = "noService"] IN
  /\ ~svcSeen
  /\ DeleteItem
  /\ (StatusUpdated(object) /\ Finish(FALSE)) \/ (Refused /\ Finish(TRUE))

\* createItem.  When it fails the previous item has been deleted already.
CreateItem ==
  LET built == sync.copy.spec \notin Unbuildable
      object == [sync.copy EXCEPT !.condition = IF built THEN "running"
                                                        ELSE "initFailed"] IN
  /\ svcSeen
  /\ item # NoItem => IsSpecUpdated(sync.copy.spec)
  /\ Stop
  /\ age' = 0
  /\ UNCHANGED evaluating
  /\ \/ /\ StatusUpdated(object)
        /\ IF built
             THEN /\ item' = [spec |-> sync.copy.spec, selector |-> ItemSelector]
                  /\ Continue(object)
                  /\ UNCHANGED delayed
             ELSE item' = NoItem /\ Finish(TRUE)
     \/ /\ Refused
        /\ item' = NoItem
        /\ Finish(TRUE)

KeepItem ==
  /\ svcSeen
  /\ item # NoItem /\ ~IsSpecUpdated(sync.copy.spec)
  /\ sync' = [sync EXCEPT !.at = "pods"]
  /\ UNCHANGED <<ks, fresh, probed, delayed, itemVars, mishaps>>

SyncItem ==
  /\ sync.at = "item"
  /\ ServiceMissing \/ CreateItem \/ KeepItem
  /\ UNCHANGED <<ksCache, otherVars, queued, resync, deletions>>

\* podsCleaner and initializePods, whose requests may fail, and the update of
\* the counts when they changed.
SyncPods ==
  LET object == [sync.copy EXCEPT !.counts = podCounts, !.condition = "running"] IN
  /\ sync.at = "pods"
  /\ \/ /\ Mishap
        /\ UNCHANGED <<ks, fresh, probed>>
        /\ Finish(TRUE)
     \/ /\ sync.copy.counts = podCounts
        /\ UNCHANGED <<ks, fresh, probed, mishaps>>
        /\ Finish(FALSE)
     \/ /\ sync.copy.counts # podCounts
        /\ (StatusUpdated(object) /\ Finish(FALSE)) \/ (Refused /\ Finish(TRUE))
  /\ UNCHANGED <<ksCache, otherVars, queued, itemVars, resync, deletions>>

\* The rate limiter lets the key back into the queue.
Readd ==
  /\ delayed
  /\ delayed' = FALSE
  /\ queued' = TRUE
  /\ UNCHANGED <<serverVars, otherVars, sync, itemVars, resync, mishaps, deletions>>

-----------------------------------------------------------------------------
(* Informer callbacks.                                                     *)

\* onAddKubervisorService ignores an object that has a status already;
\* onUpdateKubervisorService and onDeleteKubervisorService do not look.
DeliverKubervisorService ==
  /\ ~fresh
  /\ ksCache' = ks
  /\ fresh' = TRUE
  /\ queued' = (queued \/ ksCache.exists \/ (ks.exists /\ ~ks.started))
  /\ UNCHANGED <<ks, probed, otherVars, delayed, sync, itemVars, resync, mishaps, deletions>>

\* serviceAction
DeliverService ==
  /\ svcSeen # svc
  /\ svcSeen' = svc
  /\ queued' = (queued \/ ksCache.exists)
  /\ UNCHANGED <<serverVars, svc, podCounts, delayed, sync, itemVars, resync, mishaps, deletions>>

\* podAction: a pod came, went or changed, and with it perhaps the counts.
DeliverPod ==
  /\ Mishap
  /\ podCounts' \in Counts
  /\ queued' = (queued \/ ksCache.exists)
  /\ UNCHANGED <<serverVars, svc, svcSeen, delayed, sync, itemVars, resync, deletions>>

\* The informers hand out every cached object as an update.
Resync ==
  /\ resync = ResyncPeriod
  /\ resync' = 0
  /\ queued' = (queued \/ ksCache.exists)
  /\ UNCHANGED <<serverVars, otherVars, delayed, sync, itemVars, mishaps, deletions>>

-----------------------------------------------------------------------------
(* The workers of the item, and time.                                      *)

\* Mutant: a second late.
DueLate == item # NoItem /\ age > EvaluationPeriod

Due == item # NoItem /\ age = EvaluationPeriod

\* The ticker of the breaker fires.
Evaluate ==
  /\ Due /\ ~evaluating
  /\ evaluating' = TRUE
  /\ age' = 0
  /\ UNCHANGED <<serverVars, otherVars, keyVars, sync, item, orphans, resync, mishaps, deletions>>

EvaluationEnds ==
  /\ evaluating
  /\ evaluating' = FALSE
  /\ UNCHANGED <<serverVars, otherVars, keyVars, sync, item, age, orphans, resync, mishaps, deletions>>

\* Nothing is left to do in this second; the rate limiter may hold the key longer.
Quiet ==
  /\ ~queued /\ sync.at = "idle"
  /\ fresh /\ svcSeen = svc
  /\ ~Due /\ ~evaluating

Second ==
  /\ resync < ResyncPeriod
  /\ resync' = resync + 1
  /\ age' = IF item # NoItem /\ ~Due THEN age + 1 ELSE age
  /\ probed' = FALSE
  /\ UNCHANGED <<ks, ksCache, fresh, otherVars, keyVars, sync, item, evaluating,
                 orphans, mishaps, deletions>>

-----------------------------------------------------------------------------
(* Users, and the process itself.                                          *)

UserWrites(object) ==
  /\ Mishap
  /\ Store(object)
  /\ sync' = [sync EXCEPT !.current = FALSE]
  /\ UNCHANGED <<ksCache, probed, otherVars, keyVars, itemVars, resync>>

\* A change may leave out what the controller had defaulted.  An object with
\* finalizers is deleted in two steps.
UserStep ==
  \/ \E spec \in Specs, defaulted \in BOOLEAN :
       /\ UNCHANGED deletions
       /\ \/ /\ ~ks.exists
             /\ UserWrites([Absent EXCEPT !.exists = TRUE, !.spec = spec,
                                        !.defaulted = defaulted])
          \/ /\ ks.exists
             /\ UserWrites([ks EXCEPT !.spec = spec, !.defaulted = defaulted])
  \/ /\ ks.exists /\ ~ks.terminating
     /\ UserWrites([ks EXCEPT !.terminating = TRUE])
     /\ UNCHANGED deletions
  \/ /\ ks.exists
     /\ UserWrites(Absent)
     /\ deletions' = deletions + 1
  \/ /\ Mishap
     /\ svc' = ~svc
     /\ UNCHANGED <<serverVars, svcSeen, podCounts, keyVars, sync, itemVars, resync,
                    deletions>>

\* run waits for the cache of pods only.  The other two fill later.
Restart ==
  /\ Mishap
  /\ ksCache' = Absent
  /\ fresh' = FALSE
  /\ svcSeen' = FALSE
  /\ queued' = FALSE /\ delayed' = FALSE
  /\ sync' = NoSync
  /\ item' = NoItem /\ age' = 0 /\ evaluating' = FALSE /\ orphans' = 0
  /\ resync' = 0 /\ deletions' = 0
  /\ UNCHANGED <<ks, probed, svc, podCounts>>

Syncing == TakeKey \/ SyncItem \/ SyncPods

Informing == DeliverKubervisorService \/ DeliverService \/ Resync

Working == Evaluate \/ EvaluationEnds

Next == Syncing \/ Readd \/ Informing \/ DeliverPod \/ Working \/ Second
        \/ UserStep \/ Restart

Spec == Init /\ [][Next]_vars

\* The sync worker, the rate limiter, the informers, the workers of the item
\* and the clock do not stop; users and failures do not have to do anything.
\* Stop has cancelled the context when it waits: a worker that finds its ticker
\* and the context ready picks one at random, so it does not pick the ticker
\* for ever.
Fairness ==
  /\ SF_vars(Syncing) /\ WF_vars(Readd)
  /\ WF_vars(DeliverKubervisorService) /\ WF_vars(DeliverService)
  /\ WF_vars(Resync) /\ WF_vars(Second)
  /\ WF_vars(Evaluate) /\ WF_vars(EvaluationEnds)

FairSpec == Spec /\ Fairness

-----------------------------------------------------------------------------
(* Properties.                                                             *)

\* A specification the controller acts on.
Followed ==
  /\ ks.exists /\ ~ks.terminating
  /\ ks.spec \notin Undefaultable \cup Invalid

\* A KubervisorService that asks for workers and can have them.
Served == Followed /\ svc /\ ks.spec \notin Unbuildable

\* Workers that belong to no item come from deletions of the KubervisorService
\* only, one set from each: no change, failed or refused request, retry or
\* missing Service leaves workers behind (Stop before every other deletion of
\* an item in syncKubervisorService; not in clearItem).
OrphansComeFromDeletions == orphans <= deletions

\* All sub processes of a KubervisorService are those of its item
\* (pkg/controller/item/types.go:73): never two sets of them act on its pods.
OneSetOfWorkers == orphans + (IF item = NoItem THEN 0 ELSE 1) <= 1

\* The configuration the workers of the item run with is the one in the
\* KubervisorService: again and again after the last change, and no other from
\* some time on.  There are no other workers, unless the KubervisorService was
\* deleted since the process started (IsSpecUpdated, Stop).
WorkersFollowSpec ==
  <>[]Served => /\ []<>(item # NoItem)
                /\ <>[]/\ item # NoItem => item.spec = ks.spec
                       /\ deletions = 0 => orphans = 0

\* Without a Service the item goes away (syncKubervisorService).
NoServiceNoItem == <>[](Followed /\ ~svc) => <>[](item = NoItem)

\* The breaker of a KubervisorService that is served evaluates for ever, if from
\* some time on what is due in a second is done in that second: requests are fast
\* compared with the periods.
EvaluationsGoOn == <>[]Served /\ <>[][Second => Quiet]_vars => []<>evaluating
=============================================================================
