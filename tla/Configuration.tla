--------------------------- MODULE Configuration ----------------------------
(***************************************************************************)
(* What a KubervisorService says and what becomes of it: users write a     *)
(* specification, the sync fills in defaults, refuses it or builds the     *)
(* item from it, the conditions of the status tell which, and the breakers *)
(* of the item evaluate what their detectors are told to look for.  How    *)
(* requests fail and caches lag is left to ServiceController: here a sync  *)
(* is one step, and what matters is the content of the specification.      *)
(***************************************************************************)
EXTENDS Detection, FiniteSets

CONSTANTS
  UserNames,   \* the names users give the KubervisorService
  LabelValues, \* those that are label values: no more than 63 characters
  UserSpecs,   \* the specifications users write
  Parsable,    \* the addresses http.NewRequest can be given (promClient.NewClient)
  UserSamples, \* the samples Prometheus answers with
  MaxSamples,  \* bound on the samples of an answer
  MaxEdits     \* bound on what users and the process itself do

ASSUME ConfigurationAssumption ==
  /\ UserNames # {}
  /\ UserSpecs # {} /\ UserSpecs \subseteq KubervisorServiceSpecs
  /\ UserSamples \subseteq Samples
  /\ MaxSamples \in Nat /\ MaxEdits \in Nat

VARIABLES
  kubervisorName, \* of the KubervisorService, the same from its creation on
  stored,      \* the specification at the API server
  pending,     \* its key is in the work queue, or will be
  svc,         \* whether the Service exists
  conditions,  \* of the status
  item,        \* the item in the store
  evaluation,  \* the evaluation of the last step, if it was one
  edits        \* what happened so far without the controller

vars == <<kubervisorName, stored, pending, svc, conditions, item, evaluation, edits>>

-----------------------------------------------------------------------------
(* Status conditions (controller/utils.go).                                *)

ConditionTypes == {"InitFailed", "Running", "ServiceNotAvailable"}

\* Mutant: the other conditions keep their status.
OnlyThisCondition(list, type) ==
  IF \E i \in DOMAIN list : list[i].type = type
    THEN [i \in DOMAIN list |-> IF list[i].type = type
                                  THEN [list[i] EXCEPT !.status = TRUE] ELSE list[i]]
    ELSE Append(list, [type |-> type, status |-> TRUE])

\* UpdateStatusCondition with the new and the updated condition TRUE.
UpdateStatusCondition(list, type) ==
  LET others == [i \in DOMAIN list |-> [list[i] EXCEPT !.status = list[i].type = type]] IN
  IF \E i \in DOMAIN list : list[i].type = type
    THEN others
    ELSE Append(others, [type |-> type, status |-> TRUE])

Holds(type) == \E i \in DOMAIN conditions : conditions[i] = [type |-> type, status |-> TRUE]

-----------------------------------------------------------------------------
(* The item (controller/item, and the factories it calls).                 *)

\* anomalydetector.New: the detector that is configured first, its parameters
\* validated once more, and its client.
Buildable(b) ==
  \/ /\ b.discrete # Nil
     /\ ValidateDiscreteValueOutOfList(b.discrete)
     /\ b.discrete.prometheusService \in Parsable
  \/ /\ b.discrete = Nil /\ b.continuous # Nil
     /\ ValidateContinuousValueDeviation(b.continuous)
     /\ b.continuous.prometheusService \in Parsable
  \/ b.discrete = Nil /\ b.continuous = Nil /\ b.customService # Nil

\* SelectorWithBreakerName: the pods of a KubervisorService carry its name.
Selectable == kubervisorName \in LabelValues

\* item.New gets that far: a selector for its pods, then one breaker after the
\* other.
Constructible(spec) ==
  Selectable /\ \A i \in DOMAIN spec.breakers : Buildable(spec.breakers[i])

NoItem == [breakers |-> <<>>]

\* What item.New returns when it returns no error: every breaker keeps its
\* strategy, with the activator of its own.
NewItem(spec) == [defaultActivator |-> spec.defaultActivator, breakers |-> spec.breakers]

\* Mutant: the number of breakers is not compared.
SomeBreakerDiffers(spec) ==
  \/ item.defaultActivator # spec.defaultActivator
  \/ \E i \in DOMAIN spec.breakers :
       ~\E j \in DOMAIN item.breakers : item.breakers[j] = spec.breakers[i]

\* getBreakerByStrategyName: the first of that name.
BreakerNamed(name) ==
  LET named == {j \in DOMAIN item.breakers : item.breakers[j].name = name} IN
  IF named = {} THEN Nil
    ELSE item.breakers[CHOOSE j \in named : \A k \in named : j <= k]

\* CompareWithSpec, without the selector.
Differs(spec) ==
  \/ item.defaultActivator # spec.defaultActivator
  \/ Len(item.breakers) # Len(spec.breakers)
  \/ \E i \in DOMAIN spec.breakers :
       BreakerNamed(spec.breakers[i].name) # spec.breakers[i]

\* What an activator dereferences without looking: nothing while its period is
\* not set, then what its mode asks for (applyActivatorStrategy).
ActivatorComplete(a) ==
  a.period # Nil =>
    /\ a.mode \in {"retryAndKill", "retryAndPause"} => a.maxRetryCount # Nil
    /\ a.mode = "retryAndPause" => a.maxPauseCount # Nil

\* What a breaker and its detector dereference.
BreakerComplete(b) ==
  /\ b.evaluationPeriod # Nil
  /\ b.discrete # Nil => IsDiscreteValueOutOfListDefaulted(b.discrete)
  /\ b.continuous # Nil => IsContinuousValueDeviationDefaulted(b.continuous)

-----------------------------------------------------------------------------
(* The sync of the key.                                                    *)

NoEvaluation == [outcome |-> "none"]

Init ==
  /\ kubervisorName \in UserNames
  /\ stored \in UserSpecs
  /\ pending = TRUE
  /\ svc \in BOOLEAN
  /\ conditions = <<>>
  /\ item = NoItem
  /\ evaluation = NoEvaluation
  /\ edits = 0

\* An update that changes nothing is no event: the key does not come back.
FillDefaults ==
  /\ ~IsKubervisorServiceDefaulted(stored)
  /\ stored' = DefaultKubervisorService(stored)
  /\ pending' = (stored' # stored)
  /\ UNCHANGED <<conditions, item>>

Accepted == IsKubervisorServiceDefaulted(stored) /\ ValidateKubervisorServiceSpec(stored)

\* The error puts the key back: it is tried again and again.
Refuse ==
  /\ IsKubervisorServiceDefaulted(stored) /\ ~ValidateKubervisorServiceSpec(stored)
  /\ UNCHANGED <<stored, pending, conditions, item>>

ServiceMissing ==
  /\ Accepted /\ ~svc
  /\ item' = NoItem
  /\ conditions' = UpdateStatusCondition(conditions, "ServiceNotAvailable")
  /\ pending' = FALSE
  /\ UNCHANGED stored

\* createItem: the previous item is gone already when the new one fails.
BuildFails ==
  /\ Accepted /\ svc
  /\ item # NoItem => Differs(stored)
  /\ ~Constructible(stored)
  /\ item' = NoItem
  /\ conditions' = UpdateStatusCondition(conditions, "InitFailed")
  /\ UNCHANGED <<stored, pending>>

Build ==
  /\ Accepted /\ svc
  /\ item # NoItem => Differs(stored)
  /\ Constructible(stored)
  /\ item' = NewItem(stored)
  /\ conditions' = UpdateStatusCondition(conditions, "Running")
  /\ pending' = FALSE
  /\ UNCHANGED stored

\* The counts of pods may have changed, or the item is made anew because of its
\* selector (ServiceController): then the condition is written too.
Keep ==
  /\ Accepted /\ svc
  /\ item # NoItem /\ ~Differs(stored)
  /\ conditions' \in {conditions, UpdateStatusCondition(conditions, "Running")}
  /\ pending' = FALSE
  /\ UNCHANGED <<stored, item>>

Sync ==
  /\ pending
  /\ FillDefaults \/ Refuse \/ ServiceMissing \/ BuildFails \/ Build \/ Keep
  /\ evaluation' = NoEvaluation
  /\ UNCHANGED <<kubervisorName, svc, edits>>

-----------------------------------------------------------------------------
(* Evaluations, and what happens around the controller.                    *)

Answers == UNION {[1..n -> UserSamples] : n \in 0..MaxSamples}

\* A breaker of the item looks for pods out of bounds.  What it reads of the item
\* no sync changes, so that one evaluation after the syncs are done is enough.
Evaluate ==
  /\ ~pending /\ evaluation = NoEvaluation
  /\ \E i \in DOMAIN item.breakers, listing \in Listings, samples \in Optional(Answers) :
       LET b == item.breakers[i]
           result == PodsOutOfBounds(b, listing, samples) IN
       evaluation' = [outcome |-> result.outcome, pods |-> result.pods,
                      strategy |-> b, listing |-> listing, samples |-> samples]
  /\ UNCHANGED <<kubervisorName, stored, pending, svc, conditions, item, edits>>

Edit ==
  /\ edits < MaxEdits
  /\ edits' = edits + 1
  /\ pending' = TRUE
  /\ evaluation' = NoEvaluation

UserWrites ==
  /\ Edit
  /\ stored' \in UserSpecs \ {stored}
  /\ UNCHANGED <<kubervisorName, svc, conditions, item>>

UserTogglesService ==
  /\ Edit
  /\ svc' = ~svc
  /\ UNCHANGED <<kubervisorName, stored, conditions, item>>

Restart ==
  /\ Edit
  /\ item' = NoItem
  /\ UNCHANGED <<kubervisorName, stored, svc, conditions>>

\* A resync of the informers puts the key back.
Resync ==
  /\ ~pending
  /\ pending' = TRUE
  /\ evaluation' = NoEvaluation
  /\ UNCHANGED <<kubervisorName, stored, svc, conditions, item, edits>>

Next == Sync \/ Evaluate \/ UserWrites \/ UserTogglesService \/ Restart \/ Resync

Spec == Init /\ [][Next]_vars

-----------------------------------------------------------------------------
(* Properties.                                                             *)

\* Types of the variables: defaulting yields a specification of the API's type,
\* and the default activator of an item is complete (DefaultKubervisorService).
TypeOK ==
  /\ kubervisorName \in UserNames
  /\ stored \in KubervisorServiceSpecs
  /\ pending \in BOOLEAN /\ svc \in BOOLEAN
  /\ conditions \in Seq([type : ConditionTypes, status : BOOLEAN])
  /\ item = NoItem \/ item \in [defaultActivator : CompleteActivatorStrategies,
                                breakers : Seq(BreakerStrategies)]
  /\ edits \in 0..MaxEdits

\* What is set stays as it is.
Keeps(old, new, fields) == \A f \in fields : old[f] \in {Nil, new[f]}

KeepsChoices(old, new) ==
  /\ Keeps(old.defaultActivator, new.defaultActivator, DOMAIN old.defaultActivator)
  /\ \A i \in DOMAIN old.breakers : LET b == old.breakers[i] c == new.breakers[i] IN
       /\ Keeps(b, c, DOMAIN b \ {"discrete", "continuous"})
       /\ b.discrete # Nil => Keeps(b.discrete, c.discrete, DOMAIN b.discrete)
       /\ b.continuous # Nil => Keeps(b.continuous, c.continuous, DOMAIN b.continuous)

\* Defaulting is done in one step, so that the sync does not default for ever,
\* and it leaves every choice of the user alone; only a strategy with an
\* incomplete activator of its own is never done (DefaultKubervisorService).
DefaultingSettles ==
  [][FillDefaults =>
       /\ IsKubervisorServiceDefaulted(stored') \/ OwnActivatorForgotten(stored)
       /\ KeepsChoices(stored, stored')]_vars

\* Workers dereference only what is set, whatever users wrote and in whatever
\* order; but nobody completes the activator of a continuous strategy.
WorkersComplete ==
  item # NoItem =>
    \A i \in DOMAIN item.breakers : LET b == item.breakers[i] IN
      /\ BreakerComplete(b)
      /\ b.activator # Nil /\ b.continuous = Nil => ActivatorComplete(b.activator)

\* A defaulted specification that passes the validation fails to build only for
\* what the validation does not look at: a KubervisorService name that is no
\* label value, or an address of Prometheus (item.New).
ValidatedBuilds ==
  [][BuildFails =>
       \/ kubervisorName \notin LabelValues
       \/ \E i \in DOMAIN stored.breakers : LET b == stored.breakers[i] IN
            \/ b.discrete # Nil /\ b.discrete.prometheusService \notin Parsable
            \/ b.continuous # Nil /\ b.continuous.prometheusService \notin Parsable]_vars

\* Never two conditions are true (the question of controller/utils.go:94), and
\* once the syncs are done Running is true exactly if there are workers.
StatusTellsItem ==
  /\ \A type, other \in ConditionTypes : Holds(type) /\ Holds(other) => type = other
  /\ ~pending /\ ~OwnActivatorForgotten(stored) => (Holds("Running") <=> item # NoItem)

\* Once the syncs are done the strategies of the workers are those of the
\* accepted specification, no more and no fewer (CompareWithSpec).
ItemMatchesSpec ==
  ~pending /\ Accepted /\ item # NoItem => ToSet(item.breakers) = ToSet(stored.breakers)

\* The evaluation of the last step had a discrete strategy, and what the samples
\* of a pod say before they are truncated.
EvaluatedDiscrete == evaluation # NoEvaluation /\ evaluation.strategy.discrete # Nil

Amount(d, p, bad) ==
  FoldLeft(LAMBDA sum, s : IF s.pod = p /\ (bad => ~ValueOk(d, s.value))
                             THEN sum + s.amount ELSE sum,
           0, evaluation.samples)

SampleCount(p) == Cardinality({i \in DOMAIN evaluation.samples : evaluation.samples[i].pod = p})

\* A pod is cut for its bad share only: it is listed, in traffic, and its share
\* exceeds the tolerance even if every sample lost a unit to the truncation.
SparesHealthyPods ==
  EvaluatedDiscrete =>
    LET d == evaluation.strategy.discrete IN
    \A p \in evaluation.pods :
      /\ evaluation.listing[p] = "yes"
      /\ Amount(d, p, TRUE) * 100 >
           d.tolerancePercent * (Amount(d, p, FALSE) - 10 * SampleCount(p))

\* An evaluation that succeeds finds every listed pod in traffic whose samples
\* are whole, reach the minimum, and are bad beyond the next whole percentage.
FindsOffenders ==
  EvaluatedDiscrete /\ evaluation.outcome = "done" =>
    LET d == evaluation.strategy.discrete IN
    \A p \in Pods :
      /\ evaluation.listing[p] = "yes"
      /\ \A i \in DOMAIN evaluation.samples : evaluation.samples[i].amount % 10 = 0
      /\ Amount(d, p, FALSE) >= 10 * d.minimumActivityCount
      /\ Amount(d, p, TRUE) * 100 >= (d.tolerancePercent + 1) * Amount(d, p, FALSE)
      /\ Amount(d, p, TRUE) > 0
      => p \in evaluation.pods

\* A continuous value that deviates as much downwards as upwards is found alike,
\* by the last sample of the pod (types.go, MaxDeviationPercent).
FindsDeviations ==
  evaluation # NoEvaluation /\ evaluation.strategy.continuous # Nil
    /\ evaluation.outcome = "done" =>
    LET c == evaluation.strategy.continuous
        samples == evaluation.samples IN
    \A i \in DOMAIN samples :
      /\ \A j \in DOMAIN samples : j > i => samples[j].pod # samples[i].pod
      /\ evaluation.listing[samples[i].pod] = "yes"
      => (samples[i].pod \in evaluation.pods <=>
           samples[i].amount \notin 100 - c.maxDeviationPercent .. 100 + c.maxDeviationPercent)
=============================================================================
