---------------------------- MODULE StrategySpec ----------------------------
(***************************************************************************)
(* The specification of a KubervisorService (pkg/api/kubervisor/v1alpha1): *)
(* its fields, the defaults the controller fills in, the test whether they *)
(* are filled in, and the validation.  An optional field that is not set   *)
(* is Nil, and so is an empty string.  Periods are in milliseconds.        *)
(***************************************************************************)
EXTENDS Integers, Sequences

CONSTANTS
  Nil,        \* a field that is not set
  Names,      \* names of Services and of strategies
  DNSNames,   \* those NameIsDNS1035Label accepts
  Texts,      \* addresses, queries and label names
  Values      \* values of a metric

ASSUME NamesAssumption == DNSNames \subseteq Names

Optional(set) == set \cup {Nil}

\* The mode of an activator is any string: "other" stands for all those that
\* applyActivatorStrategy has no case for.
Modes == {"periodic", "retryAndKill", "retryAndPause", "other"}

ActivatorStrategies ==
  [mode : Optional(Modes), period : Optional(Nat),
   maxRetryCount : Optional(Nat), maxPauseCount : Optional(Nat)]

DiscreteStrategies ==
  [prometheusService : Optional(Texts), promQL : Optional(Texts),
   key : Optional(Texts), podNameKey : Optional(Texts),
   goodValues : SUBSET Values, badValues : SUBSET Values,
   tolerancePercent : Optional(Nat), minimumActivityCount : Optional(Nat)]

ContinuousStrategies ==
  [prometheusService : Optional(Texts), promQL : Optional(Texts),
   podNameKey : Optional(Texts), maxDeviationPercent : Optional(Nat)]

CompleteActivatorStrategies ==
  [mode : Modes, period : Nat, maxRetryCount : Nat, maxPauseCount : Nat]

BreakerStrategies ==
  [name : Optional(Names), evaluationPeriod : Optional(Nat),
   minPodsAvailableCount : Optional(Nat), minPodsAvailableRatio : Optional(Nat),
   discrete : Optional(DiscreteStrategies),
   continuous : Optional(ContinuousStrategies),
   customService : Optional(Texts), activator : Optional(ActivatorStrategies)]

KubervisorServiceSpecs ==
  [service : Optional(Names), breakers : Seq(BreakerStrategies),
   defaultActivator : ActivatorStrategies]

\* What is set is not Nil.
ASSUME NilAssumption ==
  /\ Nil \notin Names /\ Nil \notin Texts /\ Nil \notin Nat /\ Nil \notin Modes
  /\ Nil \notin ActivatorStrategies /\ Nil \notin BreakerStrategies
  /\ Nil \notin DiscreteStrategies /\ Nil \notin ContinuousStrategies

-----------------------------------------------------------------------------
(* default.go                                                              *)

\* Mutant: the default wins over what the user chose.
AlwaysDefault(value, default) == default

OrDefault(value, default) == IF value = Nil THEN default ELSE value

DefaultActivatorStrategy(a) ==
  [mode |-> OrDefault(a.mode, "periodic"),
   period |-> OrDefault(a.period, 10000),
   maxRetryCount |-> OrDefault(a.maxRetryCount, 3),
   maxPauseCount |-> OrDefault(a.maxPauseCount, 1)]

DefaultDiscreteValueOutOfList(d) ==
  [d EXCEPT !.minimumActivityCount = OrDefault(@, 2),
            !.tolerancePercent = OrDefault(@, 50)]

DefaultContinuousValueDeviation(c) ==
  [c EXCEPT !.maxDeviationPercent = OrDefault(@, 75)]

\* minPodsAvailableCount is filled in even when a ratio is given, and the
\* activator of the strategy is left as it is.
DefaultBreakerStrategy(b) ==
  [b EXCEPT !.evaluationPeriod = OrDefault(@, 5000),
            !.minPodsAvailableCount = OrDefault(@, 1),
            !.discrete = IF @ = Nil THEN Nil ELSE DefaultDiscreteValueOutOfList(@),
            !.continuous = IF @ = Nil THEN Nil ELSE DefaultContinuousValueDeviation(@)]

DefaultKubervisorService(spec) ==
  [spec EXCEPT !.defaultActivator = DefaultActivatorStrategy(@),
               !.breakers = [i \in DOMAIN @ |-> DefaultBreakerStrategy(@[i])]]

\* Mutant: the mode is not looked at.
ModeNotLookedAt(a) == Nil \notin {a.maxPauseCount, a.maxRetryCount, a.period}

IsActivatorStrategyDefaulted(a) ==
  Nil \notin {a.maxPauseCount, a.maxRetryCount, a.period} /\ a.mode # Nil

IsDiscreteValueOutOfListDefaulted(d) ==
  d.minimumActivityCount # Nil /\ d.tolerancePercent # Nil

IsContinuousValueDeviationDefaulted(c) == c.maxDeviationPercent # Nil

\* Mutant: the parameters of a discrete detector are not looked at.
DiscreteNotLookedAt(b) ==
  /\ b.evaluationPeriod # Nil
  /\ b.minPodsAvailableCount # Nil \/ b.minPodsAvailableRatio # Nil

\* With a continuous detector the activator is not looked at.
IsBreakerStrategyDefaulted(b) ==
  /\ b.evaluationPeriod # Nil
  /\ b.minPodsAvailableCount # Nil \/ b.minPodsAvailableRatio # Nil
  /\ b.discrete # Nil => IsDiscreteValueOutOfListDefaulted(b.discrete)
  /\ IF b.continuous # Nil
       THEN IsContinuousValueDeviationDefaulted(b.continuous)
       ELSE b.activator # Nil => IsActivatorStrategyDefaulted(b.activator)

IsKubervisorServiceDefaulted(spec) ==
  /\ IsActivatorStrategyDefaulted(spec.defaultActivator)
  /\ \A i \in DOMAIN spec.breakers : IsBreakerStrategyDefaulted(spec.breakers[i])

-----------------------------------------------------------------------------
(* validation.go                                                           *)

MinPeriod == 10
MaxPeriod == 24 * 3600 * 1000

ValidName(name) == name \in DNSNames

\* The query and the Prometheus service that answers it are both named.
Queried(d) == d.promQL # Nil /\ d.prometheusService # Nil

ValidateDiscreteValueOutOfList(d) ==
  /\ (d.goodValues = {}) # (d.badValues = {})
  /\ d.key # Nil
  /\ d.podNameKey # Nil
  /\ Queried(d)

ValidateContinuousValueDeviation(c) ==
  /\ c.podNameKey # Nil
  /\ c.maxDeviationPercent # Nil
  /\ Queried(c)

\* Mutant: a strategy without any detector goes through.
AtMostOneAnomaly(b) ==
  /\ b.discrete = Nil \/ b.continuous = Nil
  /\ b.customService = Nil \/ (b.discrete = Nil /\ b.continuous = Nil)

\* Exactly one detector is configured.
OneAnomaly(b) ==
  \/ b.discrete # Nil /\ b.continuous = Nil /\ b.customService = Nil
  \/ b.discrete = Nil /\ b.continuous # Nil /\ b.customService = Nil
  \/ b.discrete = Nil /\ b.continuous = Nil /\ b.customService # Nil

\* ValidateActivatorStrategy accepts everything, any mode included.
ValidateBreakerStrategy(b) ==
  /\ ValidName(b.name)
  /\ b.discrete # Nil => ValidateDiscreteValueOutOfList(b.discrete)
  /\ b.continuous # Nil => ValidateContinuousValueDeviation(b.continuous)
  /\ OneAnomaly(b)
  /\ b.evaluationPeriod # Nil => /\ b.evaluationPeriod > MinPeriod
                                 /\ b.evaluationPeriod <= MaxPeriod

UniqueNames(breakers) ==
  \A i, j \in DOMAIN breakers : breakers[i].name = breakers[j].name => i = j

ValidateKubervisorServiceSpec(spec) ==
  /\ ValidName(spec.service)
  /\ spec.breakers # <<>>
  /\ \A i \in DOMAIN spec.breakers : ValidateBreakerStrategy(spec.breakers[i])
  /\ UniqueNames(spec.breakers)

-----------------------------------------------------------------------------
(* What is left undone.                                                    *)

\* DefaultBreakerStrategy does not fill in the activator of a strategy, but
\* isBreakerStrategyDefaulted asks for it: no defaulting satisfies the test.
OwnActivatorForgotten(spec) ==
  \E i \in DOMAIN spec.breakers :
    LET b == spec.breakers[i] IN
    b.continuous = Nil /\ b.activator # Nil /\ ~IsActivatorStrategyDefaulted(b.activator)
=============================================================================
