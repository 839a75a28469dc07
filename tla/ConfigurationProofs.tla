------------------------ MODULE ConfigurationProofs --------------------------
(***************************************************************************)
(* Theorems of Configuration, for any specifications, samples and edits:   *)
(* what defaulting and validation promise, that workers are complete, that *)
(* the item and the status follow the specification, and which pods an     *)
(* evaluation finds.                                                       *)
(***************************************************************************)
EXTENDS Configuration, DetectionProofs, FiniteSetTheorems, SequenceTheorems, TLAPS

-----------------------------------------------------------------------------
(* Defaulting (default.go).                                                *)

LEMMA DefaultActivatorType ==
  ASSUME NEW a \in ActivatorStrategies
  PROVE  /\ DefaultActivatorStrategy(a) \in ActivatorStrategies
         /\ IsActivatorStrategyDefaulted(DefaultActivatorStrategy(a))
         /\ Keeps(a, DefaultActivatorStrategy(a), DOMAIN a)
<1> DEFINE d == DefaultActivatorStrategy(a)
<1>1. /\ a.mode \in Optional(Modes) /\ a.period \in Optional(Nat)
      /\ a.maxRetryCount \in Optional(Nat) /\ a.maxPauseCount \in Optional(Nat)
      /\ DOMAIN a = {"mode", "period", "maxRetryCount", "maxPauseCount"}
  BY DEF ActivatorStrategies
<1>2. d = [mode |-> d.mode, period |-> d.period,
           maxRetryCount |-> d.maxRetryCount, maxPauseCount |-> d.maxPauseCount]
  BY DEF DefaultActivatorStrategy
<1>3. /\ d.mode \in Modes /\ d.period \in Nat
      /\ d.maxRetryCount \in Nat /\ d.maxPauseCount \in Nat
  BY <1>1 DEF DefaultActivatorStrategy, OrDefault, Optional, Modes
<1>4. /\ a.mode \in {Nil, d.mode} /\ a.period \in {Nil, d.period}
      /\ a.maxRetryCount \in {Nil, d.maxRetryCount}
      /\ a.maxPauseCount \in {Nil, d.maxPauseCount}
  BY DEF DefaultActivatorStrategy, OrDefault
<1> HIDE DEF d
<1>5. d \in ActivatorStrategies
  BY <1>2, <1>3 DEF ActivatorStrategies, Optional
<1>6. IsActivatorStrategyDefaulted(d)
  BY <1>3, NilAssumption DEF IsActivatorStrategyDefaulted
<1>7. Keeps(a, d, DOMAIN a)
  BY <1>1, <1>4 DEF Keeps
<1> QED
  BY <1>5, <1>6, <1>7 DEF d

LEMMA DefaultDiscreteType ==
  ASSUME NEW d \in DiscreteStrategies
  PROVE  LET e == DefaultDiscreteValueOutOfList(d) IN
         /\ e \in DiscreteStrategies
         /\ IsDiscreteValueOutOfListDefaulted(e)
         /\ Keeps(d, e, DOMAIN d)
<1> DEFINE e == DefaultDiscreteValueOutOfList(d)
           count == OrDefault(d.minimumActivityCount, 2)
           tolerance == OrDefault(d.tolerancePercent, 50)
<1>1. /\ count \in Nat /\ tolerance \in Nat
      /\ d.minimumActivityCount \in {Nil, count} /\ d.tolerancePercent \in {Nil, tolerance}
  BY DEF DiscreteStrategies, OrDefault, Optional
<1>2. e = [d EXCEPT !.minimumActivityCount = count, !.tolerancePercent = tolerance]
  BY DEF DefaultDiscreteValueOutOfList
<1> HIDE DEF e, count, tolerance
<1>3. e \in DiscreteStrategies
  BY <1>1, <1>2 DEF DiscreteStrategies, Optional
<1>4. /\ e.minimumActivityCount = count /\ e.tolerancePercent = tolerance
      /\ \A f \in DOMAIN d \ {"minimumActivityCount", "tolerancePercent"} : e[f] = d[f]
  BY <1>2 DEF DiscreteStrategies
<1>5. IsDiscreteValueOutOfListDefaulted(e)
  BY <1>1, <1>4, NilAssumption DEF IsDiscreteValueOutOfListDefaulted
<1>6. Keeps(d, e, DOMAIN d)
  BY <1>1, <1>4 DEF Keeps
<1> QED
  BY <1>3, <1>5, <1>6 DEF e

LEMMA DefaultContinuousType ==
  ASSUME NEW c \in ContinuousStrategies
  PROVE  LET e == DefaultContinuousValueDeviation(c) IN
         /\ e \in ContinuousStrategies
         /\ IsContinuousValueDeviationDefaulted(e)
         /\ Keeps(c, e, DOMAIN c)
<1> DEFINE e == DefaultContinuousValueDeviation(c)
           deviation == OrDefault(c.maxDeviationPercent, 75)
<1>1. deviation \in Nat /\ c.maxDeviationPercent \in {Nil, deviation}
  BY DEF ContinuousStrategies, OrDefault, Optional
<1>2. e = [c EXCEPT !.maxDeviationPercent = deviation]
  BY DEF DefaultContinuousValueDeviation
<1> HIDE DEF e, deviation
<1>3. e \in ContinuousStrategies
  BY <1>1, <1>2 DEF ContinuousStrategies, Optional
<1>4. /\ e.maxDeviationPercent = deviation
      /\ \A f \in DOMAIN c \ {"maxDeviationPercent"} : e[f] = c[f]
  BY <1>2 DEF ContinuousStrategies
<1>5. IsContinuousValueDeviationDefaulted(e)
  BY <1>1, <1>4, NilAssumption DEF IsContinuousValueDeviationDefaulted
<1>6. Keeps(c, e, DOMAIN c)
  BY <1>1, <1>4 DEF Keeps
<1> QED
  BY <1>3, <1>5, <1>6 DEF e

\* A defaulted strategy passes the test, unless it has an incomplete activator
\* of its own, which nobody fills in.
LEMMA DefaultBreakerType ==
  ASSUME NEW b \in BreakerStrategies
  PROVE  LET c == DefaultBreakerStrategy(b) IN
         /\ c \in BreakerStrategies
         /\ \/ IsBreakerStrategyDefaulted(c)
            \/ /\ b.continuous = Nil /\ b.activator # Nil
               /\ ~IsActivatorStrategyDefaulted(b.activator)
         /\ Keeps(b, c, DOMAIN b \ {"discrete", "continuous"})
         /\ b.discrete # Nil => Keeps(b.discrete, c.discrete, DOMAIN b.discrete)
         /\ b.continuous # Nil => Keeps(b.continuous, c.continuous, DOMAIN b.continuous)
<1> DEFINE c == DefaultBreakerStrategy(b)
           period == OrDefault(b.evaluationPeriod, 5000)
           available == OrDefault(b.minPodsAvailableCount, 1)
           discrete == IF b.discrete = Nil THEN Nil
                         ELSE DefaultDiscreteValueOutOfList(b.discrete)
           continuous == IF b.continuous = Nil THEN Nil
                           ELSE DefaultContinuousValueDeviation(b.continuous)
<1>1. /\ period \in Nat /\ available \in Nat
      /\ b.evaluationPeriod \in {Nil, period}
      /\ b.minPodsAvailableCount \in {Nil, available}
  BY DEF BreakerStrategies, OrDefault, Optional
<1>2. /\ discrete \in Optional(DiscreteStrategies)
      /\ discrete # Nil => b.discrete # Nil /\ IsDiscreteValueOutOfListDefaulted(discrete)
      /\ b.discrete # Nil => Keeps(b.discrete, discrete, DOMAIN b.discrete)
  BY DefaultDiscreteType DEF BreakerStrategies, Optional
<1>3. /\ continuous \in Optional(ContinuousStrategies)
      /\ continuous # Nil => IsContinuousValueDeviationDefaulted(continuous)
      /\ b.continuous # Nil => /\ Keeps(b.continuous, continuous, DOMAIN b.continuous)
                               /\ continuous # Nil
  BY DefaultContinuousType, NilAssumption DEF BreakerStrategies, Optional
<1>4. c = [b EXCEPT !.evaluationPeriod = period, !.minPodsAvailableCount = available,
                    !.discrete = discrete, !.continuous = continuous]
  BY DEF DefaultBreakerStrategy
<1> HIDE DEF c, period, available, discrete, continuous
<1>5. c \in BreakerStrategies
  BY <1>1, <1>2, <1>3, <1>4 DEF BreakerStrategies, Optional
<1>6. /\ c.evaluationPeriod = period /\ c.minPodsAvailableCount = available
      /\ c.discrete = discrete /\ c.continuous = continuous /\ c.activator = b.activator
      /\ \A f \in DOMAIN b \ {"evaluationPeriod", "minPodsAvailableCount",
                              "discrete", "continuous"} : c[f] = b[f]
  BY <1>4 DEF BreakerStrategies
<1>7. Keeps(b, c, DOMAIN b \ {"discrete", "continuous"})
  BY <1>1, <1>6 DEF Keeps
<1>8. \/ IsBreakerStrategyDefaulted(c)
      \/ /\ b.continuous = Nil /\ b.activator # Nil
         /\ ~IsActivatorStrategyDefaulted(b.activator)
  BY <1>1, <1>2, <1>3, <1>6, NilAssumption DEF IsBreakerStrategyDefaulted
<1> QED
  BY <1>2, <1>3, <1>5, <1>6, <1>7, <1>8 DEF c

LEMMA DefaultServiceType ==
  ASSUME NEW spec \in KubervisorServiceSpecs
  PROVE  LET new == DefaultKubervisorService(spec) IN
         /\ new \in KubervisorServiceSpecs
         /\ IsKubervisorServiceDefaulted(new) \/ OwnActivatorForgotten(spec)
         /\ KeepsChoices(spec, new)
<1> DEFINE new == DefaultKubervisorService(spec)
           breakers == [i \in DOMAIN spec.breakers |->
                          DefaultBreakerStrategy(spec.breakers[i])]
           activator == DefaultActivatorStrategy(spec.defaultActivator)
<1>1. /\ spec.breakers \in Seq(BreakerStrategies)
      /\ spec.defaultActivator \in ActivatorStrategies
  BY DEF KubervisorServiceSpecs
<1>2. \A i \in DOMAIN spec.breakers : spec.breakers[i] \in BreakerStrategies
  BY <1>1
<1>3. DOMAIN breakers = DOMAIN spec.breakers
  OBVIOUS
<1>4. breakers \in Seq(BreakerStrategies)
  <2>1. DOMAIN spec.breakers = 1..Len(spec.breakers) /\ Len(spec.breakers) \in Nat
    BY <1>1
  <2>2. breakers \in [1..Len(spec.breakers) -> BreakerStrategies]
    BY <1>2, <2>1, DefaultBreakerType
  <2> HIDE DEF breakers
  <2> QED BY <2>1, <2>2, SeqDef
<1>5. new = [spec EXCEPT !.defaultActivator = activator, !.breakers = breakers]
  BY DEF DefaultKubervisorService
<1>6. new.defaultActivator = activator /\ new.breakers = breakers
  BY <1>5 DEF KubervisorServiceSpecs
<1>7. /\ activator \in ActivatorStrategies
      /\ IsActivatorStrategyDefaulted(activator)
      /\ Keeps(spec.defaultActivator, activator, DOMAIN spec.defaultActivator)
  BY <1>1, DefaultActivatorType
<1>8. new \in KubervisorServiceSpecs
  <2> HIDE DEF new, breakers, activator
  <2> QED BY <1>4, <1>5, <1>7 DEF KubervisorServiceSpecs
<1>9. IsKubervisorServiceDefaulted(new) \/ OwnActivatorForgotten(spec)
  <2>1. ASSUME ~OwnActivatorForgotten(spec), NEW i \in DOMAIN spec.breakers
        PROVE  IsBreakerStrategyDefaulted(breakers[i])
    BY <1>2, <2>1, DefaultBreakerType DEF OwnActivatorForgotten
  <2> HIDE DEF new, breakers, activator
  <2> QED BY <1>3, <1>6, <1>7, <2>1 DEF IsKubervisorServiceDefaulted
<1>10. KeepsChoices(spec, new)
  <2>1. ASSUME NEW i \in DOMAIN spec.breakers
        PROVE  LET b == spec.breakers[i] c == breakers[i] IN
               /\ Keeps(b, c, DOMAIN b \ {"discrete", "continuous"})
               /\ b.discrete # Nil => Keeps(b.discrete, c.discrete, DOMAIN b.discrete)
               /\ b.continuous # Nil =>
                    Keeps(b.continuous, c.continuous, DOMAIN b.continuous)
    BY <1>2, DefaultBreakerType
  <2> HIDE DEF new, breakers, activator
  <2> QED BY <1>6, <1>7, <2>1 DEF KeepsChoices
<1> QED
  BY <1>8, <1>9, <1>10

StoredTyped == stored \in KubervisorServiceSpecs

\* The formula of DefaultingSettles.
DefaultingDone ==
  FillDefaults =>
    /\ IsKubervisorServiceDefaulted(stored') \/ OwnActivatorForgotten(stored)
    /\ KeepsChoices(stored, stored')

\* What a user chose stays, and one defaulting is enough, but for an incomplete
\* activator of a strategy's own (DefaultKubervisorService).
THEOREM DefaultingSettlesCorrect == Spec => DefaultingSettles
<1>1. StoredTyped => DefaultingDone
  BY DefaultServiceType DEF FillDefaults, StoredTyped, DefaultingDone
<1>2. Init => StoredTyped
  BY ConfigurationAssumption DEF Init, StoredTyped
<1>3. StoredTyped /\ [Next]_vars => StoredTyped'
  BY DefaultServiceType, ConfigurationAssumption
     DEF StoredTyped, Next, Sync, FillDefaults, Refuse, ServiceMissing, BuildFails, Build,
         Keep, Evaluate, UserWrites, UserTogglesService, Restart, Resync, vars
<1>4. Spec => [][DefaultingDone]_vars
  BY <1>1, <1>2, <1>3, PTL DEF Spec
<1> QED
  BY <1>4 DEF DefaultingSettles, DefaultingDone

\* The validation looks at everything an item is built from, but for the length of
\* the KubervisorService's name and the form of an address (item.New).
THEOREM ValidatedBuildsCorrect == Spec => ValidatedBuilds
<1> DEFINE Address(b) == \/ b.discrete # Nil /\ b.discrete.prometheusService \notin Parsable
                         \/ b.continuous # Nil /\ b.continuous.prometheusService \notin Parsable
           Builds == BuildFails => \/ kubervisorName \notin LabelValues
                                   \/ \E i \in DOMAIN stored.breakers :
                                        Address(stored.breakers[i])
<1>1. Builds
  <2> SUFFICES ASSUME BuildFails, Selectable
               PROVE  \E i \in DOMAIN stored.breakers : Address(stored.breakers[i])
    BY DEF Selectable
  <2>1. PICK i \in DOMAIN stored.breakers : ~Buildable(stored.breakers[i])
    BY DEF BuildFails, Constructible
  <2> DEFINE b == stored.breakers[i]
  <2>2. ValidateBreakerStrategy(b)
    BY DEF BuildFails, Accepted, ValidateKubervisorServiceSpec
  <2> HIDE DEF b
  <2>3. Address(b)
    <3>1. ~Buildable(b)
      BY <2>1 DEF b
    <3> QED BY <2>2, <3>1 DEF Buildable, ValidateBreakerStrategy, OneAnomaly
  <2> QED BY <2>3 DEF b
<1> QED
  BY <1>1, PTL DEF Spec, ValidatedBuilds

-----------------------------------------------------------------------------
(* The item and the status.                                                *)

\* The controller has filled in the strategy and let it through.
Usable(b) == IsBreakerStrategyDefaulted(b) /\ ValidateBreakerStrategy(b)

ItemUsable == item # NoItem => \A i \in DOMAIN item.breakers : Usable(item.breakers[i])

\* Running is true as long as there is an item, and false again, once the syncs
\* are done, when there is none.
StatusFollows ==
  /\ \A type, other \in ConditionTypes : Holds(type) /\ Holds(other) => type = other
  /\ item # NoItem => Holds("Running")
  /\ ~pending /\ ~OwnActivatorForgotten(stored) /\ Holds("Running") => item # NoItem

Inv == TypeOK /\ ItemUsable /\ StatusFollows /\ ItemMatchesSpec

LEMMA NewItemFacts ==
  ASSUME NEW spec
  PROVE  /\ NewItem(spec) # NoItem
         /\ NewItem(spec).breakers = spec.breakers
         /\ NewItem(spec).defaultActivator = spec.defaultActivator
<1>1. DOMAIN NewItem(spec) = {"defaultActivator", "breakers"}
  BY DEF NewItem
<1>2. DOMAIN NoItem = {"breakers"}
  BY DEF NoItem
<1> QED
  BY <1>1, <1>2 DEF NewItem

\* UpdateStatusCondition makes one condition true and every other false.
LEMMA UpdatedCondition ==
  ASSUME NEW list \in Seq([type : ConditionTypes, status : BOOLEAN]),
         NEW type \in ConditionTypes
  PROVE  LET new == UpdateStatusCondition(list, type) IN
         /\ new \in Seq([type : ConditionTypes, status : BOOLEAN])
         /\ \A i \in DOMAIN new : new[i].status => new[i].type = type
         /\ \E i \in DOMAIN new : new[i] = [type |-> type, status |-> TRUE]
<1> DEFINE Condition == [type : ConditionTypes, status : BOOLEAN]
           condition == [type |-> type, status |-> TRUE]
           others == [i \in DOMAIN list |-> [list[i] EXCEPT !.status = list[i].type = type]]
           new == UpdateStatusCondition(list, type)
<1>1. /\ DOMAIN list = 1..Len(list) /\ Len(list) \in Nat
      /\ \A i \in DOMAIN list : list[i] \in Condition
  <2> HIDE DEF Condition
  <2>1. list \in Seq(Condition)
    BY DEF Condition
  <2> QED BY <2>1
<1>2. ASSUME NEW i \in DOMAIN list
      PROVE  /\ others[i] \in Condition
             /\ others[i].type = list[i].type
             /\ others[i].status = (list[i].type = type)
             /\ list[i].type = type => others[i] = condition
  BY <1>1
<1>3. others \in [1..Len(list) -> Condition] /\ DOMAIN others = DOMAIN list
  BY <1>1, <1>2
<1>4. new = IF \E i \in DOMAIN list : list[i].type = type
              THEN others ELSE Append(others, condition)
  BY DEF UpdateStatusCondition
<1>5. condition \in Condition /\ condition.status /\ condition.type = type
  OBVIOUS
<1> HIDE DEF others, new, Condition, condition
<1>6. others \in Seq(Condition) /\ Len(others) = Len(list)
  BY <1>1, <1>3, SeqDef
<1>7. CASE \E i \in DOMAIN list : list[i].type = type
  BY <1>2, <1>3, <1>4, <1>6, <1>7 DEF new, Condition, condition
<1>8. CASE ~\E i \in DOMAIN list : list[i].type = type
  <2>1. new = Append(others, condition)
    BY <1>4, <1>8
  <2>2. /\ new \in Seq(Condition) /\ Len(new) = Len(others) + 1
        /\ \A i \in 1..Len(others) : new[i] = others[i]
        /\ new[Len(others) + 1] = condition
    BY <1>5, <1>6, <2>1, AppendProperties
  <2>3. DOMAIN new = 1..(Len(others) + 1)
    BY <2>2
  <2>4. \A i \in DOMAIN new : new[i].status => new[i].type = type
    <3>1. ASSUME NEW i \in 1..Len(others), new[i].status PROVE new[i].type = type
      BY <1>1, <1>2, <1>6, <2>2, <3>1
    <3>2. \A i \in DOMAIN new : i \in 1..Len(others) \/ i = Len(others) + 1
      BY <1>1, <1>6, <2>3
    <3> QED BY <1>5, <2>2, <3>1, <3>2
  <2>5. new[Len(others) + 1] = condition /\ Len(others) + 1 \in DOMAIN new
    BY <1>1, <1>6, <2>2, <2>3
  <2> QED BY <2>2, <2>4, <2>5 DEF new, Condition, condition
<1> QED
  BY <1>7, <1>8

\* After the update this condition holds, and no other.
LEMMA OnlyOneHolds ==
  ASSUME NEW type \in ConditionTypes,
         conditions \in Seq([type : ConditionTypes, status : BOOLEAN]),
         conditions' = UpdateStatusCondition(conditions, type)
  PROVE  /\ conditions' \in Seq([type : ConditionTypes, status : BOOLEAN])
         /\ \A other \in ConditionTypes : Holds(other)' <=> other = type
<1>1. /\ conditions' \in Seq([type : ConditionTypes, status : BOOLEAN])
      /\ \A i \in DOMAIN conditions' : conditions'[i].status => conditions'[i].type = type
      /\ \E i \in DOMAIN conditions' : conditions'[i] = [type |-> type, status |-> TRUE]
  BY UpdatedCondition
<1>2. ASSUME NEW other \in ConditionTypes, Holds(other)' PROVE other = type
  BY <1>1, <1>2 DEF Holds
<1> QED
  BY <1>1, <1>2 DEF Holds

\* Of two lists of the same length, where one names its strategies uniquely and
\* each of them is found in the other, both have the same strategies.
LEMMA SameStrategies ==
  ASSUME stored \in KubervisorServiceSpecs, UniqueNames(stored.breakers),
         item.breakers \in Seq(BreakerStrategies), ~Differs(stored)
  PROVE  ToSet(item.breakers) = ToSet(stored.breakers)
<1> DEFINE n == Len(stored.breakers)
           S == ToSet(stored.breakers)
           T == ToSet(item.breakers)
           f == [i \in 1..n |-> stored.breakers[i]]
           g == [i \in 1..n |-> item.breakers[i]]
<1>1. /\ stored.breakers \in Seq(BreakerStrategies) /\ n \in Nat
      /\ DOMAIN stored.breakers = 1..n
      /\ Len(item.breakers) = n /\ DOMAIN item.breakers = 1..n
  BY DEF KubervisorServiceSpecs, Differs
<1>2. S \subseteq T
  <2> SUFFICES ASSUME NEW i \in 1..n PROVE stored.breakers[i] \in T
    BY <1>1 DEF ToSet
  <2> DEFINE named == {j \in DOMAIN item.breakers :
                         item.breakers[j].name = stored.breakers[i].name}
  <2>1. BreakerNamed(stored.breakers[i].name) = stored.breakers[i]
    BY <1>1 DEF Differs
  <2>2. stored.breakers[i] # Nil
    BY <1>1, NilAssumption
  <2>3. named # {}
    BY <2>1, <2>2 DEF BreakerNamed
  <2>4. stored.breakers[i] = item.breakers[CHOOSE j \in named : \A k \in named : j <= k]
    BY <2>1, <2>3 DEF BreakerNamed
  <2>5. \E j \in named : \A k \in named : j <= k
    <3>1. named \in SUBSET Nat
      BY <1>1
    <3> HIDE DEF named
    <3>2. PICK j \in named : \A k \in named : ~(<<k, j>> \in OpToRel(<, Nat))
      BY <2>3, <3>1, NatLessThanWellFounded, WFMin
    <3>3. \A k \in named : ~(k < j)
      BY <3>1, <3>2 DEF OpToRel
    <3> QED BY <3>1, <3>3
  <2>6. (CHOOSE j \in named : \A k \in named : j <= k) \in DOMAIN item.breakers
    BY <2>5
  <2> QED BY <2>4, <2>6 DEF ToSet
<1>3. f \in Injection(1..n, S) /\ f \in Surjection(1..n, S)
  BY <1>1 DEF UniqueNames, Injection, Surjection, IsInjective, ToSet
<1>4. g \in Surjection(1..n, T)
  BY <1>1 DEF Surjection, ToSet
<1>5. IsFiniteSet(1..n) /\ Cardinality(1..n) = n
  BY <1>1, FS_Interval
<1> HIDE DEF n, S, T, f, g
<1>6. Cardinality(S) = n
  BY <1>3, <1>5, FS_Surjection
<1>7. IsFiniteSet(T) /\ Cardinality(T) <= n
  BY <1>4, <1>5, FS_Surjection
<1>8. Cardinality(S) <= Cardinality(T) /\ Cardinality(T) \in Nat
  BY <1>2, <1>7, FS_Subset, FS_CardinalityType
<1>9. Cardinality(S) = Cardinality(T)
  BY <1>1, <1>6, <1>7, <1>8
<1> QED
  BY <1>2, <1>7, <1>9, FS_Subset DEF S, T

LEMMA InitInv == Init => Inv
<1> SUFFICES ASSUME Init PROVE Inv
  OBVIOUS
<1>1. TypeOK
  BY ConfigurationAssumption, EmptySeq DEF Init, TypeOK
<1>2. ItemUsable /\ StatusFollows /\ ItemMatchesSpec
  BY DEF Init, Holds, ItemUsable, StatusFollows, ItemMatchesSpec
<1> QED
  BY <1>1, <1>2 DEF Inv

\* A step after which the item, if there is one, is the same as before and there
\* is a sync to come.
LEMMA PendingInv ==
  ASSUME Inv, TypeOK', pending', item' \in {item, NoItem}, UNCHANGED conditions
  PROVE  Inv'
<1>1. ItemUsable' /\ ItemMatchesSpec'
  BY DEF Inv, ItemUsable, ItemMatchesSpec
<1>2. \A type \in ConditionTypes : Holds(type)' <=> Holds(type)
  BY DEF Holds
<1>3. "Running" \in ConditionTypes
  BY DEF ConditionTypes
<1>4. StatusFollows'
  BY <1>2, <1>3 DEF Inv, StatusFollows
<1> QED
  BY <1>1, <1>4 DEF Inv

LEMMA FillDefaultsInv ==
  ASSUME Inv, FillDefaults, UNCHANGED <<kubervisorName, svc, edits>>
  PROVE  Inv'
<1>1. stored' = DefaultKubervisorService(stored) /\ UNCHANGED <<conditions, item>>
  BY DEF FillDefaults
<1>2. /\ stored' \in KubervisorServiceSpecs
      /\ IsKubervisorServiceDefaulted(stored') \/ OwnActivatorForgotten(stored)
  BY <1>1, DefaultServiceType DEF Inv, TypeOK
<1>3. TypeOK'
  BY <1>1, <1>2 DEF Inv, TypeOK, FillDefaults
<1>4. CASE pending'
  BY <1>1, <1>3, <1>4, PendingInv
<1>5. CASE ~pending'
  <2>1. stored' = stored
    BY <1>5 DEF FillDefaults
  <2>2. ~IsKubervisorServiceDefaulted(stored) /\ OwnActivatorForgotten(stored)
    BY <1>2, <2>1 DEF FillDefaults
  <2>3. ItemUsable' /\ ItemMatchesSpec'
    BY <1>1, <2>1, <2>2 DEF Inv, ItemUsable, ItemMatchesSpec, Accepted
  <2>4. StatusFollows'
    BY <1>1, <2>1, <2>2 DEF Inv, StatusFollows, Holds
  <2> QED BY <1>3, <2>3, <2>4 DEF Inv
<1> QED
  BY <1>4, <1>5

\* No item is left, and the condition that is true says why.
LEMMA NoItemInv ==
  ASSUME Inv, NEW type \in ConditionTypes \ {"Running"}, item' = NoItem,
         conditions' = UpdateStatusCondition(conditions, type),
         UNCHANGED <<kubervisorName, stored, svc, edits>>, pending' \in BOOLEAN
  PROVE  Inv'
<1>1. /\ conditions' \in Seq([type : ConditionTypes, status : BOOLEAN])
      /\ \A other \in ConditionTypes : Holds(other)' <=> other = type
  BY OnlyOneHolds DEF Inv, TypeOK
<1>2. "Running" \in ConditionTypes
  BY DEF ConditionTypes
<1> QED
  BY <1>1, <1>2 DEF Inv, TypeOK, ItemUsable, StatusFollows, ItemMatchesSpec

\* An accepted specification has a complete default activator.
LEMMA AcceptedActivator ==
  ASSUME stored \in KubervisorServiceSpecs, Accepted
  PROVE  stored.defaultActivator \in CompleteActivatorStrategies
<1>1. /\ stored.defaultActivator \in ActivatorStrategies
      /\ IsActivatorStrategyDefaulted(stored.defaultActivator)
  BY DEF KubervisorServiceSpecs, Accepted, IsKubervisorServiceDefaulted
<1> QED
  BY <1>1 DEF ActivatorStrategies, CompleteActivatorStrategies, IsActivatorStrategyDefaulted,
              Optional

LEMMA BuildInv ==
  ASSUME Inv, Build, UNCHANGED <<kubervisorName, svc, edits>>
  PROVE  Inv'
<1>1. /\ item' = NewItem(stored) /\ ~pending' /\ pending' \in BOOLEAN /\ UNCHANGED stored
      /\ conditions' = UpdateStatusCondition(conditions, "Running")
  BY DEF Build
<1>2. /\ conditions' \in Seq([type : ConditionTypes, status : BOOLEAN])
      /\ \A other \in ConditionTypes : Holds(other)' <=> other = "Running"
  BY <1>1, OnlyOneHolds DEF Inv, TypeOK, ConditionTypes
<1>3. item' # NoItem /\ item'.breakers = stored.breakers
  BY <1>1, NewItemFacts
<1>4. item' \in [defaultActivator : CompleteActivatorStrategies,
                 breakers : Seq(BreakerStrategies)]
  BY <1>1, AcceptedActivator DEF Inv, TypeOK, Build, NewItem, KubervisorServiceSpecs
<1>5. TypeOK'
  BY <1>1, <1>2, <1>4 DEF Inv, TypeOK
<1>6. ItemUsable'
  BY <1>3 DEF Build, Accepted, IsKubervisorServiceDefaulted, ValidateKubervisorServiceSpec,
                 ItemUsable, Usable
<1>7. "Running" \in ConditionTypes
  BY DEF ConditionTypes
<1>8. StatusFollows'
  BY <1>2, <1>3, <1>7 DEF StatusFollows
<1>9. ItemMatchesSpec'
  BY <1>1, <1>3 DEF ItemMatchesSpec
<1> QED
  BY <1>5, <1>6, <1>8, <1>9 DEF Inv

LEMMA KeepInv ==
  ASSUME Inv, Keep, UNCHANGED <<kubervisorName, svc, edits>>
  PROVE  Inv'
<1>1. /\ item # NoItem /\ ~Differs(stored) /\ Accepted
      /\ ~pending' /\ pending' \in BOOLEAN /\ UNCHANGED <<stored, item>>
  BY DEF Keep
<1>2. "Running" \in ConditionTypes
  BY DEF ConditionTypes
<1>3. /\ conditions' \in Seq([type : ConditionTypes, status : BOOLEAN])
      /\ \A other \in ConditionTypes : Holds(other)' => other = "Running"
      /\ Holds("Running")'
  <2>1. CASE conditions' = conditions
    BY <1>1, <1>2, <2>1 DEF Inv, TypeOK, StatusFollows, Holds
  <2>2. CASE conditions' = UpdateStatusCondition(conditions, "Running")
    BY <1>2, <2>2, OnlyOneHolds DEF Inv, TypeOK
  <2> QED BY <2>1, <2>2 DEF Keep
<1>4. TypeOK' /\ ItemUsable'
  BY <1>1, <1>3 DEF Inv, TypeOK, ItemUsable
<1>5. StatusFollows'
  BY <1>1, <1>3 DEF StatusFollows
<1>6. ToSet(item.breakers) = ToSet(stored.breakers)
  BY <1>1, SameStrategies DEF Inv, TypeOK, Accepted, ValidateKubervisorServiceSpec
<1>7. ItemMatchesSpec'
  BY <1>1, <1>6 DEF ItemMatchesSpec
<1> QED
  BY <1>4, <1>5, <1>7 DEF Inv

\* A step that changes nothing the invariant is about.
LEMMA UnchangedInv ==
  ASSUME Inv, UNCHANGED <<kubervisorName, stored, pending, svc, conditions, item, edits>>
  PROVE  Inv'
BY DEF Inv, TypeOK, ItemUsable, StatusFollows, Holds, ItemMatchesSpec, Accepted

LEMMA SyncInv ==
  ASSUME Inv, Sync
  PROVE  Inv'
<1>0. UNCHANGED <<kubervisorName, svc, edits>>
  BY DEF Sync
<1>1. CASE FillDefaults
  BY <1>0, <1>1, FillDefaultsInv
<1>2. CASE Refuse
  BY <1>0, <1>2, UnchangedInv DEF Refuse
<1>3. CASE ServiceMissing
  <2>1. "ServiceNotAvailable" \in ConditionTypes \ {"Running"}
    BY DEF ConditionTypes
  <2> QED BY <1>0, <1>3, <2>1, NoItemInv DEF ServiceMissing
<1>4. CASE BuildFails
  <2>1. "InitFailed" \in ConditionTypes \ {"Running"}
    BY DEF ConditionTypes
  <2> QED BY <1>0, <1>4, <2>1, NoItemInv DEF BuildFails, Inv, TypeOK
<1>5. CASE Build
  BY <1>0, <1>5, BuildInv
<1>6. CASE Keep
  BY <1>0, <1>6, KeepInv
<1> QED
  BY <1>1, <1>2, <1>3, <1>4, <1>5, <1>6 DEF Sync

LEMMA NextInv == Inv /\ [Next]_vars => Inv'
<1> SUFFICES ASSUME Inv, [Next]_vars PROVE Inv'
  OBVIOUS
<1>1. CASE Evaluate \/ UNCHANGED vars
  BY <1>1, UnchangedInv DEF Evaluate, vars
<1>2. CASE UserWrites \/ UserTogglesService \/ Restart \/ Resync
  <2>1. TypeOK'
    <3>1. /\ stored' \in KubervisorServiceSpecs
          /\ svc' \in BOOLEAN /\ pending' \in BOOLEAN
          /\ conditions' = conditions /\ item' \in {item, NoItem}
      BY <1>2, ConfigurationAssumption
         DEF UserWrites, UserTogglesService, Restart, Resync, Edit, Inv, TypeOK
    <3>2. edits' \in 0..MaxEdits /\ UNCHANGED kubervisorName
      BY <1>2, ConfigurationAssumption
         DEF UserWrites, UserTogglesService, Restart, Resync, Edit, Inv, TypeOK
    <3> QED BY <3>1, <3>2 DEF Inv, TypeOK
  <2>2. pending' /\ item' \in {item, NoItem} /\ UNCHANGED conditions
    BY <1>2 DEF UserWrites, UserTogglesService, Restart, Resync, Edit
  <2> QED BY <2>1, <2>2, PendingInv
<1> QED
  BY <1>1, <1>2, SyncInv DEF Next

\* The inductive invariant: for any specifications and samples.
THEOREM InvCorrect == Spec => []Inv
BY InitInv, NextInv, PTL DEF Spec

\* Defaulting yields specifications of the API's type, and the default activator
\* of an item is complete, for any specifications users write.
THEOREM Types == Spec => []TypeOK
<1>1. Inv => TypeOK
  BY DEF Inv
<1> QED
  BY <1>1, InvCorrect, PTL

\* No worker dereferences a field that is not set (item.New behind the test
\* whether the specification is defaulted).
THEOREM WorkersCompleteCorrect == Spec => []WorkersComplete
<1>1. Inv => WorkersComplete
  <2> SUFFICES ASSUME Inv, item # NoItem, NEW i \in DOMAIN item.breakers
               PROVE  LET b == item.breakers[i] IN
                      /\ BreakerComplete(b)
                      /\ b.activator # Nil /\ b.continuous = Nil => ActivatorComplete(b.activator)
    BY DEF WorkersComplete
  <2>1. IsBreakerStrategyDefaulted(item.breakers[i])
    BY DEF Inv, ItemUsable, Usable
  <2> QED BY <2>1 DEF IsBreakerStrategyDefaulted, IsActivatorStrategyDefaulted,
                      BreakerComplete, ActivatorComplete
<1> QED
  BY <1>1, InvCorrect, PTL

\* The status tells whether there are workers, and why there are none
\* (UpdateStatusCondition and its callers).
THEOREM StatusTellsItemCorrect == Spec => []StatusTellsItem
<1>1. Inv => StatusTellsItem
  BY DEF Inv, StatusFollows, StatusTellsItem
<1> QED
  BY <1>1, InvCorrect, PTL

\* Once the syncs are done, the workers are those the specification asks for
\* (CompareWithSpec), whatever was edited, refused or restarted in between.
THEOREM ItemMatchesSpecCorrect == Spec => []ItemMatchesSpec
<1>1. Inv => ItemMatchesSpec
  BY DEF Inv
<1> QED
  BY <1>1, InvCorrect, PTL

-----------------------------------------------------------------------------
(* Evaluations.                                                            *)

\* An evaluation is what the detector of a usable strategy makes of an answer.
EvaluationFollows ==
  evaluation # NoEvaluation =>
    /\ evaluation.strategy \in BreakerStrategies /\ Usable(evaluation.strategy)
    /\ evaluation.listing \in Listings /\ evaluation.samples \in Optional(Answers)
    /\ LET result == PodsOutOfBounds(evaluation.strategy, evaluation.listing,
                                     evaluation.samples) IN
       evaluation.outcome = result.outcome /\ evaluation.pods = result.pods

\* Only a breaker of the item evaluates.
LEMMA EvaluateFollows ==
  ASSUME Inv, Evaluate
  PROVE  EvaluationFollows'
<1>1. PICK i \in DOMAIN item.breakers, listing \in Listings, samples \in Optional(Answers) :
        LET b == item.breakers[i]
            result == PodsOutOfBounds(b, listing, samples) IN
        evaluation' = [outcome |-> result.outcome, pods |-> result.pods,
                       strategy |-> b, listing |-> listing, samples |-> samples]
  BY DEF Evaluate
<1> DEFINE b == item.breakers[i]
<1>2. item # NoItem
  BY <1>1 DEF NoItem
<1>3. b \in BreakerStrategies /\ Usable(b)
  <2>1. item.breakers \in Seq(BreakerStrategies)
    BY <1>2 DEF Inv, TypeOK
  <2> QED BY <1>1, <1>2, <2>1 DEF Inv, ItemUsable
<1> HIDE DEF b
<1>4. /\ evaluation'.strategy = b /\ evaluation'.listing = listing
      /\ evaluation'.samples = samples
      /\ evaluation'.outcome = PodsOutOfBounds(b, listing, samples).outcome
      /\ evaluation'.pods = PodsOutOfBounds(b, listing, samples).pods
  BY <1>1 DEF b
<1> QED
  BY <1>1, <1>3, <1>4 DEF EvaluationFollows

\* Every evaluation that is shown follows the strategy of a worker.
THEOREM EvaluationFollowsCorrect == Spec => []EvaluationFollows
<1>1. Init => EvaluationFollows
  BY DEF Init, EvaluationFollows
<1>2. Inv /\ EvaluationFollows /\ [Next]_vars => EvaluationFollows'
  <2> SUFFICES ASSUME Inv, EvaluationFollows, [Next]_vars PROVE EvaluationFollows'
    OBVIOUS
  <2>1. CASE Evaluate
    BY <2>1, EvaluateFollows
  <2>2. CASE evaluation' \in {evaluation, NoEvaluation}
    BY <2>2 DEF EvaluationFollows
  <2>3. CASE Sync \/ UserWrites \/ UserTogglesService \/ Restart \/ Resync \/ UNCHANGED vars
    BY <2>2, <2>3 DEF Sync, UserWrites, UserTogglesService, Restart, Resync, Edit, vars
  <2> QED BY <2>1, <2>3 DEF Next
<1> QED
  BY <1>1, <1>2, InvCorrect, PTL DEF Spec

LEMMA AnswersAreSamples == Answers \subseteq Seq(Samples)
<1> SUFFICES ASSUME NEW samples \in Answers PROVE samples \in Seq(Samples)
  OBVIOUS
<1>1. PICK n \in 0..MaxSamples : samples \in [1..n -> UserSamples]
  BY DEF Answers
<1>2. n \in Nat /\ samples \in [1..n -> Samples]
  BY <1>1, ConfigurationAssumption
<1> QED
  BY <1>2

\* The evaluation of a discrete strategy that has an answer.
LEMMA DiscreteEvaluation ==
  ASSUME EvaluationFollows, EvaluatedDiscrete, evaluation.samples # Nil
  PROVE  LET d == evaluation.strategy.discrete
             result == DiscreteOutOfBounds(d, evaluation.listing, evaluation.samples) IN
         /\ Parameters(d) /\ evaluation.listing \in Listings
         /\ evaluation.samples \in Seq(Samples)
         /\ evaluation.outcome = result.outcome /\ evaluation.pods = result.pods
<1> DEFINE b == evaluation.strategy
           d == b.discrete
<1>1. /\ b \in BreakerStrategies /\ IsBreakerStrategyDefaulted(b) /\ d # Nil
      /\ evaluation.listing \in Listings /\ evaluation.samples \in Answers
      /\ evaluation.outcome = PodsOutOfBounds(b, evaluation.listing, evaluation.samples).outcome
      /\ evaluation.pods = PodsOutOfBounds(b, evaluation.listing, evaluation.samples).pods
  BY DEF EvaluationFollows, EvaluatedDiscrete, Usable, Optional
<1>2. d \in DiscreteStrategies /\ IsDiscreteValueOutOfListDefaulted(d)
  BY <1>1 DEF BreakerStrategies, Optional, IsBreakerStrategyDefaulted
<1>3. Parameters(d)
  BY <1>2 DEF DiscreteStrategies, Optional, IsDiscreteValueOutOfListDefaulted, Parameters
<1>4. PodsOutOfBounds(b, evaluation.listing, evaluation.samples)
        = DiscreteOutOfBounds(d, evaluation.listing, evaluation.samples)
  BY <1>1 DEF PodsOutOfBounds
<1> QED
  BY <1>1, <1>3, <1>4, AnswersAreSamples

\* Without an answer nothing is found.
LEMMA NoAnswer ==
  ASSUME EvaluationFollows, evaluation # NoEvaluation, evaluation.samples = Nil
  PROVE  evaluation.outcome = "error" /\ evaluation.pods = {}
BY DEF EvaluationFollows, PodsOutOfBounds

LEMMA SameAmounts ==
  ASSUME NEW d, NEW p, NEW bad
  PROVE  Amount(d, p, bad) = AmountOf(d, evaluation.samples, p, bad)
BY DEF Amount, AmountOf

LEMMA SameSamples ==
  ASSUME NEW p
  PROVE  SampleCount(p) = Cardinality(SamplesOf(evaluation.samples, p))
BY DEF SampleCount, SamplesOf

\* For any strategy, listing and answer: no pod is cut but for a bad share that
\* exceeds the tolerance, rounding granted (buildCounters, GetPodsOutOfBounds).
THEOREM SparesHealthyPodsCorrect == Spec => []SparesHealthyPods
<1>1. EvaluationFollows => SparesHealthyPods
  <2> DEFINE d == evaluation.strategy.discrete
  <2> SUFFICES ASSUME EvaluationFollows, EvaluatedDiscrete, NEW p \in evaluation.pods
               PROVE  /\ evaluation.listing[p] = "yes"
                      /\ Amount(d, p, TRUE) * 100 >
                           d.tolerancePercent * (Amount(d, p, FALSE) - 10 * SampleCount(p))
    BY DEF SparesHealthyPods
  <2>1. evaluation.samples # Nil
    BY NoAnswer DEF EvaluatedDiscrete
  <2>2. /\ Parameters(d) /\ evaluation.listing \in Listings
        /\ evaluation.samples \in Seq(Samples)
        /\ p \in DiscreteOutOfBounds(d, evaluation.listing, evaluation.samples).pods
    BY <2>1, DiscreteEvaluation
  <2> HIDE DEF d
  <2>3. /\ evaluation.listing[p] = "yes"
        /\ AmountOf(d, evaluation.samples, p, TRUE) * 100 >
             d.tolerancePercent * (AmountOf(d, evaluation.samples, p, FALSE)
                                     - 10 * Cardinality(SamplesOf(evaluation.samples, p)))
    BY <2>2, FoundIsBad
  <2> QED BY <2>3, SameAmounts, SameSamples
<1> QED
  BY <1>1, EvaluationFollowsCorrect, PTL

\* For any strategy, listing and answer: an evaluation that succeeds misses no
\* pod whose whole samples are bad beyond the tolerance.
THEOREM FindsOffendersCorrect == Spec => []FindsOffenders
<1>1. EvaluationFollows => FindsOffenders
  <2> DEFINE d == evaluation.strategy.discrete
  <2> SUFFICES ASSUME EvaluationFollows, EvaluatedDiscrete, evaluation.outcome = "done",
                      NEW p \in Pods, evaluation.listing[p] = "yes",
                      \A i \in DOMAIN evaluation.samples :
                        evaluation.samples[i].amount % 10 = 0,
                      Amount(d, p, FALSE) >= 10 * d.minimumActivityCount,
                      Amount(d, p, TRUE) * 100 >= (d.tolerancePercent + 1) * Amount(d, p, FALSE),
                      Amount(d, p, TRUE) > 0
               PROVE  p \in evaluation.pods
    BY DEF FindsOffenders
  <2>1. evaluation.samples # Nil
    BY NoAnswer DEF EvaluatedDiscrete
  <2> HIDE DEF d
  <2> QED BY <2>1, DiscreteEvaluation, BadIsFound, SameAmounts DEF d
<1> QED
  BY <1>1, EvaluationFollowsCorrect, PTL

\* For any strategy, listing and answer: a continuous value is found exactly if
\* it is out of the bounds on either side (continuousvalueanalyser.go).
THEOREM FindsDeviationsCorrect == Spec => []FindsDeviations
<1>1. EvaluationFollows => FindsDeviations
  <2> DEFINE b == evaluation.strategy
             c == b.continuous
             listing == evaluation.listing
             samples == evaluation.samples
  <2> SUFFICES ASSUME EvaluationFollows, evaluation # NoEvaluation, c # Nil,
                      evaluation.outcome = "done", NEW i \in DOMAIN samples,
                      \A j \in DOMAIN samples : j > i => samples[j].pod # samples[i].pod,
                      listing[samples[i].pod] = "yes"
               PROVE  samples[i].pod \in evaluation.pods <=>
                        samples[i].amount \notin
                          100 - c.maxDeviationPercent .. 100 + c.maxDeviationPercent
    BY DEF FindsDeviations
  <2>1. /\ b \in BreakerStrategies /\ IsBreakerStrategyDefaulted(b) /\ OneAnomaly(b)
        /\ listing \in Listings /\ samples \in Optional(Answers)
        /\ evaluation.outcome = PodsOutOfBounds(b, listing, samples).outcome
        /\ evaluation.pods = PodsOutOfBounds(b, listing, samples).pods
    BY DEF EvaluationFollows, Usable, ValidateBreakerStrategy
  <2>2. c \in ContinuousStrategies /\ IsContinuousValueDeviationDefaulted(c)
    BY <2>1 DEF BreakerStrategies, Optional, IsBreakerStrategyDefaulted
  <2>3. c.maxDeviationPercent \in Nat
    BY <2>2 DEF ContinuousStrategies, Optional, IsContinuousValueDeviationDefaulted
  <2>4. b.discrete = Nil
    BY <2>1 DEF OneAnomaly
  <2>5. samples # Nil
    BY NoAnswer
  <2>6. samples \in Seq(Samples)
    BY <2>1, <2>5, AnswersAreSamples DEF Optional
  <2>7. PodsOutOfBounds(b, listing, samples) = ContinuousOutOfBounds(c, listing, samples)
    BY <2>4, <2>5 DEF PodsOutOfBounds
  <2>8. /\ ContinuousOutOfBounds(c, listing, samples).outcome = "done"
        /\ evaluation.pods = ContinuousOutOfBounds(c, listing, samples).pods
    BY <2>1, <2>7
  <2> HIDE DEF b, c, listing, samples
  <2> QED BY <2>1, <2>3, <2>6, <2>8, DeviationIsFound
<1> QED
  BY <1>1, EvaluationFollowsCorrect, PTL
=============================================================================
