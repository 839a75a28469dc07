------------------------------- MODULE Breaker ------------------------------
(***************************************************************************)
(* The breaker loops of one KubervisorService (pkg/breaker/breaker.go),    *)
(* one per breaker strategy, all running concurrently over one cache.  An  *)
(* evaluation asks the anomaly detector for the pods out of bounds, lists  *)
(* the pods in traffic, computes how many may be cut, and then cuts them   *)
(* with one API request each.  The detector reads the cache before its     *)
(* analysis (a Prometheus query) and the breaker reads it again after, so  *)
(* the two see different caches; the requests use the detector's copies.   *)
(***************************************************************************)
EXTENDS PodControl

CONSTANTS
  MinCount,          \* minPodsAvailableCount of each strategy, 0 when unset
  MinRatio,          \* minPodsAvailableRatio of each strategy, 0 when unset
  CustomDetector,    \* the strategies whose detector is a CustomService
  SyncedEvaluation   \* TRUE: no watch event outlives an evaluation period

ASSUME BreakerAssumption ==
  /\ MinCount \in [Breakers -> Nat]
  /\ MinRatio \in [Breakers -> Nat]
  /\ CustomDetector \subseteq Breakers
  /\ SyncedEvaluation \in BOOLEAN

VARIABLES
  suspects,   \* podsToCut: the copies the detector returned, not yet cut
  listed,     \* len(withTraffic) of the evaluation under way
  budget      \* how many suspects are still to be cut, or Undecided

breakerVars == <<suspects, listed, budget>>

Undecided == -1

BreakerInit ==
  /\ suspects = [b \in Breakers |-> {}]
  /\ listed = [b \in Breakers |-> 0]
  /\ budget = [b \in Breakers |-> Undecided]

BreakerTypeOK ==
  /\ suspects \in [Breakers -> SUBSET PodObjects]
  /\ \A b \in Breakers : IsFiniteSet(suspects[b])
  /\ listed \in [Breakers -> Nat]
  /\ budget \in [Breakers -> Nat \cup {Undecided}]

MinOf(m, n) == IF m < n THEN m ELSE n
MaxOf(m, n) == IF m > n THEN m ELSE n

\* Mutant: the count is taken, whatever the ratio.
MinAvailableCountOnly(b, podCount) == MinCount[b]

\* computeMinAvailablePods
MinAvailablePods(b, podCount) ==
  MaxOf((podCount * MinRatio[b]) \div 100, MinCount[b])

\* removeCount of Run
RemoveCount(b, inTraffic, found) ==
  MaxOf(0, MinOf(inTraffic - MinAvailablePods(b, inTraffic), found))

\* What a detector may return.  The built-in analysers fail when a ready pod
\* has no traffic label, ignore pods that are not in traffic, and return any
\* of the others in the order of a Go map.  A CustomService returns any pods.
PodsOutOfBounds(b) ==
  IF b \in CustomDetector
    THEN {server[p] : p \in {q \in Pods : server[q].exists}}
    ELSE IF \E o \in ReadyPods(Cached) : o.traffic = "unset"
           THEN {}
           ELSE WithTrafficYes(Cached)

DetectAnomalies(b) ==
  /\ suspects[b] = {}
  /\ \E found \in SUBSET PodsOutOfBounds(b) \ {{}} :
       suspects' = [suspects EXCEPT ![b] = found]
  /\ UNCHANGED <<podVars, listed, budget>>

EndEvaluation(b) ==
  /\ suspects' = [suspects EXCEPT ![b] = {}]
  /\ listed' = [listed EXCEPT ![b] = 0]
  /\ budget' = [budget EXCEPT ![b] = Undecided]

DecideRemoveCount(b) ==
  LET inTraffic == Cardinality(WithTrafficYes(Cached))
      count == RemoveCount(b, inTraffic, Cardinality(suspects[b])) IN
  /\ suspects[b] # {}
  /\ budget[b] = Undecided
  /\ SyncedEvaluation => events = <<>>
  /\ IF count = 0
       THEN EndEvaluation(b)
       ELSE /\ listed' = [listed EXCEPT ![b] = inTraffic]
            /\ budget' = [budget EXCEPT ![b] = count]
            /\ UNCHANGED suspects
  /\ UNCHANGED podVars

\* podsToCut[:removeCount] of a list in no particular order: any suspect next.
CutPod(b) ==
  /\ budget[b] > 0
  /\ \E copy \in suspects[b] :
       /\ UpdateBreakerAnnotationAndLabel(copy, b)
       /\ IF budget[b] = 1
            THEN EndEvaluation(b)
            ELSE /\ suspects' = [suspects EXCEPT ![b] = @ \ {copy}]
                 /\ budget' = [budget EXCEPT ![b] = @ - 1]
                 /\ UNCHANGED listed
  /\ UNCHANGED <<cache, now>>

BreakerStep(b) == DetectAnomalies(b) \/ DecideRemoveCount(b) \/ CutPod(b)
=============================================================================
