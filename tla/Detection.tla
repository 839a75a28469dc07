------------------------------ MODULE Detection -----------------------------
(***************************************************************************)
(* The anomaly detectors (pkg/anomalydetector): from the pods the lister   *)
(* returns and the answer to the query, the pods out of bounds.  A listing *)
(* gives the traffic label of every ready pod it holds ("unset" when there *)
(* is none, or one nobody knows) and "absent" for any other pod.  An       *)
(* answer is a sequence of samples: a pod, a value of the metric, and the  *)
(* amount counted, in tenths, because Prometheus extrapolates what it      *)
(* counts over a range.  For a continuous value the amount is the ratio to *)
(* the mean of all pods, in percent.                                       *)
(***************************************************************************)
EXTENDS StrategySpec, SequencesExt

CONSTANT Pods  \* names of pods

Listings == [Pods -> {"yes", "no", "pause", "unset", "absent"}]
Samples == [pod : Pods, value : Values, amount : Nat]

Listed(listing, p) == listing[p] # "absent"

\* Mutant: pods out of traffic are judged too.
NobodyWithout(listing) == {}

\* podWithNoTraffic: IsPodTrafficLabelOkOrPause says no.
WithNoTraffic(listing) == {p \in Pods : listing[p] \in {"no", "pause"}}

\* IsPodTrafficLabelOkOrPause fails on one of the pods, and so the evaluation.
Unreadable(listing) == \E p \in Pods : listing[p] = "unset"

-----------------------------------------------------------------------------
(* Discrete values (discretevalueanalyser.go, prometheus.go).              *)

\* valueCheckerFunc: the good values include, without them the bad exclude.
ValueOk(d, value) ==
  IF d.goodValues # {} THEN value \in d.goodValues ELSE value \notin d.badValues

\* uint(sample.Value) drops the fraction of every sample.
Whole(amount) == amount \div 10

\* buildCounters: what the samples of a pod add up to.
Count(d, samples, p, ok) ==
  FoldLeft(LAMBDA sum, s : IF s.pod = p /\ ValueOk(d, s.value) = ok
                             THEN sum + Whole(s.amount) ELSE sum,
           0, samples)

Reporting(samples) == {samples[i].pod : i \in DOMAIN samples}

\* Mutant: the minimum itself is too little.
MinimumExceeded(d, ok, ko) ==
  ok + ko > d.minimumActivityCount /\ (ko * 100) \div (ok + ko) > d.tolerancePercent

\* Enough was counted, and the whole percentage of it that is bad exceeds the
\* tolerance.
ExceedsTolerance(d, ok, ko) ==
  ok + ko >= d.minimumActivityCount /\ (ko * 100) \div (ok + ko) > d.tolerancePercent

\* The integer division by zero, which ends the process.
DividesByZero(d, ok, ko) == ok + ko = 0 /\ d.minimumActivityCount = 0

DiscreteOutOfBounds(d, listing, samples) ==
  LET judged == Reporting(samples) \ WithNoTraffic(listing)
      Ok(p) == Count(d, samples, p, TRUE)
      Ko(p) == Count(d, samples, p, FALSE) IN
  IF Unreadable(listing) THEN [outcome |-> "error", pods |-> {}]
  ELSE IF \E p \in judged : DividesByZero(d, Ok(p), Ko(p))
    THEN [outcome |-> "panic", pods |-> {}]
    ELSE [outcome |-> "done",
          pods |-> {p \in judged : /\ ExceedsTolerance(d, Ok(p), Ko(p))
                                   /\ Listed(listing, p)}]

-----------------------------------------------------------------------------
(* Continuous values (continuousvalueanalyser.go, prometheus.go).          *)

\* The last sample of a pod overwrites the earlier ones.
Ratio(samples, p) ==
  FoldLeft(LAMBDA last, s : IF s.pod = p THEN s.amount ELSE last, 100, samples)

\* Mutant: what reaches the bound deviates too.
DeviatesAtBound(c, ratio) ==
  \/ ratio - 100 >= c.maxDeviationPercent
  \/ 100 - ratio >= c.maxDeviationPercent

Deviates(c, ratio) ==
  \/ ratio - 100 > c.maxDeviationPercent
  \/ 100 - ratio > c.maxDeviationPercent

\* No deviation is allowed: an error, unless nothing is reported.
ContinuousOutOfBounds(c, listing, samples) ==
  IF Unreadable(listing) \/ (samples # <<>> /\ c.maxDeviationPercent = 0)
    THEN [outcome |-> "error", pods |-> {}]
    ELSE [outcome |-> "done",
          pods |-> {p \in Reporting(samples) \ WithNoTraffic(listing) :
                      Deviates(c, Ratio(samples, p)) /\ Listed(listing, p)}]

-----------------------------------------------------------------------------
(* GetPodsOutOfBounds of the detector a strategy configures.  A custom     *)
(* service answers with pods, and they are returned as they are.  Nil is   *)
(* an answer that does not come, or that is not of the form expected.      *)

PodsOutOfBounds(b, listing, samples) ==
  CASE samples = Nil -> [outcome |-> "error", pods |-> {}]
    [] samples # Nil /\ b.discrete # Nil -> DiscreteOutOfBounds(b.discrete, listing, samples)
    [] samples # Nil /\ b.discrete = Nil /\ b.continuous # Nil ->
         ContinuousOutOfBounds(b.continuous, listing, samples)
    [] OTHER -> [outcome |-> "done", pods |-> Reporting(samples)]
=============================================================================
