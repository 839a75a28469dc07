------------------------------ MODULE Activator -----------------------------
(***************************************************************************)
(* The activator loops of one KubervisorService (pkg/activate/activator.go)*)
(* the default one and one per breaker strategy that configures one.  At   *)
(* each tick of its second an activator lists the pods cut from traffic,   *)
(* whichever strategy cut them, and then brings each of the copies back    *)
(* into traffic, kills it, pauses it, or leaves it for a later tick.       *)
(***************************************************************************)
EXTENDS PodControl

CONSTANTS
  Activators,    \* names of the activators of the service
  Strategy,      \* breakerStrategyName of each, NoStrategy for the default one
  Mode,          \* mode of each
  Period,        \* period of each, in ticks
  MaxRetry,      \* maxRetryCount of each
  MaxPause       \* maxPauseCount of each

\* The mode is a free string that the validation lets through: "other" stands
\* for every string the switch of applyActivatorStrategy has no case for.
Modes == {"periodic", "retryAndKill", "retryAndPause", "other"}

ASSUME ActivatorAssumption ==
  /\ Strategy \in [Activators -> Breakers \cup {NoStrategy}]
  /\ Mode \in [Activators -> Modes]
  /\ Period \in [Activators -> Nat]
  /\ MaxRetry \in [Activators -> Nat]
  /\ MaxPause \in [Activators -> Nat]

VARIABLE todo    \* the listed copies an activator has not yet treated

activatorVars == <<todo>>

ActivatorInit == todo = [a \in Activators |-> {}]

ActivatorTypeOK == todo \in [Activators -> SUBSET PodObjects]

ListCutPods(a) ==
  /\ todo[a] = {}
  /\ WithTraffic(Cached, "no") # {}
  /\ todo' = [todo EXCEPT ![a] = WithTraffic(Cached, "no")]
  /\ UNCHANGED podVars

\* Mutant: the retry count does not multiply the period.
RetryTimeOnce(a, copy) == copy.breakAt + Period[a]

\* retrytime of applyActivatorStrategy: the retry count multiplies the
\* period, except in periodic mode.
RetryTime(a, copy) ==
  copy.breakAt + (IF Mode[a] = "periodic" THEN 1 ELSE copy.retry) * Period[a]

CountsRetries(a) == Mode[a] \in {"retryAndKill", "retryAndPause"}

\* Mutant: exhausted one retry too early.
ExhaustedEarly(a, copy) == CountsRetries(a) /\ copy.retry >= MaxRetry[a]

\* The retries of a copy are used up: time to kill or pause.
Exhausted(a, copy) == CountsRetries(a) /\ copy.retry > MaxRetry[a]

\* Mutant: a retry as in periodic mode, exhausted or not.
RetryAsPeriodic(a, copy) == copy.breakAt + Period[a] < now

\* The back-off of a copy is over: time to put it back into traffic.
RetryDue(a, copy) ==
  /\ Mode[a] # "other"
  /\ ~Exhausted(a, copy)
  /\ RetryTime(a, copy) < now

PauseFull(a) == Cardinality(WithTraffic(Cached, "pause")) >= MaxPause[a]

Reactivate(a, copy) ==
  /\ RetryDue(a, copy)
  /\ SetTrafficLabel(copy, "yes")

Pause(a, copy) ==
  /\ Mode[a] = "retryAndPause" /\ Exhausted(a, copy) /\ ~PauseFull(a)
  /\ SetTrafficLabel(copy, "pause")

Kill(a, copy) ==
  /\ Exhausted(a, copy)
  /\ Mode[a] = "retryAndPause" => PauseFull(a)
  /\ KillPod(copy)

Wait(a, copy) ==
  /\ ~Exhausted(a, copy) /\ ~RetryDue(a, copy)
  /\ UNCHANGED <<server, events, mishaps, cuts, cutAt, killed>>

\* applyActivatorStrategy on one listed pod; an error goes on with the next.
\* In an unknown mode it does nothing.
ApplyActivatorStrategy(a) ==
  /\ \E copy \in todo[a] :
       /\ \/ Reactivate(a, copy)
          \/ Pause(a, copy)
          \/ Kill(a, copy)
          \/ Wait(a, copy)
       /\ todo' = [todo EXCEPT ![a] = @ \ {copy}]
  /\ UNCHANGED <<cache, now>>

ActivatorStep(a) == ListCutPods(a) \/ ApplyActivatorStrategy(a)
=============================================================================
