---------------------------- MODULE PodLifecycle ----------------------------
(***************************************************************************)
(* What Kubervisor promises about one pod, without saying how: the circuit *)
(* breaker of docs/README.md.  A pod in traffic may be cut; a cut pod comes*)
(* back when its back-off is over, at most MaxRetry times, or is paused    *)
(* for ever or killed once its retries are exhausted.  An activator whose  *)
(* mode is none of the documented ones promises nothing.  There is no API  *)
(* server, no cache and no loop here: a phase changes in one step.         *)
(***************************************************************************)
EXTENDS Integers

CONSTANTS Pods, Activators, Mode, Period, MaxRetry, Second

VARIABLES
  phase,    \* where each pod is in its life
  cuts,     \* how many times it has been cut
  cutAt,    \* when it was last cut
  clock

lifecycleVars == <<phase, cuts, cutAt, clock>>

Phases == {"free", "new", "in", "out", "paused", "killed"}

Init ==
  /\ phase \in [Pods -> {"free", "in"}]
  /\ cuts = [p \in Pods |-> 0]
  /\ cutAt = [p \in Pods |-> 0]
  /\ clock = 0

Living(p) == phase[p] \in Phases \ {"free", "killed"}

Move(p, to) == phase' = [phase EXCEPT ![p] = to]

\* The period of activator a has passed cuts[p] times (once in periodic mode)
\* since the cut, less the fraction of a second that breakAt does not record.
BackOffOver(a, p) ==
  /\ Mode[a] # "other"
  /\ clock - cutAt[p] > (IF Mode[a] = "periodic" THEN 1 ELSE cuts[p]) * Period[a] - Second

Exhausted(a, p) ==
  Mode[a] \in {"retryAndKill", "retryAndPause"} /\ cuts[p] > MaxRetry[a]

Create(p) ==
  /\ ~Living(p)
  /\ Move(p, "new")
  /\ cuts' = [cuts EXCEPT ![p] = 0]
  /\ cutAt' = [cutAt EXCEPT ![p] = 0]
  /\ UNCHANGED clock

Adopt(p) ==
  /\ phase[p] = "new"
  /\ Move(p, "in")
  /\ UNCHANGED <<cuts, cutAt, clock>>

Cut(p) ==
  /\ phase[p] = "in"
  /\ Move(p, "out")
  /\ cuts' = [cuts EXCEPT ![p] = @ + 1]
  /\ cutAt' = [cutAt EXCEPT ![p] = clock]
  /\ UNCHANGED clock

Reactivate(p) ==
  /\ phase[p] = "out"
  /\ \E a \in Activators : BackOffOver(a, p) /\ ~Exhausted(a, p)
  /\ Move(p, "in")
  /\ UNCHANGED <<cuts, cutAt, clock>>

Pause(p) ==
  /\ phase[p] = "out"
  /\ \E a \in Activators : Mode[a] = "retryAndPause" /\ Exhausted(a, p)
  /\ Move(p, "paused")
  /\ UNCHANGED <<cuts, cutAt, clock>>

Kill(p) ==
  /\ Living(p)
  /\ \E a \in Activators : Exhausted(a, p)
  /\ Move(p, "killed")
  /\ UNCHANGED <<cuts, cutAt, clock>>

Lose(p) ==
  /\ Living(p)
  /\ Move(p, "free")
  /\ UNCHANGED <<cuts, cutAt, clock>>

TimePasses ==
  /\ clock' = clock + 1
  /\ UNCHANGED <<phase, cuts, cutAt>>

Next ==
  \/ TimePasses
  \/ \E p \in Pods : \/ Create(p) \/ Adopt(p) \/ Cut(p) \/ Reactivate(p)
                     \/ Pause(p) \/ Kill(p) \/ Lose(p)

Spec == Init /\ [][Next]_lifecycleVars
=============================================================================
