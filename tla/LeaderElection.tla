-------------------------- MODULE LeaderElection ----------------------------
(***************************************************************************)
(* Leader election among the replicas of the controller                    *)
(* (pkg/leaderelection).  The record of the leader is an annotation of an  *)
(* Endpoints object, read and written with single requests; an update      *)
(* carries the resourceVersion of the last Get.  A replica tells the time  *)
(* by its own clock and only ever compares times of its own: how long ago  *)
(* it first saw the record as it is now.  Clocks run at the same rate.     *)
(*                                                                         *)
(* Two records written at different times differ in their renewTime, so    *)
(* that of a record the model keeps its holder, and of an observed record  *)
(* only whether it is still the stored one.                                *)
(***************************************************************************)
EXTENDS Integers, FiniteSets

CONSTANTS
  Replicas,        \* the identities: host names of the replicas
  NoOne,           \* stands for the holder of a record that does not exist
  LeaseDuration, RenewDeadline, RetryPeriod,   \* in ticks
  MaxMishaps       \* bound on failed or slow requests, crashes and stops

\* NewLeaderElector refuses other durations; jitterFactor is 1.2.
ValidConfig ==
  /\ LeaseDuration > RenewDeadline
  /\ 10 * RenewDeadline > 12 * RetryPeriod

ASSUME ElectionAssumption ==
  /\ NoOne \notin Replicas
  /\ LeaseDuration \in Nat /\ RenewDeadline \in Nat
  /\ RetryPeriod \in Nat \ {0} /\ MaxMishaps \in Nat
  /\ ValidConfig

VARIABLES
  holder,     \* HolderIdentity of the stored record
  phase,      \* candidate (acquire), leader (renewWithStop) or down
  stopped,    \* the stop channel of the process is closed
  attempt,    \* the call of tryAcquireOrRenew under way
  rest,       \* ticks until the next one
  polled,     \* ticks since wait.Poll began, for a leader
  seen,       \* observedRecord is the stored record
  age,        \* ticks since observedTime, LeaseDuration at most
  mishaps,
  \* Variables the code does not have; the properties refer to them.
  idle,       \* ticks since the record was written, LeaseDuration at most
  trouble     \* mishaps since then

replicaVars == <<phase, stopped, rest, polled>>
observedVars == <<seen, age>>
recordVars == <<holder, idle, trouble>>
vars == <<recordVars, replicaVars, observedVars, attempt, mishaps>>

NoAttempt == [at |-> "none", expired |-> FALSE, last |-> FALSE, current |-> FALSE]

Attempts == [at : {"none", "get", "create", "update"}, expired : BOOLEAN,
             last : BOOLEAN, current : BOOLEAN]

\* The pause of JitterUntil: RetryPeriod and up to jitterFactor times as much.
JitteredRetry == RetryPeriod..((22 * RetryPeriod) \div 10)

Init ==
  /\ holder = NoOne
  /\ idle = LeaseDuration /\ trouble = 0
  /\ phase = [r \in Replicas |-> "down"]
  /\ stopped = [r \in Replicas |-> FALSE]
  /\ attempt = [r \in Replicas |-> NoAttempt]
  /\ rest = [r \in Replicas |-> 0]
  /\ polled = [r \in Replicas |-> 0]
  /\ seen = [r \in Replicas |-> FALSE]
  /\ age = [r \in Replicas |-> LeaseDuration]
  /\ mishaps = 0

\* Types; and a leader that is not busy tries again before its poll is over.
TypeOK ==
  /\ holder \in Replicas \cup {NoOne}
  /\ phase \in [Replicas -> {"candidate", "leader", "down"}]
  /\ stopped \in [Replicas -> BOOLEAN]
  /\ attempt \in [Replicas -> Attempts]
  /\ rest \in [Replicas -> Nat]
  /\ polled \in [Replicas -> 0..RenewDeadline]
  /\ seen \in [Replicas -> BOOLEAN]
  /\ age \in [Replicas -> 0..LeaseDuration]
  /\ idle \in 0..LeaseDuration
  /\ mishaps \in 0..MaxMishaps /\ trouble \in 0..MaxMishaps
  /\ \A r \in Replicas : phase[r] = "leader" => rest[r] + polled[r] <= RenewDeadline

\* The lease is lost or the process told to stop: Run has ended or will.
Leads(r) == phase[r] = "leader" /\ ~stopped[r]

Mishap ==
  /\ mishaps < MaxMishaps
  /\ mishaps' = mishaps + 1

Troubled == Mishap /\ trouble' = trouble + 1
NoTrouble == UNCHANGED <<mishaps, trouble>>

-----------------------------------------------------------------------------
(* The loops around tryAcquireOrRenew.                                     *)

\* wait.Poll: at every tick of a ticker that started with it, and once more
\* when its timeout closes the channel.
NextTry(r) ==
  LET tick == RetryPeriod - (polled[r] % RetryPeriod)
      left == RenewDeadline - polled[r] IN
  IF tick < left THEN tick ELSE left

\* acquire: a candidate that did not succeed tries again after a while.
Retry(r) ==
  /\ phase[r] = "candidate"
  /\ \E pause \in JitteredRetry : rest' = [rest EXCEPT ![r] = pause]
  /\ UNCHANGED <<phase, polled>>

\* Run: a candidate that succeeded leads and begins to poll.  A replica that
\* was stopped meanwhile leads with a closed stop channel: it ends.
StartLeading(r) ==
  /\ phase[r] = "candidate"
  /\ IF stopped[r]
       THEN /\ phase' = [phase EXCEPT ![r] = "down"]
            /\ UNCHANGED <<rest, polled>>
       ELSE /\ phase' = [phase EXCEPT ![r] = "leader"]
            /\ polled' = [polled EXCEPT ![r] = 0]
            /\ rest' = [rest EXCEPT ![r] = RetryPeriod]

\* Mutant: the poll is given no timeout.
PollForEver(r) ==
  /\ phase[r] = "leader" /\ ~attempt[r].last
  /\ rest' = [rest EXCEPT ![r] = RetryPeriod]
  /\ UNCHANGED <<phase, polled>>

\* renewUntilFunc goes on polling.
PollOn(r) ==
  /\ phase[r] = "leader" /\ ~attempt[r].last
  /\ rest' = [rest EXCEPT ![r] = NextTry(r)]
  /\ UNCHANGED <<phase, polled>>

\* Mutant: wait.Until pauses between two calls of renewUntilFunc.
PollAfterPause(r) ==
  /\ phase[r] = "leader"
  /\ polled' = [polled EXCEPT ![r] = 0]
  /\ rest' = [rest EXCEPT ![r] = RenewDeadline]
  /\ UNCHANGED phase

\* renewUntilFunc returns, successful or not, and renewWithStop calls it again
\* unless the replica was stopped.
PollAgain(r) ==
  /\ phase[r] = "leader"
  /\ IF stopped[r]
       THEN /\ phase' = [phase EXCEPT ![r] = "down"]
            /\ UNCHANGED <<rest, polled>>
       ELSE /\ polled' = [polled EXCEPT ![r] = 0]
            /\ rest' = [rest EXCEPT ![r] = RetryPeriod]
            /\ UNCHANGED phase

Succeeded(r) ==
  /\ StartLeading(r) \/ PollAgain(r)
  /\ UNCHANGED stopped

Failed(r) ==
  /\ \/ Retry(r)
     \/ PollOn(r)
     \/ attempt[r].last /\ PollAgain(r)
  /\ UNCHANGED stopped

Done(r) == attempt' = [attempt EXCEPT ![r] = NoAttempt]

-----------------------------------------------------------------------------
(* tryAcquireOrRenew, request by request.                                  *)

\* The time is taken before the record is read.
Begin(r) ==
  /\ phase[r] # "down" /\ attempt[r].at = "none" /\ rest[r] = 0
  /\ phase[r] = "candidate" => ~stopped[r]
  /\ attempt' = [attempt EXCEPT ![r] =
       [at |-> "get", expired |-> age[r] = LeaseDuration, current |-> FALSE,
        last |-> phase[r] = "leader" /\ polled[r] = RenewDeadline]]
  /\ UNCHANGED <<recordVars, replicaVars, observedVars, mishaps>>

\* Mutant: the identity of the holder is not looked at.
HeldByAnyone(r) == ~seen[r] \/ ~attempt[r].expired

\* Mutant: a record that was seen before is taken for expired.
HeldAtFirstSight(r) == holder # r /\ ~seen[r]

\* Held by another and observed, for the first time just now or before, less
\* than LeaseDuration before this attempt.
HeldByOther(r) == holder # r /\ (~seen[r] \/ ~attempt[r].expired)

\* The answer to Get.
Got(r) ==
  /\ attempt[r].at = "get"
  /\ \/ /\ Troubled
        /\ Failed(r) /\ Done(r)
        /\ UNCHANGED observedVars
     \/ /\ holder = NoOne
        /\ attempt' = [attempt EXCEPT ![r].at = "create"]
        /\ NoTrouble
        /\ UNCHANGED <<replicaVars, observedVars>>
     \/ /\ holder # NoOne
        /\ seen' = [seen EXCEPT ![r] = TRUE]
        /\ age' = IF seen[r] THEN age ELSE [age EXCEPT ![r] = 0]
        /\ NoTrouble
        /\ \/ HeldByOther(r) /\ Failed(r) /\ Done(r)
           \/ /\ ~HeldByOther(r)
              /\ attempt' = [attempt EXCEPT ![r].at = "update", ![r].current = TRUE]
              /\ UNCHANGED replicaVars
  /\ UNCHANGED <<holder, idle>>

\* Create is refused if the object exists, Update if it changed since the Get.
Accepted(r) == IF attempt[r].at = "create" THEN holder = NoOne ELSE attempt[r].current

\* The record is written.  The writer keeps times that are finer than those it
\* will read back, so that to everyone the next record read is a new one.
Written(r) ==
  /\ holder' = r
  /\ idle' = 0
  /\ seen' = [q \in Replicas |-> FALSE]
  /\ attempt' = [q \in Replicas |-> IF q = r THEN NoAttempt
                                             ELSE [attempt[q] EXCEPT !.current = FALSE]]

\* The answer to Create or Update.  It may be lost after the write was done.
Put(r) ==
  /\ attempt[r].at \in {"create", "update"}
  /\ \/ /\ Accepted(r)
        /\ Written(r) /\ Succeeded(r)
        /\ age' = [age EXCEPT ![r] = 0]
        /\ trouble' = 0
        /\ UNCHANGED mishaps
     \/ /\ Accepted(r) /\ Mishap
        /\ Written(r) /\ Failed(r)
        /\ trouble' = 0
        /\ UNCHANGED age
     \/ /\ (~Accepted(r) /\ NoTrouble) \/ Troubled
        /\ Failed(r) /\ Done(r)
        /\ UNCHANGED <<holder, idle, observedVars>>

-----------------------------------------------------------------------------
(* Time, and the processes.                                                *)

Older(ticks, bound) == IF ticks < bound THEN ticks + 1 ELSE ticks
Sooner(ticks) == IF ticks > 0 THEN ticks - 1 ELSE ticks

\* Every attempt that was due has been made and answered.
Quiet == \A r \in Replicas : phase[r] # "down" => attempt[r].at = "none" /\ rest[r] > 0

Tick ==
  /\ (Quiet /\ NoTrouble) \/ (~Quiet /\ Troubled)
  /\ idle' = Older(idle, LeaseDuration)
  /\ age' = [r \in Replicas |-> Older(age[r], LeaseDuration)]
  /\ rest' = [r \in Replicas |-> Sooner(rest[r])]
  /\ polled' = [r \in Replicas |-> IF phase[r] = "leader"
                                     THEN Older(polled[r], RenewDeadline) ELSE polled[r]]
  /\ UNCHANGED <<holder, phase, stopped, seen, attempt>>

\* The kubelet starts the container, under the same host name; nothing is
\* remembered of the record.
Start(r) ==
  /\ phase[r] = "down"
  /\ phase' = [phase EXCEPT ![r] = "candidate"]
  /\ stopped' = [stopped EXCEPT ![r] = FALSE]
  /\ rest' = [rest EXCEPT ![r] = 0]
  /\ seen' = [seen EXCEPT ![r] = FALSE]
  /\ age' = [age EXCEPT ![r] = LeaseDuration]
  /\ UNCHANGED <<recordVars, polled, attempt, mishaps>>

Crash(r) ==
  /\ Troubled
  /\ phase[r] # "down"
  /\ phase' = [phase EXCEPT ![r] = "down"]
  /\ Done(r)
  /\ UNCHANGED <<holder, idle, stopped, rest, polled, observedVars>>

\* HandleSignal closes the stop channel: the workers end, the loops see it the
\* next time they look.
Stop(r) ==
  /\ Troubled
  /\ phase[r] # "down" /\ ~stopped[r]
  /\ stopped' = [stopped EXCEPT ![r] = TRUE]
  /\ UNCHANGED <<holder, idle, phase, rest, polled, observedVars, attempt>>

\* acquire returns because of the stop, and Run leads without a lease: with a
\* closed stop channel, so that run and renewWithStop return at once.
EndCandidate(r) ==
  /\ phase[r] = "candidate" /\ stopped[r]
  /\ attempt[r].at = "none" /\ rest[r] = 0
  /\ phase' = [phase EXCEPT ![r] = "down"]
  /\ UNCHANGED <<recordVars, stopped, rest, polled, observedVars, attempt, mishaps>>

ReplicaStep(r) == Begin(r) \/ Got(r) \/ Put(r) \/ Start(r) \/ EndCandidate(r)

Next ==
  \/ Tick
  \/ \E r \in Replicas : ReplicaStep(r) \/ Crash(r) \/ Stop(r)

Spec == Init /\ [][Next]_vars

\* Requests are answered, loops go on and time passes.
Fairness == WF_vars(Tick) /\ \A r \in Replicas : WF_vars(ReplicaStep(r))

FairSpec == Spec /\ Fairness

-----------------------------------------------------------------------------
(* Properties.                                                             *)

LeaseOf == INSTANCE Lease

\* Whatever is slow, lost or restarted, the record changes hands only when it
\* has not been renewed for LeaseDuration (tryAcquireOrRenew).
ImplementsLease == LeaseOf!Spec

\* How many times a leader tries to renew within one lease.
Patience ==
  Cardinality({t \in 1..(LeaseDuration - 1) : (t % RenewDeadline) % RetryPeriod = 0})

\* A running leader does not lose the record to another replica unless as many
\* things went wrong since it was last written as there were attempts to renew
\* it: the durations fit together (controller.go:52).
NoSpuriousTakeover ==
  [][\A r \in Replicas :
       Leads(r) /\ holder = r /\ holder' # r => trouble >= Patience]_vars

\* Once nothing goes wrong any more one replica holds the record and leads, and
\* this remains so: no dead holder blocks the others, and no two alternate.
LeadershipSettles == \E r \in Replicas : <>[](Leads(r) /\ holder = r)

\* A leader that did not renew its lease in time gives up
\* (leaderelection.go:94).
Deposed(r) == Leads(r) /\ holder # r
DeposedLeaderGivesUp == \A r \in Replicas : Deposed(r) ~> ~Deposed(r)
=============================================================================
