------------------------ MODULE LeaderElectionProofs ------------------------
(***************************************************************************)
(* For any replicas, durations and mishaps: the variables keep their types *)
(* and the record is a lease.  What a replica observed of the record is    *)
(* never older than the record itself, and only a record that is as old as *)
(* a lease is written over by another replica, unless the write is refused.*)
(* A leader that loses the record has failed at every try that a lease has *)
(* room for: the last part counts them.                                    *)
(***************************************************************************)
EXTENDS LeaderElection, FiniteSetTheorems, TLAPS

\* What each replica observed began after the record was written.
ObservedSince == \A r \in Replicas : seen[r] => age[r] <= idle

\* An attempt that found the observed record expired is right about the record.
ExpiredWhenAsked == \A r \in Replicas :
  attempt[r].at = "get" /\ attempt[r].expired /\ seen[r] => idle = LeaseDuration

\* An update that can still be accepted takes an expired record, or one's own.
ExpiredWhenTaken == \A r \in Replicas :
  attempt[r].at = "update" /\ attempt[r].current /\ holder # r => idle = LeaseDuration

\* The inductive invariant.
Inv ==
  /\ TypeOK
  /\ trouble <= mishaps
  /\ ObservedSince
  /\ ExpiredWhenAsked
  /\ ExpiredWhenTaken

\* A poll takes longer than a retry: its first try is due before it is over.
LEMMA RetryFits == RetryPeriod \in Nat /\ RenewDeadline \in Nat /\ RetryPeriod < RenewDeadline
BY ElectionAssumption DEF ValidConfig

LEMMA InitInv == Init => Inv
<1> SUFFICES ASSUME Init PROVE Inv
  OBVIOUS
<1>1. TypeOK
  BY ElectionAssumption DEF Init, TypeOK, NoAttempt, Attempts
<1>2. ObservedSince /\ ExpiredWhenAsked /\ ExpiredWhenTaken /\ trouble <= mishaps
  BY DEF Init, NoAttempt, ObservedSince, ExpiredWhenAsked, ExpiredWhenTaken
<1> QED
  BY <1>1, <1>2 DEF Inv

-----------------------------------------------------------------------------
(* Types.                                                                  *)

\* What the loops keep of the types of a replica, next to the other variables.
LoopTypeOK ==
  /\ phase \in [Replicas -> {"candidate", "leader", "down"}]
  /\ stopped \in [Replicas -> BOOLEAN]
  /\ rest \in [Replicas -> Nat]
  /\ polled \in [Replicas -> 0..RenewDeadline]
  /\ \A r \in Replicas : phase[r] = "leader" => rest[r] + polled[r] <= RenewDeadline

\* The next tick of a poll that is not over comes before its timeout.
LEMMA NextTryInTime ==
  ASSUME NEW r \in Replicas, LoopTypeOK
  PROVE  NextTry(r) \in Nat /\ NextTry(r) + polled[r] <= RenewDeadline
<1>1. polled[r] \in 0..RenewDeadline /\ RetryPeriod \in Nat \ {0} /\ RenewDeadline \in Nat
  BY ElectionAssumption DEF LoopTypeOK
<1>2. polled[r] % RetryPeriod \in 0..(RetryPeriod - 1)
  BY <1>1
<1> QED
  BY <1>1, <1>2 DEF NextTry

LEMMA SucceededType ==
  ASSUME NEW r \in Replicas, LoopTypeOK, Succeeded(r)
  PROVE  LoopTypeOK'
<1>1. CASE StartLeading(r)
  BY <1>1, RetryFits DEF Succeeded, StartLeading, LoopTypeOK
<1>2. CASE PollAgain(r)
  BY <1>2, RetryFits DEF Succeeded, PollAgain, LoopTypeOK
<1> QED BY <1>1, <1>2 DEF Succeeded

LEMMA FailedType ==
  ASSUME NEW r \in Replicas, LoopTypeOK, Failed(r)
  PROVE  LoopTypeOK'
<1>1. CASE Retry(r)
  <2>1. PICK pause \in JitteredRetry : rest' = [rest EXCEPT ![r] = pause]
    BY <1>1 DEF Retry
  <2>2. pause \in Nat
    BY RetryFits DEF JitteredRetry
  <2> QED BY <1>1, <2>1, <2>2 DEF Failed, Retry, LoopTypeOK
<1>2. CASE PollOn(r)
  <2> DEFINE next == NextTry(r)
  <2>1. next \in Nat /\ next + polled[r] <= RenewDeadline
    BY NextTryInTime
  <2>2. rest' = [rest EXCEPT ![r] = next] /\ UNCHANGED <<phase, polled, stopped>>
    BY <1>2 DEF Failed, PollOn
  <2> HIDE DEF next
  <2> QED BY <2>1, <2>2 DEF LoopTypeOK
<1>3. CASE PollAgain(r)
  BY <1>3, RetryFits DEF Failed, PollAgain, LoopTypeOK
<1> QED BY <1>1, <1>2, <1>3 DEF Failed

\* The rest of TypeOK, for a step that keeps the record and the bounds.
LEMMA TypeAfter ==
  ASSUME LoopTypeOK', holder' \in Replicas \cup {NoOne},
         attempt' \in [Replicas -> Attempts],
         seen' \in [Replicas -> BOOLEAN], age' \in [Replicas -> 0..LeaseDuration],
         idle' \in 0..LeaseDuration,
         mishaps' \in 0..MaxMishaps, trouble' \in 0..MaxMishaps
  PROVE  TypeOK'
BY DEF TypeOK, LoopTypeOK

\* A step of the loops that neither writes the record nor takes time.
Counted == mishaps' \in 0..MaxMishaps /\ trouble' \in 0..MaxMishaps /\ trouble' <= mishaps'

LEMMA TroubleCounted ==
  ASSUME TypeOK, trouble <= mishaps, NoTrouble \/ Troubled
  PROVE  Counted
BY ElectionAssumption DEF TypeOK, NoTrouble, Troubled, Mishap, Counted

\* What an attempt asks or keeps is of the types of Attempts.
LEMMA AttemptTypes ==
  ASSUME TypeOK, NEW r \in Replicas
  PROVE  /\ attempt[r] \in Attempts
         /\ Done(r) => attempt' \in [Replicas -> Attempts]
<1>1. attempt \in [Replicas -> Attempts]
  BY DEF TypeOK
<1>2. NoAttempt \in Attempts
  BY DEF NoAttempt, Attempts
<1> QED
  BY <1>1, <1>2 DEF Done

LEMMA GotInv ==
  ASSUME Inv, NEW r \in Replicas, Got(r)
  PROVE  Inv'
<1> USE DEF Inv
<1>1. LoopTypeOK
  BY DEF TypeOK, LoopTypeOK
<1>2. holder' = holder /\ idle' = idle /\ attempt[r].at = "get"
  BY DEF Got
<1>3. Counted
  BY TroubleCounted DEF Got
<1>4. CASE Troubled /\ Failed(r) /\ Done(r) /\ UNCHANGED observedVars
  <2>1. LoopTypeOK'
    BY <1>1, <1>4, FailedType
  <2>2. TypeOK'
    BY <2>1, <1>2, <1>3, <1>4, TypeAfter, AttemptTypes DEF TypeOK, Counted, observedVars
  <2>3. ObservedSince' /\ ExpiredWhenAsked' /\ ExpiredWhenTaken'
    BY <1>2, <1>4 DEF Done, NoAttempt, observedVars, ObservedSince, ExpiredWhenAsked,
                      ExpiredWhenTaken, TypeOK
  <2> QED BY <2>2, <2>3, <1>3 DEF Counted
<1>5. CASE /\ attempt' = [attempt EXCEPT ![r].at = "create"]
           /\ NoTrouble /\ UNCHANGED <<replicaVars, observedVars>>
  <2>1. LoopTypeOK'
    BY <1>1, <1>5 DEF LoopTypeOK, replicaVars
  <2>2. attempt' \in [Replicas -> Attempts]
    BY <1>5 DEF TypeOK, Attempts
  <2>3. TypeOK'
    BY <2>1, <2>2, <1>2, <1>3, <1>5, TypeAfter DEF TypeOK, Counted, observedVars
  <2>4. ObservedSince' /\ ExpiredWhenAsked' /\ ExpiredWhenTaken'
    BY <1>2, <1>5 DEF observedVars, ObservedSince, ExpiredWhenAsked, ExpiredWhenTaken, TypeOK
  <2> QED BY <2>3, <2>4, <1>3 DEF Counted
<1>6. CASE /\ seen' = [seen EXCEPT ![r] = TRUE]
           /\ age' = IF seen[r] THEN age ELSE [age EXCEPT ![r] = 0]
           /\ NoTrouble
           /\ \/ HeldByOther(r) /\ Failed(r) /\ Done(r)
              \/ /\ ~HeldByOther(r)
                 /\ attempt' = [attempt EXCEPT ![r].at = "update", ![r].current = TRUE]
                 /\ UNCHANGED replicaVars
  <2>1. LoopTypeOK'
    BY <1>1, <1>6, FailedType DEF LoopTypeOK, replicaVars
  <2>2. attempt' \in [Replicas -> Attempts]
    <3>1. CASE Done(r)
      BY <3>1, AttemptTypes
    <3>2. CASE attempt' = [attempt EXCEPT ![r].at = "update", ![r].current = TRUE]
      BY <3>2 DEF TypeOK, Attempts
    <3> QED BY <1>6, <3>1, <3>2
  <2>3. seen' \in [Replicas -> BOOLEAN] /\ age' \in [Replicas -> 0..LeaseDuration]
    BY <1>6, ElectionAssumption DEF TypeOK
  <2>4. TypeOK'
    BY <2>1, <2>2, <2>3, <1>2, <1>3, TypeAfter DEF TypeOK, Counted
  <2>5. ObservedSince'
    BY <1>2, <1>6 DEF ObservedSince, TypeOK
  <2>6. ASSUME NEW q \in Replicas \ {r}
        PROVE  attempt'[q] = attempt[q] /\ seen'[q] = seen[q]
    BY <1>6 DEF TypeOK, Done
  <2>7. attempt'[r].at \in {"none", "update"}
    BY <1>6 DEF TypeOK, Done, NoAttempt, Attempts
  <2>8. ExpiredWhenAsked'
    BY <1>2, <2>6, <2>7 DEF ExpiredWhenAsked
  <2>9. attempt'[r].at = "update" /\ holder # r => idle = LeaseDuration
    BY <1>2, <1>6 DEF HeldByOther, ExpiredWhenAsked, Done, NoAttempt, TypeOK
  <2>10. ExpiredWhenTaken'
    BY <1>2, <2>6, <2>9 DEF ExpiredWhenTaken
  <2> QED BY <2>4, <2>5, <2>8, <2>10, <1>3 DEF Counted
<1> QED
  BY <1>4, <1>5, <1>6 DEF Got

\* Writing the record makes it new to everyone and every other update old.
LEMMA WrittenInv ==
  ASSUME Inv, NEW r \in Replicas, Written(r), LoopTypeOK', Counted,
         age' \in [Replicas -> 0..LeaseDuration]
  PROVE  Inv'
<1>1. attempt' \in [Replicas -> Attempts]
  BY DEF Written, Inv, TypeOK, Attempts, NoAttempt
<1>2. idle' = 0 /\ holder' = r /\ seen' = [q \in Replicas |-> FALSE]
  BY DEF Written
<1>3. TypeOK'
  BY <1>1, <1>2, TypeAfter, ElectionAssumption DEF Counted
<1>4. ObservedSince' /\ ExpiredWhenAsked'
  BY <1>2 DEF ObservedSince, ExpiredWhenAsked
<1>5. ASSUME NEW q \in Replicas PROVE ~attempt'[q].current
  BY DEF Written, NoAttempt, Inv, TypeOK, Attempts
<1>6. ExpiredWhenTaken'
  BY <1>5 DEF ExpiredWhenTaken
<1> QED
  BY <1>3, <1>4, <1>6 DEF Inv, Counted

LEMMA PutInv ==
  ASSUME Inv, NEW r \in Replicas, Put(r)
  PROVE  Inv'
<1>1. LoopTypeOK
  BY DEF Inv, TypeOK, LoopTypeOK
<1>2. CASE /\ Accepted(r) /\ Written(r) /\ Succeeded(r)
           /\ age' = [age EXCEPT ![r] = 0] /\ trouble' = 0 /\ UNCHANGED mishaps
  <2>1. LoopTypeOK'
    BY <1>1, <1>2, SucceededType
  <2>2. Counted /\ age' \in [Replicas -> 0..LeaseDuration]
    BY <1>2, ElectionAssumption DEF Inv, TypeOK, Counted
  <2> QED BY <1>2, <2>1, <2>2, WrittenInv
<1>3. CASE /\ Accepted(r) /\ Mishap /\ Written(r) /\ Failed(r)
           /\ trouble' = 0 /\ UNCHANGED age
  <2>1. LoopTypeOK'
    BY <1>1, <1>3, FailedType
  <2>2. Counted /\ age' \in [Replicas -> 0..LeaseDuration]
    BY <1>3, ElectionAssumption DEF Inv, TypeOK, Counted, Mishap
  <2> QED BY <1>3, <2>1, <2>2, WrittenInv
<1>4. CASE /\ (~Accepted(r) /\ NoTrouble) \/ Troubled
           /\ Failed(r) /\ Done(r) /\ UNCHANGED <<holder, idle, observedVars>>
  <2>1. LoopTypeOK'
    BY <1>1, <1>4, FailedType
  <2>2. Counted
    BY <1>4, TroubleCounted DEF Inv
  <2>3. TypeOK'
    BY <2>1, <2>2, <1>4, TypeAfter, AttemptTypes DEF Inv, TypeOK, Counted, observedVars
  <2>4. ObservedSince' /\ ExpiredWhenAsked' /\ ExpiredWhenTaken'
    BY <1>4 DEF Inv, Done, NoAttempt, observedVars, ObservedSince, ExpiredWhenAsked,
                ExpiredWhenTaken, TypeOK
  <2> QED BY <2>2, <2>3, <2>4 DEF Inv, Counted
<1> QED
  BY <1>2, <1>3, <1>4 DEF Put

LEMMA BeginInv ==
  ASSUME Inv, NEW r \in Replicas, Begin(r)
  PROVE  Inv'
<1> DEFINE begun == [at |-> "get", expired |-> age[r] = LeaseDuration, current |-> FALSE,
                     last |-> phase[r] = "leader" /\ polled[r] = RenewDeadline]
<1>1. attempt' = [attempt EXCEPT ![r] = begun]
  BY DEF Begin
<1>2. begun \in Attempts /\ begun.at = "get" /\ begun.expired = (age[r] = LeaseDuration)
  BY DEF Attempts
<1> HIDE DEF begun
<1>3. UNCHANGED <<recordVars, replicaVars, observedVars, mishaps>>
  BY DEF Begin
<1>4. TypeOK'
  BY <1>1, <1>2, <1>3 DEF Inv, TypeOK, recordVars, replicaVars, observedVars
<1>5. ObservedSince' /\ trouble' <= mishaps'
  BY <1>3 DEF Inv, ObservedSince, recordVars, observedVars
<1>6. ExpiredWhenAsked'
  <2>1. seen[r] /\ age[r] = LeaseDuration => idle = LeaseDuration
    BY ElectionAssumption DEF Inv, ObservedSince, TypeOK
  <2> QED BY <1>1, <1>2, <1>3, <2>1
          DEF Inv, TypeOK, ExpiredWhenAsked, recordVars, observedVars
<1>7. ExpiredWhenTaken'
  BY <1>1, <1>2, <1>3 DEF Inv, TypeOK, ExpiredWhenTaken, recordVars
<1> QED
  BY <1>4, <1>5, <1>6, <1>7 DEF Inv

LEMMA TickInv ==
  ASSUME Inv, Tick
  PROVE  Inv'
<1>1. Counted
  BY TroubleCounted DEF Inv, Tick
<1>2. idle' \in 0..LeaseDuration /\ idle' >= idle /\ (idle = LeaseDuration => idle' = idle)
  BY ElectionAssumption DEF Inv, TypeOK, Tick, Older
<1>3. ASSUME NEW r \in Replicas
      PROVE  /\ age'[r] \in 0..LeaseDuration
             /\ age[r] <= idle => age'[r] <= idle'
             /\ rest'[r] \in Nat /\ polled'[r] \in 0..RenewDeadline
             /\ phase'[r] = "leader" => rest'[r] + polled'[r] <= RenewDeadline
  BY ElectionAssumption DEF Inv, TypeOK, Tick, Older, Sooner
<1>4. /\ age' \in [Replicas -> 0..LeaseDuration] /\ rest' \in [Replicas -> Nat]
      /\ polled' \in [Replicas -> 0..RenewDeadline]
  <2>1. /\ age' = [r \in Replicas |-> age'[r]]
        /\ rest' = [r \in Replicas |-> rest'[r]]
        /\ polled' = [r \in Replicas |-> polled'[r]]
    BY DEF Tick
  <2> QED BY <1>3, <2>1
<1>5. UNCHANGED <<holder, phase, stopped, seen, attempt>>
  BY DEF Tick
<1>6. TypeOK'
  BY <1>1, <1>2, <1>3, <1>4, <1>5 DEF Inv, TypeOK, Counted
<1>7. ObservedSince' /\ ExpiredWhenAsked' /\ ExpiredWhenTaken'
  BY <1>2, <1>3, <1>5 DEF Inv, ObservedSince, ExpiredWhenAsked, ExpiredWhenTaken
<1> QED
  BY <1>1, <1>6, <1>7 DEF Inv, Counted

LEMMA StartInv ==
  ASSUME Inv, NEW r \in Replicas, Start(r)
  PROVE  Inv'
<1>1. TypeOK'
  BY ElectionAssumption DEF Inv, Start, TypeOK, recordVars
<1>2. ObservedSince' /\ ExpiredWhenAsked' /\ ExpiredWhenTaken' /\ trouble' <= mishaps'
  BY DEF Inv, Start, TypeOK, recordVars, ObservedSince, ExpiredWhenAsked, ExpiredWhenTaken
<1> QED
  BY <1>1, <1>2 DEF Inv

LEMMA CrashInv ==
  ASSUME Inv, NEW r \in Replicas, Crash(r)
  PROVE  Inv'
<1>1. LoopTypeOK'
  BY DEF Inv, Crash, TypeOK, LoopTypeOK
<1>2. Counted
  BY TroubleCounted DEF Inv, Crash
<1>3. TypeOK'
  BY <1>1, <1>2, TypeAfter, AttemptTypes DEF Inv, Crash, TypeOK, Counted, observedVars
<1>4. ObservedSince' /\ ExpiredWhenAsked' /\ ExpiredWhenTaken'
  BY DEF Inv, Crash, Done, NoAttempt, TypeOK, observedVars, ObservedSince,
         ExpiredWhenAsked, ExpiredWhenTaken
<1> QED
  BY <1>2, <1>3, <1>4 DEF Inv, Counted

LEMMA StopInv ==
  ASSUME Inv, NEW r \in Replicas, Stop(r)
  PROVE  Inv'
<1>1. LoopTypeOK'
  BY DEF Inv, Stop, TypeOK, LoopTypeOK
<1>2. Counted
  BY TroubleCounted DEF Inv, Stop
<1>3. TypeOK'
  BY <1>1, <1>2, TypeAfter DEF Inv, Stop, TypeOK, Counted, observedVars
<1>4. ObservedSince' /\ ExpiredWhenAsked' /\ ExpiredWhenTaken'
  BY DEF Inv, Stop, observedVars, ObservedSince, ExpiredWhenAsked, ExpiredWhenTaken
<1> QED
  BY <1>2, <1>3, <1>4 DEF Inv, Counted

LEMMA EndCandidateInv ==
  ASSUME Inv, NEW r \in Replicas, EndCandidate(r)
  PROVE  Inv'
<1>1. TypeOK'
  BY DEF Inv, EndCandidate, TypeOK, recordVars, observedVars
<1>2. ObservedSince' /\ ExpiredWhenAsked' /\ ExpiredWhenTaken' /\ trouble' <= mishaps'
  BY DEF Inv, EndCandidate, recordVars, observedVars, ObservedSince, ExpiredWhenAsked,
         ExpiredWhenTaken
<1> QED
  BY <1>1, <1>2 DEF Inv

LEMMA NextInv == Inv /\ [Next]_vars => Inv'
<1> SUFFICES ASSUME Inv, [Next]_vars PROVE Inv'
  OBVIOUS
<1>1. CASE Tick
  BY <1>1, TickInv
<1>2. CASE \E r \in Replicas : ReplicaStep(r) \/ Crash(r) \/ Stop(r)
  BY <1>2, BeginInv, GotInv, PutInv, StartInv, EndCandidateInv, CrashInv, StopInv
     DEF ReplicaStep
<1>3. CASE UNCHANGED vars
  BY <1>3 DEF Inv, TypeOK, ObservedSince, ExpiredWhenAsked, ExpiredWhenTaken, vars,
              recordVars, replicaVars, observedVars
<1> QED
  BY <1>1, <1>2, <1>3 DEF Next

\* The inductive invariant holds in every behaviour, for any replicas and
\* durations.
THEOREM InvCorrect == Spec => []Inv
<1> QED
  BY InitInv, NextInv, PTL DEF Spec

\* Types, and a leader's next attempt to renew falls within its poll: wait.Poll
\* as renewWithStop uses it does not sleep past RenewDeadline.
THEOREM Types == Spec => []TypeOK
<1>1. Inv => TypeOK
  BY DEF Inv
<1> QED
  BY <1>1, InvCorrect, PTL

-----------------------------------------------------------------------------
(* The refinement: the record is a lease.                                  *)

\* Whoever writes the record found none, holds it, or found it expired.
LEMMA WriteIsTakeOrRenew ==
  ASSUME Inv, NEW r \in Replicas, attempt[r].at \in {"create", "update"}, Accepted(r),
         Written(r)
  PROVE  LeaseOf!Renew \/ LeaseOf!Take(r)
<1>1. holder' = r /\ idle' = 0
  BY DEF Written
<1>2. CASE attempt[r].at = "create"
  BY <1>1, <1>2 DEF Accepted, LeaseOf!Take
<1>3. CASE attempt[r].at = "update"
  <2>1. holder = r \/ idle = LeaseDuration
    BY <1>3 DEF Accepted, Inv, ExpiredWhenTaken
  <2>2. r # NoOne
    BY ElectionAssumption
  <2> QED BY <1>1, <2>1, <2>2 DEF LeaseOf!Renew, LeaseOf!Take
<1> QED
  BY <1>2, <1>3

LEMMA StepImplements ==
  ASSUME Inv, [Next]_vars
  PROVE  [LeaseOf!Next]_(LeaseOf!leaseVars)
<1> DEFINE Stutter == holder' = holder /\ idle' = idle
<1>1. CASE Tick
  <2>1. holder' = holder /\ idle' = Older(idle, LeaseDuration)
    BY <1>1 DEF Tick
  <2> QED BY <2>1 DEF Older, LeaseOf!Next, LeaseOf!Pass, LeaseOf!leaseVars
<1>2. ASSUME NEW r \in Replicas, Put(r)
      PROVE  Stutter \/ LeaseOf!Renew \/ LeaseOf!Take(r)
  BY <1>2, WriteIsTakeOrRenew DEF Put
<1>3. ASSUME NEW r \in Replicas,
             \/ Begin(r) \/ Got(r) \/ Start(r) \/ EndCandidate(r)
             \/ Crash(r) \/ Stop(r)
      PROVE  Stutter
  BY <1>3 DEF Begin, Got, Start, EndCandidate, Crash, Stop, recordVars
<1>4. CASE UNCHANGED vars
  BY <1>4 DEF vars, recordVars, LeaseOf!leaseVars
<1>5. CASE \E r \in Replicas : ReplicaStep(r) \/ Crash(r) \/ Stop(r)
  BY <1>2, <1>3, <1>5 DEF ReplicaStep, LeaseOf!Next, LeaseOf!leaseVars
<1> QED
  BY <1>1, <1>4, <1>5 DEF Next

\* Whatever requests are slow, lost or refused, and whatever replicas crash,
\* stop or restart, the record changes hands only after LeaseDuration without a
\* renewal: tryAcquireOrRenew implements a lease.
THEOREM ElectionImplementsLease == Spec => ImplementsLease
<1>1. Init => LeaseOf!Init
  BY DEF Init, LeaseOf!Init
<1> QED
  BY <1>1, InvCorrect, StepImplements, PTL DEF Spec, ImplementsLease, LeaseOf!Spec

-----------------------------------------------------------------------------
(* How often a leader tries to renew, counted for any durations.           *)

\* Whether a poll that began at 0, and is repeated when it times out, tries now.
IsTry(t) == (t % RenewDeadline) % RetryPeriod = 0

\* How many times a poll on schedule tries to renew in the first ticks.
Tries(t) == Cardinality({s \in 1..t : (s % RenewDeadline) % RetryPeriod = 0})

LEMMA DivMod ==
  ASSUME NEW x \in Nat, NEW d \in Nat \ {0}
  PROVE  /\ x = (x \div d) * d + (x % d) /\ x \div d \in Nat
         /\ x % d \in 0..(d - 1)
<1> DEFINE q == x \div d
           m == x % d
<1>1. m \in 0..(d - 1)
  OBVIOUS
<1>2. q \in Int /\ x = d * q + m
  OBVIOUS
<1>3. q \in Nat
  OBVIOUS
<1> HIDE DEF q, m
<1>4. d * q = q * d
  BY <1>2
<1> QED
  BY <1>1, <1>2, <1>3, <1>4 DEF q, m

LEMMA Times ==
  ASSUME NEW a \in Nat, NEW b \in Nat, NEW d \in Nat, a <= b
  PROVE  a * d <= b * d
OBVIOUS

LEMMA ModUnique ==
  ASSUME NEW k \in Nat, NEW d \in Nat \ {0}, NEW r \in 0..(d-1)
  PROVE  (k * d + r) % d = r
<1> DEFINE x == k * d + r
           q == x \div d
           m == x % d
<1>0. x \in Nat /\ x = k * d + r /\ k * d \in Nat
  OBVIOUS
<1>1. x = q * d + m /\ q \in Nat /\ m \in 0..(d - 1)
  BY <1>0, DivMod
<1> HIDE DEF x, q, m
<1>2. CASE k + 1 <= q
  <2>1. (k + 1) * d <= q * d
    BY <1>1, <1>2, Times
  <2>2. (k + 1) * d = k * d + d /\ q * d \in Nat
    BY <1>1
  <2> QED BY <1>0, <1>1, <2>1, <2>2
<1>3. CASE q + 1 <= k
  <2>1. (q + 1) * d <= k * d
    BY <1>1, <1>3, Times
  <2>2. (q + 1) * d = q * d + d /\ q * d \in Nat
    BY <1>1
  <2> QED BY <1>0, <1>1, <2>1, <2>2
<1>4. CASE k = q
  <2>1. q * d \in Nat
    BY <1>1
  <2> QED BY <1>0, <1>1, <1>4, <2>1 DEF x, m
<1> QED
  BY <1>1, <1>2, <1>3, <1>4

LEMMA PeriodOn == 
  ASSUME NEW m \in Nat, NEW d \in Nat \ {0}
  PROVE  (d + m) % d = m % d
<1> DEFINE r == m % d
           q == m \div d
<1>1. m = q * d + r /\ q \in Nat /\ r \in 0..(d - 1)
  BY DivMod
<1> HIDE DEF r, q
<1>2. d + m = (q + 1) * d + r /\ q + 1 \in Nat
  BY <1>1
<1>3. ((q + 1) * d + r) % d = r
  BY <1>1, <1>2, ModUnique
<1> QED BY <1>1, <1>2, <1>3 DEF r

LEMMA LeastTick ==
  ASSUME NEW T \in SUBSET Nat, T # {}
  PROVE  \E n \in T : \A m \in T : n <= m
<1>1. PICK n \in T : \A m \in T : ~(<<m, n>> \in OpToRel(<, Nat))
  BY NatLessThanWellFounded, WFMin
<1>2. \A m \in T : ~(m < n)
  BY <1>1 DEF OpToRel
<1> QED
  BY <1>2

LEMMA TriesStep ==
  ASSUME NEW t \in Nat
  PROVE  /\ Tries(t) \in Nat
         /\ Tries(t + 1) = Tries(t) + IF IsTry(t + 1) THEN 1 ELSE 0
<1> DEFINE T(n) == {s \in 1..n : (s % RenewDeadline) % RetryPeriod = 0}
<1>1. IsFiniteSet(T(t))
  <2>1. IsFiniteSet(1..t)
    BY FS_Interval
  <2> QED BY <2>1, FS_Subset
<1>2. T(t + 1) = IF IsTry(t + 1) THEN T(t) \cup {t + 1} ELSE T(t)
  BY DEF IsTry
<1>3. t + 1 \notin T(t)
  OBVIOUS
<1> HIDE DEF T
<1>4. Cardinality(T(t)) \in Nat
  BY <1>1, FS_CardinalityType
<1>5. Cardinality(T(t) \cup {t + 1}) = Cardinality(T(t)) + 1
  BY <1>1, <1>3, FS_AddElement
<1>6. Tries(t) = Cardinality(T(t)) /\ Tries(t + 1) = Cardinality(T(t + 1))
  BY DEF Tries, T
<1> QED
  BY <1>2, <1>4, <1>5, <1>6

LEMMA NoTriesYet == Tries(0) = 0 /\ Tries(0 - 1) = 0
<1>1. 1..0 = {} /\ 1..(0 - 1) = {}
  OBVIOUS
<1> QED
  BY <1>1, FS_EmptySet DEF Tries

\* Every poll tries like the first.
LEMMA TriesOfNextPoll ==
  ASSUME NEW s \in Nat
  PROVE  Tries(RenewDeadline + s) = Tries(RenewDeadline) + Tries(s)
<1> DEFINE D == RenewDeadline
           Right(n) == Tries(D + n) = Tries(D) + Tries(n)
           wrong == {n \in Nat : ~Right(n)}
<1>1. D \in Nat /\ D > 0
  BY RetryFits
<1>2. Right(0)
  BY <1>1, NoTriesYet, TriesStep
<1>3. ASSUME NEW n \in Nat, Right(n) PROVE Right(n + 1)
  <2>1. (D + (n + 1)) % D = (n + 1) % D
    <3> HIDE DEF D
    <3>1. D \in Nat \ {0} /\ n + 1 \in Nat
      BY <1>1
    <3> QED BY <3>1, PeriodOn
  <2>2. IsTry(D + (n + 1)) <=> IsTry(n + 1)
    BY <2>1 DEF IsTry
  <2>3. D + n \in Nat /\ (D + n) + 1 = D + (n + 1)
    BY <1>1
  <2>4. Tries(D + (n + 1)) = Tries(D + n) + IF IsTry(n + 1) THEN 1 ELSE 0
    BY <2>2, <2>3, TriesStep
  <2>5. Tries(n + 1) = Tries(n) + IF IsTry(n + 1) THEN 1 ELSE 0
    BY TriesStep
  <2>6. Tries(D) \in Nat /\ Tries(n) \in Nat
    BY <1>1, TriesStep
  <2> QED BY <1>3, <2>4, <2>5, <2>6
<1> HIDE DEF Right
<1>4. wrong = {}
  <2> SUFFICES ASSUME wrong # {} PROVE FALSE
    OBVIOUS
  <2>1. wrong \in SUBSET Nat
    OBVIOUS
  <2>2. PICK n \in wrong : \A m \in wrong : n <= m
    <3> HIDE DEF wrong
    <3> QED BY <2>1, LeastTick
  <2>3. n # 0 /\ n - 1 \in Nat /\ n - 1 \notin wrong
    BY <1>2, <2>2
  <2>4. Right(n - 1)
    BY <2>3
  <2>5. (n - 1) + 1 = n
    BY <2>2
  <2>6. Right(n)
    BY <1>3, <2>3, <2>4, <2>5
  <2> QED BY <2>2, <2>6
<1> QED
  BY <1>4 DEF Right

\* The multiples of RetryPeriod, and the next one.
LEMMA NextMultiple ==
  ASSUME NEW q \in Nat, NEW x \in Nat, NEW P \in Nat \ {0}, q * P <= x, x < (q + 1) * P
  PROVE  /\ (x + 1) % P = 0 => x + 1 = (q + 1) * P
         /\ (x + 1) % P # 0 => x + 1 < (q + 1) * P
<1>1. CASE x + 1 < (q + 1) * P
  <2> DEFINE m == (x + 1) - q * P
  <2>1. q * P \in Nat /\ (q + 1) * P = q * P + P
    OBVIOUS
  <2>2. m \in 0..(P - 1) /\ m > 0 /\ x + 1 = q * P + m
    BY <1>1, <2>1
  <2> HIDE DEF m
  <2>3. (x + 1) % P = m
    BY <2>2, ModUnique
  <2> QED BY <1>1, <2>2, <2>3
<1>2. CASE x + 1 = (q + 1) * P
  <2>1. ((q + 1) * P + 0) % P = 0
    BY ModUnique
  <2> QED BY <1>2, <2>1
<1>3. (q + 1) * P \in Nat
  OBVIOUS
<1> QED
  BY <1>1, <1>2, <1>3

\* Within a poll the tries are the multiples of RetryPeriod.
LEMMA TriesWithinPoll ==
  ASSUME NEW t \in Nat, t < RenewDeadline
  PROVE  Tries(t) * RetryPeriod <= t /\ t < (Tries(t) + 1) * RetryPeriod
<1> DEFINE D == RenewDeadline
           P == RetryPeriod
           Right(n) == Tries(n) * P <= n /\ n < (Tries(n) + 1) * P
           wrong == {n \in Nat : n < D /\ ~Right(n)}
<1>1. D \in Nat /\ P \in Nat \ {0}
  BY RetryFits, ElectionAssumption
<1>2. Right(0)
  BY <1>1, NoTriesYet
<1>3. ASSUME NEW n \in Nat, n + 1 < D, Right(n) PROVE Right(n + 1)
  <2> DEFINE q == Tries(n)
  <2>1. q \in Nat /\ q * P <= n /\ n < (q + 1) * P
    BY <1>3, TriesStep
  <2>2. Tries(n + 1) = q + IF IsTry(n + 1) THEN 1 ELSE 0
    BY TriesStep
  <2>3. IsTry(n + 1) <=> (n + 1) % P = 0
    <3>1. (n + 1) % D = n + 1
      BY <1>1, <1>3
    <3> QED BY <3>1 DEF IsTry
  <2> HIDE DEF q, P, D
  <2>4. /\ (n + 1) % P = 0 => n + 1 = (q + 1) * P
        /\ (n + 1) % P # 0 => n + 1 < (q + 1) * P
    BY <1>1, <2>1, NextMultiple
  <2>5. CASE IsTry(n + 1)
    <3>1. Tries(n + 1) = q + 1 /\ n + 1 = (q + 1) * P
      BY <2>2, <2>3, <2>4, <2>5, <2>1
    <3>2. (q + 1) * P <= n + 1 /\ n + 1 < ((q + 1) + 1) * P
      BY <1>1, <2>1, <3>1
    <3> QED BY <3>1, <3>2
  <2>6. CASE ~IsTry(n + 1)
    <3>1. Tries(n + 1) = q /\ n + 1 < (q + 1) * P
      BY <2>2, <2>3, <2>4, <2>6, <2>1
    <3>2. q * P \in Nat /\ q * P <= n + 1
      BY <1>1, <2>1
    <3> QED BY <3>1, <3>2
  <2> QED BY <2>5, <2>6
<1> HIDE DEF Right
<1>4. wrong = {}
  <2> SUFFICES ASSUME wrong # {} PROVE FALSE
    OBVIOUS
  <2>1. wrong \in SUBSET Nat
    OBVIOUS
  <2>2. PICK n \in wrong : \A m \in wrong : n <= m
    <3> HIDE DEF wrong
    <3> QED BY <2>1, LeastTick
  <2>3. n # 0 /\ n - 1 \in Nat /\ n - 1 \notin wrong /\ n < D
    BY <1>2, <2>2
  <2>4. Right(n - 1)
    BY <1>1, <2>3
  <2>5. (n - 1) + 1 = n
    BY <2>2
  <2>6. Right(n)
    BY <1>3, <2>3, <2>4, <2>5
  <2> QED BY <2>2, <2>6
<1> QED
  BY <1>4 DEF Right

LEMMA TriesOfPoll ==
  /\ Tries(RenewDeadline) \in Nat
  /\ Tries(RenewDeadline) * RetryPeriod >= RenewDeadline
<1> DEFINE D == RenewDeadline
           P == RetryPeriod
           q == Tries(D - 1)
<1>1. D \in Nat /\ D > 0 /\ P \in Nat \ {0} /\ D - 1 \in Nat /\ (D - 1) + 1 = D
  BY RetryFits, ElectionAssumption
<1>2. q \in Nat /\ q * P <= D - 1 /\ D - 1 < (q + 1) * P
  BY <1>1, TriesStep, TriesWithinPoll
<1>3. D % D = 0
  <2>1. 1 * D + 0 = D /\ 0 \in 0..(D - 1)
    BY <1>1
  <2> QED BY <1>1, <2>1, ModUnique
<1>4. IsTry(D)
  BY <1>1, <1>3 DEF IsTry
<1>5. Tries(D) = q + 1
  BY <1>1, <1>4, TriesStep
<1> HIDE DEF q, D, P
<1>6. (q + 1) * P >= D
  <2>1. (q + 1) * P \in Nat
    BY <1>1, <1>2
  <2> QED BY <1>1, <1>2, <2>1
<1> QED
  BY <1>2, <1>5, <1>6 DEF D, P

\* Quotients add up, but for what is left over.
LEMMA QuotientsAddUp ==
  ASSUME NEW P \in Nat \ {0}, NEW a \in Nat, NEW b \in Nat, NEW c \in Nat, NEW x \in Nat,
         (a + b) * P <= x, x < (c + 1) * P
  PROVE  a + b <= c
<1>1. CASE c + 1 <= a + b
  <2>1. (c + 1) * P <= (a + b) * P
    BY <1>1, Times
  <2>2. (c + 1) * P \in Nat /\ (a + b) * P \in Nat
    OBVIOUS
  <2> QED BY <2>1, <2>2
<1> QED
  BY <1>1

\* A poll that is under way tries as often as one that begins, and more.
LEMMA TriesAddUp ==
  ASSUME NEW p \in 0..RenewDeadline, NEW s \in Nat
  PROVE  Tries(p + s) >= Tries(p) + Tries(s)
<1> DEFINE D == RenewDeadline
           P == RetryPeriod
           Right(n) == Tries(p + n) >= Tries(p) + Tries(n)
           wrong == {n \in Nat : ~Right(n)}
<1>1. D \in Nat /\ D > 0 /\ P \in Nat \ {0} /\ p \in Nat /\ p <= D
  BY RetryFits, ElectionAssumption
<1>2. \A n \in Nat : Tries(n) \in Nat
  BY TriesStep
<1>3. CASE p = D
  BY <1>1, <1>2, <1>3, TriesOfNextPoll
<1>4. ASSUME p < D, NEW n \in Nat, n < D PROVE Right(n)
  <2> DEFINE a == Tries(p)
             b == Tries(n)
  <2>1. /\ a \in Nat /\ a * P <= p
        /\ b \in Nat /\ b * P <= n
    BY <1>1, <1>2, <1>4, TriesWithinPoll
  <2>2. (a + b) * P <= p + n /\ p + n \in Nat
    <3> HIDE DEF a, b, P
    <3>1. (a + b) * P = a * P + b * P /\ a * P \in Nat /\ b * P \in Nat
      BY <1>1, <2>1
    <3> QED BY <1>1, <1>4, <2>1, <3>1
  <2>3. PICK c \in Nat : Tries(p + n) = c /\ p + n < (c + 1) * P
    <3>1. CASE p + n < D
      BY <1>2, <2>2, <3>1, TriesWithinPoll
    <3>2. CASE p + n >= D
      <4> DEFINE x == (p + n) - D
                 u == Tries(x)
                 v == Tries(D)
      <4>1. x \in Nat /\ x < D /\ D + x = p + n
        BY <1>1, <1>4, <3>2
      <4>2. /\ u \in Nat /\ x < (u + 1) * P
            /\ v \in Nat /\ v * P >= D
            /\ Tries(p + n) = v + u
        BY <1>2, <4>1, TriesWithinPoll, TriesOfPoll, TriesOfNextPoll
      <4> HIDE DEF x, u, v, D, P
      <4>3. /\ ((v + u) + 1) * P = v * P + (u + 1) * P
            /\ v * P \in Nat /\ (u + 1) * P \in Nat
        BY <1>1, <4>2
      <4>4. p + n < ((v + u) + 1) * P
        BY <1>1, <4>1, <4>2, <4>3
      <4> QED BY <4>2, <4>4
    <3> QED BY <1>1, <1>4, <3>1, <3>2
  <2> HIDE DEF a, b, P
  <2>4. a + b <= c
    BY <1>1, <2>1, <2>2, <2>3, QuotientsAddUp
  <2> QED BY <2>3, <2>4 DEF a, b
<1>5. ASSUME NEW n \in Nat, Right(n) PROVE Right(D + n)
  <2>1. p + (D + n) = D + (p + n) /\ p + n \in Nat
    BY <1>1
  <2> QED BY <1>1, <1>2, <1>5, <2>1, TriesOfNextPoll
<1> HIDE DEF Right
<1>6. CASE p < D
  <2>1. wrong = {}
    <3> SUFFICES ASSUME wrong # {} PROVE FALSE
      OBVIOUS
    <3>1. wrong \in SUBSET Nat
      OBVIOUS
    <3>2. PICK n \in wrong : \A m \in wrong : n <= m
      <4> HIDE DEF wrong
      <4> QED BY <3>1, LeastTick
    <3>3. n \in Nat /\ n >= D
      BY <1>1, <1>4, <1>6, <3>2
    <3>4. n - D \in Nat /\ n - D \notin wrong /\ D + (n - D) = n
      BY <1>1, <3>2, <3>3
    <3>5. Right(n - D)
      BY <3>4
    <3>6. Right(n)
      BY <1>5, <3>4, <3>5
    <3> QED BY <3>2, <3>6
  <2> QED BY <2>1 DEF Right
<1> QED
  BY <1>1, <1>3, <1>6

LEMMA BeforeNow ==
  ASSUME NEW t \in Nat
  PROVE  Tries(t - 1) \in Nat
<1>1. CASE t = 0
  BY <1>1, NoTriesYet
<1>2. CASE t # 0
  BY <1>2, TriesStep
<1> QED
  BY <1>1, <1>2

-----------------------------------------------------------------------------
(* The attempts of a leader that keeps failing.                            *)

\* Ticks to the next try of a poll, so many after its beginning (NextTry).
UntilTry(ticks) ==
  IF RetryPeriod - (ticks % RetryPeriod) < RenewDeadline - ticks
    THEN RetryPeriod - (ticks % RetryPeriod) ELSE RenewDeadline - ticks

\* As long as the next try is not due in a tick, the tick brings it closer.
LEMMA CloserToTry ==
  ASSUME NEW ticks \in Nat, ticks < RenewDeadline
  PROVE  /\ UntilTry(ticks) \in Nat /\ UntilTry(ticks) > 0
         /\ UntilTry(ticks) > 1 => /\ ~IsTry(ticks + 1)
                                   /\ UntilTry(ticks + 1) = UntilTry(ticks) - 1
<1> DEFINE D == RenewDeadline
           P == RetryPeriod
           k == ticks \div P
           m == ticks % P
<1>1. D \in Nat \ {0} /\ P \in Nat \ {0} /\ ticks < D
  BY RetryFits, ElectionAssumption
<1>2. ticks = k * P + m /\ k \in Nat /\ m \in 0..(P - 1)
  BY <1>1, DivMod
<1>3. UntilTry(ticks) = IF P - m < D - ticks THEN P - m ELSE D - ticks
  BY DEF UntilTry
<1>4. UntilTry(ticks + 1) = IF P - ((ticks + 1) % P) < D - (ticks + 1)
                              THEN P - ((ticks + 1) % P) ELSE D - (ticks + 1)
  BY DEF UntilTry
<1>5. IsTry(ticks + 1) <=> ((ticks + 1) % D) % P = 0
  BY DEF IsTry
<1> HIDE DEF D, P, k, m
<1>6. UntilTry(ticks) \in Nat /\ UntilTry(ticks) > 0
  BY <1>1, <1>2, <1>3
<1>7. ASSUME UntilTry(ticks) > 1
      PROVE  ~IsTry(ticks + 1) /\ UntilTry(ticks + 1) = UntilTry(ticks) - 1
  <2>1. m + 1 \in 0..(P - 1) /\ ticks + 1 \in 0..(D - 1)
    BY <1>1, <1>2, <1>3, <1>7
  <2>2. ticks + 1 = k * P + (m + 1)
    <3>1. k * P \in Nat
      BY <1>1, <1>2
    <3> QED BY <1>2, <3>1
  <2>3. (ticks + 1) % P = m + 1
    BY <1>1, <1>2, <2>1, <2>2, ModUnique
  <2>4. (ticks + 1) % D = ticks + 1
    <3>1. (0 * D + (ticks + 1)) % D = ticks + 1
      BY <1>1, <2>1, ModUnique
    <3>2. 0 * D + (ticks + 1) = ticks + 1
      BY <1>1
    <3> QED BY <3>1, <3>2
  <2> QED BY <1>1, <1>2, <1>3, <1>4, <1>5, <2>1, <2>3, <2>4
<1> QED
  BY <1>6, <1>7

\* Nobody else wrote the record while the holder tries to.
Undisturbed(r) ==
  holder = r => attempt[r].at # "create" /\ (attempt[r].at = "update" => attempt[r].current)

\* A leader rests until the next try of its poll.
Paced(r) ==
  phase[r] = "leader" =>
    /\ attempt[r].at # "none" => rest[r] = 0
    /\ rest[r] > 0 => rest[r] = UntilTry(polled[r])
    /\ attempt[r].at # "none" /\ attempt[r].last => polled[r] = RenewDeadline

Keeps(r) == Leads(r) /\ holder = r

\* An attempt that is due or under way has not failed yet.
Due(r) == IF rest[r] = 0 THEN 1 ELSE 0

\* If every try to come fails, then as many things will have gone wrong at any
\* time within the lease as there would have been tries, had the poll begun with
\* the lease.
Paid(r) ==
  Keeps(r) /\ idle < LeaseDuration =>
    \A s \in Nat : Tries(idle + s) + Tries(polled[r])
                     <= trouble + Due(r) + Tries(polled[r] + s)

\* So it is so far.
PaidSoFar(r) == Keeps(r) => trouble >= Tries(idle - 1)

\* The inductive invariant of NoSpuriousTakeover.
Attended(r) == Undisturbed(r) /\ Paced(r) /\ Paid(r) /\ PaidSoFar(r)

\* A step that leaves a replica alone, or takes the record from it.
LEMMA LeftAlone ==
  ASSUME NEW r \in Replicas, Attended(r),
         phase'[r] = phase[r], stopped'[r] = stopped[r], rest'[r] = rest[r],
         polled'[r] = polled[r], attempt'[r].at = attempt[r].at,
         attempt'[r].last = attempt[r].last,
         \/ holder' # r
         \/ /\ holder' = holder /\ idle' = idle
            /\ trouble \in Nat /\ trouble' \in Nat /\ trouble' >= trouble
            /\ attempt'[r].current = attempt[r].current,
         TypeOK
  PROVE  Attended(r)'
<1>1. Undisturbed(r)' /\ Paced(r)'
  BY DEF Attended, Undisturbed, Paced
<1>2. CASE holder' # r
  BY <1>1, <1>2 DEF Attended, Keeps, Paid, PaidSoFar
<1>3. CASE /\ holder' = holder /\ idle' = idle
           /\ trouble \in Nat /\ trouble' \in Nat /\ trouble' >= trouble
  <2>1. Keeps(r)' <=> Keeps(r)
    BY <1>3 DEF Keeps, Leads
  <2>2. idle \in Nat /\ polled[r] \in Nat
    BY RetryFits DEF TypeOK
  <2>3. Paid(r)'
    <3> SUFFICES ASSUME Keeps(r), idle < LeaseDuration, NEW s \in Nat
                 PROVE  Tries(idle + s) + Tries(polled[r])
                          <= trouble' + Due(r)' + Tries(polled[r] + s)
      BY <1>3, <2>1 DEF Paid
    <3>1. Tries(idle + s) + Tries(polled[r]) <= trouble + Due(r) + Tries(polled[r] + s)
      BY DEF Attended, Paid
    <3>2. Due(r)' = Due(r) /\ Due(r) \in Nat
      BY DEF Due
    <3>3. /\ Tries(idle + s) \in Nat /\ Tries(polled[r]) \in Nat
          /\ Tries(polled[r] + s) \in Nat
      BY <2>2, TriesStep
    <3> QED BY <1>3, <3>1, <3>2, <3>3
  <2>4. PaidSoFar(r)'
    <3>1. Tries(idle - 1) \in Nat
      BY <2>2, BeforeNow
    <3> QED BY <1>3, <2>1, <3>1 DEF Attended, PaidSoFar
  <2> QED BY <1>1, <2>3, <2>4 DEF Attended
<1> QED
  BY <1>2, <1>3

\* The next poll of a leader begins.
LEMMA NewPoll ==
  ASSUME NEW r \in Replicas, TypeOK, StartLeading(r) \/ PollAgain(r), UNCHANGED stopped
  PROVE  Leads(r)' => polled'[r] = 0 /\ rest'[r] = RetryPeriod
BY DEF StartLeading, PollAgain, Leads, TypeOK

LEMMA FirstTry == UntilTry(0) = RetryPeriod /\ RetryPeriod > 0
<1>1. 0 % RetryPeriod = 0
  <2>1. 0 * RetryPeriod + 0 = 0 /\ 0 \in 0..(RetryPeriod - 1) /\ RetryPeriod \in Nat \ {0}
    BY ElectionAssumption
  <2>2. (0 * RetryPeriod + 0) % RetryPeriod = 0
    BY <2>1, ModUnique
  <2> QED BY <2>1, <2>2
<1> QED
  BY <1>1, RetryFits, ElectionAssumption DEF UntilTry

\* What the loops of a replica leave when an attempt is over.
LEMMA LoopsGoOn ==
  ASSUME NEW r \in Replicas, TypeOK, Done(r) \/ Written(r), Succeeded(r) \/ Failed(r)
  PROVE  /\ attempt'[r] = NoAttempt
         /\ Paced(r)'
         /\ Leads(r)' =>
              \/ polled'[r] = 0 /\ rest'[r] = RetryPeriod
              \/ /\ Failed(r) /\ Leads(r) /\ polled'[r] = polled[r]
                 /\ rest'[r] = UntilTry(polled[r])
<1>1. attempt'[r] = NoAttempt
  BY DEF Done, Written, TypeOK
<1>2. CASE StartLeading(r) \/ PollAgain(r)
  <2>1. phase'[r] = "leader" => polled'[r] = 0 /\ rest'[r] = RetryPeriod
    BY <1>2 DEF StartLeading, PollAgain, TypeOK
  <2> QED BY <1>1, <2>1, FirstTry DEF Paced, NoAttempt, Leads
<1>3. CASE Retry(r) /\ UNCHANGED stopped
  BY <1>1, <1>3 DEF Retry, Paced, Leads
<1>4. CASE PollOn(r) /\ UNCHANGED stopped /\ Failed(r)
  <2>1. /\ phase'[r] = phase[r] /\ polled'[r] = polled[r]
        /\ rest'[r] = UntilTry(polled[r])
    BY <1>4 DEF PollOn, TypeOK, NextTry, UntilTry
  <2> QED BY <1>1, <1>4, <2>1 DEF Paced, NoAttempt, Leads
<1> QED
  BY <1>2, <1>3, <1>4 DEF Succeeded, Failed

\* A replica writes the record: its tries are counted from now on.
LEMMA WriteAttended ==
  ASSUME NEW r \in Replicas, TypeOK, Written(r), Succeeded(r) \/ Failed(r), trouble' = 0
  PROVE  Attended(r)'
<1>1. /\ attempt'[r] = NoAttempt /\ Paced(r)'
      /\ Leads(r)' => polled'[r] \in 0..RenewDeadline
  <2>1. 0 \in 0..RenewDeadline
    BY RetryFits
  <2> QED BY <2>1, LoopsGoOn DEF TypeOK
<1>2. idle' = 0
  BY DEF Written
<1>3. Undisturbed(r)'
  BY <1>1 DEF Undisturbed, NoAttempt
<1>4. Paid(r)'
  <2> SUFFICES ASSUME Keeps(r)', NEW s \in Nat
               PROVE  Tries(idle' + s) + Tries(polled'[r])
                        <= trouble' + Due(r)' + Tries(polled'[r] + s)
    BY DEF Paid
  <2> DEFINE p == polled'[r]
  <2>1. p \in 0..RenewDeadline
    BY <1>1 DEF Keeps
  <2>2. p \in Nat /\ p + s \in Nat
    BY <2>1, RetryFits
  <2> HIDE DEF p
  <2>3. Tries(p + s) >= Tries(p) + Tries(s)
    BY <2>1, TriesAddUp
  <2>4. Tries(p) \in Nat /\ Tries(s) \in Nat /\ Tries(p + s) \in Nat
    BY <2>2, TriesStep
  <2>5. idle' + s = s
    BY <1>2
  <2>6. Due(r)' \in Nat
    BY DEF Due
  <2> QED BY <2>3, <2>4, <2>5, <2>6 DEF p
<1>5. PaidSoFar(r)'
  BY <1>2, NoTriesYet DEF PaidSoFar
<1> QED
  BY <1>1, <1>3, <1>4, <1>5 DEF Attended

\* An attempt of a replica fails: it is paid for, if the record is its own.
LEMMA FailAttended ==
  ASSUME NEW r \in Replicas, TypeOK, Attended(r), attempt[r].at # "none",
         Failed(r), Done(r), UNCHANGED <<holder, idle>>,
         trouble' \in Nat, holder = r => trouble' = trouble + 1
  PROVE  Attended(r)'
<1>1. /\ attempt'[r] = NoAttempt /\ Paced(r)'
      /\ Leads(r)' =>
           \/ polled'[r] = 0 /\ rest'[r] = RetryPeriod
           \/ /\ Leads(r) /\ polled'[r] = polled[r] /\ rest'[r] = UntilTry(polled[r])
  BY LoopsGoOn
<1>2. Undisturbed(r)'
  BY <1>1 DEF Undisturbed, NoAttempt
<1>3. ASSUME Keeps(r)'
      PROVE  /\ Keeps(r) /\ trouble' = trouble + 1 /\ rest[r] = 0
             /\ polled'[r] = polled[r] \/ (polled'[r] = 0 /\ polled[r] = RenewDeadline)
  <2>1. holder = r /\ trouble' = trouble + 1 /\ Leads(r)'
    BY <1>3 DEF Keeps
  <2>2. phase[r] = "leader" /\ stopped[r] = FALSE
    BY <2>1 DEF Failed, Retry, PollOn, PollAgain, Leads, TypeOK
  <2>3. rest[r] = 0
    BY <2>2 DEF Attended, Paced
  <2>4. PollOn(r) \/ (attempt[r].last /\ PollAgain(r))
    BY <2>2 DEF Failed, Retry
  <2>5. PollOn(r) => polled'[r] = polled[r]
    BY DEF PollOn
  <2>6. attempt[r].last /\ PollAgain(r) => polled'[r] = 0 /\ polled[r] = RenewDeadline
    BY <2>2 DEF PollAgain, Attended, Paced, TypeOK
  <2> QED BY <2>1, <2>2, <2>3, <2>4, <2>5, <2>6 DEF Keeps, Leads
<1>4. idle \in Nat /\ trouble \in Nat /\ RenewDeadline \in Nat
      /\ polled[r] \in Nat
  BY RetryFits DEF TypeOK
<1>5. Paid(r)'
  <2> SUFFICES ASSUME Keeps(r)', idle < LeaseDuration, NEW s \in Nat
               PROVE  Tries(idle + s) + Tries(polled'[r])
                        <= trouble' + Due(r)' + Tries(polled'[r] + s)
    BY DEF Paid
  <2>1. Tries(idle + s) + Tries(polled[r]) <= trouble' + Tries(polled[r] + s)
    BY <1>3, <1>4 DEF Attended, Paid, Due
  <2>2. /\ Tries(idle + s) \in Nat /\ Tries(polled[r]) \in Nat /\ Tries(s) \in Nat
        /\ Tries(polled[r] + s) \in Nat /\ Due(r)' \in Nat
    BY <1>4, TriesStep DEF Due
  <2>3. CASE polled'[r] = polled[r]
    BY <2>1, <2>2, <2>3
  <2>4. CASE polled'[r] = 0 /\ polled[r] = RenewDeadline
    <3>1. Tries(polled[r] + s) = Tries(polled[r]) + Tries(s)
      BY <2>4, TriesOfNextPoll
    <3>2. Tries(polled'[r]) = 0 /\ Tries(polled'[r] + s) = Tries(s)
      BY <2>4, NoTriesYet
    <3> QED BY <2>1, <2>2, <3>1, <3>2
  <2> QED BY <1>3, <2>3, <2>4
<1>6. PaidSoFar(r)'
  <2>1. Tries(idle - 1) \in Nat
    BY <1>4, BeforeNow
  <2> QED BY <1>3, <1>4, <2>1 DEF PaidSoFar, Attended
<1> QED
  BY <1>1, <1>2, <1>5, <1>6 DEF Attended

\* A replica that does not lead after the step.
LEMMA IdleAttended ==
  ASSUME NEW r \in Replicas, Attended(r), ~Leads(r)', UNCHANGED holder,
         attempt'[r] \in {attempt[r], NoAttempt}, phase'[r] # "leader" \/ Paced(r)'
  PROVE  Attended(r)'
BY DEF Attended, Undisturbed, NoAttempt, Paced, Paid, PaidSoFar, Keeps

LEMMA TickAttended ==
  ASSUME NEW r \in Replicas, TypeOK, trouble <= mishaps, Attended(r), Tick
  PROVE  Attended(r)'
<1>1. /\ UNCHANGED <<holder, phase, stopped, attempt>>
      /\ idle' = Older(idle, LeaseDuration)
      /\ rest'[r] = Sooner(rest[r])
      /\ polled'[r] = IF phase[r] = "leader" THEN Older(polled[r], RenewDeadline)
                                              ELSE polled[r]
      /\ (Quiet /\ NoTrouble) \/ (~Quiet /\ Troubled)
  BY DEF Tick
<1>2. /\ idle \in 0..LeaseDuration /\ LeaseDuration \in Nat /\ RenewDeadline \in Nat
      /\ polled[r] \in 0..RenewDeadline /\ rest[r] \in Nat
      /\ trouble \in Nat /\ trouble' \in {trouble, trouble + 1}
      /\ phase[r] = "leader" => rest[r] + polled[r] <= RenewDeadline
  BY <1>1, RetryFits, ElectionAssumption DEF TypeOK, NoTrouble, Troubled
<1>3. phase[r] = "leader" /\ rest[r] = 0 => trouble' = trouble + 1
  BY <1>1 DEF Quiet, Troubled
<1>4. Undisturbed(r)'
  BY <1>1 DEF Attended, Undisturbed
<1>5. ASSUME phase[r] = "leader", rest[r] > 0
      PROVE  /\ polled[r] < RenewDeadline /\ polled'[r] = polled[r] + 1
             /\ rest'[r] = rest[r] - 1
             /\ rest'[r] > 0 => ~IsTry(polled[r] + 1) /\ rest'[r] = UntilTry(polled'[r])
  <2>1. polled[r] < RenewDeadline /\ polled'[r] = polled[r] + 1 /\ rest'[r] = rest[r] - 1
    BY <1>1, <1>2, <1>5 DEF Older, Sooner
  <2>2. rest[r] = UntilTry(polled[r])
    BY <1>5 DEF Attended, Paced
  <2>3. polled[r] \in Nat
    BY <1>2
  <2>4. UntilTry(polled[r]) > 1 => /\ ~IsTry(polled[r] + 1)
                                   /\ UntilTry(polled[r] + 1) = UntilTry(polled[r]) - 1
    BY <2>1, <2>3, CloserToTry
  <2> QED BY <1>2, <2>1, <2>2, <2>4
<1>6. ASSUME phase[r] = "leader", rest[r] = 0
      PROVE  /\ rest'[r] = 0
             /\ polled'[r] \in {polled[r], polled[r] + 1}
             /\ polled[r] = RenewDeadline => polled'[r] = polled[r]
  BY <1>1, <1>2, <1>6 DEF Older, Sooner
<1>7. Paced(r)'
  <2>1. CASE phase[r] = "leader" /\ rest[r] > 0
    BY <1>1, <1>5, <2>1 DEF Attended, Paced
  <2>2. CASE phase[r] = "leader" /\ rest[r] = 0
    BY <1>1, <1>6, <2>2 DEF Attended, Paced
  <2> QED BY <1>1, <1>2, <2>1, <2>2 DEF Paced
<1>8. ASSUME Keeps(r), idle < LeaseDuration, NEW s \in Nat
      PROVE  Tries(idle + (s + 1)) + Tries(polled'[r])
               <= trouble' + Due(r)' + Tries(polled'[r] + s)
  <2> DEFINE p == polled[r]
             q == polled'[r]
  <2>1. /\ Tries(idle + s) + Tries(p) <= trouble + Due(r) + Tries(p + s)
        /\ Tries(idle + (s + 1)) + Tries(p) <= trouble + Due(r) + Tries(p + (s + 1))
    BY <1>8 DEF Attended, Paid
  <2>2. p \in Nat /\ idle \in Nat /\ p + s \in Nat /\ idle + s \in Nat
        /\ (p + s) + 1 = p + (s + 1) /\ (idle + s) + 1 = idle + (s + 1)
        /\ (p + 1) + s = p + (s + 1)
    BY <1>2
  <2>3. phase[r] = "leader"
    BY <1>8 DEF Keeps, Leads
  <2>4. /\ Due(r) = IF rest[r] = 0 THEN 1 ELSE 0
        /\ Due(r)' = IF rest'[r] = 0 THEN 1 ELSE 0
    BY DEF Due
  <2>5. q \in {p, p + 1} /\ (rest[r] > 0 => q = p + 1)
    BY <1>2, <1>5, <1>6, <2>3
  <2> HIDE DEF p, q
  <2>6. /\ Tries(p) \in Nat /\ Tries(p + s) \in Nat /\ Tries(idle + s) \in Nat
        /\ Tries(p + 1) = Tries(p) + IF IsTry(p + 1) THEN 1 ELSE 0
        /\ Tries(p + (s + 1)) \in {Tries(p + s), Tries(p + s) + 1}
        /\ Tries(idle + (s + 1)) \in {Tries(idle + s), Tries(idle + s) + 1}
    BY <2>2, TriesStep
  <2>7. CASE rest[r] > 0
    <3>1. q = p + 1 /\ (rest'[r] > 0 => ~IsTry(p + 1)) /\ rest'[r] \in Nat
      BY <1>2, <1>5, <2>3, <2>5, <2>7 DEF p
    <3>2. Tries(q) = Tries(p) + (IF IsTry(p + 1) THEN 1 ELSE 0)
          /\ Tries(q + s) = Tries(p + (s + 1))
      BY <2>2, <2>6, <3>1
    <3>3. (IF IsTry(p + 1) THEN 1 ELSE 0) <= Due(r)'
      BY <2>4, <3>1
    <3>4. Due(r) = 0 /\ Due(r)' \in Nat
      BY <2>4, <2>7
    <3> DEFINE due == Due(r)'
               tried == IF IsTry(p + 1) THEN 1 ELSE 0
               now == Tries(q)
               before == Tries(p)
               soon == Tries(idle + (s + 1))
               then == Tries(q + s)
               later == trouble'
    <3>5. tried \in Nat
      OBVIOUS
    <3>6. soon \in Nat /\ before \in Nat /\ then \in Nat
      BY <2>6, <3>2
    <3>7. soon + before <= trouble + 0 + then
      BY <2>1, <3>2, <3>4
    <3>8. now = before + tried /\ tried <= due /\ due \in Nat
      BY <3>2, <3>3, <3>4
    <3>9. later \in Nat /\ later >= trouble /\ trouble \in Nat
      BY <1>2
    <3> HIDE DEF due, tried, now, before, soon, then, later
    <3>10. soon + now <= later + due + then
      BY <3>5, <3>6, <3>7, <3>8, <3>9
    <3> QED BY <3>10 DEF due, now, soon, then, later, q
  <2>8. CASE rest[r] = 0
    <3>1. trouble' = trouble + 1 /\ Due(r) = 1 /\ Due(r)' = 1
      BY <1>3, <1>6, <2>3, <2>4, <2>8
    <3> DEFINE now == Tries(q)
               before == Tries(p)
               soon == Tries(idle + (s + 1))
               sooner == Tries(idle + s)
               then == Tries(q + s)
    <3>2. soon \in Nat /\ before \in Nat /\ sooner \in Nat
          /\ soon \in {sooner, sooner + 1}
      BY <2>6
    <3>3. CASE q = p
      <4>1. now = before /\ sooner + before <= trouble + 1 + then /\ then \in Nat
        BY <2>1, <2>6, <3>1, <3>3
      <4> HIDE DEF now, before, soon, sooner, then
      <4>2. soon + now <= (trouble + 1) + 1 + then
        BY <1>2, <3>2, <4>1
      <4> QED BY <3>1, <4>2 DEF now, soon, then, q
    <3>4. CASE q = p + 1
      <4>1. now \in {before, before + 1} /\ then = Tries(p + (s + 1))
        BY <2>2, <2>6, <3>4
      <4>2. soon + before <= trouble + 1 + then /\ then \in Nat
        BY <2>1, <2>6, <3>1, <4>1
      <4> HIDE DEF now, before, soon, sooner, then
      <4>3. soon + now <= (trouble + 1) + 1 + then
        BY <1>2, <3>2, <4>1, <4>2
      <4> QED BY <3>1, <4>3 DEF now, soon, then, q
    <3> QED BY <2>5, <3>3, <3>4
  <2> QED BY <1>2, <2>7, <2>8 DEF q
<1>9. Keeps(r)' <=> Keeps(r)
  BY <1>1 DEF Keeps, Leads
<1>10. Paid(r)'
  <2> SUFFICES ASSUME Keeps(r), idle' < LeaseDuration, NEW s \in Nat
               PROVE  Tries(idle' + s) + Tries(polled'[r])
                        <= trouble' + Due(r)' + Tries(polled'[r] + s)
    BY <1>9 DEF Paid
  <2>1. idle < LeaseDuration /\ idle' = idle + 1 /\ idle' + s = idle + (s + 1)
    BY <1>1, <1>2 DEF Older
  <2> QED BY <1>8, <2>1
<1>11. PaidSoFar(r)'
  <2> SUFFICES ASSUME Keeps(r) PROVE trouble' >= Tries(idle' - 1)
    BY <1>9 DEF PaidSoFar
  <2>1. CASE idle < LeaseDuration
    <3>1. idle' - 1 = idle
      BY <1>1, <1>2, <2>1 DEF Older
    <3>2. Tries(idle + 0) + Tries(polled[r]) <= trouble + Due(r) + Tries(polled[r] + 0)
      BY <2>1 DEF Attended, Paid
    <3>3. Tries(idle) \in Nat /\ Tries(polled[r]) \in Nat /\ idle + 0 = idle
          /\ polled[r] + 0 = polled[r]
      BY <1>2, TriesStep
    <3>4. Tries(idle) <= trouble + Due(r)
      BY <1>2, <3>2, <3>3 DEF Due
    <3>5. Due(r) = 0 \/ (Due(r) = 1 /\ trouble' = trouble + 1)
      BY <1>3 DEF Due, Keeps, Leads
    <3> QED BY <1>2, <3>1, <3>3, <3>4, <3>5
  <2>2. CASE idle = LeaseDuration
    <3>1. idle' = idle
      BY <1>1, <1>2, <2>2 DEF Older
    <3>2. Tries(idle - 1) \in Nat
      BY <1>2, BeforeNow
    <3> QED BY <1>2, <3>1, <3>2 DEF Attended, PaidSoFar
  <2> QED BY <1>2, <2>1, <2>2
<1> QED
  BY <1>4, <1>7, <1>10, <1>11 DEF Attended

\* The steps of a replica, for the replica itself.
LEMMA OwnStepAttended ==
  ASSUME NEW r \in Replicas, Inv, Attended(r), ReplicaStep(r) \/ Crash(r) \/ Stop(r)
  PROVE  Attended(r)'
<1>1. TypeOK /\ trouble \in Nat
  BY DEF Inv, TypeOK
<1>2. CASE Begin(r)
  <2>1. /\ UNCHANGED <<holder, idle, trouble, phase, stopped, rest, polled>>
        /\ attempt'[r].at = "get" /\ rest[r] = 0
        /\ attempt'[r].last => phase[r] = "leader" /\ polled[r] = RenewDeadline
    BY <1>1, <1>2 DEF Begin, TypeOK, recordVars, replicaVars
  <2> QED BY <2>1 DEF Attended, Undisturbed, Paced, Paid, PaidSoFar, Keeps, Leads, Due
<1>3. CASE Got(r)
  <2>1. attempt[r].at = "get" /\ UNCHANGED <<holder, idle>>
    BY <1>3 DEF Got
  <2>2. CASE Troubled /\ Failed(r) /\ Done(r)
    BY <1>1, <2>1, <2>2, FailAttended DEF Troubled
  <2>3. CASE HeldByOther(r) /\ Failed(r) /\ Done(r) /\ NoTrouble
    BY <1>1, <2>1, <2>3, FailAttended DEF HeldByOther, NoTrouble
  <2>4. CASE /\ holder = NoOne /\ UNCHANGED replicaVars
             /\ attempt' = [attempt EXCEPT ![r].at = "create"]
    <3>1. /\ holder # r /\ attempt'[r].last = attempt[r].last
          /\ UNCHANGED <<phase, rest, polled>>
      BY <1>1, <2>4, ElectionAssumption DEF replicaVars, TypeOK, Attempts
    <3> QED BY <2>1, <3>1 DEF Attended, Undisturbed, Paced, Paid, PaidSoFar, Keeps
  <2>5. CASE /\ NoTrouble /\ UNCHANGED replicaVars
             /\ attempt' = [attempt EXCEPT ![r].at = "update", ![r].current = TRUE]
    <3>1. /\ attempt'[r].at = "update" /\ attempt'[r].current
          /\ attempt'[r].last = attempt[r].last
          /\ UNCHANGED <<phase, stopped, rest, polled, trouble>>
      BY <1>1, <2>5 DEF replicaVars, TypeOK, Attempts, NoTrouble
    <3> QED BY <2>1, <3>1 DEF Attended, Undisturbed, Paced, Paid, PaidSoFar, Keeps, Leads, Due
  <2> QED BY <1>3, <2>2, <2>3, <2>4, <2>5 DEF Got
<1>4. CASE Put(r)
  <2>1. CASE Written(r) /\ (Succeeded(r) \/ Failed(r)) /\ trouble' = 0
    BY <1>1, <2>1, WriteAttended
  <2>2. CASE /\ (~Accepted(r) /\ NoTrouble) \/ Troubled
             /\ Failed(r) /\ Done(r) /\ UNCHANGED <<holder, idle>>
    <3>1. attempt[r].at \in {"create", "update"}
      BY <1>4 DEF Put
    <3>2. ~Accepted(r) => holder # r
      BY <3>1 DEF Accepted, Attended, Undisturbed
    <3>3. trouble' \in Nat /\ (holder = r => trouble' = trouble + 1)
      BY <1>1, <2>2, <3>2 DEF Troubled, NoTrouble
    <3> QED BY <1>1, <2>2, <3>1, <3>3, FailAttended
  <2> QED BY <1>4, <2>1, <2>2 DEF Put
<1>5. CASE Start(r) \/ EndCandidate(r) \/ Crash(r)
  <2>1. phase'[r] # "leader" /\ attempt'[r] \in {attempt[r], NoAttempt} /\ UNCHANGED holder
    BY <1>1, <1>5 DEF Start, EndCandidate, Crash, Done, TypeOK, recordVars
  <2> QED BY <2>1, IdleAttended DEF Leads
<1>6. CASE Stop(r)
  <2>1. stopped'[r] /\ UNCHANGED <<holder, phase, rest, polled, attempt>>
    BY <1>1, <1>6 DEF Stop, TypeOK
  <2>2. Paced(r)'
    BY <2>1 DEF Attended, Paced
  <2> QED BY <2>1, <2>2, IdleAttended DEF Leads
<1> QED
  BY <1>2, <1>3, <1>4, <1>5, <1>6 DEF ReplicaStep

\* The steps of a replica, for any other.
LEMMA OtherStepAttended ==
  ASSUME NEW r \in Replicas, NEW q \in Replicas, q # r, Inv, Attended(r),
         ReplicaStep(q) \/ Crash(q) \/ Stop(q)
  PROVE  Attended(r)'
<1>1. TypeOK /\ trouble \in Nat
  BY DEF Inv, TypeOK
<1>2. CASE Put(q) /\ Written(q)
  <2>1. /\ phase'[r] = phase[r] /\ stopped'[r] = stopped[r] /\ rest'[r] = rest[r]
        /\ polled'[r] = polled[r]
    BY <1>1, <1>2 DEF Put, Succeeded, Failed, StartLeading, PollAgain, PollOn, Retry, TypeOK
  <2>2. /\ holder' # r /\ attempt'[r].at = attempt[r].at /\ attempt'[r].last = attempt[r].last
    BY <1>1, <1>2 DEF Written, TypeOK, Attempts
  <2> QED BY <1>1, <2>1, <2>2, LeftAlone
<1>3. ASSUME UNCHANGED <<holder, idle>>, attempt'[r] = attempt[r],
             phase'[r] = phase[r], stopped'[r] = stopped[r], rest'[r] = rest[r],
             polled'[r] = polled[r], trouble' \in {trouble, trouble + 1}
      PROVE  Attended(r)'
  BY <1>1, <1>3, LeftAlone
<1>4. CASE Begin(q)
  BY <1>1, <1>3, <1>4 DEF Begin, TypeOK, recordVars, replicaVars
<1>5. CASE Got(q)
  <2>1. attempt'[r] = attempt[r]
    BY <1>1, <1>5 DEF Got, Done, TypeOK
  <2>2. /\ phase'[r] = phase[r] /\ stopped'[r] = stopped[r] /\ rest'[r] = rest[r]
        /\ polled'[r] = polled[r]
    BY <1>1, <1>5 DEF Got, Failed, PollAgain, PollOn, Retry, TypeOK, replicaVars
  <2>3. UNCHANGED <<holder, idle>> /\ trouble' \in {trouble, trouble + 1}
    BY <1>5 DEF Got, Troubled, NoTrouble
  <2> QED BY <1>3, <2>1, <2>2, <2>3
<1>6. CASE Put(q) /\ ~Written(q)
  <2>1. /\ Failed(q) /\ Done(q) /\ UNCHANGED <<holder, idle>>
        /\ trouble' \in {trouble, trouble + 1}
    BY <1>6 DEF Put, Troubled, NoTrouble
  <2>2. /\ attempt'[r] = attempt[r]
        /\ phase'[r] = phase[r] /\ stopped'[r] = stopped[r] /\ rest'[r] = rest[r]
        /\ polled'[r] = polled[r]
    BY <1>1, <2>1 DEF Done, Failed, PollAgain, PollOn, Retry, TypeOK
  <2> QED BY <1>3, <2>1, <2>2
<1>7. CASE Start(q) \/ EndCandidate(q)
  BY <1>1, <1>3, <1>7 DEF Start, EndCandidate, TypeOK, recordVars
<1>8. CASE Crash(q) \/ Stop(q)
  BY <1>1, <1>3, <1>8 DEF Crash, Stop, Done, TypeOK, Troubled
<1> QED
  BY <1>2, <1>4, <1>5, <1>6, <1>7, <1>8 DEF ReplicaStep

AllAttended == \A r \in Replicas : Attended(r)

\* For any replicas, durations and mishaps, a leader's tries are paid for.
THEOREM AllAttendedCorrect == Spec => []AllAttended
<1>1. Init => AllAttended
  BY DEF Init, AllAttended, Attended, Undisturbed, Paced, Paid, PaidSoFar, Keeps, Leads,
         NoAttempt
<1>2. Inv /\ AllAttended /\ [Next]_vars => AllAttended'
  <2> SUFFICES ASSUME Inv, AllAttended, [Next]_vars, NEW r \in Replicas
               PROVE  Attended(r)'
    BY DEF AllAttended
  <2>1. Attended(r)
    BY DEF AllAttended
  <2>2. CASE Tick
    BY <2>1, <2>2, TickAttended DEF Inv
  <2>3. CASE \E q \in Replicas : ReplicaStep(q) \/ Crash(q) \/ Stop(q)
    BY <2>1, <2>3, OwnStepAttended, OtherStepAttended
  <2>4. CASE UNCHANGED vars
    BY <2>1, <2>4 DEF vars, recordVars, replicaVars, Attended, Undisturbed, Paced, Paid,
                      PaidSoFar, Keeps, Leads, Due
  <2> QED BY <2>2, <2>3, <2>4 DEF Next
<1> QED
  BY <1>1, <1>2, InvCorrect, PTL DEF Spec

\* For any replicas, durations and mishaps: a running leader loses the record to
\* another replica only after as many mishaps as it had tries to renew within a
\* lease (the durations of controller.go:52 and the loop of renewUntilFunc).
THEOREM NoSpuriousTakeoverCorrect == Spec => NoSpuriousTakeover
<1> DEFINE Fair(r) == Leads(r) /\ holder = r /\ holder' # r => trouble >= Patience
<1>1. Inv /\ AllAttended /\ [Next]_vars => [\A r \in Replicas : Fair(r)]_vars
  <2> SUFFICES ASSUME Inv, AllAttended, [Next]_vars, NEW r \in Replicas,
                      Leads(r), holder = r, holder' # r
               PROVE  trouble >= Patience
    OBVIOUS
  <2>1. [LeaseOf!Next]_(LeaseOf!leaseVars)
    BY StepImplements
  <2>2. r # NoOne
    BY ElectionAssumption
  <2>3. idle = LeaseDuration
    BY <2>1, <2>2 DEF LeaseOf!Next, LeaseOf!Renew, LeaseOf!Take, LeaseOf!Pass,
                      LeaseOf!leaseVars
  <2>4. trouble >= Tries(idle - 1)
    BY DEF AllAttended, Attended, PaidSoFar, Keeps
  <2> QED BY <2>3, <2>4 DEF Tries, Patience
<1> QED
  BY <1>1, InvCorrect, AllAttendedCorrect, PTL DEF Spec, NoSpuriousTakeover
=============================================================================
