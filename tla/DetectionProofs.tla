--------------------------- MODULE DetectionProofs --------------------------
(***************************************************************************)
(* What the detectors compute, for answers of any length: the folds over   *)
(* the samples, step by step, and what they add up to.  An induction over  *)
(* the samples of an answer looks for the least prefix that breaks a claim.*)
(***************************************************************************)
EXTENDS Detection, FiniteSetTheorems, SequenceTheorems, TLAPS

-----------------------------------------------------------------------------
(* Folds over sequences.                                                   *)

LEMMA LeastNumber ==
  ASSUME NEW T \in SUBSET Nat, T # {}
  PROVE  \E n \in T : \A m \in T : n <= m
<1>1. PICK n \in T : \A m \in T : ~(<<m, n>> \in OpToRel(<, Nat))
  BY NatLessThanWellFounded, WFMin
<1>2. \A m \in T : ~(m < n)
  BY <1>1 DEF OpToRel
<1> QED
  BY <1>2

LEMMA MaxOfPrefix ==
  ASSUME NEW n \in Nat, NEW S \in SUBSET (1..n), S # {}
  PROVE  Max(S) \in S /\ \A y \in S : Max(S) >= y
<1> DEFINE bounds == {u \in Nat : \A y \in S : y <= u}
<1>1. n \in bounds
  OBVIOUS
<1>2. PICK u \in bounds : \A v \in bounds : u <= v
  <2> HIDE DEF bounds
  <2>1. bounds \in SUBSET Nat
    BY DEF bounds
  <2> QED BY <1>1, <2>1, LeastNumber
<1>3. u \in S
  <2> SUFFICES ASSUME u \notin S PROVE FALSE
    OBVIOUS
  <2>0. u \in Nat /\ \A y \in S : y \in 1..n /\ y <= u /\ y # u
    BY <1>2
  <2>1. \A y \in S : y <= u - 1
    BY <2>0
  <2>2. u # 0
    <3>1. PICK y \in S : TRUE
      OBVIOUS
    <3> QED BY <2>0, <3>1
  <2>3. u - 1 \in bounds
    BY <1>2, <2>1, <2>2
  <2> QED BY <1>2, <2>3
<1>4. \E x \in S : \A y \in S : x >= y
  BY <1>2, <1>3
<1> QED
  BY <1>4 DEF Max

\* The equation of a fold over the positions 1..n, for the steps in step.
FoldEquation(f, n, base, step) ==
  f = [s \in SUBSET (1..n) |->
         IF s = {} THEN base ELSE step[Max(s)][f[s \ {Max(s)}]]]

\* A solution for one position less is extended by the last step.
LEMMA FoldExtends ==
  ASSUME NEW n \in Nat, n # 0, NEW base \in Nat, NEW step, step[n] \in [Nat -> Nat],
         NEW g \in [SUBSET (1..(n - 1)) -> Nat], FoldEquation(g, n - 1, base, step)
  PROVE  \E f \in [SUBSET (1..n) -> Nat] : FoldEquation(f, n, base, step)
<1> DEFINE f == [s \in SUBSET (1..n) |-> IF n \in s THEN step[n][g[s \ {n}]] ELSE g[s]]
<1>1. ASSUME NEW s \in SUBSET (1..n)
      PROVE  /\ f[s] \in Nat
             /\ f[s] = IF s = {} THEN base ELSE step[Max(s)][f[s \ {Max(s)}]]
  <2>1. s \ {n} \in SUBSET (1..(n - 1)) /\ s \ {n} \in SUBSET (1..n)
    <3>1. \A x \in 1..n : x # n => x \in 1..(n - 1)
      OBVIOUS
    <3> QED BY <3>1
  <2>2. g[s \ {n}] \in Nat
    BY <2>1
  <2>3. CASE n \in s
    <3>1. Max(s) = n
      <4>1. Max(s) \in s /\ \A y \in s : Max(s) >= y
        BY <2>3, MaxOfPrefix
      <4>2. Max(s) \in 1..n /\ Max(s) >= n
        BY <2>3, <4>1
      <4> QED BY <4>2
    <3>2. f[s \ {n}] = g[s \ {n}]
      BY <2>1
    <3>3. f[s] = step[n][g[s \ {n}]] /\ s # {}
      BY <2>3
    <3> HIDE DEF f
    <3> QED BY <2>2, <3>1, <3>2, <3>3
  <2>4. CASE n \notin s /\ s = {}
    <3>1. {} \in SUBSET (1..(n - 1))
      OBVIOUS
    <3>2. g[{}] = base
      BY <3>1 DEF FoldEquation
    <3> QED BY <2>4, <3>2
  <2>5. CASE n \notin s /\ s # {}
    <3>1. s \in SUBSET (1..(n - 1))
      BY <2>1, <2>5
    <3>2. Max(s) \in s
      BY <2>5, MaxOfPrefix
    <3>3. /\ s \ {Max(s)} \in SUBSET (1..(n - 1)) /\ s \ {Max(s)} \in SUBSET (1..n)
          /\ n \notin s \ {Max(s)}
      BY <2>5, <3>1
    <3>4. g[s] = step[Max(s)][g[s \ {Max(s)}]]
      BY <2>5, <3>1 DEF FoldEquation
    <3>5. f[s] = g[s] /\ f[s \ {Max(s)}] = g[s \ {Max(s)}]
      BY <2>5, <3>3
    <3>6. g[s] \in Nat
      BY <3>1
    <3> HIDE DEF f
    <3> QED BY <2>5, <3>4, <3>5, <3>6
  <2> QED BY <2>3, <2>4, <2>5
<1>2. f = [s \in SUBSET (1..n) |-> f[s]]
  OBVIOUS
<1> HIDE DEF f
<1>3. f \in [SUBSET (1..n) -> Nat]
  BY <1>1, <1>2
<1>4. FoldEquation(f, n, base, step)
  BY <1>1, <1>2 DEF FoldEquation
<1> QED
  BY <1>3, <1>4

\* It has a solution, whatever the steps.
LEMMA FoldExists ==
  ASSUME NEW n \in Nat, NEW base \in Nat, NEW step \in [1..n -> [Nat -> Nat]]
  PROVE  \E f \in [SUBSET (1..n) -> Nat] : FoldEquation(f, n, base, step)
<1> DEFINE Solved(m) ==
             \E f \in [SUBSET (1..m) -> Nat] : FoldEquation(f, m, base, step)
           unsolved == {m \in 0..n : ~Solved(m)}
<1>1. Solved(0)
  <2> DEFINE f == [s \in SUBSET (1..0) |-> base]
  <2>1. \A s \in SUBSET (1..0) : s = {}
    OBVIOUS
  <2>2. f \in [SUBSET (1..0) -> Nat]
    OBVIOUS
  <2>3. \A s \in SUBSET (1..0) :
          f[s] = IF s = {} THEN base ELSE step[Max(s)][f[s \ {Max(s)}]]
    BY <2>1
  <2>4. f = [s \in SUBSET (1..0) |-> f[s]]
    OBVIOUS
  <2> HIDE DEF f
  <2>5. FoldEquation(f, 0, base, step)
    BY <2>3, <2>4 DEF FoldEquation
  <2> QED BY <2>2, <2>5
<1> HIDE DEF Solved
<1>2. CASE unsolved # {}
  <2>1. PICK m \in unsolved : \A k \in unsolved : m <= k
    <3>1. unsolved \in SUBSET Nat
      OBVIOUS
    <3> HIDE DEF unsolved
    <3> QED BY <1>2, <3>1, LeastNumber
  <2>2. m \in 1..n /\ m - 1 \in 0..n
    BY <1>1, <2>1
  <2>3. Solved(m - 1)
    BY <2>1, <2>2
  <2>4. step[m] \in [Nat -> Nat]
    BY <2>2
  <2>5. Solved(m)
    <3>1. m \in Nat /\ m # 0
      BY <2>2
    <3>2. PICK g \in [SUBSET (1..(m - 1)) -> Nat] : FoldEquation(g, m - 1, base, step)
      BY <2>3 DEF Solved
    <3> QED BY <2>4, <3>1, <3>2, FoldExtends DEF Solved
  <2> QED BY <2>1, <2>5
<1>3. CASE unsolved = {}
  <2>1. n \in 0..n
    OBVIOUS
  <2> QED BY <1>3, <2>1 DEF Solved
<1> QED
  BY <1>2, <1>3

-----------------------------------------------------------------------------
(* Sums, and the last of some values.                                      *)

\* The folds of Detection: what is added at the positions in hits, and what
\* the last of them says.
SumEquation(f, n, hits, adds) ==
  f = [s \in SUBSET (1..n) |->
         IF s = {} THEN 0
         ELSE IF Max(s) \in hits THEN f[s \ {Max(s)}] + adds[Max(s)]
                                 ELSE f[s \ {Max(s)}]]

LastEquation(f, n, base, hits, says) ==
  f = [s \in SUBSET (1..n) |->
         IF s = {} THEN base
         ELSE IF Max(s) \in hits THEN says[Max(s)] ELSE f[s \ {Max(s)}]]

Total(n, hits, adds) == (CHOOSE f : SumEquation(f, n, hits, adds))[1..n]

LastOf(n, base, hits, says) == (CHOOSE f : LastEquation(f, n, base, hits, says))[1..n]

LEMMA PrefixSteps ==
  ASSUME NEW n \in Nat, NEW i \in 1..n
  PROVE  /\ 1..i \in SUBSET (1..n) /\ 1..i # {}
         /\ Max(1..i) = i /\ (1..i) \ {Max(1..i)} = 1..(i - 1)
<1>1. 1..i \in SUBSET (1..n) /\ i \in 1..i
  OBVIOUS
<1>2. Max(1..i) \in 1..i /\ \A y \in 1..i : Max(1..i) >= y
  BY <1>1, MaxOfPrefix
<1>3. Max(1..i) = i
  BY <1>1, <1>2
<1>4. (1..i) \ {i} = 1..(i - 1)
  OBVIOUS
<1> QED
  BY <1>1, <1>3, <1>4

\* A sum runs through the positions one after another.
Runs(c, n, hits, adds) ==
  /\ c \in [0..n -> Nat]
  /\ c[0] = 0 /\ c[n] = Total(n, hits, adds)
  /\ \A i \in 1..n : c[i] = IF i \in hits THEN c[i - 1] + adds[i] ELSE c[i - 1]

LEMMA TotalSteps ==
  ASSUME NEW n \in Nat, NEW hits, NEW adds \in [1..n -> Nat]
  PROVE  \E c : Runs(c, n, hits, adds)
<1> DEFINE step == [i \in 1..n |-> [t \in Nat |-> IF i \in hits THEN t + adds[i] ELSE t]]
           h == CHOOSE f : SumEquation(f, n, hits, adds)
           c == [i \in 0..n |-> h[1..i]]
           untyped == {i \in 0..n : c[i] \notin Nat}
<1>1. \E f : SumEquation(f, n, hits, adds)
  <2>1. step \in [1..n -> [Nat -> Nat]]
    <3>1. ASSUME NEW i \in 1..n, NEW t \in Nat
          PROVE  (IF i \in hits THEN t + adds[i] ELSE t) \in Nat
      OBVIOUS
    <3> QED BY <3>1
  <2>2. PICK f \in [SUBSET (1..n) -> Nat] : FoldEquation(f, n, 0, step)
    <3> HIDE DEF step
    <3> QED BY <2>1, FoldExists
  <2>3. ASSUME NEW s \in SUBSET (1..n), s # {}
        PROVE  step[Max(s)][f[s \ {Max(s)}]] =
                 IF Max(s) \in hits THEN f[s \ {Max(s)}] + adds[Max(s)]
                                    ELSE f[s \ {Max(s)}]
    <3>1. Max(s) \in 1..n
      BY <2>3, MaxOfPrefix
    <3>2. f[s \ {Max(s)}] \in Nat
      OBVIOUS
    <3> QED BY <3>1, <3>2
  <2> HIDE DEF step
  <2>4. SumEquation(f, n, hits, adds)
    BY <2>2, <2>3 DEF FoldEquation, SumEquation
  <2> QED BY <2>4
<1>2. SumEquation(h, n, hits, adds)
  BY <1>1
<1> HIDE DEF h
<1>3. h[{}] = 0
  <2>1. {} \in SUBSET (1..n)
    OBVIOUS
  <2> QED BY <1>2, <2>1 DEF SumEquation
<1>4. ASSUME NEW i \in 1..n
      PROVE  h[1..i] = IF i \in hits THEN h[1..(i - 1)] + adds[i] ELSE h[1..(i - 1)]
  <2>1. h[1..i] = IF Max(1..i) \in hits
                    THEN h[(1..i) \ {Max(1..i)}] + adds[Max(1..i)]
                    ELSE h[(1..i) \ {Max(1..i)}]
    BY <1>2, PrefixSteps DEF SumEquation
  <2> QED BY <2>1, PrefixSteps
<1>5. /\ c[0] = 0
      /\ \A i \in 1..n : c[i] = IF i \in hits THEN c[i - 1] + adds[i] ELSE c[i - 1]
  <2>1. 1..0 = {} /\ 0 \in 0..n
    OBVIOUS
  <2>2. \A i \in 1..n : i \in 0..n /\ i - 1 \in 0..n
    OBVIOUS
  <2> QED BY <1>3, <1>4, <2>1, <2>2
<1>6. c[n] = Total(n, hits, adds)
  BY DEF Total, h
<1>7. c = [i \in 0..n |-> c[i]]
  OBVIOUS
<1> HIDE DEF c
<1>8. untyped = {}
  <2> SUFFICES ASSUME untyped # {} PROVE FALSE
    OBVIOUS
  <2>1. PICK i \in untyped : \A j \in untyped : i <= j
    <3>1. untyped \in SUBSET Nat
      OBVIOUS
    <3> HIDE DEF untyped
    <3> QED BY <3>1, LeastNumber
  <2>2. i \in 1..n /\ i - 1 \in 0..n
    BY <1>5, <2>1
  <2>3. c[i - 1] \in Nat /\ adds[i] \in Nat
    BY <2>1, <2>2
  <2>4. c[i] \in Nat
    BY <1>5, <2>2, <2>3
  <2> QED BY <2>1, <2>4
<1>9. c \in [0..n -> Nat]
  BY <1>7, <1>8
<1> QED
  BY <1>5, <1>6, <1>9 DEF Runs

NoneFollows(i, n, hits) == \A j \in 1..n : j > i => j \notin hits

\* The last of the values is the one that no other follows.
LEMMA LastSays ==
  ASSUME NEW n \in Nat, NEW base \in Nat, NEW says \in [1..n -> Nat], NEW hits,
         NEW i \in 1..n, i \in hits, NoneFollows(i, n, hits)
  PROVE  LastOf(n, base, hits, says) = says[i]
<1> DEFINE step == [j \in 1..n |-> [t \in Nat |-> IF j \in hits THEN says[j] ELSE t]]
           h == CHOOSE f : LastEquation(f, n, base, hits, says)
           wrong == {j \in i..n : h[1..j] # says[i]}
<1>1. \E f : LastEquation(f, n, base, hits, says)
  <2>1. step \in [1..n -> [Nat -> Nat]]
    <3>1. ASSUME NEW j \in 1..n, NEW t \in Nat
          PROVE  (IF j \in hits THEN says[j] ELSE t) \in Nat
      OBVIOUS
    <3> QED BY <3>1
  <2>2. PICK f \in [SUBSET (1..n) -> Nat] : FoldEquation(f, n, base, step)
    <3> HIDE DEF step
    <3> QED BY <2>1, FoldExists
  <2>3. ASSUME NEW s \in SUBSET (1..n), s # {}
        PROVE  step[Max(s)][f[s \ {Max(s)}]] =
                 IF Max(s) \in hits THEN says[Max(s)] ELSE f[s \ {Max(s)}]
    <3>1. Max(s) \in 1..n
      BY <2>3, MaxOfPrefix
    <3>2. f[s \ {Max(s)}] \in Nat
      OBVIOUS
    <3> QED BY <3>1, <3>2
  <2> HIDE DEF step
  <2>4. LastEquation(f, n, base, hits, says)
    BY <2>2, <2>3 DEF FoldEquation, LastEquation
  <2> QED BY <2>4
<1>2. LastEquation(h, n, base, hits, says)
  BY <1>1
<1> HIDE DEF h
<1>3. ASSUME NEW j \in 1..n
      PROVE  h[1..j] = IF j \in hits THEN says[j] ELSE h[1..(j - 1)]
  <2>1. h[1..j] = IF Max(1..j) \in hits THEN says[Max(1..j)]
                                        ELSE h[(1..j) \ {Max(1..j)}]
    BY <1>2, PrefixSteps DEF LastEquation
  <2> QED BY <2>1, PrefixSteps
<1>4. CASE wrong # {}
  <2>1. PICK j \in wrong : \A k \in wrong : j <= k
    <3>1. wrong \in SUBSET Nat
      OBVIOUS
    <3> HIDE DEF wrong
    <3> QED BY <1>4, <3>1, LeastNumber
  <2>2. j \in 1..n /\ h[1..j] # says[i]
    BY <2>1
  <2>3. j # i
    BY <1>3, <2>2
  <2>4. j > i /\ j - 1 \in i..n /\ j - 1 \notin wrong
    BY <2>1, <2>3
  <2>5. h[1..(j - 1)] = says[i]
    BY <2>4
  <2> QED BY <1>3, <2>2, <2>4, <2>5 DEF NoneFollows
<1>5. CASE wrong = {}
  <2>1. n \in i..n
    OBVIOUS
  <2> QED BY <1>5, <2>1 DEF LastOf, h
<1> QED
  BY <1>4, <1>5

-----------------------------------------------------------------------------
(* What the samples of a pod add up to.                                    *)

\* What Configuration says of an answer before it is truncated.
AmountOf(d, samples, p, bad) ==
  FoldLeft(LAMBDA sum, s : IF s.pod = p /\ (bad => ~ValueOk(d, s.value))
                             THEN sum + s.amount ELSE sum,
           0, samples)

SamplesOf(samples, p) == {i \in DOMAIN samples : samples[i].pod = p}

\* The positions of a pod's samples whose value is good, or is bad.
Judged(d, samples, p, ok) ==
  {i \in SamplesOf(samples, p) : ValueOk(d, samples[i].value) = ok}

Weighed(d, samples, p, bad) ==
  {i \in SamplesOf(samples, p) : bad => ~ValueOk(d, samples[i].value)}

Amounts(samples) == [i \in DOMAIN samples |-> samples[i].amount]
Wholes(samples) == [i \in DOMAIN samples |-> Whole(samples[i].amount)]

LEMMA CountIsTotal ==
  ASSUME NEW d, NEW n \in Nat, NEW samples, DOMAIN samples = 1..n, NEW p, NEW ok \in BOOLEAN
  PROVE  Count(d, samples, p, ok) = Total(n, Judged(d, samples, p, ok), Wholes(samples))
<1> DEFINE hits == Judged(d, samples, p, ok)
           adds == Wholes(samples)
           CountEquation(f) ==
             f = [s \in SUBSET (1..n) |->
                    IF s = {} THEN 0
                    ELSE IF samples[Max(s)].pod = p /\ ValueOk(d, samples[Max(s)].value) = ok
                      THEN f[s \ {Max(s)}] + Whole(samples[Max(s)].amount)
                      ELSE f[s \ {Max(s)}]]
<1>1. Count(d, samples, p, ok) = (CHOOSE f : CountEquation(f))[1..n]
  BY DEF Count, FoldLeft, MapThenFoldSet
<1>2. ASSUME NEW f PROVE CountEquation(f) <=> SumEquation(f, n, hits, adds)
  <2>1. ASSUME NEW s \in SUBSET (1..n), s # {}
        PROVE  (IF Max(s) \in hits THEN f[s \ {Max(s)}] + adds[Max(s)]
                                   ELSE f[s \ {Max(s)}])
               = IF samples[Max(s)].pod = p /\ ValueOk(d, samples[Max(s)].value) = ok
                   THEN f[s \ {Max(s)}] + Whole(samples[Max(s)].amount)
                   ELSE f[s \ {Max(s)}]
    <3>1. Max(s) \in 1..n
      BY <2>1, MaxOfPrefix
    <3> QED BY <3>1 DEF Judged, SamplesOf, Wholes
  <2> HIDE DEF hits, adds
  <2> QED BY <2>1 DEF SumEquation
<1> HIDE DEF CountEquation
<1>3. (CHOOSE f : CountEquation(f)) = (CHOOSE f : SumEquation(f, n, hits, adds))
  BY <1>2
<1> QED
  BY <1>1, <1>3 DEF Total

LEMMA AmountIsTotal ==
  ASSUME NEW d, NEW n \in Nat, NEW samples, DOMAIN samples = 1..n, NEW p,
         NEW bad \in BOOLEAN
  PROVE  AmountOf(d, samples, p, bad) =
           Total(n, Weighed(d, samples, p, bad), Amounts(samples))
<1> DEFINE hits == Weighed(d, samples, p, bad)
           adds == Amounts(samples)
           AmountEquation(f) ==
             f = [s \in SUBSET (1..n) |->
                    IF s = {} THEN 0
                    ELSE IF /\ samples[Max(s)].pod = p
                            /\ bad => ~ValueOk(d, samples[Max(s)].value)
                      THEN f[s \ {Max(s)}] + samples[Max(s)].amount
                      ELSE f[s \ {Max(s)}]]
<1>1. AmountOf(d, samples, p, bad) = (CHOOSE f : AmountEquation(f))[1..n]
  BY DEF AmountOf, FoldLeft, MapThenFoldSet
<1>2. ASSUME NEW f PROVE AmountEquation(f) <=> SumEquation(f, n, hits, adds)
  <2>1. ASSUME NEW s \in SUBSET (1..n), s # {}
        PROVE  (IF Max(s) \in hits THEN f[s \ {Max(s)}] + adds[Max(s)]
                                   ELSE f[s \ {Max(s)}])
               = IF /\ samples[Max(s)].pod = p
                    /\ bad => ~ValueOk(d, samples[Max(s)].value)
                   THEN f[s \ {Max(s)}] + samples[Max(s)].amount
                   ELSE f[s \ {Max(s)}]
    <3>1. Max(s) \in 1..n
      BY <2>1, MaxOfPrefix
    <3> QED BY <3>1 DEF Weighed, SamplesOf, Amounts
  <2> HIDE DEF hits, adds
  <2> QED BY <2>1 DEF SumEquation
<1> HIDE DEF AmountEquation
<1>3. (CHOOSE f : AmountEquation(f)) = (CHOOSE f : SumEquation(f, n, hits, adds))
  BY <1>2
<1> QED
  BY <1>1, <1>3 DEF Total

LEMMA RatioIsLast ==
  ASSUME NEW n \in Nat, NEW samples, DOMAIN samples = 1..n, NEW p
  PROVE  Ratio(samples, p) = LastOf(n, 100, SamplesOf(samples, p), Amounts(samples))
<1> DEFINE hits == SamplesOf(samples, p)
           says == Amounts(samples)
           RatioEquation(f) ==
             f = [s \in SUBSET (1..n) |->
                    IF s = {} THEN 100
                    ELSE IF samples[Max(s)].pod = p THEN samples[Max(s)].amount
                                                    ELSE f[s \ {Max(s)}]]
<1>1. Ratio(samples, p) = (CHOOSE f : RatioEquation(f))[1..n]
  BY DEF Ratio, FoldLeft, MapThenFoldSet
<1>2. ASSUME NEW f PROVE RatioEquation(f) <=> LastEquation(f, n, 100, hits, says)
  <2>1. ASSUME NEW s \in SUBSET (1..n), s # {}
        PROVE  (IF Max(s) \in hits THEN says[Max(s)] ELSE f[s \ {Max(s)}])
               = IF samples[Max(s)].pod = p THEN samples[Max(s)].amount
                                            ELSE f[s \ {Max(s)}]
    <3>1. Max(s) \in 1..n
      BY <2>1, MaxOfPrefix
    <3> QED BY <3>1 DEF SamplesOf, Amounts
  <2> HIDE DEF hits, says
  <2> QED BY <2>1 DEF LastEquation
<1> HIDE DEF RatioEquation
<1>3. (CHOOSE f : RatioEquation(f)) = (CHOOSE f : LastEquation(f, n, 100, hits, says))
  BY <1>2
<1> QED
  BY <1>1, <1>3 DEF LastOf

\* One more sample, of amount x, of which w is left.
LEMMA OneMore ==
  ASSUME NEW o \in Nat, NEW k \in Nat, NEW part \in Nat, NEW sum \in Nat, NEW m \in Nat,
         NEW w \in Nat, NEW x \in Nat, x <= 10 * w + 9, 10 * w <= x
  PROVE  /\ 10 * k <= part => 10 * (k + w) <= part + x
         /\ sum <= 10 * (o + k) + 9 * m =>
              /\ sum + x <= 10 * ((o + w) + k) + 9 * (m + 1)
              /\ sum + x <= 10 * (o + (k + w)) + 9 * (m + 1)
         /\ x = 10 * w /\ part = 10 * k => part + x = 10 * (k + w)
         /\ x = 10 * w /\ sum = 10 * (o + k) =>
              sum + x = 10 * ((o + w) + k) /\ sum + x = 10 * (o + (k + w))
OBVIOUS

\* Truncating every amount loses less than a unit for every sample counted.
AddsUp(n, amount, whole, good, bad) ==
  LET ok == Total(n, good, whole)
      ko == Total(n, bad, whole)
      badAmount == Total(n, bad, amount)
      allAmount == Total(n, good \cup bad, amount)
      number == Cardinality(good \cup bad) IN
  /\ ok \in Nat /\ ko \in Nat /\ badAmount \in Nat /\ allAmount \in Nat /\ number \in Nat
  /\ 10 * ko <= badAmount
  /\ allAmount <= 10 * (ok + ko) + 9 * number
  /\ (\A i \in 1..n : amount[i] % 10 = 0) =>
       badAmount = 10 * ko /\ allAmount = 10 * (ok + ko)
  /\ badAmount > 0 => bad # {}

LEMMA Tally ==
  ASSUME NEW n \in Nat, NEW amount \in [1..n -> Nat],
         NEW good \in SUBSET (1..n), NEW bad \in SUBSET (1..n), good \cap bad = {},
         NEW whole, whole = [i \in 1..n |-> Whole(amount[i])]
  PROVE  AddsUp(n, amount, whole, good, bad)
<1> DEFINE upTo(i) == {j \in good \cup bad : j <= i}
           number == [i \in 0..n |-> Cardinality(upTo(i))]
           exact == \A i \in 1..n : amount[i] % 10 = 0
<1>1. ASSUME NEW i \in 1..n
      PROVE  /\ whole[i] \in Nat /\ amount[i] \in Nat
             /\ 10 * whole[i] <= amount[i] /\ amount[i] <= 10 * whole[i] + 9
             /\ exact => amount[i] = 10 * whole[i]
  BY DEF Whole
<1>2. whole \in [1..n -> Nat]
  BY <1>1
<1> HIDE DEF exact
<1>3. PICK ok : Runs(ok, n, good, whole)
  BY <1>2, TotalSteps
<1>4. PICK ko : Runs(ko, n, bad, whole)
  BY <1>2, TotalSteps
<1>5. PICK badSum : Runs(badSum, n, bad, amount)
  BY TotalSteps
<1>6. PICK allSum : Runs(allSum, n, good \cup bad, amount)
  BY TotalSteps
<1>7. /\ number \in [0..n -> Nat] /\ number[0] = 0
      /\ number[n] = Cardinality(good \cup bad)
      /\ \A i \in 1..n :
           number[i] = IF i \in good \cup bad THEN number[i - 1] + 1 ELSE number[i - 1]
  <2>1. ASSUME NEW i \in 0..n PROVE IsFiniteSet(upTo(i)) /\ Cardinality(upTo(i)) \in Nat
    <3>1. upTo(i) \in SUBSET (1..n)
      OBVIOUS
    <3>2. IsFiniteSet(1..n)
      BY FS_Interval
    <3> HIDE DEF upTo
    <3> QED BY <3>1, <3>2, FS_Subset, FS_CardinalityType
  <2>0. \A j \in good \cup bad : j \in Nat /\ j > 0 /\ j <= n
    OBVIOUS
  <2>2. 0 \in 0..n /\ n \in 0..n /\ \A j \in good \cup bad : ~(j <= 0)
    BY <2>0
  <2>3. ASSUME NEW i \in 1..n
        PROVE  number[i] = IF i \in good \cup bad THEN number[i - 1] + 1 ELSE number[i - 1]
    <3>1. i \in 0..n /\ i - 1 \in 0..n
      OBVIOUS
    <3>2. \A j \in good \cup bad : j <= i <=> j <= i - 1 \/ j = i
      BY <2>0
    <3>3. upTo(i) = IF i \in good \cup bad THEN upTo(i - 1) \cup {i} ELSE upTo(i - 1)
      BY <3>2
    <3>4. i \notin upTo(i - 1)
      OBVIOUS
    <3> HIDE DEF upTo
    <3> QED BY <2>1, <3>1, <3>3, <3>4, FS_AddElement
  <2>4. number[0] = 0 /\ number[n] = Cardinality(good \cup bad)
    <3>1. upTo(0) = {} /\ upTo(n) = good \cup bad
      BY <2>0, <2>2
    <3> QED BY <2>2, <3>1, FS_EmptySet
  <2>5. number \in [0..n -> Nat]
    BY <2>1
  <2> QED BY <2>3, <2>4, <2>5
<1> HIDE DEF number
<1> DEFINE Counted(i) ==
             /\ 10 * ko[i] <= badSum[i]
             /\ allSum[i] <= 10 * (ok[i] + ko[i]) + 9 * number[i]
             /\ exact => badSum[i] = 10 * ko[i] /\ allSum[i] = 10 * (ok[i] + ko[i])
             /\ bad = {} => badSum[i] = 0
           wrong == {i \in 0..n : ~Counted(i)}
<1>8. wrong = {}
  <2> SUFFICES ASSUME wrong # {} PROVE FALSE
    OBVIOUS
  <2>1. PICK i \in wrong : \A j \in wrong : i <= j
    <3>1. wrong \in SUBSET Nat
      OBVIOUS
    <3> HIDE DEF wrong
    <3> QED BY <3>1, LeastNumber
  <2>2. CASE i = 0
    <3>1. Counted(0)
      BY <1>3, <1>4, <1>5, <1>6, <1>7 DEF Runs
    <3> QED BY <2>1, <2>2, <3>1
  <2>3. CASE i # 0
    <3> DEFINE o == ok[i - 1]
               k == ko[i - 1]
               part == badSum[i - 1]
               sum == allSum[i - 1]
               m == number[i - 1]
               w == whole[i]
               x == amount[i]
    <3>1. i \in 1..n /\ i - 1 \in 0..n
      BY <2>1, <2>3
    <3>2. /\ 10 * k <= part /\ sum <= 10 * (o + k) + 9 * m
          /\ exact => part = 10 * k /\ sum = 10 * (o + k)
          /\ bad = {} => part = 0
      <4>1. Counted(i - 1)
        BY <2>1, <3>1
      <4> QED BY <4>1
    <3>3. o \in Nat /\ k \in Nat /\ part \in Nat /\ sum \in Nat /\ m \in Nat
      BY <1>3, <1>4, <1>5, <1>6, <1>7, <3>1 DEF Runs
    <3>4. /\ w \in Nat /\ x \in Nat /\ 10 * w <= x /\ x <= 10 * w + 9
          /\ exact => x = 10 * w
      BY <1>1, <3>1
    <3>5. CASE i \in good
      <4>1. /\ ok[i] = o + w /\ ko[i] = k /\ badSum[i] = part /\ allSum[i] = sum + x
            /\ number[i] = m + 1
        BY <1>3, <1>4, <1>5, <1>6, <1>7, <3>1, <3>5 DEF Runs
      <4> HIDE DEF o, k, part, sum, m, w, x
      <4>2. /\ sum + x <= 10 * ((o + w) + k) + 9 * (m + 1)
            /\ exact => sum + x = 10 * ((o + w) + k)
        BY <3>2, <3>3, <3>4, OneMore
      <4>3. Counted(i)
        BY <3>2, <4>1, <4>2
      <4> QED BY <2>1, <4>3
    <3>6. CASE i \in bad
      <4>1. /\ ok[i] = o /\ ko[i] = k + w /\ badSum[i] = part + x /\ allSum[i] = sum + x
            /\ number[i] = m + 1
        BY <1>3, <1>4, <1>5, <1>6, <1>7, <3>1, <3>6 DEF Runs
      <4> HIDE DEF o, k, part, sum, m, w, x
      <4>2. /\ 10 * (k + w) <= part + x
            /\ sum + x <= 10 * (o + (k + w)) + 9 * (m + 1)
            /\ exact => part + x = 10 * (k + w) /\ sum + x = 10 * (o + (k + w))
        BY <3>2, <3>3, <3>4, OneMore
      <4>3. Counted(i)
        BY <3>2, <3>6, <4>1, <4>2
      <4> QED BY <2>1, <4>3
    <3>7. CASE i \notin good \cup bad
      <4>1. /\ ok[i] = o /\ ko[i] = k /\ badSum[i] = part /\ allSum[i] = sum
            /\ number[i] = m
        BY <1>3, <1>4, <1>5, <1>6, <1>7, <3>1, <3>7 DEF Runs
      <4>2. Counted(i)
        BY <3>2, <4>1
      <4> QED BY <2>1, <4>2
    <3> QED BY <3>5, <3>6, <3>7
  <2> QED BY <2>2, <2>3
<1>9. n \in 0..n
  OBVIOUS
<1>10. Counted(n)
  BY <1>8, <1>9
<1>11. /\ ok[n] \in Nat /\ ko[n] \in Nat /\ badSum[n] \in Nat /\ allSum[n] \in Nat
       /\ number[n] \in Nat
  BY <1>3, <1>4, <1>5, <1>6, <1>7, <1>9 DEF Runs
<1> QED
  BY <1>3, <1>4, <1>5, <1>6, <1>7, <1>10, <1>11 DEF Runs, exact, AddsUp

\* What is counted of a pod, against what the samples say of it.
LEMMA TallyOfPod ==
  ASSUME NEW d, NEW samples \in Seq(Samples), NEW p
  PROVE  LET ok == Count(d, samples, p, TRUE)
             ko == Count(d, samples, p, FALSE)
             bad == AmountOf(d, samples, p, TRUE)
             all == AmountOf(d, samples, p, FALSE)
             number == Cardinality(SamplesOf(samples, p)) IN
         /\ ok \in Nat /\ ko \in Nat /\ bad \in Nat /\ all \in Nat /\ number \in Nat
         /\ 10 * ko <= bad /\ all <= 10 * (ok + ko) + 9 * number
         /\ (\A i \in DOMAIN samples : samples[i].amount % 10 = 0) =>
              bad = 10 * ko /\ all = 10 * (ok + ko)
         /\ bad > 0 => p \in Reporting(samples)
         /\ p \in Reporting(samples) => number > 0
<1> DEFINE n == Len(samples)
           amount == Amounts(samples)
           whole == Wholes(samples)
           goodOnes == Judged(d, samples, p, TRUE)
           badOnes == Judged(d, samples, p, FALSE)
<1>1. n \in Nat /\ DOMAIN samples = 1..n
  OBVIOUS
<1>2. \A i \in 1..n : samples[i] \in Samples
  BY <1>1
<1>3. amount \in [1..n -> Nat]
  BY <1>1, <1>2 DEF Samples, Amounts
<1>4. whole = [i \in 1..n |-> Whole(amount[i])]
  BY <1>1 DEF Amounts, Wholes
<1>5. /\ goodOnes \in SUBSET (1..n) /\ badOnes \in SUBSET (1..n) /\ goodOnes \cap badOnes = {}
      /\ goodOnes \cup badOnes = SamplesOf(samples, p)
  <2>1. ASSUME NEW v PROVE ValueOk(d, v) \in BOOLEAN
    <3>1. CASE d.goodValues # {}
      <4>1. ValueOk(d, v) <=> v \in d.goodValues
        BY <3>1 DEF ValueOk
      <4> QED BY <3>1 DEF ValueOk
    <3>2. CASE d.goodValues = {}
      BY <3>2 DEF ValueOk
    <3> QED BY <3>1, <3>2
  <2> QED BY <1>1, <2>1 DEF Judged, SamplesOf
<1>6. /\ Count(d, samples, p, TRUE) = Total(n, goodOnes, whole)
      /\ Count(d, samples, p, FALSE) = Total(n, badOnes, whole)
  BY <1>1, CountIsTotal
<1>7. AmountOf(d, samples, p, TRUE) = Total(n, badOnes, amount)
  <2>1. Weighed(d, samples, p, TRUE) = badOnes
    BY DEF Judged, Weighed, ValueOk
  <2>2. AmountOf(d, samples, p, TRUE) = Total(n, Weighed(d, samples, p, TRUE), amount)
    BY <1>1, AmountIsTotal
  <2> QED BY <2>1, <2>2
<1>8. AmountOf(d, samples, p, FALSE) = Total(n, goodOnes \cup badOnes, amount)
  <2>1. Weighed(d, samples, p, FALSE) = goodOnes \cup badOnes
    BY <1>5 DEF Weighed
  <2>2. AmountOf(d, samples, p, FALSE) = Total(n, Weighed(d, samples, p, FALSE), amount)
    BY <1>1, AmountIsTotal
  <2> QED BY <2>1, <2>2
<1>9. p \in Reporting(samples) <=> goodOnes \cup badOnes # {}
  BY <1>5 DEF Reporting, SamplesOf
<1>10. IsFiniteSet(goodOnes \cup badOnes)
  <2>1. IsFiniteSet(1..n)
    BY <1>1, FS_Interval
  <2>2. goodOnes \cup badOnes \in SUBSET (1..n)
    BY <1>5
  <2> HIDE DEF goodOnes, badOnes
  <2> QED BY <2>1, <2>2, FS_Subset
<1>11. (\A i \in DOMAIN samples : samples[i].amount % 10 = 0)
         => \A i \in 1..n : amount[i] % 10 = 0
  BY <1>1 DEF Amounts
<1> HIDE DEF n, amount, whole, goodOnes, badOnes
<1>12. goodOnes \cup badOnes # {} => Cardinality(goodOnes \cup badOnes) > 0
  BY <1>10, FS_EmptySet, FS_CardinalityType
<1>13. AddsUp(n, amount, whole, goodOnes, badOnes)
  BY <1>1, <1>3, <1>4, <1>5, Tally
<1>14. badOnes # {} => goodOnes \cup badOnes # {}
  OBVIOUS
<1> QED
  BY <1>5, <1>6, <1>7, <1>8, <1>9, <1>11, <1>12, <1>13, <1>14 DEF AddsUp

\* The integer division by which the percentage is computed.
LEMMA DivisionExceeds ==
  ASSUME NEW a \in Nat, NEW t \in Nat, t > 0, NEW q \in Nat
  PROVE  a \div t > q <=> a >= (q + 1) * t
OBVIOUS

LEMMA ShareExceeds ==
  ASSUME NEW t \in Nat, t > 0, NEW ko \in Nat, NEW bad \in Nat, NEW all \in Nat,
         NEW number \in Nat, NEW tolerance \in Nat,
         (ko * 100) \div t > tolerance, 10 * ko <= bad, all <= 10 * t + 9 * number
  PROVE  bad * 100 > tolerance * (all - 10 * number)
<1>1. ko * 100 >= (tolerance + 1) * t
  BY DivisionExceeds
<1>2. all - 10 * number <= 10 * t
  OBVIOUS
<1>3. tolerance * (all - 10 * number) <= tolerance * (10 * t)
  BY <1>2
<1>4. (tolerance + 1) * t = tolerance * t + t /\ tolerance * (10 * t) = 10 * (tolerance * t)
      /\ tolerance * t \in Nat
  OBVIOUS
<1> QED
  BY <1>1, <1>3, <1>4

-----------------------------------------------------------------------------
(* What the evaluation of a discrete strategy returns.                     *)

\* A pod that reports has a sample.
LEMMA ReportingHasSample ==
  ASSUME NEW samples \in Seq(Samples), NEW p \in Reporting(samples)
  PROVE  p \in Pods /\ \E i \in DOMAIN samples : samples[i].pod = p
<1>1. PICK i \in DOMAIN samples : p = samples[i].pod
  BY DEF Reporting
<1>2. samples[i] \in Samples
  OBVIOUS
<1>3. samples[i].pod \in Pods
  BY <1>2 DEF Samples
<1> QED
  BY <1>1, <1>3

\* The parameters a defaulted strategy has.
Parameters(d) == d.tolerancePercent \in Nat /\ d.minimumActivityCount \in Nat

LEMMA FoundIsBad ==
  ASSUME NEW d, Parameters(d), NEW listing \in Listings, NEW samples \in Seq(Samples),
         NEW p \in DiscreteOutOfBounds(d, listing, samples).pods
  PROVE  /\ listing[p] = "yes"
         /\ AmountOf(d, samples, p, TRUE) * 100 >
              d.tolerancePercent * (AmountOf(d, samples, p, FALSE)
                                      - 10 * Cardinality(SamplesOf(samples, p)))
<1> DEFINE ok == Count(d, samples, p, TRUE)
           ko == Count(d, samples, p, FALSE)
           bad == AmountOf(d, samples, p, TRUE)
           all == AmountOf(d, samples, p, FALSE)
           number == Cardinality(SamplesOf(samples, p))
<1>1. /\ ~Unreadable(listing)
      /\ p \in Reporting(samples) \ WithNoTraffic(listing)
      /\ ~DividesByZero(d, ok, ko) /\ ExceedsTolerance(d, ok, ko) /\ Listed(listing, p)
  BY DEF DiscreteOutOfBounds
<1>2. p \in Pods
  BY <1>1, ReportingHasSample
<1>3. listing[p] = "yes"
  BY <1>1, <1>2 DEF Listings, Unreadable, WithNoTraffic, Listed
<1>4. /\ ok \in Nat /\ ko \in Nat /\ bad \in Nat /\ all \in Nat /\ number \in Nat
      /\ 10 * ko <= bad /\ all <= 10 * (ok + ko) + 9 * number
  BY TallyOfPod
<1> HIDE DEF ok, ko, bad, all, number
<1>5. ok + ko \in Nat /\ ok + ko > 0 /\ (ko * 100) \div (ok + ko) > d.tolerancePercent
  <2>1. ok + ko \in Nat
    BY <1>4
  <2>2. ok + ko >= d.minimumActivityCount /\ d.minimumActivityCount \in Nat
    BY <1>1 DEF ExceedsTolerance, Parameters
  <2>3. ok + ko # 0
    BY <1>1, <2>1, <2>2 DEF DividesByZero
  <2> QED BY <1>1, <2>1, <2>3 DEF ExceedsTolerance
<1>6. bad * 100 > d.tolerancePercent * (all - 10 * number)
  BY <1>4, <1>5, ShareExceeds DEF Parameters
<1> QED
  BY <1>3, <1>6 DEF bad, all, number

LEMMA BadIsFound ==
  ASSUME NEW d, Parameters(d), NEW listing \in Listings, NEW samples \in Seq(Samples),
         DiscreteOutOfBounds(d, listing, samples).outcome = "done",
         NEW p \in Pods, listing[p] = "yes",
         \A i \in DOMAIN samples : samples[i].amount % 10 = 0,
         AmountOf(d, samples, p, FALSE) >= 10 * d.minimumActivityCount,
         AmountOf(d, samples, p, TRUE) * 100 >=
           (d.tolerancePercent + 1) * AmountOf(d, samples, p, FALSE),
         AmountOf(d, samples, p, TRUE) > 0
  PROVE  p \in DiscreteOutOfBounds(d, listing, samples).pods
<1> DEFINE ok == Count(d, samples, p, TRUE)
           ko == Count(d, samples, p, FALSE)
           bad == AmountOf(d, samples, p, TRUE)
           all == AmountOf(d, samples, p, FALSE)
           tolerance == d.tolerancePercent
<1>1. /\ ok \in Nat /\ ko \in Nat /\ bad \in Nat /\ all \in Nat
      /\ bad = 10 * ko /\ all = 10 * (ok + ko) /\ p \in Reporting(samples)
  BY TallyOfPod
<1>2. /\ bad * 100 >= (tolerance + 1) * all /\ bad > 0 /\ tolerance \in Nat
      /\ all >= 10 * d.minimumActivityCount /\ d.minimumActivityCount \in Nat
  BY DEF Parameters
<1> HIDE DEF ok, ko, bad, all, tolerance
<1>3. ok + ko \in Nat /\ ok + ko > 0 /\ ok + ko >= d.minimumActivityCount
  BY <1>1, <1>2
<1>4. (ko * 100) \div (ok + ko) > tolerance
  <2>1. (tolerance + 1) * all = 10 * ((tolerance + 1) * (ok + ko))
    BY <1>1, <1>2
  <2>2. (tolerance + 1) * (ok + ko) \in Nat
    BY <1>2, <1>3
  <2>3. ko * 100 >= (tolerance + 1) * (ok + ko)
    BY <1>1, <1>2, <2>1, <2>2
  <2>4. ko * 100 \in Nat
    BY <1>1
  <2> QED BY <1>2, <1>3, <2>3, <2>4, DivisionExceeds
<1>5. ExceedsTolerance(d, ok, ko)
  BY <1>3, <1>4 DEF ExceedsTolerance, tolerance
<1>6. p \in Reporting(samples) \ WithNoTraffic(listing) /\ Listed(listing, p)
  BY <1>1 DEF WithNoTraffic, Listed
<1> QED
  BY <1>5, <1>6 DEF DiscreteOutOfBounds, ok, ko

-----------------------------------------------------------------------------
(* What the evaluation of a continuous strategy returns.                   *)

LEMMA DeviationIsFound ==
  ASSUME NEW c, c.maxDeviationPercent \in Nat, NEW listing \in Listings,
         NEW samples \in Seq(Samples),
         ContinuousOutOfBounds(c, listing, samples).outcome = "done",
         NEW i \in DOMAIN samples, listing[samples[i].pod] = "yes",
         \A j \in DOMAIN samples : j > i => samples[j].pod # samples[i].pod
  PROVE  samples[i].pod \in ContinuousOutOfBounds(c, listing, samples).pods <=>
           samples[i].amount \notin 100 - c.maxDeviationPercent .. 100 + c.maxDeviationPercent
<1> DEFINE n == Len(samples)
           p == samples[i].pod
           amount == samples[i].amount
<1>1. n \in Nat /\ DOMAIN samples = 1..n /\ \A j \in 1..n : samples[j] \in Samples
  OBVIOUS
<1>2. amount \in Nat /\ p \in Reporting(samples) \ WithNoTraffic(listing) /\ Listed(listing, p)
  BY <1>1 DEF Samples, Reporting, WithNoTraffic, Listed
<1>3. Amounts(samples) \in [1..n -> Nat] /\ Amounts(samples)[i] = amount
  BY <1>1 DEF Amounts, Samples
<1>4. i \in SamplesOf(samples, p) /\ \A j \in 1..n : j > i => j \notin SamplesOf(samples, p)
  BY <1>1 DEF SamplesOf
<1> HIDE DEF n, p, amount
<1>5. Ratio(samples, p) = amount
  <2> DEFINE of == SamplesOf(samples, p)
             amounts == Amounts(samples)
             hundred == 100
  <2>1. Ratio(samples, p) = LastOf(n, hundred, of, amounts)
    BY RatioIsLast DEF n
  <2>2. i \in 1..n /\ i \in of /\ hundred \in Nat /\ amounts \in [1..n -> Nat]
        /\ amounts[i] = amount /\ NoneFollows(i, n, of)
    BY <1>1, <1>3, <1>4 DEF NoneFollows
  <2> HIDE DEF of, amounts, hundred
  <2>3. n \in Nat
    BY <1>1
  <2>4. LastOf(n, hundred, of, amounts) = amounts[i]
    BY <2>2, <2>3, LastSays
  <2> QED BY <2>1, <2>2, <2>4
<1>6. Deviates(c, amount) <=>
        amount \notin 100 - c.maxDeviationPercent .. 100 + c.maxDeviationPercent
  BY <1>2 DEF Deviates
<1> QED
  BY <1>2, <1>5, <1>6 DEF ContinuousOutOfBounds, p, amount
=============================================================================
