-------------------------- MODULE TokenBucketProofs --------------------------
(***************************************************************************)
(* Proofs, for any callers, rates, capacities and word size, that the      *)
(* throttle of TokenBucket generates tokens no faster than its highest and *)
(* no slower than half its lowest rate, and that a caller which sleeps the *)
(* wait it is told is served after three refusals at most.                 *)
(***************************************************************************)
EXTENDS TokenBucket, TLAPS

\* A floor division is within one divisor of the exact quotient.
LEMMA DivBounds ==
  ASSUME NEW p \in Nat, NEW u \in Nat \ {0}
  PROVE  /\ p \div u \in Nat
         /\ (p \div u) * u <= p
         /\ p < (p \div u) * u + u
OBVIOUS

LEMMA MulNat == ASSUME NEW a \in Nat, NEW b \in Nat PROVE a * b \in Nat
OBVIOUS

LEMMA MulMono ==
  ASSUME NEW a \in Nat, NEW b \in Nat, NEW c \in Nat, a <= b
  PROVE  c * a <= c * b
OBVIOUS

LEMMA Distribute ==
  ASSUME NEW a \in Int, NEW b \in Int, NEW c \in Int
  PROVE  (a + b) * c = a * c + b * c /\ c * (a + b) = c * a + c * b
OBVIOUS

LEMMA ModBounds ==
  ASSUME NEW n \in Nat, NEW w \in Nat \ {0}
  PROVE  n % w \in Nat /\ n % w <= n
OBVIOUS

\* What a refill earns: nothing without a later instant, and otherwise the
\* rate times the time, but for a fraction smaller than what it did earn.
LEMMA EarnedLemma ==
  ASSUME TypeOK, NEW t \in Nat
  PROVE  /\ Earned(t) \in Nat
         /\ Earned(t) > 0 =>
              /\ t > last_refill
              /\ t - last_refill \in Nat
              /\ Earned(t) * UNIT <= refill_per_sec * (t - last_refill)
              /\ refill_per_sec * (t - last_refill) <= 2 * (Earned(t) * UNIT)
<1>1. /\ last_refill \in Nat /\ refill_per_sec \in Nat /\ UNIT \in Nat \ {0}
  BY BucketAssumption DEF TypeOK
<1>2. CASE t <= last_refill
  BY <1>2 DEF Earned
<1>3. CASE t > last_refill
  <2> DEFINE d == t - last_refill
             p == d * refill_per_sec
  <2>1. d \in Nat /\ ~(t <= last_refill)
    BY <1>1, <1>3
  <2>2. p \in Nat /\ p = refill_per_sec * d
    BY <1>1, <2>1
  <2>3. Earned(t) = p \div UNIT
    BY <2>1 DEF Earned
  <2> HIDE DEF p
  <2>4. /\ Earned(t) \in Nat
        /\ Earned(t) * UNIT <= p
        /\ p < Earned(t) * UNIT + UNIT
    BY <1>1, <2>2, <2>3, DivBounds
  <2>5. Earned(t) > 0 => Earned(t) * UNIT >= UNIT
    BY <1>1, <2>4
  <2>6. Earned(t) * UNIT \in Nat
    BY <1>1, <2>4
  <2>7. Earned(t) > 0 => p <= 2 * (Earned(t) * UNIT)
    BY <1>1, <2>2, <2>4, <2>5, <2>6
  <2> QED BY <1>3, <2>1, <2>2, <2>4, <2>7
<1> QED BY <1>1, <1>2, <1>3

\* What a refill leaves in the bucket: never above the capacity, never less
\* than before, never more than what it earned on top.
LEMMA FilledLemma ==
  ASSUME TypeOK, NEW t \in Nat
  PROVE  /\ Filled(t) \in 0..capacity
         /\ Filled(t) <= tokens + Earned(t)
<1>1. Earned(t) \in Nat
  BY EarnedLemma
<1>2. /\ WordSize \in Nat \ {0} /\ capacity \in 0..(WordSize - 1)
      /\ tokens \in 0..capacity
  BY BucketAssumption DEF TypeOK
<1>3. Earned(t) % WordSize \in Nat /\ Earned(t) % WordSize <= Earned(t)
  BY <1>1, <1>2, ModBounds
<1> DEFINE e == Earned(t) % WordSize
<1>4. Filled(t) = AtMost(AtMost(tokens + e, WordSize - 1), capacity)
  BY DEF Filled
<1> HIDE DEF e
<1>5. e \in Nat /\ e <= Earned(t)
  BY <1>3 DEF e
<1> QED BY <1>1, <1>2, <1>4, <1>5 DEF AtMost

\* The wait of a refused caller is a duration.
LEMMA WaitLemma ==
  ASSUME TypeOK, NEW n \in Nat
  PROVE  Wait(n) \in Nat
<1>1. /\ refill_per_sec \in Nat /\ UNIT \in Nat /\ WordSize - 1 \in Nat
      /\ StarveWait \in Nat
  BY BucketAssumption DEF TypeOK
<1>2. CASE refill_per_sec = 0
  BY <1>1, <1>2 DEF Wait
<1>3. CASE refill_per_sec # 0
  <2>1. n * UNIT \in Nat
    BY <1>1
  <2>2. (n * UNIT) \div refill_per_sec \in Nat
    BY <1>1, <1>3, <2>1, DivBounds
  <2> QED BY <1>1, <1>3, <2>2 DEF Wait, AtMost
<1> QED BY <1>2, <1>3

\* What a caller that holds a sample knows of its own request.
LEMMA CallerLemma ==
  ASSUME TypeOK, NEW c \in Callers
  PROVE  at[c] \in Nat /\ want[c] \in Nat /\ (pc[c] = "sampled" => at[c] <= now)
<1>1. want[c] \in Wants \cup {0} /\ at[c] \in Nat
  BY DEF TypeOK
<1>2. Wants \cup {0} \subseteq Nat
  BY BucketAssumption
<1>3. pc[c] = "sampled" => at[c] <= now
  BY DEF TypeOK
<1> QED BY <1>1, <1>2, <1>3

LEMMA BucketInit == Init => TypeOK
<1> SUFFICES ASSUME Init PROVE TypeOK
  OBVIOUS
<1>1. capacity \in Nat
  BY BucketAssumption DEF Init
<1>2. /\ now \in Nat /\ tokens \in 0..capacity /\ last_refill \in 0..now
      /\ initial \in Nat /\ granted \in Nat /\ spilled \in Nat
      /\ 0 \in 0..RefusedCap /\ 0 \in Nat
  BY <1>1 DEF Init, RefusedCap
<1> QED BY <1>2 DEF Init, TypeOK

\* Type correctness is inductive by itself; the two actions under the lock
\* are the ones that need the lemmas.
LEMMA BucketStep == TypeOK /\ [Next]_vars => TypeOK'
<1> SUFFICES ASSUME TypeOK, [Next]_vars PROVE TypeOK'
  OBVIOUS
<1> USE DEF bucket
<1>1. /\ now \in Nat /\ capacity \in Capacities /\ tokens \in 0..capacity
      /\ last_refill \in 0..now /\ initial \in Nat /\ granted \in Nat
      /\ spilled \in Nat /\ refill_per_sec \in Rates /\ capacity \in Nat
      /\ tokens \in Nat
  BY BucketAssumption DEF TypeOK
<1>2. ASSUME NEW c \in Callers, NEW n \in Wants, Ask(c, n) PROVE TypeOK'
  BY <1>1, <1>2 DEF Ask, TypeOK
<1>3. ASSUME NEW c \in Callers, Grant(c) PROVE TypeOK'
  <2>1. at[c] \in Nat /\ at[c] <= now /\ want[c] \in Nat
    BY <1>3, CallerLemma DEF Grant
  <2>2. /\ Earned(at[c]) \in Nat /\ Filled(at[c]) \in 0..capacity
        /\ Filled(at[c]) <= tokens + Earned(at[c])
    BY <2>1, EarnedLemma, FilledLemma
  <2>3. /\ tokens' \in 0..capacity /\ granted' \in Nat /\ spilled' \in Nat
        /\ last_refill' \in 0..now
    BY <1>1, <1>3, <2>1, <2>2 DEF Grant, Refill
  <2>4. refused' \in [Callers -> 0..RefusedCap]
    BY <1>3 DEF Grant, RefusedCap
  <2>5. /\ pc' \in [Callers -> {"idle", "sampled", "sleeping"}]
        /\ want' \in [Callers -> Wants \cup {0}]
        /\ at' \in [Callers -> Nat]
        /\ \A d \in Callers : pc'[d] = "sampled" => at'[d] <= now
    BY <1>1, <1>3 DEF Grant, TypeOK
  <2> QED BY <1>1, <1>3, <2>3, <2>4, <2>5 DEF Grant, TypeOK
<1>4. ASSUME NEW c \in Callers, Refuse(c) PROVE TypeOK'
  <2>1. at[c] \in Nat /\ at[c] <= now /\ want[c] \in Nat
    BY <1>4, CallerLemma DEF Refuse
  <2>2. /\ Earned(at[c]) \in Nat /\ Filled(at[c]) \in 0..capacity
        /\ Filled(at[c]) <= tokens + Earned(at[c])
    BY <2>1, EarnedLemma, FilledLemma
  <2>3. /\ tokens' \in 0..capacity /\ spilled' \in Nat /\ last_refill' \in 0..now
    BY <1>1, <1>4, <2>1, <2>2 DEF Refuse, Refill
  <2>4. refused' \in [Callers -> 0..RefusedCap]
    BY <1>4 DEF Refuse, RefusedCap, AtMost, TypeOK
  <2>5. now + Wait(want[c] - Filled(at[c])) \in Nat
    <3>1. want[c] - Filled(at[c]) \in Nat
      BY <1>1, <1>4, <2>1, <2>2 DEF Refuse
    <3>2. Wait(want[c] - Filled(at[c])) \in Nat
      BY <3>1, WaitLemma
    <3> QED BY <1>1, <3>2
  <2>6. /\ pc' \in [Callers -> {"idle", "sampled", "sleeping"}]
        /\ at' \in [Callers -> Nat]
        /\ \A d \in Callers : pc'[d] = "sampled" => at'[d] <= now
    BY <1>1, <1>4, <2>5 DEF Refuse, TypeOK
  <2> QED BY <1>1, <1>4, <2>3, <2>4, <2>6 DEF Refuse, TypeOK
<1>5. ASSUME NEW c \in Callers, Retry(c) PROVE TypeOK'
  BY <1>1, <1>5 DEF Retry, TypeOK
<1>6. ASSUME NEW r \in Rates, SetRate(r) PROVE TypeOK'
  <2>1. refused' \in [Callers -> 0..RefusedCap]
    BY <1>6 DEF SetRate, RefusedCap
  <2> QED BY <1>6, <2>1 DEF SetRate, TypeOK
<1>7. ASSUME NEW k \in Capacities, SetCapacity(k) PROVE TypeOK'
  <2>1. refused' \in [Callers -> 0..RefusedCap]
    BY <1>7 DEF SetCapacity, RefusedCap
  <2>2. k \in Nat
    BY BucketAssumption
  <2>3. tokens' \in 0..k /\ spilled' \in Nat
    BY <1>1, <1>7, <2>2 DEF SetCapacity, AtMost
  <2> QED BY <1>7, <2>1, <2>3 DEF SetCapacity, TypeOK
<1>8. CASE Tick
  BY <1>1, <1>8 DEF Tick, TypeOK
<1>9. CASE UNCHANGED vars
  BY <1>9 DEF vars, TypeOK
<1> QED BY <1>2, <1>3, <1>4, <1>5, <1>6, <1>7, <1>8, <1>9 DEF Next

\* Type correctness: the tokens never exceed the capacity in force, and no
\* counter goes below zero (Inner's u64 subtractions never wrap).
THEOREM BucketTypeCorrect == Spec => []TypeOK
BY BucketInit, BucketStep, PTL DEF Spec

-----------------------------------------------------------------------------

\* Only a refill generates tokens and only a refill moves last_refill: spending
\* and discarding move tokens from one count to another.
LEMMA GeneratedStep ==
  ASSUME TypeOK, [Next]_vars
  PROVE  \/ Generated' = Generated /\ last_refill' = last_refill
         \/ \E t \in Nat : /\ Earned(t) > 0
                           /\ Generated' = Generated + Earned(t)
                           /\ last_refill' = t
<1> USE DEF bucket
<1>1. /\ tokens \in Int /\ granted \in Int /\ spilled \in Int /\ initial \in Int
  BY BucketAssumption DEF TypeOK
<1>2. ASSUME NEW c \in Callers, Grant(c) \/ Refuse(c)
      PROVE  \/ Generated' = Generated /\ last_refill' = last_refill
             \/ \E t \in Nat : /\ Earned(t) > 0
                               /\ Generated' = Generated + Earned(t)
                               /\ last_refill' = t
  <2>1. at[c] \in Nat /\ want[c] \in Int
    BY CallerLemma
  <2>2. Earned(at[c]) \in Nat /\ Filled(at[c]) \in Int
    BY <2>1, EarnedLemma, FilledLemma
  <2>3. Generated' = Generated + Earned(at[c])
    BY <1>1, <1>2, <2>1, <2>2 DEF Grant, Refuse, Refill, Generated
  <2>4. last_refill' = IF Earned(at[c]) > 0 THEN at[c] ELSE last_refill
    BY <1>2 DEF Grant, Refuse, Refill
  <2>5. Generated \in Int
    BY <1>1 DEF Generated
  <2>6. CASE Earned(at[c]) > 0
    BY <2>1, <2>3, <2>4, <2>6
  <2>7. CASE ~(Earned(at[c]) > 0)
    <3>1. Earned(at[c]) = 0
      BY <2>2, <2>7
    <3> QED BY <2>3, <2>4, <2>5, <2>7, <3>1
  <2> QED BY <2>6, <2>7
<1>3. ASSUME NEW k \in Capacities, SetCapacity(k)
      PROVE  Generated' = Generated /\ last_refill' = last_refill
  <2>1. tokens' \in Int
    BY <1>1, <1>3, BucketAssumption DEF SetCapacity, AtMost
  <2> QED BY <1>1, <1>3, <2>1 DEF SetCapacity, Generated
<1>4. ASSUME NEW r \in Rates, SetRate(r)
      PROVE  Generated' = Generated /\ last_refill' = last_refill
  BY <1>4 DEF SetRate, Generated
<1>5. ASSUME NEW c \in Callers, (\E n \in Wants : Ask(c, n)) \/ Retry(c)
      PROVE  Generated' = Generated /\ last_refill' = last_refill
  BY <1>5 DEF Ask, Retry, Generated
<1>6. CASE Tick \/ UNCHANGED vars
  BY <1>6 DEF Tick, vars, Generated
<1> QED BY <1>2, <1>3, <1>4, <1>5, <1>6 DEF Next


\* The burst-plus-rate bound, for every set of rates.
THEOREM BucketUpperRate == Spec => []NeverFasterThanHighestRate
<1>1. Init => NeverFasterThanHighestRate
  <2> SUFFICES ASSUME Init, NEW high \in Rates
               PROVE  Generated * UNIT <= high * last_refill
    BY DEF NeverFasterThanHighestRate
  <2>1. Generated = 0 /\ last_refill = 0 /\ high \in Nat /\ UNIT \in Nat
    BY BucketAssumption DEF Init, Generated
  <2> QED BY <2>1
<1>2. TypeOK /\ NeverFasterThanHighestRate /\ [Next]_vars => NeverFasterThanHighestRate'
  <2> SUFFICES ASSUME TypeOK, NeverFasterThanHighestRate, [Next]_vars,
                      NEW high \in Rates, \A r \in Rates : r <= high
               PROVE  Generated' * UNIT <= high * last_refill'
    BY DEF NeverFasterThanHighestRate
  <2>1. /\ Generated * UNIT <= high * last_refill
        /\ Generated \in Int /\ last_refill \in Nat /\ high \in Nat /\ UNIT \in Nat
        /\ refill_per_sec \in Nat /\ refill_per_sec <= high
    BY BucketAssumption DEF NeverFasterThanHighestRate, TypeOK, Generated
  <2>2. CASE Generated' = Generated /\ last_refill' = last_refill
    BY <2>1, <2>2
  <2>3. ASSUME NEW t \in Nat, Earned(t) > 0, Generated' = Generated + Earned(t),
               last_refill' = t
        PROVE  Generated' * UNIT <= high * last_refill'
    <3> DEFINE d == t - last_refill
               e == Earned(t)
    <3>1. d \in Nat /\ e \in Nat /\ e * UNIT <= refill_per_sec * d /\ t = last_refill + d
      BY <2>1, <2>3, EarnedLemma
    <3> HIDE DEF d, e
    <3>2. refill_per_sec * d <= high * d
      BY <2>1, <3>1, MulMono
    <3>3. (Generated + e) * UNIT = Generated * UNIT + e * UNIT
      BY <2>1, <3>1, Distribute
    <3>4. high * (last_refill + d) = high * last_refill + high * d
      BY <2>1, <3>1, Distribute
    <3>5. /\ Generated * UNIT \in Int /\ e * UNIT \in Int /\ high * d \in Int
          /\ high * last_refill \in Int /\ refill_per_sec * d \in Int
      BY <2>1, <3>1
    <3>6. (Generated + e) * UNIT <= high * (last_refill + d)
      BY <2>1, <3>1, <3>2, <3>3, <3>4, <3>5
    <3> QED BY <2>3, <3>1, <3>6 DEF e
  <2> QED BY <2>2, <2>3, GeneratedStep
<1> QED BY <1>1, <1>2, BucketTypeCorrect, PTL DEF Spec

\* And the floor under it: half the lowest rate.
THEOREM BucketLowerRate == Spec => []AtLeastHalfLowestRate
<1>1. Init => AtLeastHalfLowestRate
  <2> SUFFICES ASSUME Init, NEW low \in Rates
               PROVE  2 * Generated * UNIT >= low * last_refill
    BY DEF AtLeastHalfLowestRate
  <2>1. Generated = 0 /\ last_refill = 0 /\ low \in Nat /\ UNIT \in Nat
    BY BucketAssumption DEF Init, Generated
  <2> QED BY <2>1
<1>2. TypeOK /\ AtLeastHalfLowestRate /\ [Next]_vars => AtLeastHalfLowestRate'
  <2> SUFFICES ASSUME TypeOK, AtLeastHalfLowestRate, [Next]_vars,
                      NEW low \in Rates, \A r \in Rates : low <= r
               PROVE  2 * Generated' * UNIT >= low * last_refill'
    BY DEF AtLeastHalfLowestRate
  <2>1. /\ 2 * Generated * UNIT >= low * last_refill
        /\ Generated \in Int /\ last_refill \in Nat /\ low \in Nat /\ UNIT \in Nat
        /\ refill_per_sec \in Nat /\ low <= refill_per_sec
    BY BucketAssumption DEF AtLeastHalfLowestRate, TypeOK, Generated
  <2>2. CASE Generated' = Generated /\ last_refill' = last_refill
    BY <2>1, <2>2
  <2>3. ASSUME NEW t \in Nat, Earned(t) > 0, Generated' = Generated + Earned(t),
               last_refill' = t
        PROVE  2 * Generated' * UNIT >= low * last_refill'
    <3> DEFINE d == t - last_refill
               e == Earned(t)
    <3>1. /\ d \in Nat /\ e \in Nat /\ t = last_refill + d
          /\ refill_per_sec * d <= 2 * (e * UNIT)
      BY <2>1, <2>3, EarnedLemma
    <3> HIDE DEF d, e
    <3>2. low * d <= refill_per_sec * d
      <4>1. d * low <= d * refill_per_sec
        BY <2>1, <3>1, MulMono
      <4> QED BY <2>1, <3>1, <4>1
    <3>3. 2 * (Generated + e) * UNIT = 2 * Generated * UNIT + 2 * (e * UNIT)
      BY <2>1, <3>1
    <3>4. low * (last_refill + d) = low * last_refill + low * d
      BY <2>1, <3>1, Distribute
    <3>5. /\ 2 * Generated * UNIT \in Int /\ 2 * (e * UNIT) \in Int /\ low * d \in Int
          /\ low * last_refill \in Int /\ refill_per_sec * d \in Int
      BY <2>1, <3>1
    <3>6. 2 * (Generated + e) * UNIT >= low * (last_refill + d)
      BY <2>1, <3>1, <3>2, <3>3, <3>4, <3>5
    <3> QED BY <2>3, <3>1, <3>6 DEF e
  <2> QED BY <2>2, <2>3, GeneratedStep
<1> QED BY <1>1, <1>2, BucketTypeCorrect, PTL DEF Spec

-----------------------------------------------------------------------------
\* Bounded retries.

\* The bound on the clock keeps every wait and every refill in its word: 2^64
\* nanoseconds are 584 years.
ClockFits == MaxTime < WordSize - 1

\* c is n ticks past the last refill when it asks again, or never asks again.
Due(c, n) == at[c] >= last_refill + n \/ at[c] > MaxTime

Missing(c) == want[c] - tokens

\* A caller refused once waits for all that is missing.  If that fell short,
\* one token is missing, and it waits for that one once or twice.
Trying(c) ==
  /\ pc[c] # "idle" /\ tokens < want[c]
  /\ want[c] <= capacity /\ refill_per_sec \in 1..UNIT =>
       \/ /\ refused[c] = 1
          /\ Due(c, (Missing(c) * UNIT) \div refill_per_sec)
       \/ /\ refused[c] \in {2, 3} /\ Missing(c) = 1
          /\ Due(c, (refused[c] - 1) * (UNIT \div refill_per_sec))

RetryInv ==
  /\ now <= MaxTime
  /\ \A c \in Callers : refused[c] > 0 => Trying(c)

LEMMA LessMultiple ==
  ASSUME NEW a \in Int, NEW b \in Int, NEW u \in Nat \ {0}, a * u < b * u
  PROVE  a < b
<1> SUFFICES ASSUME b <= a PROVE FALSE
  OBVIOUS
<1>1. PICK k \in Nat : a = b + k
  <2>1. a - b \in Nat /\ a = b + (a - b)
    OBVIOUS
  <2> QED BY <2>1
<1>2. a * u = b * u + k * u
  BY <1>1, Distribute
<1>3. k * u \in Nat /\ a * u \in Int /\ b * u \in Int
  BY MulNat
<1> QED BY <1>2, <1>3

\* The wait for n tokens, rounded down, earns all of them but one at least.
LEMMA OneWait ==
  ASSUME NEW n \in Nat \ {0}, NEW u \in Nat \ {0}, NEW r \in 1..u,
         NEW d \in Nat, d >= (n * u) \div r
  PROVE  (d * r) \div u >= n - 1
<1> DEFINE w == (n * u) \div r
           e == (d * r) \div u
<1>1. r \in Nat \ {0} /\ n * u \in Nat /\ d * r \in Nat /\ n - 1 \in Nat
  BY MulNat
<1>2. w \in Nat /\ n * u < w * r + r
  BY <1>1, DivBounds
<1>3. e \in Nat /\ d * r < e * u + u
  BY <1>1, DivBounds
<1>4. w <= d
  OBVIOUS
<1> HIDE DEF w, e
<1>5. w * r <= d * r /\ w * r \in Nat
  <2>1. r * w <= r * d
    BY <1>1, <1>2, <1>4, MulMono
  <2> QED BY <1>1, <1>2, <2>1
<1>6. (n - 1) * u = n * u - u /\ (e + 1) * u = e * u + u /\ e * u \in Nat
  BY <1>1, <1>3, MulNat
<1>7. (n - 1) * u < (e + 1) * u
  BY <1>1, <1>2, <1>3, <1>5, <1>6
<1>8. n - 1 < e + 1
  BY <1>1, <1>3, <1>7, LessMultiple
<1>9. e >= n - 1
  BY <1>1, <1>3, <1>8
<1> QED BY <1>9 DEF e

\* Two waits for one token, each rounded down, earn it.
LEMMA TwoWaits ==
  ASSUME NEW u \in Nat \ {0}, NEW r \in 1..u, NEW d \in Nat, d >= 2 * (u \div r)
  PROVE  (d * r) \div u >= 1
<1> DEFINE w == u \div r
           e == (d * r) \div u
<1>1. r \in Nat \ {0} /\ d * r \in Nat
  BY MulNat
<1>2. w \in Nat /\ u < w * r + r
  BY <1>1, DivBounds
<1>3. e \in Nat /\ d * r < e * u + u
  BY <1>1, DivBounds
<1>4. 2 * w <= d
  OBVIOUS
<1> HIDE DEF w, e
<1>5. w >= 1
  <2>1. w = 0 => w * r = 0
    BY <1>1
  <2> QED BY <1>1, <1>2, <2>1
<1>6. r * (2 * w) <= r * d /\ r * 1 <= r * w
  BY <1>1, <1>2, <1>4, <1>5, MulMono
<1>7. r * (2 * w) = 2 * (w * r) /\ r * d = d * r /\ r * w = w * r /\ r * 1 = r /\ w * r \in Nat
  BY <1>1, <1>2, MulNat
<1>8. u < d * r
  BY <1>1, <1>2, <1>6, <1>7
<1>9. e # 0
  <2>1. e = 0 => e * u = 0
    OBVIOUS
  <2> QED BY <1>3, <1>8, <2>1
<1>10. e >= 1
  BY <1>3, <1>9
<1> QED BY <1>10 DEF e

\* With at most one token a tick and the clock in its word, a refill loses
\* nothing to a cast: only the capacity caps it.
LEMMA NothingCast ==
  ASSUME ClockFits, TypeOK, refill_per_sec \in 1..UNIT, NEW t \in Nat, t <= MaxTime
  PROVE  /\ Earned(t) \in Nat
         /\ t >= last_refill => Earned(t) = ((t - last_refill) * refill_per_sec) \div UNIT
         /\ Filled(t) = AtMost(tokens + Earned(t), capacity)
<1> DEFINE r == refill_per_sec
           d == t - last_refill
           e == Earned(t)
<1>1. /\ UNIT \in Nat \ {0} /\ r \in Nat \ {0} /\ r <= UNIT /\ last_refill \in Nat
      /\ WordSize \in Nat \ {0} /\ MaxTime \in Nat /\ MaxTime < WordSize - 1
      /\ capacity \in 0..(WordSize - 1) /\ tokens \in 0..capacity
  BY BucketAssumption DEF TypeOK, ClockFits
<1>2. e \in Nat
  BY EarnedLemma
<1>3. t >= last_refill => e = (d * r) \div UNIT
  <2>1. CASE t = last_refill
    <3>1. d * r = 0 /\ 0 \div UNIT = 0
      BY <1>1, <2>1
    <3> QED BY <1>1, <2>1, <3>1 DEF Earned
  <2>2. CASE t > last_refill
    BY <1>1, <2>2 DEF Earned
  <2> QED BY <1>1, <2>1, <2>2
<1>4. e < WordSize
  <2>1. CASE t <= last_refill
    BY <1>1, <2>1 DEF Earned
  <2>2. CASE t > last_refill
    <3> HIDE DEF e
    <3>1. d \in Nat /\ d <= MaxTime
      BY <1>1, <2>2
    <3> HIDE DEF d, r
    <3>2. d * r \in Nat /\ e = (d * r) \div UNIT
      BY <1>1, <1>3, <2>2, <3>1, MulNat
    <3>3. e * UNIT <= d * r
      BY <1>1, <3>2, DivBounds
    <3>4. d * r <= d * UNIT
      BY <1>1, <3>1, MulMono
    <3>5. (d + 1) * UNIT = d * UNIT + UNIT /\ d * UNIT \in Nat /\ e * UNIT \in Nat
      BY <1>1, <1>2, <3>1, MulNat
    <3>6. e * UNIT < (d + 1) * UNIT
      BY <1>1, <3>2, <3>3, <3>4, <3>5
    <3>7. e < d + 1
      BY <1>1, <1>2, <3>1, <3>6, LessMultiple
    <3> QED BY <1>1, <1>2, <3>1, <3>7
  <2> QED BY <1>1, <2>1, <2>2
<1> HIDE DEF e
<1>5. e % WordSize = e
  BY <1>1, <1>2, <1>4
<1>6. Filled(t) = AtMost(tokens + e, capacity)
  <2>1. Filled(t) = AtMost(AtMost(tokens + e, WordSize - 1), capacity)
    BY <1>5 DEF Filled, e
  <2> QED BY <1>1, <1>2, <2>1 DEF AtMost
<1> QED BY <1>2, <1>3, <1>6 DEF e

LEMMA SleptLemma ==
  ASSUME NEW z \in Nat, NEW m \in Nat, NEW l \in 0..z, NEW a, a = z + m
  PROVE  a >= z + m /\ a >= l + m
OBVIOUS

\* The one refused goes on trying, with less missing or more time to come.
LEMMA RefuseTries ==
  ASSUME ClockFits, TypeOK, TypeOK', RetryInv, NEW c \in Callers, Refuse(c)
  PROVE  Trying(c)'
<1> DEFINE t == at[c]
           f == Filled(t)
           e == Earned(t)
           r == refill_per_sec
           n == want[c]
           w == UNIT \div r
           Slept(m) == at'[c] >= now + m \/ at'[c] > MaxTime
           Later(m) == at'[c] >= last_refill' + m \/ at'[c] > MaxTime
<1>1. /\ pc[c] = "sampled" /\ t \in Nat /\ t <= now /\ now <= MaxTime /\ n \in Nat
      /\ last_refill \in Nat /\ tokens \in Nat /\ now \in Nat /\ capacity \in Nat
      /\ UNIT \in Nat \ {0} /\ MaxTime < WordSize - 1 /\ MaxTime \in Nat /\ WordSize \in Nat
  BY CallerLemma, BucketAssumption DEF TypeOK, RetryInv, ClockFits, Refuse
<1>2. /\ f < n /\ tokens' = f /\ pc'[c] = "sleeping" /\ at'[c] = now + Wait(n - f)
      /\ last_refill' = (IF e > 0 THEN t ELSE last_refill)
      /\ refused'[c] = AtMost(refused[c] + 1, RefusedCap)
      /\ UNCHANGED <<now, capacity, refill_per_sec, want>>
  BY DEF Refuse, Refill, TypeOK
<1>3. refused[c] \in 0..RefusedCap /\ f \in Nat /\ e \in Nat /\ last_refill' \in 0..now
  BY <1>1, <1>2, FilledLemma, EarnedLemma DEF TypeOK
<1> SUFFICES ASSUME n <= capacity, r \in 1..UNIT
             PROVE  \/ /\ refused'[c] = 1
                       /\ Later(((n - f) * UNIT) \div r)
                    \/ /\ refused'[c] \in {2, 3} /\ n - f = 1
                       /\ Later((refused'[c] - 1) * w)
  BY <1>2 DEF Trying, Due, Missing
<1>5. Slept(((n - f) * UNIT) \div r) /\ Later(((n - f) * UNIT) \div r)
  <2> DEFINE m == ((n - f) * UNIT) \div r
  <2>1. n - f \in Nat /\ m \in Nat
    <3>1. n - f \in Nat
      BY <1>1, <1>2, <1>3
    <3>2. (n - f) * UNIT \in Nat
      BY <1>1, <3>1, MulNat
    <3> QED BY <1>1, <3>1, <3>2, DivBounds
  <2>2. Wait(n - f) = AtMost(m, WordSize - 1)
    BY DEF Wait
  <2> HIDE DEF m
  <2>3. CASE m > WordSize - 1
    <3>1. at'[c] > MaxTime
      BY <1>1, <1>2, <2>2, <2>3 DEF AtMost
    <3> QED BY <3>1
  <2>4. CASE ~(m > WordSize - 1)
    <3>1. at'[c] = now + m
      BY <1>2, <2>2, <2>4 DEF AtMost
    <3>2. now \in Nat /\ m \in Nat /\ last_refill' \in 0..now
      BY <1>1, <1>3, <2>1
    <3>3. at'[c] >= now + m /\ at'[c] >= last_refill' + m
      BY <3>1, <3>2, SleptLemma
    <3> QED BY <3>3 DEF m
  <2> QED BY <2>3, <2>4
<1>6. CASE refused[c] = 0
  BY <1>2, <1>5, <1>6 DEF AtMost, RefusedCap
<1> HIDE DEF t, f, e, r, n, w
<1>7. ASSUME refused[c] > 0
      PROVE  \/ refused'[c] = 2 /\ n - f = 1 /\ Later(w)
             \/ refused'[c] = 3 /\ n - f = 1 /\ Later(2 * w)
  <2>1. Trying(c)
    BY <1>7 DEF RetryInv
  <2>2. tokens < n /\ n - tokens \in Nat \ {0}
    BY <1>1, <2>1 DEF Trying, n
  <2>3. /\ t >= last_refill => e = ((t - last_refill) * r) \div UNIT
        /\ f = AtMost(tokens + e, capacity)
    BY <1>1, NothingCast DEF t, f, e, r
  <2>4. f = tokens + e
    BY <1>1, <1>2, <1>3, <2>3 DEF AtMost
  <2>5. w \in Nat
    BY <1>1, DivBounds DEF w
  <2>6. CASE refused[c] = 1
    <3>1. Due(c, ((n - tokens) * UNIT) \div r)
      BY <2>1, <2>6 DEF Trying, Missing, n, r
    <3> DEFINE m == ((n - tokens) * UNIT) \div r
    <3>2. m \in Nat
      BY <1>1, <2>2, MulNat, DivBounds
    <3> HIDE DEF m
    <3>3. t >= last_refill + m
      BY <1>1, <3>1 DEF Due, t, m
    <3>4. t - last_refill \in Nat /\ t - last_refill >= m /\ t >= last_refill
      BY <1>1, <3>2, <3>3
    <3>5. e >= (n - tokens) - 1
      BY <1>1, <2>2, <2>3, <3>4, OneWait DEF m
    <3>6. n - f = 1
      BY <1>1, <1>2, <1>3, <2>4, <3>5
    <3>7. ((n - f) * UNIT) \div r = w
      BY <1>1, <3>6 DEF w
    <3>8. refused'[c] = 2
      BY <1>2, <2>6 DEF AtMost, RefusedCap
    <3> QED BY <1>5, <3>6, <3>7, <3>8
  <2>7. CASE refused[c] \in {2, 3}
    <3>1. n - tokens = 1 /\ Due(c, (refused[c] - 1) * w)
      BY <2>1, <2>7 DEF Trying, Missing, n, r, w
    <3>2. e = 0 /\ n - f = 1 /\ last_refill' = last_refill
      BY <1>1, <1>2, <1>3, <2>4, <3>1
    <3>3. t >= last_refill + (refused[c] - 1) * w
      BY <1>1, <3>1 DEF Due, t
    <3>4. refused[c] # 3
      <4> SUFFICES ASSUME refused[c] = 3 PROVE FALSE
        OBVIOUS
      <4>1. t - last_refill \in Nat /\ t - last_refill >= 2 * w /\ t >= last_refill
        BY <1>1, <2>5, <3>3
      <4>2. ((t - last_refill) * r) \div UNIT >= 1
        BY <1>1, <4>1, TwoWaits DEF w
      <4> QED BY <2>3, <3>2, <4>1, <4>2
    <3>5. Later(2 * w)
      <4>1. Slept(w)
        <5>1. ((n - f) * UNIT) \div r = w
          BY <1>1, <3>2 DEF w
        <5> QED BY <1>5, <5>1
      <4>2. t >= last_refill + w
        BY <2>5, <2>7, <3>3, <3>4
      <4>3. at'[c] >= now + w \/ at'[c] > MaxTime
        BY <4>1
      <4>4. at'[c] \in Nat
        BY DEF TypeOK
      <4>5. now + w >= last_refill' + 2 * w
        BY <1>1, <2>5, <3>2, <4>2
      <4> QED BY <1>1, <2>5, <3>2, <4>3, <4>4, <4>5
    <3>6. refused'[c] = 3
      BY <1>2, <2>7, <3>4 DEF AtMost, RefusedCap
    <3> QED BY <3>2, <3>5, <3>6
  <2> QED BY <2>1, <2>6, <2>7 DEF Trying, n, r
<1>8. CASE refused[c] > 0
  <2>1. w \in Nat
    BY <1>1, DivBounds DEF w
  <2>2. (2 - 1) * w = w /\ (3 - 1) * w = 2 * w
    BY <2>1
  <2> QED BY <1>7, <1>8, <2>2
<1>9. refused[c] = 0 \/ refused[c] > 0
  BY <1>3
<1> QED BY <1>6, <1>8, <1>9

LEMMA RetryStep ==
  ASSUME ClockFits, TypeOK, TypeOK', RetryInv, [Next]_vars
  PROVE  RetryInv'
<1>1. now' <= MaxTime
  <2>1. CASE Tick
    BY <2>1, BucketAssumption DEF Tick, TypeOK
  <2>2. CASE ~Tick
    <3>1. now' = now
      BY <2>2 DEF Next, vars, Ask, Grant, Refuse, Retry, SetRate, SetCapacity
    <3> QED BY <3>1 DEF RetryInv
  <2> QED BY <2>1, <2>2
<1>2. ASSUME NEW c \in Callers, refused'[c] > 0, NEW d \in Callers, Refuse(d)
      PROVE  Trying(c)'
  <2>1. c = d
    BY <1>2 DEF Refuse
  <2> QED BY <1>2, <2>1, RefuseTries
<1>3. ASSUME NEW c \in Callers, refused'[c] > 0, NEW d \in Callers, Retry(d)
      PROVE  Trying(c)'
  <2>1. /\ UNCHANGED <<now, bucket, want, refused>> /\ pc[d] = "sleeping" /\ at[d] <= now
        /\ pc' = [pc EXCEPT ![d] = "sampled"] /\ at' = [at EXCEPT ![d] = now]
    BY <1>3 DEF Retry
  <2>2. Trying(c)
    BY <1>3, <2>1 DEF RetryInv
  <2>3. at'[c] \in Nat /\ at[c] \in Nat /\ at'[c] >= at[c] /\ pc'[c] # "idle"
    <3>1. pc[c] # "idle" /\ now \in Nat /\ at \in [Callers -> Nat]
          /\ pc \in [Callers -> {"idle", "sampled", "sleeping"}]
      BY <2>2 DEF Trying, TypeOK
    <3> QED BY <2>1, <3>1
  <2>4. \A n \in Int : Due(c, n) => Due(c, n)'
    <3>1. last_refill \in Nat /\ MaxTime \in Nat /\ UNCHANGED last_refill
      BY <2>1, BucketAssumption DEF TypeOK, bucket
    <3> QED BY <2>3, <3>1 DEF Due
  <2>5. UNCHANGED <<tokens, capacity, refill_per_sec, want, refused>>
    BY <2>1 DEF bucket
  <2> SUFFICES ASSUME want[c] <= capacity, refill_per_sec \in 1..UNIT
               PROVE  \/ /\ refused[c] = 1
                         /\ Due(c, (Missing(c) * UNIT) \div refill_per_sec)'
                      \/ /\ refused[c] \in {2, 3} /\ Missing(c) = 1
                         /\ Due(c, (refused[c] - 1) * (UNIT \div refill_per_sec))'
    BY <2>2, <2>3, <2>5 DEF Trying, Missing
  <2>6. /\ (Missing(c) * UNIT) \div refill_per_sec \in Int
        /\ (refused[c] - 1) * (UNIT \div refill_per_sec) \in Int
    <3>1. /\ Missing(c) \in Int /\ UNIT \in Nat \ {0} /\ refused[c] \in Int
          /\ refill_per_sec \in Nat \ {0}
      BY CallerLemma, BucketAssumption DEF TypeOK, Missing, RefusedCap
    <3>2. Missing(c) * UNIT \in Int /\ UNIT \div refill_per_sec \in Int
      BY <3>1
    <3> QED BY <3>1, <3>2
  <2> QED BY <2>2, <2>4, <2>5, <2>6 DEF Trying, Missing
<1>4. ASSUME NEW c \in Callers, refused'[c] > 0,
             \E d \in Callers : (\E n \in Wants : Ask(d, n)) \/ Grant(d)
      PROVE  Trying(c)'
  <2>1. PICK d \in Callers : (\E n \in Wants : Ask(d, n)) \/ Grant(d)
    BY <1>4
  <2>2. CASE Grant(d)
    <3>1. refused'[c] = 0
      BY <2>2 DEF Grant
    <3> QED BY <1>4, <3>1
  <2>3. CASE \E n \in Wants : Ask(d, n)
    <3>1. PICK n \in Wants : Ask(d, n)
      BY <2>3
    <3>2. refused' = refused /\ Trying(c) /\ pc[d] = "idle"
      BY <1>4, <3>1 DEF Ask, RetryInv
    <3>3. c # d
      BY <3>2 DEF Trying
    <3>4. /\ pc'[c] = pc[c] /\ want'[c] = want[c] /\ at'[c] = at[c]
          /\ UNCHANGED <<bucket, refused>>
      BY <3>1, <3>3 DEF Ask, TypeOK
    <3> QED BY <3>2, <3>4 DEF Trying, Due, Missing, bucket
  <2> QED BY <2>1, <2>2, <2>3
<1>5. ASSUME NEW c \in Callers, refused'[c] > 0,
             (\E r \in Rates : SetRate(r)) \/ (\E k \in Capacities : SetCapacity(k))
      PROVE  Trying(c)'
  <2>1. refused'[c] = 0
    BY <1>5 DEF SetRate, SetCapacity
  <2> QED BY <1>5, <2>1
<1>6. ASSUME NEW c \in Callers, refused'[c] > 0, Tick \/ UNCHANGED vars
      PROVE  Trying(c)'
  BY <1>6 DEF Tick, vars, bucket, RetryInv, Trying, Due, Missing
<1>7. ASSUME NEW c \in Callers, refused'[c] > 0 PROVE Trying(c)'
  BY <1>2, <1>3, <1>4, <1>5, <1>6, <1>7 DEF Next
<1> QED BY <1>1, <1>7 DEF RetryInv

\* No livelock by rounding: a caller that sleeps the wait it is told is refused
\* at most three times in a row, for every rate, request and interleaving.
THEOREM BucketBoundedRetries ==
  ASSUME ClockFits
  PROVE  Spec => []BoundedRetries
<1>1. Init => RetryInv
  BY BucketAssumption DEF Init, RetryInv
<1>2. TypeOK /\ TypeOK' /\ RetryInv /\ [Next]_vars => RetryInv'
  BY RetryStep
<1>3. TypeOK /\ RetryInv => BoundedRetries
  <2> SUFFICES ASSUME TypeOK, RetryInv, NEW c \in Callers,
                      want[c] <= capacity, refill_per_sec \in 1..UNIT
               PROVE  refused[c] <= 3
    BY DEF BoundedRetries
  <2>1. refused[c] \in 0..RefusedCap
    BY DEF TypeOK
  <2>2. refused[c] > 0 => refused[c] \in {1, 2, 3}
    BY DEF RetryInv, Trying
  <2> QED BY <2>1, <2>2 DEF RefusedCap
<1> QED BY <1>1, <1>2, <1>3, BucketTypeCorrect, PTL DEF Spec

=============================================================================
