----------------------------- MODULE TokenBucket -----------------------------
(***************************************************************************)
(* The I/O throttle: a token bucket behind a mutex, shared by callers that *)
(* ask, are refused with a wait, sleep and ask again, and by a controller  *)
(* that changes its rate and its capacity at any time.                     *)
(* Source: hyperpod/src/vmm/common/device/throttle.rs.                     *)
(*                                                                         *)
(* Each method holds the mutex to its end and is one action, except that   *)
(* try_consume reads the clock BEFORE it takes the lock: sampling and      *)
(* consuming are two actions, and a sample may be old when it is used.     *)
(* Callers follow the type's documentation: sleep the returned wait, then  *)
(* retry.  Time is counted in ticks, UNIT of them to a second (the code's  *)
(* nanoseconds and 1_000_000_000).                                         *)
(***************************************************************************)
EXTENDS Integers

CONSTANTS
  Callers,     \* the threads that consume tokens
  UNIT,        \* ticks in a second
  Rates,       \* refill rates the bucket is given, in tokens per second
  Capacities,  \* capacities the bucket is given
  Wants,       \* token counts callers ask for
  StarveWait,  \* the wait returned when the rate is zero (3600 seconds)
  WordSize,    \* 2^64: the integers modulo which u64 casts work
  MaxTime      \* bound: the clock stops here

ASSUME BucketAssumption ==
  /\ UNIT \in Nat \ {0} /\ WordSize \in Nat \ {0}
  /\ StarveWait \in Nat /\ MaxTime \in Nat
  /\ Rates \subseteq Nat /\ Wants \subseteq Nat
  /\ Capacities \subseteq 0..(WordSize - 1)

VARIABLES
  now,             \* the monotonic clock
  capacity, refill_per_sec, tokens, last_refill,   \* Inner
  pc,              \* caller: "idle", "sampled" (before the lock), "sleeping"
  want,            \* caller: the n of its try_consume
  at,              \* caller: the Instant sampled, or the one its wait ends at
  initial,         \* history: the tokens of a new bucket
  granted,         \* history: the tokens callers got
  spilled,         \* history: the tokens earned and lost to a cap or a cast
  refused          \* history: refusals of a request in a row, nobody else
                   \* having used or changed the bucket between them

bucket == <<capacity, refill_per_sec, tokens, last_refill>>
vars == <<now, bucket, pc, want, at, initial, granted, spilled, refused>>

AtMost(n, limit) == IF n > limit THEN limit ELSE n

RefusedCap == 4    \* bound: refused counts no further

Init ==
  /\ now = 0
  /\ capacity \in Capacities
  /\ refill_per_sec \in Rates
  /\ tokens = capacity
  /\ last_refill = 0
  /\ pc = [c \in Callers |-> "idle"]
  /\ want = [c \in Callers |-> 0]
  /\ at = [c \in Callers |-> 0]
  /\ initial = capacity
  /\ granted = 0
  /\ spilled = 0
  /\ refused = [c \in Callers |-> 0]

-----------------------------------------------------------------------------

\* Faulty Earned: no early return for a sample older than the last refill, and
\* the distance taken without its sign (abs_diff).
EarnedBothWays(t) ==
  LET elapsed == IF t <= last_refill THEN last_refill - t ELSE t - last_refill
  IN (elapsed * refill_per_sec) \div UNIT

\* The tokens a refill at instant t earns; 0 when t is not after last_refill.
Earned(t) ==
  IF t <= last_refill THEN 0
  ELSE ((t - last_refill) * refill_per_sec) \div UNIT

\* The tokens after it: earned `as u64`, saturating_add, min(capacity).
Filled(t) ==
  AtMost(AtMost(tokens + (Earned(t) % WordSize), WordSize - 1), capacity)

\* Faulty Refill: the instant is stored even when no whole token was earned.
RefillAlwaysStamps(t) ==
  /\ last_refill' = IF t > last_refill THEN t ELSE last_refill
  /\ spilled' = spilled + Earned(t) - (Filled(t) - tokens)

\* Inner::refill, but for the tokens, which try_consume_at then spends.
Refill(t) ==
  /\ last_refill' = IF Earned(t) > 0 THEN t ELSE last_refill
  /\ spilled' = spilled + Earned(t) - (Filled(t) - tokens)

\* Faulty Wait: the time of one token, whatever is missing.
WaitForOneToken(needed) ==
  IF refill_per_sec = 0 THEN StarveWait ELSE UNIT \div refill_per_sec

\* The wait try_consume_at returns when `needed` tokens are missing.
Wait(needed) ==
  IF refill_per_sec = 0 THEN StarveWait
  ELSE AtMost((needed * UNIT) \div refill_per_sec, WordSize - 1)

\* try_consume(n): the clock is read, the lock not yet taken.
Ask(c, n) ==
  /\ pc[c] = "idle"
  /\ pc' = [pc EXCEPT ![c] = "sampled"]
  /\ want' = [want EXCEPT ![c] = n]
  /\ at' = [at EXCEPT ![c] = now]
  /\ UNCHANGED <<now, bucket, initial, granted, spilled, refused>>

\* try_consume_at with enough tokens: Ok(()).
Grant(c) ==
  /\ pc[c] = "sampled"
  /\ Filled(at[c]) >= want[c]
  /\ Refill(at[c])
  /\ tokens' = Filled(at[c]) - want[c]
  /\ granted' = granted + want[c]
  /\ pc' = [pc EXCEPT ![c] = "idle"]
  /\ want' = [want EXCEPT ![c] = 0]
  /\ at' = [at EXCEPT ![c] = 0]
  /\ refused' = [d \in Callers |-> 0]
  /\ UNCHANGED <<now, capacity, refill_per_sec, initial>>

\* try_consume_at with too few: Err(wait), and the caller goes to sleep.
Refuse(c) ==
  /\ pc[c] = "sampled"
  /\ Filled(at[c]) < want[c]
  /\ Refill(at[c])
  /\ tokens' = Filled(at[c])
  /\ pc' = [pc EXCEPT ![c] = "sleeping"]
  /\ at' = [at EXCEPT ![c] = now + Wait(want[c] - Filled(at[c]))]
  /\ refused' = [d \in Callers |-> IF d = c THEN AtMost(refused[c] + 1, RefusedCap) ELSE 0]
  /\ UNCHANGED <<now, capacity, refill_per_sec, want, initial, granted>>

\* The sleep is over (it may be longer than asked): try_consume again.
Retry(c) ==
  /\ pc[c] = "sleeping"
  /\ now >= at[c]
  /\ pc' = [pc EXCEPT ![c] = "sampled"]
  /\ at' = [at EXCEPT ![c] = now]
  /\ UNCHANGED <<now, bucket, want, initial, granted, spilled, refused>>

SetRate(r) ==
  /\ refill_per_sec' = r
  /\ refused' = [d \in Callers |-> 0]
  /\ UNCHANGED <<now, capacity, tokens, last_refill, pc, want, at, initial, granted, spilled>>

\* Faulty SetCapacity: a smaller capacity leaves the tokens alone.
SetCapacityOnly(k) ==
  /\ capacity' = k
  /\ refused' = [d \in Callers |-> 0]
  /\ UNCHANGED <<now, refill_per_sec, tokens, last_refill, pc, want, at, initial, granted, spilled>>

SetCapacity(k) ==
  /\ capacity' = k
  /\ tokens' = AtMost(tokens, k)
  /\ spilled' = spilled + (tokens - tokens')
  /\ refused' = [d \in Callers |-> 0]
  /\ UNCHANGED <<now, refill_per_sec, last_refill, pc, want, at, initial, granted>>

Tick ==
  /\ now < MaxTime
  /\ now' = now + 1
  /\ UNCHANGED <<bucket, pc, want, at, initial, granted, spilled, refused>>

Next ==
  \/ \E c \in Callers : (\E n \in Wants : Ask(c, n)) \/ Grant(c) \/ Refuse(c) \/ Retry(c)
  \/ \E r \in Rates : SetRate(r)
  \/ \E k \in Capacities : SetCapacity(k)
  \/ Tick

Spec == Init /\ [][Next]_vars

-----------------------------------------------------------------------------

TypeOK ==
  /\ now \in Nat
  /\ capacity \in Capacities
  /\ refill_per_sec \in Rates
  /\ tokens \in 0..capacity
  /\ last_refill \in 0..now
  /\ pc \in [Callers -> {"idle", "sampled", "sleeping"}]
  /\ want \in [Callers -> Wants \cup {0}]
  /\ at \in [Callers -> Nat]
  /\ \A c \in Callers : pc[c] = "sampled" => at[c] <= now
  /\ initial \in Nat /\ granted \in Nat /\ spilled \in Nat
  /\ refused \in [Callers -> 0..RefusedCap]

\* Everything the bucket has generated since it was new.
Generated == granted + tokens + spilled - initial

(***************************************************************************)
(* The throttle throttles: up to the last refill the bucket never made     *)
(* more than the highest rate it was ever given makes, however callers     *)
(* with old samples, rate changes and capacity changes interleave.  What   *)
(* callers got is part of it, so their total is bounded by the burst plus  *)
(* that rate (the type's documentation).                                   *)
(***************************************************************************)
NeverFasterThanHighestRate ==
  \A high \in Rates : (\A r \in Rates : r <= high) =>
    Generated * UNIT <= high * last_refill

(***************************************************************************)
(* And it never starves its callers below half the lowest rate: a refill   *)
(* throws the fraction of a token away, but only together with a whole     *)
(* token earned (refill stores `now` only if earned > 0).                  *)
(***************************************************************************)
AtLeastHalfLowestRate ==
  \A low \in Rates : (\A r \in Rates : low <= r) =>
    2 * Generated * UNIT >= low * last_refill

(***************************************************************************)
(* A caller that retries when told to, with nobody else using or changing  *)
(* the bucket, is refused at most three times (the wait is rounded down    *)
(* and the refill drops a fraction, each costing it one round), provided   *)
(* the bucket can hold what it asks and makes at most one token a tick.    *)
(***************************************************************************)
BoundedRetries ==
  \A c \in Callers :
    want[c] <= capacity /\ refill_per_sec \in 1..UNIT => refused[c] <= 3

(***************************************************************************)
(* "refill_per_sec is the steady-state token generation rate" (throttle.rs,*)
(* TokenBucket): at a constant rate the tokens generated up to the last    *)
(* refill are the rate times the time, to within one token.                *)
(***************************************************************************)
SteadyRate ==
  \A r \in Rates : Rates = {r} => (Generated + 1) * UNIT > r * last_refill

=============================================================================
